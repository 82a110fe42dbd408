\* The decode loop against a decoder that completes and hands back units in
\* any order (the specification's contract): the safety invariants and
\* termination of every session.
CONSTANTS
  Threads   <- MCThreads
  NumFrames <- MCNumFrames
  MaxSeeks  <- MCMaxSeeks
  InOrder   = FALSE

SPECIFICATION Spec

INVARIANT TypeOK
INVARIANT NoInputClobbered
INVARIANT DrainedAtEndOfStream

PROPERTY Terminates
PROPERTY ImplementsSession

\* A session ends: the final state of every behaviour has pc = "done".
CHECK_DEADLOCK FALSE
