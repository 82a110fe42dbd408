\* After a successful seek, frames read before it and still in the DST
\* pipeline reach the client.
CONSTANTS
  Threads   <- MCThreads
  NumFrames <- MCNumFrames
  MaxSeeks  <- MCMaxSeeks
  InOrder   = TRUE

SPECIFICATION Spec

INVARIANT NoStaleAfterSeek

CHECK_DEADLOCK FALSE
