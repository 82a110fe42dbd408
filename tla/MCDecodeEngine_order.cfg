\* Even against a decoder that hands units back in submission order (a ring
\* of slots), the loop emits a concealed invalid frame ahead of the DST frames
\* still in the pipeline.
CONSTANTS
  Threads   <- MCThreads
  NumFrames <- MCNumFrames
  MaxSeeks  <- MCMaxSeeks
  InOrder   = TRUE

SPECIFICATION Spec

INVARIANT OutputInReadOrder

CHECK_DEADLOCK FALSE
