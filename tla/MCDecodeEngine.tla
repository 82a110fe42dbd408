--------------------------- MODULE MCDecodeEngine ---------------------------
(***************************************************************************)
(* DecodeEngine instantiated for TLC: three DST slots (two units can wait *)
(* in the pipeline, so completions can overtake each other), a four-frame *)
(* track (room for frames to be in flight at a seek and at the end of the *)
(* track) and at most one SEEK per session.                                *)
(***************************************************************************)
EXTENDS DecodeEngine

MCThreads   == 3
MCNumFrames == 4
MCMaxSeeks  == 1

=============================================================================
