---------------------------- MODULE DecodeSession ----------------------------
(***************************************************************************)
(* What one decode session promises its client, as the specification's     *)
(* streaming decode engine states it (4.4): while PLAYING it reads frames   *)
(* and hands each one over at most once, holding back at most MaxLag of     *)
(* them in the post-processing pipeline; at the end of the stream it is     *)
(* FLUSHING and hands over what it held back; it is TERMINATED by STOP, by  *)
(* a SEEK taken during the flush, by the end of the flush, or when the      *)
(* post-processing decoder cannot be set up before holding anything back.   *)
(* A SEEK while PLAYING repositions the reader and does not change this     *)
(* state.                                                                  *)
(***************************************************************************)
EXTENDS Naturals, Sequences, FiniteSets

CONSTANTS MaxLag

VARIABLES
  state,    \* "PLAYING", "FLUSHING" or "TERMINATED"
  read,     \* the frames read so far (their serial numbers)
  pending,  \* frames read and not yet handed over
  out,      \* the frames handed to the client, in order
  reason    \* why the session ended

vars == <<state, read, pending, out, reason>>

Init ==
  /\ state = "PLAYING"
  /\ read = {}
  /\ pending = {}
  /\ out = <<>>
  /\ reason = "none"

Next1 == Cardinality(read) + 1

(* One frame is read; at most one frame read so far, the new one included, *)
(* is handed over; no more than MaxLag stay held back.                     *)
Play ==
  /\ state = "PLAYING"
  /\ read' = read \cup {Next1}
  /\ \/ /\ pending' = pending \cup {Next1}
        /\ UNCHANGED out
     \/ \E f \in pending \cup {Next1} :
          /\ pending' = (pending \cup {Next1}) \ {f}
          /\ out' = Append(out, f)
  /\ Cardinality(pending') <= MaxLag
  /\ UNCHANGED <<state, reason>>

Stop ==
  /\ state = "PLAYING"
  /\ state' = "TERMINATED"
  /\ reason' = "stop"
  /\ pending' = {}
  /\ UNCHANGED <<read, out>>

(* The frame that needs the post-processing decoder is read and dropped    *)
(* when the decoder cannot be set up; nothing was held back.               *)
Abort ==
  /\ state = "PLAYING"
  /\ pending = {}
  /\ state' = "TERMINATED"
  /\ reason' = "init_failed"
  /\ read' = read \cup {Next1}
  /\ UNCHANGED <<pending, out>>

EndOfStream ==
  /\ state = "PLAYING"
  /\ state' = "FLUSHING"
  /\ UNCHANGED <<read, pending, out, reason>>

(* The end of the stream with nothing held back and no post-processing    *)
(* decoder to poll: there is nothing to flush.                             *)
EndOfStreamDrained ==
  /\ state = "PLAYING"
  /\ pending = {}
  /\ state' = "TERMINATED"
  /\ reason' = "eos"
  /\ UNCHANGED <<read, pending, out>>

(* One held-back frame is handed over; the client's answer may end the     *)
(* session.                                                                *)
Drain ==
  /\ state = "FLUSHING"
  /\ \E f \in pending :
       /\ out' = Append(out, f)
       /\ \/ /\ pending' = pending \ {f}
             /\ UNCHANGED <<state, reason>>
          \/ /\ state' = "TERMINATED"
             /\ reason' \in {"stop", "seek_in_flush"}
             /\ pending' = {}
  /\ UNCHANGED read

DrainEnd ==
  /\ state = "FLUSHING"
  /\ pending = {}
  /\ state' = "TERMINATED"
  /\ reason' = "eos"
  /\ UNCHANGED <<read, pending, out>>

Next == Play \/ Stop \/ Abort \/ EndOfStream \/ EndOfStreamDrained \/ Drain \/ DrainEnd

Spec == Init /\ [][Next]_vars

=============================================================================
