----------------------------- MODULE PluginHost -----------------------------
(***************************************************************************)
(* The sacdiso plugin's globals shared by the two threads that call it.    *)
(* The database update thread runs UpdateContainerFile(), which calls      *)
(* container_scan(): it opens the container through container_update()    *)
(* and then reads the track list and tags from the global reader.  The     *)
(* decoder thread runs file_decode(): it opens the container of the track  *)
(* it plays and then reads frames from the same global reader until the    *)
(* track ends.  Each open is ContainerCache's ContainerUpdate; the reads    *)
(* happen in later steps, and nothing serializes the two threads.          *)
(***************************************************************************)
EXTENDS Naturals

CONSTANTS Paths, NoPath, Plugins, WithMetabase

VARIABLES
  plugin, exists, cachedPath, media, reader, metabase, opened, wildFree, lastCall,
  pc,      \* per thread: "idle" or "reading" (after a successful open)
  target,  \* per thread: the container it opened
  seen     \* per thread: the container its last read went to (NoPath: none open)

CC == INSTANCE ContainerCache

Threads == {"update", "decoder"}

cacheVars == <<plugin, exists, cachedPath, media, reader, metabase, opened, wildFree, lastCall>>
vars == <<cacheVars, pc, target, seen>>

(* The container a read through the global reader reaches.                 *)
ReaderContainer == IF reader = "open" THEN opened ELSE NoPath

(* container_update() of container_scan() (update thread) or of           *)
(* file_decode() (decoder thread); the thread goes on only on success.    *)
Open(t, p) ==
  /\ pc[t] = "idle"
  /\ CC!ContainerUpdate(p)
  /\ pc' = [pc EXCEPT ![t] = IF lastCall'.result THEN "reading" ELSE "idle"]
  /\ target' = [target EXCEPT ![t] = p]
  /\ seen' = [seen EXCEPT ![t] = p]

(* One read through the global reader: get_tracks(), select_area() and     *)
(* scan_info() of the scan, read_frame() of the decode loop.              *)
Read(t) ==
  /\ pc[t] = "reading"
  /\ seen' = [seen EXCEPT ![t] = ReaderContainer]
  /\ UNCHANGED <<cacheVars, pc, target>>

(* The scan returns its list, or the decode loop ends.                     *)
Done(t) ==
  /\ pc[t] = "reading"
  /\ pc' = [pc EXCEPT ![t] = "idle"]
  /\ UNCHANGED <<cacheVars, target, seen>>

Init ==
  /\ CC!Init
  /\ pc = [t \in Threads |-> "idle"]
  /\ target = [t \in Threads |-> NoPath]
  /\ seen = [t \in Threads |-> NoPath]

Next ==
  \/ \E t \in Threads, p \in Paths : Open(t, p)
  \/ \E t \in Threads : Read(t) \/ Done(t)

Spec == Init /\ [][Next]_vars

(* Every read a thread makes after opening its container reaches that      *)
(* container: the scan lists the tracks of the container it was asked for, *)
(* and the decoder plays frames of the track it set up.  The specification *)
(* (4.1, 5) states this as a precondition on callers: scan and decode of   *)
(* one plugin must be serialized.                                          *)
ReadsOwnContainer ==
  \A t \in Threads : pc[t] = "reading" => seen[t] = target[t]

=============================================================================
