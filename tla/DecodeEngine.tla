---------------------------- MODULE DecodeEngine ----------------------------
(***************************************************************************)
(* The decode loops of file_decode() after client.Ready(): the DSD loop of *)
(* the sacdiso and dsdiff plugins (identical in SacdIsoDecoderPlugin.cxx   *)
(* and DffDecoderPlugin.cxx) with the multi-threaded DST decoder           *)
(* (dst_decoder_t) it drives, and the PCM loop of the dvdaiso plugin.      *)
(*                                                                         *)
(* The engine is one thread.  Each iteration takes the slot the DST        *)
(* decoder names (slot 0 while there is none), reads one physical frame    *)
(* into that slot's raw buffer, conceals an invalid frame, submits a DST   *)
(* frame to the decoder (created lazily on the first DST frame) and hands  *)
(* whatever decoded frame comes back to the client, whose answer is the    *)
(* next command.  At the end of the track it drains the decoder.  The      *)
(* decoder's worker threads finish the loaded units in any order.  The PCM *)
(* loop hands each non-empty frame over and checks the client's answer;    *)
(* it has no post-processing and ends at the end of the track.             *)
(*                                                                         *)
(* Data is abstracted: a frame is its type and its size class, a decoded   *)
(* or emitted chunk is the serial number of the physical read it came      *)
(* from.  The decoder's source is not part of src/: its contract (a        *)
(* bounded pool of slots, submit/poll, completion in any order) is taken   *)
(* from the specification.                                                 *)
(***************************************************************************)
EXTENDS Naturals, Sequences, FiniteSets, SequencesExt

CONSTANTS
  Threads,    \* param_dstdec_threads: the DST decoder's slots and workers
  NumFrames,  \* physical frames of the selected track
  MaxSeeks,   \* SEEK commands the client issues during one session
  InOrder     \* TRUE: the decoder hands units back in submission order

ASSUME Threads \in Nat \ {0}
ASSUME NumFrames \in Nat \ {0}
ASSUME MaxSeeks \in Nat
ASSUME InOrder \in BOOLEAN

VARIABLES
  pc,        \* where file_decode is: "read", "command", "flush", "done"
  frames,    \* the track as the reader returns it, frame by frame
  pos,       \* the reader's position: the next frame read_frame returns
  cmd,       \* the last DecoderCommand the client returned
  seeks,     \* SEEK commands the client has issued
  epoch,     \* successful seeks so far
  decoder,   \* dst_decoder != nullptr
  pool,      \* units loaded in the decoder, one per busy slot
  slotNr,    \* dst_decoder->get_slot_nr(): the slot the decoder loads next
  raw,       \* raw[s]: serial of the frame whose bytes are in dst_buf slot s
  nread,     \* frames with data read so far (their serial numbers)
  readSet,   \* serials of the frames with data read so far
  emitted,   \* the chunks handed to client.SubmitData, in order
  exit       \* why the loop ended

vars == <<pc, frames, pos, cmd, seeks, epoch, decoder, pool, slotNr, raw,
          nread, readSet, emitted, exit>>

Full  == 2   \* dst_buf_size = samplerate / 8 / framerate * channels
Short == 1   \* a frame the reader delivers shorter than that
Slots == 0 .. Threads - 1
MaxSerial == NumFrames * (MaxSeeks + 1)

Commands == {"NONE", "STOP", "SEEK"}
Exits == {"none", "stop", "eos", "seek_in_flush", "init_failed"}
FrameTypes == {"FRAME_DSD", "FRAME_DST", "FRAME_INVALID"}

(* What read_frame() can return for one frame of a plain DSD track and of *)
(* a DST-coded track: data of the track's type, a corrupted frame of any   *)
(* length, or success with no data.                                        *)
TrackFrames(dst) ==
  {[type |-> IF dst THEN "FRAME_DST" ELSE "FRAME_DSD", size |-> s] : s \in {0, Full}}
    \cup {[type |-> "FRAME_INVALID", size |-> s] : s \in {Short, Full}}

(* What dvda_reader->read_frame() can return for one frame of a PCM track: *)
(* PCM data (its size does not matter to the loop) or success with no data. *)
PcmFrames == {[type |-> "PCM", size |-> s] : s \in {0, Full}}

(* The track is played by the dvdaiso PCM loop.                            *)
IsPcm == \E i \in DOMAIN frames : frames[i].type = "PCM"

Unit  == [serial : 1 .. MaxSerial, slot : Slots, buf : Slots,
          done : BOOLEAN, epoch : 0 .. MaxSeeks]
Chunk == [serial : 1 .. MaxSerial, epoch : 0 .. MaxSeeks, at : 0 .. MaxSeeks,
          size : {Short, Full}]

(***************************************************************************)
(* The DST decoder (dst_decoder_t): a pool of Threads slots.  decode()     *)
(* with a frame loads it into the current slot; when every slot is loaded  *)
(* it waits for a finished unit and hands it back, otherwise it may hand   *)
(* back a finished one or nothing.  decode() with no input waits for a     *)
(* finished unit while any is loaded.  In order, the unit handed back is   *)
(* always the oldest loaded one.                                           *)
(***************************************************************************)
FreeSlots(p) == Slots \ {u.slot : u \in p}

Returnable(p) ==
  IF InOrder THEN {u \in p : u.done /\ \A v \in p : u.serial <= v.serial}
             ELSE {u \in p : u.done}

DecodeOutcomes(p) ==
  IF Cardinality(p) = Threads
  THEN {[pool |-> p \ {u}, out |-> {u}] : u \in Returnable(p)}
  ELSE {[pool |-> p, out |-> {}]}
         \cup (IF InOrder THEN {}
               ELSE {[pool |-> p \ {u}, out |-> {u}] : u \in Returnable(p)})

NextSlots(p) ==
  IF InOrder THEN {(slotNr + 1) % Threads} ELSE FreeSlots(p)

DecoderSlot == IF decoder THEN slotNr ELSE 0

(***************************************************************************)
(* The engine.                                                             *)
(***************************************************************************)

(* Seeded fault: the engine reads every frame into slot 0.                 *)
ReadSlotFirst == 0

(* slot_nr = dst_decoder ? dst_decoder->get_slot_nr() : 0                  *)
ReadSlot == IF decoder THEN slotNr ELSE 0

(* dst_size after concealment: an invalid frame is filled with 0xAA to the *)
(* full frame size.                                                        *)
FrameSize(f) == IF f.type = "FRAME_INVALID" THEN Full ELSE f.size

(* Seeded fault: the dst_size > 0 test is dropped.                         *)
HasDataAlways(f) == TRUE

(* read_frame() returned data: dst_size > 0                                *)
HasData(f) == f.size > 0

(* client.SubmitData() of one chunk (bit-reversed first when lsbitfirst,   *)
(* which does not change what is handed over).                            *)
Emit(serial, readEpoch, size) ==
  emitted' = Append(emitted, [serial |-> serial, epoch |-> readEpoch,
                              at |-> epoch, size |-> size])

(* The command GetCommand() returns: any, a new SEEK while the client has  *)
(* seeks left.                                                             *)
NewCommand ==
  \E c \in Commands :
    /\ c = "SEEK" => seeks < MaxSeeks
    /\ cmd' = c
    /\ seeks' = IF c = "SEEK" THEN seeks + 1 ELSE seeks

(* The command SubmitData() returns: a STOP or SEEK the client has issued  *)
(* stays pending until the decoder acknowledges it, so it is returned      *)
(* again; otherwise the client may issue a new one.                        *)
IssueCommand ==
  IF cmd \in {"STOP", "SEEK"} THEN UNCHANGED <<cmd, seeks>> ELSE NewCommand

(* Seeded fault: the decoder is not deleted when the loop is left.         *)
ExitKeepsDecoder(reason) ==
  /\ pc' = "done"
  /\ exit' = reason
  /\ UNCHANGED <<decoder, pool>>

(* The loop is left; the decoder, if any, is deleted with its units.       *)
Exit(reason) ==
  /\ pc' = "done"
  /\ exit' = reason
  /\ decoder' = FALSE
  /\ pool' = {}

(* read_frame() of the DSD loop at a position inside the track.            *)
CanRead == pc = "read" /\ pos < NumFrames /\ ~IsPcm

(* A DSD frame or an invalid frame: concealed, emitted as it is.           *)
ReadPlainFrame ==
  /\ CanRead
  /\ pos' = pos + 1
  /\ LET f == frames[pos] IN
    /\ HasData(f)
    /\ f.type # "FRAME_DST"
    /\ raw' = [raw EXCEPT ![ReadSlot] = nread + 1]
    /\ nread' = nread + 1
    /\ readSet' = readSet \cup {nread + 1}
    /\ Emit(nread + 1, epoch, FrameSize(f))
    /\ IssueCommand
    /\ pc' = "command"
    /\ UNCHANGED <<frames, epoch, decoder, pool, slotNr, exit>>

(* read_frame() succeeded with no data: nothing is emitted.                *)
ReadEmptyFrame ==
  /\ CanRead
  /\ pos' = pos + 1
  /\ LET f == frames[pos] IN
    /\ ~HasData(f)
    /\ pc' = "command"
    /\ UNCHANGED <<frames, cmd, seeks, epoch, decoder, pool, slotNr, raw,
                   nread, readSet, emitted, exit>>

(* A DST frame: the decoder is created on the first one and submitted the *)
(* frame; a finished unit it hands back is emitted.                        *)
ReadDstFrame ==
  /\ CanRead
  /\ pos' = pos + 1
  /\ LET f == frames[pos] IN
    /\ HasData(f)
    /\ f.type = "FRAME_DST"
    /\ raw' = [raw EXCEPT ![ReadSlot] = nread + 1]
    /\ nread' = nread + 1
    /\ readSet' = readSet \cup {nread + 1}
    /\ LET unit == [serial |-> nread + 1, slot |-> DecoderSlot, buf |-> ReadSlot,
                    done |-> FALSE, epoch |-> epoch]
       IN \E o \in DecodeOutcomes(pool \cup {unit}) :
            /\ decoder' = TRUE
            /\ pool' = o.pool
            /\ slotNr' \in NextSlots(o.pool)
            /\ IF o.out = {}
                 THEN UNCHANGED <<emitted, cmd, seeks>>
                 ELSE \E u \in o.out : Emit(u.serial, u.epoch, Full) /\ IssueCommand
    /\ pc' = "command"
    /\ UNCHANGED <<frames, epoch, exit>>

(* The first DST frame: dst_decoder_t.init() fails and the loop breaks.    *)
DstInitFails ==
  /\ CanRead
  /\ pos' = pos + 1
  /\ LET f == frames[pos] IN
    /\ HasData(f)
    /\ f.type = "FRAME_DST"
    /\ ~decoder
    /\ raw' = [raw EXCEPT ![ReadSlot] = nread + 1]
    /\ nread' = nread + 1
    /\ readSet' = readSet \cup {nread + 1}
    /\ Exit("init_failed")
    /\ UNCHANGED <<frames, cmd, seeks, epoch, slotNr, emitted>>

(* read_frame() returned false: the end of the track.                      *)
EndOfStream ==
  /\ pc = "read"
  /\ ~IsPcm
  /\ pos = NumFrames
  /\ pc' = "flush"
  /\ UNCHANGED <<frames, pos, cmd, seeks, epoch, decoder, pool, slotNr, raw,
                 nread, readSet, emitted, exit>>

(* STOP in the command tail: the loop is left.                            *)
HandleStop ==
  /\ pc = "command"
  /\ cmd = "STOP"
  /\ Exit("stop")
  /\ UNCHANGED <<frames, pos, cmd, seeks, epoch, slotNr, raw, nread, readSet,
                 emitted>>

(* sacd_reader->seek() / dvda_reader->seek(): on success the reader is at  *)
(* the target frame and CommandFinished(), on failure it stays and         *)
(* SeekError().                                                            *)
SeekReader ==
  \/ /\ \E target \in 0 .. NumFrames - 1 : pos' = target
     /\ epoch' = epoch + 1
  \/ UNCHANGED <<pos, epoch>>

(* The command tail of both loops (dvdaiso runs it only after a non-empty *)
(* frame): STOP leaves the loop; SEEK repositions the reader and fetches  *)
(* the next command with GetCommand(); otherwise the loop goes on.          *)
HandleSeek ==
  /\ pc = "command"
  /\ cmd = "SEEK"
  /\ SeekReader
  /\ NewCommand
  /\ pc' = "read"
  /\ UNCHANGED <<frames, decoder, pool, slotNr, raw, nread, readSet, emitted,
                 exit>>

Continue ==
  /\ pc = "command"
  /\ cmd = "NONE"
  /\ pc' = "read"
  /\ UNCHANGED <<frames, pos, cmd, seeks, epoch, decoder, pool, slotNr, raw,
                 nread, readSet, emitted, exit>>

(* dvdaiso: read_frame() into pcm_data returned a non-empty frame, which  *)
(* SubmitData() hands over; the answer is checked in the command tail.    *)
ReadPcmFrame ==
  /\ pc = "read"
  /\ IsPcm
  /\ pos < NumFrames
  /\ pos' = pos + 1
  /\ HasData(frames[pos])
  /\ nread' = nread + 1
  /\ readSet' = readSet \cup {nread + 1}
  /\ Emit(nread + 1, epoch, frames[pos].size)
  /\ IssueCommand
  /\ pc' = "command"
  /\ UNCHANGED <<frames, epoch, decoder, pool, slotNr, raw, exit>>

(* dvdaiso: an empty frame; the loop reads on without checking a command.  *)
ReadPcmEmpty ==
  /\ pc = "read"
  /\ IsPcm
  /\ pos < NumFrames
  /\ pos' = pos + 1
  /\ ~HasData(frames[pos])
  /\ UNCHANGED <<pc, frames, cmd, seeks, epoch, decoder, pool, slotNr, raw,
                 nread, readSet, emitted, exit>>

(* dvdaiso: read_frame() returned false; the loop ends, nothing is held.   *)
PcmEndOfStream ==
  /\ pc = "read"
  /\ IsPcm
  /\ pos = NumFrames
  /\ Exit("eos")
  /\ UNCHANGED <<frames, pos, cmd, seeks, epoch, slotNr, raw, nread, readSet,
                 emitted>>

(* The drain loop after the end of the track: decode() with no input       *)
(* until it hands back nothing, or the client answers STOP or SEEK.        *)
FlushOutput ==
  /\ pc = "flush"
  /\ decoder
  /\ \E u \in Returnable(pool) :
       /\ Emit(u.serial, u.epoch, Full)
       /\ IssueCommand
       /\ IF cmd' \in {"STOP", "SEEK"}
            THEN Exit(IF cmd' = "STOP" THEN "stop" ELSE "seek_in_flush")
            ELSE /\ pool' = pool \ {u}
                 /\ UNCHANGED <<pc, exit, decoder>>
  /\ UNCHANGED <<frames, pos, epoch, slotNr, raw, nread, readSet>>

(* Seeded fault: the drain loop only stops when there is no decoder.       *)
FlushDoneWithoutDecoder == ~decoder

(* Seeded fault: the drain loop stops when no unit is finished yet.       *)
FlushDoneWhenIdle == ~decoder \/ Returnable(pool) = {}

(* decode() with no input handed back nothing (dsd_size == 0).             *)
FlushDone == ~decoder \/ pool = {}

FlushEnd ==
  /\ pc = "flush"
  /\ FlushDone
  /\ Exit("eos")
  /\ UNCHANGED <<frames, pos, cmd, seeks, epoch, slotNr, raw, nread, readSet,
                 emitted>>

(* A DST worker thread finishes the unit of one loaded slot.               *)
WorkerDecode ==
  \E u \in pool :
    /\ ~u.done
    /\ pool' = (pool \ {u}) \cup {[u EXCEPT !.done = TRUE]}
    /\ UNCHANGED <<pc, frames, pos, cmd, seeks, epoch, decoder, slotNr, raw,
                   nread, readSet, emitted, exit>>

(* After client.Ready(): no decoder, slot 0, the first GetCommand().      *)
Init ==
  /\ \/ \E dst \in BOOLEAN : frames \in [0 .. NumFrames - 1 -> TrackFrames(dst)]
     \/ frames \in [0 .. NumFrames - 1 -> PcmFrames]
  /\ pc = "read"
  /\ pos = 0
  /\ cmd \in {"NONE", "STOP"} \cup (IF MaxSeeks > 0 THEN {"SEEK"} ELSE {})
  /\ seeks = IF cmd = "SEEK" THEN 1 ELSE 0
  /\ epoch = 0
  /\ decoder = FALSE
  /\ pool = {}
  /\ slotNr = 0
  /\ raw = [s \in Slots |-> 0]
  /\ nread = 0
  /\ readSet = {}
  /\ emitted = <<>>
  /\ exit = "none"

Engine ==
  \/ ReadPlainFrame \/ ReadEmptyFrame \/ ReadDstFrame \/ DstInitFails
  \/ EndOfStream \/ HandleStop \/ HandleSeek \/ Continue
  \/ FlushOutput \/ FlushEnd
  \/ ReadPcmFrame \/ ReadPcmEmpty \/ PcmEndOfStream

Next == Engine \/ WorkerDecode

(* The engine thread runs whenever it can, and so do the worker threads.   *)
(* The client is not an actor: its answers are the choices in IssueCommand.*)
Spec == Init /\ [][Next]_vars /\ WF_vars(Engine) /\ WF_vars(WorkerDecode)

(***************************************************************************)
(* Properties.                                                             *)
(***************************************************************************)

TypeOK ==
  /\ pc \in {"read", "command", "flush", "done"}
  /\ frames \in [0 .. NumFrames - 1 -> TrackFrames(FALSE) \cup TrackFrames(TRUE) \cup PcmFrames]
  /\ pos \in 0 .. NumFrames
  /\ cmd \in Commands
  /\ seeks \in 0 .. MaxSeeks /\ epoch \in 0 .. seeks
  /\ decoder \in BOOLEAN
  /\ pool \subseteq Unit /\ Cardinality(pool) < Threads
  /\ slotNr \in Slots
  /\ raw \in [Slots -> 0 .. MaxSerial]
  /\ nread \in 0 .. MaxSerial /\ readSet \subseteq 1 .. nread
  /\ emitted \in Seq(Chunk)
  /\ exit \in Exits

(* The engine reads a frame only into a slot whose raw buffer no DST       *)
(* worker is still decoding: the input of every unfinished unit is intact. *)
NoInputClobbered ==
  \A u \in pool : ~u.done => raw[u.buf] = u.serial

(* When the track ends without a STOP or SEEK, the drain loop has handed   *)
(* every frame read, including those still in the DST pipeline, to the    *)
(* client exactly once.                                                    *)
DrainedAtEndOfStream ==
  exit = "eos" =>
    /\ {emitted[i].serial : i \in DOMAIN emitted} = readSet
    /\ Len(emitted) = Cardinality(readSet)

(* Every session ends: the loop never waits forever on the decoder.        *)
Terminates == <>(pc = "done")

(* The engine implements the session the specification describes (4.4):   *)
(* PLAYING while it reads and handles commands, FLUSHING in the drain loop, *)
(* TERMINATED after the loop; the frames held back are those in the DST     *)
(* decoder's slots.  So the client gets only frames that were read, each   *)
(* at most once, with at most Threads - 1 held back; the session ends only  *)
(* by STOP, a SEEK in the drain, a completed drain, or a decoder that      *)
(* cannot be created before anything was held back.                        *)
Session == INSTANCE DecodeSession WITH
  MaxLag  <- Threads - 1,
  state   <- CASE pc \in {"read", "command"} -> "PLAYING"
               [] pc = "flush"                -> "FLUSHING"
               [] pc = "done"                 -> "TERMINATED",
  read    <- readSet,
  pending <- {u.serial : u \in pool},
  out     <- [i \in DOMAIN emitted |-> emitted[i].serial],
  reason  <- exit

ImplementsSession == Session!Spec

(* The client receives the frames in the order they were read.            *)
OutputInReadOrder ==
  IsSorted([i \in DOMAIN emitted |-> emitted[i].serial], <)

(* After a successful seek the client only receives frames read after it. *)
NoStaleAfterSeek ==
  \A i \in DOMAIN emitted : emitted[i].epoch = emitted[i].at

=============================================================================
