---------------------------- MODULE FrameWriter ----------------------------
(* How the frames that protocol.Stream lets through become "sse" messages:  *)
(* Stream writes a frame, or all that it has held back, to a bufio.Writer   *)
(* and flushes; each write of that writer is one emitWriter.Write, that is  *)
(* one message.  A frame is a sequence of bytes, each the first of a        *)
(* character ("lead") or a further one ("cont").                            *)
(*                                                                          *)
(* D_M is D with the mistake M in it, used by no other definition.          *)
EXTENDS Naturals, Sequences, SequencesExt

CONSTANTS Frames,     \* the frames that may come
          BufSize,    \* bytes the bufio.Writer holds (4096 by default)
          MaxFrames   \* bound on the frames of one stream

ASSUME FramesAssumption == Frames \subseteq Seq({"lead", "cont"}) \ {<<>>}
ASSUME BufAssumption == BufSize \in Nat \ {0} /\ MaxFrames \in Nat

VARIABLES frames,  \* frames given to the writer before this batch (history)
          batch,   \* frames written since the last flush
          rest,    \* what WriteString has not copied of the latest
          buf,     \* the writer's buffer
          sent,    \* messages emitted
          early,   \* of these, the ones before this batch (history)
          at       \* where Stream's callback is

vars == <<frames, batch, rest, buf, sent, early, at>>

Init == /\ frames = <<>> /\ batch = <<>> /\ rest = <<>> /\ buf = <<>>
        /\ sent = <<>> /\ early = 0 /\ at = "reading"

Available == BufSize - Len(buf)

(* The first frame after a flush, or flushBuffered's next one.              *)
WriteString(f) ==
  /\ at \in {"reading", "written"} /\ Len(frames) + Len(batch) < MaxFrames
  /\ batch' = Append(batch, f) /\ rest' = f /\ at' = "copying"
  /\ UNCHANGED <<frames, buf, sent, early>>

(* WriteString: more than fits, so the buffer is filled and written out.    *)
Overflow ==
  /\ at = "copying" /\ Len(rest) > Available
  /\ sent' = Append(sent, buf \o SubSeq(rest, 1, Available))
  /\ buf' = <<>>
  /\ rest' = SubSeq(rest, Available + 1, Len(rest))
  /\ UNCHANGED <<frames, batch, early, at>>

Copy ==
  /\ at = "copying" /\ Len(rest) <= Available
  /\ buf' = buf \o rest /\ rest' = <<>> /\ at' = "written"
  /\ UNCHANGED <<frames, batch, sent, early>>

Flush_Skipped ==
  /\ at = "written" /\ at' = "reading"
  /\ frames' = frames \o batch /\ batch' = <<>> /\ early' = Len(sent)
  /\ UNCHANGED <<rest, buf, sent>>
Flush ==
  /\ at = "written" /\ at' = "reading"
  /\ sent' = IF buf = <<>> THEN sent ELSE Append(sent, buf)
  /\ buf' = <<>>
  /\ frames' = frames \o batch /\ batch' = <<>> /\ early' = Len(sent')
  /\ UNCHANGED rest

Next == (\E f \in Frames : WriteString(f)) \/ Overflow \/ Copy \/ Flush
Spec == Init /\ [][Next]_vars

------------------------------------------------------------------------------
(* What is written between two flushes is out, all of it and in order, when *)
(* the next frame is awaited, which may be long in coming (stream.go:63).   *)
(* It is one message if it fits the buffer, and if not, all but the last    *)
(* are full: frames are cut only in a batch that is too long, and two       *)
(* batches never share a message.                                           *)
BatchesWhole ==
  [][at = "written" /\ at' = "reading" =>
       LET mine == SubSeq(sent', early + 1, Len(sent')) IN
       /\ FlattenSeq(mine) = FlattenSeq(batch)
       /\ \A i \in 1..(Len(mine) - 1) : Len(mine[i]) = BufSize]_vars

(* rpc.go:175: emitWriter makes one message of one frame; so a message is   *)
(* text, made of whole characters, which its JSON string can carry.         *)
CharactersWhole == \A m \in ToSet(sent) : m[1] = "lead"
==============================================================================
