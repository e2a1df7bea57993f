------------------------------ MODULE VideoStream ------------------------------
(***************************************************************************)
(* The server's video sender: the capture thread of video_capture.rs and   *)
(* the task VideoStreamTask::run of video_stream.rs, which encodes the     *)
(* newest captured frame and sends each MPEG packet as RTP fragments.      *)
(*                                                                         *)
(* The frame watch channel keeps the number of the newest frame (0 is the  *)
(* empty frame it is created with) and whether the task has seen it.  The  *)
(* encoder (ffmpeg) is external: it turns a frame into any short sequence  *)
(* of packets.  A packet is its identity and its length; its k-th byte is  *)
(* <<id, k>>, so a payload tells where every byte comes from.              *)
(*                                                                         *)
(* A definition named X_<mistake> is X with a plausible mistake, used only *)
(* by the mutation runs.                                                   *)
(***************************************************************************)
EXTENDS RtpSequence, Sequences

CONSTANTS
  MaxPayload,     \* MTU less the two headers: bytes of MPEG data per fragment
  MaxFragCount,   \* u16::MAX: the most fragments one packet may need
  PacketLengths,  \* lengths an encoded packet may have; 0 is one without data
  MaxPackets,     \* bound: packets one frame may encode to
  MaxFrames,      \* bound: frames the screen produces
  MaxWire,        \* bound: datagrams the network holds
  MaySendFail,    \* TRUE where send_to may return an error
  MayStop         \* FALSE to leave out all that ends the stream: the token, the
                  \* end of the capture, an error of the capture or the encoder

ASSUME StreamAssumption ==
  /\ MaxPayload \in Nat \ {0}
  /\ MaxFragCount \in Nat
  /\ PacketLengths \subseteq Nat
  /\ MaxPackets \in Nat
  /\ MaxFrames \in Nat
  /\ MaxWire \in Nat
  /\ MaySendFail \in BOOLEAN
  /\ MayStop \in BOOLEAN

VARIABLES
  capture_open,   \* the capture thread still holds the watch's sender
  frame,          \* the newest captured frame, 0 for the empty one
  unseen,         \* the watch has a frame the task has not marked as seen
  cancelled,      \* the task's cancellation token
  pc,             \* where the task is
  stopped_receiving_frames,
  encoded_frame,  \* the frame encoded last, NoFrame before the first
  packets,        \* packets of that frame still to be sent, the head under way
  frag_index,     \* next fragment of the head
  sequence_number,
  produced,       \* how many packets the encoder has returned
  sent,           \* the packets sent to their last fragment, in order
  wire            \* datagrams handed to the network

captureVars == <<capture_open, frame, unseen>>
sendVars == <<packets, frag_index, sequence_number, produced, sent, wire>>
streamVars == <<captureVars, sendVars, cancelled, pc,
                stopped_receiving_frames, encoded_frame>>

NoFrame == -1

-----------------------------------------------------------------------------
(* Fragmentation.                                                          *)

FragCount(len) == (len + MaxPayload - 1) \div MaxPayload

Fragment_OffsetIsIndex(p, seq, i) ==
  LET start == i * MaxPayload
      end == IF start + MaxPayload < p.len THEN start + MaxPayload ELSE p.len
  IN  [kind |-> "fragment", seq |-> seq, total_len |-> p.len, frag_index |-> i,
       frag_count |-> FragCount(p.len), frag_offset |-> i,
       bytes |-> [k \in 1 .. end - start |-> <<p.id, start + k - 1>>]]

\* The RTP datagram of fragment i of packet p.
Fragment(p, seq, i) ==
  LET start == i * MaxPayload
      end == IF start + MaxPayload < p.len THEN start + MaxPayload ELSE p.len
  IN  [kind |-> "fragment", seq |-> seq, total_len |-> p.len, frag_index |-> i,
       frag_count |-> FragCount(p.len), frag_offset |-> start,
       bytes |-> [k \in 1 .. end - start |-> <<p.id, start + k - 1>>]]

TooLarge(p) == FragCount(p.len) > MaxFragCount

\* What encode_frame may return, numbered on from the packets before.
Encodings ==
  {[k \in DOMAIN lens |-> [id |-> produced + k, len |-> lens[k]]] :
     lens \in UNION {[1 .. n -> PacketLengths] : n \in 0 .. MaxPackets}}

-----------------------------------------------------------------------------
(* The capture thread.                                                     *)

\* `run` borrows the frame until the end of the loop body, across the awaits of
\* the sends: frame_sender.send waits for that read lock.
FrameBorrowed == pc = "sending"

CaptureFrame ==
  /\ capture_open
  /\ pc # "stopped"
  /\ ~FrameBorrowed
  /\ frame < MaxFrames
  /\ frame' = frame + 1
  /\ unseen' = TRUE
  /\ UNCHANGED <<capture_open, sendVars, cancelled, pc,
                 stopped_receiving_frames, encoded_frame>>

\* The recorder's stream ends, or `send` fails because the receiver is gone.
CaptureEnds ==
  /\ MayStop
  /\ capture_open
  /\ capture_open' = FALSE
  /\ UNCHANGED <<frame, unseen, sendVars, cancelled, pc,
                 stopped_receiving_frames, encoded_frame>>

-----------------------------------------------------------------------------
(* The task.                                                               *)

\* VideoCapture::start and Mpeg1Encoder::new, either of which may fail.
Start ==
  /\ pc = "starting"
  /\ pc' \in {"select"} \cup (IF MayStop THEN {"stopped"} ELSE {})
  /\ UNCHANGED <<captureVars, sendVars, cancelled, stopped_receiving_frames,
                 encoded_frame>>

Cancel ==
  /\ MayStop
  /\ ~cancelled
  /\ cancelled' = TRUE
  /\ UNCHANGED <<captureVars, sendVars, pc, stopped_receiving_frames, encoded_frame>>

SelectCancelled ==
  /\ pc = "select"
  /\ cancelled
  /\ pc' = "stopping"
  /\ UNCHANGED <<captureVars, sendVars, cancelled, stopped_receiving_frames,
                 encoded_frame>>

\* frame_receiver.changed(), polled only once no frame came for a tick, resolves
\* for a new frame and for a closed channel alike.
ChangedReady == stopped_receiving_frames /\ (unseen \/ ~capture_open)

SelectChanged_NotMarked ==
  /\ pc = "select"
  /\ ~cancelled
  /\ ChangedReady
  /\ unseen' = FALSE
  /\ pc' = "checking"
  /\ UNCHANGED <<capture_open, frame, sendVars, cancelled,
                 stopped_receiving_frames, encoded_frame>>

\* ... and mark_changed() makes the value it consumed count as unseen again.
SelectChanged ==
  /\ pc = "select"
  /\ ~cancelled
  /\ ChangedReady
  /\ unseen' = TRUE
  /\ pc' = "checking"
  /\ UNCHANGED <<capture_open, frame, sendVars, cancelled,
                 stopped_receiving_frames, encoded_frame>>

SelectTick ==
  /\ pc = "select"
  /\ ~cancelled
  /\ ~ChangedReady
  /\ pc' = "checking"
  /\ UNCHANGED <<captureVars, sendVars, cancelled, stopped_receiving_frames,
                 encoded_frame>>

HasChanged_UnseenFirst ==
  IF unseen THEN "new" ELSE IF ~capture_open THEN "closed" ELSE "same"

\* has_changed() is an error as soon as the sender is gone, unseen frame or not.
HasChanged ==
  IF ~capture_open THEN "closed" ELSE IF unseen THEN "new" ELSE "same"

CheckNothingNew ==
  /\ pc = "checking"
  /\ HasChanged = "same"
  /\ stopped_receiving_frames' = TRUE
  /\ pc' = "select"
  /\ UNCHANGED <<captureVars, sendVars, cancelled, encoded_frame>>

CheckClosed_KeepsWaiting ==
  /\ pc = "checking"
  /\ HasChanged = "closed"
  /\ pc' = "select"
  /\ UNCHANGED <<captureVars, sendVars, cancelled, stopped_receiving_frames,
                 encoded_frame>>

CheckClosed ==
  /\ pc = "checking"
  /\ HasChanged = "closed"
  /\ pc' = "stopping"
  /\ UNCHANGED <<captureVars, sendVars, cancelled, stopped_receiving_frames,
                 encoded_frame>>

TakeFrame_NotSeen ==
  /\ pc = "checking"
  /\ HasChanged = "new"
  /\ stopped_receiving_frames' = FALSE
  /\ encoded_frame' = frame
  /\ UNCHANGED <<captureVars, cancelled>>

\* A new frame: borrow_and_update marks it seen, and it is encoded.
TakeFrame ==
  /\ pc = "checking"
  /\ HasChanged = "new"
  /\ stopped_receiving_frames' = FALSE
  /\ unseen' = FALSE
  /\ encoded_frame' = frame
  /\ UNCHANGED <<capture_open, frame, cancelled>>

EncodeFrame ==
  /\ TakeFrame
  /\ \E ps \in Encodings :
       /\ packets' = ps
       /\ produced' = produced + Len(ps)
       /\ pc' = IF ps = <<>> THEN "select" ELSE "sending"
  /\ UNCHANGED <<frag_index, sequence_number, sent, wire>>

\* encode_frame(..)? returns from `run`, past video_recorder.stop().
EncodeFails ==
  /\ MayStop
  /\ TakeFrame
  /\ pc' = "stopped"
  /\ UNCHANGED sendVars

NextPacket_StaysSending ==
  /\ packets' = Tail(packets)
  /\ frag_index' = 0
  /\ pc' = "sending"

\* On to the next packet of the frame, or back to the select after the last.
NextPacket ==
  /\ packets' = Tail(packets)
  /\ frag_index' = 0
  /\ pc' = IF Len(packets) = 1 THEN "select" ELSE "sending"

SkipPacket ==
  /\ pc = "sending"
  /\ Head(packets).len = 0
  /\ NextPacket
  /\ UNCHANGED <<captureVars, cancelled, stopped_receiving_frames, encoded_frame,
                 sequence_number, produced, sent, wire>>

AdvanceSequence_Never == UNCHANGED sequence_number
AdvanceSequence == sequence_number' = (sequence_number + 1) % SeqModulus

SendFragment ==
  /\ pc = "sending"
  /\ Head(packets).len > 0
  /\ ~TooLarge(Head(packets))
  /\ Len(wire) < MaxWire
  /\ wire' = Append(wire, Fragment(Head(packets), sequence_number, frag_index))
  /\ IF frag_index + 1 = FragCount(Head(packets).len)
     THEN /\ NextPacket
          /\ AdvanceSequence
          /\ sent' = Append(sent, Head(packets))
     ELSE /\ frag_index' = frag_index + 1
          /\ UNCHANGED <<packets, sequence_number, sent, pc>>
  /\ UNCHANGED <<captureVars, cancelled, stopped_receiving_frames, encoded_frame,
                 produced>>

\* send_mpeg_rtp_packet returns an error: the rest of the frame is given up, and
\* sequence_number has not advanced, however many fragments went out.
SendFails ==
  /\ pc = "sending"
  /\ Head(packets).len > 0
  /\ MaySendFail \/ TooLarge(Head(packets))
  /\ packets' = <<>>
  /\ frag_index' = 0
  /\ pc' = "select"
  /\ UNCHANGED <<captureVars, cancelled, stopped_receiving_frames, encoded_frame,
                 sequence_number, produced, sent, wire>>

\* video_recorder.stop(): the task returns whether or not that succeeds.
Stop ==
  /\ pc = "stopping"
  /\ pc' = "stopped"
  /\ UNCHANGED <<captureVars, sendVars, cancelled, stopped_receiving_frames,
                 encoded_frame>>

StreamTask ==
  \/ Start \/ SelectCancelled \/ SelectChanged \/ SelectTick
  \/ CheckNothingNew \/ CheckClosed \/ EncodeFrame \/ EncodeFails
  \/ SkipPacket \/ SendFragment \/ SendFails \/ Stop

StreamInit ==
  /\ capture_open = TRUE
  /\ frame = 0
  /\ unseen = FALSE
  /\ cancelled = FALSE
  /\ pc = "starting"
  /\ stopped_receiving_frames = FALSE
  /\ encoded_frame = NoFrame
  /\ packets = <<>>
  /\ frag_index = 0
  /\ sequence_number = 0
  /\ produced = 0
  /\ sent = <<>>
  /\ wire = <<>>

StreamNext == CaptureFrame \/ CaptureEnds \/ Cancel \/ StreamTask

\* The pinned worker keeps polling the task: its timer fires and its sends
\* complete.  Nothing is assumed of the screen or of the token.
StreamSpec ==
  StreamInit /\ [][StreamNext]_streamVars /\ WF_streamVars(StreamTask)
-----------------------------------------------------------------------------
(* Correctness.                                                            *)

\* The variables are well formed.
StreamTypeOK ==
  /\ capture_open \in BOOLEAN /\ unseen \in BOOLEAN /\ cancelled \in BOOLEAN
  /\ stopped_receiving_frames \in BOOLEAN
  /\ frame \in 0 .. MaxFrames
  /\ encoded_frame \in {NoFrame} \cup 0 .. frame
  /\ pc \in {"starting", "select", "checking", "sending", "stopping", "stopped"}
  /\ (pc = "sending") <=> (packets # <<>>)
  /\ frag_index \in Nat
  /\ sequence_number \in 0 .. SeqModulus - 1
  /\ Len(sent) <= produced
  /\ Len(wire) <= MaxWire

\* The empty 0x0 frame the watch channel is created with (video_capture.rs:29) is
\* never encoded, although a closed channel makes `changed` resolve and
\* mark_changed then flags that frame as new: its pixel copy would be out of
\* bounds.
EmptyFrameNeverEncoded == encoded_frame # 0

\* No captured frame is encoded twice and none older than the last: each encode
\* moves on to a later frame, through every mark_changed and missed tick.
FramesAdvance ==
  [][encoded_frame' # encoded_frame \/ (packets = <<>> /\ packets' # <<>>)
       => encoded_frame < encoded_frame']_streamVars

GivenUp(id) == \A n \in DOMAIN sent : sent[n].id # id

\* A number identifies one packet: two datagrams with the same sequence number
\* agree in the packet their bytes come from and in its fragment header ("Use a
\* single RTP sequence number to identify this MPEG packet", video_stream.rs:171).
\* The exception is a packet given up after a failed send: fragments of it that
\* went out before keep the number the next packet uses (video_stream.rs:201-205).
OneNumberPerPacket ==
  \A i, j \in DOMAIN wire :
    wire[i].seq = wire[j].seq
      /\ ~GivenUp(wire[i].bytes[1][1]) /\ ~GivenUp(wire[j].bytes[1][1]) =>
      /\ wire[i].bytes[1][1] = wire[j].bytes[1][1]
      /\ wire[i].total_len = wire[j].total_len
      /\ wire[i].frag_count = wire[j].frag_count

\* Once a packet is sent its fragments tile it: every one of its bytes is in
\* exactly one datagram, at the offset the fragment header says.
FragmentsTile ==
  \A n \in DOMAIN sent :
    LET of == {i \in DOMAIN wire : wire[i].bytes[1][1] = sent[n].id}
    IN  /\ \A o \in 0 .. sent[n].len - 1 :
             \E i \in of : \E k \in DOMAIN wire[i].bytes :
               wire[i].frag_offset + k - 1 = o /\ wire[i].bytes[k] = <<sent[n].id, o>>
        /\ \A i, j \in of : i # j =>
             /\ wire[i].frag_index # wire[j].frag_index
             /\ \/ wire[i].frag_offset + Len(wire[i].bytes) <= wire[j].frag_offset
                \/ wire[j].frag_offset + Len(wire[j].bytes) <= wire[i].frag_offset

\* A captured frame is not left waiting: it or a later one is encoded, unless the
\* stream is stopped or its capture ends first.
FrameEventuallyEncoded ==
  \A f \in 1 .. MaxFrames :
    frame = f ~> encoded_frame >= f \/ ~capture_open \/ cancelled \/ pc = "stopped"

\* A cancelled task and one whose capture ended both come to their end, also
\* from the middle of a frame (connection_task.rs:150 waits for it).
StreamEnds == cancelled \/ ~capture_open ~> pc = "stopped"
=============================================================================
