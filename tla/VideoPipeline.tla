----------------------------- MODULE VideoPipeline -----------------------------
(***************************************************************************)
(* The whole video path: the sender (VideoStream), UDP, the client's       *)
(* receive task (system_thread.rs and udp_async_reader.rs), which reads    *)
(* one datagram at a time into FramedRead's buffer and runs the decoder    *)
(* (RtpMpegDecoder), the bounded channel to the main thread, and the main  *)
(* loop that takes one packet per turn (client.rs).                        *)
(*                                                                         *)
(* `wire` is the network and the client's socket buffer in one.            *)
(***************************************************************************)
EXTENDS VideoStream, RtpMpegDecoder, SequencesExt

CONSTANTS
  RtpHeader,        \* bytes of an RTP header
  FragHeader,       \* bytes of the fragment header
  Capacity,         \* BUFFER_SIZE of the FramedRead
  ChannelCapacity,  \* the bound of the packet channel
  NetLoses, NetDuplicates, NetReorders,
  MayRecvFail,      \* TRUE where the client's recv may return an error
  BufferRunsOut     \* FALSE to take the FramedRead's buffer as always empty

ASSUME PipelineAssumption ==
  /\ {NetLoses, NetDuplicates, NetReorders, MayRecvFail,
      BufferRunsOut} \subseteq BOOLEAN
  /\ RtpHeader \in Nat \ {0} /\ FragHeader \in Nat
  /\ Capacity \in Nat \ {0}
  /\ ChannelCapacity \in Nat

\* The bytes of the payloads VideoStream sends: byte o of packet id is <<id, o>>.
PayloadByte == Nat \X Nat

ASSUME PayloadAssumption ==
  \A id \in 1 .. MaxFrames * MaxPackets : \A len \in PacketLengths :
    \A o \in 0 .. len - 1 : <<id, o>> \in Byte

VARIABLES
  spare,      \* unused capacity of FramedRead's buffer
  reader,     \* the receive task: "reading", "cancelled" or "failed"
  completed,  \* every packet the decoder has returned, in order
  channel,    \* packets waiting for the main thread
  presented   \* packets given to the video decoder

clientVars == <<decoderVars, spare, reader, completed, channel, presented>>
pipelineVars == <<streamVars, clientVars>>

-----------------------------------------------------------------------------
(* The network.                                                            *)

NetLose ==
  /\ NetLoses
  /\ \E i \in DOMAIN wire : wire' = RemoveAt(wire, i)
  /\ UNCHANGED <<captureVars, cancelled, pc, stopped_receiving_frames, encoded_frame,
                 packets, frag_index, sequence_number, produced, sent, clientVars>>

NetDuplicate ==
  /\ NetDuplicates
  /\ Len(wire) < MaxWire
  /\ \E i \in DOMAIN wire : wire' = Append(wire, wire[i])
  /\ UNCHANGED <<captureVars, cancelled, pc, stopped_receiving_frames, encoded_frame,
                 packets, frag_index, sequence_number, produced, sent, clientVars>>

-----------------------------------------------------------------------------
(* The receive task.                                                       *)

\* FramedRead asks for one spare byte before a read.  `decode` splits off what
\* was read, capacity included, so only an exhausted buffer is reclaimed whole.
Room == IF spare = 0 THEN Capacity ELSE spare

Size(d) == RtpHeader + FragHeader + Len(d.bytes)
ReadLength(d) == IF Size(d) < Room THEN Size(d) ELSE Room

\* recv writes what fits and drops the rest of the datagram.
Truncated(d, n) ==
  IF n < RtpHeader THEN [d EXCEPT !.kind = "garbage"]
  ELSE IF n < RtpHeader + FragHeader THEN [d EXCEPT !.kind = "short"]
  ELSE [d EXCEPT !.bytes = SubSeq(d.bytes, 1, n - RtpHeader - FragHeader)]

\* packet_writer.try_send: a full channel drops the packet.
Forward(data) ==
  channel' = IF Len(channel) < ChannelCapacity THEN Append(channel, data) ELSE channel

ReceiveDatagram(i) ==
  /\ reader = "reading"
  /\ Decode(Truncated(wire[i], ReadLength(wire[i])))
  /\ spare' = IF BufferRunsOut THEN Room - ReadLength(wire[i]) ELSE spare
  /\ wire' = RemoveAt(wire, i)
  /\ CASE decoded'.tag \in {"err", "panic"} ->
            reader' = "failed" /\ UNCHANGED <<completed, channel>>
       [] decoded'.tag = "item" ->
            /\ completed' = Append(completed, decoded'.data)
            /\ Forward(decoded'.data)
            /\ UNCHANGED reader
       [] OTHER -> UNCHANGED <<reader, completed, channel>>
  /\ UNCHANGED <<captureVars, cancelled, pc, stopped_receiving_frames, encoded_frame,
                 packets, frag_index, sequence_number, produced, sent, presented>>

Receive ==
  \E i \in DOMAIN wire : (NetReorders \/ i = 1) /\ ReceiveDatagram(i)

\* recv fails with something other than WouldBlock; FramedRead passes it on.
ReceiveFails ==
  /\ MayRecvFail
  /\ reader = "reading"
  /\ reader' = "failed"
  /\ UNCHANGED <<streamVars, decoderVars, spare, completed, channel, presented>>

\* The client shuts down and cancels the system thread's token.
ReaderCancelled ==
  /\ MayStop
  /\ reader = "reading"
  /\ reader' = "cancelled"
  /\ UNCHANGED <<streamVars, decoderVars, spare, completed, channel, presented>>

\* process_video_stream: one packet per turn of the main loop.
Present ==
  /\ channel # <<>>
  /\ presented' = Append(presented, Head(channel))
  /\ channel' = Tail(channel)
  /\ UNCHANGED <<streamVars, decoderVars, spare, reader, completed>>

-----------------------------------------------------------------------------
PipelineInit ==
  /\ StreamInit
  /\ DecoderInit
  /\ spare = Capacity
  /\ reader = "reading"
  /\ completed = <<>>
  /\ channel = <<>>
  /\ presented = <<>>

PipelineNext ==
  \/ StreamNext /\ UNCHANGED clientVars
  \/ NetLose \/ NetDuplicate
  \/ Receive \/ ReceiveFails \/ ReaderCancelled
  \/ Present

\* The server's worker, the client's runtime (its 1 ms interval polls the socket)
\* and the client's main loop all keep running.
PipelineSpec ==
  /\ PipelineInit
  /\ [][PipelineNext]_pipelineVars
  /\ WF_pipelineVars(StreamTask /\ UNCHANGED clientVars)
  /\ WF_pipelineVars(Receive)
  /\ WF_pipelineVars(Present)

PipelineSafetySpec == PipelineInit /\ [][PipelineNext]_pipelineVars
-----------------------------------------------------------------------------
(* Correctness.                                                            *)

Whole(p) == [o \in 0 .. p.len - 1 |-> <<p.id, o>>]

\* The packet whose bytes `data` are, or 0 if it is not one that was sent.
IdOf(data) ==
  LET ps == {n \in DOMAIN sent : Whole(sent[n]) = data}
  IN  IF ps = {} THEN 0 ELSE sent[CHOOSE n \in ps : TRUE].id

L == INSTANCE LossyStream WITH shown <- [k \in DOMAIN presented |-> IdOf(presented[k])]

\* The channel and the main loop hand the packets on as the abstract stream
\* promises: each is a packet the encoder produced, byte for byte, in encoding
\* order and at most once, whatever the network does to datagrams.
ImplementsLossyStream == L!LossySpec

\* Everything the decoder returns is one packet that was sent, byte for byte
\* ("RTP sequence_number identifies the *MPEG packet*", rtp_mpeg.rs:118).
PacketsIntact == \A k \in DOMAIN completed : IdOf(completed[k]) # 0

\* Fragments of an honest sender are not wasted: through loss, duplication and
\* reordering a packet under assembly is given up only for a later one, never
\* because its own fragments seem to disagree.
OnlySuperseded ==
  [][\A s \in DOMAIN in_flight \ DOMAIN in_flight' :
       \/ latest_completed_seq' >= s
       \/ latest_seq' >= s + InFlightWindow]_pipelineVars

\* The next read takes in a datagram whole ("one "frame" == one UDP datagram
\* containing exactly one RTP packet", rtp_mpeg.rs:47).
DatagramsWhole ==
  \A i \in DOMAIN wire : reader = "reading" => ReadLength(wire[i]) = Size(wire[i])

\* Over a network that loses nothing and keeps the order, once everything sent
\* has arrived the decoder has returned every packet.
LosslessDelivery ==
  wire = <<>> /\ frag_index = 0 /\ reader = "reading" => Len(completed) = Len(sent)

\* ... and everything sent does arrive, is decoded, and then is shown or was dropped
\* for a full channel: neither the receive task nor the main loop stalls on a packet.
SentIsShownOrDropped ==
  \A n \in 1 .. MaxFrames * MaxPackets :
    Len(sent) >= n ~>
      \/ n \in DOMAIN completed /\ ~Contains(channel, completed[n])
      \/ reader = "cancelled"
=============================================================================
