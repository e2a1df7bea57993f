-------------------------- MODULE VideoPipelineProofs --------------------------
(***************************************************************************)
(* End to end: every packet the client decodes is one the server sent,     *)
(* byte for byte, in order and once, over a network that loses, repeats,   *)
(* reorders and cuts datagrams, for every payload, window, buffer and      *)
(* channel size, as long as no send fails and the sequence numbers have    *)
(* not been used up.                                                       *)
(*                                                                         *)
(* The argument: every datagram on the wire is a fragment of a packet sent *)
(* whole or of the one under way (Honest), so until numbers repeat its     *)
(* number names that packet (NumberNames), and what the decoder holds      *)
(* under a number are bytes of the one packet it names (Assembled).        *)
(***************************************************************************)
EXTENDS VideoPipeline, RtpMpegDecoderProofs, VideoStreamProofs

\* d is a fragment of a packet sent whole or of the head.
Honest(d) == OfSent(d) \/ OfHead(d)

\* Fragment k of packet p was sent under number s.
Out(p, s, k) ==
  /\ p.len > 0
  /\ k \in 0 .. FragCount(p.len) - 1
  /\ Honest(Fragment(p, s, k))

\* st holds bytes of packet p, where p has them, from fragments that were sent.
Assembled(st, p, s) ==
  /\ st.total_len = p.len
  /\ st.frag_count = FragCount(p.len)
  /\ \A o \in DOMAIN st.buf : st.buf[o] = Zeroed \/ st.buf[o] = <<p.id, o>>
  /\ \A k \in st.frag_received : Out(p, s, k)

\* The packet under assembly for number s is one the server sent so.
EntryHonest(s) ==
  \E p \in Packet : (\E k \in Nat : Out(p, s, k)) /\ Assembled(in_flight[s], p, s)

\* How many packets the frames up to f may encode to.
PacketsOf(f) == f * MaxPackets

\* The sender and the wire, with a bound on the packets there are.
SenderInv ==
  /\ TaskInv
  /\ wire \in Seq(Fragments)
  /\ \A i \in DOMAIN wire : Honest(wire[i])
  /\ produced <= PacketsOf(IF encoded_frame = NoFrame THEN 0 ELSE encoded_frame)

\* The packets as the decoder returns them.
Data == {Whole(p) : p \in Packet}

\* The packets that left the decoder and were not dropped for a full channel.
Queue == presented \o channel

\* data is a packet sent whole whose number is not above that of the last completed.
SentBefore(data) ==
  \E n \in DOMAIN sent : data = Whole(sent[n]) /\ n - 1 <= latest_completed_seq

\* q holds packets that were sent whole, in the order they were produced in.
InOrder(q) ==
  /\ q \in Seq(Data)
  /\ \A k \in DOMAIN q : SentBefore(q[k])
  /\ \A i, j \in DOMAIN q : i < j => IdOf(q[i]) < IdOf(q[j])

\* The client's side: what is under assembly and what has left it.
ClientInv ==
  /\ \A s \in DOMAIN in_flight : EntryHonest(s)
  /\ channel \in Seq(Data) /\ presented \in Seq(Data)
  /\ InOrder(completed)
  /\ InOrder(Queue)

\* It holds until the sequence numbers have been used up.
NumbersFresh == Len(sent) < SeqModulus

PipelineInv ==
  /\ SenderInv
  /\ DecoderIInv
  /\ spare \in 0 .. Capacity
  /\ NumbersFresh => ClientInv

-----------------------------------------------------------------------------
(* The sender.                                                             *)

\* More frames give room for more packets.
LEMMA PacketsOfFrames ==
  ASSUME NEW f \in Nat
  PROVE  /\ PacketsOf(f) \in Nat
         /\ PacketsOf(f + 1) = PacketsOf(f) + MaxPackets
         /\ \A g \in Nat : f <= g => PacketsOf(f) <= PacketsOf(g)
<1>0. MaxPackets \in Nat
  BY StreamAssumption
<1>1. PacketsOf(f) \in Nat /\ PacketsOf(f + 1) = PacketsOf(f) + MaxPackets
  BY <1>0 DEF PacketsOf
<1>2. ASSUME NEW g \in Nat, f <= g PROVE PacketsOf(f) <= PacketsOf(g)
  <2>1. (g - f) * MaxPackets >= 0
    BY <1>0, <1>2
  <2> QED BY <1>0, <2>1 DEF PacketsOf
<1> QED BY <1>1, <1>2

\* The encoder stays within the packets its frames allow.
LEMMA ProducedStep ==
  ASSUME SenderInv, StreamNext
  PROVE  produced' <= PacketsOf(IF encoded_frame' = NoFrame THEN 0 ELSE encoded_frame')
<1> DEFINE e == IF encoded_frame = NoFrame THEN 0 ELSE encoded_frame
           f == IF encoded_frame' = NoFrame THEN 0 ELSE encoded_frame'
<1>0. /\ TaskInv /\ produced \in Nat /\ produced <= PacketsOf(e)
      /\ encoded_frame \in {NoFrame} \cup Nat /\ frame \in Nat
  BY StreamAssumption DEF SenderInv, TaskInv, Numbering, StreamTypeOK
<1>1. e \in Nat
  BY <1>0
<1>2. /\ encoded_frame' \in {NoFrame} \cup 0 .. frame' /\ frame' \in Nat
      /\ EmptyFrameNeverEncoded'
      /\ encoded_frame' # encoded_frame \/ (packets = <<>> /\ packets' # <<>>)
           => encoded_frame < encoded_frame'
  BY <1>0, FrameStep, StreamAssumption
<1>3. f \in Nat /\ e <= f
  BY <1>0, <1>2 DEF NoFrame
<1>4. PacketsOf(e) \in Nat /\ PacketsOf(e) <= PacketsOf(f) /\ PacketsOf(f) \in Nat
  BY <1>1, <1>3, PacketsOfFrames
<1>5. CASE UNCHANGED produced
  BY <1>0, <1>4, <1>5
<1>6. CASE EncodeFrame
  <2>1. PICK ps \in Encodings : packets' = ps /\ produced' = produced + Len(ps)
    BY <1>6 DEF EncodeFrame
  <2>2. PICK n \in 0 .. MaxPackets : \E lens \in [1 .. n -> PacketLengths] :
          ps = [k \in DOMAIN lens |-> [id |-> produced + k, len |-> lens[k]]]
    BY <2>1 DEF Encodings
  <2>3. Len(ps) \in Nat /\ Len(ps) <= MaxPackets /\ MaxPackets \in Nat
    <3>1. PICK lens \in [1 .. n -> PacketLengths] :
            ps = [k \in 1 .. n |-> [id |-> produced + k, len |-> lens[k]]]
      BY <2>2
    <3>2. n \in Nat /\ n <= MaxPackets /\ MaxPackets \in Nat
      BY StreamAssumption
    <3>3. Len(ps) = n
      BY <3>1, <3>2
    <3> QED BY <3>2, <3>3
  <2>4. CASE ps = <<>>
    <3>1. Len(ps) = 0
      BY <2>4
    <3> QED BY <1>0, <1>4, <2>1, <3>1
  <2>5. CASE ps # <<>>
    <3>1. packets = <<>>
      BY <1>0, <1>6 DEF EncodeFrame, TakeFrame, TaskInv, StreamTypeOK
    <3>2. encoded_frame < encoded_frame'
      BY <1>2, <2>1, <2>5, <3>1
    <3>3. e + 1 <= f
      BY <1>0, <1>2, <3>2 DEF NoFrame, EmptyFrameNeverEncoded
    <3>4. PacketsOf(e + 1) <= PacketsOf(f) /\ PacketsOf(e + 1) = PacketsOf(e) + MaxPackets
      BY <1>1, <1>3, <3>3, PacketsOfFrames
    <3> QED BY <1>0, <1>4, <2>1, <2>3, <3>4
  <2> QED BY <2>4, <2>5
<1> QED
  BY <1>5, <1>6, SendSteps DEF sendVars, SkipPacket, SendFragment, SendFails

\* Without a failed send a fragment of a packet sent or under way stays one.
LEMMA HonestStep ==
  ASSUME TaskInv, StreamNext, ~MaySendFail, NEW d, Honest(d)
  PROVE  Honest(d)'
BY OfSentStep, OfHeadStep DEF Honest

\* Every step of the stream task keeps the sender's invariant.
LEMMA SenderStep ==
  ASSUME SenderInv, StreamNext, ~MaySendFail
  PROVE  SenderInv'
<1>0. TaskInv /\ wire \in Seq(Fragments) /\ \A i \in DOMAIN wire : Honest(wire[i])
  BY DEF SenderInv
<1>1. TaskInv'
  BY <1>0, TaskStep
<1>2. CASE SendFragment
  <2>0. PICK d : d = Fragment(Head(packets), sequence_number, frag_index)
    OBVIOUS
  <2>1. d \in Fragments /\ Honest(d)'
    BY <1>0, <1>2, <2>0, NewFragment DEF Honest
  <2>2. wire' = Append(wire, d)
    BY <1>2, <2>0 DEF SendFragment
  <2>3. /\ wire' \in Seq(Fragments)
        /\ \A i \in DOMAIN wire' : (i \in DOMAIN wire /\ wire'[i] = wire[i]) \/ wire'[i] = d
    BY <1>0, <2>1, <2>2, AppendProperties
  <2>4. ASSUME NEW i \in DOMAIN wire' PROVE Honest(wire[i])'
    <3>1. PICK e : e = wire'[i]
      OBVIOUS
    <3>2. Honest(e) \/ e = d
      BY <1>0, <2>3, <3>1
    <3>3. Honest(e)'
      BY <1>0, <2>1, <3>2, HonestStep
    <3> QED BY <3>1, <3>3 DEF Honest, OfSent, OfHead, FragmentOf, Fragment, FragCount
  <2> QED BY <1>1, <2>3, <2>4, ProducedStep DEF SenderInv
<1>3. CASE UNCHANGED wire
  <2>1. ASSUME NEW i \in DOMAIN wire' PROVE Honest(wire[i])'
    <3>1. PICK e : e = wire[i]
      OBVIOUS
    <3>2. Honest(e)'
      BY <1>0, <1>3, <3>1, HonestStep
    <3> QED BY <1>3, <3>1, <3>2 DEF Honest, OfSent, OfHead, FragmentOf, Fragment, FragCount
  <2> QED BY <1>0, <1>1, <1>3, <2>1, ProducedStep DEF SenderInv
<1> QED
  BY <1>2, <1>3, SendSteps DEF sendVars, EncodeFrame, SkipPacket, SendFails

\* Equal fragments are the same fragment of the same packet under one number.
LEMMA SameFragment ==
  ASSUME NEW p \in Packet, p.len > 0, NEW k \in 0 .. FragCount(p.len) - 1, NEW s,
         NEW q \in Packet, q.len > 0, NEW j \in 0 .. FragCount(q.len) - 1, NEW t,
         Fragment(p, s, k) = Fragment(q, t, j)
  PROVE  p = q /\ k = j /\ s = t
<1>1. FragCount(p.len) \in Nat /\ FragCount(q.len) \in Nat
  BY StreamAssumption, FragCountBounds DEF Packet
<1>2. PICK d : d = Fragment(p, s, k)
  OBVIOUS
<1>3. k \in Nat /\ k < FragCount(p.len) /\ j \in Nat /\ j < FragCount(q.len)
  BY <1>1
<1>4. d.seq = s /\ d.total_len = p.len /\ d.frag_index = k /\ d.bytes[1][1] = p.id
  BY <1>2, <1>3, FragmentFields
<1>5. d.seq = t /\ d.total_len = q.len /\ d.frag_index = j /\ d.bytes[1][1] = q.id
  BY <1>2, <1>3, FragmentFields
<1>6. p = q
  <2>1. p = [id |-> p.id, len |-> p.len] /\ q = [id |-> q.id, len |-> q.len]
    BY DEF Packet
  <2> QED BY <1>4, <1>5, <2>1
<1> QED BY <1>4, <1>5, <1>6

\* Until the numbers are used up the number of a fragment names its packet: the
\* one sent under it, or the head, of which only fragments before frag_index are
\* out.
LEMMA NumberNames ==
  ASSUME TaskInv, NumbersFresh, NEW p \in Packet, NEW s, NEW k, Out(p, s, k)
  PROVE  /\ s \in Nat /\ s \in Seqs
         /\ \/ s + 1 \in DOMAIN sent /\ p = sent[s + 1]
            \/ s = Len(sent) /\ p = Head(packets) /\ k < frag_index /\ packets # <<>>
<1>0. /\ sent \in Seq(Packet) /\ DOMAIN sent = 1 .. Len(sent) /\ Len(sent) \in Nat
      /\ SeqModulus \in Nat /\ Len(sent) < SeqModulus
  BY LenProperties, SequenceAssumption DEF TaskInv, Numbering, NumbersFresh
<1>1. CASE OfSent(Fragment(p, s, k))
  <2>1. PICK n \in DOMAIN sent : FragmentOf(Fragment(p, s, k), sent[n], (n - 1) % SeqModulus)
    BY <1>1 DEF OfSent
  <2>2. sent[n] \in Packet /\ sent[n].len > 0
    BY <1>0 DEF TaskInv, Numbering
  <2>3. PICK j \in 0 .. FragCount(sent[n].len) - 1 :
          Fragment(p, s, k) = Fragment(sent[n], (n - 1) % SeqModulus, j)
    BY <2>1 DEF FragmentOf
  <2>4. p = sent[n] /\ s = (n - 1) % SeqModulus
    BY <2>2, <2>3, SameFragment DEF Out
  <2>5. n \in 1 .. Len(sent) /\ n - 1 \in 0 .. SeqModulus - 1
    BY <1>0
  <2>6. s = n - 1
    BY <2>4, <2>5, SmallRemainder
  <2>7. s \in Nat /\ s \in Seqs /\ s + 1 = n
    BY <1>0, <2>5, <2>6 DEF Seqs
  <2> QED BY <2>4, <2>7
<1>2. CASE OfHead(Fragment(p, s, k))
  <2>1. PICK j \in 0 .. frag_index - 1 :
          Fragment(p, s, k) = Fragment(Head(packets), sequence_number, j)
    BY <1>2 DEF OfHead
  <2>2. /\ frag_index \in Nat /\ frag_index > 0 /\ packets # <<>>
        /\ Head(packets).len > 0 /\ frag_index < FragCount(Head(packets).len)
    BY <2>1 DEF TaskInv, Numbering
  <2>3. Head(packets) \in Packet
    BY <2>2, TailNumbered DEF TaskInv, Numbering
  <2>4. FragCount(Head(packets).len) \in Nat
    BY <2>3, StreamAssumption, FragCountBounds DEF Packet
  <2>5. j \in 0 .. FragCount(Head(packets).len) - 1
    BY <2>2, <2>4
  <2>6. p = Head(packets) /\ k = j /\ s = sequence_number
    BY <2>1, <2>2, <2>3, <2>5, SameFragment DEF Out
  <2>7. Len(sent) \in 0 .. SeqModulus - 1
    BY <1>0
  <2>8. sequence_number = Len(sent)
    BY <2>7, SmallRemainder DEF TaskInv, Numbering
  <2>9. k < frag_index
    BY <2>2, <2>6
  <2> QED BY <1>0, <2>2, <2>6, <2>8, <2>9 DEF Seqs
<1> QED BY <1>1, <1>2 DEF Out, Honest

\* ... so two packets under one number are one.
LEMMA NumberNamesOne ==
  ASSUME TaskInv, NumbersFresh, NEW s,
         NEW p \in Packet, NEW k, Out(p, s, k), NEW q \in Packet, NEW j, Out(q, s, j)
  PROVE  p = q
<1>1. DOMAIN sent = 1 .. Len(sent) /\ Len(sent) \in Nat
  BY LenProperties DEF TaskInv, Numbering
<1>2. \/ s + 1 \in DOMAIN sent /\ p = sent[s + 1]
      \/ s = Len(sent) /\ p = Head(packets)
  BY NumberNames
<1>3. \/ s + 1 \in DOMAIN sent /\ q = sent[s + 1]
      \/ s = Len(sent) /\ q = Head(packets)
  BY NumberNames
<1> QED BY <1>1, <1>2, <1>3

\* What a wire without its i-th datagram holds.
LEMMA Removal ==
  ASSUME NEW S, NEW q \in Seq(S), NEW i \in DOMAIN q, NEW r, r = RemoveAt(q, i)
  PROVE  /\ r \in Seq(S)
         /\ Len(r) = Len(q) - 1 /\ Len(q) \in Nat \ {0}
         /\ \A j \in 1 .. Len(q) - 1 : r[j] = IF j < i THEN q[j] ELSE q[j + 1]
         /\ \A j \in DOMAIN r : \E k \in DOMAIN q : r[j] = q[k]
<1>1. Len(q) \in Nat /\ DOMAIN q = 1 .. Len(q) /\ i \in 1 .. Len(q)
  BY LenProperties
<1> DEFINE a == SubSeq(q, 1, i - 1)
           b == SubSeq(q, i + 1, Len(q))
<1>2. /\ a \in Seq(S) /\ Len(a) = i - 1
      /\ \A j \in 1 .. i - 1 : a[j] = q[j]
  BY <1>1
<1>3. /\ b \in Seq(S) /\ Len(b) = Len(q) - i
      /\ \A j \in 1 .. Len(q) - i : b[j] = q[i + j]
  BY <1>1
<1>4. r = a \o b
  BY DEF RemoveAt
<1> HIDE DEF a, b
<1>5. /\ a \o b \in Seq(S) /\ Len(a \o b) = Len(q) - 1
      /\ \A j \in 1 .. Len(q) - 1 :
           (a \o b)[j] = IF j <= i - 1 THEN a[j] ELSE b[j - (i - 1)]
  <2>1. Len(a) + Len(b) = Len(q) - 1
    BY <1>1, <1>2, <1>3
  <2>2. PICK c : c = a \o b
    OBVIOUS
  <2>3. /\ c \in Seq(S) /\ Len(c) = Len(a) + Len(b)
        /\ \A j \in 1 .. Len(a) + Len(b) : c[j] = IF j <= Len(a) THEN a[j] ELSE b[j - Len(a)]
    BY <1>2, <1>3, <2>2, ConcatProperties
  <2>4. \A j \in 1 .. Len(q) - 1 : c[j] = IF j <= i - 1 THEN a[j] ELSE b[j - (i - 1)]
    BY <1>2, <2>1, <2>3
  <2> QED BY <2>1, <2>2, <2>3, <2>4
<1>6. ASSUME NEW j \in 1 .. Len(q) - 1
      PROVE  r[j] = IF j < i THEN q[j] ELSE q[j + 1]
  <2>1. CASE j < i
    <3>1. j \in 1 .. i - 1
      BY <1>1, <2>1
    <3> QED BY <1>2, <1>4, <1>5, <2>1, <3>1
  <2>2. CASE ~(j < i)
    <3>1. j - (i - 1) \in 1 .. Len(q) - i /\ i + (j - (i - 1)) = j + 1 /\ ~(j <= i - 1)
      BY <1>1, <2>2
    <3> QED BY <1>3, <1>4, <1>5, <2>2, <3>1
  <2> QED BY <2>1, <2>2
<1>7. Len(q) \in Nat \ {0} /\ DOMAIN r = 1 .. Len(q) - 1
  <2>1. r \in Seq(S) /\ Len(r) = Len(q) - 1
    BY <1>4, <1>5
  <2> QED BY <1>1, <2>1, LenProperties
<1>8. ASSUME NEW j \in 1 .. Len(q) - 1
      PROVE  \E k \in DOMAIN q : r[j] = q[k]
  <2>1. j \in DOMAIN q /\ j + 1 \in DOMAIN q
    BY <1>1
  <2> QED BY <1>6, <2>1
<1> QED BY <1>4, <1>5, <1>6, <1>7, <1>8

\* A wire of datagrams that were on it before keeps the sender's invariant.
LEMMA WireStays ==
  ASSUME SenderInv,
         UNCHANGED <<captureVars, cancelled, pc, stopped_receiving_frames, encoded_frame,
                     packets, frag_index, sequence_number, produced, sent>>,
         wire' \in Seq(Fragments), Len(wire') <= MaxWire,
         \A j \in DOMAIN wire' : \E i \in DOMAIN wire : wire'[j] = wire[i]
  PROVE  SenderInv'
<1>1. TaskInv'
  BY DEF SenderInv, TaskInv, StreamTypeOK, FrameFresh, EmptyFrameNeverEncoded, Numbering,
         TooLarge, FragCount, captureVars
<1>2. ASSUME NEW j \in DOMAIN wire' PROVE Honest(wire[j])'
  <2>1. PICK i \in DOMAIN wire : wire'[j] = wire[i]
    OBVIOUS
  <2>2. Honest(wire[i])
    BY DEF SenderInv
  <2> QED BY <2>1, <2>2 DEF Honest, OfSent, OfHead, FragmentOf, Fragment, FragCount
<1> QED BY <1>1, <1>2 DEF SenderInv

\* The network takes datagrams away or repeats them, and a read takes one.
LEMMA NetworkStep ==
  ASSUME SenderInv, NetLose \/ NetDuplicate \/ Receive
  PROVE  SenderInv'
<1>0. /\ wire \in Seq(Fragments) /\ Len(wire) \in Nat /\ DOMAIN wire = 1 .. Len(wire)
      /\ Len(wire) <= MaxWire /\ MaxWire \in Nat
  BY LenProperties, StreamAssumption DEF SenderInv, TaskInv, StreamTypeOK
<1>1. UNCHANGED <<captureVars, cancelled, pc, stopped_receiving_frames, encoded_frame,
                  packets, frag_index, sequence_number, produced, sent>>
  BY DEF NetLose, NetDuplicate, Receive, ReceiveDatagram
<1>2. CASE NetLose \/ Receive
  <2>1. PICK i \in DOMAIN wire : wire' = RemoveAt(wire, i)
    BY <1>2 DEF NetLose, Receive, ReceiveDatagram
  <2>2. PICK w : w = RemoveAt(wire, i)
    OBVIOUS
  <2>3. /\ w \in Seq(Fragments) /\ Len(w) = Len(wire) - 1
        /\ \A j \in DOMAIN w : \E k \in DOMAIN wire : w[j] = wire[k]
    <3>1. wire \in Seq(Fragments)
      BY <1>0
    <3>2. w \in Seq(Fragments)
      BY <2>2, <3>1, Removal
    <3>3. Len(w) = Len(wire) - 1
      BY <2>2, <3>1, Removal
    <3>4. \A j \in DOMAIN w : \E k \in DOMAIN wire : w[j] = wire[k]
      BY <2>2, <3>1, Removal
    <3> QED BY <3>2, <3>3, <3>4
  <2> QED BY <1>0, <1>1, <2>1, <2>2, <2>3, WireStays
<1>3. CASE NetDuplicate
  <2>1. PICK i \in DOMAIN wire : wire' = Append(wire, wire[i])
    BY <1>3 DEF NetDuplicate
  <2>2. wire[i] \in Fragments /\ Len(wire) < MaxWire
    BY <1>0, <1>3 DEF NetDuplicate
  <2>3. /\ wire' \in Seq(Fragments) /\ Len(wire') = Len(wire) + 1
        /\ \A j \in DOMAIN wire' : wire'[j] = wire[i] \/ (j \in DOMAIN wire /\ wire'[j] = wire[j])
    BY <1>0, <2>1, <2>2, AppendProperties
  <2> QED BY <1>0, <1>1, <2>2, <2>3, WireStays
<1> QED BY <1>2, <1>3

-----------------------------------------------------------------------------
(* What a read hands to the decoder.                                       *)

\* d is what is left of fragment k of packet p, sent under s, after a read.
FromFragment(d, p, s, k) ==
  /\ p \in Packet /\ k \in Nat /\ Out(p, s, k)
  /\ d \in Datagram
  /\ d.seq = s
  /\ d.kind = "fragment" =>
       /\ d.total_len = p.len /\ d.frag_count = FragCount(p.len)
       /\ d.frag_index = k /\ d.frag_offset = Offset(k)
       /\ Offset(k) + Len(d.bytes) <= p.len
       /\ \A j \in 1 .. Len(d.bytes) : d.bytes[j] = <<p.id, Offset(k) + j - 1>>

\* Every datagram on the wire is a fragment of a packet the encoder returned.
LEMMA HonestFields ==
  ASSUME SenderInv, NEW d, Honest(d)
  PROVE  \E p \in Packet : \E s \in Seqs : \E k \in Nat :
           /\ d = Fragment(p, s, k) /\ Out(p, s, k) /\ k < FragCount(p.len)
           /\ p.id \in 1 .. MaxFrames * MaxPackets
<1>0. TaskInv /\ SeqModulus \in Nat \ {0}
  BY SequenceAssumption DEF SenderInv
<1>1. produced \in Nat /\ produced <= MaxFrames * MaxPackets /\ Len(packets) \in Nat
  <2> DEFINE e == IF encoded_frame = NoFrame THEN 0 ELSE encoded_frame
  <2>0. frame \in 0 .. MaxFrames /\ encoded_frame \in {NoFrame} \cup 0 .. frame
    BY <1>0 DEF TaskInv, StreamTypeOK
  <2>1. e \in Nat /\ e <= MaxFrames /\ MaxFrames \in Nat
    BY <2>0, StreamAssumption
  <2>2. PacketsOf(e) \in Nat /\ PacketsOf(MaxFrames) \in Nat
        /\ PacketsOf(e) <= PacketsOf(MaxFrames)
    BY <2>1, PacketsOfFrames
  <2>3. produced \in Nat /\ produced <= PacketsOf(e) /\ Len(packets) \in Nat
    BY <1>0, LenProperties DEF SenderInv, TaskInv, Numbering
  <2>4. produced <= PacketsOf(MaxFrames)
    BY <2>2, <2>3
  <2>5. produced <= MaxFrames * MaxPackets
    BY <2>4 DEF PacketsOf
  <2> QED BY <2>3, <2>5
<1> DEFINE top == MaxFrames * MaxPackets
<1>2. top \in Nat
  BY StreamAssumption
<1> HIDE DEF top
<1>3. CASE OfSent(d)
  <2>1. PICK n \in DOMAIN sent : FragmentOf(d, sent[n], (n - 1) % SeqModulus)
    BY <1>3 DEF OfSent
  <2>2. PICK p : p = sent[n]
    OBVIOUS
  <2>3. p \in Packet /\ p.len > 0 /\ p.len \in Nat /\ p.id <= produced - Len(packets)
    <3>1. p \in Packet /\ p.len > 0 /\ p.id <= produced - Len(packets)
      BY <1>0, <2>2 DEF TaskInv, Numbering
    <3> QED BY <3>1, StreamAssumption DEF Packet
  <2>4. FragCount(p.len) \in Nat
    BY <2>3, FragCountBounds
  <2>5. PICK k \in 0 .. FragCount(p.len) - 1 : d = Fragment(p, (n - 1) % SeqModulus, k)
    BY <2>1, <2>2 DEF FragmentOf
  <2>6. (n - 1) % SeqModulus \in Seqs
    <3>1. n \in Nat \ {0}
      BY <1>0, LenProperties DEF TaskInv, Numbering
    <3> QED BY <1>0, <3>1 DEF Seqs
  <2>7. p.id \in 1 .. top
    BY <1>1, <1>2, <2>3 DEF Packet, top
  <2>8. k \in Nat /\ k < FragCount(p.len)
    BY <2>4
  <2>9. Out(p, (n - 1) % SeqModulus, k)
    BY <1>3, <2>3, <2>5 DEF Out, Honest
  <2> QED BY <2>3, <2>5, <2>6, <2>7, <2>8, <2>9 DEF top
<1>4. CASE OfHead(d)
  <2>1. PICK k \in 0 .. frag_index - 1 : d = Fragment(Head(packets), sequence_number, k)
    BY <1>4 DEF OfHead
  <2>2. /\ frag_index \in Nat /\ frag_index > 0 /\ packets # <<>>
        /\ Head(packets).len > 0 /\ frag_index < FragCount(Head(packets).len)
    BY <1>0, <2>1 DEF TaskInv, Numbering
  <2>3. PICK p : p = Head(packets)
    OBVIOUS
  <2>4. p \in Packet /\ p.id = produced - Len(packets) + 1 /\ Len(packets) \in Nat \ {0}
    BY <1>0, <2>2, <2>3, TailNumbered DEF TaskInv, Numbering
  <2>5. p.len > 0 /\ p.len \in Nat /\ FragCount(p.len) \in Nat
    BY <2>2, <2>3, <2>4, StreamAssumption, FragCountBounds DEF Packet
  <2>6. k \in Nat /\ k < FragCount(p.len) /\ k \in 0 .. FragCount(p.len) - 1
    BY <2>2, <2>3, <2>5
  <2>7. p.id \in 1 .. top
    BY <1>1, <1>2, <2>4 DEF Packet, top
  <2>8. sequence_number \in Seqs
    <3>1. StreamTypeOK
      BY <1>0 DEF TaskInv
    <3>2. sequence_number \in 0 .. SeqModulus - 1
      BY <3>1 DEF StreamTypeOK
    <3> QED BY <3>2 DEF Seqs
  <2>9. Out(p, sequence_number, k)
    BY <1>4, <2>1, <2>3, <2>5, <2>6 DEF Out, Honest
  <2> QED BY <2>1, <2>3, <2>4, <2>6, <2>7, <2>8, <2>9 DEF top
<1> QED BY <1>3, <1>4 DEF Honest

\* Fragment w with the bytes b, under another kind.
Cut(w, kind, b) == [[w EXCEPT !.kind = kind] EXCEPT !.bytes = b]

\* What a cut leaves of a fragment, field by field.
LEMMA CutFields ==
  ASSUME NEW p, NEW s, NEW k, NEW w, w = Fragment(p, s, k), NEW kind, NEW b, NEW d
  PROVE  /\ d = Cut(w, kind, b) =>
              d = [kind |-> kind, seq |-> s, total_len |-> p.len, frag_index |-> k,
                   frag_count |-> FragCount(p.len), frag_offset |-> Offset(k), bytes |-> b]
         /\ d = [w EXCEPT !.kind = kind] => d = Cut(w, kind, w.bytes)
         /\ d = [w EXCEPT !.bytes = b] => d = Cut(w, "fragment", b)
         /\ d = Cut(w, "fragment", w.bytes) => d = w
<1> DEFINE Rec(u, z) ==
             [kind |-> u, seq |-> s, total_len |-> p.len, frag_index |-> k,
              frag_count |-> FragCount(p.len), frag_offset |-> Offset(k), bytes |-> z]
<1>1. PICK z : w = Rec("fragment", z)
  BY DEF Fragment, Offset
<1>2. w.bytes = z
  BY <1>1
<1>3. ASSUME NEW u, NEW x, x = [w EXCEPT !.kind = u] PROVE x = Rec(u, z)
  BY <1>1, <1>3
<1>4. ASSUME NEW u, NEW v, NEW x, x = Rec(u, z), NEW y, y = [x EXCEPT !.bytes = v]
      PROVE  y = Rec(u, v)
  BY <1>4
<1>5. ASSUME NEW u, NEW v PROVE Cut(w, u, v) = Rec(u, v)
  BY <1>3, <1>4 DEF Cut
<1>6. ASSUME NEW x, x = [w EXCEPT !.bytes = b] PROVE x = Rec("fragment", b)
  BY <1>1, <1>6
<1>7. /\ [w EXCEPT !.kind = kind] = Rec(kind, z)
      /\ [w EXCEPT !.bytes = b] = Rec("fragment", b)
      /\ w = Rec("fragment", z)
  BY <1>1, <1>3, <1>6
<1> HIDE DEF Rec
<1> QED BY <1>2, <1>5, <1>7 DEF Rec

\* A prefix of a fragment, under its header or with the kind its length leaves.
LEMMA CutDatagram ==
  ASSUME NEW p \in Packet, p.id \in 1 .. MaxFrames * MaxPackets, NEW s \in Seqs,
         NEW k \in Nat, k < FragCount(p.len), Out(p, s, k),
         NEW w, w = Fragment(p, s, k), NEW m \in 0 .. Len(w.bytes),
         NEW kind \in {"garbage", "short", "fragment"},
         NEW d, d = Cut(w, kind, SubSeq(w.bytes, 1, m))
  PROVE  FromFragment(d, p, s, k) /\ d.kind = kind
<1>0. p.len \in Nat /\ p.len > 0 /\ p.len \in PacketLengths
  BY StreamAssumption DEF Out, Packet
<1>1. /\ w.kind = "fragment" /\ w.seq = s
      /\ w.total_len = p.len /\ w.frag_count = FragCount(p.len)
      /\ w.frag_index = k /\ w.frag_offset = Offset(k)
      /\ Len(w.bytes) \in Nat \ {0}
      /\ Offset(k) + Len(w.bytes) =
           IF Offset(k) + MaxPayload < p.len THEN Offset(k) + MaxPayload ELSE p.len
      /\ \A j \in 1 .. Len(w.bytes) : w.bytes[j] = <<p.id, Offset(k) + j - 1>>
  BY <1>0, FragmentFields, SMTT(60)
<1>2. Offset(k) \in Nat /\ MaxPayload \in Nat /\ FragCount(p.len) \in Nat
  BY <1>0, Offsets, FragCountBounds, StreamAssumption
<1>3. Offset(k) + Len(w.bytes) <= p.len
  BY <1>0, <1>1, <1>2
<1>4. \A j \in 1 .. Len(w.bytes) : w.bytes[j] \in Byte
  <2> SUFFICES ASSUME NEW j \in 1 .. Len(w.bytes) PROVE w.bytes[j] \in Byte
    OBVIOUS
  <2>1. Offset(k) + j - 1 \in 0 .. p.len - 1
    <3>1. Len(w.bytes) \in Nat
      BY <1>1
    <3> HIDE <1>1
    <3> QED BY <1>0, <1>2, <1>3, <3>1
  <2>2. w.bytes[j] = <<p.id, Offset(k) + j - 1>>
    BY <1>1
  <2> HIDE <1>1
  <2>3. \A id \in 1 .. MaxFrames * MaxPackets : \A len \in PacketLengths :
          \A o \in 0 .. len - 1 : <<id, o>> \in Byte
    BY PayloadAssumption
  <2> QED BY <1>0, <2>1, <2>2, <2>3
<1>5. PICK b : b = SubSeq(w.bytes, 1, m)
  OBVIOUS
<1>6. b \in Seq(Byte) /\ Len(b) = m /\ \A j \in 1 .. m : b[j] = w.bytes[j]
  <2>1. 1 \in Int /\ m \in Nat /\ m <= Len(w.bytes)
    BY <1>1
  <2>2. \A j \in 1 .. m : w.bytes[j] \in Byte
    BY <1>1, <1>4, <2>1
  <2>3. /\ b \in Seq(Byte) /\ Len(b) = IF 1 <= m THEN m - 1 + 1 ELSE 0
        /\ \A j \in 1 .. m - 1 + 1 : b[j] = w.bytes[1 + j - 1]
    BY <1>5, <2>1, <2>2, SubSeqProperties
  <2> QED BY <2>1, <2>3
<1>7. d = [kind |-> kind, seq |-> s, total_len |-> p.len, frag_index |-> k,
           frag_count |-> FragCount(p.len), frag_offset |-> Offset(k), bytes |-> b]
  <2>1. d = Cut(w, kind, b)
    BY <1>5
  <2> QED BY <2>1, CutFields
<1>9. /\ d.kind = kind /\ d.seq = s /\ d.total_len = p.len /\ d.frag_index = k
      /\ d.frag_count = FragCount(p.len) /\ d.frag_offset = Offset(k) /\ d.bytes = b
  BY <1>7
<1>10. d \in Datagram
  <2>1. kind \in {"garbage", "other_payload", "short", "fragment"}
    OBVIOUS
  <2>2. s \in Seqs /\ p.len \in Nat /\ k \in Nat /\ FragCount(p.len) \in Nat
        /\ Offset(k) \in Nat /\ b \in Seq(Byte)
    BY <1>0, <1>2, <1>6
  <2> QED BY <1>7, <2>1, <2>2 DEF Datagram
<1>11. Offset(k) + Len(d.bytes) <= p.len
  <2>1. Len(d.bytes) = m /\ m \in Nat /\ m <= Len(w.bytes) /\ Len(w.bytes) \in Nat
    BY <1>1, <1>6, <1>9
  <2> QED BY <1>0, <1>2, <1>3, <2>1
<1>12. ASSUME NEW j \in 1 .. Len(d.bytes)
       PROVE  d.bytes[j] = <<p.id, Offset(k) + j - 1>>
  <2>1. j \in 1 .. m /\ j \in 1 .. Len(w.bytes)
    BY <1>1, <1>6, <1>9
  <2> QED BY <1>1, <1>6, <1>9, <2>1
<1> QED BY <1>9, <1>10, <1>11, <1>12 DEF FromFragment

\* Whatever a read leaves of an honest datagram comes from a fragment that was sent.
LEMMA Received ==
  ASSUME SenderInv, NEW w, Honest(w), NEW n \in Nat, n <= Size(w),
         NEW d, d = Truncated(w, n)
  PROVE  /\ d \in Datagram
         /\ \E p \in Packet : \E s \in Seqs : \E k \in Nat :
              /\ FromFragment(d, p, s, k)
              /\ n = Size(w) => d = w /\ d = Fragment(p, s, k)
<1>1. PICK p \in Packet : \E s \in Seqs : \E k \in Nat :
        /\ w = Fragment(p, s, k) /\ Out(p, s, k) /\ k < FragCount(p.len)
        /\ p.id \in 1 .. MaxFrames * MaxPackets
  BY HonestFields
<1>2. PICK s \in Seqs, k \in Nat :
        /\ w = Fragment(p, s, k) /\ Out(p, s, k) /\ k < FragCount(p.len)
        /\ p.id \in 1 .. MaxFrames * MaxPackets
  BY <1>1
<1>3. Len(w.bytes) \in Nat /\ w.bytes \in Seq(Nat \X Nat)
  <2>1. p.len > 0
    BY <1>2 DEF Out
  <2> QED BY <1>2, <2>1, FragmentFields
<1>4. RtpHeader \in Nat /\ FragHeader \in Nat /\ RtpHeader > 0
  BY PipelineAssumption
<1>5. SubSeq(w.bytes, 1, Len(w.bytes)) = w.bytes
  BY <1>3
<1>a. PICK len \in Nat : len = Len(w.bytes)
  BY <1>3
<1>b. Size(w) = RtpHeader + FragHeader + len
  BY <1>a DEF Size
<1>6. ASSUME NEW kind \in {"garbage", "short"}, d = [w EXCEPT !.kind = kind]
      PROVE  FromFragment(d, p, s, k)
  <2>0. w = Fragment(p, s, k)
    BY <1>2
  <2>a. d = Cut(w, kind, w.bytes)
    BY <1>6, <2>0, CutFields
  <2>1. d = Cut(w, kind, SubSeq(w.bytes, 1, Len(w.bytes)))
    BY <1>5, <2>a
  <2>2. Len(w.bytes) \in 0 .. Len(w.bytes) /\ kind \in {"garbage", "short", "fragment"}
    BY <1>3
  <2> QED BY <1>2, <2>1, <2>2, CutDatagram
<1>7. CASE n < RtpHeader
  <2>1. FromFragment(d, p, s, k)
    BY <1>6, <1>7 DEF Truncated
  <2>2. n # Size(w)
    BY <1>4, <1>7, <1>b
  <2> QED BY <2>1, <2>2 DEF FromFragment
<1>8. CASE n >= RtpHeader /\ n < RtpHeader + FragHeader
  <2>1. ~(n < RtpHeader)
    BY <1>4, <1>8
  <2>2. FromFragment(d, p, s, k)
    BY <1>6, <1>8, <2>1 DEF Truncated
  <2>3. n # Size(w)
    BY <1>4, <1>8, <1>b
  <2> QED BY <2>2, <2>3 DEF FromFragment
<1>9. CASE n >= RtpHeader + FragHeader
  <2> DEFINE m == n - RtpHeader - FragHeader
  <2>r. RtpHeader \in Nat
    BY <1>4
  <2>f. FragHeader \in Nat
    BY <1>4
  <2>a. m \in Nat
    BY <1>9, <2>r, <2>f
  <2>b. m <= len
    BY <1>9, <1>b, <2>r, <2>f
  <2>c. ~(n < RtpHeader) /\ ~(n < RtpHeader + FragHeader)
    BY <1>9, <2>r, <2>f
  <2>1. m \in 0 .. Len(w.bytes) /\ ~(n < RtpHeader) /\ ~(n < RtpHeader + FragHeader)
    BY <1>a, <2>a, <2>b, <2>c
  <2>2. d = [w EXCEPT !.bytes = SubSeq(w.bytes, 1, m)]
    BY <2>1 DEF Truncated
  <2> HIDE DEF m
  <2>0. w = Fragment(p, s, k)
    BY <1>2
  <2>3. d = Cut(w, "fragment", SubSeq(w.bytes, 1, m))
    <3>1. PICK b : b = SubSeq(w.bytes, 1, m)
      OBVIOUS
    <3>2. d = [w EXCEPT !.bytes = b]
      BY <2>2, <3>1
    <3> HIDE <2>2
    <3>3. d = Cut(w, "fragment", b)
      BY <2>0, <3>2, CutFields
    <3> QED BY <3>1, <3>3
  <2>4. FromFragment(d, p, s, k)
    BY <1>2, <2>1, <2>3, CutDatagram
  <2>5. ASSUME n = Size(w) PROVE d = w /\ d = Fragment(p, s, k)
    <3>0. n = RtpHeader + FragHeader + len
      BY <1>b, <2>5
    <3>a. n - RtpHeader - FragHeader = len
      BY <3>0, <2>f, <2>r
    <3>1. m = Len(w.bytes)
      BY <1>a, <3>a DEF m
    <3>2. d = Cut(w, "fragment", w.bytes)
      BY <1>5, <2>3, <3>1
    <3>3. d = w
      BY <2>0, <3>2, CutFields
    <3> QED BY <2>0, <3>3
  <2> QED BY <2>4, <2>5 DEF FromFragment
<1> QED BY <1>4, <1>7, <1>8, <1>9

-----------------------------------------------------------------------------
(* The packet under assembly.                                              *)

\* The fields of a packet a fragment was copied into.
LEMMA CopyFields ==
  ASSUME NEW st, PacketOK(st), NEW d, NEW new, new = CopyFragment(st, d)
  PROVE  /\ new.total_len = st.total_len /\ new.frag_count = st.frag_count
         /\ new.frag_received = st.frag_received \cup {d.frag_index}
         /\ new.fragment_ranges = st.fragment_ranges \cup {<<FragStart(d), FragEnd(d)>>}
         /\ DOMAIN new.buf = DOMAIN st.buf
         /\ \A o \in DOMAIN st.buf :
              new.buf[o] = IF o \in FragStart(d) .. FragEnd(d) - 1
                           THEN d.bytes[o - FragStart(d) + 1] ELSE st.buf[o]
<1>1. st \in PacketStates(st.total_len)
  BY DEF PacketOK
<1>2. /\ new.total_len = st.total_len /\ new.frag_count = st.frag_count
      /\ new.frag_received = st.frag_received \cup {d.frag_index}
  BY <1>1 DEF CopyFragment, PacketStates
<1>3. new.fragment_ranges = st.fragment_ranges \cup {<<FragStart(d), FragEnd(d)>>}
  BY <1>1 DEF CopyFragment, PacketStates
<1>4. new.buf = [o \in DOMAIN st.buf |->
                   IF o \in FragStart(d) .. FragEnd(d) - 1
                   THEN d.bytes[o - FragStart(d) + 1] ELSE st.buf[o]]
  BY <1>1 DEF CopyFragment, PacketStates
<1>5. DOMAIN new.buf = DOMAIN st.buf
  BY <1>4
<1>6. ASSUME NEW o \in DOMAIN st.buf
      PROVE  new.buf[o] = IF o \in FragStart(d) .. FragEnd(d) - 1
                          THEN d.bytes[o - FragStart(d) + 1] ELSE st.buf[o]
  BY <1>4
<1> QED BY <1>2, <1>3, <1>5, <1>6

\* The state a fragment of packet p goes into holds bytes of p and no other, since
\* no other packet has its number.
LEMMA HolderAssembled ==
  ASSUME TaskInv, NumbersFresh, DecoderIInv, \A t \in DOMAIN in_flight : EntryHonest(t),
         NEW d, NEW p, NEW s, NEW k, FromFragment(d, p, s, k), d.kind = "fragment"
  PROVE  PacketOK(Holder(d)) /\ Assembled(Holder(d), p, s)
<1>0. /\ p \in Packet /\ k \in Nat /\ Out(p, s, k) /\ d \in Datagram /\ d.seq = s
      /\ d.total_len = p.len /\ d.frag_count = FragCount(p.len)
  BY DEF FromFragment
<1>1. CASE s \in DOMAIN in_flight
  <2>1. Holder(d) = in_flight[s]
    BY <1>0, <1>1 DEF Holder
  <2>2. PICK q \in Packet : (\E j \in Nat : Out(q, s, j)) /\ Assembled(in_flight[s], q, s)
    BY <1>1 DEF EntryHonest
  <2>3. PICK j \in Nat : Out(q, s, j)
    BY <2>2
  <2>4. p = q
    BY <1>0, <2>3, NumberNamesOne
  <2>5. PacketOK(in_flight[s])
    BY <1>1 DEF DecoderIInv, DecoderTypeOK, AssemblyInv, PacketOK
  <2> QED BY <2>1, <2>2, <2>4, <2>5
<1>2. CASE s \notin DOMAIN in_flight
  <2>1. Holder(d) = NewPacketState(d)
    BY <1>0, <1>2 DEF Holder
  <2>2. PacketOK(NewPacketState(d))
    BY <1>0, FreshPacketOK
  <2>3. PICK st : st = NewPacketState(d)
    OBVIOUS
  <2>4. /\ st.total_len = d.total_len /\ st.frag_count = d.frag_count
        /\ st.buf = [o \in 0 .. d.total_len - 1 |-> Zeroed] /\ st.frag_received = {}
    BY <2>3 DEF NewPacketState
  <2>5. Assembled(st, p, s)
    BY <1>0, <2>4 DEF Assembled
  <2> QED BY <2>1, <2>2, <2>3, <2>5
<1> QED BY <1>1, <1>2

\* Copying a fragment of p into it leaves bytes of p.
LEMMA CopyAssembled ==
  ASSUME NEW st, PacketOK(st), NEW p, NEW s, Assembled(st, p, s), NEW d, NEW k,
         FromFragment(d, p, s, k), d.kind = "fragment", NEW new, new = CopyFragment(st, d)
  PROVE  Assembled(new, p, s)
<1>0. /\ p \in Packet /\ k \in Nat /\ Out(p, s, k) /\ d \in Datagram
      /\ d.frag_index = k /\ d.frag_offset = Offset(k)
      /\ \A j \in 1 .. Len(d.bytes) : d.bytes[j] = <<p.id, Offset(k) + j - 1>>
  BY DEF FromFragment
<1>1. Len(d.bytes) \in Nat /\ Offset(k) \in Nat
  BY <1>0, DatagramFields, Offsets
<1>2. /\ st.total_len = p.len /\ st.frag_count = FragCount(p.len)
      /\ \A o \in DOMAIN st.buf : st.buf[o] = Zeroed \/ st.buf[o] = <<p.id, o>>
      /\ \A j \in st.frag_received : Out(p, s, j)
  BY DEF Assembled
<1>3. /\ new.total_len = st.total_len /\ new.frag_count = st.frag_count
      /\ new.frag_received = st.frag_received \cup {k}
      /\ DOMAIN new.buf = DOMAIN st.buf
      /\ \A o \in DOMAIN st.buf :
           new.buf[o] = IF o \in FragStart(d) .. FragEnd(d) - 1
                        THEN d.bytes[o - FragStart(d) + 1] ELSE st.buf[o]
  BY <1>0, CopyFields
<1>4. ASSUME NEW o \in DOMAIN new.buf PROVE new.buf[o] = Zeroed \/ new.buf[o] = <<p.id, o>>
  <2>0. PICK a, n \in Nat : a = FragStart(d) /\ a = Offset(k) /\ n = Len(d.bytes)
                          /\ FragEnd(d) = a + n
    BY <1>0, <1>1 DEF FragStart, FragEnd
  <2>1. CASE o \in FragStart(d) .. FragEnd(d) - 1
    <3>1. o - a + 1 \in 1 .. n /\ a + (o - a + 1) - 1 = o
      BY <2>0, <2>1
    <3>2. PICK j \in 1 .. n : j = o - a + 1 /\ a + j - 1 = o
      BY <3>1
    <3>3. d.bytes[j] = <<p.id, o>>
      BY <1>0, <2>0, <3>2
    <3>4. new.buf[o] = d.bytes[j]
      BY <1>3, <2>0, <2>1, <3>2
    <3> QED BY <3>3, <3>4
  <2>2. CASE o \notin FragStart(d) .. FragEnd(d) - 1
    BY <1>2, <1>3, <2>2
  <2> QED BY <2>1, <2>2
<1>5. \A j \in new.frag_received : Out(p, s, j)
  BY <1>0, <1>2, <1>3
<1> QED BY <1>2, <1>3, <1>4, <1>5 DEF Assembled

\* What was sent stays that while the sender does nothing.
LEMMA OutStays ==
  ASSUME UNCHANGED <<packets, frag_index, sequence_number, sent>>,
         NEW p, NEW s, NEW k, Out(p, s, k)
  PROVE  Out(p, s, k)'
<1>1. PICK d : d = Fragment(p, s, k)
  OBVIOUS
<1>2. Honest(d)
  BY <1>1 DEF Out
<1>3. Honest(d)'
  BY <1>2 DEF Honest, OfSent, OfHead, FragmentOf, Fragment, FragCount
<1>4. p.len > 0 /\ k \in 0 .. FragCount(p.len) - 1
  BY DEF Out
<1> QED BY <1>1, <1>3, <1>4 DEF Out, Fragment, FragCount

\* decode leaves nothing under assembly but packets of the server.
LEMMA DecodeKeepsHonest ==
  ASSUME TaskInv, NumbersFresh, DecoderIInv, \A t \in DOMAIN in_flight : EntryHonest(t),
         NEW d, NEW p, NEW s, NEW k, FromFragment(d, p, s, k), Decode(d),
         UNCHANGED <<packets, frag_index, sequence_number, sent>>
  PROVE  \A t \in DOMAIN in_flight' : EntryHonest(t)'
<1> SUFFICES ASSUME NEW t \in DOMAIN in_flight' PROVE EntryHonest(t)'
  OBVIOUS
<1>0. PICK st : st = in_flight'[t]
  OBVIOUS
<1>1. \E q \in Packet : (\E j \in Nat : Out(q, t, j)) /\ Assembled(st, q, t)
  <2>1. CASE t \in DOMAIN in_flight /\ st = in_flight[t]
    BY <2>1 DEF EntryHonest
  <2>2. CASE /\ t = d.seq /\ Admits(d)
             /\ st = Holder(d) \/ st = CopyFragment(Holder(d), d)
    <3>1. /\ p \in Packet /\ k \in Nat /\ Out(p, s, k) /\ d.seq = s
          /\ d.kind = "fragment"
      BY <2>2 DEF FromFragment, Admits
    <3>2. PacketOK(Holder(d)) /\ Assembled(Holder(d), p, s)
      BY <3>1, HolderAssembled
    <3>3. ASSUME st = CopyFragment(Holder(d), d) PROVE Assembled(st, p, s)
      BY <3>1, <3>2, <3>3, CopyAssembled
    <3>4. Assembled(st, p, s)
      BY <2>2, <3>2, <3>3
    <3> QED BY <2>2, <3>1, <3>4
  <2> QED BY <1>0, <2>1, <2>2, DecodeEntries
<1>2. PICK q \in Packet : (\E j \in Nat : Out(q, t, j)) /\ Assembled(st, q, t)
  BY <1>1
<1>3. ASSUME NEW j, Out(q, t, j) PROVE Out(q, t, j)'
  BY <1>3, OutStays
<1>4. (\E j \in Nat : Out(q, t, j))'
  BY <1>2, <1>3
<1>5. Assembled(in_flight[t], q, t)'
  <2>1. \A j \in st.frag_received : Out(q, t, j)'
    BY <1>2, <1>3 DEF Assembled
  <2>2. /\ st.total_len = q.len /\ st.frag_count = FragCount(q.len)
        /\ \A o \in DOMAIN st.buf : st.buf[o] = Zeroed \/ st.buf[o] = <<q.id, o>>
    BY <1>2 DEF Assembled
  <2> QED BY <1>0, <2>1, <2>2 DEF Assembled
<1> QED BY <1>4, <1>5 DEF EntryHonest

\* What decode returns is a packet that was sent whole, and it is all of it: its
\* last fragment was out, so it is not the head.
LEMMA DecodeReturnsWhole ==
  ASSUME TaskInv, NumbersFresh, DecoderIInv, \A t \in DOMAIN in_flight : EntryHonest(t),
         NEW d, NEW p, NEW s, NEW k, FromFragment(d, p, s, k), Decode(d),
         decoded'.tag = "item"
  PROVE  /\ s \in Nat /\ s + 1 \in DOMAIN sent /\ decoded'.data = Whole(sent[s + 1])
         /\ latest_completed_seq < s /\ latest_completed_seq' = s
<1>0. p \in Packet /\ k \in Nat /\ Out(p, s, k) /\ d \in Datagram /\ d.seq = s
  BY DEF FromFragment
<1>1. PICK st, new : st = Holder(d) /\ new = CopyFragment(st, d)
  OBVIOUS
<1>2. /\ d.kind = "fragment" /\ AllReceived(new) /\ decoded'.data = new.buf
      /\ latest_completed_seq' = s /\ latest_completed_seq < s
      /\ \A o \in DOMAIN new.buf : new.buf[o] # Zeroed
  BY <1>0, <1>1, DecodeItem
<1>3. PacketOK(st) /\ Assembled(st, p, s)
  BY <1>1, <1>2, HolderAssembled
<1>4. Assembled(new, p, s)
  BY <1>1, <1>2, <1>3, CopyAssembled
<1>5. p.len \in Nat /\ p.len > 0 /\ FragCount(p.len) \in Nat /\ 0 < FragCount(p.len)
  BY <1>0, StreamAssumption, FragCountBounds DEF Out, Packet
<1>6. DOMAIN new.buf = 0 .. p.len - 1
  <2>1. DOMAIN st.buf = 0 .. st.total_len - 1 /\ st.total_len = p.len
    BY <1>3 DEF PacketOK, Accounted, Assembled
  <2> QED BY <1>1, <1>3, <2>1, CopyFields
<1>7. Out(p, s, FragCount(p.len) - 1)
  <2>1. new.frag_received = 0 .. FragCount(p.len) - 1
    BY <1>2, <1>4 DEF AllReceived, Assembled
  <2> QED BY <1>4, <1>5, <2>1 DEF Assembled
<1>8. s \in Nat /\ s + 1 \in DOMAIN sent /\ p = sent[s + 1]
  <2>1. ~(p = Head(packets) /\ FragCount(p.len) - 1 < frag_index /\ packets # <<>>)
    BY <1>5 DEF TaskInv, Numbering
  <2> QED BY <1>0, <1>7, <2>1, NumberNames
<1>9. new.buf = Whole(p)
  <2>1. \A o \in 0 .. p.len - 1 : new.buf[o] = <<p.id, o>>
    BY <1>2, <1>4, <1>6 DEF Assembled
  <2>2. new.buf = [o \in DOMAIN new.buf |-> new.buf[o]]
    <3>1. st.buf \in [0 .. st.total_len - 1 -> Byte \cup {Zeroed}]
      BY <1>3 DEF PacketOK, PacketStates
    <3> QED BY <1>1, <1>3, <3>1 DEF CopyFragment, PacketOK, PacketStates
  <2> QED BY <1>6, <2>1, <2>2 DEF Whole
<1> QED BY <1>2, <1>8, <1>9
-----------------------------------------------------------------------------
(* What has left the decoder.                                              *)

\* Its bytes tell the identity of a packet.
IdsTold ==
  \A n \in DOMAIN sent : IdOf(Whole(sent[n])) = sent[n].id /\ sent[n].id \in Nat \ {0}

LEMMA IdOfWhole == TaskInv => IdsTold
<1> SUFFICES ASSUME TaskInv, NEW n \in DOMAIN sent
             PROVE  IdOf(Whole(sent[n])) = sent[n].id /\ sent[n].id \in Nat \ {0}
  BY DEF IdsTold
<1> DEFINE data == Whole(sent[n])
           ps == {m \in DOMAIN sent : Whole(sent[m]) = data}
           c == CHOOSE m \in ps : TRUE
<1>1. ASSUME NEW m \in DOMAIN sent
      PROVE  sent[m].id \in Nat \ {0} /\ Whole(sent[m])[0] = <<sent[m].id, 0>>
  <2>1. PICK p : p = sent[m]
    OBVIOUS
  <2>2. p \in Packet /\ p.len > 0
    BY <2>1 DEF TaskInv, Numbering
  <2>3. p.id \in Nat \ {0} /\ p.len \in Nat
    BY <2>2, StreamAssumption DEF Packet
  <2>5. 0 \in 0 .. p.len - 1
    BY <2>2, <2>3
  <2>4. Whole(p)[0] = <<p.id, 0>>
    BY <2>5 DEF Whole
  <2> QED BY <2>1, <2>3, <2>4
<1>2. n \in ps
  OBVIOUS
<1>3. c \in ps
  BY <1>2
<1>4. IdOf(data) = sent[c].id
  BY <1>2 DEF IdOf
<1>5. sent[c].id = sent[n].id
  <2>1. c \in DOMAIN sent /\ Whole(sent[c]) = data
    BY <1>3
  <2>2. Whole(sent[c])[0] = <<sent[c].id, 0>> /\ Whole(sent[n])[0] = <<sent[n].id, 0>>
    BY <1>1, <2>1
  <2> HIDE DEF c, ps
  <2> QED BY <2>1, <2>2
<1> QED BY <1>1, <1>4, <1>5

\* That identity stays, whatever is sent and completed later.
LEMMA IdStays ==
  ASSUME TaskInv, TaskInv', DOMAIN sent \subseteq DOMAIN sent',
         \A n \in DOMAIN sent : sent'[n] = sent[n],
         latest_completed_seq \in Int, latest_completed_seq' \in Int,
         latest_completed_seq <= latest_completed_seq',
         NEW data, SentBefore(data)
  PROVE  SentBefore(data)' /\ IdOf(data)' = IdOf(data)
<1>1. PICK n \in DOMAIN sent : data = Whole(sent[n]) /\ n - 1 <= latest_completed_seq
  BY DEF SentBefore
<1>2. n \in DOMAIN sent' /\ sent'[n] = sent[n] /\ data = Whole(sent'[n])
  BY <1>1
<1>3. IdOf(data) = sent[n].id
  BY <1>1, IdOfWhole DEF IdsTold
<1>4. IdsTold'
  BY IdOfWhole, PTL
<1>5. IdOf(data)' = sent[n].id
  BY <1>2, <1>4 DEF IdsTold, Whole
<1>6. n - 1 <= latest_completed_seq'
  <2>1. n \in Nat
    BY LenProperties DEF TaskInv, Numbering
  <2> QED BY <1>1, <2>1
<1> QED BY <1>2, <1>3, <1>5, <1>6 DEF SentBefore, Whole

\* ... and so does the order of what has left the decoder.
LEMMA OrderStays ==
  ASSUME TaskInv, TaskInv', DOMAIN sent \subseteq DOMAIN sent',
         \A n \in DOMAIN sent : sent'[n] = sent[n],
         latest_completed_seq \in Int, latest_completed_seq' \in Int,
         latest_completed_seq <= latest_completed_seq',
         NEW q, InOrder(q)
  PROVE  InOrder(q)'
<1>1. q \in Seq(Data)
  BY DEF InOrder
<1>2. ASSUME NEW k \in DOMAIN q PROVE SentBefore(q[k])' /\ IdOf(q[k])' = IdOf(q[k])
  <2>1. SentBefore(q[k])
    BY DEF InOrder
  <2> QED BY <2>1, IdStays
<1>3. \A i, j \in DOMAIN q : i < j => (IdOf(q[i]) < IdOf(q[j]))'
  BY <1>2 DEF InOrder
<1> QED BY <1>1, <1>2, <1>3 DEF InOrder, Data, Whole

\* A packet completed after all of them goes to the end, or is dropped there.
LEMMA OrderGrows ==
  ASSUME TaskInv, NEW q, InOrder(q), NEW s \in Nat, s + 1 \in DOMAIN sent,
         latest_completed_seq \in Int, latest_completed_seq < s,
         UNCHANGED sent, TaskInv', latest_completed_seq' = s,
         NEW r, r = q \/ r = Append(q, Whole(sent[s + 1]))
  PROVE  InOrder(r)'
<1>1. InOrder(q)'
  BY OrderStays
<1>2. CASE r = Append(q, Whole(sent[s + 1]))
  <2>1. PICK data : data = Whole(sent[s + 1])
    OBVIOUS
  <2>2. sent[s + 1] \in Packet /\ data \in Data /\ q \in Seq(Data)
    BY <2>1 DEF InOrder, TaskInv, Numbering, Data
  <2>3. /\ r \in Seq(Data) /\ Len(q) \in Nat /\ DOMAIN q = 1 .. Len(q)
        /\ DOMAIN r = 1 .. Len(q) + 1
        /\ \A k \in 1 .. Len(q) : r[k] = q[k]
        /\ r[Len(q) + 1] = data
    BY <1>2, <2>1, <2>2, AppendProperties, LenProperties
  <2>4. SentBefore(data)' /\ IdOf(data)' = sent[s + 1].id
    <3>1. IdsTold'
      BY IdOfWhole, PTL
    <3> QED BY <2>1, <3>1 DEF SentBefore, IdsTold, Whole
  <2>5. ASSUME NEW k \in DOMAIN q PROVE IdOf(q[k])' < sent[s + 1].id
    <3>0. SentBefore(q[k])
      BY DEF InOrder
    <3>1. PICK n \in DOMAIN sent : q[k] = Whole(sent[n]) /\ n - 1 <= latest_completed_seq
      BY <3>0 DEF SentBefore
    <3>2. n \in Nat /\ n < s + 1
      <4>1. n \in Nat
        BY LenProperties DEF TaskInv, Numbering
      <4> QED BY <3>1, <4>1
    <3>3. sent[n].id < sent[s + 1].id
      BY <3>2 DEF TaskInv, Numbering
    <3>4. IdOf(q[k]) = sent[n].id /\ IdOf(q[k])' = IdOf(q[k])
      BY <3>0, <3>1, IdOfWhole, IdStays DEF IdsTold
    <3> QED BY <3>3, <3>4
  <2>6. ASSUME NEW k \in DOMAIN r
        PROVE  (k \in DOMAIN q /\ r[k] = q[k]) \/ (k = Len(q) + 1 /\ r[k] = data)
    BY <2>3
  <2>7. \A k \in DOMAIN r : SentBefore(r[k])'
    BY <1>1, <2>4, <2>6 DEF InOrder
  <2>8. ASSUME NEW i \in DOMAIN r, NEW j \in DOMAIN r, i < j
        PROVE  (IdOf(r[i]) < IdOf(r[j]))'
    <3>1. i \in DOMAIN q /\ r[i] = q[i]
      BY <2>3, <2>8
    <3>2. CASE j \in DOMAIN q /\ r[j] = q[j]
      BY <1>1, <2>8, <3>1, <3>2 DEF InOrder
    <3>3. CASE r[j] = data
      BY <2>4, <2>5, <3>1, <3>3
    <3> QED BY <2>6, <3>2, <3>3
  <2> QED BY <2>3, <2>7, <2>8 DEF InOrder, Data, Whole
<1> QED BY <1>1, <1>2

\* A fragment that was sent stays one that was sent.
LEMMA OutStep ==
  ASSUME TaskInv, StreamNext, ~MaySendFail, NEW p, NEW s, NEW k, Out(p, s, k)
  PROVE  Out(p, s, k)'
<1>1. PICK d : d = Fragment(p, s, k)
  OBVIOUS
<1>2. Honest(d)'
  BY <1>1, HonestStep DEF Out
<1>3. p.len > 0 /\ k \in 0 .. FragCount(p.len) - 1
  BY DEF Out
<1> QED BY <1>1, <1>2, <1>3 DEF Out, Fragment, FragCount

\* What is under assembly stays a packet of the server while nothing is decoded.
LEMMA EntriesStay ==
  ASSUME UNCHANGED in_flight, \A s \in DOMAIN in_flight : EntryHonest(s),
         \A p, s, k : Out(p, s, k) => Out(p, s, k)'
  PROVE  \A s \in DOMAIN in_flight' : EntryHonest(s)'
<1> SUFFICES ASSUME NEW s \in DOMAIN in_flight' PROVE EntryHonest(s)'
  OBVIOUS
<1>1. PICK st : st = in_flight[s] /\ st = in_flight'[s]
  OBVIOUS
<1>2. PICK p \in Packet : (\E k \in Nat : Out(p, s, k)) /\ Assembled(st, p, s)
  BY <1>1 DEF EntryHonest
<1>3. (\E k \in Nat : Out(p, s, k))' /\ \A k \in st.frag_received : Out(p, s, k)'
  BY <1>2 DEF Assembled
<1>4. Assembled(in_flight[s], p, s)'
  BY <1>1, <1>2, <1>3 DEF Assembled
<1> QED BY <1>3, <1>4 DEF EntryHonest

\* The stream task leaves the client's side alone.
LEMMA ClientWaits ==
  ASSUME SenderInv, SenderInv', DecoderIInv, ClientInv, StreamNext, ~MaySendFail,
         UNCHANGED clientVars
  PROVE  ClientInv'
<1>0. /\ TaskInv /\ TaskInv'
      /\ DOMAIN sent \subseteq DOMAIN sent' /\ \A n \in DOMAIN sent : sent'[n] = sent[n]
  BY SentGrows DEF SenderInv
<1>1. UNCHANGED <<in_flight, latest_completed_seq, completed, channel, presented>>
  BY DEF clientVars, decoderVars
<1>2. \A s \in DOMAIN in_flight' : EntryHonest(s)'
  BY <1>0, <1>1, OutStep, EntriesStay DEF ClientInv
<1>3. latest_completed_seq \in Int
  BY SequenceAssumption DEF DecoderIInv, DecoderTypeOK, Seqs, NoSeq
<1>4. PICK q, c : q = Queue /\ q = Queue' /\ c = completed /\ c = completed'
  BY <1>1 DEF Queue
<1>5. InOrder(q) /\ InOrder(c)
  BY <1>4 DEF ClientInv
<1>6. InOrder(q)' /\ InOrder(c)'
  BY <1>0, <1>1, <1>3, <1>5, OrderStays
<1>7. channel' \in Seq(Data) /\ presented' \in Seq(Data)
  BY <1>1 DEF ClientInv
<1> QED
  BY <1>2, <1>4, <1>6, <1>7 DEF ClientInv, InOrder, Data, Whole
-----------------------------------------------------------------------------
(* The client.                                                             *)

\* A read takes no more than is there, and leaves the buffer within its capacity.
LEMMA ReadBounds ==
  ASSUME spare \in 0 .. Capacity, NEW w, Len(w.bytes) \in Nat
  PROVE  /\ ReadLength(w) \in Nat /\ ReadLength(w) <= Size(w)
         /\ Room - ReadLength(w) \in 0 .. Capacity
         /\ Size(w) <= Room => ReadLength(w) = Size(w)
<1>0. Capacity \in Nat \ {0} /\ RtpHeader \in Nat /\ FragHeader \in Nat
  BY PipelineAssumption
<1>1. Room \in 1 .. Capacity
  BY <1>0 DEF Room
<1>2. PICK len \in Nat : len = Len(w.bytes)
  OBVIOUS
<1>3. PICK n : n = Size(w)
  OBVIOUS
<1>4. n \in Nat
  <2>1. n = RtpHeader + FragHeader + len
    BY <1>2, <1>3 DEF Size
  <2> HIDE <1>2
  <2> QED BY <1>0, <2>1
<1>5. ReadLength(w) = IF n < Room THEN n ELSE Room
  BY <1>3 DEF ReadLength
<1> QED BY <1>0, <1>1, <1>3, <1>4, <1>5

\* What a read does, in terms of the fragment it took.
LEMMA ReadFragment ==
  ASSUME SenderInv, spare \in 0 .. Capacity, NEW i \in DOMAIN wire, ReceiveDatagram(i)
  PROVE  /\ \E d \in Datagram : \E p \in Packet : \E s \in Seqs : \E k \in Nat :
              /\ FromFragment(d, p, s, k) /\ Decode(d)
              /\ Size(wire[i]) <= Room => d = wire[i] /\ d = Fragment(p, s, k)
         /\ spare' \in 0 .. Capacity
<1>1. PICK w : w = wire[i]
  OBVIOUS
<1>2. Honest(w)
  BY <1>1 DEF SenderInv
<1>3. Len(w.bytes) \in Nat
  <2>1. PICK p \in Packet : \E s \in Seqs : \E k \in Nat :
          w = Fragment(p, s, k) /\ Out(p, s, k) /\ k < FragCount(p.len)
    BY <1>2, HonestFields
  <2>2. p.len > 0
    BY <2>1 DEF Out
  <2> QED BY <2>1, <2>2, FragmentFields
<1>4. PICK n : n = ReadLength(w)
  OBVIOUS
<1>5. /\ n \in Nat /\ n <= Size(w) /\ Room - n \in 0 .. Capacity
      /\ Size(w) <= Room => n = Size(w)
  BY <1>3, <1>4, ReadBounds
<1>6. PICK d : d = Truncated(w, n)
  OBVIOUS
<1>7. d \in Datagram
  BY <1>2, <1>5, <1>6, Received
<1>8. \E p \in Packet : \E s \in Seqs : \E k \in Nat :
        FromFragment(d, p, s, k) /\ (n = Size(w) => d = w /\ d = Fragment(p, s, k))
  BY <1>2, <1>5, <1>6, Received
<1>9. Decode(d)
  BY <1>1, <1>4, <1>6 DEF ReceiveDatagram
<1>10. spare' \in 0 .. Capacity
  BY <1>1, <1>4, <1>5 DEF ReceiveDatagram
<1> QED BY <1>1, <1>5, <1>7, <1>8, <1>9, <1>10

\* While the client decodes or presents a packet the sender waits.
LEMMA SenderWaits ==
  ASSUME SenderInv, Receive
  PROVE  /\ TaskInv /\ TaskInv'
         /\ UNCHANGED <<packets, frag_index, sequence_number, sent>>
BY NetworkStep DEF SenderInv, Receive, ReceiveDatagram

\* What a read completes goes to the end of what has left the decoder.
LEMMA ClientReads ==
  ASSUME SenderInv, DecoderIInv, DecoderIInv', ClientInv, NumbersFresh,
         NEW i \in DOMAIN wire, ReceiveDatagram(i), Receive,
         NEW d, NEW p, NEW s, NEW k, FromFragment(d, p, s, k), Decode(d)
  PROVE  ClientInv'
<1>0. /\ TaskInv /\ TaskInv'
      /\ UNCHANGED <<packets, frag_index, sequence_number, sent>>
  BY SenderWaits
<1>1. \A t \in DOMAIN in_flight' : EntryHonest(t)'
  BY <1>0, DecodeKeepsHonest DEF ClientInv
<1>2. latest_completed_seq \in Int /\ latest_completed_seq' \in Int
  BY SequenceAssumption DEF DecoderIInv, DecoderTypeOK, Seqs, NoSeq
<1>3. UNCHANGED presented
  BY DEF ReceiveDatagram
<1>4. CASE decoded'.tag = "item"
  <2>1. /\ s \in Nat /\ s + 1 \in DOMAIN sent /\ decoded'.data = Whole(sent[s + 1])
        /\ latest_completed_seq < s /\ latest_completed_seq' = s
    BY <1>0, <1>4, DecodeReturnsWhole DEF ClientInv
  <2>2. PICK data : data = decoded'.data
    OBVIOUS
  <2>3. /\ completed' = Append(completed, data)
        /\ channel' = channel \/ channel' = Append(channel, data)
    BY <1>4, <2>2 DEF ReceiveDatagram, Forward
  <2>4. data \in Data /\ data = Whole(sent[s + 1])
    BY <1>0, <2>1, <2>2 DEF Data, TaskInv, Numbering
  <2>5. channel' \in Seq(Data)
    <3>1. channel \in Seq(Data)
      BY DEF ClientInv
    <3>2. Append(channel, data) \in Seq(Data)
      BY <2>4, <3>1, AppendProperties
    <3> QED BY <2>3, <3>1, <3>2
  <2>6. Queue' = Queue \/ Queue' = Append(Queue, data)
    <3>1. CASE channel' = channel
      BY <1>3, <3>1 DEF Queue
    <3>2. CASE channel' = Append(channel, data)
      <4>1. presented \o Append(channel, data) = Append(presented \o channel, data)
        BY <2>4 DEF ClientInv
      <4> QED BY <1>3, <3>2, <4>1 DEF Queue
    <3> QED BY <2>3, <3>1, <3>2
  <2>7. PICK c, q : c = completed' /\ q = Queue'
    OBVIOUS
  <2>8. InOrder(c)' /\ InOrder(q)'
    BY <1>0, <1>2, <2>1, <2>3, <2>4, <2>6, <2>7, OrderGrows DEF ClientInv
  <2> QED
    BY <1>1, <1>3, <2>5, <2>7, <2>8 DEF ClientInv, InOrder, Data, Whole
<1>5. CASE decoded'.tag # "item"
  <2>1. UNCHANGED latest_completed_seq
    BY <1>5, DecodeNoItem
  <2>2. UNCHANGED <<completed, channel>>
    BY <1>5 DEF ReceiveDatagram
  <2>3. PICK c, q : c = completed /\ c = completed' /\ q = Queue /\ q = Queue'
    BY <1>3, <2>2 DEF Queue
  <2>4. InOrder(c)' /\ InOrder(q)'
    BY <1>0, <1>2, <2>1, <2>3, OrderStays DEF ClientInv
  <2> QED
    BY <1>1, <1>3, <2>2, <2>3, <2>4 DEF ClientInv, InOrder, Data, Whole
<1> QED BY <1>4, <1>5
\* The main loop takes the oldest packet out of the channel.
LEMMA ClientPresents ==
  ASSUME TaskInv, DecoderIInv, ClientInv, Present
  PROVE  Queue' = Queue /\ ClientInv'
<1>0. /\ channel \in Seq(Data) /\ presented \in Seq(Data) /\ channel # <<>>
      /\ presented' = Append(presented, Head(channel)) /\ channel' = Tail(channel)
  BY DEF ClientInv, Present
<1>1. /\ Head(channel) \in Data /\ channel' \in Seq(Data) /\ presented' \in Seq(Data)
      /\ Append(presented, Head(channel)) \o Tail(channel) = presented \o channel
  BY <1>0
<1>2. Queue' = Queue
  BY <1>0, <1>1 DEF Queue
<1>3. UNCHANGED <<in_flight, latest_completed_seq, completed, packets, frag_index,
                  sequence_number, sent>>
  BY DEF Present, streamVars, sendVars, decoderVars
<1>4. \A t \in DOMAIN in_flight' : EntryHonest(t)'
  BY <1>3, OutStays, EntriesStay DEF ClientInv
<1>5. PICK c, q : c = completed /\ c = completed' /\ q = Queue /\ q = Queue'
  BY <1>2, <1>3
<1>6. InOrder(c)' /\ InOrder(q)'
  <2>1. InOrder(c) /\ InOrder(q)
    BY <1>5 DEF ClientInv
  <2>2. latest_completed_seq \in Int
    BY SequenceAssumption DEF DecoderIInv, DecoderTypeOK, Seqs, NoSeq
  <2>3. UNCHANGED streamVars
    BY DEF Present
  <2>4. TaskInv'
    BY <2>3 DEF streamVars, captureVars, sendVars, TaskInv, StreamTypeOK, FrameFresh,
       EmptyFrameNeverEncoded, Numbering, TooLarge, FragCount
  <2> QED BY <1>3, <2>1, <2>2, <2>4, OrderStays
<1> QED
  BY <1>1, <1>2, <1>4, <1>5, <1>6, <1>0 DEF ClientInv, InOrder, Data, Whole
\* The network and the reader's end change nothing of it.
LEMMA ClientIdle ==
  ASSUME ClientInv, UNCHANGED <<packets, frag_index, sequence_number, sent, in_flight,
           latest_completed_seq, completed, channel, presented>>
  PROVE  ClientInv'
<1>1. \A t \in DOMAIN in_flight' : EntryHonest(t)'
  BY OutStays, EntriesStay DEF ClientInv
<1>2. PICK c, q : c = completed /\ c = completed' /\ q = Queue /\ q = Queue'
  BY DEF Queue
<1>3. ASSUME NEW x PROVE IdOf(x)' = IdOf(x) /\ (SentBefore(x) => SentBefore(x)')
  <2>1. PICK S : S = sent /\ S = sent'
    OBVIOUS
  <2>2. IdOf(x)' = IdOf(x)
    BY <2>1 DEF IdOf, Whole
  <2> QED BY <2>2 DEF SentBefore, Whole
<1>4. ASSUME NEW r, InOrder(r) PROVE InOrder(r)'
  <2>1. \A i, j \in DOMAIN r : i < j => (IdOf(r[i]) < IdOf(r[j]))'
    BY <1>3, <1>4 DEF InOrder
  <2> QED BY <1>3, <1>4, <2>1 DEF InOrder, Data, Whole
<1> QED BY <1>1, <1>2, <1>4 DEF ClientInv, InOrder, Data, Whole

\* The pipeline starts with nothing sent and nothing decoded.
LEMMA PipelineInitially == PipelineInit => PipelineInv
<1> SUFFICES ASSUME PipelineInit PROVE PipelineInv
  OBVIOUS
<1>1. TaskInv /\ DecoderIInv
  BY TaskInitially, DecoderInitIInv DEF PipelineInit
<1>2. /\ wire = <<>> /\ produced = 0 /\ encoded_frame = NoFrame /\ spare = Capacity
      /\ in_flight = <<>> /\ completed = <<>> /\ channel = <<>> /\ presented = <<>>
  BY DEF PipelineInit, StreamInit, DecoderInit
<1>3. SenderInv
  <2>1. PacketsOf(0) = 0
    BY StreamAssumption DEF PacketsOf
  <2>2. wire \in Seq(Fragments) /\ DOMAIN wire = {}
    BY <1>2, EmptySeq
  <2> QED BY <1>1, <1>2, <2>1, <2>2 DEF SenderInv
<1>4. ClientInv
  <2>1. /\ <<>> \in Seq(Data) /\ \A k \in DOMAIN <<>> : FALSE
        /\ Queue = <<>>
    BY <1>2, EmptySeq DEF Queue
  <2> QED BY <1>2, <2>1 DEF ClientInv, InOrder
<1>5. spare \in 0 .. Capacity
  BY <1>2, PipelineAssumption
<1> QED BY <1>1, <1>3, <1>4, <1>5 DEF PipelineInv

\* Once used up, the numbers stay used up.
LEMMA FreshBefore ==
  ASSUME TaskInv, TaskInv', StreamNext \/ UNCHANGED sent, NumbersFresh'
  PROVE  NumbersFresh
<1>1. sent \in Seq(Packet) /\ sent' \in Seq(Packet)
  BY DEF TaskInv, Numbering
<1>2. DOMAIN sent \subseteq DOMAIN sent'
  BY SentGrows
<1>3. /\ Len(sent) \in Nat /\ DOMAIN sent = 1 .. Len(sent)
      /\ Len(sent') \in Nat /\ DOMAIN sent' = 1 .. Len(sent')
  BY <1>1, LenProperties
<1>4. Len(sent) <= Len(sent')
  BY <1>2, <1>3
<1> QED BY <1>3, <1>4, SequenceAssumption DEF NumbersFresh

\* Every step of the pipeline keeps its invariant.
LEMMA PipelineStep ==
  ASSUME PipelineInv, [PipelineNext]_pipelineVars, ~MaySendFail
  PROVE  PipelineInv'
<1>0. /\ SenderInv /\ TaskInv /\ DecoderIInv /\ spare \in 0 .. Capacity
      /\ NumbersFresh => ClientInv
  BY DEF PipelineInv, SenderInv
<1>1. ASSUME UNCHANGED decoderVars PROVE DecoderIInv'
  BY <1>0, <1>1 DEF DecoderIInv, decoderVars, DecoderTypeOK, WindowInv,
     TailNeverAssembled, AssemblyInv, FinishedLeaves, NoUnwrittenByte
<1>2. ASSUME UNCHANGED streamVars PROVE SenderInv'
  <2>1. UNCHANGED <<captureVars, cancelled, pc, stopped_receiving_frames, encoded_frame,
                    packets, frag_index, sequence_number, produced, sent, wire>>
    BY <1>2 DEF streamVars, sendVars
  <2>2. wire' \in Seq(Fragments) /\ Len(wire') <= MaxWire
    BY <1>0, <2>1 DEF SenderInv, TaskInv, StreamTypeOK
  <2> QED BY <1>0, <2>1, <2>2, WireStays
<1>3. CASE StreamNext /\ UNCHANGED clientVars
  <2>1. SenderInv' /\ DecoderIInv' /\ spare' = spare
    BY <1>0, <1>1, <1>3, SenderStep DEF clientVars
  <2>2. NumbersFresh' => NumbersFresh
    BY <1>0, <1>3, <2>1, FreshBefore DEF SenderInv
  <2> QED BY <1>0, <1>3, <2>1, <2>2, ClientWaits DEF PipelineInv
<1>4. CASE NetLose \/ NetDuplicate
  <2>1. UNCHANGED <<decoderVars, spare, completed, channel, presented,
                    packets, frag_index, sequence_number, sent>>
    BY <1>4 DEF NetLose, NetDuplicate, clientVars
  <2>2. SenderInv' /\ DecoderIInv' /\ spare' = spare
    BY <1>0, <1>1, <1>4, <2>1, NetworkStep
  <2>3. NumbersFresh' => ClientInv'
    BY <1>0, <2>1, ClientIdle DEF NumbersFresh, decoderVars
  <2> QED BY <1>0, <2>2, <2>3 DEF PipelineInv
<1>5. CASE Receive
  <2>1. PICK i \in DOMAIN wire : ReceiveDatagram(i)
    BY <1>5 DEF Receive
  <2>2. PICK d \in Datagram : \E p \in Packet : \E s \in Seqs : \E k \in Nat :
               FromFragment(d, p, s, k) /\ Decode(d)
    BY <1>0, <2>1, ReadFragment
  <2>3. spare' \in 0 .. Capacity
    BY <1>0, <2>1, ReadFragment
  <2>4. SenderInv' /\ DecoderIInv'
    BY <1>0, <1>5, <2>2, NetworkStep, DecodeIInv
  <2>5. NumbersFresh' => NumbersFresh
    BY <1>0, <1>5, SenderWaits DEF NumbersFresh
  <2>6. NumbersFresh' => ClientInv'
    BY <1>0, <1>5, <2>1, <2>2, <2>4, <2>5, ClientReads
  <2> QED BY <2>3, <2>4, <2>6 DEF PipelineInv
<1>6. CASE Present
  <2>1. UNCHANGED <<streamVars, decoderVars, spare, sent>>
    BY <1>6 DEF Present, streamVars, sendVars
  <2>2. NumbersFresh' => ClientInv'
    BY <1>0, <1>6, <2>1, ClientPresents DEF NumbersFresh
  <2> QED BY <1>0, <1>1, <1>2, <2>1, <2>2 DEF PipelineInv
<1>7. CASE ReceiveFails \/ ReaderCancelled \/ UNCHANGED pipelineVars
  <2>1. UNCHANGED <<streamVars, decoderVars, spare, completed, channel, presented>>
    BY <1>7 DEF ReceiveFails, ReaderCancelled, pipelineVars, clientVars
  <2>2. UNCHANGED <<packets, frag_index, sequence_number, sent, in_flight,
                    latest_completed_seq>>
    BY <2>1 DEF streamVars, sendVars, decoderVars
  <2>3. NumbersFresh' => ClientInv'
    BY <1>0, <2>1, <2>2, ClientIdle DEF NumbersFresh
  <2> QED BY <1>0, <1>1, <1>2, <2>1, <2>3 DEF PipelineInv
<1> QED BY <1>3, <1>4, <1>5, <1>6, <1>7 DEF PipelineNext
-----------------------------------------------------------------------------
(* The theorems.                                                           *)

\* The invariant holds through every loss, repetition, reordering and cut.
THEOREM PipelineInvariance ==
  ASSUME ~MaySendFail PROVE PipelineSafetySpec => []PipelineInv
<1>1. PipelineInv /\ [PipelineNext]_pipelineVars => PipelineInv'
  BY PipelineStep
<1> QED BY <1>1, PipelineInitially, PTL DEF PipelineSafetySpec

\* While numbers last everything the decoder returns is one packet that was sent,
\* byte for byte.
THEOREM DecodedIntact ==
  ASSUME ~MaySendFail
  PROVE  PipelineSafetySpec => [](NumbersFresh => PacketsIntact)
<1>1. ASSUME PipelineInv, NumbersFresh PROVE PacketsIntact
  <2> SUFFICES ASSUME NEW k \in DOMAIN completed PROVE IdOf(completed[k]) # 0
    BY DEF PacketsIntact
  <2>1. TaskInv /\ SentBefore(completed[k])
    BY <1>1 DEF PipelineInv, SenderInv, ClientInv, InOrder
  <2> QED BY <2>1, IdOfWhole DEF SentBefore, IdsTold
<1> QED BY <1>1, PipelineInvariance, PTL

\* What the main loop has been given, as the abstract stream counts it.
Shown == [k \in DOMAIN presented |-> IdOf(presented[k])]

\* The next packet in the channel is a later one than any presented.
LEMMA NextShown ==
  ASSUME TaskInv, ClientInv, Present, NEW n, n = IdOf(Head(channel)), Shown' = Append(Shown, n)
  PROVE  L!Show
<1>0. /\ channel \in Seq(Data) /\ presented \in Seq(Data) /\ channel # <<>>
      /\ InOrder(Queue)
  BY DEF ClientInv, Present
<1>1. PICK c, m : c = Len(channel) /\ m = Len(presented)
  OBVIOUS
<1>2. c \in Nat \ {0} /\ m \in Nat
  BY <1>0, <1>1
<1>3. /\ Queue[m + 1] = Head(channel) /\ DOMAIN Queue = 1 .. m + c
      /\ \A k \in 1 .. m : Queue[k] = presented[k]
  BY <1>0, <1>1, <1>2 DEF Queue
<1>4. SentBefore(Head(channel))
  <2>1. m + 1 \in DOMAIN Queue
    BY <1>2, <1>3
  <2>2. SentBefore(Queue[m + 1])
    BY <1>0, <2>1 DEF InOrder
  <2> QED BY <1>3, <2>2
<1>5. n \in Nat \ {0} /\ n <= produced
  <2>1. PICK j \in DOMAIN sent : Head(channel) = Whole(sent[j])
    BY <1>4 DEF SentBefore
  <2>2. n = sent[j].id /\ n \in Nat \ {0}
    BY <2>1, IdOfWhole DEF IdsTold
  <2>3. sent[j].id <= produced - Len(packets) /\ Len(packets) \in Nat /\ produced \in Nat
    BY LenProperties DEF TaskInv, Numbering
  <2> QED BY <2>2, <2>3
<1>6. /\ DOMAIN Shown = 1 .. m /\ Len(Shown) = m
      /\ Shown = <<>> <=> m = 0
      /\ \A k \in 1 .. m : Shown[k] = IdOf(Queue[k])
  BY <1>0, <1>1, <1>2, <1>3 DEF Shown
<1>7. n \in L!LastShown + 1 .. produced
  <2>1. CASE m = 0
    BY <1>5, <1>6, <2>1 DEF L!LastShown, Shown, TaskInv, Numbering
  <2>2. CASE m > 0
    <3>1. Shown[m] = IdOf(Queue[m]) /\ IdOf(Queue[m]) < n
      BY <1>0, <1>2, <1>3, <1>6, <2>2 DEF InOrder
    <3>2. IdOf(Queue[m]) \in Nat
      <4>1. SentBefore(Queue[m])
        BY <1>0, <1>2, <1>3, <2>2 DEF InOrder
      <4> QED BY <4>1, IdOfWhole DEF SentBefore, IdsTold
    <3>3. L!LastShown = IdOf(Queue[m])
      BY <1>6, <2>2, <3>1 DEF L!LastShown, Shown
    <3> QED BY <1>5, <3>1, <3>2, <3>3 DEF TaskInv, Numbering
  <2> QED BY <1>2, <2>1, <2>2
<1>8. UNCHANGED produced
  BY DEF Present, streamVars, sendVars
<1>9. Shown' # Shown
  <2>1. Shown = [k \in 1 .. m |-> Shown[k]] 
    BY <1>6 DEF Shown
  <2>2. Len(Append(Shown, n)) = m + 1
    BY <1>2, <1>6, <2>1
  <2> QED BY <1>2, <1>6, <2>2
<1> QED BY <1>7, <1>8, <1>9 DEF L!Show, L!LastShown, Shown
\* A step of the pipeline is one of the abstract stream, or none.
LEMMA LossyStep ==
  ASSUME PipelineInv, PipelineInv', NumbersFresh, [PipelineNext]_pipelineVars, ~MaySendFail
  PROVE  [L!Produce \/ L!Show]_<<produced, Shown>>
<1>0. TaskInv /\ TaskInv' /\ ClientInv /\ DecoderIInv
  BY DEF PipelineInv, SenderInv
<1>1. CASE Present
  <2>1. PICK n : n = IdOf(Head(channel))
    OBVIOUS
  <2>2. /\ channel \in Seq(Data) /\ presented \in Seq(Data) /\ channel # <<>>
        /\ presented' = Append(presented, Head(channel)) /\ UNCHANGED sent
    BY <1>0, <1>1 DEF ClientInv, Present, streamVars, sendVars
  <2>3. /\ Len(presented) \in Nat /\ DOMAIN presented = 1 .. Len(presented)
        /\ DOMAIN presented' = 1 .. Len(presented) + 1
        /\ \A k \in 1 .. Len(presented) : presented'[k] = presented[k]
        /\ presented'[Len(presented) + 1] = Head(channel)
    BY <2>2
  <2>4. \A x : IdOf(x)' = IdOf(x)
    BY <2>2 DEF IdOf, Whole
  <2>5. Shown' = Append(Shown, n)
    BY <2>1, <2>3, <2>4 DEF Shown
  <2> QED BY <1>0, <1>1, <2>1, <2>5, NextShown
<1>2. CASE StreamNext /\ UNCHANGED clientVars
  <2>1. PICK q : q = presented /\ q = presented'
    BY <1>2 DEF clientVars
  <2>2. ASSUME NEW k \in DOMAIN q PROVE IdOf(q[k])' = IdOf(q[k])
    <3>1. SentBefore(q[k])
      <4>1. k \in DOMAIN Queue /\ Queue[k] = q[k]
        BY <1>0, <2>1 DEF ClientInv, Queue
      <4> QED BY <1>0, <4>1 DEF ClientInv, InOrder
    <3>2. latest_completed_seq \in Int /\ latest_completed_seq' = latest_completed_seq
      BY <1>0, <1>2, SequenceAssumption
      DEF DecoderIInv, DecoderTypeOK, Seqs, NoSeq, clientVars, decoderVars
    <3> QED BY <1>0, <1>2, <3>1, <3>2, SentGrows, IdStays
  <2>3. UNCHANGED Shown
    BY <2>1, <2>2 DEF Shown
  <2>4. produced' = produced \/ produced' > produced
    <3>1. CASE EncodeFrame
      <4>1. PICK ps \in Encodings : produced' = produced + Len(ps)
        BY <3>1 DEF EncodeFrame
      <4>2. ps \in Seq(Packet) /\ produced \in Nat
        BY <1>0, <4>1, EncodedPackets DEF TaskInv, Numbering
      <4>3. Len(ps) \in Nat
        BY <4>2, LenProperties
      <4> QED BY <4>1, <4>2, <4>3
    <3> QED
      BY <1>2, <3>1, SendSteps DEF sendVars, SkipPacket, SendFragment, SendFails
  <2> QED BY <2>3, <2>4 DEF L!Produce, Shown
<1>3. CASE NetLose \/ NetDuplicate \/ Receive \/ ReceiveFails \/ ReaderCancelled
           \/ UNCHANGED pipelineVars
  <2>1. UNCHANGED <<produced, sent, presented>>
    BY <1>3 DEF NetLose, NetDuplicate, Receive, ReceiveDatagram, ReceiveFails,
       ReaderCancelled, pipelineVars, clientVars, streamVars, sendVars
  <2>2. \A x : IdOf(x)' = IdOf(x)
    BY <2>1 DEF IdOf, Whole
  <2>3. UNCHANGED Shown
    BY <2>1, <2>2 DEF Shown
  <2> QED BY <2>1, <2>3
<1> QED BY <1>1, <1>2, <1>3 DEF PipelineNext

\* End to end the stream is what LossyStream promises: the client's video decoder
\* gets some of the packets the encoder produced, whole, in order, none twice.
THEOREM StreamImplemented ==
  ASSUME ~MaySendFail
  PROVE  PipelineSafetySpec /\ []NumbersFresh => ImplementsLossyStream
<1>1. PipelineInit => L!LossyInit
  <2> SUFFICES ASSUME PipelineInit PROVE L!LossyInit
    OBVIOUS
  <2>1. presented = <<>> /\ produced = 0
    BY DEF PipelineInit, StreamInit
  <2> QED BY <2>1 DEF L!LossyInit
<1>2. PipelineInv /\ PipelineInv' /\ NumbersFresh /\ [PipelineNext]_pipelineVars
        => [L!Produce \/ L!Show]_<<produced, Shown>>
  BY LossyStep
<1> QED
  BY <1>1, <1>2, PipelineInvariance, PTL
  DEF PipelineSafetySpec, ImplementsLossyStream, L!LossySpec, Shown
-----------------------------------------------------------------------------
(* Where every datagram is read whole.                                     *)

\* Where fragment k of a packet of len bytes ends.
End(len, k) == IF Offset(k) + MaxPayload < len THEN Offset(k) + MaxPayload ELSE len

\* The ranges a packet under assembly has are those of the fragments it has.
Exact(st) == st.fragment_ranges = {<<Offset(k), End(st.total_len, k)>> : k \in st.frag_received}

\* The buffer always has room for a datagram, so its fragments come whole.
RoomInv ==
  /\ spare = Capacity
  /\ \A s \in DOMAIN in_flight : Exact(in_flight[s])

\* The datagrams of this server fit into an empty buffer.
BufferFits == ~BufferRunsOut /\ RtpHeader + FragHeader + MaxPayload <= Capacity

\* Where a fragment begins and ends.
LEMMA FragmentRange ==
  ASSUME NEW p \in Packet, p.len > 0, NEW s, NEW k \in Nat, k < FragCount(p.len),
         NEW d, d = Fragment(p, s, k)
  PROVE  /\ FragStart(d) = Offset(k) /\ FragEnd(d) = End(p.len, k)
         /\ End(p.len, k) \in Nat /\ End(p.len, k) <= p.len
         /\ Len(d.bytes) \in Nat /\ Len(d.bytes) <= MaxPayload
<1>0. p.len \in Nat /\ MaxPayload \in Nat /\ Offset(k) \in Nat
  BY StreamAssumption, Offsets DEF Packet
<1>1. /\ d.frag_offset = Offset(k) /\ Len(d.bytes) \in Nat
      /\ Offset(k) + Len(d.bytes) = End(p.len, k)
  BY FragmentFields DEF End
<1>2. PICK o, n \in Nat : o = Offset(k) /\ n = Len(d.bytes)
  BY <1>0, <1>1
<1>3. End(p.len, k) = o + n /\ o + n <= p.len /\ n <= MaxPayload
  BY <1>0, <1>1, <1>2 DEF End
<1> QED BY <1>1, <1>2, <1>3 DEF FragStart, FragEnd

\* Two fragments of one packet have no byte in common.
LEMMA RangesApart ==
  ASSUME NEW len \in Nat, NEW i \in Nat, NEW j \in Nat, i # j,
         i < FragCount(len), j < FragCount(len)
  PROVE  ~(Offset(i) < End(len, j) /\ Offset(j) < End(len, i))
<1>0. MaxPayload \in Nat
  BY StreamAssumption
<1>1. ASSUME NEW a \in Nat, NEW b \in Nat, a < b PROVE ~(Offset(b) < End(len, a))
  <2>1. /\ Offset(a + 1) = Offset(a) + MaxPayload /\ Offset(a) \in Nat /\ Offset(b) \in Nat
        /\ Offset(a + 1) <= Offset(b)
    <3>1. a + 1 \in Nat /\ a + 1 <= b
      BY <1>1
    <3>2. Offset(a + 1) <= Offset(b)
      BY <3>1, Offsets
    <3> HIDE <1>1
    <3> QED BY <3>2, Offsets
  <2>2. Offset(a) + MaxPayload <= Offset(b)
    BY <2>1
  <2>3. End(len, a) \in Nat /\ End(len, a) <= Offset(a) + MaxPayload
    BY <1>0, <2>1 DEF End
  <2> QED BY <1>0, <2>1, <2>2, <2>3
<1> QED BY <1>1

\* A fresh packet has no fragment and no range.
LEMMA HolderExact ==
  ASSUME \A t \in DOMAIN in_flight : Exact(in_flight[t]), NEW d
  PROVE  Exact(Holder(d))
<1>1. CASE d.seq \in DOMAIN in_flight
  BY <1>1 DEF Holder
<1>2. CASE d.seq \notin DOMAIN in_flight
  <2>1. PICK st : st = NewPacketState(d) /\ st = Holder(d)
    BY <1>2 DEF Holder
  <2>2. st.frag_received = {} /\ st.fragment_ranges = {}
    BY <2>1 DEF NewPacketState
  <2> QED BY <2>1, <2>2 DEF Exact
<1> QED BY <1>1, <1>2

\* A whole fragment of p agrees with what is held of p.
LEMMA NoConflict ==
  ASSUME NEW st, NEW p \in Packet, p.len > 0, NEW s, Assembled(st, p, s), Exact(st),
         NEW k \in Nat, k < FragCount(p.len), NEW d, d = Fragment(p, s, k)
  PROVE  ~Conflict(st, d)
<1>0. p.len \in Nat /\ FragCount(p.len) \in Nat
  BY StreamAssumption, FragCountBounds DEF Packet
<1>1. /\ d.total_len = p.len /\ d.frag_count = FragCount(p.len) /\ d.frag_index = k
      /\ FragStart(d) = Offset(k) /\ FragEnd(d) = End(p.len, k)
      /\ End(p.len, k) \in Nat /\ End(p.len, k) <= p.len
  BY FragmentFields, FragmentRange
<1>2. /\ st.total_len = p.len /\ st.frag_count = FragCount(p.len)
      /\ \A j \in st.frag_received : j \in Nat /\ j < FragCount(p.len)
  BY <1>0 DEF Assembled, Out
<1>3. ~HeaderMismatch(st, d) /\ ~OutOfBounds(st, d)
  BY <1>0, <1>1, <1>2 DEF HeaderMismatch, OutOfBounds
<1>4. ASSUME NEW r \in st.fragment_ranges, ~Duplicate(st, d)
      PROVE  ~(FragStart(d) < r[2] /\ r[1] < FragEnd(d))
  <2>1. PICK j \in st.frag_received : r = <<Offset(j), End(p.len, j)>>
    BY <1>2 DEF Exact
  <2>2. j \in Nat /\ j < FragCount(p.len) /\ j # k
    BY <1>1, <1>2, <1>4 DEF Duplicate
  <2>3. ~(Offset(k) < End(p.len, j) /\ Offset(j) < End(p.len, k))
    BY <1>0, <2>2, RangesApart
  <2>4. r[1] = Offset(j) /\ r[2] = End(p.len, j)
    BY <2>1
  <2> QED BY <1>1, <2>3, <2>4
<1> QED BY <1>3, <1>4 DEF Conflict, Overlaps

\* With its fragment the packet still has the ranges of the fragments it has.
LEMMA CopyExact ==
  ASSUME NEW st, PacketOK(st), NEW p \in Packet, p.len > 0, NEW s, st.total_len = p.len,
         Exact(st), NEW k \in Nat, k < FragCount(p.len), NEW d, d = Fragment(p, s, k),
         NEW new, new = CopyFragment(st, d)
  PROVE  Exact(new)
<1>1. d.frag_index = k /\ FragStart(d) = Offset(k) /\ FragEnd(d) = End(p.len, k)
  BY FragmentFields, FragmentRange
<1>2. /\ new.total_len = p.len /\ new.frag_received = st.frag_received \cup {k}
      /\ new.fragment_ranges = st.fragment_ranges \cup {<<Offset(k), End(p.len, k)>>}
  BY <1>1, CopyFields
<1> QED BY <1>2 DEF Exact

\* A packet that has all its fragments has all its bytes.
LEMMA NoShortfall ==
  ASSUME NEW st, PacketOK(st), NEW p \in Packet, p.len > 0, st.total_len = p.len,
         st.frag_count = FragCount(p.len), Exact(st), AllReceived(st)
  PROVE  st.received_bytes = st.total_len
<1>0. p.len \in Nat /\ FragCount(p.len) \in Nat /\ MaxPayload \in Nat
  BY StreamAssumption, FragCountBounds DEF Packet
<1>1. /\ DOMAIN st.buf = 0 .. p.len - 1
      /\ \A o \in DOMAIN st.buf :
           o \in Written(st) <=> \E r \in st.fragment_ranges : r[1] <= o /\ o < r[2]
      /\ st.received_bytes = Cardinality(Written(st))
  BY DEF PacketOK, Accounted
<1>2. ASSUME NEW o \in 0 .. p.len - 1 PROVE o \in Written(st)
  <2>1. PICK k \in Nat : k < FragCount(p.len) /\ Offset(k) <= o /\ o < Offset(k) + MaxPayload
    BY <1>0, FragmentHolding
  <2>2. Offset(k) \in Nat
    BY Offsets
  <2>3. o < End(p.len, k)
    BY <1>0, <2>1, <2>2 DEF End
  <2>4. k \in st.frag_received
    BY <1>0, <2>1 DEF AllReceived
  <2>5. PICK r : r = <<Offset(k), End(p.len, k)>>
    OBVIOUS
  <2>6. r \in st.fragment_ranges /\ r[1] = Offset(k) /\ r[2] = End(p.len, k)
    BY <2>4, <2>5 DEF Exact
  <2> QED BY <1>1, <2>1, <2>3, <2>6
<1>3. Written(st) = 0 .. p.len - 1
  BY <1>1, <1>2 DEF Written
<1>4. 0 + p.len - 1 = p.len - 1
  BY <1>0
<1>5. Cardinality(0 .. p.len - 1) = p.len
  BY <1>0, <1>4, IntervalSize
<1> QED BY <1>1, <1>3, <1>5
\* A read takes in the fragment whole.
LEMMA ReadWhole ==
  ASSUME SenderInv, spare = Capacity, BufferFits, NEW i \in DOMAIN wire, ReceiveDatagram(i)
  PROVE  /\ \E d \in Datagram : \E p \in Packet : \E s \in Seqs : \E k \in Nat :
              FromFragment(d, p, s, k) /\ Decode(d) /\ d = wire[i] /\ d = Fragment(p, s, k)
         /\ spare' = Capacity
<1>0. Capacity \in Nat \ {0} /\ RtpHeader \in Nat /\ FragHeader \in Nat /\ MaxPayload \in Nat
  BY PipelineAssumption, StreamAssumption
<1>1. Room = Capacity /\ spare \in 0 .. Capacity
  BY <1>0 DEF Room
<1>2. PICK w : w = wire[i]
  OBVIOUS
<1>3. Honest(w)
  BY <1>2 DEF SenderInv
<1>4. PICK q \in Packet : \E s \in Seqs : \E k \in Nat :
        w = Fragment(q, s, k) /\ Out(q, s, k) /\ k < FragCount(q.len)
  BY <1>3, HonestFields
<1>5. Len(w.bytes) \in Nat /\ Len(w.bytes) <= MaxPayload
  <2>1. q.len > 0
    BY <1>4 DEF Out
  <2> QED BY <1>4, <2>1, FragmentRange
<1>6. PICK n \in Nat : n = Len(w.bytes) /\ n <= MaxPayload
  BY <1>5
<1>7. Size(w) = RtpHeader + FragHeader + n
  BY <1>6 DEF Size
<1>8. RtpHeader + FragHeader + MaxPayload <= Capacity
  BY DEF BufferFits
<1>9. Size(wire[i]) <= Room
  <2>r. RtpHeader \in Nat
    BY <1>0
  <2>f. FragHeader \in Nat
    BY <1>0
  <2>m. MaxPayload \in Nat /\ Capacity \in Nat /\ n <= MaxPayload
    BY <1>0, <1>6
  <2>1. RtpHeader + FragHeader + n <= Capacity
    BY <1>8, <2>r, <2>f, <2>m
  <2> QED BY <1>1, <1>2, <1>7, <2>1
<1>10. \E d \in Datagram : \E p \in Packet : \E s \in Seqs : \E k \in Nat :
         /\ FromFragment(d, p, s, k) /\ Decode(d)
         /\ Size(wire[i]) <= Room => d = wire[i] /\ d = Fragment(p, s, k)
  BY <1>1, ReadFragment
<1>11. spare' = Capacity
  BY DEF ReceiveDatagram, BufferFits
<1> QED BY <1>9, <1>10, <1>11

\* decode keeps the ranges of what is under assembly exact, and gives up a packet
\* only for a later one.
LEMMA DecodeWhole ==
  ASSUME TaskInv, NumbersFresh, DecoderIInv, \A t \in DOMAIN in_flight : EntryHonest(t),
         \A t \in DOMAIN in_flight : Exact(in_flight[t]),
         NEW d, NEW p, NEW s, NEW k, FromFragment(d, p, s, k), d = Fragment(p, s, k),
         Decode(d)
  PROVE  /\ \A t \in DOMAIN in_flight' : Exact(in_flight'[t])
         /\ \A t \in DOMAIN in_flight \ DOMAIN in_flight' :
              latest_completed_seq' >= t \/ latest_seq' >= t + InFlightWindow
<1>0. /\ p \in Packet /\ k \in Nat /\ Out(p, s, k) /\ d \in Datagram /\ d.seq = s
  BY DEF FromFragment
<1>1. p.len > 0 /\ p.len \in Nat /\ FragCount(p.len) \in Nat /\ k < FragCount(p.len)
  <2>1. p.len > 0 /\ p.len \in Nat /\ FragCount(p.len) \in Nat
    BY <1>0, StreamAssumption, FragCountBounds DEF Out, Packet
  <2> QED BY <1>0, <2>1 DEF Out
<1>2. d.kind = "fragment"
  BY <1>0, <1>1, FragmentFields
<1>3. PICK st, new : st = Holder(d) /\ new = CopyFragment(st, d)
  OBVIOUS
<1>4. PacketOK(st) /\ Assembled(st, p, s) /\ Exact(st)
  BY <1>2, <1>3, HolderAssembled, HolderExact
<1>5. st.total_len = p.len /\ st.frag_count = FragCount(p.len)
  BY <1>4 DEF Assembled
<1>6. /\ Exact(new) /\ new.total_len = p.len /\ new.frag_count = FragCount(p.len)
  <2>1. Exact(new)
    BY <1>0, <1>1, <1>3, <1>4, <1>5, CopyExact
  <2>2. new.total_len = st.total_len /\ new.frag_count = st.frag_count
    BY <1>3, <1>4, CopyFields
  <2> QED BY <1>5, <2>1, <2>2
<1>7. ASSUME NEW t \in DOMAIN in_flight' PROVE Exact(in_flight'[t])
  <2>1. PICK e : e = in_flight'[t]
    OBVIOUS
  <2>2. (t \in DOMAIN in_flight /\ e = in_flight[t]) \/ e = st \/ e = new
    BY <1>3, <2>1, DecodeEntries
  <2> QED BY <1>4, <1>6, <2>1, <2>2
<1>8. ASSUME NEW t \in DOMAIN in_flight, t \notin DOMAIN in_flight'
      PROVE  latest_completed_seq' >= t \/ latest_seq' >= t + InFlightWindow
  <2>1. ~Conflict(st, d)
    BY <1>0, <1>1, <1>4, NoConflict
  <2>2. ASSUME Fits(d), Copied(d) = new, AllReceived(new) PROVE new.received_bytes = new.total_len
    <3>1. PacketOK(new)
      BY <1>0, <2>2, CopiedOK DEF DecoderIInv
    <3> QED BY <1>0, <1>1, <1>6, <2>2, <3>1, NoShortfall
  <2>3. \/ latest_completed_seq' >= t
        \/ latest_seq' >= t + InFlightWindow
        \/ Conflict(st, d)
        \/ /\ Fits(d) /\ Copied(d) = new /\ AllReceived(Copied(d))
           /\ Copied(d).received_bytes # Copied(d).total_len
    BY <1>0, <1>3, <1>8, DecodeGone
  <2> QED BY <2>1, <2>2, <2>3
<1> QED BY <1>7, <1>8

\* Every step keeps the buffer's room, and gives up a packet only for a later one.
LEMMA RoomStep ==
  ASSUME PipelineInv, RoomInv, NumbersFresh, BufferFits, [PipelineNext]_pipelineVars
  PROVE  /\ RoomInv'
         /\ \A s \in DOMAIN in_flight \ DOMAIN in_flight' :
              latest_completed_seq' >= s \/ latest_seq' >= s + InFlightWindow
<1>1. CASE UNCHANGED <<in_flight, spare>>
  BY <1>1 DEF RoomInv, Exact, End, Offset
<1>2. CASE Receive
  <2>0. SenderInv /\ TaskInv /\ DecoderIInv /\ (NumbersFresh => ClientInv)
    BY DEF PipelineInv, SenderInv
  <2>1. PICK i \in DOMAIN wire : ReceiveDatagram(i)
    BY <1>2 DEF Receive
  <2>2. /\ \E d \in Datagram : \E p \in Packet : \E s \in Seqs : \E k \in Nat :
              FromFragment(d, p, s, k) /\ Decode(d) /\ d = Fragment(p, s, k)
        /\ spare' = Capacity
    BY <2>0, <2>1, ReadWhole DEF RoomInv
  <2>3. PICK d \in Datagram, p \in Packet, s \in Seqs, k \in Nat :
          FromFragment(d, p, s, k) /\ Decode(d) /\ d = Fragment(p, s, k)
    BY <2>2
  <2>4. /\ \A t \in DOMAIN in_flight' : Exact(in_flight'[t])
        /\ \A t \in DOMAIN in_flight \ DOMAIN in_flight' :
             latest_completed_seq' >= t \/ latest_seq' >= t + InFlightWindow
    BY <2>0, <2>3, DecodeWhole DEF ClientInv, RoomInv
  <2>5. (\A t \in DOMAIN in_flight : Exact(in_flight[t]))'
    BY <2>4 DEF Exact, End, Offset
  <2> QED BY <2>2, <2>4, <2>5 DEF RoomInv
<1> QED
  BY <1>1, <1>2 DEF PipelineNext, NetLose, NetDuplicate, ReceiveFails, ReaderCancelled,
     Present, pipelineVars, clientVars, decoderVars

\* Where datagrams are read whole, loss, duplication and reordering make the decoder
\* give up a packet only for a later one: honest fragments never disagree.
THEOREM FragmentsNotWasted ==
  ASSUME ~MaySendFail, BufferFits
  PROVE  PipelineSafetySpec /\ []NumbersFresh => OnlySuperseded
<1> DEFINE Superseded == \A s \in DOMAIN in_flight \ DOMAIN in_flight' :
                           \/ latest_completed_seq' >= s
                           \/ latest_seq' >= s + InFlightWindow
<1>1. PipelineInit => RoomInv
  <2> SUFFICES ASSUME PipelineInit PROVE RoomInv
    OBVIOUS
  <2>1. DOMAIN in_flight = {} /\ spare = Capacity
    BY DEF PipelineInit, DecoderInit
  <2> QED BY <2>1 DEF RoomInv
<1>2. PipelineInv /\ RoomInv /\ NumbersFresh /\ [PipelineNext]_pipelineVars
        => RoomInv' /\ [Superseded]_pipelineVars
  BY RoomStep
<1> QED BY <1>1, <1>2, PipelineInvariance, PTL DEF PipelineSafetySpec, OnlySuperseded
-----------------------------------------------------------------------------
(* Over a network that loses, repeats and reorders nothing.                *)

Lossless == ~NetLoses /\ ~NetDuplicates /\ ~NetReorders

\* The sequence numbers have not come so near their end that `seq + window` wraps.
NumbersSpare == Len(sent) + InFlightWindow < SeqModulus

\* The fragment at place i of the wire, as number and index; after the last one
\* the fragment the server sends next.
Position(i) ==
  IF i <= Len(wire) THEN <<wire[i].seq, wire[i].frag_index>> ELSE <<Len(sent), frag_index>>

\* The fragment that is sent after d.
After(d) ==
  IF d.frag_index + 1 = d.frag_count THEN <<d.seq + 1, 0>> ELSE <<d.seq, d.frag_index + 1>>

\* The datagrams are on the wire in the order they were sent.
Chain == \A i \in DOMAIN wire : Position(i + 1) = After(wire[i])

\* The decoder has completed the packets below s and has the fragments below j of s.
Awaits(s, j) ==
  /\ Len(completed) = s /\ s \in Nat /\ j \in Nat
  /\ latest_completed_seq = s - 1 /\ latest_seq <= s
  /\ DOMAIN in_flight = IF j = 0 THEN {} ELSE {s}
  /\ j > 0 => in_flight[s].frag_received = 0 .. j - 1

\* The decoder waits for the first fragment on the wire.
LosslessInv ==
  /\ Chain
  /\ \E s, j \in Nat : Position(1) = <<s, j>> /\ Awaits(s, j)

\* A fragment sent joins the end of the chain.
LEMMA ChainSend ==
  ASSUME TaskInv, wire \in Seq(Fragments), NumbersFresh, Chain, SendFragment
  PROVE  Chain' /\ Position(1)' = Position(1)
<1> DEFINE p == Head(packets)
<1>1. PICK d : d = Fragment(p, sequence_number, frag_index)
  OBVIOUS
<1>2. /\ p \in Packet /\ p.len > 0 /\ FragCount(p.len) \in Nat
      /\ frag_index \in 0 .. FragCount(p.len) - 1
      /\ Len(sent) \in Nat
      /\ wire' = Append(wire, d)
      /\ IF frag_index + 1 = FragCount(p.len)
         THEN sent' = Append(sent, p) /\ frag_index' = 0
         ELSE frag_index' = frag_index + 1 /\ UNCHANGED sent
  BY <1>1, SendFragmentEffect
<1>3. sequence_number = Len(sent)
  <2>1. Len(sent) \in 0 .. SeqModulus - 1
    BY <1>2, SequenceAssumption DEF NumbersFresh
  <2> QED BY <2>1, SmallRemainder DEF TaskInv, Numbering
<1>4. d.seq = Len(sent) /\ d.frag_index = frag_index /\ d.frag_count = FragCount(p.len)
  <2>1. frag_index \in Nat /\ frag_index < FragCount(p.len)
    BY <1>2
  <2> HIDE DEF p
  <2> QED BY <1>1, <1>2, <1>3, <2>1, FragmentFields
<1>5. PICK n \in Nat : n = Len(wire)
  BY LenProperties
<1>6. /\ Len(wire') = n + 1 /\ DOMAIN wire = 1 .. n /\ DOMAIN wire' = 1 .. n + 1
      /\ \A i \in 1 .. n : wire'[i] = wire[i]
      /\ wire'[n + 1] = d
  <2>1. d \in Fragments
    BY <1>1, NewFragment
  <2> QED BY <1>2, <1>5, <2>1, AppendProperties, LenProperties
<1>7. ASSUME NEW i \in 1 .. n + 1 PROVE Position(i)' = Position(i)
  <2>1. CASE i <= n
    <3>1. i \in 1 .. n /\ i <= n + 1
      BY <2>1
    <3> QED BY <1>5, <1>6, <2>1, <3>1 DEF Position
  <2>2. CASE i = n + 1
    <3>1. ~(i <= n) /\ i <= n + 1
      BY <2>2
    <3> QED BY <1>4, <1>5, <1>6, <2>2, <3>1 DEF Position
  <2> QED BY <2>1, <2>2
<1>8. Position(n + 2)' = After(d)
  <2>1. ~(n + 2 <= n + 1)
    OBVIOUS
  <2>2. Position(n + 2)' = <<Len(sent'), frag_index'>>
    BY <1>6, <2>1 DEF Position
  <2>3. CASE frag_index + 1 = FragCount(p.len)
    <3>1. Len(sent') = Len(sent) + 1 /\ frag_index' = 0
      <4>1. sent \in Seq(Packet) /\ sent' = Append(sent, p)
        BY <1>2, <2>3 DEF TaskInv, Numbering
      <4> QED BY <1>2, <2>3, <4>1, AppendProperties
    <3> QED BY <1>4, <2>2, <2>3, <3>1 DEF After
  <2>4. CASE frag_index + 1 # FragCount(p.len)
    BY <1>2, <1>4, <2>2, <2>4 DEF After
  <2> QED BY <2>3, <2>4
<1>9. ASSUME NEW i \in DOMAIN wire' PROVE Position(i + 1)' = After(wire'[i])
  <2>1. CASE i \in 1 .. n
    <3>1. i + 1 \in 1 .. n + 1
      BY <2>1
    <3> QED BY <1>6, <1>7, <2>1, <3>1 DEF Chain
  <2>2. CASE i = n + 1
    <3>1. i + 1 = n + 2
      BY <2>2
    <3> QED BY <1>6, <1>8, <2>2, <3>1
  <2> QED BY <1>6, <2>1, <2>2
<1>10. 1 \in 1 .. n + 1
  OBVIOUS
<1> QED BY <1>7, <1>9, <1>10 DEF Chain, After

\* The other steps of the stream task leave the chain alone.
LEMMA ChainWaits ==
  ASSUME TaskInv, StreamNext, ~SendFragment, ~MaySendFail, Chain
  PROVE  Chain' /\ Position(1)' = Position(1)
<1>1. UNCHANGED <<wire, sent, frag_index>>
  <2>1. CASE SkipPacket
    BY <2>1 DEF SkipPacket, NextPacket, TaskInv, Numbering
  <2>2. CASE SendFails
    BY <2>2 DEF SendFails, TaskInv, Numbering
  <2> QED BY <2>1, <2>2, SendSteps DEF sendVars, EncodeFrame
<1> QED BY <1>1 DEF Chain, Position, After

\* A read takes the first fragment off the chain.
LEMMA ChainRead ==
  ASSUME wire \in Seq(Fragments), 1 \in DOMAIN wire, wire' = RemoveAt(wire, 1), Chain,
         UNCHANGED <<sent, frag_index>>
  PROVE  Chain' /\ Position(1)' = After(wire[1])
<1>1. PICK w : w = RemoveAt(wire, 1)
  OBVIOUS
<1>2. PICK n \in Nat \ {0} : n = Len(wire)
  BY LenProperties
<1>3. w \in Seq(Fragments) /\ Len(w) = n - 1
  BY <1>1, <1>2, Removal
<1>4. \A j \in 1 .. n - 1 : w[j] = wire[j + 1]
  <2>1. \A j \in 1 .. Len(wire) - 1 : w[j] = IF j < 1 THEN wire[j] ELSE wire[j + 1]
    BY <1>1, Removal
  <2> QED BY <1>2, <2>1
<1>5. ASSUME NEW i \in 1 .. n PROVE Position(i)' = Position(i + 1)
  <2>1. CASE i <= n - 1
    <3>1. i \in 1 .. n - 1 /\ i + 1 <= n
      BY <2>1
    <3> QED BY <1>1, <1>2, <1>3, <1>4, <2>1, <3>1 DEF Position
  <2>2. CASE i = n
    <3>1. ~(i <= n - 1) /\ ~(i + 1 <= n)
      BY <2>2
    <3> QED BY <1>1, <1>2, <1>3, <2>2, <3>1 DEF Position
  <2> QED BY <2>1, <2>2
<1>6. ASSUME NEW i \in DOMAIN wire' PROVE Position(i + 1)' = After(wire'[i])
  <2>1. i \in 1 .. n - 1 /\ i + 1 \in 1 .. n /\ i + 1 \in DOMAIN wire
    <3>1. DOMAIN w = 1 .. n - 1 /\ DOMAIN wire = 1 .. n
      BY <1>2, <1>3, LenProperties
    <3> QED BY <1>1, <3>1
  <2>2. Position(i + 1)' = Position((i + 1) + 1)
    BY <1>5, <2>1
  <2>3. Position((i + 1) + 1) = After(wire[i + 1])
    BY <2>1 DEF Chain
  <2> QED BY <1>1, <1>4, <2>1, <2>2, <2>3
<1>7. Position(1)' = Position(1 + 1) /\ Position(1 + 1) = After(wire[1])
  BY <1>5 DEF Chain
<1> QED BY <1>6, <1>7 DEF Chain, After
\* The decoder takes the fragment it awaits and then awaits the one after.
LEMMA AwaitedRead ==
  ASSUME SenderInv, DecoderIInv, ClientInv, RoomInv, NumbersFresh, NumbersSpare,
         BufferFits, NEW s, NEW j, Awaits(s, j),
         1 \in DOMAIN wire, Position(1) = <<s, j>>, ReceiveDatagram(1)
  PROVE  \E t, m \in Nat : After(wire[1]) = <<t, m>> /\ Awaits(t, m)'
<1>0. /\ TaskInv /\ wire \in Seq(Fragments) /\ \A t \in DOMAIN in_flight : EntryHonest(t)
      /\ \A t \in DOMAIN in_flight : Exact(in_flight[t])
  BY DEF SenderInv, ClientInv, RoomInv
<1>1. \E d \in Datagram : \E p \in Packet : \E n \in Seqs : \E k \in Nat :
        FromFragment(d, p, n, k) /\ Decode(d) /\ d = wire[1] /\ d = Fragment(p, n, k)
  BY ReadWhole DEF RoomInv
<1>2. PICK d \in Datagram, p \in Packet, n \in Seqs, k \in Nat :
        FromFragment(d, p, n, k) /\ Decode(d) /\ d = wire[1] /\ d = Fragment(p, n, k)
  BY <1>1
<1>3. p.len > 0 /\ p.len \in Nat /\ FragCount(p.len) \in Nat /\ k < FragCount(p.len)
  <2>1. p.len > 0 /\ p.len \in Nat /\ FragCount(p.len) \in Nat
    BY <1>2, StreamAssumption, FragCountBounds DEF FromFragment, Out, Packet
  <2> QED BY <1>2, <2>1 DEF FromFragment, Out
<1>4. /\ d.kind = "fragment" /\ d.seq = n /\ d.frag_index = k
      /\ d.frag_count = FragCount(p.len) /\ d.bytes # <<>>
  <2>1. Len(d.bytes) \in Nat \ {0}
    BY <1>2, <1>3, FragmentFields
  <2>2. d.bytes # <<>>
    BY <2>1, EmptySeq
  <2> QED BY <1>2, <1>3, <2>2, FragmentFields
<1>5. n = s /\ k = j /\ s \in Nat /\ j \in Nat
  <2>1. 1 <= Len(wire)
    BY <1>0, LenProperties
  <2> QED BY <1>2, <1>4, <2>1 DEF Position, Awaits
<1>6. /\ Len(completed) = s /\ latest_completed_seq = s - 1 /\ latest_seq <= s
      /\ DOMAIN in_flight = IF j = 0 THEN {} ELSE {s}
      /\ j > 0 => in_flight[s].frag_received = 0 .. j - 1
  BY DEF Awaits
<1>7. PICK st, new : st = Holder(d) /\ new = CopyFragment(st, d)
  OBVIOUS
<1>8. PacketOK(st) /\ Assembled(st, p, s) /\ Exact(st)
  BY <1>0, <1>2, <1>4, <1>5, <1>7, HolderAssembled, HolderExact
<1>9. st.frag_received = 0 .. j - 1
  <2>1. CASE j > 0
    BY <1>4, <1>5, <1>6, <1>7, <2>1 DEF Holder
  <2>2. CASE j = 0
    <3>1. st = NewPacketState(d)
      BY <1>6, <1>7, <2>2 DEF Holder
    <3> QED BY <2>2, <3>1 DEF NewPacketState
  <2> QED BY <1>5, <2>1, <2>2
<1>10. ~Conflict(st, d) /\ ~Duplicate(st, d)
  <2>1. ~Conflict(st, d)
    BY <1>2, <1>3, <1>5, <1>8, NoConflict
  <2>2. ~Duplicate(st, d)
    BY <1>4, <1>5, <1>9 DEF Duplicate
  <2> QED BY <2>1, <2>2
<1>11. /\ PacketOK(new) /\ Exact(new)
       /\ new.total_len = p.len /\ new.frag_count = FragCount(p.len)
       /\ new.frag_received = 0 .. j
  <2>1. PacketOK(new)
    <3>1. ~OutOfBounds(st, d) /\ ~Overlaps(st, d)
      BY <1>10 DEF Conflict
    <3> QED BY <1>7, <1>8, <3>1, CopyKeepsAccount
  <2>2. st.total_len = p.len /\ st.frag_count = FragCount(p.len)
    BY <1>8 DEF Assembled
  <2>3. Exact(new)
    BY <1>2, <1>3, <1>7, <1>8, <2>2, CopyExact
  <2>4. /\ new.total_len = st.total_len /\ new.frag_count = st.frag_count
        /\ new.frag_received = st.frag_received \cup {j}
    BY <1>4, <1>5, <1>7, <1>8, CopyFields
  <2> QED BY <1>5, <1>9, <2>1, <2>2, <2>3, <2>4
<1>12. AllReceived(new) => new.received_bytes = new.total_len
  BY <1>2, <1>3, <1>11, NoShortfall
<1>13. s + InFlightWindow < SeqModulus /\ InFlightWindow \in Nat
  <2>1. s \in Nat /\ (s + 1 \in DOMAIN sent \/ s = Len(sent))
    BY <1>0, <1>2, <1>5, NumberNames DEF FromFragment
  <2>2. PICK l \in Nat : l = Len(sent) /\ DOMAIN sent = 1 .. l
    BY <1>0, LenProperties DEF TaskInv, Numbering
  <2>3. s <= l
    BY <2>1, <2>2
  <2>4. l + InFlightWindow < SeqModulus
    BY <2>2 DEF NumbersSpare
  <2>5. InFlightWindow \in Nat /\ SeqModulus \in Nat
    BY DecoderAssumption, SequenceAssumption
  <2> HIDE <1>6
  <2> QED BY <2>1, <2>3, <2>4, <2>5
<1>14. /\ latest_seq' = s
       /\ AllReceived(new) =>
            /\ decoded'.tag = "item" /\ latest_completed_seq' = s
            /\ DOMAIN in_flight' = {}
       /\ ~AllReceived(new) =>
            /\ decoded'.tag = "none" /\ UNCHANGED latest_completed_seq
            /\ DOMAIN in_flight' = {s} /\ in_flight'[s] = new
  <2>1. latest_completed_seq < d.seq /\ latest_seq <= d.seq
    BY <1>4, <1>5, <1>6
  <2>2. d.seq + InFlightWindow < SeqModulus /\ DOMAIN in_flight \subseteq {d.seq}
    BY <1>4, <1>5, <1>6, <1>13
  <2>3. d.frag_index < d.frag_count
    BY <1>3, <1>4
  <2> HIDE <1>6
  <2>4. /\ latest_seq' = d.seq
        /\ AllReceived(new) =>
             /\ decoded'.tag = "item" /\ latest_completed_seq' = d.seq
             /\ DOMAIN in_flight' = {}
        /\ ~AllReceived(new) =>
             /\ decoded'.tag = "none" /\ UNCHANGED latest_completed_seq
             /\ DOMAIN in_flight' = {d.seq} /\ in_flight'[d.seq] = new
    BY <1>2, <1>4, <1>7, <1>10, <1>12, <2>1, <2>2, <2>3, DecodeOnlyPacket
  <2> QED BY <1>4, <1>5, <2>4
<1>15. AllReceived(new) <=> j + 1 = FragCount(p.len)
  BY <1>3, <1>5, <1>11 DEF AllReceived
<1>16. CASE j + 1 = FragCount(p.len)
  <2>1. After(wire[1]) = <<s + 1, 0>>
    BY <1>2, <1>4, <1>5, <1>16 DEF After
  <2>2. Len(completed') = s + 1
    <3>1. completed' = Append(completed, decoded'.data) /\ completed \in Seq(Data)
      BY <1>14, <1>15, <1>16 DEF ReceiveDatagram, ClientInv, InOrder
    <3> QED BY <1>6, <3>1
  <2>3. Awaits(s + 1, 0)'
    BY <1>5, <1>14, <1>15, <1>16, <2>2 DEF Awaits
  <2> QED BY <1>5, <2>1, <2>3
<1>17. CASE j + 1 # FragCount(p.len)
  <2>1. After(wire[1]) = <<s, j + 1>>
    BY <1>2, <1>4, <1>5, <1>17 DEF After
  <2>2. UNCHANGED completed
    BY <1>14, <1>15, <1>17 DEF ReceiveDatagram
  <2>3. Awaits(s, j + 1)'
    <3>1. 0 .. j = 0 .. (j + 1) - 1 /\ j + 1 # 0 /\ j + 1 \in Nat
      BY <1>5
    <3> QED BY <1>5, <1>6, <1>11, <1>14, <1>15, <1>17, <2>2, <3>1 DEF Awaits
  <2> QED BY <1>5, <2>1, <2>3
<1> QED BY <1>16, <1>17
\* Every step keeps the decoder waiting for the first fragment on the wire.
LEMMA LosslessStep ==
  ASSUME PipelineInv, RoomInv, LosslessInv, NumbersFresh, NumbersSpare,
         ~MaySendFail, BufferFits, Lossless, [PipelineNext]_pipelineVars
  PROVE  LosslessInv'
<1>0. /\ SenderInv /\ TaskInv /\ wire \in Seq(Fragments) /\ DecoderIInv /\ ClientInv
      /\ Chain
  BY DEF PipelineInv, SenderInv, LosslessInv
<1>1. PICK s \in Nat, j \in Nat : Position(1) = <<s, j>> /\ Awaits(s, j)
  BY DEF LosslessInv
<1>2. ASSUME UNCHANGED <<decoderVars, completed>> PROVE Awaits(s, j)'
  BY <1>1, <1>2 DEF Awaits, decoderVars
<1>3. CASE StreamNext /\ UNCHANGED clientVars
  <2>1. Chain' /\ Position(1)' = Position(1)
    BY <1>0, <1>3, ChainSend, ChainWaits
  <2>2. Awaits(s, j)'
    BY <1>2, <1>3 DEF clientVars
  <2> QED BY <1>1, <2>1, <2>2 DEF LosslessInv
<1>4. CASE Receive
  <2>1. ReceiveDatagram(1) /\ 1 \in DOMAIN wire
    BY <1>4 DEF Receive, Lossless
  <2>2. Chain' /\ Position(1)' = After(wire[1])
    BY <1>0, <2>1, ChainRead DEF ReceiveDatagram
  <2>3. PICK t \in Nat, m \in Nat : After(wire[1]) = <<t, m>> /\ Awaits(t, m)'
    BY <1>0, <1>1, <2>1, AwaitedRead
  <2> QED BY <2>2, <2>3 DEF LosslessInv
<1>5. CASE UNCHANGED <<wire, sent, frag_index, decoderVars, completed>>
  <2>1. Chain' /\ Position(1)' = Position(1)
    BY <1>0, <1>5 DEF Chain, Position, After
  <2>2. Awaits(s, j)'
    BY <1>2, <1>5
  <2> QED BY <1>1, <2>1, <2>2 DEF LosslessInv
<1> QED
  BY <1>3, <1>4, <1>5
  DEF PipelineNext, NetLose, NetDuplicate, Lossless, ReceiveFails, ReaderCancelled, Present,
      pipelineVars, clientVars, streamVars, sendVars

\* Over a network that loses nothing and keeps the order, the decoder has returned
\* every packet once everything sent has arrived.
THEOREM EverythingDelivered ==
  ASSUME ~MaySendFail, BufferFits, Lossless
  PROVE  PipelineSafetySpec /\ []NumbersSpare => []LosslessDelivery
<1>1. PipelineInit => RoomInv /\ LosslessInv
  <2> SUFFICES ASSUME PipelineInit PROVE RoomInv /\ LosslessInv
    OBVIOUS
  <2>1. /\ DOMAIN in_flight = {} /\ spare = Capacity /\ latest_completed_seq = 0 - 1
        /\ latest_seq = 0 /\ completed = <<>> /\ wire = <<>> /\ sent = <<>> /\ frag_index = 0
    BY DEF PipelineInit, StreamInit, DecoderInit, NoSeq
  <2>2. DOMAIN wire = {} /\ ~(1 <= Len(wire)) /\ Len(sent) = 0 /\ Len(completed) = 0
    BY <2>1, EmptySeq
  <2>3. Position(1) = <<0, 0>> /\ Awaits(0, 0) /\ Chain
    BY <2>1, <2>2 DEF Position, Awaits, Chain
  <2> QED BY <2>1, <2>3 DEF RoomInv, LosslessInv
<1>2. PipelineInv /\ NumbersSpare => NumbersFresh
  <2> SUFFICES ASSUME PipelineInv, NumbersSpare PROVE NumbersFresh
    OBVIOUS
  <2>1. PICK n \in Nat : n = Len(sent)
    BY LenProperties DEF PipelineInv, SenderInv, TaskInv, Numbering
  <2> QED BY <2>1, DecoderAssumption, SequenceAssumption DEF NumbersSpare, NumbersFresh
<1>3. PipelineInv /\ RoomInv /\ LosslessInv /\ NumbersSpare /\ [PipelineNext]_pipelineVars
        => RoomInv' /\ LosslessInv'
  BY <1>2, RoomStep, LosslessStep
<1>4. LosslessInv => LosslessDelivery
  <2> SUFFICES ASSUME LosslessInv, wire = <<>> PROVE Len(completed) = Len(sent)
    BY DEF LosslessDelivery
  <2>1. ~(1 <= Len(wire))
    BY EmptySeq
  <2>2. Position(1) = <<Len(sent), frag_index>>
    BY <2>1 DEF Position
  <2> QED BY <2>2 DEF LosslessInv, Awaits
<1> QED BY <1>1, <1>3, <1>4, PipelineInvariance, PTL DEF PipelineSafetySpec
=============================================================================
