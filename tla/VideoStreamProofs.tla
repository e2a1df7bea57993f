--------------------------- MODULE VideoStreamProofs ---------------------------
(***************************************************************************)
(* The stream task never encodes the empty frame nor one it has encoded,   *)
(* its numbers identify packets until they wrap, and its fragments tile    *)
(* every packet it sends whole: for every payload size, length and number  *)
(* of packets and frames, and with sends that fail.                        *)
(*                                                                         *)
(* The argument: packets are numbered on from the packets before, so the   *)
(* one under way has an identity no datagram had before its first fragment *)
(* (Numbering), and every datagram is a fragment of a packet sent whole,   *)
(* of the one under way or of one given up (Labelled).                     *)
(***************************************************************************)
EXTENDS VideoStream, SequenceTheorems, TLAPS

Packet == [id : Nat \ {0}, len : PacketLengths]

\* A frame that counts as new is a captured one that has not been encoded.
FrameFresh == capture_open /\ unseen => 0 < frame /\ encoded_frame < frame

\* The packets are numbered in the order of the encoder; those still to be sent
\* are the last ones.  A packet of which fragments are out is the head, and fits.
Numbering ==
  /\ packets \in Seq(Packet) /\ sent \in Seq(Packet)
  /\ produced \in Nat /\ frag_index \in Nat
  /\ Len(sent) + Len(packets) <= produced
  /\ \A k \in DOMAIN packets : packets[k].id = produced - Len(packets) + k
  /\ \A n \in DOMAIN sent : sent[n].id <= produced - Len(packets) /\ sent[n].len > 0
  /\ \A m, n \in DOMAIN sent : m < n => sent[m].id < sent[n].id
  /\ sequence_number = Len(sent) % SeqModulus
  /\ frag_index > 0 =>
       /\ packets # <<>>
       /\ frag_index < FragCount(Head(packets).len)
       /\ Head(packets).len > 0 /\ ~TooLarge(Head(packets))

\* The task's own part of the invariant, which the network does not touch.
TaskInv ==
  /\ StreamTypeOK
  /\ FrameFresh
  /\ EmptyFrameNeverEncoded
  /\ Numbering

FragmentOf(d, p, s) ==
  \E k \in 0 .. FragCount(p.len) - 1 : d = Fragment(p, s, k)

\* d is a fragment of a packet sent whole, under that packet's number.
OfSent(d) ==
  \E n \in DOMAIN sent : FragmentOf(d, sent[n], (n - 1) % SeqModulus)

\* d is one of the fragments of the head that are out already.
OfHead(d) ==
  \E k \in 0 .. frag_index - 1 : d = Fragment(Head(packets), sequence_number, k)

\* d is a fragment of a packet the task gave up.
OfGivenUp(d) ==
  \E p \in Packet, s \in 0 .. SeqModulus - 1 :
    /\ p.len > 0
    /\ p.id <= produced - Len(packets)
    /\ GivenUp(p.id)
    /\ FragmentOf(d, p, s)

Labelled(d) == OfSent(d) \/ OfHead(d) \/ OfGivenUp(d)

\* The fragments there can be.
Fragments ==
  {Fragment(p, s, k) : p \in Packet, s \in 0 .. SeqModulus - 1, k \in Nat}

WireLabelled ==
  /\ wire \in Seq(Fragments)
  /\ \A i \in DOMAIN wire : Labelled(wire[i])

\* Every fragment of a packet sent whole is on the wire, and so are those of the
\* head that come before frag_index; no fragment of a packet is there twice.
Tiled ==
  /\ \A n \in DOMAIN sent : \A k \in 0 .. FragCount(sent[n].len) - 1 :
       \E i \in DOMAIN wire : wire[i] = Fragment(sent[n], (n - 1) % SeqModulus, k)
  /\ \A k \in 0 .. frag_index - 1 :
       \E i \in DOMAIN wire : wire[i] = Fragment(Head(packets), sequence_number, k)
  /\ \A i, j \in DOMAIN wire :
       i # j /\ wire[i].bytes[1][1] = wire[j].bytes[1][1] =>
         wire[i].frag_index # wire[j].frag_index

StreamInv == TaskInv /\ WireLabelled /\ Tiled

-----------------------------------------------------------------------------
(* Arithmetic of the fragments.                                            *)

\* Where fragment i begins.
Offset(i) == i * MaxPayload

\* Offsets grow by a payload from fragment to fragment.
LEMMA Offsets ==
  ASSUME NEW i \in Nat
  PROVE  /\ Offset(i) \in Nat
         /\ Offset(i + 1) = Offset(i) + MaxPayload
         /\ \A j \in Nat : i <= j => Offset(i) <= Offset(j)
<1>0. MaxPayload \in Nat \ {0}
  BY StreamAssumption
<1>1. Offset(i) \in Nat /\ Offset(i + 1) = Offset(i) + MaxPayload
  BY <1>0 DEF Offset
<1>2. ASSUME NEW j \in Nat, i <= j PROVE Offset(i) <= Offset(j)
  <2>1. (j - i) * MaxPayload >= 0
    BY <1>0, <1>2
  <2> QED BY <1>0, <2>1 DEF Offset
<1> QED BY <1>1, <1>2

\* What a quotient is, without the quotient.
LEMMA DivBounds ==
  ASSUME NEW n \in Nat, NEW m \in Nat \ {0}
  PROVE  /\ n \div m \in Nat
         /\ (n \div m) * m <= n
         /\ n < (n \div m) * m + m
  OBVIOUS

\* div_ceil (video_stream.rs) counts exactly the fragments that begin within the
\* packet.
LEMMA FragCountBounds ==
  ASSUME NEW len \in Nat
  PROVE  /\ FragCount(len) \in Nat
         /\ \A i \in Nat : i < FragCount(len) <=> Offset(i) < len
         /\ len > 0 => 0 < FragCount(len)
<1> DEFINE q == FragCount(len)
<1>0. MaxPayload \in Nat \ {0}
  BY StreamAssumption
<1>1. /\ q \in Nat
      /\ Offset(q) <= len + MaxPayload - 1
      /\ len + MaxPayload - 1 < Offset(q) + MaxPayload
  BY <1>0, DivBounds DEF FragCount, Offset
<1>2. Offset(0) = 0
  BY <1>0 DEF Offset
<1> SUFFICES ASSUME NEW i \in Nat PROVE i < q <=> Offset(i) < len
  BY <1>1, <1>2
<1> HIDE DEF q
<1>3. Offset(i) \in Nat /\ Offset(q) \in Nat
  BY <1>1, Offsets
<1>4. CASE i < q
  <2>1. i + 1 \in Nat /\ i + 1 <= q
    BY <1>1, <1>4
  <2>2. Offset(i + 1) <= Offset(q) /\ Offset(i + 1) = Offset(i) + MaxPayload
    BY <1>1, <2>1, Offsets
  <2> QED BY <1>0, <1>1, <1>3, <1>4, <2>2
<1>5. CASE q <= i
  <2>1. Offset(q) <= Offset(i)
    BY <1>1, <1>5, Offsets
  <2> QED BY <1>0, <1>1, <1>3, <1>5, <2>1
<1> QED BY <1>1, <1>4, <1>5

\* A byte at offset o lies in fragment o \div MaxPayload.
LEMMA FragmentHolding ==
  ASSUME NEW len \in Nat, NEW o \in 0 .. len - 1
  PROVE  \E k \in Nat :
           k < FragCount(len) /\ Offset(k) <= o /\ o < Offset(k) + MaxPayload
<1> DEFINE k == o \div MaxPayload
<1>0. MaxPayload \in Nat \ {0}
  BY StreamAssumption
<1>1. k \in Nat /\ Offset(k) <= o /\ o < Offset(k) + MaxPayload
  BY <1>0, DivBounds DEF Offset
<1> HIDE DEF k
<1>2. Offset(k) < len /\ Offset(k) \in Nat
  BY <1>1, Offsets
<1>3. k < FragCount(len)
  BY <1>1, <1>2, FragCountBounds
<1> QED BY <1>1, <1>3

\* The fields of a fragment: its bytes are those of the packet from the offset on,
\* up to the next fragment or the end of the packet.
LEMMA FragmentFields ==
  ASSUME NEW p \in Packet, p.len > 0, NEW s, NEW i \in Nat, i < FragCount(p.len),
         NEW d, d = Fragment(p, s, i)
  PROVE  /\ d.kind = "fragment" /\ d.seq = s
         /\ d.total_len = p.len /\ d.frag_count = FragCount(p.len)
         /\ d.frag_index = i /\ d.frag_offset = Offset(i)
         /\ d.bytes \in Seq(Nat \X Nat)
         /\ Len(d.bytes) \in Nat \ {0}
         /\ Offset(i) + Len(d.bytes) =
              IF Offset(i) + MaxPayload < p.len THEN Offset(i) + MaxPayload ELSE p.len
         /\ \A k \in 1 .. Len(d.bytes) : d.bytes[k] = <<p.id, Offset(i) + k - 1>>
         /\ d.bytes[1][1] = p.id
<1> DEFINE start == Offset(i)
           end == IF start + MaxPayload < p.len THEN start + MaxPayload ELSE p.len
           b == [k \in 1 .. end - start |-> <<p.id, start + k - 1>>]
<1>0. MaxPayload \in Nat \ {0} /\ p.len \in Nat /\ p.id \in Nat
  BY StreamAssumption DEF Packet
<1>1. start \in Nat /\ start < p.len
  BY <1>0, FragCountBounds, Offsets
<1>2. d = [kind |-> "fragment", seq |-> s, total_len |-> p.len, frag_index |-> i,
           frag_count |-> FragCount(p.len), frag_offset |-> start, bytes |-> b]
  BY DEF Fragment, Offset
<1> HIDE DEF start, end
<1>3. end \in Nat /\ end - start \in Nat \ {0}
  BY <1>0, <1>1 DEF end
<1>4. b \in Seq(Nat \X Nat) /\ Len(b) = end - start
  BY <1>0, <1>1, <1>3
<1>5. /\ \A k \in 1 .. Len(b) : b[k] = <<p.id, start + k - 1>>
      /\ b[1][1] = p.id
  BY <1>3, <1>4
<1> HIDE DEF b
<1>6. start + Len(b) = end
  BY <1>1, <1>3, <1>4
<1>7. /\ d.kind = "fragment" /\ d.seq = s
      /\ d.total_len = p.len /\ d.frag_count = FragCount(p.len)
      /\ d.frag_index = i /\ d.frag_offset = start /\ d.bytes = b
  BY <1>2
<1> QED BY <1>3, <1>4, <1>5, <1>6, <1>7 DEF start, end

\* A byte of the packet is in the fragment that holds its offset.
LEMMA ByteInFragment ==
  ASSUME NEW p \in Packet, p.len > 0, NEW s, NEW i \in Nat, i < FragCount(p.len),
         NEW o \in Nat, Offset(i) <= o, o < Offset(i) + MaxPayload, o < p.len,
         NEW d, d = Fragment(p, s, i), NEW k \in Int, k = o - Offset(i) + 1
  PROVE  k \in DOMAIN d.bytes /\ d.frag_offset + k - 1 = o /\ d.bytes[k] = <<p.id, o>>
<1>1. /\ d.frag_offset = Offset(i)
      /\ d.bytes \in Seq(Nat \X Nat) /\ Len(d.bytes) \in Nat
      /\ Offset(i) + Len(d.bytes) =
           IF Offset(i) + MaxPayload < p.len THEN Offset(i) + MaxPayload ELSE p.len
      /\ \A j \in 1 .. Len(d.bytes) : d.bytes[j] = <<p.id, Offset(i) + j - 1>>
  BY FragmentFields, SMTT(30)
<1>2. PICK a, n, m, l \in Nat :
        a = Offset(i) /\ n = Len(d.bytes) /\ m = MaxPayload /\ l = p.len
  BY <1>1, StreamAssumption, Offsets DEF Packet
<1>3. k \in 1 .. n /\ a + k - 1 = o
  <2>1. a + n = IF a + m < l THEN a + m ELSE l
    BY <1>1, <1>2
  <2>2. a <= o /\ o < a + m /\ o < l /\ k = o - a + 1
    BY <1>2
  <2>3. CASE a + m < l
    BY <2>1, <2>2, <2>3
  <2>4. CASE ~(a + m < l)
    BY <2>1, <2>2, <2>4
  <2> QED BY <2>3, <2>4
<1>4. DOMAIN d.bytes = 1 .. Len(d.bytes)
  BY <1>1, LenProperties
<1> QED BY <1>1, <1>2, <1>3, <1>4

\* Two fragments of a packet cover different bytes.
LEMMA FragmentsApart ==
  ASSUME NEW p \in Packet, p.len > 0, NEW i \in Nat, NEW j \in Nat, i < j,
         j < FragCount(p.len), NEW s, NEW t, NEW d, NEW e,
         d = Fragment(p, s, i), e = Fragment(p, t, j)
  PROVE  d.frag_offset + Len(d.bytes) <= e.frag_offset
<1>0. p.len \in Nat /\ MaxPayload \in Nat /\ FragCount(p.len) \in Nat
  BY StreamAssumption, FragCountBounds DEF Packet
<1>1. i < FragCount(p.len)
  BY <1>0
<1>2. /\ d.frag_offset = Offset(i) /\ Len(d.bytes) \in Nat
      /\ Offset(i) + Len(d.bytes) =
           IF Offset(i) + MaxPayload < p.len THEN Offset(i) + MaxPayload ELSE p.len
  BY <1>1, FragmentFields
<1>3. e.frag_offset = Offset(j)
  BY FragmentFields
<1>4. i + 1 \in Nat /\ i + 1 <= j
  OBVIOUS
<1>5. /\ Offset(i + 1) <= Offset(j) /\ Offset(i + 1) = Offset(i) + MaxPayload
      /\ Offset(i) \in Nat /\ Offset(j) \in Nat
  BY <1>4, Offsets
<1> QED BY <1>0, <1>2, <1>3, <1>5

-----------------------------------------------------------------------------
(* The task's invariant.                                                   *)

\* It holds when the stream task is spawned.
LEMMA TaskInitially == StreamInit => TaskInv
<1> SUFFICES ASSUME StreamInit PROVE TaskInv
  OBVIOUS
<1>1. packets = <<>> /\ sent = <<>> /\ wire = <<>>
  BY DEF StreamInit
<1>2. StreamTypeOK
  <2>1. Len(sent) <= produced /\ Len(wire) <= MaxWire
    BY <1>1, StreamAssumption, EmptySeq DEF StreamInit
  <2>2. (pc = "sending") <=> (packets # <<>>)
    BY <1>1 DEF StreamInit
  <2>3. /\ capture_open \in BOOLEAN /\ unseen \in BOOLEAN /\ cancelled \in BOOLEAN
        /\ stopped_receiving_frames \in BOOLEAN
    BY DEF StreamInit
  <2>4. frame \in 0 .. MaxFrames /\ encoded_frame \in {NoFrame} \cup 0 .. frame
    BY StreamAssumption DEF StreamInit
  <2>5. frag_index \in Nat /\ sequence_number \in 0 .. SeqModulus - 1
    BY SequenceAssumption, StreamAssumption DEF StreamInit
  <2>6. pc \in {"starting", "select", "checking", "sending", "stopping", "stopped"}
    BY DEF StreamInit
  <2> QED BY <2>1, <2>2, <2>3, <2>4, <2>5, <2>6 DEF StreamTypeOK
<1>3. Numbering
  BY <1>1, SequenceAssumption, StreamAssumption, EmptySeq DEF StreamInit, Numbering
<1> QED
  BY <1>2, <1>3 DEF TaskInv, FrameFresh, EmptyFrameNeverEncoded, StreamInit, NoFrame

\* A number below SeqModulus is not reduced.
LEMMA SmallRemainder ==
  ASSUME NEW n \in 0 .. SeqModulus - 1
  PROVE  n % SeqModulus = n
  BY SequenceAssumption

\* The next number after number n is n + 1, reduced once more.
LEMMA NextNumber ==
  ASSUME NEW n \in Nat
  PROVE  ((n % SeqModulus) + 1) % SeqModulus = (n + 1) % SeqModulus
<1> DEFINE M == SeqModulus
           q == n \div M
           r == n % M
<1>0. M \in Nat \ {0}
  BY SequenceAssumption
<1> HIDE DEF M
<1>1. q \in Nat /\ r \in 0 .. M - 1 /\ n = q * M + r
  BY <1>0
<1> HIDE DEF q, r
<1>2. CASE r + 1 < M
  <2>1. n + 1 = q * M + (r + 1)
    BY <1>0, <1>1
  <2>2. (n + 1) % M = r + 1 /\ (r + 1) % M = r + 1
    BY <1>0, <1>1, <1>2, <2>1
  <2> QED BY <2>2 DEF r, M
<1>3. CASE r + 1 = M
  <2>1. n + 1 = (q + 1) * M
    BY <1>0, <1>1, <1>3
  <2>2. (n + 1) % M = 0 /\ (r + 1) % M = 0
    BY <1>0, <1>1, <1>3, <2>1
  <2> QED BY <2>2 DEF r, M
<1> QED BY <1>0, <1>1, <1>2, <1>3

\* What encode_frame returns are packets, numbered on.
LEMMA EncodedPackets ==
  ASSUME NEW ps \in Encodings, produced \in Nat
  PROVE  /\ ps \in Seq(Packet)
         /\ \A k \in DOMAIN ps : ps[k].id = produced + k
<1>0. PICK n \in 0 .. MaxPackets : \E lens \in [1 .. n -> PacketLengths] :
        ps = [k \in DOMAIN lens |-> [id |-> produced + k, len |-> lens[k]]]
  BY DEF Encodings
<1>1. PICK lens \in [1 .. n -> PacketLengths] :
        ps = [k \in DOMAIN lens |-> [id |-> produced + k, len |-> lens[k]]]
  BY <1>0
<1>2. n \in Nat /\ DOMAIN lens = 1 .. n
  BY StreamAssumption
<1>3. ps = [k \in 1 .. n |-> [id |-> produced + k, len |-> lens[k]]]
  BY <1>1, <1>2
<1>4. \A k \in 1 .. n : [id |-> produced + k, len |-> lens[k]] \in Packet
  BY <1>2 DEF Packet
<1> QED BY <1>2, <1>3, <1>4

\* Dropping the head of the packets to be sent keeps the others numbered.
LEMMA TailNumbered ==
  ASSUME NEW ps \in Seq(Packet), ps # <<>>, NEW n \in Nat,
         \A k \in DOMAIN ps : ps[k].id = n - Len(ps) + k
  PROVE  /\ Tail(ps) \in Seq(Packet)
         /\ Len(Tail(ps)) = Len(ps) - 1
         /\ \A k \in DOMAIN Tail(ps) : Tail(ps)[k].id = n - Len(Tail(ps)) + k
         /\ Head(ps) \in Packet /\ Head(ps).id = n - Len(ps) + 1
         /\ Len(ps) \in Nat \ {0}
         /\ Len(ps) = 1 <=> Tail(ps) = <<>>
<1>1. /\ Tail(ps) \in Seq(Packet) /\ Head(ps) \in Packet
      /\ Len(Tail(ps)) = Len(ps) - 1
      /\ \A i \in 1 .. Len(Tail(ps)) : Tail(ps)[i] = ps[i + 1]
  BY HeadTailProperties
<1>2. Len(ps) \in Nat \ {0} /\ DOMAIN ps = 1 .. Len(ps)
  BY EmptySeq, LenProperties
<1>3. Head(ps) = ps[1]
  OBVIOUS
<1>4. DOMAIN Tail(ps) = 1 .. Len(ps) - 1
  BY <1>1
<1>5. ASSUME NEW k \in 1 .. Len(ps) - 1
      PROVE  Tail(ps)[k].id = n - Len(Tail(ps)) + k
  <2>1. Tail(ps)[k] = ps[k + 1] /\ k + 1 \in DOMAIN ps
    BY <1>1, <1>2
  <2>2. ps[k + 1].id = n - Len(ps) + (k + 1)
    BY <2>1
  <2>3. PICK l \in Nat : l = Len(ps) /\ Len(Tail(ps)) = l - 1
    BY <1>1, <1>2
  <2>4. n - l + (k + 1) = n - (l - 1) + k
    BY <2>3
  <2>5. ps[k + 1].id = n - l + (k + 1)
    BY <2>2, <2>3
  <2> QED BY <2>1, <2>3, <2>4, <2>5
<1>6. Len(ps) = 1 <=> Tail(ps) = <<>>
  BY <1>1, <1>2
<1>7. \A k \in DOMAIN Tail(ps) : Tail(ps)[k].id = n - Len(Tail(ps)) + k
  BY <1>4, <1>5, Zenon
<1>8. Head(ps).id = n - Len(ps) + 1
  <2>1. 1 \in DOMAIN ps
    BY <1>2
  <2> QED BY <1>3, <2>1
<1> QED BY <1>1, <1>2, <1>6, <1>7, <1>8

\* Every step of the capture thread and of the task keeps the numbering.
LEMMA NumberingStep ==
  ASSUME TaskInv, StreamNext PROVE Numbering'
<1> USE DEF TaskInv
<1>0. Numbering /\ StreamTypeOK
  OBVIOUS
<1>1. CASE UNCHANGED sendVars
  BY <1>0, <1>1 DEF Numbering, sendVars, TooLarge, FragCount
<1>2. CASE EncodeFrame
  <2>1. packets = <<>> /\ frag_index = 0
    BY <1>0, <1>2 DEF EncodeFrame, TakeFrame, StreamTypeOK, Numbering
  <2>2. PICK ps \in Encodings :
          packets' = ps /\ produced' = produced + Len(ps)
    BY <1>2 DEF EncodeFrame
  <2>3. ps \in Seq(Packet) /\ Len(ps) \in Nat /\ \A k \in DOMAIN ps : ps[k].id = produced + k
    BY <1>0, EncodedPackets, LenProperties DEF Numbering
  <2>4. /\ frag_index' = 0 /\ sent' = sent /\ sequence_number' = sequence_number
        /\ produced' - Len(packets') = produced - Len(packets)
    BY <1>0, <1>2, <2>1, <2>2, <2>3 DEF EncodeFrame, Numbering
  <2>5. produced - Len(packets) = produced
    BY <1>0, <2>1 DEF Numbering
  <2> QED
    BY <1>0, <2>1, <2>2, <2>3, <2>4, <2>5 DEF Numbering
<1>3. CASE SkipPacket \/ SendFragment \/ SendFails
  <2>1. packets # <<>>
    BY <1>0, <1>3 DEF SkipPacket, SendFragment, SendFails, StreamTypeOK
  <2> DEFINE p == Head(packets)
  <2>2. /\ Tail(packets) \in Seq(Packet)
        /\ Len(Tail(packets)) = Len(packets) - 1
        /\ \A k \in DOMAIN Tail(packets) :
             Tail(packets)[k].id = produced - Len(Tail(packets)) + k
        /\ p \in Packet /\ p.id = produced - Len(packets) + 1
        /\ Len(packets) \in Nat \ {0}
    BY <1>0, <2>1, TailNumbered DEF Numbering
  <2>3. /\ Len(sent) \in Nat /\ DOMAIN sent = 1 .. Len(sent)
        /\ \A n \in DOMAIN sent : sent[n] \in Packet
    BY <1>0, LenProperties DEF Numbering
  <2> HIDE DEF p
  <2>4. CASE SkipPacket
    <3>1. packets' = Tail(packets) /\ frag_index' = 0
      BY <2>4 DEF SkipPacket, NextPacket
    <3>2. UNCHANGED <<sent, produced, sequence_number>>
      BY <2>4 DEF SkipPacket
    <3>3. \A n \in DOMAIN sent : sent[n].id <= produced' - Len(packets')
      BY <1>0, <2>2, <2>3, <3>1, <3>2 DEF Numbering, Packet
    <3> QED
      BY <1>0, <2>2, <2>3, <3>1, <3>2, <3>3 DEF Numbering
  <2>5. CASE SendFails
    <3>1. packets' = <<>> /\ frag_index' = 0
      BY <2>5 DEF SendFails
    <3>2. UNCHANGED <<sent, produced, sequence_number>>
      BY <2>5 DEF SendFails
    <3>3. \A n \in DOMAIN sent : sent[n] \in Packet
      BY <1>0, <2>3 DEF Numbering
    <3> QED
      BY <1>0, <2>2, <2>3, <3>1, <3>2, <3>3 DEF Numbering, Packet
  <2>6. CASE SendFragment
    <3>1. p.len > 0 /\ ~TooLarge(p) /\ p.len \in Nat /\ FragCount(p.len) \in Nat
      BY <2>2, <2>6, FragCountBounds, StreamAssumption DEF SendFragment, p, Packet
    <3>2. CASE frag_index + 1 = FragCount(p.len)
      <4>1. /\ packets' = Tail(packets) /\ frag_index' = 0 /\ produced' = produced
            /\ sent' = Append(sent, p)
            /\ sequence_number' = (sequence_number + 1) % SeqModulus
        BY <2>6, <3>2 DEF SendFragment, NextPacket, AdvanceSequence, p
      <4>2. /\ sent' \in Seq(Packet) /\ Len(sent') = Len(sent) + 1
            /\ \A i \in 1 .. Len(sent) : sent'[i] = sent[i]
            /\ sent'[Len(sent) + 1] = p
            /\ DOMAIN sent' = 1 .. Len(sent) + 1
        BY <1>0, <2>2, <4>1 DEF Numbering
      <4>3. sequence_number' = Len(sent') % SeqModulus
        BY <1>0, <2>3, <4>1, <4>2, NextNumber DEF Numbering
      <4>4. \A n \in DOMAIN sent' : sent'[n].id <= produced' - Len(packets') /\ sent'[n].len > 0
        <5> SUFFICES ASSUME NEW n \in DOMAIN sent'
                     PROVE  sent'[n].id <= produced' - Len(packets') /\ sent'[n].len > 0
          OBVIOUS
        <5>1. CASE n \in 1 .. Len(sent)
          <6>1. sent[n] \in Packet
            BY <1>0, <5>1 DEF Numbering
          <6>2. sent[n].id \in Nat /\ sent[n].id <= produced - Len(packets) /\ sent[n].len > 0
            BY <1>0, <2>3, <5>1, <6>1 DEF Numbering, Packet
          <6> QED BY <1>0, <2>2, <4>1, <4>2, <5>1, <6>2 DEF Numbering
        <5>2. CASE n = Len(sent) + 1
          BY <1>0, <2>2, <3>1, <4>1, <4>2, <5>2 DEF Numbering
        <5> QED BY <2>3, <4>2, <5>1, <5>2
      <4>5. \A m, n \in DOMAIN sent' : m < n => sent'[m].id < sent'[n].id
        <5> SUFFICES ASSUME NEW m \in 1 .. Len(sent) + 1, NEW n \in 1 .. Len(sent) + 1, m < n
                     PROVE  sent'[m].id < sent'[n].id
          BY <4>2
        <5>1. m \in 1 .. Len(sent) /\ sent'[m] = sent[m] /\ sent[m] \in Packet
          BY <1>0, <2>3, <4>2 DEF Numbering
        <5>2. sent[m].id \in Nat /\ sent[m].id <= produced - Len(packets)
          BY <1>0, <2>3, <5>1 DEF Numbering, Packet
        <5>3. CASE n \in 1 .. Len(sent)
          BY <1>0, <2>3, <4>2, <5>1, <5>3 DEF Numbering
        <5>4. CASE n = Len(sent) + 1
          BY <1>0, <2>2, <4>2, <5>1, <5>2, <5>4 DEF Numbering
        <5> QED BY <2>3, <5>3, <5>4
      <4> QED
        BY <1>0, <2>2, <2>3, <4>1, <4>2, <4>3, <4>4, <4>5 DEF Numbering
    <3>3. CASE frag_index + 1 # FragCount(p.len)
      <4>1. /\ frag_index' = frag_index + 1
            /\ UNCHANGED <<packets, sequence_number, sent, produced>>
        BY <2>6, <3>3 DEF SendFragment, p
      <4>2. frag_index < FragCount(p.len)
        <5>1. CASE frag_index > 0
          BY <1>0, <5>1 DEF Numbering, p
        <5>2. CASE frag_index = 0
          BY <3>1, <5>2, FragCountBounds, StreamAssumption
        <5> QED BY <1>0, <5>1, <5>2 DEF Numbering
      <4>3. frag_index + 1 < FragCount(p.len)
        BY <1>0, <3>1, <3>3, <4>2 DEF Numbering
      <4>4. Head(packets') = p /\ ~TooLarge(p)' /\ FragCount(p.len)' = FragCount(p.len)
        BY <3>1, <4>1 DEF p, TooLarge, FragCount
      <4> QED
        BY <1>0, <2>1, <3>1, <4>1, <4>3, <4>4 DEF Numbering, TooLarge, FragCount, p
    <3> QED BY <3>2, <3>3
  <2> QED BY <1>3, <2>4, <2>5, <2>6
<1> QED
  BY <1>1, <1>2, <1>3
    DEF StreamNext, StreamTask, CaptureFrame, CaptureEnds, Cancel, Start, SelectCancelled,
        SelectChanged, SelectTick, CheckNothingNew, CheckClosed, EncodeFails, Stop
\* A frame is new at most once: it is marked seen when it is encoded, and
\* mark_changed repeats a frame only once the channel is closed.
LEMMA FrameStep ==
  ASSUME TaskInv, StreamNext
  PROVE  /\ frame' \in 0 .. MaxFrames
         /\ encoded_frame' \in {NoFrame} \cup 0 .. frame'
         /\ FrameFresh'
         /\ EmptyFrameNeverEncoded'
         /\ encoded_frame' # encoded_frame \/ (packets = <<>> /\ packets' # <<>>)
              => encoded_frame < encoded_frame'
<1> USE DEF FrameFresh, EmptyFrameNeverEncoded, NoFrame
<1>0. /\ frame \in 0 .. MaxFrames /\ encoded_frame \in {NoFrame} \cup 0 .. frame
      /\ FrameFresh /\ EmptyFrameNeverEncoded
      /\ (pc = "sending") <=> (packets # <<>>)
      /\ MaxFrames \in Nat
  BY StreamAssumption DEF TaskInv, StreamTypeOK
<1>1. CASE CaptureFrame
  BY <1>0, <1>1 DEF CaptureFrame, sendVars
<1>2. CASE CaptureEnds
  BY <1>0, <1>2 DEF CaptureEnds, sendVars
<1>3. CASE SelectChanged
  BY <1>0, <1>3 DEF SelectChanged, ChangedReady, sendVars
<1>4. CASE TakeFrame
  <2>1. capture_open /\ unseen /\ unseen' = FALSE /\ encoded_frame' = frame /\ frame' = frame
    BY <1>4 DEF TakeFrame, HasChanged
  <2> QED BY <1>0, <2>1
<1>5. CASE UNCHANGED captureVars /\ encoded_frame' = encoded_frame /\ UNCHANGED sendVars
  BY <1>0, <1>5 DEF captureVars, sendVars
<1>6. CASE SkipPacket \/ SendFragment \/ SendFails
  <2>1. UNCHANGED captureVars /\ encoded_frame' = encoded_frame /\ packets # <<>>
    BY <1>0, <1>6 DEF SkipPacket, SendFragment, SendFails
  <2> QED BY <1>0, <2>1 DEF captureVars
<1> QED
  BY <1>1, <1>2, <1>3, <1>4, <1>5, <1>6
    DEF StreamNext, StreamTask, Cancel, Start, SelectCancelled, SelectTick,
        CheckNothingNew, CheckClosed, EncodeFrame, EncodeFails, Stop

\* The task sends exactly while it has packets.
LEMMA PcStep ==
  ASSUME TaskInv, StreamNext
  PROVE  /\ pc' \in {"starting", "select", "checking", "sending", "stopping", "stopped"}
         /\ (pc' = "sending") <=> (packets' # <<>>)
<1>0. /\ pc \in {"starting", "select", "checking", "sending", "stopping", "stopped"}
      /\ (pc = "sending") <=> (packets # <<>>)
  BY DEF TaskInv, StreamTypeOK
<1>1. CASE EncodeFrame
  BY <1>1 DEF EncodeFrame
<1>2. CASE NextPacket /\ pc = "sending"
  <2>1. /\ Len(packets) = 1 <=> Tail(packets) = <<>>
        /\ packets' = Tail(packets)
        /\ pc' = IF Len(packets) = 1 THEN "select" ELSE "sending"
    BY <1>0, <1>2, TailNumbered DEF NextPacket, TaskInv, Numbering
  <2> QED BY <2>1
<1>3. CASE pc' = pc /\ packets' = packets
  BY <1>0, <1>3
<1>4. CASE SendFails
  BY <1>4 DEF SendFails
<1>5. CASE /\ pc # "sending" /\ packets' = packets
           /\ pc' \in {"select", "checking", "stopping", "stopped"}
  BY <1>0, <1>5
<1>6. CASE SkipPacket \/ SendFragment
  <2>1. pc = "sending" /\ (NextPacket \/ (pc' = pc /\ packets' = packets))
    BY <1>6 DEF SkipPacket, SendFragment
  <2> QED BY <1>2, <1>3, <2>1
<1>7. CaptureFrame \/ CaptureEnds \/ Cancel => pc' = pc /\ packets' = packets
  BY DEF CaptureFrame, CaptureEnds, Cancel, sendVars
<1>8. \/ Start \/ SelectCancelled \/ SelectChanged \/ SelectTick
      \/ CheckNothingNew \/ CheckClosed \/ EncodeFails \/ Stop
      => /\ pc # "sending" /\ packets' = packets
         /\ pc' \in {"select", "checking", "stopping", "stopped"}
  BY DEF Start, SelectCancelled, SelectChanged, SelectTick, CheckNothingNew,
         CheckClosed, TakeFrame, EncodeFails, Stop, sendVars
<1> QED
  BY <1>1, <1>3, <1>4, <1>5, <1>6, <1>7, <1>8 DEF StreamNext, StreamTask

\* The task's invariant is inductive: each step of the stream keeps it.
LEMMA TaskStep ==
  ASSUME TaskInv, wire \in Seq(Fragments), StreamNext
  PROVE  TaskInv'
<1>1. Numbering'
  BY NumberingStep
<1>2. /\ frame' \in 0 .. MaxFrames /\ encoded_frame' \in {NoFrame} \cup 0 .. frame'
      /\ FrameFresh' /\ EmptyFrameNeverEncoded'
  BY FrameStep
<1>3. /\ pc' \in {"starting", "select", "checking", "sending", "stopping", "stopped"}
      /\ (pc' = "sending") <=> (packets' # <<>>)
  BY PcStep
<1>4. /\ frag_index' \in Nat /\ Len(sent') <= produced'
      /\ sequence_number' \in 0 .. SeqModulus - 1
  <2>1. /\ Len(packets') \in Nat /\ Len(sent') \in Nat /\ produced' \in Nat
        /\ Len(sent') + Len(packets') <= produced'
        /\ frag_index' \in Nat /\ sequence_number' = Len(sent') % SeqModulus
    BY <1>1, LenProperties DEF Numbering
  <2> QED BY <2>1, SequenceAssumption
<1>5. /\ capture_open' \in BOOLEAN /\ unseen' \in BOOLEAN /\ cancelled' \in BOOLEAN
      /\ stopped_receiving_frames' \in BOOLEAN
  <2>1. /\ capture_open \in BOOLEAN /\ unseen \in BOOLEAN /\ cancelled \in BOOLEAN
        /\ stopped_receiving_frames \in BOOLEAN
    BY DEF TaskInv, StreamTypeOK
  <2>2. /\ capture_open' \in {capture_open, FALSE}
        /\ unseen' \in {unseen, TRUE, FALSE}
        /\ cancelled' \in {cancelled, TRUE}
        /\ stopped_receiving_frames' \in {stopped_receiving_frames, TRUE, FALSE}
    BY DEF StreamNext, StreamTask, CaptureFrame, CaptureEnds, Cancel, Start,
           SelectCancelled, SelectChanged, SelectTick, CheckNothingNew, CheckClosed,
           TakeFrame, EncodeFrame, EncodeFails, SkipPacket, SendFragment, SendFails, Stop,
           captureVars
  <2> QED BY <2>1, <2>2
<1>6. Len(wire') <= MaxWire
  <2>1. CASE wire' = wire
    BY <2>1 DEF TaskInv, StreamTypeOK
  <2>2. CASE SendFragment
    <3>1. Len(wire) < MaxWire /\ Len(wire) \in Nat
      BY <2>2, LenProperties DEF SendFragment
    <3>2. wire' = Append(wire, Fragment(Head(packets), sequence_number, frag_index))
      BY <2>2 DEF SendFragment
    <3>3. Len(wire') = Len(wire) + 1
      BY <3>2
    <3> QED BY <3>1, <3>3, StreamAssumption
  <2> QED
    BY <2>1, <2>2
      DEF StreamNext, StreamTask, CaptureFrame, CaptureEnds, Cancel, Start,
          SelectCancelled, SelectChanged, SelectTick, CheckNothingNew, CheckClosed,
          EncodeFrame, EncodeFails, SkipPacket, SendFails, Stop, sendVars
<1> QED
  BY <1>1, <1>2, <1>3, <1>4, <1>5, <1>6 DEF TaskInv, StreamTypeOK
-----------------------------------------------------------------------------
(* The datagrams.                                                          *)

\* Only five kinds of step touch the packets or the wire.
LEMMA SendSteps ==
  StreamNext =>
    \/ UNCHANGED sendVars
    \/ EncodeFrame \/ SkipPacket \/ SendFragment \/ SendFails
  BY DEF StreamNext, StreamTask, CaptureFrame, CaptureEnds, Cancel, Start,
         SelectCancelled, SelectChanged, SelectTick, CheckNothingNew, CheckClosed,
         EncodeFails, Stop

\* SendFragment is on its way through the head; with its last fragment the head
\* joins the packets sent, under the number it had.
LEMMA SendFragmentEffect ==
  ASSUME TaskInv, SendFragment
  PROVE  LET p == Head(packets)
         IN  /\ p \in Packet /\ p.len > 0 /\ ~TooLarge(p)
             /\ p.id = produced - Len(packets) + 1
             /\ FragCount(p.len) \in Nat /\ frag_index \in 0 .. FragCount(p.len) - 1
             /\ Len(sent) \in Nat /\ DOMAIN sent = 1 .. Len(sent)
             /\ wire' = Append(wire, Fragment(p, sequence_number, frag_index))
             /\ produced' = produced
             /\ IF frag_index + 1 = FragCount(p.len)
                THEN /\ sent' = Append(sent, p)
                     /\ DOMAIN sent' = 1 .. Len(sent) + 1
                     /\ \A n \in DOMAIN sent : sent'[n] = sent[n]
                     /\ sent'[Len(sent) + 1] = p
                     /\ frag_index' = 0
                     /\ packets' = Tail(packets)
                     /\ Len(packets') = Len(packets) - 1
                     /\ sequence_number = ((Len(sent) + 1) - 1) % SeqModulus
                ELSE /\ frag_index' = frag_index + 1
                     /\ UNCHANGED <<packets, sent, sequence_number>>
<1> DEFINE p == Head(packets)
<1>0. Numbering /\ packets # <<>>
  BY DEF TaskInv, StreamTypeOK, SendFragment
<1>1. /\ p \in Packet /\ p.id = produced - Len(packets) + 1
      /\ Len(Tail(packets)) = Len(packets) - 1
  BY <1>0, TailNumbered DEF Numbering
<1>2. p.len > 0 /\ ~TooLarge(p) /\ p.len \in Nat /\ FragCount(p.len) \in Nat
  BY <1>1, FragCountBounds, StreamAssumption DEF SendFragment, Packet
<1>3. frag_index \in 0 .. FragCount(p.len) - 1
  <2>1. CASE frag_index > 0
    BY <1>0, <1>2, <2>1 DEF Numbering
  <2>2. CASE frag_index = 0
    BY <1>2, <2>2, FragCountBounds, StreamAssumption
  <2> QED BY <1>0, <2>1, <2>2 DEF Numbering
<1>4. /\ Len(sent) \in Nat /\ DOMAIN sent = 1 .. Len(sent) /\ sent \in Seq(Packet)
      /\ sequence_number = Len(sent) % SeqModulus
  BY <1>0, LenProperties DEF Numbering
<1>5. wire' = Append(wire, Fragment(p, sequence_number, frag_index)) /\ produced' = produced
  BY DEF SendFragment
<1> HIDE DEF p
<1>6. CASE frag_index + 1 = FragCount(p.len)
  <2>1. sent' = Append(sent, p) /\ packets' = Tail(packets) /\ frag_index' = 0
    BY <1>6 DEF SendFragment, NextPacket, p
  <2>2. /\ DOMAIN sent' = 1 .. Len(sent) + 1
        /\ \A n \in DOMAIN sent : sent'[n] = sent[n]
        /\ sent'[Len(sent) + 1] = p
    BY <1>1, <1>4, <2>1
  <2>3. (Len(sent) + 1) - 1 = Len(sent)
    BY <1>4
  <2> QED BY <1>1, <1>2, <1>3, <1>4, <1>5, <1>6, <2>1, <2>2, <2>3 DEF p
<1>7. CASE frag_index + 1 # FragCount(p.len)
  <2>1. frag_index' = frag_index + 1 /\ UNCHANGED <<packets, sent, sequence_number>>
    BY <1>7 DEF SendFragment, p
  <2> QED BY <1>1, <1>2, <1>3, <1>4, <1>5, <1>7, <2>1 DEF p
<1> QED BY <1>6, <1>7

\* The packets sent stay what and where they are.
LEMMA SentGrows ==
  ASSUME TaskInv, StreamNext
  PROVE  /\ DOMAIN sent \subseteq DOMAIN sent'
         /\ \A n \in DOMAIN sent : sent'[n] = sent[n]
<1>1. CASE SendFragment
  BY <1>1, SendFragmentEffect
<1>2. CASE sent' = sent
  BY <1>2
<1> QED
  BY <1>1, <1>2, SendSteps DEF EncodeFrame, SkipPacket, SendFails, sendVars

\* A fragment of a packet sent whole stays one.
LEMMA OfSentStep ==
  ASSUME TaskInv, StreamNext, NEW d, OfSent(d)
  PROVE  OfSent(d)'
  BY SentGrows DEF OfSent, FragmentOf, Fragment, FragCount

\* The fragments of the head that are out stay that until the packet is sent whole
\* or given up.
LEMMA OfHeadStep ==
  ASSUME TaskInv, StreamNext, NEW d, OfHead(d)
  PROVE  \/ OfHead(d)' \/ OfSent(d)'
         \/ SendFails /\ MaySendFail /\ OfGivenUp(d)'
<1> DEFINE p == Head(packets)
<1>0. PICK k \in 0 .. frag_index - 1 : d = Fragment(p, sequence_number, k)
  BY DEF OfHead
<1>1. /\ frag_index > 0 /\ packets # <<>> /\ p.len > 0 /\ ~TooLarge(p)
      /\ frag_index < FragCount(p.len) /\ frag_index \in Nat
      /\ Len(packets) \in Nat \ {0} /\ produced \in Nat
  BY <1>0, TailNumbered DEF TaskInv, Numbering
<1>2. p \in Packet /\ p.id = produced - Len(packets) + 1 /\ p.len \in Nat
  BY <1>1, TailNumbered, StreamAssumption DEF TaskInv, Numbering, Packet
<1>3. k \in 0 .. FragCount(p.len) - 1
  <2>1. FragCount(p.len) \in Nat
    BY <1>2, FragCountBounds
  <2> QED BY <1>1, <2>1
<1>4. pc = "sending"
  BY <1>1 DEF TaskInv, StreamTypeOK
<1>5. CASE UNCHANGED sendVars
  BY <1>0, <1>5 DEF sendVars, OfHead, Fragment, FragCount
<1>6. CASE SendFragment
  <2>1. CASE frag_index + 1 = FragCount(p.len)
    <3>1. /\ Len(sent) + 1 \in DOMAIN sent' /\ sent'[Len(sent) + 1] = p
          /\ sequence_number = ((Len(sent) + 1) - 1) % SeqModulus
      BY <1>6, <2>1, SendFragmentEffect
    <3> QED BY <1>0, <1>3, <3>1 DEF OfSent, FragmentOf, Fragment, FragCount
  <2>2. CASE frag_index + 1 # FragCount(p.len)
    <3>1. frag_index' = frag_index + 1 /\ UNCHANGED <<packets, sequence_number>>
      BY <1>6, <2>2, SendFragmentEffect
    <3>2. k \in 0 .. frag_index' - 1
      BY <1>1, <3>1
    <3> QED BY <1>0, <3>1, <3>2 DEF OfHead, Fragment, FragCount
  <2> QED BY <2>1, <2>2
<1>7. CASE SendFails
  <2>1. MaySendFail
    BY <1>1, <1>7 DEF SendFails
  <2>2. packets' = <<>> /\ UNCHANGED <<produced, sent, sequence_number>>
    BY <1>7 DEF SendFails
  <2>3. GivenUp(p.id)
    BY <1>1, <1>2 DEF GivenUp, TaskInv, Numbering, Packet
  <2>4. p.id <= produced' - Len(packets')
    BY <1>1, <1>2, <2>2
  <2>5. sequence_number \in 0 .. SeqModulus - 1
    BY DEF TaskInv, StreamTypeOK
  <2>7. FragmentOf(d, p, sequence_number)
    BY <1>0, <1>3 DEF FragmentOf
  <2> QED
    BY <1>1, <1>2, <1>7, <2>1, <2>2, <2>3, <2>4, <2>5, <2>7
      DEF OfGivenUp, GivenUp, FragmentOf, Fragment, FragCount
<1>8. ~SkipPacket /\ ~EncodeFrame
  BY <1>1, <1>4 DEF SkipPacket, EncodeFrame, TakeFrame
<1> QED BY <1>5, <1>6, <1>7, <1>8, SendSteps

\* A packet once given up is never sent: later packets have later identities.
LEMMA OfGivenUpStep ==
  ASSUME TaskInv, StreamNext, NEW d, OfGivenUp(d)
  PROVE  OfGivenUp(d)'
<1>0. PICK p \in Packet, s \in 0 .. SeqModulus - 1 :
        p.len > 0 /\ p.id <= produced - Len(packets) /\ GivenUp(p.id) /\ FragmentOf(d, p, s)
  BY DEF OfGivenUp
<1>1. /\ Len(packets) \in Nat /\ produced \in Nat /\ p.id \in Nat
  BY <1>0, LenProperties DEF TaskInv, Numbering, Packet
<1>2. GivenUp(p.id)'
  <2>1. CASE sent' = sent
    BY <1>0, <2>1 DEF GivenUp
  <2>2. CASE SendFragment
    <3> DEFINE h == Head(packets)
    <3>1. /\ h.id = produced - Len(packets) + 1
          /\ Len(sent) \in Nat /\ DOMAIN sent = 1 .. Len(sent)
          /\ IF frag_index + 1 = FragCount(h.len)
             THEN /\ DOMAIN sent' = 1 .. Len(sent) + 1
                  /\ \A n \in DOMAIN sent : sent'[n] = sent[n]
                  /\ sent'[Len(sent) + 1] = h
             ELSE sent' = sent
      BY <2>2, SendFragmentEffect
    <3>2. h.id # p.id
      BY <1>0, <1>1, <3>1
    <3> QED BY <1>0, <3>1, <3>2 DEF GivenUp
  <2> QED
    BY <2>1, <2>2, SendSteps DEF EncodeFrame, SkipPacket, SendFails, sendVars
<1>3. p.id <= produced' - Len(packets')
  <2>1. CASE UNCHANGED sendVars
    BY <1>0, <2>1 DEF sendVars
  <2>2. CASE EncodeFrame
    <3>1. PICK ps \in Encodings : packets' = ps /\ produced' = produced + Len(ps)
      BY <2>2 DEF EncodeFrame
    <3>2. Len(ps) \in Nat
      BY <1>1, <3>1, EncodedPackets, LenProperties
    <3> QED BY <1>0, <1>1, <3>1, <3>2
  <2>3. CASE SkipPacket
    <3>1. packets # <<>> /\ packets' = Tail(packets) /\ produced' = produced
      BY <2>3 DEF SkipPacket, NextPacket, TaskInv, StreamTypeOK
    <3>2. Len(packets') = Len(packets) - 1
      BY <3>1, TailNumbered DEF TaskInv, Numbering
    <3> QED BY <1>0, <1>1, <3>1, <3>2
  <2>4. CASE SendFragment
    <3>1. produced' = produced /\ Len(packets') \in {Len(packets), Len(packets) - 1}
      BY <2>4, SendFragmentEffect
    <3> QED BY <1>0, <1>1, <3>1
  <2>5. CASE SendFails
    <3>1. produced' = produced /\ Len(packets') = 0
      BY <2>5 DEF SendFails
    <3> QED BY <1>0, <1>1, <3>1
  <2> QED BY <2>1, <2>2, <2>3, <2>4, <2>5, SendSteps
<1> QED
  BY <1>0, <1>2, <1>3 DEF OfGivenUp, FragmentOf, Fragment, FragCount

\* A datagram stays a fragment of one of the three kinds of packet.
LEMMA LabelledStep ==
  ASSUME TaskInv, StreamNext, NEW d, Labelled(d)
  PROVE  Labelled(d)'
  BY OfSentStep, OfHeadStep, OfGivenUpStep DEF Labelled

\* The datagram just sent is a fragment of a packet sent whole or of the head.
LEMMA NewFragment ==
  ASSUME TaskInv, SendFragment,
         NEW d, d = Fragment(Head(packets), sequence_number, frag_index)
  PROVE  d \in Fragments /\ (OfSent(d)' \/ OfHead(d)')
<1> DEFINE p == Head(packets)
<1>0. /\ p \in Packet /\ FragCount(p.len) \in Nat /\ frag_index \in 0 .. FragCount(p.len) - 1
  BY SendFragmentEffect
<1>1. d \in Fragments
  BY <1>0 DEF Fragments, TaskInv, StreamTypeOK
<1>2. CASE frag_index + 1 = FragCount(p.len)
  <2>1. /\ Len(sent) + 1 \in DOMAIN sent' /\ sent'[Len(sent) + 1] = p
        /\ sequence_number = ((Len(sent) + 1) - 1) % SeqModulus
    BY <1>2, SendFragmentEffect
  <2>2. OfSent(d)'
    BY <1>0, <2>1 DEF OfSent, FragmentOf, Fragment, FragCount
  <2> QED BY <1>1, <2>2
<1>3. CASE frag_index + 1 # FragCount(p.len)
  <2>1. frag_index' = frag_index + 1 /\ UNCHANGED <<packets, sequence_number>>
    BY <1>3, SendFragmentEffect
  <2>2. frag_index \in 0 .. frag_index' - 1
    BY <1>0, <2>1
  <2>3. OfHead(d)'
    BY <2>1, <2>2 DEF OfHead, Fragment, FragCount
  <2> QED BY <1>1, <2>3
<1> QED BY <1>2, <1>3

\* What a datagram says of its origin: a packet the task is done with, or the head
\* and one of its fragments that are out.
LEMMA LabelledFields ==
  ASSUME TaskInv, NEW d, Labelled(d)
  PROVE  \E p \in Packet : \E s : \E k \in Nat :
           /\ p.len > 0 /\ k < FragCount(p.len) /\ d = Fragment(p, s, k)
           /\ d.bytes[1][1] = p.id /\ d.frag_index = k
           /\ \/ p.id <= produced - Len(packets)
              \/ p = Head(packets) /\ packets # <<>> /\ k < frag_index
<1> DEFINE Goal(p, s, k) ==
             /\ p.len > 0 /\ k < FragCount(p.len) /\ d = Fragment(p, s, k)
             /\ \/ p.id <= produced - Len(packets)
                \/ p = Head(packets) /\ packets # <<>> /\ k < frag_index
<1>1. SUFFICES \E p \in Packet : \E s : \E k \in Nat : Goal(p, s, k)
  BY FragmentFields
<1>2. CASE OfSent(d)
  <2>1. PICK n \in DOMAIN sent : FragmentOf(d, sent[n], (n - 1) % SeqModulus)
    BY <1>2 DEF OfSent
  <2>2. /\ sent[n] \in Packet /\ sent[n].len > 0 /\ sent[n].len \in Nat
        /\ sent[n].id <= produced - Len(packets)
    <3>1. sent[n] \in Packet
      BY DEF TaskInv, Numbering
    <3>2. sent[n].len > 0 /\ sent[n].id <= produced - Len(packets)
      BY DEF TaskInv, Numbering
    <3> QED BY <3>1, <3>2, StreamAssumption DEF Packet
  <2>3. FragCount(sent[n].len) \in Nat
    BY <2>2, FragCountBounds
  <2>4. PICK k \in 0 .. FragCount(sent[n].len) - 1 :
          d = Fragment(sent[n], (n - 1) % SeqModulus, k)
    BY <2>1 DEF FragmentOf
  <2>5. k \in Nat /\ k < FragCount(sent[n].len)
    BY <2>3
  <2> QED BY <2>2, <2>4, <2>5
<1>3. CASE OfHead(d)
  <2>1. PICK k \in 0 .. frag_index - 1 : d = Fragment(Head(packets), sequence_number, k)
    BY <1>3 DEF OfHead
  <2>2. /\ frag_index \in Nat /\ frag_index > 0 /\ packets # <<>>
        /\ Head(packets).len > 0 /\ frag_index < FragCount(Head(packets).len)
    BY <2>1 DEF TaskInv, Numbering
  <2>3. Head(packets) \in Packet
    BY <2>2, TailNumbered DEF TaskInv, Numbering
  <2>4. Head(packets).len \in Nat /\ FragCount(Head(packets).len) \in Nat
    BY <2>3, StreamAssumption, FragCountBounds DEF Packet
  <2>5. k \in Nat /\ k < frag_index /\ k < FragCount(Head(packets).len)
    BY <2>2, <2>4
  <2> QED BY <2>1, <2>2, <2>3, <2>5
<1>4. CASE OfGivenUp(d)
  <2>1. PICK p \in Packet, s \in 0 .. SeqModulus - 1 :
          p.len > 0 /\ p.id <= produced - Len(packets) /\ FragmentOf(d, p, s)
    BY <1>4 DEF OfGivenUp
  <2>2. PICK k \in 0 .. FragCount(p.len) - 1 : d = Fragment(p, s, k)
    BY <2>1 DEF FragmentOf
  <2>3. FragCount(p.len) \in Nat
    BY FragCountBounds, StreamAssumption DEF Packet
  <2>4. k \in Nat /\ k < FragCount(p.len)
    BY <2>3
  <2> QED BY <2>1, <2>2, <2>4
<1> QED BY <1>2, <1>3, <1>4 DEF Labelled

\* The wire gains the fragment a SendFragment made and nothing else.
LEMMA WireStep ==
  ASSUME TaskInv, WireLabelled, StreamNext
  PROVE  WireLabelled'
<1>1. CASE SendFragment
  <2>1. PICK d : d = Fragment(Head(packets), sequence_number, frag_index)
    OBVIOUS
  <2>2. d \in Fragments /\ Labelled(d)'
    BY <1>1, <2>1, NewFragment DEF Labelled
  <2>3. wire' = Append(wire, d) /\ wire \in Seq(Fragments)
    BY <1>1, <2>1 DEF SendFragment, WireLabelled
  <2>4. /\ wire' \in Seq(Fragments) /\ DOMAIN wire' = 1 .. Len(wire) + 1
        /\ Len(wire) \in Nat /\ DOMAIN wire = 1 .. Len(wire)
        /\ \A i \in DOMAIN wire : wire'[i] = wire[i]
        /\ wire'[Len(wire) + 1] = d
    BY <2>2, <2>3, LenProperties
  <2>5. ASSUME NEW i \in DOMAIN wire' PROVE Labelled(wire[i])'
    <3>1. CASE i \in DOMAIN wire
      <4>1. PICK e : e = wire[i]
        OBVIOUS
      <4>2. Labelled(e)'
        BY <3>1, <4>1, LabelledStep DEF WireLabelled
      <4>3. e = wire'[i]
        BY <2>4, <3>1, <4>1
      <4> QED BY <4>2, <4>3 DEF Labelled, OfSent, OfHead, OfGivenUp, FragmentOf
    <3>2. CASE i = Len(wire) + 1
      <4>1. d = wire'[i]
        BY <2>4, <3>2
      <4> QED BY <2>2, <4>1 DEF Labelled, OfSent, OfHead, OfGivenUp, FragmentOf
    <3> QED BY <2>4, <3>1, <3>2
  <2> QED BY <2>4, <2>5 DEF WireLabelled
<1>2. CASE wire' = wire
  <2>1. ASSUME NEW i \in DOMAIN wire' PROVE Labelled(wire[i])'
    <3>1. PICK e : e = wire[i]
      OBVIOUS
    <3>2. Labelled(e)' /\ e = wire'[i]
      BY <1>2, <3>1, LabelledStep DEF WireLabelled
    <3> QED BY <3>2 DEF Labelled, OfSent, OfHead, OfGivenUp, FragmentOf
  <2> QED BY <1>2, <2>1 DEF WireLabelled
<1> QED
  BY <1>1, <1>2, SendSteps DEF EncodeFrame, SkipPacket, SendFails, sendVars

\* Every fragment of the head goes out once, so that a packet sent whole is tiled.
LEMMA TiledStep ==
  ASSUME StreamInv, StreamNext
  PROVE  Tiled'
<1> DEFINE Covered(p, s, k) == \E i \in DOMAIN wire : wire[i] = Fragment(p, s, k)
<1>0. TaskInv /\ WireLabelled /\ Tiled
  BY DEF StreamInv
<1>1. CASE SendFragment
  <2> DEFINE p == Head(packets)
             d == Fragment(p, sequence_number, frag_index)
  <2>1. /\ p \in Packet /\ p.len > 0 /\ p.id = produced - Len(packets) + 1
        /\ FragCount(p.len) \in Nat /\ frag_index \in 0 .. FragCount(p.len) - 1
        /\ wire' = Append(wire, d)
    BY <1>0, <1>1, SendFragmentEffect
  <2>2. /\ DOMAIN wire' = 1 .. Len(wire) + 1
        /\ Len(wire) \in Nat /\ DOMAIN wire = 1 .. Len(wire)
        /\ \A i \in DOMAIN wire : wire'[i] = wire[i]
        /\ wire'[Len(wire) + 1] = d
    <3>1. wire \in Seq(Fragments)
      BY <1>0 DEF WireLabelled
    <3>2. wire' = Append(wire, d)
      BY <2>1
    <3>3. Len(wire) \in Nat /\ DOMAIN wire = 1 .. Len(wire)
      BY <3>1, LenProperties
    <3> HIDE DEF d
    <3>4. /\ DOMAIN wire' = 1 .. Len(wire) + 1
          /\ \A i \in 1 .. Len(wire) : wire'[i] = wire[i]
          /\ wire'[Len(wire) + 1] = d
      BY <3>1, <3>2
    <3> QED BY <3>3, <3>4
  <2>3. d.bytes[1][1] = p.id /\ d.frag_index = frag_index
    BY <2>1, FragmentFields, SMTT(30)
  <2>4. \A k \in 0 .. frag_index :
          \E i \in DOMAIN wire' : wire'[i] = Fragment(p, sequence_number, k)
    <3> SUFFICES ASSUME NEW k \in 0 .. frag_index
                 PROVE  \E i \in DOMAIN wire' : wire'[i] = Fragment(p, sequence_number, k)
      OBVIOUS
    <3>1. CASE k = frag_index
      BY <2>2, <3>1
    <3>2. CASE k \in 0 .. frag_index - 1
      <4>1. PICK i \in DOMAIN wire : wire[i] = Fragment(p, sequence_number, k)
        BY <1>0, <3>2 DEF Tiled
      <4>2. i \in DOMAIN wire' /\ wire'[i] = wire[i]
        BY <2>2
      <4> QED BY <4>1, <4>2
    <3> QED BY <2>1, <3>1, <3>2
  <2>5. \A n \in DOMAIN sent : \A k \in 0 .. FragCount(sent[n].len) - 1 :
          \E i \in DOMAIN wire' : wire'[i] = Fragment(sent[n], (n - 1) % SeqModulus, k)
    <3> SUFFICES ASSUME NEW n \in DOMAIN sent, NEW k \in 0 .. FragCount(sent[n].len) - 1
                 PROVE  \E i \in DOMAIN wire' :
                          wire'[i] = Fragment(sent[n], (n - 1) % SeqModulus, k)
      OBVIOUS
    <3>1. PICK i \in DOMAIN wire : wire[i] = Fragment(sent[n], (n - 1) % SeqModulus, k)
      BY <1>0 DEF Tiled
    <3>2. i \in DOMAIN wire' /\ wire'[i] = wire[i]
      BY <2>2
    <3> QED BY <3>1, <3>2
  <2>6. ASSUME NEW i \in DOMAIN wire, wire[i].bytes[1][1] = p.id
        PROVE  wire[i].frag_index # frag_index
    <3>1. PICK q \in Packet : \E s : \E k \in Nat :
            /\ wire[i].bytes[1][1] = q.id /\ wire[i].frag_index = k
            /\ \/ q.id <= produced - Len(packets)
               \/ k < frag_index
      BY <1>0, LabelledFields DEF WireLabelled
    <3>2. produced \in Nat /\ Len(packets) \in Nat
      BY <1>0, LenProperties DEF TaskInv, Numbering
    <3> QED BY <2>1, <2>6, <3>1, <3>2
  <2>7. \A i, j \in DOMAIN wire' :
          i # j /\ wire'[i].bytes[1][1] = wire'[j].bytes[1][1] =>
            wire'[i].frag_index # wire'[j].frag_index
    <3>1. \A i, j \in DOMAIN wire :
            i # j /\ wire[i].bytes[1][1] = wire[j].bytes[1][1] =>
              wire[i].frag_index # wire[j].frag_index
      BY <1>0 DEF Tiled
    <3> HIDE DEF d, p
    <3> QED BY <2>2, <2>3, <2>6, <3>1
  <2>8. CASE frag_index + 1 = FragCount(p.len)
    <3>1. /\ DOMAIN sent' = 1 .. Len(sent) + 1
          /\ DOMAIN sent = 1 .. Len(sent) /\ Len(sent) \in Nat
          /\ \A n \in DOMAIN sent : sent'[n] = sent[n]
          /\ sent'[Len(sent) + 1] = p
          /\ frag_index' = 0
          /\ sequence_number = ((Len(sent) + 1) - 1) % SeqModulus
      BY <1>0, <1>1, <2>8, SendFragmentEffect
    <3>2. ASSUME NEW n \in DOMAIN sent', NEW k \in 0 .. FragCount(sent'[n].len) - 1
          PROVE  \E i \in DOMAIN wire' :
                   wire'[i] = Fragment(sent'[n], (n - 1) % SeqModulus, k)
      <4>1. CASE n \in DOMAIN sent
        BY <2>5, <3>1, <4>1
      <4>2. CASE n = Len(sent) + 1
        <5>1. k \in 0 .. frag_index
          BY <2>1, <2>8, <3>1, <4>2
        <5> QED BY <2>4, <3>1, <4>2, <5>1
      <4> QED BY <3>1, <4>1, <4>2
    <3>3. 0 .. frag_index' - 1 = {}
      BY <3>1
    <3> QED BY <2>7, <3>2, <3>3 DEF Tiled, Fragment, FragCount
  <2>9. CASE frag_index + 1 # FragCount(p.len)
    <3>1. frag_index' = frag_index + 1 /\ UNCHANGED <<packets, sent, sequence_number>>
      BY <1>0, <1>1, <2>9, SendFragmentEffect
    <3>2. frag_index' - 1 = frag_index
      BY <2>1, <3>1
    <3> QED BY <2>4, <2>5, <2>7, <3>1, <3>2 DEF Tiled, Fragment, FragCount
  <2> QED BY <2>8, <2>9
<1>2. CASE UNCHANGED sendVars
  BY <1>0, <1>2 DEF Tiled, sendVars, Fragment, FragCount
<1>3. CASE EncodeFrame \/ SkipPacket \/ SendFails
  <2>1. frag_index' = 0
    <3>1. CASE EncodeFrame
      BY <1>0, <3>1
        DEF EncodeFrame, TakeFrame, TaskInv, StreamTypeOK, Numbering
    <3>2. CASE SkipPacket \/ SendFails
      BY <3>2 DEF SkipPacket, SendFails, NextPacket
    <3> QED BY <1>3, <3>1, <3>2
  <2>2. UNCHANGED <<sent, wire>>
    BY <1>3 DEF EncodeFrame, SkipPacket, SendFails
  <2>3. 0 .. frag_index' - 1 = {}
    BY <2>1
  <2> QED BY <1>0, <2>2, <2>3 DEF Tiled, Fragment, FragCount
<1> QED BY <1>1, <1>2, <1>3, SendSteps

-----------------------------------------------------------------------------
(* The results.                                                            *)

\* The invariant of the stream on its own, with a network that keeps everything.
THEOREM StreamInvariant == StreamSpec => []StreamInv
<1>1. StreamInit => StreamInv
  <2> SUFFICES ASSUME StreamInit PROVE StreamInv
    OBVIOUS
  <2>1. sent = <<>> /\ wire = <<>> /\ frag_index = 0
    BY DEF StreamInit
  <2>2. /\ DOMAIN wire = {} /\ DOMAIN sent = {} /\ 0 .. frag_index - 1 = {}
        /\ wire \in Seq(Fragments)
    BY <2>1, EmptySeq
  <2> QED BY <2>2, TaskInitially DEF StreamInv, WireLabelled, Tiled
<1>2. StreamInv /\ [StreamNext]_streamVars => StreamInv'
  <2> SUFFICES ASSUME StreamInv, [StreamNext]_streamVars PROVE StreamInv'
    OBVIOUS
  <2>1. CASE StreamNext
    <3>1. TaskInv' /\ WireLabelled'
      BY <2>1, TaskStep, WireStep DEF StreamInv, WireLabelled
    <3> QED BY <2>1, <3>1, TiledStep DEF StreamInv
  <2>2. CASE UNCHANGED streamVars
    <3>1. TaskInv'
      BY <2>2 DEF StreamInv, TaskInv, StreamTypeOK, FrameFresh, EmptyFrameNeverEncoded,
                  Numbering, TooLarge, FragCount, streamVars, captureVars, sendVars
    <3>2. WireLabelled'
      BY <2>2 DEF StreamInv, WireLabelled, Labelled, OfSent, OfHead, OfGivenUp, GivenUp,
                  FragmentOf, Fragment, FragCount, streamVars, sendVars
    <3>3. Tiled'
      <4>1. UNCHANGED <<packets, frag_index, sequence_number, sent, wire>>
        BY <2>2 DEF streamVars, sendVars
      <4>2. Tiled
        BY DEF StreamInv
      <4> QED BY <4>1, <4>2 DEF Tiled, Fragment, FragCount
    <3> QED BY <3>1, <3>2, <3>3 DEF StreamInv
  <2> QED BY <2>1, <2>2
<1> QED BY <1>1, <1>2, PTL DEF StreamSpec

\* The variables of the stream task and of the capture thread stay well formed.
THEOREM StreamWellFormed == StreamSpec => []StreamTypeOK
<1>1. StreamInv => StreamTypeOK
  BY DEF StreamInv, TaskInv
<1> QED BY <1>1, StreamInvariant, PTL

\* The empty frame the watch channel is created with is never encoded, although
\* mark_changed may flag it as new (video_capture.rs:29).
THEOREM NoEmptyFrame == StreamSpec => []EmptyFrameNeverEncoded
<1>1. StreamInv => EmptyFrameNeverEncoded
  BY DEF StreamInv, TaskInv
<1> QED BY <1>1, StreamInvariant, PTL

\* Each encode moves on to a later captured frame than the one before.
THEOREM FramesMoveOn == StreamSpec => FramesAdvance
<1>1. StreamInv /\ [StreamNext]_streamVars =>
        [encoded_frame' # encoded_frame \/ (packets = <<>> /\ packets' # <<>>)
           => encoded_frame < encoded_frame']_streamVars
  BY FrameStep DEF StreamInv
<1> QED BY <1>1, StreamInvariant, PTL DEF StreamSpec, FramesAdvance

\* A datagram of a packet that was sent whole is a fragment of that packet, under
\* the packet's own number.
LEMMA OfOneSent ==
  ASSUME TaskInv, NEW d, Labelled(d), ~GivenUp(d.bytes[1][1])
  PROVE  \E n \in DOMAIN sent : \E k \in Nat :
           /\ sent[n] \in Packet /\ sent[n].len > 0 /\ k < FragCount(sent[n].len)
           /\ sent[n].id = d.bytes[1][1]
           /\ d = Fragment(sent[n], (n - 1) % SeqModulus, k)
<1>1. CASE OfSent(d)
  <2>1. PICK n \in DOMAIN sent : FragmentOf(d, sent[n], (n - 1) % SeqModulus)
    BY <1>1 DEF OfSent
  <2>2. sent[n] \in Packet
    BY DEF TaskInv, Numbering
  <2>3. sent[n].len > 0 /\ sent[n].len \in Nat
    BY <2>2, StreamAssumption DEF TaskInv, Numbering, Packet
  <2>4. FragCount(sent[n].len) \in Nat
    BY <2>3, FragCountBounds
  <2>5. PICK k \in 0 .. FragCount(sent[n].len) - 1 :
          d = Fragment(sent[n], (n - 1) % SeqModulus, k)
    BY <2>1 DEF FragmentOf
  <2>6. k \in Nat /\ k < FragCount(sent[n].len)
    BY <2>4
  <2>7. d.bytes[1][1] = sent[n].id
    BY <2>2, <2>3, <2>5, <2>6, FragmentFields
  <2> QED BY <2>2, <2>3, <2>5, <2>6, <2>7
<1>2. CASE OfHead(d)
  <2>1. PICK k \in 0 .. frag_index - 1 : d = Fragment(Head(packets), sequence_number, k)
    BY <1>2 DEF OfHead
  <2>2. /\ frag_index \in Nat /\ frag_index > 0 /\ packets # <<>>
        /\ Head(packets).len > 0 /\ frag_index < FragCount(Head(packets).len)
    BY <2>1 DEF TaskInv, Numbering
  <2>3. /\ Head(packets) \in Packet /\ Head(packets).id = produced - Len(packets) + 1
        /\ Len(packets) \in Nat
    BY <2>2, TailNumbered DEF TaskInv, Numbering
  <2>4. Head(packets).len \in Nat /\ FragCount(Head(packets).len) \in Nat
    BY <2>3, StreamAssumption, FragCountBounds DEF Packet
  <2>5. k \in Nat /\ k < FragCount(Head(packets).len)
    BY <2>2, <2>4
  <2>6. d.bytes[1][1] = Head(packets).id
    BY <2>1, <2>2, <2>3, <2>5, FragmentFields
  <2>7. GivenUp(d.bytes[1][1])
    BY <2>3, <2>6 DEF GivenUp, TaskInv, Numbering, Packet
  <2> QED BY <2>7
<1>3. CASE OfGivenUp(d)
  <2>1. PICK p \in Packet, s \in 0 .. SeqModulus - 1 :
          p.len > 0 /\ GivenUp(p.id) /\ FragmentOf(d, p, s)
    BY <1>3 DEF OfGivenUp
  <2>2. PICK k \in 0 .. FragCount(p.len) - 1 : d = Fragment(p, s, k)
    BY <2>1 DEF FragmentOf
  <2>3. FragCount(p.len) \in Nat
    BY FragCountBounds, StreamAssumption DEF Packet
  <2>4. k \in Nat /\ k < FragCount(p.len)
    BY <2>3
  <2>5. d.bytes[1][1] = p.id
    BY <2>1, <2>2, <2>4, FragmentFields
  <2> QED BY <2>1, <2>5
<1> QED BY <1>1, <1>2, <1>3 DEF Labelled

\* A sequence number identifies one packet sent, through lost sends and packets
\* given up, until the numbers have been used up once: after SeqModulus packets
\* they begin again.
THEOREM NumbersIdentify == StreamSpec => [](Len(sent) <= SeqModulus => OneNumberPerPacket)
<1>1. StreamInv => (Len(sent) <= SeqModulus => OneNumberPerPacket)
  <2> SUFFICES ASSUME StreamInv, Len(sent) <= SeqModulus,
                      NEW i \in DOMAIN wire, NEW j \in DOMAIN wire,
                      wire[i].seq = wire[j].seq,
                      ~GivenUp(wire[i].bytes[1][1]), ~GivenUp(wire[j].bytes[1][1])
               PROVE  /\ wire[i].bytes[1][1] = wire[j].bytes[1][1]
                      /\ wire[i].total_len = wire[j].total_len
                      /\ wire[i].frag_count = wire[j].frag_count
    BY DEF OneNumberPerPacket
  <2>0. TaskInv /\ Labelled(wire[i]) /\ Labelled(wire[j])
    BY DEF StreamInv, WireLabelled
  <2>1. PICK m \in DOMAIN sent : \E k \in Nat :
          /\ sent[m] \in Packet /\ sent[m].len > 0 /\ k < FragCount(sent[m].len)
          /\ sent[m].id = wire[i].bytes[1][1]
          /\ wire[i] = Fragment(sent[m], (m - 1) % SeqModulus, k)
    BY <2>0, OfOneSent
  <2>2. PICK n \in DOMAIN sent : \E k \in Nat :
          /\ sent[n] \in Packet /\ sent[n].len > 0 /\ k < FragCount(sent[n].len)
          /\ sent[n].id = wire[j].bytes[1][1]
          /\ wire[j] = Fragment(sent[n], (n - 1) % SeqModulus, k)
    BY <2>0, OfOneSent
  <2>3. /\ wire[i].seq = (m - 1) % SeqModulus
        /\ wire[i].total_len = sent[m].len /\ wire[i].frag_count = FragCount(sent[m].len)
    BY <2>1, FragmentFields
  <2>4. /\ wire[j].seq = (n - 1) % SeqModulus
        /\ wire[j].total_len = sent[n].len /\ wire[j].frag_count = FragCount(sent[n].len)
    BY <2>2, FragmentFields
  <2>5. m - 1 \in 0 .. SeqModulus - 1 /\ n - 1 \in 0 .. SeqModulus - 1
    <3>1. DOMAIN sent = 1 .. Len(sent) /\ Len(sent) \in Nat
      BY <2>0, LenProperties DEF TaskInv, Numbering
    <3> QED BY <3>1, SequenceAssumption
  <2>6. m = n
    <3>1. (m - 1) % SeqModulus = m - 1 /\ (n - 1) % SeqModulus = n - 1
      BY <2>5, SmallRemainder
    <3>2. m - 1 = n - 1
      BY <2>3, <2>4, <3>1
    <3>3. m \in Int /\ n \in Int
      BY <2>0, LenProperties DEF TaskInv, Numbering
    <3> QED BY <3>2, <3>3
  <2> QED BY <2>1, <2>2, <2>3, <2>4, <2>6
<1> QED BY <1>1, StreamInvariant, PTL

\* The fragments of every packet sent whole tile it, whatever its length: each of
\* its bytes is in exactly one datagram, at the offset that datagram says.
THEOREM PacketsTiled == StreamSpec => []FragmentsTile
<1>1. StreamInv => FragmentsTile
  <2> SUFFICES ASSUME StreamInv, NEW n \in DOMAIN sent
               PROVE  LET of == {i \in DOMAIN wire : wire[i].bytes[1][1] = sent[n].id}
                      IN  /\ \A o \in 0 .. sent[n].len - 1 :
                               \E i \in of : \E k \in DOMAIN wire[i].bytes :
                                 /\ wire[i].frag_offset + k - 1 = o
                                 /\ wire[i].bytes[k] = <<sent[n].id, o>>
                          /\ \A i, j \in of : i # j =>
                               /\ wire[i].frag_index # wire[j].frag_index
                               /\ \/ wire[i].frag_offset + Len(wire[i].bytes)
                                        <= wire[j].frag_offset
                                  \/ wire[j].frag_offset + Len(wire[j].bytes)
                                        <= wire[i].frag_offset
    BY DEF FragmentsTile
  <2> DEFINE of == {i \in DOMAIN wire : wire[i].bytes[1][1] = sent[n].id}
             p == sent[n]
  <2>0. /\ TaskInv /\ Tiled /\ \A i \in DOMAIN wire : Labelled(wire[i])
        /\ p \in Packet /\ MaxPayload \in Nat \ {0}
    BY StreamAssumption DEF StreamInv, WireLabelled, TaskInv, Numbering
  <2>1. p.len > 0 /\ p.len \in Nat /\ p.id \in Nat /\ FragCount(p.len) \in Nat
    BY <2>0, StreamAssumption, FragCountBounds DEF TaskInv, Numbering, Packet
  <2> HIDE DEF p
  <2>2. ASSUME NEW o \in 0 .. p.len - 1
        PROVE  \E i \in of : \E k \in DOMAIN wire[i].bytes :
                 wire[i].frag_offset + k - 1 = o /\ wire[i].bytes[k] = <<p.id, o>>
    <3>1. PICK x \in Nat :
            x < FragCount(p.len) /\ Offset(x) <= o /\ o < Offset(x) + MaxPayload
      BY <2>1, FragmentHolding
    <3>2. x \in 0 .. FragCount(p.len) - 1 /\ o \in Nat /\ o < p.len
      BY <2>1, <3>1
    <3>3. PICK i \in DOMAIN wire : wire[i] = Fragment(p, (n - 1) % SeqModulus, x)
      BY <2>0, <3>2 DEF Tiled, p
    <3>4. wire[i].bytes[1][1] = p.id
      BY <2>0, <2>1, <3>1, <3>3, FragmentFields
    <3>5. \E k \in DOMAIN wire[i].bytes :
            wire[i].frag_offset + k - 1 = o /\ wire[i].bytes[k] = <<p.id, o>>
      <4>1. Offset(x) \in Nat
        BY Offsets
      <4>2. PICK k \in Int : k = o - Offset(x) + 1
        BY <3>2, <4>1
      <4>3. /\ k \in DOMAIN wire[i].bytes
            /\ wire[i].frag_offset + k - 1 = o /\ wire[i].bytes[k] = <<p.id, o>>
        BY <2>0, <2>1, <3>1, <3>2, <3>3, <4>2, ByteInFragment
      <4> QED BY <4>3
    <3> QED BY <3>3, <3>4, <3>5 DEF p
  <2>3. ASSUME NEW i \in of
        PROVE  \E k \in Nat :
                 k < FragCount(p.len) /\ wire[i] = Fragment(p, (n - 1) % SeqModulus, k)
    <3>1. ~GivenUp(wire[i].bytes[1][1])
      BY DEF GivenUp
    <3>2. PICK m \in DOMAIN sent : \E k \in Nat :
            /\ sent[m] \in Packet /\ k < FragCount(sent[m].len)
            /\ sent[m].id = wire[i].bytes[1][1]
            /\ wire[i] = Fragment(sent[m], (m - 1) % SeqModulus, k)
      BY <2>0, <3>1, OfOneSent
    <3>3. m = n
      <4>1. DOMAIN sent = 1 .. Len(sent) /\ Len(sent) \in Nat
        BY <2>0, LenProperties DEF TaskInv, Numbering
      <4>2. \A a, b \in DOMAIN sent : a < b => sent[a].id < sent[b].id
        BY <2>0 DEF TaskInv, Numbering
      <4>3. sent[m].id = sent[n].id /\ sent[m].id \in Nat
        BY <2>1, <3>2 DEF p
      <4> QED BY <4>1, <4>2, <4>3
    <3> QED BY <3>2, <3>3 DEF p
  <2>4. ASSUME NEW i \in of, NEW j \in of, i # j
        PROVE  /\ wire[i].frag_index # wire[j].frag_index
               /\ \/ wire[i].frag_offset + Len(wire[i].bytes) <= wire[j].frag_offset
                  \/ wire[j].frag_offset + Len(wire[j].bytes) <= wire[i].frag_offset
    <3>1. PICK x \in Nat :
            x < FragCount(p.len) /\ wire[i] = Fragment(p, (n - 1) % SeqModulus, x)
      BY <2>3
    <3>2. PICK y \in Nat :
            y < FragCount(p.len) /\ wire[j] = Fragment(p, (n - 1) % SeqModulus, y)
      BY <2>3
    <3>3. wire[i].frag_index # wire[j].frag_index
      BY <2>0, <2>4 DEF Tiled
    <3>4. wire[i].frag_index = x /\ wire[j].frag_index = y
      BY <2>0, <2>1, <3>1, <3>2, FragmentFields, SMTT(30)
    <3>5. CASE x < y
      BY <2>0, <2>1, <3>1, <3>2, <3>3, <3>5, FragmentsApart
    <3>6. CASE y < x
      BY <2>0, <2>1, <3>1, <3>2, <3>3, <3>6, FragmentsApart
    <3> QED BY <3>3, <3>4, <3>5, <3>6
  <2> QED BY <2>2, <2>4 DEF p
<1> QED BY <1>1, StreamInvariant, PTL
=============================================================================
