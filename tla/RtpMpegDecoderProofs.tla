------------------------- MODULE RtpMpegDecoderProofs -------------------------
(***************************************************************************)
(* What RtpMpegDecoder's runs check on small instances holds for every u16 *)
(* width, window, alphabet and set of datagrams.                           *)
(*                                                                         *)
(* The argument: a packet enters in_flight only if its `seq + window` does *)
(* not wrap (AdmittedInWindow), every state in in_flight is one that was   *)
(* there or a fresh one (AdmittedEntry), and copying a fragment that fits  *)
(* keeps the count of written bytes exact (CopyKeepsAccount); a packet     *)
(* whose count reaches its length therefore has no hole.                   *)
(***************************************************************************)
EXTENDS RtpMpegDecoder, FiniteSetTheorems, TLAPS

\* The inductive invariant.
DecoderIInv ==
  /\ DecoderTypeOK
  /\ WindowInv
  /\ TailNeverAssembled
  /\ AssemblyInv
  /\ FinishedLeaves
  /\ NoUnwrittenByte

\* A packet's state is typed and agrees with its buffer.
PacketOK(st) ==
  /\ st.total_len \in Nat
  /\ st \in PacketStates(st.total_len)
  /\ Accounted(st)

\* u16 addition of the window either does not wrap or wraps once.
LEMMA AddWindowCases ==
  ASSUME NEW s \in Seqs
  PROVE  /\ AddWindow(s) \in Int
         /\ s + InFlightWindow < SeqModulus => AddWindow(s) = s + InFlightWindow
         /\ s + InFlightWindow >= SeqModulus => AddWindow(s) < s
<1>1. /\ SeqModulus \in Nat /\ InFlightWindow \in Nat
      /\ 0 < InFlightWindow /\ InFlightWindow < SeqModulus
      /\ s \in Nat /\ s < SeqModulus
  BY SequenceAssumption, DecoderAssumption DEF Seqs
<1>2. CASE s + InFlightWindow < SeqModulus
  <2>1. (s + InFlightWindow) % SeqModulus = s + InFlightWindow
    BY <1>1, <1>2
  <2> QED
    BY <2>1, <1>1, <1>2 DEF AddWindow
<1>3. CASE s + InFlightWindow >= SeqModulus
  <2>1. (s + InFlightWindow) % SeqModulus = s + InFlightWindow - SeqModulus
    BY <1>1, <1>3
  <2> QED
    BY <2>1, <1>1, <1>3 DEF AddWindow
<1> QED
  BY <1>1, <1>2, <1>3

\* A datagram has a header of numbers and a payload of bytes.
LEMMA DatagramFields ==
  ASSUME NEW d \in Datagram
  PROVE  /\ d.seq \in Seqs /\ d.total_len \in Nat /\ d.frag_index \in Nat
         /\ d.frag_count \in Nat /\ d.frag_offset \in Nat
         /\ d.bytes \in Seq(Byte) /\ Len(d.bytes) \in Nat
  BY DEF Datagram

\* A fresh packet has written nothing and accounts for it.
LEMMA FreshPacketOK ==
  ASSUME NEW d \in Datagram
  PROVE  PacketOK(NewPacketState(d))
<1> DEFINE st == NewPacketState(d)
<1>1. /\ st.total_len = d.total_len /\ st.buf = [o \in 0 .. d.total_len - 1 |-> Zeroed]
      /\ st.received_bytes = 0 /\ st.fragment_ranges = {}
  BY DEF NewPacketState
<1>2. d.total_len \in Nat /\ d.frag_count \in Nat
  BY DatagramFields
<1>3. st \in PacketStates(d.total_len)
  BY <1>2 DEF NewPacketState, PacketStates
<1>4. Written(st) = {}
  BY <1>1 DEF Written
<1>5. Accounted(st)
  BY <1>1, <1>4, FS_EmptySet DEF Accounted
<1> QED
  BY <1>1, <1>2, <1>3, <1>5 DEF PacketOK

\* The n numbers from a on are n.
LEMMA IntervalSize ==
  ASSUME NEW a \in Nat, NEW n \in Nat
  PROVE  IsFiniteSet(a .. a + n - 1) /\ Cardinality(a .. a + n - 1) = n
<1>1. a + n - 1 \in Int
  OBVIOUS
<1>2. /\ IsFiniteSet(a .. (a + n - 1))
      /\ Cardinality(a .. (a + n - 1)) = IF a > a + n - 1 THEN 0 ELSE (a + n - 1) - a + 1
  BY <1>1, FS_Interval
<1> QED
  BY <1>2

\* Copying a fragment that is in bounds and touches no earlier range writes
\* exactly its bytes, and received_bytes counts them.
LEMMA CopyKeepsAccount ==
  ASSUME NEW d \in Datagram, NEW st, PacketOK(st),
         ~OutOfBounds(st, d), ~Overlaps(st, d)
  PROVE  PacketOK(CopyFragment(st, d)) /\ CopyFragment(st, d).total_len = st.total_len
<1> DEFINE n == Len(d.bytes)
           start == d.frag_offset
           end == d.frag_offset + n
           new == CopyFragment(st, d)
<1>1. /\ d.frag_offset \in Nat /\ d.frag_index \in Nat /\ n \in Nat /\ d.bytes \in Seq(Byte)
      /\ \A k \in 1 .. n : d.bytes[k] \in Byte
  BY DatagramFields
<1>2. /\ st.total_len \in Nat /\ st \in PacketStates(st.total_len)
      /\ DOMAIN st.buf = 0 .. st.total_len - 1
      /\ st.received_bytes \in Nat /\ st.fragment_ranges \in SUBSET (Nat \X Nat)
      /\ st.received_bytes = Cardinality(Written(st))
      /\ \A o \in DOMAIN st.buf :
           o \in Written(st) <=> \E r \in st.fragment_ranges : r[1] <= o /\ o < r[2]
  BY DEF PacketOK, Accounted, PacketStates
<1>3. end <= st.total_len
  BY <1>1, <1>2 DEF OutOfBounds, FragEnd
<1>4. /\ new.total_len = st.total_len /\ new.frag_count = st.frag_count
      /\ new.buf = [o \in DOMAIN st.buf |->
                      IF o \in start .. end - 1 THEN d.bytes[o - start + 1] ELSE st.buf[o]]
      /\ new.frag_received = st.frag_received \cup {d.frag_index}
      /\ new.fragment_ranges = st.fragment_ranges \cup {<<start, end>>}
      /\ new.received_bytes = st.received_bytes + n
      /\ DOMAIN new.buf = DOMAIN st.buf
  BY <1>2 DEF CopyFragment, FragStart, FragEnd, PacketStates
<1> HIDE DEF new
<1>5. new \in PacketStates(st.total_len)
  <2>1. \A o \in start .. end - 1 : d.bytes[o - start + 1] \in Byte
    BY <1>1
  <2>2. new.buf \in [0 .. st.total_len - 1 -> Byte \cup {Zeroed}]
    BY <1>2, <1>4, <2>1 DEF PacketStates
  <2>3. /\ new.frag_received \in SUBSET Nat /\ new.received_bytes \in Nat
        /\ new.fragment_ranges \in SUBSET (Nat \X Nat)
    BY <1>1, <1>2, <1>4 DEF PacketStates
  <2>4. new = [st EXCEPT !.buf = new.buf, !.frag_received = new.frag_received,
                         !.fragment_ranges = new.fragment_ranges,
                         !.received_bytes = new.received_bytes]
    BY <1>2 DEF PacketStates, CopyFragment, new
  <2> QED
    BY <1>2, <2>2, <2>3, <2>4 DEF PacketStates
<1>6. Written(new) = Written(st) \cup (start .. end - 1)
  <2>1. ASSUME NEW o \in DOMAIN st.buf
        PROVE  o \in Written(new) <=> o \in Written(st) \cup (start .. end - 1)
    <3>1. CASE o \in start .. end - 1
      <4>1. new.buf[o] \in Byte
        BY <1>1, <1>4, <3>1
      <4> QED
        BY <1>4, <3>1, <4>1, DecoderAssumption DEF Written
    <3>2. CASE o \notin start .. end - 1
      BY <1>4, <3>2 DEF Written
    <3> QED
      BY <3>1, <3>2
  <2>2. start .. end - 1 \subseteq DOMAIN st.buf
    BY <1>1, <1>2, <1>3
  <2>3. Written(st) \subseteq DOMAIN st.buf /\ Written(new) \subseteq DOMAIN st.buf
    BY <1>4 DEF Written
  <2> QED
    BY <2>1, <2>2, <2>3
<1>7. Written(st) \cap (start .. end - 1) = {}
  <2>1. ASSUME NEW o \in Written(st), o \in start .. end - 1
        PROVE  FALSE
    <3>1. PICK r \in st.fragment_ranges : r[1] <= o /\ o < r[2]
      BY <1>2, <2>1 DEF Written
    <3>2. r[1] \in Nat /\ r[2] \in Nat
      BY <1>2
    <3>3. o \in Int /\ start <= o /\ o < end
      BY <1>1, <2>1
    <3>4. ~(FragStart(d) < r[2] /\ r[1] < FragEnd(d))
      BY <3>1 DEF Overlaps
    <3>5. FragStart(d) = start /\ FragEnd(d) = end
      BY DEF FragStart, FragEnd
    <3> HIDE DEF start, end
    <3>6. start \in Int /\ end \in Int
      BY <1>1 DEF start, end
    <3> QED
      BY <3>1, <3>2, <3>3, <3>4, <3>5, <3>6
  <2> QED
    BY <2>1
<1>8. Cardinality(Written(new)) = Cardinality(Written(st)) + n
  <2>1. IsFiniteSet(0 .. 0 + st.total_len - 1)
    BY <1>2, IntervalSize
  <2>2. IsFiniteSet(Written(st))
    BY <1>2, <2>1, FS_Subset DEF Written
  <2>3. IsFiniteSet(start .. end - 1) /\ Cardinality(start .. end - 1) = n
    BY <1>1, IntervalSize
  <2>4. Cardinality({}) = 0
    BY FS_EmptySet
  <2>5. Cardinality(Written(st)) \in Nat
    BY <1>2
  <2>6. Cardinality(Written(st) \cup (start .. end - 1))
          = Cardinality(Written(st)) + Cardinality(start .. end - 1)
              - Cardinality(Written(st) \cap (start .. end - 1))
    BY <2>2, <2>3, FS_Union
  <2>7. Cardinality(Written(st) \cup (start .. end - 1)) = Cardinality(Written(st)) + n - 0
    BY <1>7, <2>3, <2>4, <2>6
  <2> QED
    BY <1>1, <1>6, <2>5, <2>7
<1>9. ASSUME NEW o \in DOMAIN new.buf
      PROVE  o \in Written(new) <=> \E r \in new.fragment_ranges : r[1] <= o /\ o < r[2]
  <2>1. o \in DOMAIN st.buf
    BY <1>4, <1>9
  <2>2. o \in start .. end - 1 <=> start <= o /\ o < end
    BY <1>1, <1>2, <2>1
  <2> DEFINE q == <<start, end>>
  <2>a. q[1] = start /\ q[2] = end
    OBVIOUS
  <2>b. new.fragment_ranges = st.fragment_ranges \cup {q}
    BY <1>4
  <2> HIDE DEF q
  <2>3. (\E r \in new.fragment_ranges : r[1] <= o /\ o < r[2])
          <=> \/ \E r \in st.fragment_ranges : r[1] <= o /\ o < r[2]
              \/ start <= o /\ o < end
    BY <2>a, <2>b
  <2>4. o \in Written(new) <=> o \in Written(st) \/ o \in start .. end - 1
    BY <1>6
  <2>5. o \in Written(st) <=> \E r \in st.fragment_ranges : r[1] <= o /\ o < r[2]
    BY <1>2, <2>1
  <2> QED
    BY <2>2, <2>3, <2>4, <2>5
<1> QED
  BY <1>1, <1>2, <1>4, <1>5, <1>8, <1>9 DEF PacketOK, Accounted, new

\* A packet whose count of received bytes reaches its length has no hole.
LEMMA FullPacketHasNoHole ==
  ASSUME NEW st, PacketOK(st), st.received_bytes = st.total_len
  PROVE  \A o \in DOMAIN st.buf : st.buf[o] # Zeroed
<1>1. /\ st.total_len \in Nat /\ DOMAIN st.buf = 0 .. st.total_len - 1
      /\ Cardinality(Written(st)) = st.total_len
  BY DEF PacketOK, Accounted
<1>2. IsFiniteSet(DOMAIN st.buf) /\ Cardinality(DOMAIN st.buf) = st.total_len
  <2>1. /\ IsFiniteSet(0 .. 0 + st.total_len - 1)
        /\ Cardinality(0 .. 0 + st.total_len - 1) = st.total_len
    BY <1>1, IntervalSize
  <2> QED
    BY <1>1, <2>1
<1>3. Written(st) \in SUBSET DOMAIN st.buf
  BY DEF Written
<1>4. DOMAIN st.buf = Written(st)
  BY <1>1, <1>2, <1>3, FS_Subset
<1> QED
  BY <1>4 DEF Written

\* What admitting a datagram leaves in in_flight: each packet is one that was
\* there, or a fresh one under the datagram's own number.
LEMMA AdmittedEntry ==
  ASSUME NEW d, NEW s \in DOMAIN Admitted(d)
  PROVE  /\ s \in DOMAIN in_flight => Admitted(d)[s] = in_flight[s]
         /\ s \notin DOMAIN in_flight => s = d.seq /\ Admitted(d)[s] = NewPacketState(d)
<1>1. /\ DOMAIN Entered(d) = DOMAIN in_flight \cup {d.seq}
      /\ \A t \in DOMAIN Entered(d) :
           Entered(d)[t] = IF t \in DOMAIN in_flight THEN in_flight[t] ELSE NewPacketState(d)
  BY DEF Entered
<1> DEFINE kept == {t \in DOMAIN Entered(d) : AddWindow(t) > d.seq}
<1>2. CASE d.seq > latest_seq
  <2>1. Admitted(d) = [t \in kept |-> Entered(d)[t]]
    BY <1>2 DEF Admitted, EvictOldPackets, Restrict
  <2> QED
    BY <1>1, <2>1
<1>3. CASE ~(d.seq > latest_seq)
  BY <1>1, <1>3 DEF Admitted
<1> QED
  BY <1>2, <1>3

\* Every packet past admission, the datagram's own included, lies in the window
\* of the new latest_seq, above the last completed one and clear of the wrap.
LEMMA AdmittedInWindow ==
  ASSUME DecoderTypeOK, WindowInv, TailNeverAssembled,
         NEW d \in Datagram, Admits(d), NEW s \in DOMAIN Admitted(d)
  PROVE  /\ s \in Seqs
         /\ latest_completed_seq < s
         /\ s <= LatestSeq(d)
         /\ LatestSeq(d) < s + InFlightWindow
         /\ s + InFlightWindow < SeqModulus
<1>1. /\ SeqModulus \in Nat /\ InFlightWindow \in Nat /\ 0 < InFlightWindow
      /\ d.seq \in Seqs /\ d.seq \in Nat
      /\ latest_seq \in Nat /\ latest_completed_seq \in Nat \cup {-1}
      /\ DOMAIN in_flight \subseteq Seqs
  BY SequenceAssumption, DecoderAssumption, DatagramFields DEF DecoderTypeOK, Seqs, NoSeq
<1>2. s \in DOMAIN in_flight \cup {d.seq} /\ s \in Seqs /\ s \in Nat
  BY <1>1, AdmittedEntry DEF Seqs
<1>3. latest_completed_seq < d.seq /\ AddWindow(d.seq) > latest_seq
  <2>1. ~Stale(d)
    BY DEF Admits, Ignored
  <2>2. AddWindow(d.seq) \in Int
    BY <1>1, AddWindowCases
  <2> QED
    BY <1>1, <2>1, <2>2 DEF Stale, NoSeq
<1>4. CASE d.seq > latest_seq
  <2>1. AddWindow(s) > d.seq
    BY <1>4 DEF Admitted, EvictOldPackets, Restrict
  <2>2. LatestSeq(d) = d.seq
    BY <1>4 DEF LatestSeq
  <2>3. CASE s = d.seq
    BY <1>1, <1>2, <1>3, <2>1, <2>2, <2>3, AddWindowCases
  <2>4. CASE s \in DOMAIN in_flight
    BY <1>1, <1>2, <1>4, <2>1, <2>2, <2>4, AddWindowCases DEF WindowInv, TailNeverAssembled
  <2> QED
    BY <1>2, <2>3, <2>4
<1>5. CASE ~(d.seq > latest_seq)
  <2>1. LatestSeq(d) = latest_seq
    BY <1>5 DEF LatestSeq
  <2>2. CASE s = d.seq
    BY <1>1, <1>2, <1>3, <1>5, <2>1, <2>2, AddWindowCases
  <2>3. CASE s \in DOMAIN in_flight
    BY <1>1, <1>2, <2>1, <2>3 DEF WindowInv, TailNeverAssembled
  <2> QED
    BY <1>2, <2>2, <2>3
<1> QED
  BY <1>4, <1>5

\* ... and is well accounted for; unless it is the datagram's own fresh one it
\* still waits for a fragment.
LEMMA AdmittedOK ==
  ASSUME DecoderTypeOK, AssemblyInv, FinishedLeaves,
         NEW d \in Datagram, Admits(d), NEW s \in DOMAIN Admitted(d)
  PROVE  PacketOK(Admitted(d)[s]) /\ ~AllReceived(Admitted(d)[s])
<1>1. CASE s \in DOMAIN in_flight
  <2>1. Admitted(d)[s] = in_flight[s]
    BY <1>1, AdmittedEntry
  <2> QED
    BY <1>1, <2>1 DEF DecoderTypeOK, AssemblyInv, FinishedLeaves, PacketOK
<1>2. CASE s \notin DOMAIN in_flight
  <2>1. Admitted(d)[s] = NewPacketState(d)
    BY <1>2, AdmittedEntry
  <2>2. d.frag_count \in Nat /\ d.frag_count # 0
    BY DatagramFields DEF Admits, Ignored, BadHeader
  <2>3. 0 \in 0 .. d.frag_count - 1
    BY <2>2
  <2>4. ~AllReceived(NewPacketState(d))
    BY <2>3 DEF AllReceived, NewPacketState
  <2> QED
    BY <2>1, <2>4, FreshPacketOK
<1> QED
  BY <1>1, <1>2

\* What every outcome past admission has to show for the invariant.
LEMMA AssemblyStep ==
  ASSUME DecoderIInv, NEW d \in Datagram, Admits(d),
         latest_seq' = LatestSeq(d),
         DOMAIN in_flight' \subseteq DOMAIN Admitted(d),
         \A s \in DOMAIN in_flight' :
           PacketOK(in_flight'[s]) /\ ~AllReceived(in_flight'[s]),
         latest_completed_seq' \in Seqs \cup {NoSeq},
         latest_completed_seq' <= latest_seq',
         \A s \in DOMAIN in_flight' : latest_completed_seq' < s,
         decoded'.tag \in {"none", "item"},
         decoded'.tag = "item" =>
           \A o \in DOMAIN decoded'.data : decoded'.data[o] # Zeroed
  PROVE  DecoderIInv'
<1>1. \A s \in DOMAIN in_flight' :
        /\ s \in Seqs /\ s <= latest_seq' /\ latest_seq' < s + InFlightWindow
        /\ s + InFlightWindow < SeqModulus
  BY AdmittedInWindow DEF DecoderIInv
<1>2. latest_seq' \in Seqs
  BY DatagramFields DEF DecoderIInv, DecoderTypeOK, LatestSeq
<1>3. DecoderTypeOK'
  BY <1>1, <1>2 DEF DecoderTypeOK, PacketOK
<1>4. WindowInv' /\ TailNeverAssembled'
  BY <1>1 DEF WindowInv, TailNeverAssembled
<1>5. AssemblyInv' /\ FinishedLeaves'
  BY DEF AssemblyInv, FinishedLeaves, PacketOK
<1> QED
  BY <1>3, <1>4, <1>5 DEF DecoderIInv, NoUnwrittenByte

\* A fragment that fits leaves a well accounted packet behind.
LEMMA CopiedOK ==
  ASSUME DecoderTypeOK, AssemblyInv, FinishedLeaves, NEW d \in Datagram, Fits(d)
  PROVE  PacketOK(Copied(d))
<1>1. Admits(d) /\ d.seq \in DOMAIN Admitted(d)
  BY DEF Fits
<1>2. PacketOK(Admitted(d)[d.seq])
  BY <1>1, AdmittedOK
<1>3. ~OutOfBounds(Admitted(d)[d.seq], d) /\ ~Overlaps(Admitted(d)[d.seq], d)
  BY DEF Fits, Conflict
<1> QED
  BY <1>2, <1>3, CopyKeepsAccount DEF Copied

\* Nothing is under assembly at the start.
LEMMA DecoderInitIInv == DecoderInit => DecoderIInv
<1> SUFFICES ASSUME DecoderInit PROVE DecoderIInv
  OBVIOUS
<1>1. DOMAIN in_flight = {}
  BY DEF DecoderInit
<1>2. SeqModulus \in Nat /\ 0 \in Seqs
  BY SequenceAssumption, DecoderAssumption DEF Seqs
<1> QED
  BY <1>1, <1>2 DEF DecoderInit, DecoderIInv, DecoderTypeOK, WindowInv, TailNeverAssembled, AssemblyInv,
     FinishedLeaves, NoUnwrittenByte, Nothing, NoSeq

\* decode keeps the invariant, whatever datagram it is given.
LEMMA DecodeIInv ==
  ASSUME DecoderIInv, NEW d \in Datagram, Decode(d)
  PROVE  DecoderIInv'
<1> USE DEF DecoderIInv
<1>1. CASE UNCHANGED <<in_flight, latest_seq, latest_completed_seq>>
           /\ decoded' \in {Nothing, Error, Panic}
  BY <1>1 DEF DecoderTypeOK, WindowInv, TailNeverAssembled, AssemblyInv, FinishedLeaves,
     NoUnwrittenByte, Nothing, Error, Panic
<1>2. CASE DecodeError(d) \/ DecodeIgnored(d) \/ DecodePanic(d)
  BY <1>1, <1>2 DEF DecodeError, DecodeIgnored, DecodePanic
<1>3. ASSUME NEW packets, NEW result, Assembles(d, packets, result)
      PROVE  /\ Admits(d) /\ d.seq \in DOMAIN Admitted(d)
             /\ in_flight' = packets /\ latest_seq' = LatestSeq(d) /\ decoded' = result
  BY <1>3 DEF Assembles
<1>4. Admits(d) => \A s \in DOMAIN Admitted(d) :
        /\ PacketOK(Admitted(d)[s]) /\ ~AllReceived(Admitted(d)[s])
        /\ latest_completed_seq < s
  BY AdmittedOK, AdmittedInWindow
<1>5. latest_completed_seq \in Seqs \cup {NoSeq} /\ latest_completed_seq <= LatestSeq(d)
  BY DatagramFields DEF DecoderTypeOK, WindowInv, LatestSeq, Seqs, NoSeq
<1>6. CASE DecodeConflict(d) \/ DecodeShortfall(d)
  <2>1. /\ Assembles(d, Removed(Admitted(d), d.seq), Nothing)
        /\ UNCHANGED latest_completed_seq
    BY <1>6 DEF DecodeConflict, DecodeShortfall
  <2>2. /\ DOMAIN in_flight' \subseteq DOMAIN Admitted(d)
        /\ \A s \in DOMAIN in_flight' : in_flight'[s] = Admitted(d)[s]
    BY <1>3, <2>1 DEF Removed, Restrict
  <2> QED
    BY <1>3, <1>4, <1>5, <2>1, <2>2, AssemblyStep DEF Nothing
<1>7. CASE DecodeDuplicate(d)
  <2>1. Assembles(d, Admitted(d), Nothing) /\ UNCHANGED latest_completed_seq
    BY <1>7 DEF DecodeDuplicate
  <2> QED
    BY <1>3, <1>4, <1>5, <2>1, AssemblyStep DEF Nothing
<1>8. CASE DecodeFragment(d)
  <2>1. /\ Assembles(d, [Admitted(d) EXCEPT ![d.seq] = Copied(d)], Nothing)
        /\ Fits(d) /\ ~AllReceived(Copied(d)) /\ UNCHANGED latest_completed_seq
    BY <1>8 DEF DecodeFragment
  <2>2. /\ DOMAIN in_flight' = DOMAIN Admitted(d)
        /\ \A s \in DOMAIN in_flight' :
             in_flight'[s] = IF s = d.seq THEN Copied(d) ELSE Admitted(d)[s]
    BY <1>3, <2>1
  <2>3. PacketOK(Copied(d))
    BY <2>1, CopiedOK
  <2> QED
    BY <1>3, <1>4, <1>5, <2>1, <2>2, <2>3, AssemblyStep DEF Nothing
<1>9. CASE DecodeComplete(d)
  <2>1. /\ Assembles(d, DropOlderPackets(Removed(Admitted(d), d.seq), d.seq),
                     Item(d.seq, Copied(d).buf))
        /\ Fits(d) /\ Copied(d).received_bytes = Copied(d).total_len
        /\ latest_completed_seq' = d.seq
    BY <1>9 DEF DecodeComplete
  <2>2. /\ DOMAIN in_flight' \subseteq DOMAIN Admitted(d)
        /\ \A s \in DOMAIN in_flight' :
             in_flight'[s] = Admitted(d)[s] /\ s # d.seq /\ s >= d.seq
    <3> DEFINE rest == Removed(Admitted(d), d.seq)
    <3>1. /\ DOMAIN rest = DOMAIN Admitted(d) \ {d.seq}
          /\ \A s \in DOMAIN rest : rest[s] = Admitted(d)[s]
      BY DEF Removed, Restrict
    <3>2. in_flight' = [s \in {t \in DOMAIN rest : t >= d.seq} |-> rest[s]]
      BY <1>3, <2>1 DEF DropOlderPackets, Restrict
    <3> HIDE DEF rest
    <3> QED
      BY <3>1, <3>2
  <2>3. \A o \in DOMAIN Copied(d).buf : Copied(d).buf[o] # Zeroed
    BY <2>1, CopiedOK, FullPacketHasNoHole
  <2>4. d.seq \in Seqs /\ d.seq \in Int /\ d.seq <= LatestSeq(d)
    BY DatagramFields DEF LatestSeq, DecoderTypeOK, Seqs
  <2>5. \A s \in DOMAIN in_flight' : s \in Int
    BY <1>3, <2>1, <2>2, AdmittedInWindow DEF Seqs
  <2>6. \A s \in DOMAIN in_flight' : latest_completed_seq' < s
    BY <2>1, <2>2, <2>4, <2>5
  <2>7. decoded'.tag = "item" /\ decoded'.data = Copied(d).buf
    BY <1>3, <2>1 DEF Item
  <2> QED
    BY <1>3, <1>4, <2>1, <2>2, <2>3, <2>4, <2>6, <2>7, AssemblyStep
<1> QED
  BY <1>2, <1>6, <1>7, <1>8, <1>9 DEF Decode

\* The state a fragment is copied into: the one under assembly or a fresh one.
Holder(d) ==
  IF d.seq \in DOMAIN in_flight THEN in_flight[d.seq] ELSE NewPacketState(d)

\* What decode leaves under assembly: every packet is one that was there, or the
\* one the datagram belongs to, fresh or with the fragment copied in.
LEMMA DecodeEntries ==
  ASSUME NEW d, Decode(d), NEW s \in DOMAIN in_flight'
  PROVE  \/ s \in DOMAIN in_flight /\ in_flight'[s] = in_flight[s]
         \/ /\ s = d.seq /\ Admits(d)
            /\ \/ in_flight'[s] = Holder(d)
               \/ /\ ~Conflict(Holder(d), d) /\ ~Duplicate(Holder(d), d)
                  /\ in_flight'[s] = CopyFragment(Holder(d), d)
<1>1. CASE UNCHANGED in_flight
  BY <1>1
<1>2. ASSUME NEW t \in DOMAIN Admitted(d)
      PROVE  /\ t = d.seq => Admitted(d)[t] = Holder(d)
             /\ t # d.seq => t \in DOMAIN in_flight /\ Admitted(d)[t] = in_flight[t]
  BY AdmittedEntry DEF Holder
<1>3. CASE DecodeConflict(d) \/ DecodeShortfall(d)
  <2>1. in_flight' = Removed(Admitted(d), d.seq)
    BY <1>3 DEF DecodeConflict, DecodeShortfall, Assembles
  <2>2. s \in DOMAIN Admitted(d) /\ s # d.seq /\ in_flight'[s] = Admitted(d)[s]
    BY <2>1 DEF Removed, Restrict
  <2> QED BY <1>2, <2>2
<1>4. CASE DecodeDuplicate(d)
  BY <1>2, <1>4 DEF DecodeDuplicate, Assembles
<1>5. CASE DecodeFragment(d)
  <2>1. /\ in_flight' = [Admitted(d) EXCEPT ![d.seq] = Copied(d)]
        /\ Admits(d) /\ d.seq \in DOMAIN Admitted(d)
        /\ ~Conflict(Admitted(d)[d.seq], d) /\ ~Duplicate(Admitted(d)[d.seq], d)
    BY <1>5 DEF DecodeFragment, Assembles, Fits
  <2>2. s \in DOMAIN Admitted(d)
        /\ in_flight'[s] = IF s = d.seq THEN Copied(d) ELSE Admitted(d)[s]
    BY <2>1
  <2> QED BY <1>2, <2>1, <2>2 DEF Copied
<1>6. CASE DecodeComplete(d)
  <2> DEFINE rest == Removed(Admitted(d), d.seq)
  <2>1. in_flight' = DropOlderPackets(rest, d.seq)
    BY <1>6 DEF DecodeComplete, Assembles
  <2>2. s \in DOMAIN rest /\ in_flight'[s] = rest[s]
    BY <2>1 DEF DropOlderPackets, Restrict
  <2>3. s \in DOMAIN Admitted(d) /\ s # d.seq /\ in_flight'[s] = Admitted(d)[s]
    BY <2>2 DEF Removed, Restrict
  <2> QED BY <1>2, <2>3
<1> QED
  BY <1>1, <1>3, <1>4, <1>5, <1>6 DEF Decode, DecodeError, DecodeIgnored, DecodePanic

\* A packet decode returns is the datagram's, with its last fragment copied in, and
\* later than every packet returned before.
LEMMA DecodeItem ==
  ASSUME DecoderIInv, NEW d \in Datagram, Decode(d), decoded'.tag = "item"
  PROVE  /\ Admits(d) /\ d.kind = "fragment"
         /\ ~Conflict(Holder(d), d)
         /\ AllReceived(CopyFragment(Holder(d), d))
         /\ decoded'.data = CopyFragment(Holder(d), d).buf
         /\ latest_completed_seq' = d.seq /\ latest_completed_seq < d.seq
         /\ \A o \in DOMAIN decoded'.data : decoded'.data[o] # Zeroed
<1>1. DecodeComplete(d)
  BY DEF Decode, DecodeError, DecodeIgnored, DecodePanic, DecodeConflict, DecodeDuplicate,
         DecodeFragment, DecodeShortfall, Assembles, Nothing, Error, Panic
<1>2. /\ Admits(d) /\ d.seq \in DOMAIN Admitted(d) /\ AllReceived(Copied(d))
      /\ ~Conflict(Admitted(d)[d.seq], d)
      /\ decoded' = Item(d.seq, Copied(d).buf) /\ latest_completed_seq' = d.seq
  BY <1>1 DEF DecodeComplete, Assembles, Fits
<1>3. Admitted(d)[d.seq] = Holder(d)
  BY <1>2, AdmittedEntry DEF Holder
<1>4. latest_completed_seq < d.seq
  BY <1>2, AdmittedInWindow DEF DecoderIInv
<1>5. NoUnwrittenByte'
  BY DecodeIInv DEF DecoderIInv
<1> QED
  BY <1>2, <1>3, <1>4, <1>5 DEF Copied, Item, Admits, NoUnwrittenByte

\* Only a returned packet moves the mark of the last completed one.
LEMMA DecodeNoItem ==
  ASSUME NEW d, Decode(d), decoded'.tag # "item"
  PROVE  UNCHANGED latest_completed_seq
  BY DEF Decode, DecodeError, DecodeIgnored, DecodePanic, DecodeConflict, DecodeDuplicate,
         DecodeFragment, DecodeShortfall, DecodeComplete, Assembles, Item

\* A packet leaves in_flight because a later one completed or a newer one pushed it
\* out of the window, or for a conflict or a shortfall of its own.
LEMMA DecodeGone ==
  ASSUME DecoderIInv, NEW d \in Datagram, Decode(d),
         NEW s \in DOMAIN in_flight, s \notin DOMAIN in_flight'
  PROVE  \/ latest_completed_seq' >= s
         \/ latest_seq' >= s + InFlightWindow
         \/ s = d.seq /\ Admits(d) /\ Conflict(Holder(d), d)
         \/ /\ s = d.seq /\ Fits(d) /\ Copied(d) = CopyFragment(Holder(d), d)
            /\ AllReceived(Copied(d))
            /\ Copied(d).received_bytes # Copied(d).total_len
<1>0. /\ s \in Seqs /\ s \in Int /\ d.seq \in Int /\ InFlightWindow \in Int
      /\ s + InFlightWindow < SeqModulus
  BY DatagramFields, DecoderAssumption DEF DecoderIInv, DecoderTypeOK, TailNeverAssembled, Seqs
<1>1. ASSUME s \notin DOMAIN Admitted(d), latest_seq' = LatestSeq(d)
      PROVE  latest_seq' >= s + InFlightWindow
  <2>1. d.seq > latest_seq /\ ~(AddWindow(s) > d.seq)
    BY <1>1 DEF Admitted, Entered, EvictOldPackets, Restrict
  <2>2. AddWindow(s) = s + InFlightWindow
    BY <1>0, AddWindowCases
  <2> QED BY <1>0, <1>1, <2>1, <2>2 DEF LatestSeq
<1>2. ASSUME d.seq \in DOMAIN Admitted(d) PROVE Admitted(d)[d.seq] = Holder(d)
  BY <1>2, AdmittedEntry DEF Holder
<1>3. CASE DecodeConflict(d)
  <2>1. /\ in_flight' = Removed(Admitted(d), d.seq) /\ latest_seq' = LatestSeq(d)
        /\ Admits(d) /\ d.seq \in DOMAIN Admitted(d) /\ Conflict(Admitted(d)[d.seq], d)
    BY <1>3 DEF DecodeConflict, Assembles
  <2>2. s \notin DOMAIN Admitted(d) \/ s = d.seq
    BY <2>1 DEF Removed, Restrict
  <2> QED BY <1>1, <1>2, <2>1, <2>2
<1>4. CASE DecodeShortfall(d)
  <2>1. /\ in_flight' = Removed(Admitted(d), d.seq) /\ latest_seq' = LatestSeq(d)
        /\ Fits(d) /\ AllReceived(Copied(d)) /\ d.seq \in DOMAIN Admitted(d)
        /\ Copied(d).received_bytes # Copied(d).total_len
    BY <1>4 DEF DecodeShortfall, Assembles
  <2>2. s \notin DOMAIN Admitted(d) \/ s = d.seq
    BY <2>1 DEF Removed, Restrict
  <2> QED BY <1>1, <1>2, <2>1, <2>2 DEF Copied
<1>5. CASE DecodeDuplicate(d) \/ DecodeFragment(d)
  <2>1. DOMAIN in_flight' = DOMAIN Admitted(d) /\ latest_seq' = LatestSeq(d)
    BY <1>5 DEF DecodeDuplicate, DecodeFragment, Assembles
  <2> QED BY <1>1, <2>1
<1>6. CASE DecodeComplete(d)
  <2> DEFINE rest == Removed(Admitted(d), d.seq)
  <2>1. /\ in_flight' = DropOlderPackets(rest, d.seq) /\ latest_seq' = LatestSeq(d)
        /\ latest_completed_seq' = d.seq
    BY <1>6 DEF DecodeComplete, Assembles
  <2>2. s \notin DOMAIN rest \/ ~(s >= d.seq)
    BY <2>1 DEF DropOlderPackets, Restrict
  <2>3. s \notin DOMAIN rest => s \notin DOMAIN Admitted(d) \/ s = d.seq
    BY DEF Removed, Restrict
  <2> QED BY <1>0, <1>1, <2>1, <2>2, <2>3
<1>7. ~UNCHANGED in_flight
  OBVIOUS
<1> QED
  BY <1>3, <1>4, <1>5, <1>6, <1>7 DEF Decode, DecodeError, DecodeIgnored, DecodePanic

\* A fragment of the only packet under assembly, new and in agreement with it, is
\* copied in; the last one completes the packet.
LEMMA DecodeOnlyPacket ==
  ASSUME DecoderIInv, NEW d \in Datagram, Decode(d),
         d.kind = "fragment", d.bytes # <<>>, d.frag_index < d.frag_count,
         latest_completed_seq < d.seq, latest_seq <= d.seq,
         d.seq + InFlightWindow < SeqModulus, DOMAIN in_flight \subseteq {d.seq},
         NEW new, new = CopyFragment(Holder(d), d),
         ~Conflict(Holder(d), d), ~Duplicate(Holder(d), d),
         AllReceived(new) => new.received_bytes = new.total_len
  PROVE  /\ latest_seq' = d.seq
         /\ AllReceived(new) =>
              /\ decoded'.tag = "item" /\ latest_completed_seq' = d.seq
              /\ DOMAIN in_flight' = {}
         /\ ~AllReceived(new) =>
              /\ decoded'.tag = "none" /\ UNCHANGED latest_completed_seq
              /\ DOMAIN in_flight' = {d.seq} /\ in_flight'[d.seq] = new
<1>0. /\ SeqModulus \in Nat /\ InFlightWindow \in Nat \ {0} /\ d.seq \in Seqs
      /\ d.seq \in Nat /\ d.frag_index \in Nat /\ d.frag_count \in Nat
      /\ latest_seq \in Int /\ latest_completed_seq \in Int
  BY DatagramFields, SequenceAssumption, DecoderAssumption
  DEF Seqs, DecoderIInv, DecoderTypeOK, NoSeq
<1>1. AddWindow(d.seq) = d.seq + InFlightWindow
  BY <1>0, AddWindowCases
<1>2. ~OverflowPanics(d)
  BY <1>0 DEF OverflowPanics, AddOverflows
<1>3. ~Ignored(d)
  <2>1. ~Stale(d)
    BY <1>0, <1>1 DEF Stale
  <2>2. ~BadHeader(d)
    BY <1>0 DEF BadHeader
  <2> QED BY <2>1, <2>2 DEF Ignored
<1>4. Admits(d)
  BY <1>2, <1>3 DEF Admits, Decode, DecodeError, DecodeIgnored, DecodePanic, DecodeConflict,
     DecodeDuplicate, DecodeFragment, DecodeShortfall, DecodeComplete, Assembles
<1>5. DOMAIN Admitted(d) = {d.seq}
  <2>1. DOMAIN Entered(d) = {d.seq}
    BY DEF Entered
  <2>2. AddWindow(d.seq) > d.seq
    BY <1>0, <1>1
  <2> QED BY <2>1, <2>2 DEF Admitted, EvictOldPackets, Restrict
<1>6. Admitted(d)[d.seq] = Holder(d)
  BY <1>5, AdmittedEntry DEF Holder
<1>7. Fits(d) /\ Copied(d) = new
  BY <1>4, <1>5, <1>6 DEF Fits, Copied
<1>8. DecodeFragment(d) \/ DecodeComplete(d)
  BY <1>2, <1>3, <1>4, <1>5, <1>6, <1>7
  DEF Decode, DecodeError, DecodeIgnored, DecodePanic, DecodeConflict, DecodeDuplicate,
      DecodeShortfall, Admits
<1>9. latest_seq' = d.seq
  BY <1>0, <1>8 DEF DecodeFragment, DecodeComplete, Assembles, LatestSeq
<1>10. CASE AllReceived(new)
  <2>1. DecodeComplete(d)
    BY <1>7, <1>8, <1>10 DEF DecodeFragment
  <2>2. /\ in_flight' = DropOlderPackets(Removed(Admitted(d), d.seq), d.seq)
        /\ decoded' = Item(d.seq, new.buf) /\ latest_completed_seq' = d.seq
    BY <1>7, <2>1 DEF DecodeComplete, Assembles
  <2>3. DOMAIN in_flight' = {}
    BY <1>5, <2>2 DEF DropOlderPackets, Removed, Restrict
  <2>4. decoded'.tag = "item"
    BY <2>2 DEF Item
  <2> QED BY <1>9, <1>10, <2>2, <2>3, <2>4
<1>11. CASE ~AllReceived(new)
  <2>1. DecodeFragment(d)
    BY <1>7, <1>8, <1>11 DEF DecodeComplete
  <2>2. /\ in_flight' = [Admitted(d) EXCEPT ![d.seq] = new]
        /\ decoded' = Nothing /\ UNCHANGED latest_completed_seq
    BY <1>7, <2>1 DEF DecodeFragment, Assembles
  <2> QED BY <1>5, <1>9, <1>11, <2>2 DEF Nothing
<1> QED BY <1>10, <1>11

\* Every call of decode keeps the invariant.
LEMMA DecoderNextIInv == DecoderIInv /\ [DecoderNext]_decoderVars => DecoderIInv'
<1>1. DecoderIInv /\ UNCHANGED decoderVars => DecoderIInv'
  BY DEF DecoderIInv, decoderVars, DecoderTypeOK, WindowInv, TailNeverAssembled,
     AssemblyInv, FinishedLeaves, NoUnwrittenByte
<1>2. DecoderIInv /\ DecoderNext => DecoderIInv'
  BY DecodeIInv, DecoderAssumption DEF DecoderNext
<1> QED
  BY <1>1, <1>2

-----------------------------------------------------------------------------
(* The theorems of the specification.                                      *)

\* The inductive invariant holds throughout.
THEOREM DecoderInvariance == DecoderSpec => []DecoderIInv
BY DecoderInitIInv, DecoderNextIInv, PTL DEF DecoderSpec

\* The decoder's state is always well formed.
THEOREM TypeCorrect == DecoderSpec => []DecoderTypeOK
<1>1. DecoderIInv => DecoderTypeOK
  BY DEF DecoderIInv
<1> QED
  BY <1>1, DecoderInvariance, PTL

\* Whatever arrives in whatever order, only packets of the current window are
\* being assembled.
THEOREM InWindow == DecoderSpec => [](WindowInv /\ TailNeverAssembled)
<1>1. DecoderIInv => WindowInv /\ TailNeverAssembled
  BY DEF DecoderIInv
<1> QED
  BY <1>1, DecoderInvariance, PTL

\* The decoder never holds more than InFlightWindow packet buffers.
THEOREM Bounded == DecoderSpec => []InFlightBounded
<1>1. ASSUME DecoderIInv PROVE InFlightBounded
  <2> DEFINE low == latest_seq - InFlightWindow + 1
  <2>1. /\ InFlightWindow \in Nat /\ latest_seq \in Nat /\ low \in Int
        /\ DOMAIN in_flight \subseteq Nat
    BY <1>1, DecoderAssumption DEF DecoderIInv, DecoderTypeOK, Seqs
  <2>2. /\ IsFiniteSet(low .. latest_seq)
        /\ Cardinality(low .. latest_seq) =
             IF low > latest_seq THEN 0 ELSE latest_seq - low + 1
    BY <2>1, FS_Interval
  <2>3. Cardinality(low .. latest_seq) = InFlightWindow
    BY <2>1, <2>2, DecoderAssumption
  <2>4. DOMAIN in_flight \in SUBSET (low .. latest_seq)
    BY <1>1, <2>1 DEF DecoderIInv, WindowInv
  <2> QED
    BY <2>2, <2>3, <2>4, FS_Subset DEF InFlightBounded
<1> QED
  BY <1>1, DecoderInvariance, PTL

\* Each packet under assembly counts exactly the bytes it has written.
THEOREM AccountsExact == DecoderSpec => []AssemblyInv
<1>1. DecoderIInv => AssemblyInv
  BY DEF DecoderIInv
<1> QED
  BY <1>1, DecoderInvariance, PTL

\* No packet given to the video decoder has a byte no fragment wrote.
THEOREM CompletedWhole == DecoderSpec => []NoUnwrittenByte
<1>1. DecoderIInv => NoUnwrittenByte
  BY DEF DecoderIInv
<1> QED
  BY <1>1, DecoderInvariance, PTL

\* No packet lingers once all its fragments are marked received.
THEOREM NoneLingers == DecoderSpec => []FinishedLeaves
<1>1. DecoderIInv => FinishedLeaves
  BY DEF DecoderIInv
<1> QED
  BY <1>1, DecoderInvariance, PTL

\* Packets complete in strictly increasing sequence order.
THEOREM OrderedCompletion == DecoderSpec => CompletedInOrder
<1> DEFINE A == /\ latest_completed_seq <= latest_completed_seq'
                /\ decoded'.tag = "item" =>
                     /\ latest_completed_seq < decoded'.seq
                     /\ latest_completed_seq' = decoded'.seq
<1>1. DecoderIInv /\ [DecoderNext]_decoderVars => [A]_decoderVars
  <2> SUFFICES ASSUME DecoderIInv, DecoderNext PROVE A
    OBVIOUS
  <2>1. PICK d \in Datagram : Decode(d)
    BY DecoderAssumption DEF DecoderNext
  <2>2. latest_completed_seq \in Int
    BY DEF DecoderIInv, DecoderTypeOK, Seqs, NoSeq
  <2>3. CASE UNCHANGED latest_completed_seq /\ decoded' \in {Nothing, Error, Panic}
    BY <2>2, <2>3 DEF Nothing, Error, Panic
  <2>4. CASE DecodeComplete(d)
    <3>1. Admits(d) /\ decoded'.tag = "item" /\ decoded'.seq = d.seq
      BY <2>4 DEF DecodeComplete, Assembles, Item
    <3>2. latest_completed_seq' = d.seq /\ d.seq \in DOMAIN Admitted(d)
      BY <2>4 DEF DecodeComplete, Fits
    <3>3. latest_completed_seq < d.seq
      BY <3>1, <3>2, AdmittedInWindow DEF DecoderIInv
    <3>4. d.seq \in Int
      BY DatagramFields DEF Seqs
    <3> QED
      BY <2>2, <3>1, <3>2, <3>3, <3>4
  <2> QED
    BY <2>1, <2>3, <2>4 DEF Decode, DecodeError, DecodeIgnored, DecodePanic,
       DecodeConflict, DecodeDuplicate, DecodeFragment, DecodeShortfall, Assembles
<1> QED
  BY <1>1, DecoderInvariance, PTL DEF DecoderSpec, CompletedInOrder
=============================================================================
