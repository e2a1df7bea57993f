---------------------------- MODULE RtpMpegDecoder ----------------------------
(***************************************************************************)
(* The client's RTP reassembler (common/src/rtp_mpeg.rs): one RTP datagram *)
(* in, at most one complete MPEG packet out.                               *)
(*                                                                         *)
(* `decode` is one atomic handler.  It has one action per way it returns:  *)
(* the early returns that touch nothing, an error, a panic, a conflict     *)
(* that throws the packet away, a duplicate, an accepted fragment, a       *)
(* fragment set that is short of bytes, and a completed packet.            *)
(*                                                                         *)
(* Bytes carry no arithmetic, so a byte is an element of Byte; Zeroed      *)
(* stands for a byte of BytesMut::zeroed that no fragment has written.     *)
(* The reception timestamps only feed log lines and are left out.          *)
(*                                                                         *)
(* A definition named X_<mistake> is X with a plausible mistake; it is     *)
(* used only by the mutation runs, which put it in the place of X.         *)
(***************************************************************************)
EXTENDS RtpSequence, Sequences, FiniteSets, Functions

CONSTANTS
  InFlightWindow,  \* IN_FLIGHT_WINDOW
  OverflowChecks,  \* TRUE in a debug build: u16 `+` panics instead of wrapping
  Byte,            \* what a sender can put in a payload
  Zeroed,          \* a byte of the buffer that was never written
  Datagrams        \* the datagrams the network may hand to `decode`

NoSeq == -1

\* What RtpPacket::parse and the header reads see in one datagram.
Datagram ==
  [kind : {"garbage", "other_payload", "short", "fragment"},
   seq : Seqs, total_len : Nat, frag_index : Nat, frag_count : Nat,
   frag_offset : Nat, bytes : Seq(Byte)]

ASSUME DecoderAssumption ==
  /\ InFlightWindow \in Nat \ {0}
  /\ InFlightWindow < SeqModulus
  /\ OverflowChecks \in BOOLEAN
  /\ Zeroed \notin Byte
  /\ Datagrams \subseteq Datagram

VARIABLES
  in_flight,             \* BTreeMap: sequence number -> packet being assembled
  latest_seq,            \* highest sequence number admitted so far
  latest_completed_seq,  \* highest completed one, or NoSeq for None
  decoded                \* what the last call of `decode` returned

decoderVars == <<in_flight, latest_seq, latest_completed_seq, decoded>>

Nothing == [tag |-> "none"]
Error == [tag |-> "err"]
Panic == [tag |-> "panic"]
Item(s, data) == [tag |-> "item", seq |-> s, data |-> data]

-----------------------------------------------------------------------------
(* u16 arithmetic and the two sweeps over in_flight.                       *)

AddWindow(s) == (s + InFlightWindow) % SeqModulus
AddOverflows(s) == s + InFlightWindow >= SeqModulus

EvictOldPackets(packets, latest) ==
  Restrict(packets, {s \in DOMAIN packets : AddWindow(s) > latest})

DropOlderPackets_Never(packets, completed_seq) == packets
DropOlderPackets(packets, completed_seq) ==
  Restrict(packets, {s \in DOMAIN packets : s >= completed_seq})

Removed(packets, s) == Restrict(packets, DOMAIN packets \ {s})

-----------------------------------------------------------------------------
(* Reading one datagram.                                                   *)

NewPacketState_ForOneFragment(d) ==
  [total_len |-> d.total_len, frag_count |-> d.frag_count,
   buf |-> [o \in 0 .. Len(d.bytes) - 1 |-> Zeroed],
   frag_received |-> {}, received_bytes |-> 0, fragment_ranges |-> {}]

NewPacketState(d) ==
  [total_len |-> d.total_len, frag_count |-> d.frag_count,
   buf |-> [o \in 0 .. d.total_len - 1 |-> Zeroed],
   frag_received |-> {}, received_bytes |-> 0, fragment_ranges |-> {}]

FragStart(d) == d.frag_offset
FragEnd(d) == d.frag_offset + Len(d.bytes)

Stale_RepeatsLast(d) ==
  \/ latest_completed_seq # NoSeq /\ d.seq < latest_completed_seq
  \/ AddWindow(d.seq) <= latest_seq

Stale_UnlessNewer(d) ==
  \/ latest_completed_seq # NoSeq /\ d.seq <= latest_completed_seq
  \/ d.seq <= latest_seq

Stale(d) ==
  \/ latest_completed_seq # NoSeq /\ d.seq <= latest_completed_seq
  \/ AddWindow(d.seq) <= latest_seq

\* `seq + IN_FLIGHT_WINDOW` is reached unless the packet already completed.
OverflowPanics(d) ==
  /\ OverflowChecks
  /\ d.kind \in {"short", "fragment"}
  /\ d.seq > latest_completed_seq
  /\ AddOverflows(d.seq)

BadHeader(d) ==
  \/ d.kind = "short"
  \/ d.bytes = <<>>
  \/ d.frag_count = 0
  \/ d.frag_index >= d.frag_count

Ignored(d) == d.kind = "other_payload" \/ Stale(d) \/ BadHeader(d)

\* in_flight.entry(seq).or_insert_with(..), then the eviction a newer seq causes.
Entered(d) ==
  [s \in DOMAIN in_flight \cup {d.seq} |->
     IF s \in DOMAIN in_flight THEN in_flight[s] ELSE NewPacketState(d)]

LatestSeq(d) == IF d.seq > latest_seq THEN d.seq ELSE latest_seq

Admitted(d) ==
  IF d.seq > latest_seq THEN EvictOldPackets(Entered(d), d.seq) ELSE Entered(d)

HeaderMismatch(st, d) ==
  st.frag_count # d.frag_count \/ st.total_len # d.total_len

OutOfBounds(st, d) == FragEnd(d) > st.total_len

Duplicate_Unnoticed(st, d) == FALSE
Duplicate(st, d) == d.frag_index \in st.frag_received

Overlaps_SameStartOnly(st, d) ==
  \E r \in st.fragment_ranges : FragStart(d) = r[1]

Overlaps(st, d) ==
  \E r \in st.fragment_ranges : FragStart(d) < r[2] /\ r[1] < FragEnd(d)

Conflict(st, d) ==
  \/ HeaderMismatch(st, d)
  \/ OutOfBounds(st, d)
  \/ ~Duplicate(st, d) /\ Overlaps(st, d)

CopyFragment_NoRange(st, d) ==
  [st EXCEPT
     !.buf = [o \in DOMAIN st.buf |->
                IF o \in FragStart(d) .. FragEnd(d) - 1
                THEN d.bytes[o - FragStart(d) + 1] ELSE st.buf[o]],
     !.frag_received = @ \cup {d.frag_index},
     !.received_bytes = @ + Len(d.bytes)]

CopyFragment(st, d) ==
  [st EXCEPT
     !.buf = [o \in DOMAIN st.buf |->
                IF o \in FragStart(d) .. FragEnd(d) - 1
                THEN d.bytes[o - FragStart(d) + 1] ELSE st.buf[o]],
     !.frag_received = @ \cup {d.frag_index},
     !.fragment_ranges = @ \cup {<<FragStart(d), FragEnd(d)>>},
     !.received_bytes = @ + Len(d.bytes)]

AllReceived_OneMore(st) == st.frag_received = 0 .. st.frag_count
AllReceived(st) == st.frag_received = 0 .. st.frag_count - 1

-----------------------------------------------------------------------------
(* The outcomes of decode(d).                                              *)

\* A panic unwinds the task that owns the decoder: nothing decodes again.
Alive == decoded.tag # "panic"

\* RtpPacket::parse(..)? fails.
DecodeError(d) ==
  /\ Alive
  /\ d.kind = "garbage"
  /\ decoded' = Error
  /\ UNCHANGED <<in_flight, latest_seq, latest_completed_seq>>

DecodeIgnored(d) ==
  /\ Alive
  /\ d.kind # "garbage"
  /\ ~OverflowPanics(d)
  /\ Ignored(d)
  /\ decoded' = Nothing
  /\ UNCHANGED <<in_flight, latest_seq, latest_completed_seq>>

\* The datagram passes every early return and gets a place in in_flight.
Admits(d) ==
  /\ Alive
  /\ d.kind = "fragment"
  /\ ~OverflowPanics(d)
  /\ ~Ignored(d)

\* Arithmetic overflow in a debug build, or `.expect("state must exist")`.
DecodePanic(d) ==
  /\ Alive
  /\ OverflowPanics(d) \/ (Admits(d) /\ d.seq \notin DOMAIN Admitted(d))
  /\ decoded' = Panic
  /\ UNCHANGED <<in_flight, latest_seq, latest_completed_seq>>

\* Common frame of the outcomes past admission.
Assembles(d, packets, result) ==
  /\ Admits(d)
  /\ d.seq \in DOMAIN Admitted(d)
  /\ in_flight' = packets
  /\ latest_seq' = LatestSeq(d)
  /\ decoded' = result

DecodeConflict(d) ==
  /\ Assembles(d, Removed(Admitted(d), d.seq), Nothing)
  /\ Conflict(Admitted(d)[d.seq], d)
  /\ UNCHANGED latest_completed_seq

DecodeDuplicate(d) ==
  /\ Assembles(d, Admitted(d), Nothing)
  /\ ~Conflict(Admitted(d)[d.seq], d)
  /\ Duplicate(Admitted(d)[d.seq], d)
  /\ UNCHANGED latest_completed_seq

\* The fragment is new and fits: it is copied into the buffer.
Fits(d) ==
  /\ Admits(d)
  /\ d.seq \in DOMAIN Admitted(d)
  /\ ~Conflict(Admitted(d)[d.seq], d)
  /\ ~Duplicate(Admitted(d)[d.seq], d)

Copied(d) == CopyFragment(Admitted(d)[d.seq], d)

DecodeFragment(d) ==
  /\ Fits(d)
  /\ ~AllReceived(Copied(d))
  /\ Assembles(d, [Admitted(d) EXCEPT ![d.seq] = Copied(d)], Nothing)
  /\ UNCHANGED latest_completed_seq

DecodeShortfall_Kept(d) ==
  /\ Fits(d)
  /\ AllReceived(Copied(d))
  /\ Copied(d).received_bytes # Copied(d).total_len
  /\ Assembles(d, [Admitted(d) EXCEPT ![d.seq] = Copied(d)], Nothing)
  /\ UNCHANGED latest_completed_seq

DecodeShortfall(d) ==
  /\ Fits(d)
  /\ AllReceived(Copied(d))
  /\ Copied(d).received_bytes # Copied(d).total_len
  /\ Assembles(d, Removed(Admitted(d), d.seq), Nothing)
  /\ UNCHANGED latest_completed_seq

DecodeComplete_BytesUnchecked(d) ==
  /\ Fits(d)
  /\ AllReceived(Copied(d))
  /\ Assembles(d, DropOlderPackets(Removed(Admitted(d), d.seq), d.seq),
               Item(d.seq, Copied(d).buf))
  /\ latest_completed_seq' = d.seq

DecodeComplete(d) ==
  /\ Fits(d)
  /\ AllReceived(Copied(d))
  /\ Copied(d).received_bytes = Copied(d).total_len
  /\ Assembles(d, DropOlderPackets(Removed(Admitted(d), d.seq), d.seq),
               Item(d.seq, Copied(d).buf))
  /\ latest_completed_seq' = d.seq

Decode(d) ==
  \/ DecodeError(d)
  \/ DecodeIgnored(d)
  \/ DecodePanic(d)
  \/ DecodeConflict(d)
  \/ DecodeDuplicate(d)
  \/ DecodeFragment(d)
  \/ DecodeShortfall(d)
  \/ DecodeComplete(d)

DecoderInit ==
  /\ in_flight = <<>>
  /\ latest_seq = 0
  /\ latest_completed_seq = NoSeq
  /\ decoded = Nothing

DecoderNext == \E d \in Datagrams : Decode(d)

DecoderSpec == DecoderInit /\ [][DecoderNext]_decoderVars
-----------------------------------------------------------------------------
(* Correctness.                                                            *)

\* RtpMpegPacketState for a packet of n bytes.
PacketStates(n) ==
  [total_len : {n}, frag_count : Nat, buf : [0 .. n - 1 -> Byte \cup {Zeroed}],
   frag_received : SUBSET Nat, received_bytes : Nat,
   fragment_ranges : SUBSET (Nat \X Nat)]

\* The decoder's state and its last result are well formed.
DecoderTypeOK ==
  /\ DOMAIN in_flight \subseteq Seqs
  /\ \A s \in DOMAIN in_flight : /\ in_flight[s].total_len \in Nat
                             /\ in_flight[s] \in PacketStates(in_flight[s].total_len)
  /\ latest_seq \in Seqs
  /\ latest_completed_seq \in Seqs \cup {NoSeq}
  /\ decoded.tag \in {"none", "err", "panic", "item"}

\* The sequence numbers being assembled lie in the window that ends at
\* latest_seq and above the last completed one, whatever arrives and in
\* whatever order, also while numbers wrap: "How many in-flight MPEG packets we
\* keep" (rtp_mpeg.rs:10).
WindowInv ==
  /\ latest_completed_seq <= latest_seq
  /\ \A s \in DOMAIN in_flight :
       /\ latest_completed_seq < s
       /\ s <= latest_seq
       /\ latest_seq < s + InFlightWindow

\* The last IN_FLIGHT_WINDOW sequence numbers before a wrap are never assembled:
\* `seq + IN_FLIGHT_WINDOW` wraps, or panics, and the packet is dropped as too
\* old.  No other sum of the sweeps wraps, so WindowInv needs no modulus.
TailNeverAssembled ==
  \A s \in DOMAIN in_flight : s + InFlightWindow < SeqModulus

\* At most IN_FLIGHT_WINDOW packets hold a buffer at any time (the eviction in
\* `decode` is the only thing that bounds the client's memory).
InFlightBounded == Cardinality(DOMAIN in_flight) <= InFlightWindow

Written(st) == {o \in DOMAIN st.buf : st.buf[o] # Zeroed}

\* The bookkeeping of one packet agrees with its buffer: the written bytes are
\* exactly those the accepted ranges cover, and received_bytes counts them.
Accounted(st) ==
  /\ DOMAIN st.buf = 0 .. st.total_len - 1
  /\ \A o \in DOMAIN st.buf :
       o \in Written(st) <=> \E r \in st.fragment_ranges : r[1] <= o /\ o < r[2]
  /\ st.received_bytes = Cardinality(Written(st))

\* Every packet being assembled is accounted for, through duplicates, overlaps
\* and fragments in any order (rtp_mpeg.rs:208-237).
AssemblyInv == \A s \in DOMAIN in_flight : Accounted(in_flight[s])

\* A completed packet has no hole: every byte handed to the video decoder was
\* copied from a fragment, none is a zero the allocation left behind.
NoUnwrittenByte ==
  decoded.tag = "item" => \A o \in DOMAIN decoded.data : decoded.data[o] # Zeroed

\* A packet whose fragments are all marked received is gone from in_flight,
\* complete or not: kept, it would answer every later fragment as a duplicate.
FinishedLeaves ==
  \A s \in DOMAIN in_flight : ~AllReceived(in_flight[s])

\* Completed packets come out in strictly increasing sequence order, each once,
\* and the mark that enforces it never moves back.
CompletedInOrder ==
  [][ /\ latest_completed_seq <= latest_completed_seq'
      /\ decoded'.tag = "item" =>
           /\ latest_completed_seq < decoded'.seq
           /\ latest_completed_seq' = decoded'.seq ]_decoderVars
=============================================================================
