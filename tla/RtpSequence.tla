------------------------------ MODULE RtpSequence ------------------------------
(* The RTP sequence number, which names one MPEG packet to both ends of the    *)
(* stream: the server counts it up modulo SeqModulus, the client orders by it. *)
EXTENDS Integers

CONSTANT SeqModulus  \* 2^16: the sequence number is a u16

ASSUME SequenceAssumption == SeqModulus \in Nat \ {0}

Seqs == 0 .. SeqModulus - 1
=============================================================================
