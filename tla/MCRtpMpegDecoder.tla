--------------------------- MODULE MCRtpMpegDecoder ---------------------------
(* A small universe of datagrams for RtpMpegDecoder: every header a sender or *)
(* a corruption could produce over packets of up to MaxLen bytes, one byte    *)
(* value, and one representative of each kind `decode` never looks into.      *)
EXTENDS RtpMpegDecoder

CONSTANTS
  MaxLen,     \* longest packet, and longest payload of a datagram
  Lengths,    \* total_len of a header
  FragCounts  \* frag_count of a header

Plain(kind, s) ==
  [kind |-> kind, seq |-> s, total_len |-> 1, frag_index |-> 0,
   frag_count |-> 1, frag_offset |-> 0, bytes |-> <<>>]

Fragments ==
  {f \in [kind : {"fragment"}, seq : 0 .. SeqModulus - 1, total_len : Lengths,
          frag_index : 0 .. MaxLen - 1, frag_count : FragCounts,
          frag_offset : 0 .. MaxLen - 1,
          bytes : UNION {[1 .. n -> Byte] : n \in 1 .. MaxLen}] :
     f.frag_index < f.frag_count}

\* frag_count = 0 and frag_index >= frag_count, once each per sequence number.
BadHeaders ==
  {[Plain("fragment", s) EXCEPT !.bytes = <<CHOOSE b \in Byte : TRUE>>,
                                !.frag_index = 1, !.frag_count = n] :
     s \in 0 .. SeqModulus - 1, n \in {0, 1}}

MCDatagrams ==
  Fragments \cup BadHeaders
    \cup {Plain("garbage", 0), Plain("other_payload", 0)}
    \cup {Plain("short", s) : s \in 0 .. SeqModulus - 1}
=============================================================================
