------------------------------ MODULE LossyStream ------------------------------
(* What the video path promises: the encoder numbers packets 1, 2, ..., and the *)
(* client's video decoder is given some of them, whole, in that order, none of  *)
(* them twice.                                                                  *)
EXTENDS Integers, Sequences

VARIABLES
  produced,  \* packets the encoder has returned
  shown      \* the numbers of the packets given to the video decoder, in order

LastShown == IF shown = <<>> THEN 0 ELSE shown[Len(shown)]

Produce ==
  /\ produced' > produced
  /\ UNCHANGED shown

Show ==
  /\ shown' # shown
  /\ \E n \in LastShown + 1 .. produced : shown' = Append(shown, n)
  /\ UNCHANGED produced

LossyInit == produced = 0 /\ shown = <<>>

LossySpec == LossyInit /\ [][Produce \/ Show]_<<produced, shown>>
=============================================================================
