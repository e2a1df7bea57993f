-------------------------------- MODULE Gamepad --------------------------------
(***************************************************************************)
(* What the two virtual devices (linux.rs, windows.rs) share: the client's *)
(* input states and the scaling of its sticks.  The code scales with f32   *)
(* and truncates; here the quotient is exact, and truncated toward zero.   *)
(*                                                                         *)
(* A definition named X_<mistake> is X with a plausible mistake, used only *)
(* by the mutation runs.                                                   *)
(***************************************************************************)
EXTENDS Integers

CONSTANTS
  AxisLimit,  \* 32767: PRO_CONTROLLER_AXES_LIMIT, i16::MAX
  CpadLimit,  \* 156: N3DS_CPAD_AXES_LIMIT
  Keys,       \* the keys of a KeyPad
  Inputs      \* the input states the device may be given

\* InputState: the keys held, and the raw position of the two sticks.
InputState ==
  [key_pad : SUBSET Keys, circle_pad : Int \X Int, c_stick : Nat \X Nat]

Released == [key_pad |-> {}, circle_pad |-> <<0, 0>>, c_stick |-> <<0, 0>>]

ASSUME GamepadAssumption ==
  /\ AxisLimit \in Nat \ {0}
  /\ CpadLimit \in Nat \ {0}
  /\ {"UP", "DOWN", "LEFT", "RIGHT", "ZL", "ZR"} \subseteq Keys
  /\ Inputs \subseteq InputState

Truncate(n, d) == IF n >= 0 THEN n \div d ELSE -((-n) \div d)

CpadAxis(v) == Truncate(v * AxisLimit, CpadLimit)

\* The raw values seen so far; these are the initial guesses.
InitialRange == [lo |-> 1500, hi |-> 2500]

Widened_Upwards(range, v) ==
  [lo |-> range.lo, hi |-> IF v > range.hi THEN v ELSE range.hi]

Widened(range, v) ==
  [lo |-> IF v < range.lo THEN v ELSE range.lo,
   hi |-> IF v > range.hi THEN v ELSE range.hi]

CStickAxis(range, v) ==
  Truncate((2 * (v - range.lo) - (range.hi - range.lo)) * AxisLimit,
           range.hi - range.lo)

OnAxis == -AxisLimit .. AxisLimit

\* A stick that moves from v to w takes its axis from p to q: not the other way.
SameWay(v, w, p, q) == (v <= w => p <= q) /\ (w <= v => q <= p)
=============================================================================
