-------------------------- MODULE UInputDeviceProofs --------------------------
(***************************************************************************)
(* The Linux device is only told the differences between input states, and *)
(* yet shows the last one, and its right stick never moves against the     *)
(* C-stick: for every set of keys, every size of the axes and every        *)
(* sequence of input states, writes that fail included.                    *)
(***************************************************************************)
EXTENDS UInputDevice, TLAPS

\* The calibration has at least the range of the first guess.
RangeOK(r) == r.lo \in Nat /\ r.hi \in Nat /\ r.lo <= 1500 /\ 2500 <= r.hi

Covers(r, v) == r.lo <= v /\ v <= r.hi

\* A position on a scale that takes the raw values of the range to the axis.
Scaled(r, v, p) == RangeOK(r) /\ Covers(r, v) /\ p = CStickAxis(r, v)

\* While no write failed the right stick shows the last position on the present scale.
StickInv ==
  /\ RangeOK(c_stick_range_x) /\ RangeOK(c_stick_range_y)
  /\ ~failed /\ last_input_state.c_stick # <<0, 0>> =>
       /\ Scaled(c_stick_range_x, last_input_state.c_stick[1], axis.RX)
       /\ Scaled(c_stick_range_y, last_input_state.c_stick[2], -axis.RY)

\* The inductive invariant.
DeviceInv ==
  /\ UInputTypeOK
  /\ EventsAddUp
  /\ NoStuckDirection
  /\ StickInv

-----------------------------------------------------------------------------
(* Scaling a stick.                                                        *)

\* Integer division rounds down.
LEMMA Quotient ==
  ASSUME NEW n \in Nat, NEW d \in Nat \ {0}
  PROVE  /\ n \div d \in Nat
         /\ (n \div d) * d <= n
         /\ n < (n \div d) * d + d
  OBVIOUS

\* A product is not smaller than a quotient times its divisor only if its factor is
\* not.
LEMMA FactorBound ==
  ASSUME NEW q \in Int, NEW k \in Int, NEW d \in Nat \ {0}, q * d < k * d + d
  PROVE  q <= k
<1>1. SUFFICES ASSUME q >= k + 1 PROVE FALSE
  OBVIOUS
<1>2. (q - (k + 1)) * d >= 0
  BY <1>1
<1>3. (q - (k + 1)) * d = q * d - k * d - d
  OBVIOUS
<1>4. PICK a, b \in Int : a = q * d /\ b = k * d
  OBVIOUS
<1> QED BY <1>2, <1>3, <1>4

\* Division keeps the order.
LEMMA DivisionKeepsOrder ==
  ASSUME NEW m \in Nat, NEW n \in Nat, NEW d \in Nat \ {0}, m <= n
  PROVE  m \div d <= n \div d
<1>1. PICK q, r \in Nat : q = m \div d /\ r = n \div d
  BY Quotient
<1>2. q * d <= m /\ n < r * d + d
  BY <1>1, Quotient
<1>3. q * d < r * d + d
  <2>1. PICK a, b \in Int : a = q * d /\ b = r * d
    OBVIOUS
  <2> QED BY <1>2, <2>1
<1> QED BY <1>1, <1>3, FactorBound

\* Truncation toward zero keeps the order.
LEMMA TruncateKeepsOrder ==
  ASSUME NEW m \in Int, NEW n \in Int, NEW d \in Nat \ {0}, m <= n
  PROVE  /\ Truncate(m, d) \in Int /\ Truncate(n, d) \in Int
         /\ Truncate(m, d) <= Truncate(n, d)
<1>1. ASSUME NEW i \in Int
      PROVE  /\ Truncate(i, d) \in Int
             /\ i >= 0 => Truncate(i, d) = i \div d /\ Truncate(i, d) \in Nat
             /\ ~(i >= 0) => Truncate(i, d) = -((-i) \div d) /\ (-i) \div d \in Nat
  <2>1. CASE i >= 0
    <3>1. i \in Nat
      BY <2>1
    <3>2. i \div d \in Nat
      BY <3>1, Quotient
    <3> QED BY <2>1, <3>2 DEF Truncate
  <2>2. CASE ~(i >= 0)
    <3>1. -i \in Nat
      BY <2>2
    <3>2. (-i) \div d \in Nat
      BY <3>1, Quotient
    <3> QED BY <2>2, <3>2 DEF Truncate
  <2> QED BY <2>1, <2>2
<1>2. CASE m >= 0
  <2>1. m \in Nat /\ n \in Nat /\ n >= 0
    BY <1>2
  <2> QED BY <1>1, <1>2, <2>1, DivisionKeepsOrder
<1>3. CASE ~(m >= 0) /\ n >= 0
  <2>1. PICK a, b \in Nat : Truncate(m, d) = -a /\ Truncate(n, d) = b
    BY <1>1, <1>3
  <2> QED BY <2>1
<1>4. CASE ~(m >= 0) /\ ~(n >= 0)
  <2>1. -n \in Nat /\ -m \in Nat /\ -n <= -m
    BY <1>4
  <2>2. PICK a, b \in Nat : a = (-n) \div d /\ b = (-m) \div d
    BY <1>1, <1>4
  <2>3. a <= b
    BY <2>1, <2>2, DivisionKeepsOrder
  <2>4. Truncate(m, d) = -b /\ Truncate(n, d) = -a
    BY <1>1, <1>4, <2>2
  <2> QED BY <2>3, <2>4
<1> QED BY <1>2, <1>3, <1>4

\* The ends of the range go to the ends of the axis.
LEMMA TruncateEnds ==
  ASSUME NEW k \in Nat \ {0}, NEW d \in Nat \ {0}
  PROVE  Truncate(d * k, d) = k /\ Truncate(-(d * k), d) = -k
<1>1. PICK n \in Nat : n = d * k /\ n > 0
  <2>1. d * k \in Nat /\ d * k > 0
    OBVIOUS
  <2> QED BY <2>1
<1>2. PICK q \in Nat : q = n \div d
  BY Quotient
<1>3. q * d <= n /\ n < q * d + d
  BY <1>2, Quotient
<1>4. q = k
  <2>1. k * d = n /\ n < n + d
    BY <1>1
  <2>2. PICK a \in Int : a = q * d
    OBVIOUS
  <2>3. q * d < k * d + d /\ k * d < q * d + d
    BY <1>3, <2>1, <2>2
  <2> QED BY <2>3, FactorBound
<1>5. Truncate(n, d) = k /\ Truncate(-n, d) = -k
  <2>1. n >= 0 /\ ~(-n >= 0) /\ -(-n) = n
    BY <1>1
  <2> QED BY <1>2, <1>4, <2>1 DEF Truncate
<1> QED BY <1>1, <1>5

\* What CStickAxis divides.
Numerator(r, v) == (2 * (v - r.lo) - (r.hi - r.lo)) * AxisLimit

\* It grows with the raw value, between the ends of the range.
LEMMA Numerators ==
  ASSUME NEW r, RangeOK(r), NEW v \in Nat, Covers(r, v)
  PROVE  /\ r.hi - r.lo \in Nat \ {0} /\ Numerator(r, v) \in Int
         /\ -((r.hi - r.lo) * AxisLimit) <= Numerator(r, v)
         /\ Numerator(r, v) <= (r.hi - r.lo) * AxisLimit
         /\ (r.hi - r.lo) * AxisLimit \in Int
         /\ v = r.hi => Numerator(r, v) = (r.hi - r.lo) * AxisLimit
         /\ v = r.lo => Numerator(r, v) = -((r.hi - r.lo) * AxisLimit)
         /\ \A w \in Nat : v <= w => Numerator(r, v) <= Numerator(r, w)
<1>0. AxisLimit \in Nat
  BY GamepadAssumption
<1>1. PICK lo, hi \in Nat : lo = r.lo /\ hi = r.hi /\ lo <= v /\ v <= hi /\ lo < hi
  BY DEF RangeOK, Covers
<1>2. PICK d \in Nat \ {0} : d = hi - lo
  BY <1>1
<1>3. ASSUME NEW a \in Int, NEW b \in Int, a <= b PROVE a * AxisLimit <= b * AxisLimit
  <2>1. (b - a) * AxisLimit >= 0
    BY <1>0, <1>3
  <2>2. (b - a) * AxisLimit = b * AxisLimit - a * AxisLimit
    BY <1>0
  <2>3. a * AxisLimit \in Int /\ b * AxisLimit \in Int
    BY <1>0
  <2> HIDE <1>3
  <2> QED BY <2>1, <2>2, <2>3
<1>4. PICK x \in Int : x = 2 * (v - lo) - d /\ Numerator(r, v) = x * AxisLimit
  BY <1>1, <1>2 DEF Numerator
<1>5. -d <= x /\ x <= d /\ (v = hi => x = d) /\ (v = lo => x = -d)
  BY <1>1, <1>2, <1>4
<1>6. (-d) * AxisLimit = -(d * AxisLimit) /\ d * AxisLimit \in Int /\ x * AxisLimit \in Int
  BY <1>0
<1>7. (-d) * AxisLimit <= x * AxisLimit /\ x * AxisLimit <= d * AxisLimit
  BY <1>3, <1>5
<1>8. ASSUME NEW w \in Nat, v <= w PROVE Numerator(r, v) <= Numerator(r, w)
  <2>1. PICK y \in Int : y = 2 * (w - lo) - d /\ Numerator(r, w) = y * AxisLimit
    BY <1>1, <1>2 DEF Numerator
  <2>2. x <= y
    BY <1>1, <1>2, <1>4, <1>8, <2>1
  <2> QED BY <1>3, <1>4, <2>1, <2>2
<1> QED BY <1>1, <1>2, <1>4, <1>5, <1>6, <1>7, <1>8

\* A raw value inside the range is shown between the limits of the axis.
LEMMA StickOnAxis ==
  ASSUME NEW r, RangeOK(r), NEW v \in Nat, Covers(r, v)
  PROVE  CStickAxis(r, v) \in OnAxis
<1>1. PICK d \in Nat \ {0}, n \in Int, m \in Nat :
         /\ d = r.hi - r.lo /\ n = Numerator(r, v) /\ m = d * AxisLimit
         /\ -m <= n /\ n <= m
  <2>1. (r.hi - r.lo) * AxisLimit \in Nat
    BY Numerators, GamepadAssumption
  <2> QED BY <2>1, Numerators
<1>2. CStickAxis(r, v) = Truncate(n, d)
  BY <1>1 DEF CStickAxis, Numerator
<1>3. Truncate(m, d) = AxisLimit /\ Truncate(-m, d) = -AxisLimit
  BY <1>1, TruncateEnds, GamepadAssumption
<1>4. Truncate(n, d) \in Int /\ Truncate(n, d) <= AxisLimit
  BY <1>1, <1>3, TruncateKeepsOrder
<1>5. -AxisLimit <= Truncate(n, d)
  <2>1. -m \in Int
    BY <1>1
  <2> QED BY <1>1, <1>3, <2>1, TruncateKeepsOrder
<1> QED BY <1>2, <1>4, <1>5, GamepadAssumption DEF OnAxis

\* The ends of a range are shown at the limits.
LEMMA StickEnds ==
  ASSUME NEW r, RangeOK(r)
  PROVE  CStickAxis(r, r.hi) = AxisLimit /\ CStickAxis(r, r.lo) = -AxisLimit
<1>1. PICK d \in Nat \ {0} : d = r.hi - r.lo
  BY DEF RangeOK
<1>2. r.lo \in Nat /\ r.hi \in Nat /\ Covers(r, r.lo) /\ Covers(r, r.hi)
  BY DEF RangeOK, Covers
<1>3. Numerator(r, r.hi) = d * AxisLimit /\ Numerator(r, r.lo) = -(d * AxisLimit)
  BY <1>1, <1>2, Numerators
<1> QED BY <1>1, <1>3, TruncateEnds, GamepadAssumption DEF CStickAxis, Numerator

\* On one scale, a larger raw value is not shown lower.
LEMMA StickKeepsOrder ==
  ASSUME NEW r, RangeOK(r), NEW v \in Nat, NEW w \in Nat, Covers(r, v), Covers(r, w),
         v <= w
  PROVE  CStickAxis(r, v) <= CStickAxis(r, w)
<1>1. PICK d \in Nat \ {0}, m, n \in Int :
         d = r.hi - r.lo /\ m = Numerator(r, v) /\ n = Numerator(r, w) /\ m <= n
  BY Numerators
<1>2. Truncate(m, d) <= Truncate(n, d)
  BY <1>1, TruncateKeepsOrder
<1> QED BY <1>1, <1>2 DEF CStickAxis, Numerator

\* Whatever value is reported, the widened range covers it, and the axis moves the way
\* the stick does or stays: a value outside the old range is shown at a limit.
LEMMA StickMoves ==
  ASSUME NEW r, NEW v \in Nat, NEW p, Scaled(r, v, p), NEW w \in Nat,
         NEW r2, r2 = Widened(r, w)
  PROVE  Scaled(r2, w, CStickAxis(r2, w)) /\ SameWay(v, w, p, CStickAxis(r2, w))
<1> USE DEF Scaled
<1>1. RangeOK(r2) /\ Covers(r2, w)
  BY DEF RangeOK, Covers, Widened
<1>2. p = CStickAxis(r, v) /\ p \in OnAxis /\ AxisLimit \in Nat
  BY StickOnAxis, GamepadAssumption
<1>3. CASE Covers(r, w)
  <2>1. CStickAxis(r2, w) = CStickAxis(r, w)
    <3>1. r2.lo = r.lo /\ r2.hi = r.hi
      BY <1>3 DEF Widened, Covers, RangeOK
    <3> QED BY <3>1 DEF CStickAxis
  <2> QED BY <1>1, <1>2, <1>3, <2>1, StickKeepsOrder DEF SameWay
<1>4. CASE w > r.hi
  <2>1. r2.hi = w /\ v <= w /\ ~(w <= v)
    BY <1>4 DEF Widened, Covers, RangeOK
  <2>2. CStickAxis(r2, w) = AxisLimit
    BY <1>1, <2>1, StickEnds
  <2> QED BY <1>1, <1>2, <2>1, <2>2 DEF SameWay, OnAxis
<1>5. CASE w < r.lo
  <2>1. r2.lo = w /\ w <= v /\ ~(v <= w)
    BY <1>5 DEF Widened, Covers, RangeOK
  <2>2. CStickAxis(r2, w) = -AxisLimit
    BY <1>1, <2>1, StickEnds
  <2> QED BY <1>1, <1>2, <2>1, <2>2 DEF SameWay, OnAxis
<1> QED BY <1>3, <1>4, <1>5 DEF Covers, RangeOK

\* The first value reported is covered by its range, too.
LEMMA WidenedCovers ==
  ASSUME NEW r, RangeOK(r), NEW w \in Nat
  PROVE  RangeOK(Widened(r, w)) /\ Covers(Widened(r, w), w)
  BY DEF RangeOK, Covers, Widened

-----------------------------------------------------------------------------
(* The invariant.                                                          *)

\* The circle pad's position is a whole number.
LEMMA CpadAxisInteger == ASSUME NEW v \in Int PROVE CpadAxis(v) \in Int
<1>1. PICK n \in Int : n = v * AxisLimit
  BY GamepadAssumption
<1>2. Truncate(n, CpadLimit) \in Int
  BY TruncateKeepsOrder, GamepadAssumption
<1> QED BY <1>1, <1>2 DEF CpadAxis

\* Before the first input nothing is pressed and every axis is centred.
LEMMA InitDeviceInv == UInputInit => DeviceInv
<1> SUFFICES ASSUME UInputInit PROVE DeviceInv
  OBVIOUS
<1> USE DEF UInputInit, Released
<1>1. UInputTypeOK
  <2>1. last_input_state \in InputState
    BY DEF InputState
  <2>2. 0 \in OnAxis
    BY GamepadAssumption DEF OnAxis
  <2>3. /\ axis.Hat0X = 0 /\ axis.Hat0Y = 0 /\ axis.RX = 0 /\ axis.RY = 0
        /\ axis \in [{"X", "Y", "RX", "RY", "Hat0X", "Hat0Y"} -> Int]
    OBVIOUS
  <2>4. pressed \subseteq Keys \ Dpad /\ failed \in BOOLEAN
    OBVIOUS
  <2>5. axis.Hat0X \in -1 .. 1 /\ axis.Hat0Y \in -1 .. 1
    BY <2>3
  <2>6. axis.RX \in OnAxis /\ axis.RY \in OnAxis
    BY <2>2, <2>3
  <2> HIDE DEF UInputInit
  <2> QED BY <2>1, <2>3, <2>4, <2>5, <2>6 DEF UInputTypeOK
<1>2. CpadAxis(0) = 0
  BY GamepadAssumption DEF CpadAxis, Truncate
<1>3. EventsAddUp
  BY <1>2 DEF EventsAddUp
<1>4. NoStuckDirection
  BY DEF NoStuckDirection
<1>5. StickInv
  BY DEF StickInv, RangeOK, InitialRange
<1> QED
  BY <1>1, <1>3, <1>4, <1>5 DEF DeviceInv

\* After the events of a hat axis it points a way only where that key is held.
LEMMA HatFollowsKeys ==
  ASSUME NEW value, NEW negative, NEW positive, NEW input,
         value = -1 => negative \in last_input_state.key_pad,
         value = 1 => positive \in last_input_state.key_pad
  PROVE  /\ HatAfter(value, negative, positive, input) = -1 =>
              negative \in input.key_pad
         /\ HatAfter(value, negative, positive, input) = 1 =>
              positive \in input.key_pad
  BY DEF HatAfter, DpadEvent

\* What an input state does to each axis.
LEMMA EmitAxes ==
  ASSUME UInputTypeOK, NEW input \in InputState, EmitInput(input)
  PROVE  /\ axis' = [a \in {"X", "Y", "RX", "RY", "Hat0X", "Hat0Y"} |-> axis'[a]]
         /\ axis'.Hat0Y = HatAfter(axis.Hat0Y, "UP", "DOWN", input)
         /\ axis'.Hat0X = HatAfter(axis.Hat0X, "LEFT", "RIGHT", input)
         /\ IF input.circle_pad = last_input_state.circle_pad
            THEN axis'.X = axis.X /\ axis'.Y = axis.Y
            ELSE /\ axis'.X = CpadAxis(input.circle_pad[1])
                 /\ axis'.Y = -CpadAxis(input.circle_pad[2])
         /\ IF input.c_stick = last_input_state.c_stick
            THEN axis'.RX = axis.RX /\ axis'.RY = axis.RY
            ELSE /\ axis'.RX = CStickAxis(c_stick_range_x', input.c_stick[1])
                 /\ axis'.RY = -CStickAxis(c_stick_range_y', input.c_stick[2])
<1>1. axis' = AxisAfter(input)
  BY DEF EmitInput
<1>2. axis = [a \in {"X", "Y", "RX", "RY", "Hat0X", "Hat0Y"} |-> axis[a]]
  BY DEF UInputTypeOK
<1> QED
  BY <1>1, <1>2 DEF AxisAfter

\* Adjusting the calibration leaves ranges of at least the first guess, and where the
\* C-stick moved it covers the position it moved to.
LEMMA CalibrateRanges ==
  ASSUME StickInv, NEW input \in InputState, Calibrate(input)
  PROVE  /\ RangeOK(c_stick_range_x') /\ RangeOK(c_stick_range_y')
         /\ IF input.c_stick = last_input_state.c_stick
            THEN UNCHANGED <<c_stick_range_x, c_stick_range_y>>
            ELSE /\ c_stick_range_x' = Widened(c_stick_range_x, input.c_stick[1])
                 /\ c_stick_range_y' = Widened(c_stick_range_y, input.c_stick[2])
                 /\ Covers(c_stick_range_x', input.c_stick[1])
                 /\ Covers(c_stick_range_y', input.c_stick[2])
<1>1. input.c_stick[1] \in Nat /\ input.c_stick[2] \in Nat
  BY DEF InputState
<1>2. RangeOK(c_stick_range_x) /\ RangeOK(c_stick_range_y)
  BY DEF StickInv
<1> QED
  BY <1>1, <1>2, WidenedCovers DEF Calibrate

\* A reported position is on its scale.
LEMMA StickScaled ==
  ASSUME DeviceInv, NEW input \in InputState, EmitInput(input)
  PROVE  /\ StickInv'
         /\ input.c_stick # last_input_state.c_stick =>
              axis'.RX \in OnAxis /\ axis'.RY \in OnAxis
<1>1. UInputTypeOK /\ StickInv /\ Calibrate(input) /\ last_input_state' = input
  BY DEF DeviceInv, EmitInput
<1>2. RangeOK(c_stick_range_x') /\ RangeOK(c_stick_range_y')
  BY <1>1, CalibrateRanges
<1>3. CASE input.c_stick = last_input_state.c_stick
  <2>1. UNCHANGED <<c_stick_range_x, c_stick_range_y>>
    BY <1>1, <1>3, CalibrateRanges
  <2>2. axis'.RX = axis.RX /\ axis'.RY = axis.RY
    BY <1>1, <1>3, EmitAxes
  <2>3. ~failed
    BY DEF EmitInput
  <2> QED
    BY <1>1, <1>2, <1>3, <2>1, <2>2, <2>3 DEF StickInv
<1>4. CASE input.c_stick # last_input_state.c_stick
  <2>1. /\ axis'.RX = CStickAxis(c_stick_range_x', input.c_stick[1])
        /\ axis'.RY = -CStickAxis(c_stick_range_y', input.c_stick[2])
    BY <1>1, <1>4, EmitAxes
  <2>2. /\ Covers(c_stick_range_x', input.c_stick[1])
        /\ Covers(c_stick_range_y', input.c_stick[2])
    BY <1>1, <1>4, CalibrateRanges
  <2>3. input.c_stick[1] \in Nat /\ input.c_stick[2] \in Nat
    BY DEF InputState
  <2>4. /\ CStickAxis(c_stick_range_x', input.c_stick[1]) \in OnAxis
        /\ CStickAxis(c_stick_range_y', input.c_stick[2]) \in OnAxis
    BY <1>2, <2>2, <2>3, StickOnAxis
  <2>5. axis'.RX \in OnAxis /\ axis'.RY \in OnAxis
        /\ -axis'.RY = CStickAxis(c_stick_range_y', input.c_stick[2])
    BY <2>1, <2>4, GamepadAssumption DEF OnAxis
  <2> QED
    BY <1>1, <1>2, <1>4, <2>1, <2>2, <2>5 DEF StickInv, Scaled
<1> QED
  BY <1>3, <1>4

\* An input state leaves the device showing it.
LEMMA EmitDeviceInv ==
  ASSUME DeviceInv, NEW input \in InputState, EmitInput(input)
  PROVE  DeviceInv'
<1>0. UInputTypeOK /\ EventsAddUp /\ NoStuckDirection
  BY DEF DeviceInv
<1>1. last_input_state' = input /\ pressed' = PressedAfter(input)
  BY DEF EmitInput
<1>2. pressed' = input.key_pad \ Dpad
  BY <1>0, <1>1 DEF PressedAfter, EventsAddUp
<1>3. axis'.X = CpadAxis(input.circle_pad[1]) /\ axis'.Y = -CpadAxis(input.circle_pad[2])
  BY <1>0, EmitAxes DEF EventsAddUp
<1>4. /\ axis'.Hat0Y = HatAfter(axis.Hat0Y, "UP", "DOWN", input)
      /\ axis'.Hat0X = HatAfter(axis.Hat0X, "LEFT", "RIGHT", input)
  BY <1>0, EmitAxes
<1>5. NoStuckDirection'
  BY <1>0, <1>1, <1>4, HatFollowsKeys DEF NoStuckDirection
<1>6. StickInv'
  BY StickScaled
<1>7. UInputTypeOK'
  <2>1. axis'.Hat0Y \in -1 .. 1 /\ axis'.Hat0X \in -1 .. 1
    BY <1>0, <1>4 DEF HatAfter, DpadEvent, UInputTypeOK
  <2>2. axis'.RX \in OnAxis /\ axis'.RY \in OnAxis
    BY <1>0, EmitAxes, StickScaled DEF UInputTypeOK
  <2>3. axis'.X \in Int /\ axis'.Y \in Int
    <3>1. input.circle_pad[1] \in Int /\ input.circle_pad[2] \in Int
      BY DEF InputState
    <3>2. PICK x, y \in Int : axis'.X = x /\ axis'.Y = -y
      BY <1>3, <3>1, CpadAxisInteger
    <3> QED BY <3>2
  <2>4. axis'.RX \in Int /\ axis'.RY \in Int
    BY <2>2 DEF OnAxis
  <2>5. axis'.Hat0X \in Int /\ axis'.Hat0Y \in Int
    BY <2>1
  <2>6. axis' \in [{"X", "Y", "RX", "RY", "Hat0X", "Hat0Y"} -> Int]
    BY <1>0, <2>3, <2>4, <2>5, EmitAxes
  <2>7. pressed' \subseteq Keys \ Dpad
    BY <1>2 DEF InputState
  <2>8. failed' \in BOOLEAN
    BY <1>0 DEF EmitInput, UInputTypeOK
  <2> QED
    BY <1>1, <2>1, <2>2, <2>6, <2>7, <2>8 DEF UInputTypeOK
<1> QED
  BY <1>1, <1>2, <1>3, <1>5, <1>6, <1>7 DEF DeviceInv, EventsAddUp

\* A failed write may widen the calibration; nothing that is shown changes.
LEMMA FailDeviceInv ==
  ASSUME DeviceInv, NEW input \in InputState, EmitFails(input)
  PROVE  DeviceInv'
<1>1. UNCHANGED <<last_input_state, pressed, axis>> /\ failed' = TRUE
  BY DEF EmitFails
<1>2. RangeOK(c_stick_range_x') /\ RangeOK(c_stick_range_y')
  BY CalibrateRanges DEF EmitFails, DeviceInv
<1>3. StickInv'
  BY <1>1, <1>2 DEF StickInv
<1> QED
  BY <1>1, <1>3 DEF DeviceInv, UInputTypeOK, EventsAddUp, NoStuckDirection

\* Every step keeps the invariant.
LEMMA NextDeviceInv == DeviceInv /\ [UInputNext]_uinputVars => DeviceInv'
<1> SUFFICES ASSUME DeviceInv, [UInputNext]_uinputVars PROVE DeviceInv'
  OBVIOUS
<1>1. ASSUME NEW input \in Inputs, EmitInput(input) PROVE DeviceInv'
  BY <1>1, EmitDeviceInv, GamepadAssumption
<1>2. ASSUME NEW input \in Inputs, EmitFails(input) PROVE DeviceInv'
  BY <1>2, FailDeviceInv, GamepadAssumption
<1>3. CASE UNCHANGED uinputVars
  BY <1>3 DEF uinputVars, DeviceInv, UInputTypeOK, EventsAddUp, NoStuckDirection,
              StickInv
<1> QED
  BY <1>1, <1>2, <1>3 DEF UInputNext

-----------------------------------------------------------------------------
\* The inductive invariant of the device holds in every reachable state.
THEOREM DeviceInvariance == UInputSpec => []DeviceInv
  BY InitDeviceInv, NextDeviceInv, PTL DEF UInputSpec

\* The device is well formed: the calibration's subtractions never wrap, its range is
\* never empty, and the right stick stays between the limits the device declares,
\* whatever raw values are reported.
THEOREM DeviceWellFormed == UInputSpec => []UInputTypeOK
<1>1. DeviceInv => UInputTypeOK
  BY DEF DeviceInv
<1> QED
  BY <1>1, DeviceInvariance, PTL

\* The buttons and the circle pad add up from differences.
THEOREM DifferencesAddUp == UInputSpec => []EventsAddUp
<1>1. DeviceInv => EventsAddUp
  BY DEF DeviceInv
<1> QED
  BY <1>1, DeviceInvariance, PTL

\* No direction of the D-pad sticks.
THEOREM DirectionsReleased == UInputSpec => []NoStuckDirection
<1>1. DeviceInv => NoStuckDirection
  BY DEF DeviceInv
<1> QED
  BY <1>1, DeviceInvariance, PTL

\* Two equal positions are in the same way of each other.
LEMMA StandsStill == ASSUME NEW v \in Int, NEW p \in Int PROVE SameWay(v, v, p, p)
  BY DEF SameWay

\* A step that moves the C-stick does not move the right stick against it.
LEMMA StickStep ==
  ASSUME DeviceInv, UInputNext, last_input_state.c_stick # <<0, 0>>
  PROVE  /\ SameWay(last_input_state.c_stick[1], last_input_state'.c_stick[1],
                    axis.RX, axis'.RX)
         /\ SameWay(last_input_state'.c_stick[2], last_input_state.c_stick[2],
                    axis.RY, axis'.RY)
<1> DEFINE now == last_input_state.c_stick
<1>1. UInputTypeOK /\ StickInv
  BY DEF DeviceInv
<1>2. now[1] \in Nat /\ now[2] \in Nat /\ axis.RX \in Int /\ axis.RY \in Int
  BY <1>1 DEF UInputTypeOK, InputState
<1>3. ASSUME now' = now, axis'.RX = axis.RX, axis'.RY = axis.RY
      PROVE  /\ SameWay(now[1], now'[1], axis.RX, axis'.RX)
             /\ SameWay(now'[2], now[2], axis.RY, axis'.RY)
  BY <1>2, <1>3, StandsStill
<1>4. ASSUME NEW input \in Inputs, EmitFails(input)
      PROVE  now' = now /\ axis'.RX = axis.RX /\ axis'.RY = axis.RY
  BY <1>4 DEF EmitFails
<1>5. ASSUME NEW input \in Inputs, EmitInput(input), input.c_stick = now
      PROVE  now' = now /\ axis'.RX = axis.RX /\ axis'.RY = axis.RY
  BY <1>1, <1>5, EmitAxes, GamepadAssumption DEF EmitInput
<1>6. ASSUME NEW input \in Inputs, EmitInput(input), input.c_stick # now
      PROVE  /\ SameWay(now[1], now'[1], axis.RX, axis'.RX)
             /\ SameWay(now'[2], now[2], axis.RY, axis'.RY)
  <2>1. input \in InputState
    BY <1>6, GamepadAssumption
  <2>2. now' = input.c_stick /\ ~failed /\ Calibrate(input)
    BY <1>6 DEF EmitInput
  <2>3. input.c_stick[1] \in Nat /\ input.c_stick[2] \in Nat
    BY <2>1 DEF InputState
  <2>4. /\ Scaled(c_stick_range_x, now[1], axis.RX)
        /\ Scaled(c_stick_range_y, now[2], -axis.RY)
    BY <1>1, <2>2 DEF StickInv
  <2>5. /\ c_stick_range_x' = Widened(c_stick_range_x, input.c_stick[1])
        /\ c_stick_range_y' = Widened(c_stick_range_y, input.c_stick[2])
    BY <1>1, <1>6, <2>1, <2>2, CalibrateRanges
  <2>6. /\ axis'.RX = CStickAxis(c_stick_range_x', input.c_stick[1])
        /\ axis'.RY = -CStickAxis(c_stick_range_y', input.c_stick[2])
    BY <1>1, <1>6, <2>1, EmitAxes
  <2>7. SameWay(now[1], now'[1], axis.RX, axis'.RX)
    BY <1>2, <2>2, <2>3, <2>4, <2>5, <2>6, StickMoves
  <2>8. PICK c \in Int : /\ c = CStickAxis(c_stick_range_y', input.c_stick[2])
                         /\ SameWay(now[2], input.c_stick[2], -axis.RY, c)
    <3>1. /\ Scaled(c_stick_range_y', input.c_stick[2],
                    CStickAxis(c_stick_range_y', input.c_stick[2]))
          /\ SameWay(now[2], input.c_stick[2], -axis.RY,
                     CStickAxis(c_stick_range_y', input.c_stick[2]))
      BY <1>2, <2>3, <2>4, <2>5, StickMoves
    <3>2. CStickAxis(c_stick_range_y', input.c_stick[2]) \in OnAxis
      BY <2>3, <3>1, StickOnAxis DEF Scaled
    <3> QED BY <3>1, <3>2, GamepadAssumption DEF OnAxis
  <2>9. SameWay(now'[2], now[2], axis.RY, axis'.RY)
    BY <1>2, <2>2, <2>6, <2>8 DEF SameWay
  <2> QED BY <2>7, <2>9
<1> QED
  BY <1>3, <1>4, <1>5, <1>6 DEF UInputNext

\* The right stick of the device never moves against the C-stick, also in the steps
\* that recalibrate it.
THEOREM RightStickFollows == UInputSpec => CStickMovesAxis
<1>1. DeviceInv /\ [UInputNext]_uinputVars =>
        [last_input_state.c_stick # <<0, 0>> =>
           /\ SameWay(last_input_state.c_stick[1], last_input_state'.c_stick[1],
                      axis.RX, axis'.RX)
           /\ SameWay(last_input_state'.c_stick[2], last_input_state.c_stick[2],
                      axis.RY, axis'.RY)]_uinputVars
  BY StickStep
<1> QED
  BY <1>1, DeviceInvariance, PTL DEF UInputSpec, CStickMovesAxis
=============================================================================
