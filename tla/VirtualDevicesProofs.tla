------------------------- MODULE VirtualDevicesProofs -------------------------
(***************************************************************************)
(* What is proved of the Linux device holds of the device a server picks,  *)
(* and the right stick of the Windows device never moves against the       *)
(* C-stick: for every size of the axes, every set of keys and every        *)
(* sequence of input states and failures.                                  *)
(***************************************************************************)
EXTENDS VirtualDevices, UInputDeviceProofs

deviceVars == <<platform, uinputVars, vigemVars>>

\* After a report, and while none failed, the right stick shows the last position on
\* the present scale.
ThumbInv ==
  /\ RangeOK(vigem_range_x) /\ RangeOK(vigem_range_y)
  /\ vigem_input_state \in InputState
  /\ gamepad.thumb_rx \in OnAxis /\ gamepad.thumb_ry \in OnAxis
  /\ ~vigem_failed /\ gamepad # W!AtRest =>
       /\ Scaled(vigem_range_x, vigem_input_state.c_stick[1], gamepad.thumb_rx)
       /\ Scaled(vigem_range_y, vigem_input_state.c_stick[2], gamepad.thumb_ry)

-----------------------------------------------------------------------------
\* The two devices scale and calibrate in the same way.
LEMMA SameScaling ==
  /\ \A r, v : W!CStickAxis(r, v) = CStickAxis(r, v) /\ W!Widened(r, v) = Widened(r, v)
  /\ \A v, w, p, q : W!SameWay(v, w, p, q) <=> SameWay(v, w, p, q)
  /\ W!InitialRange = InitialRange
  /\ W!Released = Released
<1>1. \A n, d : W!Truncate(n, d) = Truncate(n, d)
  BY DEF W!Truncate, Truncate
<1>2. \A r, v : W!CStickAxis(r, v) = CStickAxis(r, v)
  BY <1>1 DEF W!CStickAxis, CStickAxis
<1>3. \A r, v : W!Widened(r, v) = Widened(r, v)
  BY DEF W!Widened, Widened
<1>4. \A v, w, p, q : W!SameWay(v, w, p, q) <=> SameWay(v, w, p, q)
  BY DEF W!SameWay, SameWay
<1> QED
  BY <1>2, <1>3, <1>4 DEF W!InitialRange, InitialRange, W!Released, Released

\* A device that has just been plugged in is centred.
LEMMA InitThumbInv == W!ViGEmInit => ThumbInv
<1> SUFFICES ASSUME W!ViGEmInit PROVE ThumbInv
  OBVIOUS
<1> USE DEF W!ViGEmInit
<1>1. RangeOK(vigem_range_x) /\ RangeOK(vigem_range_y)
  BY SameScaling DEF RangeOK, InitialRange
<1>2. vigem_input_state \in InputState
  BY SameScaling DEF InputState, Released
<1>3. gamepad.thumb_rx = 0 /\ gamepad.thumb_ry = 0
  BY DEF W!AtRest
<1>4. 0 \in OnAxis
  BY GamepadAssumption DEF OnAxis
<1> QED
  BY <1>1, <1>2, <1>3, <1>4 DEF ThumbInv

\* Adjusting the calibration covers the position reported.
LEMMA ThumbRanges ==
  ASSUME ThumbInv, NEW i \in InputState, W!Calibrate(i)
  PROVE  /\ i.c_stick[1] \in Nat /\ i.c_stick[2] \in Nat
         /\ vigem_range_x' = Widened(vigem_range_x, i.c_stick[1])
         /\ vigem_range_y' = Widened(vigem_range_y, i.c_stick[2])
         /\ RangeOK(vigem_range_x') /\ Covers(vigem_range_x', i.c_stick[1])
         /\ RangeOK(vigem_range_y') /\ Covers(vigem_range_y', i.c_stick[2])
<1>1. i.c_stick[1] \in Nat /\ i.c_stick[2] \in Nat
  BY DEF InputState
<1>2. /\ vigem_range_x' = Widened(vigem_range_x, i.c_stick[1])
      /\ vigem_range_y' = Widened(vigem_range_y, i.c_stick[2])
  BY SameScaling DEF W!Calibrate
<1> QED
  BY <1>1, <1>2, WidenedCovers DEF ThumbInv

\* The report shows the position reported, on the scale adjusted to it.
LEMMA EmitThumb ==
  ASSUME ThumbInv, NEW i \in InputState, W!EmitInput(i)
  PROVE  /\ vigem_input_state' = i
         /\ gamepad'.thumb_rx = CStickAxis(vigem_range_x', i.c_stick[1])
         /\ gamepad'.thumb_ry = CStickAxis(vigem_range_y', i.c_stick[2])
         /\ ThumbInv'
<1>1. W!Calibrate(i) /\ vigem_input_state' = i /\ gamepad' = W!Report(i)
  BY DEF W!EmitInput
<1>2. /\ gamepad'.thumb_rx = CStickAxis(vigem_range_x', i.c_stick[1])
      /\ gamepad'.thumb_ry = CStickAxis(vigem_range_y', i.c_stick[2])
  BY <1>1, SameScaling DEF W!Report
<1>3. /\ Scaled(vigem_range_x', i.c_stick[1], gamepad'.thumb_rx)
      /\ Scaled(vigem_range_y', i.c_stick[2], gamepad'.thumb_ry)
  BY <1>1, <1>2, ThumbRanges DEF Scaled
<1>4. gamepad'.thumb_rx \in OnAxis /\ gamepad'.thumb_ry \in OnAxis
  BY <1>1, <1>2, ThumbRanges, StickOnAxis
<1>5. RangeOK(vigem_range_x') /\ RangeOK(vigem_range_y')
  BY <1>1, ThumbRanges
<1> QED
  BY <1>1, <1>2, <1>3, <1>4, <1>5 DEF ThumbInv

\* A report that fails may have adjusted the calibration; nothing else changes.
LEMMA FailThumbInv ==
  ASSUME ThumbInv, NEW i \in InputState, W!EmitFails(i)
  PROVE  ThumbInv'
<1>1. vigem_failed' = TRUE /\ UNCHANGED <<gamepad, vigem_input_state>>
  BY DEF W!EmitFails
<1>2. RangeOK(vigem_range_x') /\ RangeOK(vigem_range_y')
  <2>1. CASE W!Calibrate(i)
    BY <2>1, ThumbRanges
  <2>2. CASE UNCHANGED <<vigem_range_x, vigem_range_y>>
    BY <2>2 DEF ThumbInv
  <2> QED BY <2>1, <2>2 DEF W!EmitFails
<1> QED
  BY <1>1, <1>2 DEF ThumbInv

\* A step is one of the device that was picked.
LEMMA WindowsSteps ==
  ASSUME [DeviceNext]_deviceVars
  PROVE  \/ \E i \in InputState : W!EmitInput(i)
         \/ \E i \in InputState : W!EmitFails(i)
         \/ UNCHANGED vigemVars
  BY GamepadAssumption DEF DeviceNext, W!ViGEmNext, deviceVars

\* Every step keeps the right stick on its scale.
LEMMA NextThumbInv == ThumbInv /\ [DeviceNext]_deviceVars => ThumbInv'
<1> SUFFICES ASSUME ThumbInv, [DeviceNext]_deviceVars PROVE ThumbInv'
  OBVIOUS
<1>1. ASSUME NEW i \in InputState, W!EmitInput(i) PROVE ThumbInv'
  BY <1>1, EmitThumb
<1>2. ASSUME NEW i \in InputState, W!EmitFails(i) PROVE ThumbInv'
  BY <1>2, FailThumbInv
<1>3. CASE UNCHANGED vigemVars
  BY <1>3 DEF vigemVars, ThumbInv
<1> QED
  BY <1>1, <1>2, <1>3, WindowsSteps

\* A step that moves the C-stick does not move the right stick against it.
LEMMA ThumbStep ==
  ASSUME ThumbInv, [DeviceNext]_deviceVars, gamepad # W!AtRest
  PROVE  /\ W!SameWay(vigem_input_state.c_stick[1], vigem_input_state'.c_stick[1],
                      gamepad.thumb_rx, gamepad'.thumb_rx)
         /\ W!SameWay(vigem_input_state.c_stick[2], vigem_input_state'.c_stick[2],
                      gamepad.thumb_ry, gamepad'.thumb_ry)
<1> DEFINE now == vigem_input_state.c_stick
<1>1. /\ now[1] \in Nat /\ now[2] \in Nat
      /\ gamepad.thumb_rx \in Int /\ gamepad.thumb_ry \in Int
  BY DEF ThumbInv, InputState, OnAxis
<1>2. SUFFICES /\ SameWay(now[1], now'[1], gamepad.thumb_rx, gamepad'.thumb_rx)
               /\ SameWay(now[2], now'[2], gamepad.thumb_ry, gamepad'.thumb_ry)
  BY SameScaling
<1>3. ASSUME UNCHANGED <<gamepad, vigem_input_state>>
      PROVE  /\ SameWay(now[1], now'[1], gamepad.thumb_rx, gamepad'.thumb_rx)
             /\ SameWay(now[2], now'[2], gamepad.thumb_ry, gamepad'.thumb_ry)
  BY <1>1, <1>3, StandsStill
<1>4. ASSUME NEW i \in InputState, W!EmitFails(i)
      PROVE  UNCHANGED <<gamepad, vigem_input_state>>
  BY <1>4 DEF W!EmitFails
<1>5. ASSUME NEW i \in InputState, W!EmitInput(i)
      PROVE  /\ SameWay(now[1], now'[1], gamepad.thumb_rx, gamepad'.thumb_rx)
             /\ SameWay(now[2], now'[2], gamepad.thumb_ry, gamepad'.thumb_ry)
  <2>1. W!Calibrate(i) /\ ~vigem_failed
    BY <1>5 DEF W!EmitInput
  <2>2. /\ Scaled(vigem_range_x, now[1], gamepad.thumb_rx)
        /\ Scaled(vigem_range_y, now[2], gamepad.thumb_ry)
    BY <2>1 DEF ThumbInv
  <2>3. /\ i.c_stick[1] \in Nat /\ i.c_stick[2] \in Nat
        /\ vigem_range_x' = Widened(vigem_range_x, i.c_stick[1])
        /\ vigem_range_y' = Widened(vigem_range_y, i.c_stick[2])
    BY <2>1, ThumbRanges
  <2>4. /\ now' = i.c_stick
        /\ gamepad'.thumb_rx = CStickAxis(vigem_range_x', i.c_stick[1])
        /\ gamepad'.thumb_ry = CStickAxis(vigem_range_y', i.c_stick[2])
    BY <1>5, EmitThumb
  <2>5. SameWay(now[1], now'[1], gamepad.thumb_rx, gamepad'.thumb_rx)
    BY <1>1, <2>2, <2>3, <2>4, StickMoves
  <2>6. SameWay(now[2], now'[2], gamepad.thumb_ry, gamepad'.thumb_ry)
    BY <1>1, <2>2, <2>3, <2>4, StickMoves
  <2> QED BY <2>5, <2>6
<1> QED
  BY <1>3, <1>4, <1>5, WindowsSteps DEF vigemVars

-----------------------------------------------------------------------------
\* On a server for Windows the right stick stays on the scale of its calibration.
THEOREM ThumbInvariance == DeviceSpec => []ThumbInv
<1>1. DeviceInit => ThumbInv
  BY InitThumbInv DEF DeviceInit
<1> QED
  BY <1>1, NextThumbInv, PTL DEF DeviceSpec, deviceVars

\* The right stick of the Windows device never moves against the C-stick, also in the
\* reports that recalibrate it.
THEOREM ThumbFollows == DeviceSpec => CStickMovesThumb
<1>1. ThumbInv /\ [DeviceNext]_deviceVars =>
        [gamepad # W!AtRest =>
           /\ W!SameWay(vigem_input_state.c_stick[1], vigem_input_state'.c_stick[1],
                        gamepad.thumb_rx, gamepad'.thumb_rx)
           /\ W!SameWay(vigem_input_state.c_stick[2], vigem_input_state'.c_stick[2],
                        gamepad.thumb_ry, gamepad'.thumb_ry)]_W!vigemVars
  BY ThumbStep
<1> QED
  BY <1>1, ThumbInvariance, PTL
  DEF DeviceSpec, deviceVars, CStickMovesThumb, W!CStickMovesThumb

\* Whichever device a server has, its Linux device takes steps of UInputDevice only.
THEOREM LinuxDevice == DeviceSpec => UInputSpec
<1>1. DeviceInit => UInputInit
  BY DEF DeviceInit
<1>2. [DeviceNext]_<<platform, uinputVars, vigemVars>> => [UInputNext]_uinputVars
  BY DEF DeviceNext, uinputVars
<1> QED
  BY <1>1, <1>2, PTL DEF DeviceSpec, UInputSpec

\* So what is written to it adds up, points and moves as it should.
THEOREM LinuxDeviceSafe ==
  DeviceSpec => /\ [](UInputTypeOK /\ EventsAddUp /\ NoStuckDirection)
                /\ CStickMovesAxis
<1>1. UInputSpec => [](UInputTypeOK /\ EventsAddUp /\ NoStuckDirection)
  BY DeviceWellFormed, DifferencesAddUp, DirectionsReleased, PTL
<1> QED
  BY <1>1, LinuxDevice, RightStickFollows
=============================================================================
