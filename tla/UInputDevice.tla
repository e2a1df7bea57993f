----------------------------- MODULE UInputDevice -----------------------------
(***************************************************************************)
(* The Linux virtual device (linux.rs): emit_input turns the difference    *)
(* between two input states into evdev events and writes them to uinput in *)
(* one call.  `pressed` and `axis` are the device's state as it is written *)
(* there.  A game sees it so, but for the sticks' axes: the kernel smooths *)
(* changes of them that are within the fuzz of 250 (linux.rs:60).          *)
(*                                                                         *)
(* A definition named X_<mistake> is X with a plausible mistake, used only *)
(* by the mutation runs.                                                   *)
(***************************************************************************)
EXTENDS Gamepad

VARIABLES
  last_input_state,
  c_stick_range_x, c_stick_range_y,
  pressed,  \* buttons that are down
  axis,     \* last value written to each absolute axis
  failed    \* a write failed: the connection drops the device

uinputVars == <<last_input_state, c_stick_range_x, c_stick_range_y, pressed, axis,
                failed>>

Dpad == {"UP", "DOWN", "LEFT", "RIGHT"}

DpadEvent_NoRelease(value, key, direction, input) ==
  IF key \in input.key_pad \ last_input_state.key_pad THEN direction ELSE value

\* One absolute event for a pressed or released direction, none otherwise.
DpadEvent(value, key, direction, input) ==
  IF key \in input.key_pad \ last_input_state.key_pad THEN direction
  ELSE IF key \in last_input_state.key_pad \ input.key_pad THEN 0
  ELSE value

\* The events of a hat axis are applied in this order: the later one wins.
HatAfter(value, negative, positive, input) ==
  DpadEvent(DpadEvent(value, negative, -1, input), positive, 1, input)

PressedAfter_NoRelease(input) ==
  LET new_keys_pressed == input.key_pad \ last_input_state.key_pad
  IN  (pressed \cup new_keys_pressed) \ Dpad

PressedAfter(input) ==
  LET new_keys_pressed == input.key_pad \ last_input_state.key_pad
      new_keys_released == last_input_state.key_pad \ input.key_pad
  IN  ((pressed \cup new_keys_pressed) \ new_keys_released) \ Dpad

Calibrate_YByX(input) ==
  IF input.c_stick = last_input_state.c_stick
  THEN UNCHANGED <<c_stick_range_x, c_stick_range_y>>
  ELSE /\ c_stick_range_x' = Widened(c_stick_range_x, input.c_stick[1])
       /\ c_stick_range_y' = Widened(c_stick_range_y, input.c_stick[1])

\* The calibration and the axes move only when the raw position changes.
Calibrate(input) ==
  IF input.c_stick = last_input_state.c_stick
  THEN UNCHANGED <<c_stick_range_x, c_stick_range_y>>
  ELSE /\ c_stick_range_x' = Widened(c_stick_range_x, input.c_stick[1])
       /\ c_stick_range_y' = Widened(c_stick_range_y, input.c_stick[2])

\* The y axes are negated: the 3DS counts upwards, evdev downwards.
AxisAfter(input) ==
  LET cpad == input.circle_pad # last_input_state.circle_pad
      stick == input.c_stick # last_input_state.c_stick
  IN  [axis EXCEPT
         !.Hat0Y = HatAfter(@, "UP", "DOWN", input),
         !.Hat0X = HatAfter(@, "LEFT", "RIGHT", input),
         !.X = IF cpad THEN CpadAxis(input.circle_pad[1]) ELSE @,
         !.Y = IF cpad THEN -CpadAxis(input.circle_pad[2]) ELSE @,
         !.RX = IF stick THEN CStickAxis(c_stick_range_x', input.c_stick[1]) ELSE @,
         !.RY = IF stick THEN -CStickAxis(c_stick_range_y', input.c_stick[2]) ELSE @]

EmitInput(input) ==
  /\ ~failed
  /\ Calibrate(input)
  /\ pressed' = PressedAfter(input)
  /\ axis' = AxisAfter(input)
  /\ last_input_state' = input
  /\ UNCHANGED failed

\* handle.write fails after the calibration was adjusted.
EmitFails(input) ==
  /\ ~failed
  /\ Calibrate(input)
  /\ failed' = TRUE
  /\ UNCHANGED <<last_input_state, pressed, axis>>

UInputInit ==
  /\ last_input_state = Released
  /\ c_stick_range_x = InitialRange
  /\ c_stick_range_y = InitialRange
  /\ pressed = {}
  /\ axis = [X |-> 0, Y |-> 0, RX |-> 0, RY |-> 0, Hat0X |-> 0, Hat0Y |-> 0]
  /\ failed = FALSE

UInputNext == \E input \in Inputs : EmitInput(input) \/ EmitFails(input)

UInputSpec == UInputInit /\ [][UInputNext]_uinputVars
-----------------------------------------------------------------------------
(* Correctness.                                                            *)

\* The device's state is well formed.  The C-stick's axes stay between the limits
\* the device declares: the u16 subtractions of the calibration never wrap and its
\* range is never empty, whatever values are reported.
UInputTypeOK ==
  /\ last_input_state \in InputState
  /\ pressed \subseteq Keys \ Dpad
  /\ axis \in [{"X", "Y", "RX", "RY", "Hat0X", "Hat0Y"} -> Int]
  /\ axis.Hat0X \in -1 .. 1 /\ axis.Hat0Y \in -1 .. 1
  /\ axis.RX \in OnAxis /\ axis.RY \in OnAxis
  /\ failed \in BOOLEAN

\* The events add up: although only differences are sent, the buttons that are
\* down and the circle pad's axes are those of the last input state.
EventsAddUp ==
  /\ pressed = last_input_state.key_pad \ Dpad
  /\ axis.X = CpadAxis(last_input_state.circle_pad[1])
  /\ axis.Y = -CpadAxis(last_input_state.circle_pad[2])

\* No direction sticks: the hat points only where a key is held, whichever keys
\* of the D-pad are pressed and released together between two states.
NoStuckDirection ==
  /\ axis.Hat0Y = -1 => "UP" \in last_input_state.key_pad
  /\ axis.Hat0Y = 1 => "DOWN" \in last_input_state.key_pad
  /\ axis.Hat0X = -1 => "LEFT" \in last_input_state.key_pad
  /\ axis.Hat0X = 1 => "RIGHT" \in last_input_state.key_pad

\* One direction held alone is shown by the hat, as on a real gamepad ("A virtual
\* device acts like a real gamepad device", virtual_device.rs:27).
HeldDirectionShows ==
  LET held == last_input_state.key_pad
  IN  /\ "UP" \in held /\ "DOWN" \notin held => axis.Hat0Y = -1
      /\ "DOWN" \in held /\ "UP" \notin held => axis.Hat0Y = 1
      /\ "LEFT" \in held /\ "RIGHT" \notin held => axis.Hat0X = -1
      /\ "RIGHT" \in held /\ "LEFT" \notin held => axis.Hat0X = 1

\* From its first report on, a C-stick that moves one way never moves its axis the
\* other way, also in the step that recalibrates.
CStickMovesAxis ==
  [][last_input_state.c_stick # <<0, 0>> =>
       /\ SameWay(last_input_state.c_stick[1], last_input_state'.c_stick[1],
                  axis.RX, axis'.RX)
       /\ SameWay(last_input_state'.c_stick[2], last_input_state.c_stick[2],
                  axis.RY, axis'.RY)]_uinputVars
=============================================================================
