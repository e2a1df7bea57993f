------------------------------ MODULE ViGEmDevice ------------------------------
(***************************************************************************)
(* The Windows virtual device (windows.rs): emit_input builds the whole    *)
(* gamepad report from each input state and hands it to the driver.        *)
(* `gamepad` is the last report the driver took, that is, what a game sees *)
(* once the device is plugged in.                                          *)
(*                                                                         *)
(* A definition named X_<mistake> is X with a plausible mistake, used only *)
(* by the mutation runs.                                                   *)
(***************************************************************************)
EXTENDS Gamepad

VARIABLES
  c_stick_range_x, c_stick_range_y,
  gamepad,
  input_state,  \* the last input state that was emitted
  failed        \* wait_ready or update failed: the connection drops the device

vigemVars == <<c_stick_range_x, c_stick_range_y, gamepad, input_state, failed>>

Trigger(input, key) == IF key \in input.key_pad THEN 255 ELSE 0

\* The report for an input, with the calibration already adjusted to it.
Report(input) ==
  [buttons |-> input.key_pad \ {"ZL", "ZR"},
   left_trigger |-> Trigger(input, "ZL"),
   right_trigger |-> Trigger(input, "ZR"),
   thumb_lx |-> CpadAxis(input.circle_pad[1]),
   thumb_ly |-> CpadAxis(input.circle_pad[2]),
   thumb_rx |-> CStickAxis(c_stick_range_x', input.c_stick[1]),
   thumb_ry |-> CStickAxis(c_stick_range_y', input.c_stick[2])]

\* XGamepad::default, the report of a device that has just been plugged in.
AtRest ==
  [buttons |-> {}, left_trigger |-> 0, right_trigger |-> 0,
   thumb_lx |-> 0, thumb_ly |-> 0, thumb_rx |-> 0, thumb_ry |-> 0]

Calibrate_YByX(input) ==
  /\ c_stick_range_x' = Widened(c_stick_range_x, input.c_stick[1])
  /\ c_stick_range_y' = Widened(c_stick_range_y, input.c_stick[1])

Calibrate(input) ==
  /\ c_stick_range_x' = Widened(c_stick_range_x, input.c_stick[1])
  /\ c_stick_range_y' = Widened(c_stick_range_y, input.c_stick[2])

EmitInput(input) ==
  /\ ~failed
  /\ Calibrate(input)
  /\ gamepad' = Report(input)
  /\ input_state' = input
  /\ UNCHANGED failed

\* wait_ready fails before the calibration, update after it.
EmitFails(input) ==
  /\ ~failed
  /\ Calibrate(input) \/ UNCHANGED <<c_stick_range_x, c_stick_range_y>>
  /\ failed' = TRUE
  /\ UNCHANGED <<gamepad, input_state>>

ViGEmInit ==
  /\ c_stick_range_x = InitialRange
  /\ c_stick_range_y = InitialRange
  /\ gamepad = AtRest
  /\ input_state = Released
  /\ failed = FALSE

ViGEmNext == \E input \in Inputs : EmitInput(input) \/ EmitFails(input)

ViGEmSpec == ViGEmInit /\ [][ViGEmNext]_vigemVars
-----------------------------------------------------------------------------
(* Correctness.                                                            *)

\* A C-stick that moves one way never moves the thumb stick the other way, also in
\* the step that recalibrates.
CStickMovesThumb ==
  [][gamepad # AtRest =>
       /\ SameWay(input_state.c_stick[1], input_state'.c_stick[1],
                  gamepad.thumb_rx, gamepad'.thumb_rx)
       /\ SameWay(input_state.c_stick[2], input_state'.c_stick[2],
                  gamepad.thumb_ry, gamepad'.thumb_ry)]_vigemVars

\* A client without a Circle Pad Pro reports its C-stick as (0, 0), and a player
\* may "continue without it" (input_handler.rs:131): the right stick is centred.
CentredWithoutCPP ==
  input_state.c_stick = <<0, 0>> => gamepad.thumb_rx = 0 /\ gamepad.thumb_ry = 0
=============================================================================
