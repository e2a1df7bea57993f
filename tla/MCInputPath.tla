------------------------------ MODULE MCInputPath ------------------------------
(* Buttons that answer the prompt and are then played, the chord that ends the   *)
(* client, and a CPP with one button.  The C-stick rests: its calibration is       *)
(* checked with the devices.                                                     *)
EXTENDS InputPath

Hold(keys, x) == [keys |-> keys, circle_pad |-> <<x, 0>>]

MCPads == {Hold({"A"}, 0), Hold({"B"}, 156), Hold({"START", "SELECT"}, 0)}
MCCppInputs == [keys : {{}, {"ZL"}}, c_stick : {<<0, 0>>}]
MCKeys == {"A", "B", "START", "SELECT", "R", "ZL", "ZR", "UP", "DOWN", "LEFT", "RIGHT"}
=============================================================================
