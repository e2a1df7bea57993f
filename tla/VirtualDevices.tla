---------------------------- MODULE VirtualDevices ----------------------------
(* The virtual device of a server (virtual_device.rs): new_device_factory picks *)
(* the Linux device or the Windows one for the platform the server is built on. *)
EXTENDS UInputDevice

VARIABLES
  platform,  \* "linux" or "windows"
  vigem_range_x, vigem_range_y, gamepad, vigem_input_state, vigem_failed

vigemVars == <<vigem_range_x, vigem_range_y, gamepad, vigem_input_state, vigem_failed>>

W == INSTANCE ViGEmDevice
       WITH c_stick_range_x <- vigem_range_x, c_stick_range_y <- vigem_range_y,
            input_state <- vigem_input_state, failed <- vigem_failed

DeviceInit ==
  /\ platform \in {"linux", "windows"}
  /\ UInputInit
  /\ W!ViGEmInit

DeviceNext ==
  \/ platform = "linux" /\ UInputNext /\ UNCHANGED <<platform, vigemVars>>
  \/ platform = "windows" /\ W!ViGEmNext /\ UNCHANGED <<platform, uinputVars>>

DeviceSpec == DeviceInit /\ [][DeviceNext]_<<platform, uinputVars, vigemVars>>

\* The Windows device: a C-stick that moves one way never moves the right stick
\* the other way (windows.rs:83-106).
CStickMovesThumb == W!CStickMovesThumb

\* The Windows device: a client without a Circle Pad Pro, which the client may do
\* without (input_handler.rs:131), leaves the right stick centred.
CentredWithoutCPP == W!CentredWithoutCPP
=============================================================================
