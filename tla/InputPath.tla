------------------------------- MODULE InputPath -------------------------------
(***************************************************************************)
(* The way of the player's input from the console to the virtual gamepad:  *)
(* the client, the network, and the connection that serves it with its     *)
(* Linux device.  Input datagrams are not numbered and not acknowledged:   *)
(* they may be lost and overtake each other.  The client sends a state     *)
(* once per turn of its loop, so that a datagram repeated by the network   *)
(* is one more datagram of that state.                                     *)
(*                                                                         *)
(* The server is seen from the client: the tasks behind `conn` are those   *)
(* of RemotePlayServer.  A state that the watch channel between mapper and *)
(* connection skips is one that was lost.                                  *)
(*                                                                         *)
(* A definition named X_<mistake> is X with a plausible mistake, used only *)
(* by the mutation runs.                                                   *)
(***************************************************************************)
EXTENDS Client, UInputDevice

VARIABLE conn  \* the server's connection: "none", "serving" or "closed"

pathVars == <<clientVars, uinputVars, conn>>

\* The connection is accepted, has a device and a place in the mapper.
ServerRegisters ==
  /\ conn = "none"
  /\ tcp = "open"
  /\ conn' = "serving"
  /\ UNCHANGED <<clientVars, uinputVars>>

\* The device disappears, and whatever was pressed on it is released.
DeviceDropped ==
  /\ last_input_state' = Released
  /\ c_stick_range_x' = InitialRange /\ c_stick_range_y' = InitialRange
  /\ pressed' = {}
  /\ axis' = [a \in DOMAIN axis |-> 0]
  /\ UNCHANGED failed

\* An error, Ctrl-C, or no input for 30 s, the time at the CPP's prompt included.
ServerCloses ==
  /\ conn # "closed"
  /\ tcp = "open"
  /\ conn' = "closed"
  /\ tcp' = "shut"
  /\ DeviceDropped
  /\ UNCHANGED <<main, cancelled, wire, playerVars, cppVars, watchVars, taskVars>>

\* The client is gone: the connection's task ends and its device goes with it.
ServerSeesClose ==
  /\ conn # "closed"
  /\ tcp = "gone"
  /\ conn' = "closed"
  /\ DeviceDropped
  /\ UNCHANGED clientVars

Arrives(state) ==
  /\ state \in wire
  /\ wire' = wire \ {state}
  /\ UNCHANGED <<main, tcp, cancelled, playerVars, cppVars, watchVars, taskVars>>

\* handle_packet, and the connection's emit_input.
Deliver(state) ==
  /\ conn = "serving"
  /\ Arrives(state)
  /\ EmitInput(state)
  /\ UNCHANGED conn

\* The network loses it, or the mapper has no connection for its address.
Lose(state) ==
  /\ Arrives(state)
  /\ UNCHANGED <<uinputVars, conn>>

Network == \E state \in wire : Deliver(state) \/ Lose(state)

Reaches == \E state \in wire : Deliver(state)

PathInit == ClientInit /\ UInputInit /\ conn = "none"

PathNext ==
  \/ ClientNext /\ UNCHANGED <<uinputVars, conn>>
  \/ ServerRegisters \/ ServerCloses \/ ServerSeesClose
  \/ Network

\* The network loses datagrams, but not for ever all that a client sends.
PathSpec ==
  /\ PathInit
  /\ [][PathNext]_pathVars
  /\ ClientFairness
  /\ WF_pathVars(ServerSeesClose)
  /\ SF_pathVars(Reaches)
-----------------------------------------------------------------------------
(* Correctness.                                                            *)

\* The client's state is well formed.  The tasks exist exactly from the moment the
\* main loop begins, and both have ended before the client exits that way.
ClientTypeOK ==
  /\ main \in {"address", "connect", "prompt", "cpp_connect", "cpp_poll", "cpp_wait",
               "spawn", "loop", "stop", "join", "leaving", "exited"}
  /\ tcp \in {"none", "open", "shut", "gone"}
  /\ cpp_packet \in CppInputs \cup {NoPacket}
  /\ last_cpp_input \in CppInputs \cup {NoCpp}
  /\ input \in InputState /\ wire \subseteq InputState
  /\ send_task \in {"none", "token", "input", "ended"}
  /\ receive_task \in {"none", "running", "ended"}
  /\ main \in {"leaving", "exited"} =>
       send_task \in {"none", "ended"} /\ receive_task \in {"none", "ended"}
  /\ conn \in {"none", "serving", "closed"}

\* START and SELECT together end the client (input_handler.rs:49-52): however they
\* are pressed, a game on the server never sees the two at once.
ExitChordNotPlayed == ~ExitChord(pressed)

\* What the player holds; the last report stands in for a CPP that is silent.
Held == Combined(pad, IF cpp_on THEN cpp ELSE last_cpp_input)

Playing == main = "loop" /\ conn = "serving"

\* The hat is left out (see HeldDirectionShows), and the C-stick, which is shown on
\* a scale that depends on what was reported before (see CStickMovesAxis).
Shows(state) ==
  /\ pressed = state.key_pad \ Dpad
  /\ axis.X = CpadAxis(state.circle_pad[1])
  /\ axis.Y = -CpadAxis(state.circle_pad[2])

\* What is held comes through: when the player keeps still and the client plays on,
\* the gamepad comes to show that state and keeps it, although any datagram may be
\* lost or overtaken, the watch channel skips states and the CPP reports late.
HeldStateArrives ==
  <>[]Playing /\ <>[][Held' = Held]_pathVars => <>[]Shows(Held)

\* The client ends: once its loop has stopped, for the exit chord, a failed scan or
\* whatever else, and while it plays once the application is closed, the server has
\* closed the connection or the task that sends input has failed.  It joins both
\* tasks, whatever they are doing, and exits; after a panic at start-up it exits, too.
ClientExits ==
  (\/ main \in {"stop", "join", "leaving"}
   \/ main = "loop" /\ (tcp # "open" \/ send_task = "ended" \/ ~apt_open))
    ~> main = "exited"
=============================================================================
