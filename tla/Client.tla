--------------------------------- MODULE Client ---------------------------------
(***************************************************************************)
(* The 3DS client (client/src): the main thread, from the address prompt   *)
(* through the Circle Pad Pro (CPP) set-up and the main loop to the join   *)
(* of the system thread (main.rs, client.rs, input_handler.rs), and the    *)
(* two tasks of the system thread (system_thread.rs).                      *)
(*                                                                         *)
(* The threads share the watch channel of input states, the cancellation   *)
(* token and the ends of the two tasks.  The player, the CPP and the       *)
(* console's services are the environment, and do what they like.          *)
(*                                                                         *)
(* A definition named X_<mistake> is X with a plausible mistake, used only *)
(* by the mutation runs.                                                   *)
(***************************************************************************)
EXTENDS Gamepad, FiniteSets

CONSTANTS
  Pads,       \* states of the console's own buttons and circle pad
  CppInputs,  \* what a Circle Pad Pro may report
  MaxWire     \* bound: input datagrams in the network

NoPacket == [none |-> TRUE]

\* CirclePadProInputResponse::default.
NoCpp == [keys |-> {}, c_stick |-> <<0, 0>>]

ASSUME ClientAssumption ==
  /\ Pads \subseteq [keys : SUBSET Keys, circle_pad : Int \X Int]
  /\ CppInputs \subseteq [keys : SUBSET {"R", "ZL", "ZR"}, c_stick : Nat \X Nat]
  /\ {"R", "ZL", "ZR", "START", "SELECT"} \subseteq Keys
  /\ MaxWire \in Nat \ {0}

VARIABLES
  main,            \* where the main thread is
  apt_open,        \* apt.main_loop() returns true
  tcp,             \* "none", "open", "shut" by the server or "gone" (dropped)
  pad, cpp,        \* what the player holds on the console and on the CPP
  cpp_on,          \* the CPP reports
  cpp_packet,      \* the packet in the ir:USER buffer, its event signalled
  last_cpp_input,
  input,           \* the watch channel's value
  input_changed,   \* ... which send_inputs has not seen
  cancelled,       \* the system thread's cancellation token
  send_task,       \* the branch its select polls next: "token", "input"; "ended"
  receive_task,    \* "running" or "ended"
  wire             \* input states on their way to the server

playerVars == <<apt_open, pad, cpp>>
cppVars == <<cpp_on, cpp_packet, last_cpp_input>>
watchVars == <<input, input_changed>>
taskVars == <<send_task, receive_task>>
clientVars == <<main, tcp, cancelled, wire, playerVars, cppVars, watchVars, taskVars>>

-----------------------------------------------------------------------------
(* The player and the Circle Pad Pro.  What they do once the main loop has *)
(* stopped is not read any more.                                           *)

Watched == main \notin {"stop", "join", "leaving", "exited"}

PlayerActs ==
  /\ Watched
  /\ \/ pad' \in Pads \ {pad} /\ UNCHANGED cpp
     \/ cpp' \in CppInputs \ {cpp} /\ UNCHANGED pad
  /\ UNCHANGED <<apt_open, main, tcp, cancelled, wire, cppVars, watchVars, taskVars>>

\* The player closes the application from the HOME menu.
AptCloses ==
  /\ Watched
  /\ apt_open
  /\ apt_open' = FALSE
  /\ UNCHANGED <<pad, cpp, main, tcp, cancelled, wire, cppVars, watchVars, taskVars>>

\* A CPP that was asked to reports what is held; the buffer has room for a packet.
CppSends ==
  /\ Watched
  /\ cpp_on
  /\ cpp_packet = NoPacket
  /\ cpp_packet' = cpp
  /\ UNCHANGED <<cpp_on, last_cpp_input, main, tcp, cancelled, wire, playerVars,
                 watchVars, taskVars>>

\* The infrared link is interrupted; the CPP waits to be asked again.
CppGoesSilent ==
  /\ Watched
  /\ cpp_on
  /\ cpp_on' = FALSE
  /\ UNCHANGED <<cpp_packet, last_cpp_input, main, tcp, cancelled, wire, playerVars,
                 watchVars, taskVars>>

-----------------------------------------------------------------------------
(* Start-up and the set-up of the CPP.                                     *)

Goto(here, there) == main = here /\ main' = there

OnlyMainMoves == UNCHANGED <<tcp, cancelled, wire, playerVars, cppVars, watchVars, taskVars>>

\* get_server_ip: a preset or typed address; an invalid one; or Cancel.
GetServerIp ==
  /\ \E next \in {"connect", "address", "leaving"} : Goto("address", next)
  /\ OnlyMainMoves

SetupNetworking ==
  /\ Goto("connect", "prompt")
  /\ tcp' = "open"
  /\ UNCHANGED <<cancelled, wire, playerVars, cppVars, watchVars, taskVars>>

\* Any call on the way may fail, and an expect panics.
Panic ==
  /\ main \in {"address", "connect", "prompt", "cpp_connect", "cpp_poll", "cpp_wait",
               "spawn"}
  /\ main' = "leaving"
  /\ OnlyMainMoves

\* B, or the end of the application: go on without a CPP.
SkipCpp ==
  /\ ~apt_open \/ "B" \in pad.keys
  /\ Goto("prompt", "spawn")
  /\ OnlyMainMoves

AcceptCpp ==
  /\ apt_open /\ "B" \notin pad.keys /\ "A" \in pad.keys
  /\ Goto("prompt", "cpp_connect")
  /\ OnlyMainMoves

\* START cancels either loop.
CancelCpp ==
  /\ "START" \in pad.keys
  /\ Goto("cpp_connect", "spawn") \/ Goto("cpp_poll", "spawn")
  /\ OnlyMainMoves

\* require_connection; the loop repeats while the connection is not up in time.
ConnectCpp ==
  /\ "START" \notin pad.keys
  /\ Goto("cpp_connect", "cpp_poll")
  /\ OnlyMainMoves

RequestPolling ==
  /\ "START" \notin pad.keys
  /\ Goto("cpp_poll", "cpp_wait")
  /\ cpp_on' = TRUE
  /\ UNCHANGED <<cpp_packet, last_cpp_input, tcp, cancelled, wire, playerVars, watchVars,
                 taskVars>>

\* No response within 100 ms: ask again.
PollTimesOut ==
  /\ cpp_packet = NoPacket
  /\ Goto("cpp_wait", "cpp_poll")
  /\ OnlyMainMoves

\* scan_cpp_input_unchecked: keep the report, release the buffer, ask for more.
TakeCppPacket ==
  /\ cpp_packet # NoPacket
  /\ last_cpp_input' = cpp_packet
  /\ cpp_packet' = NoPacket
  /\ cpp_on' = TRUE

FirstCppPacket ==
  /\ Goto("cpp_wait", "spawn")
  /\ TakeCppPacket
  /\ UNCHANGED <<tcp, cancelled, wire, playerVars, watchVars, taskVars>>

SpawnSystemThread ==
  /\ Goto("spawn", "loop")
  /\ send_task' = "token"
  /\ receive_task' = "running"
  /\ UNCHANGED <<tcp, cancelled, wire, playerVars, cppVars, watchVars>>

StartUp ==
  \/ GetServerIp \/ SetupNetworking \/ Panic \/ SkipCpp \/ AcceptCpp \/ CancelCpp
  \/ ConnectCpp \/ RequestPolling \/ PollTimesOut \/ FirstCppPacket
  \/ SpawnSystemThread

-----------------------------------------------------------------------------
(* The main loop.                                                          *)

ExitChord(keys) == {"START", "SELECT"} \subseteq keys

\* What the client sends: the CPP's buttons are added to the console's.
Combined(p, c) ==
  [key_pad |-> p.keys \cup c.keys, circle_pad |-> p.circle_pad, c_stick |-> c.c_stick]

ScanCppInput ==
  \/ TakeCppPacket
  \/ cpp_packet = NoPacket /\ UNCHANGED cppVars

SendToTask_IfDifferent(state) ==
  IF send_task = "ended" THEN UNCHANGED watchVars /\ main' = "stop"
  ELSE /\ input' = state
       /\ input_changed' = (input_changed \/ state # input)
       /\ UNCHANGED main

\* input_sender.send fails once send_inputs has dropped the receiver.
SendToTask(state) ==
  IF send_task = "ended" THEN UNCHANGED watchVars /\ main' = "stop"
  ELSE input' = state /\ input_changed' = TRUE /\ UNCHANGED main

Turn_ChordLast ==
  /\ main = "loop"
  /\ apt_open /\ tcp = "open"
  /\ ScanCppInput
  /\ SendToTask(Combined(pad, last_cpp_input'))
  /\ UNCHANGED <<tcp, cancelled, wire, playerVars, taskVars>>

\* One turn: the TCP connection is up, send_inputs_to_server, and the turn's video,
\* which is VideoPipeline's.
Turn ==
  /\ main = "loop"
  /\ apt_open /\ tcp = "open" /\ ~ExitChord(pad.keys)
  /\ ScanCppInput
  /\ SendToTask(Combined(pad, last_cpp_input'))
  /\ UNCHANGED <<tcp, cancelled, wire, playerVars, taskVars>>

\* The application is closed, or the connection is, or the player presses both keys.
LeaveLoop ==
  /\ ~apt_open \/ tcp # "open" \/ ExitChord(pad.keys)
  /\ Goto("loop", "stop")
  /\ OnlyMainMoves

\* Reading, parsing or releasing the packet fails, or asking for more does.
ScanCppFails ==
  /\ apt_open /\ tcp = "open" /\ ~ExitChord(pad.keys)
  /\ cpp_packet # NoPacket
  /\ Goto("loop", "stop")
  /\ last_cpp_input' \in {last_cpp_input, cpp_packet}
  /\ UNCHANGED <<cpp_on, cpp_packet, tcp, cancelled, wire, playerVars, watchVars, taskVars>>

CancelTasks_GuardStillBound ==
  /\ Goto("stop", "join")
  /\ OnlyMainMoves

\* drop(cancel_guard).
CancelTasks ==
  /\ Goto("stop", "join")
  /\ cancelled' = TRUE
  /\ UNCHANGED <<tcp, wire, playerVars, cppVars, watchVars, taskVars>>

JoinSystemThread_ForInputOnly ==
  /\ send_task = "ended"
  /\ Goto("join", "leaving")
  /\ OnlyMainMoves

\* pthread_join: the system thread's block_on waits for both tasks.
JoinSystemThread ==
  /\ send_task = "ended" /\ receive_task = "ended"
  /\ Goto("join", "leaving")
  /\ OnlyMainMoves

\* run returns, or a panic unwinds it: the TCP connection is dropped.
Leave ==
  /\ Goto("leaving", "exited")
  /\ tcp' = IF tcp = "none" THEN tcp ELSE "gone"
  /\ UNCHANGED <<cancelled, wire, playerVars, cppVars, watchVars, taskVars>>

MainLoop ==
  \/ Turn \/ LeaveLoop \/ ScanCppFails
  \/ CancelTasks \/ JoinSystemThread \/ Leave

-----------------------------------------------------------------------------
(* The system thread's tasks.                                              *)

SendTaskOnly == UNCHANGED <<main, tcp, cancelled, receive_task, playerVars, cppVars>>

\* The token is polled first.  The task sleeps until one of the two is ready.
PollToken ==
  /\ send_task = "token"
  /\ cancelled \/ input_changed
  /\ send_task' = IF cancelled THEN "ended" ELSE "input"
  /\ UNCHANGED <<wire, watchVars>>
  /\ SendTaskOnly

\* changed() is ready: the newest state goes out, and where it does not fit is lost.
SendInputState ==
  /\ send_task = "input"
  /\ input_changed' = FALSE
  /\ wire' = IF Cardinality(wire) < MaxWire THEN wire \cup {input} ELSE wire
  /\ send_task' = "token"
  /\ UNCHANGED input
  /\ SendTaskOnly

\* udp_socket.send fails, would block, or reports an earlier ICMP error.
SendInputStateFails ==
  /\ send_task = "input"
  /\ input_changed' = FALSE
  /\ send_task' = "ended"
  /\ UNCHANGED <<wire, input>>
  /\ SendTaskOnly

SendInputs == PollToken \/ SendInputState \/ SendInputStateFails

ReceiveTaskEnds ==
  /\ receive_task = "running"
  /\ receive_task' = "ended"
  /\ UNCHANGED <<main, tcp, cancelled, wire, send_task, playerVars, cppVars, watchVars>>

\* Its select polls the token first; it may also fail by itself (VideoPipeline).
ReceiveCancelled == cancelled /\ ReceiveTaskEnds

ClientInit ==
  /\ main = "address"
  /\ apt_open = TRUE
  /\ tcp = "none"
  /\ pad \in Pads /\ cpp \in CppInputs
  /\ cpp_on = FALSE
  /\ cpp_packet = NoPacket
  /\ last_cpp_input = NoCpp
  /\ input = Released
  /\ input_changed = FALSE
  /\ cancelled = FALSE
  /\ send_task = "none" /\ receive_task = "none"
  /\ wire = {}

ClientNext ==
  \/ PlayerActs \/ AptCloses \/ CppSends \/ CppGoesSilent
  \/ StartUp \/ MainLoop \/ SendInputs \/ ReceiveTaskEnds

\* Both threads run, and a CPP that is on reports.  Nothing is assumed of the
\* player, so nothing of the start-up.
ClientFairness ==
  /\ WF_clientVars(MainLoop)
  /\ WF_clientVars(SendInputs)
  /\ WF_clientVars(ReceiveCancelled)
  /\ WF_clientVars(CppSends)
=============================================================================
