---------------------------- MODULE InputPathProofs ----------------------------
(***************************************************************************)
(* The chord that ends the client never reaches a game, whatever the       *)
(* player holds, for every Circle Pad Pro and every network.               *)
(***************************************************************************)
EXTENDS InputPath, UInputDeviceProofs

\* What is held and reported is of the console and of the CPP.
Sources ==
  /\ pad \in Pads /\ cpp \in CppInputs
  /\ cpp_packet \in CppInputs \cup {NoPacket}
  /\ last_cpp_input \in CppInputs \cup {NoCpp}

\* The states the client may send, and the server's device be given.
Playable == {state \in InputState : ~ExitChord(state.key_pad)}

OnTheWay ==
  /\ input \in Playable
  /\ wire \subseteq Playable
  /\ last_input_state \in Playable
  /\ pressed = last_input_state.key_pad \ Dpad

\* The tasks begin with the main loop and end before the client leaves.
BeforeTasks ==
  {"address", "connect", "prompt", "cpp_connect", "cpp_poll", "cpp_wait", "spawn"}

Threads ==
  /\ main \in BeforeTasks \cup {"loop", "stop", "join", "leaving", "exited"}
  /\ tcp \in {"none", "open", "shut", "gone"}
  /\ conn \in {"none", "serving", "closed"}
  /\ send_task \in {"none", "token", "input", "ended"}
  /\ receive_task \in {"none", "running", "ended"}
  /\ main \in BeforeTasks => send_task = "none" /\ receive_task = "none"
  /\ main \in {"leaving", "exited"} =>
       send_task \in {"none", "ended"} /\ receive_task \in {"none", "ended"}

PathInv == Sources /\ OnTheWay /\ Threads

-----------------------------------------------------------------------------
\* Nothing is held, sent or shown at the start.
LEMMA InitPathInv == PathInit => PathInv
<1> SUFFICES ASSUME PathInit PROVE PathInv
  OBVIOUS
<1> USE DEF PathInit, ClientInit, UInputInit
<1>1. Sources
  BY DEF Sources
<1>2. Released \in Playable
  BY DEF Released, Playable, InputState, ExitChord
<1>3. OnTheWay
  BY <1>2 DEF OnTheWay, Released
<1>4. Threads
  BY DEF Threads, BeforeTasks
<1> QED
  BY <1>1, <1>3, <1>4 DEF PathInv

\* A turn that finds no chord on the console sends none: the CPP has neither key.
LEMMA CombinedPlayable ==
  ASSUME NEW p \in Pads, NEW c \in CppInputs \cup {NoCpp}, ~ExitChord(p.keys)
  PROVE  Combined(p, c) \in Playable
<1>1. p.keys \subseteq Keys /\ p.circle_pad \in Int \X Int
  BY ClientAssumption
<1>2. c.keys \subseteq {"R", "ZL", "ZR"} /\ c.c_stick \in Nat \X Nat
  BY ClientAssumption DEF NoCpp
<1>3. p.keys \cup c.keys \subseteq Keys
  BY <1>1, <1>2, ClientAssumption
<1>4. ~ExitChord(p.keys \cup c.keys)
  BY <1>2 DEF ExitChord
<1> QED
  BY <1>1, <1>2, <1>3, <1>4 DEF Combined, Playable, InputState

\* The reports of the CPP move from its buffer to last_cpp_input.
LEMMA SourcesStep ==
  ASSUME PathInv, PathNext
  PROVE  Sources'
<1> USE DEF PathInv, Sources
<1>1. CASE PlayerActs
  BY <1>1 DEF PlayerActs, cppVars
<1>2. CASE AptCloses \/ CppSends \/ CppGoesSilent
  BY <1>2 DEF AptCloses, CppSends, CppGoesSilent, cppVars, playerVars
<1>3. ASSUME TakeCppPacket
      PROVE  cpp_packet' = NoPacket /\ last_cpp_input' \in CppInputs
  BY <1>3 DEF TakeCppPacket
<1>4. CASE StartUp
  <2>1. CASE FirstCppPacket
    BY <2>1, <1>3 DEF FirstCppPacket, playerVars
  <2>2. CASE RequestPolling
    BY <2>2 DEF RequestPolling, playerVars
  <2>3. CASE SetupNetworking \/ SpawnSystemThread
    BY <2>3 DEF SetupNetworking, SpawnSystemThread, playerVars, cppVars
  <2>4. CASE OnlyMainMoves
    BY <2>4 DEF OnlyMainMoves, playerVars, cppVars
  <2> QED
    BY <1>4, <2>1, <2>2, <2>3, <2>4
    DEF StartUp, GetServerIp, Panic, SkipCpp, AcceptCpp, CancelCpp, ConnectCpp,
        PollTimesOut
<1>5. CASE MainLoop
  <2>1. CASE Turn
    BY <2>1, <1>3 DEF Turn, ScanCppInput, playerVars, cppVars
  <2>2. CASE ScanCppFails
    BY <2>2 DEF ScanCppFails, playerVars
  <2>3. CASE LeaveLoop \/ JoinSystemThread
    BY <2>3 DEF LeaveLoop, JoinSystemThread, OnlyMainMoves, playerVars, cppVars
  <2>4. CASE CancelTasks \/ Leave
    BY <2>4 DEF CancelTasks, Leave, playerVars, cppVars
  <2> QED
    BY <1>5, <2>1, <2>2, <2>3, <2>4 DEF MainLoop
<1>6. CASE SendInputs \/ ReceiveTaskEnds
  BY <1>6 DEF SendInputs, PollToken, SendInputState, SendInputStateFails, SendTaskOnly,
              ReceiveTaskEnds, playerVars, cppVars
<1>7. CASE ServerRegisters \/ ServerSeesClose
  BY <1>7 DEF ServerRegisters, ServerSeesClose, clientVars, playerVars, cppVars
<1>8. CASE ServerCloses
  BY <1>8 DEF ServerCloses, playerVars, cppVars
<1>9. CASE Network
  BY <1>9 DEF Network, Deliver, Lose, Arrives, playerVars, cppVars
<1> QED
  BY <1>1, <1>2, <1>4, <1>5, <1>6, <1>7, <1>8, <1>9 DEF PathNext, ClientNext

\* The chord enters neither the watch channel, nor the network, nor the device.
LEMMA OnTheWayStep ==
  ASSUME PathInv, PathNext
  PROVE  OnTheWay'
<1> USE DEF PathInv
<1> DEFINE ClientStill == UNCHANGED <<input, wire>>
           DeviceStill == UNCHANGED <<last_input_state, pressed>>
<1>1. ASSUME ClientNext, UNCHANGED <<uinputVars, conn>> PROVE OnTheWay'
  <2>1. DeviceStill
    BY <1>1 DEF uinputVars
  <2>2. CASE Turn
    <3>1. last_cpp_input' \in CppInputs \cup {NoCpp}
      BY <2>2, <1>1, SourcesStep DEF Sources, PathNext, ClientNext, MainLoop
    <3>2. Combined(pad, last_cpp_input') \in Playable
      BY <2>2, <3>1, CombinedPlayable DEF Turn, Sources
    <3>3. input' \in Playable
      BY <2>2, <3>2 DEF Turn, SendToTask, watchVars, OnTheWay
    <3> QED
      BY <2>1, <2>2, <3>3 DEF Turn, OnTheWay
  <2>3. CASE SendInputState
    BY <2>1, <2>3 DEF SendInputState, OnTheWay
  <2>4. CASE ClientStill
    BY <2>1, <2>4 DEF OnTheWay
  <2>5. ClientStill \/ Turn \/ SendInputState
    <3>1. CASE PlayerActs \/ AptCloses \/ CppSends \/ CppGoesSilent
      BY <3>1 DEF PlayerActs, AptCloses, CppSends, CppGoesSilent, watchVars
    <3>2. CASE StartUp
      BY <3>2 DEF StartUp, GetServerIp, SetupNetworking, Panic, SkipCpp, AcceptCpp,
                  CancelCpp, ConnectCpp, RequestPolling, PollTimesOut, FirstCppPacket,
                  SpawnSystemThread, OnlyMainMoves, watchVars
    <3>3. CASE MainLoop
      BY <3>3 DEF MainLoop, LeaveLoop, ScanCppFails, CancelTasks, JoinSystemThread,
                  Leave, OnlyMainMoves, watchVars
    <3>4. CASE SendInputs \/ ReceiveTaskEnds
      BY <3>4 DEF SendInputs, PollToken, SendInputStateFails, ReceiveTaskEnds, watchVars
    <3> QED
      BY <1>1, <3>1, <3>2, <3>3, <3>4 DEF ClientNext
  <2> QED
    BY <2>2, <2>3, <2>4, <2>5
<1>2. CASE ServerRegisters
  BY <1>2 DEF ServerRegisters, OnTheWay, clientVars, watchVars, uinputVars
<1>3. ASSUME DeviceDropped, ClientStill PROVE OnTheWay'
  <2>1. Released \in Playable
    BY DEF Released, Playable, InputState, ExitChord
  <2> QED
    BY <1>3, <2>1 DEF DeviceDropped, OnTheWay, Released
<1>4. CASE ServerCloses
  BY <1>4, <1>3 DEF ServerCloses, watchVars
<1>5. CASE ServerSeesClose
  BY <1>5, <1>3 DEF ServerSeesClose, clientVars, watchVars
<1>6. ASSUME NEW state \in wire, Deliver(state) PROVE OnTheWay'
  <2>1. state \in Playable /\ UNCHANGED input /\ wire' \subseteq wire
    BY <1>6 DEF Deliver, Arrives, OnTheWay, watchVars
  <2>2. last_input_state' = state /\ pressed' = PressedAfter(state)
    BY <1>6 DEF Deliver, EmitInput
  <2>3. pressed' = state.key_pad \ Dpad
    BY <2>2 DEF PressedAfter, OnTheWay
  <2> QED
    BY <2>1, <2>2, <2>3 DEF OnTheWay
<1>7. ASSUME NEW state \in wire, Lose(state) PROVE OnTheWay'
  BY <1>7 DEF Lose, Arrives, OnTheWay, watchVars, uinputVars
<1> QED
  BY <1>1, <1>2, <1>4, <1>5, <1>6, <1>7 DEF PathNext, Network

\* The tasks live from the start of the main loop to the join.
LEMMA ThreadsStep ==
  ASSUME PathInv, PathNext
  PROVE  Threads'
<1> USE DEF PathInv, Threads
<1>1. ASSUME ClientNext, UNCHANGED conn PROVE Threads'
  <2>1. CASE PlayerActs \/ AptCloses \/ CppSends \/ CppGoesSilent
    BY <2>1, <1>1 DEF PlayerActs, AptCloses, CppSends, CppGoesSilent, taskVars
  <2>2. CASE StartUp
    <3>1. CASE SpawnSystemThread
      BY <3>1, <1>1 DEF SpawnSystemThread, Goto, BeforeTasks
    <3>2. CASE Panic
      BY <3>2, <1>1 DEF Panic, OnlyMainMoves, taskVars, BeforeTasks
    <3>3. CASE GetServerIp
      BY <3>3, <1>1 DEF GetServerIp, OnlyMainMoves, Goto, taskVars, BeforeTasks
    <3>4. CASE SetupNetworking \/ RequestPolling \/ FirstCppPacket
      BY <3>4, <1>1 DEF SetupNetworking, RequestPolling, FirstCppPacket, Goto, taskVars,
                        BeforeTasks
    <3>5. CASE SkipCpp \/ AcceptCpp \/ CancelCpp \/ ConnectCpp \/ PollTimesOut
      BY <3>5, <1>1 DEF SkipCpp, AcceptCpp, CancelCpp, ConnectCpp, PollTimesOut, Goto,
                        OnlyMainMoves, taskVars, BeforeTasks
    <3> QED
      BY <2>2, <3>1, <3>2, <3>3, <3>4, <3>5 DEF StartUp
  <2>3. CASE Turn
    BY <2>3, <1>1 DEF Turn, SendToTask, taskVars, BeforeTasks
  <2>4. CASE LeaveLoop \/ ScanCppFails \/ CancelTasks \/ JoinSystemThread \/ Leave
    BY <2>4, <1>1 DEF LeaveLoop, ScanCppFails, CancelTasks, JoinSystemThread, Leave, Goto,
                      OnlyMainMoves, taskVars, BeforeTasks
  <2>5. CASE SendInputs \/ ReceiveTaskEnds
    BY <2>5, <1>1 DEF SendInputs, PollToken, SendInputState, SendInputStateFails,
                      SendTaskOnly, ReceiveTaskEnds, BeforeTasks
  <2> QED
    BY <1>1, <2>1, <2>2, <2>3, <2>4, <2>5 DEF ClientNext, MainLoop
<1>2. CASE ServerRegisters \/ ServerSeesClose
  BY <1>2 DEF ServerRegisters, ServerSeesClose, clientVars, taskVars
<1>3. CASE ServerCloses
  BY <1>3 DEF ServerCloses, taskVars
<1>4. ASSUME NEW state \in wire, Deliver(state) \/ Lose(state) PROVE Threads'
  BY <1>4 DEF Deliver, Lose, Arrives, taskVars
<1> QED
  BY <1>1, <1>2, <1>3, <1>4 DEF PathNext, Network

-----------------------------------------------------------------------------
\* The inductive invariant of the input path holds in every reachable state.
THEOREM PathInvariance == PathSpec => []PathInv
<1>1. PathInv /\ PathNext => PathInv'
  BY SourcesStep, OnTheWayStep, ThreadsStep DEF PathInv
<1>2. PathInv /\ UNCHANGED pathVars => PathInv'
  BY DEF PathInv, Sources, OnTheWay, Threads, pathVars, clientVars, uinputVars, playerVars,
         cppVars, watchVars, taskVars
<1> QED
  BY <1>1, <1>2, InitPathInv, PTL DEF PathSpec

\* The client's tasks exist exactly from the moment its loop begins to the join, and
\* its state is well formed, for everything the player and the CPP may do.
THEOREM ClientTypeCorrect == PathSpec => []ClientTypeOK
<1>1. PathInv => ClientTypeOK
  BY DEF PathInv, Sources, OnTheWay, Threads, BeforeTasks, Playable, ClientTypeOK
<1> QED
  BY <1>1, PathInvariance, PTL

\* A game never sees START and SELECT at once.
THEOREM ChordStaysOnConsole == PathSpec => []ExitChordNotPlayed
<1>1. PathInv => ExitChordNotPlayed
  BY DEF PathInv, OnTheWay, Playable, ExitChord, ExitChordNotPlayed
<1> QED
  BY <1>1, PathInvariance, PTL
=============================================================================
