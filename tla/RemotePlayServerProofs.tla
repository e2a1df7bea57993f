------------------------ MODULE RemotePlayServerProofs ------------------------
(***************************************************************************)
(* The server's tasks use the input mapper as its contract says, so that   *)
(* what InputMapperProofs proves of it holds in the server; and a video    *)
(* stream only runs while its connection holds its lease, and nothing is   *)
(* left when the server has shut down.  For any number of connections and  *)
(* addresses.                                                              *)
(***************************************************************************)
EXTENDS RemotePlayServer, InputMapperProofs

\* The stages between the registration and the drop of the guard.
Serving == {"exits", "events", "cancel_video", "join_video", "shutdown_tcp", "drop_guard"}

Registered(c) ==
  stage[c] \in Serving \/ (stage[c] = "awaiting" /\ reply[c] = "registered")

\* What each connection holds of the mapper's, by the stage of its task.
Holdings ==
  \A c \in Conns :
    /\ \A i \in DOMAIN msgs : msgs[i] = c => stage[c] = "awaiting"
    /\ stage[c] \in {"none", "accepted", "registering"} => reply[c] = "none"
    /\ c \in guards <=> Registered(c)
    /\ c \in receivers <=> Registered(c) \/ stage[c] = "drop_receiver"

\* A stream runs from its spawn to the join, on an open socket.
Streams ==
  \A c \in Conns :
    /\ video[c] = "running" =>
         stage[c] \in {"exits", "events", "cancel_video", "join_video"}
    /\ stage[c] \in {"accepted", "registering", "awaiting", "exits", "events",
                     "cancel_video", "join_video", "shutdown_tcp"} => tcp[c] # "shut"

Finished ==
  main = "done" => \A c \in Conns : stage[c] \in {"none", "done"}

SInv ==
  /\ IInv
  /\ ServerTypeOK
  /\ Holdings
  /\ Streams
  /\ Finished

-----------------------------------------------------------------------------
(* The server and the mapper's contract.                                   *)

\* Every step of the server is a step of the mapper's contract or leaves it alone.
LEMMA ServerStepUsesMapper ==
  ASSUME [ServerNext]_serverVars
  PROVE  [MapperNext]_mapperVars
<1>1. CASE MapperStep
  BY <1>1 DEF MapperStep, MapperNext
<1>2. ASSUME NEW c \in Conns, ConnectionTask(c)
      PROVE  [MapperNext]_mapperVars
  <2>1. CASE Register(c)
    BY <2>1 DEF Register, MapperNext
  <2>2. CASE EmitInput(c)
    BY <2>2 DEF EmitInput, MapperNext
  <2>3. CASE ReleaseGuard(c)
    BY <2>3 DEF ReleaseGuard, MapperNext
  <2>4. CASE ReleaseReceiver(c)
    BY <2>4 DEF ReleaseReceiver, MapperNext
  <2>5. CASE \/ CreateDevice(c) \/ CreateDeviceFails(c) \/ RegisterFails(c)
             \/ SpawnVideo(c) \/ ExitLoop(c) \/ NoExit(c) \/ InputEnds(c) \/ NoEvent(c)
             \/ CancelVideo(c) \/ JoinVideo(c) \/ ShutdownTcp(c) \/ ReleaseDevice(c)
    BY <2>5 DEF CreateDevice, CreateDeviceFails, RegisterFails, SpawnVideo, ExitLoop,
                NoExit, InputEnds, NoEvent, CancelVideo, JoinVideo, ShutdownTcp,
                ReleaseDevice
  <2> QED
    BY <1>2, <2>1, <2>2, <2>3, <2>4, <2>5 DEF ConnectionTask
<1>3. ASSUME NEW c \in Conns,
             Accept(c) \/ ClientLeaves(c) \/ ClientResets(c) \/ ClientSendsData(c)
               \/ VideoFails(c)
      PROVE  UNCHANGED mapperVars
  BY <1>3 DEF Accept, ClientLeaves, ClientResets, ClientSendsData, VideoFails
<1>4. CASE MainTask
  BY <1>4 DEF MainTask, MainStops, MainCloses, MainWaits
<1>5. CASE UNCHANGED serverVars
  BY <1>5 DEF serverVars
<1> QED
  BY <1>1, <1>2, <1>3, <1>4, <1>5 DEF ServerNext

\* The tasks use the mapper as its contract says, drop order included: what is
\* proved of any use of the mapper holds in the server.
THEOREM MapperUsedAsPromised == ServerSpec => UsesMapper
<1>1. ServerInit => MapperInit
  BY DEF ServerInit
<1>2. [ServerNext]_serverVars => [MapperNext]_mapperVars
  BY ServerStepUsesMapper
<1> QED
  BY <1>1, <1>2, PTL DEF ServerSpec, UsesMapper

-----------------------------------------------------------------------------
(* The inductive invariant of the server.                                  *)

\* The server starts without connections.
LEMMA InitSInv == ServerInit => SInv
<1> SUFFICES ASSUME ServerInit PROVE SInv
  OBVIOUS
<1>1. MapperInit
  BY DEF ServerInit
<1>2. IInv
  BY <1>1, InitIInv
<1>3. ServerTypeOK
  BY DEF ServerInit, ServerTypeOK
<1>4. Holdings
  BY <1>1 DEF ServerInit, MapperInit, Holdings, Registered, Serving
<1>5. Streams /\ Finished
  BY DEF ServerInit, Streams, Finished
<1> QED
  BY <1>2, <1>3, <1>4, <1>5 DEF SInv

\* A step of the mapper changes what a connection holds only while it waits.
LEMMA MapperStepSInv ==
  ASSUME SInv, MapperStep
  PROVE  Holdings'
<1> USE DEF SInv
<1>1. UNCHANGED <<main, stage, tcp, device, video>>
  BY DEF MapperStep
<1>2. CASE PollCancel /\ shutdown
  <2>1. msgs' = <<>> /\ UNCHANGED <<guards, receivers>>
    BY <1>2 DEF PollCancel
  <2>2. \A c \in Conns :
          /\ reply'[c] = "registered" <=> reply[c] = "registered"
          /\ (\A i \in DOMAIN msgs : msgs[i] # c) => reply'[c] = reply[c]
    BY <1>2 DEF PollCancel, IInv, MapperTypeOK, Requests
  <2>3. ASSUME NEW c \in Conns, stage[c] \in {"none", "accepted", "registering"}
        PROVE  reply'[c] = "none"
    BY <2>2, <2>3 DEF Holdings
  <2> QED
    BY <1>1, <2>1, <2>2, <2>3 DEF Holdings, Registered
<1>3. CASE PollRegister /\ msgs # <<>>
  <2> DEFINE b == Head(msgs)
  <2>1. /\ b \in Conns /\ 1 \in DOMAIN msgs /\ b = msgs[1]
        /\ msgs' = Tail(msgs)
        /\ \A i \in DOMAIN msgs' : i + 1 \in DOMAIN msgs /\ msgs'[i] = msgs[i + 1]
    BY <1>3, TailFacts DEF PollRegister, IInv, MapperTypeOK
  <2>2. stage[b] = "awaiting"
    BY <2>1 DEF Holdings
  <2>3. \/ /\ reply' = [reply EXCEPT ![b] = "registered"]
           /\ guards' = guards \cup {b} /\ receivers' = receivers \cup {b}
        \/ /\ reply' = [reply EXCEPT ![b] = "refused"]
           /\ UNCHANGED <<guards, receivers>>
    BY <1>3 DEF PollRegister, register_input
  <2>4. reply \in [Conns -> {"none", "registered", "refused", "dropped"}]
        /\ reply[b] = "none"
    BY <2>1 DEF IInv, MapperTypeOK, Requests
  <2>5. ASSUME NEW c \in Conns, c # b
        PROVE  /\ reply'[c] = reply[c]
               /\ (c \in guards' <=> c \in guards) /\ (c \in receivers' <=> c \in receivers)
    BY <2>3, <2>4, <2>5
  <2>6. \A c \in Conns : \A i \in DOMAIN msgs' : msgs'[i] = c => stage'[c] = "awaiting"
    BY <1>1, <2>1 DEF Holdings
  <2>7. \A c \in Conns :
          stage'[c] \in {"none", "accepted", "registering"} => reply'[c] = "none"
    BY <1>1, <2>2, <2>5 DEF Holdings
  <2>8. b \notin guards /\ b \notin receivers
    BY <2>1, <2>2, <2>4 DEF Holdings, Registered, Serving
  <2>9. ASSUME NEW c \in Conns
        PROVE  /\ c \in guards' <=> Registered(c)'
               /\ c \in receivers' <=> (Registered(c)' \/ stage'[c] = "drop_receiver")
    <3>1. CASE c = b
      <4>1. Registered(c)' <=> reply'[b] = "registered"
        BY <1>1, <2>2, <3>1 DEF Registered, Serving
      <4>2. reply'[b] = "registered" <=> b \in guards'
        BY <2>1, <2>3, <2>4, <2>8
      <4>3. reply'[b] = "registered" <=> b \in receivers'
        BY <2>1, <2>3, <2>4, <2>8
      <4> QED
        BY <1>1, <2>2, <3>1, <4>1, <4>2, <4>3
    <3>2. CASE c # b
      BY <1>1, <2>5, <3>2 DEF Holdings, Registered
    <3> QED
      BY <3>1, <3>2
  <2> QED
    BY <2>6, <2>7, <2>9 DEF Holdings
<1>4. CASE \/ PollCancel /\ ~shutdown
           \/ PollRegister /\ msgs = <<>>
           \/ PollRemove \/ PollPacket \/ PollNothing
           \/ Shutdown \/ \E a \in Addrs : PacketArrives(a)
  <2>1. UNCHANGED <<msgs, reply, guards, receivers>>
    BY <1>4 DEF PollCancel, PollRegister, PollRemove, PollPacket, PollNothing, Shutdown,
                PacketArrives
  <2> QED
    BY <1>1, <2>1 DEF Holdings, Registered
<1> QED
  BY <1>2, <1>3, <1>4 DEF MapperStep, MapperTask

\* Steps of a connection's task that touch neither the mapper nor another task's
\* state: only the stage, its socket, its device and its stream.
LEMMA TaskAloneSInv ==
  ASSUME SInv, NEW c \in Conns,
         \/ CreateDevice(c) \/ CreateDeviceFails(c) \/ RegisterFails(c) \/ SpawnVideo(c)
         \/ ExitLoop(c) \/ NoExit(c) \/ InputEnds(c) \/ NoEvent(c)
         \/ CancelVideo(c) \/ JoinVideo(c) \/ ShutdownTcp(c) \/ ReleaseDevice(c)
  PROVE  ServerTypeOK' /\ Holdings' /\ Streams' /\ Finished'
<1> USE DEF SInv, To
<1>1. /\ stage \in [Conns -> {"none", "accepted", "registering", "awaiting", "exits",
                          "events", "cancel_video", "join_video", "shutdown_tcp",
                          "drop_guard", "drop_receiver", "drop_device", "done"}]
      /\ tcp \in [Conns -> {"none", "open", "fin", "reset", "data", "shut"}]
      /\ device = {b \in Conns : stage[b] \notin {"none", "accepted", "done"}}
      /\ video \in [Conns -> {"none", "running", "ended"}]
  BY DEF ServerTypeOK
<1>2. UNCHANGED <<mapperVars, main>>
  BY DEF CreateDevice, CreateDeviceFails, RegisterFails, SpawnVideo, ExitLoop, NoExit,
         InputEnds, NoEvent, CancelVideo, JoinVideo, ShutdownTcp, ReleaseDevice
<1>3. main # "done"
  BY DEF CreateDevice, CreateDeviceFails, RegisterFails, SpawnVideo, ExitLoop, NoExit,
         InputEnds, NoEvent, CancelVideo, JoinVideo, ShutdownTcp, ReleaseDevice, Finished
<1>4. Finished'
  BY <1>2, <1>3 DEF Finished
<1>5. ServerTypeOK'
  BY <1>1, <1>2 DEF ServerTypeOK, CreateDevice, CreateDeviceFails, RegisterFails,
         SpawnVideo, ExitLoop, NoExit, InputEnds, NoEvent, CancelVideo, JoinVideo,
         ShutdownTcp, ReleaseDevice
<1>6. \A b \in Conns : b # c => stage'[b] = stage[b]
  BY <1>1 DEF CreateDevice, CreateDeviceFails, RegisterFails, SpawnVideo, ExitLoop,
         NoExit, InputEnds, NoEvent, CancelVideo, JoinVideo, ShutdownTcp, ReleaseDevice
<1>7. /\ Registered(c)' <=> Registered(c)
      /\ stage[c] # "drop_receiver" /\ stage'[c] # "drop_receiver"
      /\ stage'[c] \in {"none", "accepted", "registering"} => reply[c] = "none"
      /\ \A i \in DOMAIN msgs : msgs[i] = c => stage'[c] = "awaiting"
  <2>1. CASE RegisterFails(c)
    <3>1. (\E i \in DOMAIN msgs : msgs[i] = c) => reply[c] = "none"
      BY DEF IInv, Requests
    <3> QED
      BY <1>1, <1>2, <2>1, <3>1 DEF RegisterFails, Registered, Serving, Holdings, mapperVars
  <2>2. CASE SpawnVideo(c)
    <3>1. (\E i \in DOMAIN msgs : msgs[i] = c) => reply[c] = "none"
      BY DEF IInv, Requests
    <3> QED
      BY <1>1, <1>2, <2>2, <3>1 DEF SpawnVideo, Registered, Serving, mapperVars
  <2>3. CASE \/ CreateDevice(c) \/ CreateDeviceFails(c)
             \/ ExitLoop(c) \/ NoExit(c) \/ InputEnds(c) \/ NoEvent(c)
             \/ CancelVideo(c) \/ JoinVideo(c) \/ ShutdownTcp(c) \/ ReleaseDevice(c)
    BY <1>1, <1>2, <2>3 DEF CreateDevice, CreateDeviceFails, ExitLoop, NoExit, InputEnds,
       NoEvent, CancelVideo, JoinVideo, ShutdownTcp, ReleaseDevice, Registered, Serving,
       Holdings, mapperVars
  <2> QED
    BY <2>1, <2>2, <2>3
<1>8. Holdings'
  BY <1>2, <1>6, <1>7 DEF Holdings, Registered, mapperVars
<1>9. Streams'
  <2>1. \A b \in Conns : b # c => tcp'[b] = tcp[b] /\ video'[b] = video[b]
    BY <1>1 DEF CreateDevice, CreateDeviceFails, RegisterFails, SpawnVideo, ExitLoop,
       NoExit, InputEnds, NoEvent, CancelVideo, JoinVideo, ShutdownTcp, ReleaseDevice
  <2>2. /\ video'[c] = "running" =>
             stage'[c] \in {"exits", "events", "cancel_video", "join_video"}
        /\ stage'[c] \in {"accepted", "registering", "awaiting", "exits", "events",
                     "cancel_video", "join_video", "shutdown_tcp"} => tcp'[c] # "shut"
    BY <1>1 DEF CreateDevice, CreateDeviceFails, RegisterFails, SpawnVideo, ExitLoop,
       NoExit, InputEnds, NoEvent, CancelVideo, JoinVideo, ShutdownTcp, ReleaseDevice,
       Streams
  <2> QED
    BY <1>6, <2>1, <2>2 DEF Streams
<1> QED
  BY <1>4, <1>5, <1>8, <1>9

\* Steps of a connection's task at the mapper's interface.
LEMMA TaskAtMapperSInv ==
  ASSUME SInv, NEW c \in Conns,
         Register(c) \/ EmitInput(c) \/ ReleaseGuard(c) \/ ReleaseReceiver(c)
  PROVE  ServerTypeOK' /\ Holdings' /\ Streams' /\ Finished'
<1> USE DEF SInv, To
<1>1. /\ stage \in [Conns -> {"none", "accepted", "registering", "awaiting", "exits",
                          "events", "cancel_video", "join_video", "shutdown_tcp",
                          "drop_guard", "drop_receiver", "drop_device", "done"}]
      /\ device = {b \in Conns : stage[b] \notin {"none", "accepted", "done"}}
  BY DEF ServerTypeOK
<1>2. /\ UNCHANGED <<main, tcp, device, video>>
      /\ reply' = reply
      /\ \A b \in Conns : b # c => stage'[b] = stage[b]
  BY <1>1 DEF Register, EmitInput, ReleaseGuard, ReleaseReceiver, SendRegister, ReadInput,
         DropGuard, DropReceiver
<1>3. main # "done"
  BY DEF Register, EmitInput, ReleaseGuard, ReleaseReceiver, Finished
<1>4. Finished'
  BY <1>2, <1>3 DEF Finished
<1>5. ServerTypeOK'
  BY <1>1, <1>2 DEF ServerTypeOK, Register, EmitInput, ReleaseGuard, ReleaseReceiver
<1>6. Streams'
  BY <1>1, <1>2 DEF Streams, Register, EmitInput, ReleaseGuard, ReleaseReceiver
<1>7. Holdings'
  <2>1. CASE Register(c)
    <3>1. /\ msgs' = Append(msgs, c) /\ UNCHANGED <<guards, receivers>>
          /\ stage[c] = "registering" /\ stage'[c] = "awaiting"
      BY <1>1, <2>1 DEF Register, SendRegister
    <3>2. \A i \in DOMAIN msgs' :
            (i \in DOMAIN msgs /\ msgs'[i] = msgs[i]) \/ msgs'[i] = c
      BY <3>1, AppendFacts DEF IInv, MapperTypeOK
    <3>3. reply[c] = "none"
      BY <3>1 DEF Holdings
    <3> QED
      BY <1>2, <3>1, <3>2, <3>3 DEF Holdings, Registered, Serving
  <2>2. CASE EmitInput(c)
    <3>1. /\ UNCHANGED <<msgs, guards, receivers>>
          /\ stage[c] = "events" /\ stage'[c] \in {"exits", "cancel_video"}
      BY <1>1, <2>2 DEF EmitInput, ReadInput
    <3> QED
      BY <1>2, <3>1 DEF Holdings, Registered, Serving
  <2>3. CASE ReleaseGuard(c)
    <3>1. /\ UNCHANGED <<msgs, receivers>> /\ guards' = guards \ {c}
          /\ stage[c] = "drop_guard" /\ stage'[c] = "drop_receiver"
      BY <1>1, <2>3 DEF ReleaseGuard, DropGuard
    <3> QED
      BY <1>2, <3>1 DEF Holdings, Registered, Serving
  <2>4. CASE ReleaseReceiver(c)
    <3>1. /\ UNCHANGED <<msgs, guards>> /\ receivers' = receivers \ {c}
          /\ stage[c] = "drop_receiver" /\ stage'[c] = "drop_device"
      BY <1>1, <2>4 DEF ReleaseReceiver, DropReceiver
    <3> QED
      BY <1>2, <3>1 DEF Holdings, Registered, Serving
  <2> QED
    BY <2>1, <2>2, <2>3, <2>4
<1> QED
  BY <1>4, <1>5, <1>6, <1>7

\* Clients, streams that end, and main.
LEMMA OthersSInv ==
  ASSUME SInv,
         \/ \E c \in Conns : \/ Accept(c) \/ ClientLeaves(c) \/ ClientResets(c)
                             \/ ClientSendsData(c) \/ VideoFails(c)
         \/ MainTask
         \/ UNCHANGED serverVars
  PROVE  ServerTypeOK' /\ Holdings' /\ Streams' /\ Finished'
<1> USE DEF SInv
<1>1. CASE MainTask \/ UNCHANGED serverVars
  <2>1. UNCHANGED <<mapperVars, stage, tcp, device, video>>
    BY <1>1 DEF MainTask, MainStops, MainCloses, MainWaits, serverVars
  <2>2. ServerTypeOK'
    BY <1>1, <2>1 DEF MainTask, MainStops, MainCloses, MainWaits, serverVars, ServerTypeOK
  <2>3. Holdings' /\ Streams'
    BY <2>1 DEF Holdings, Registered, Streams, mapperVars
  <2>4. Finished'
    BY <1>1, <2>1 DEF MainTask, MainStops, MainCloses, MainWaits, serverVars, Finished
  <2> QED
    BY <2>2, <2>3, <2>4
<1>2. ASSUME NEW c \in Conns,
             \/ ClientLeaves(c) \/ ClientResets(c) \/ ClientSendsData(c) \/ VideoFails(c)
      PROVE  ServerTypeOK' /\ Holdings' /\ Streams' /\ Finished'
  <2>1. UNCHANGED <<mapperVars, main, stage, device>>
    BY <1>2 DEF ClientLeaves, ClientResets, ClientSendsData, VideoFails
  <2>2. ServerTypeOK'
    BY <1>2 DEF ServerTypeOK, ClientLeaves, ClientResets, ClientSendsData, VideoFails
  <2>3. Holdings' /\ Finished'
    BY <2>1 DEF Holdings, Registered, Finished, mapperVars
  <2>4. Streams'
    BY <1>2, <2>1 DEF Streams, ServerTypeOK, ClientLeaves, ClientResets, ClientSendsData,
                      VideoFails
  <2> QED
    BY <2>2, <2>3, <2>4
<1>3. ASSUME NEW c \in Conns, Accept(c)
      PROVE  ServerTypeOK' /\ Holdings' /\ Streams' /\ Finished'
  <2> USE DEF To
  <2>1. /\ main = "accepting" /\ stage[c] = "none"
        /\ stage' = [stage EXCEPT ![c] = "accepted"]
        /\ tcp' = [tcp EXCEPT ![c] = "open"]
        /\ UNCHANGED <<mapperVars, main, device, video>>
    BY <1>3 DEF Accept
  <2>2. ServerTypeOK'
    BY <2>1 DEF ServerTypeOK
  <2>3. Finished'
    BY <2>1 DEF Finished
  <2>4. Streams'
    BY <2>1 DEF Streams, ServerTypeOK
  <2>5. /\ stage'[c] = "accepted"
        /\ \A b \in Conns : b # c => stage'[b] = stage[b]
    BY <2>1 DEF ServerTypeOK
  <2>6. Holdings'
    BY <2>1, <2>5 DEF Holdings, Registered, Serving, mapperVars
  <2> QED
    BY <2>2, <2>3, <2>4, <2>6
<1> QED
  BY <1>1, <1>2, <1>3

\* Every step of the server keeps its inductive invariant.
LEMMA NextSInv ==
  ASSUME SInv, [ServerNext]_serverVars
  PROVE  SInv'
<1>1. IInv'
  <2>1. [MapperNext]_mapperVars
    BY ServerStepUsesMapper
  <2> QED
    BY <2>1, NextIInv DEF SInv
<1>2. CASE MapperStep
  <2>1. UNCHANGED <<main, stage, tcp, device, video>>
    BY <1>2 DEF MapperStep
  <2>2. ServerTypeOK' /\ Streams' /\ Finished'
    BY <2>1 DEF SInv, ServerTypeOK, Streams, Finished
  <2>3. Holdings'
    BY <1>2, MapperStepSInv
  <2> QED
    BY <1>1, <2>2, <2>3 DEF SInv
<1>3. CASE \E c \in Conns : ConnectionTask(c)
  BY <1>1, <1>3, TaskAloneSInv, TaskAtMapperSInv DEF ConnectionTask, SInv
<1>4. CASE \/ \E c \in Conns : \/ Accept(c) \/ ClientLeaves(c) \/ ClientResets(c)
                               \/ ClientSendsData(c) \/ VideoFails(c)
           \/ MainTask
           \/ UNCHANGED serverVars
  BY <1>1, <1>4, OthersSInv DEF SInv
<1> QED
  BY <1>2, <1>3, <1>4 DEF ServerNext

-----------------------------------------------------------------------------
(* Safety of the server.                                                   *)

\* The inductive invariant of the server holds in every reachable state.
THEOREM ServerInvariance == ServerSpec => []SInv
  BY InitSInv, NextSInv, PTL DEF ServerSpec

\* The tasks' state is well formed, and a device exists from its creation to the last
\* drop of its task, whatever path leads there.
THEOREM ServerTypeCorrect == ServerSpec => []ServerTypeOK
<1>1. SInv => ServerTypeOK
  BY DEF SInv
<1> QED
  BY <1>1, ServerInvariance, PTL

\* In the server, too, guards keep their connections registered, nothing leaks and no
\* removal is stale.
THEOREM ServerKeepsMapper ==
  ServerSpec => [](GuardKeepsRegistration /\ NoLeakedRegistration /\ NoStaleRemoval)
<1>1. SInv => GuardKeepsRegistration /\ NoLeakedRegistration /\ NoStaleRemoval
  BY DEF SInv, IInv
<1> QED
  BY <1>1, ServerInvariance, PTL

\* The server as a whole implements the lease of addresses.
THEOREM ServerLeases == ServerSpec => ImplementsLease
<1>1. ServerInit => Lease!LeaseInit
  BY LeaseInitially DEF ServerInit
<1>2. SInv /\ [ServerNext]_serverVars => [Lease!LeaseNext]_leaseVars
  BY ServerStepUsesMapper, LeaseStep DEF SInv
<1> QED
  BY <1>1, <1>2, ServerInvariance, PTL
  DEF ServerSpec, ImplementsLease, Lease!LeaseSpec, leaseVars, GaveUp

\* Video is sent to an address only while it is leased, and before its socket is shut
\* down.
THEOREM StreamWithinLease == ServerSpec => []VideoWhileLeased
<1>1. SInv => VideoWhileLeased
  BY DEF SInv, Streams, Holdings, Registered, Serving, VideoWhileLeased
<1> QED
  BY <1>1, ServerInvariance, PTL

\* Nothing is left when the server has shut down.
THEOREM ExitIsClean == ServerSpec => []CleanExit
<1>1. SInv => CleanExit
  <2> SUFFICES ASSUME SInv, main = "done" PROVE CleanExit
    BY DEF CleanExit
  <2>1. \A c \in Conns : stage[c] \in {"none", "done"}
    BY DEF SInv, Finished
  <2>2. \A c \in Conns : c \notin guards /\ c \notin receivers /\ video[c] # "running"
    BY <2>1 DEF SInv, Holdings, Registered, Serving, Streams
  <2>3. guards \subseteq Conns /\ receivers \subseteq Conns
    BY DEF SInv, IInv, MapperTypeOK
  <2>4. device = {}
    BY <2>1 DEF SInv, ServerTypeOK
  <2> QED
    BY <2>2, <2>3, <2>4 DEF CleanExit
<1> QED
  BY <1>1, ServerInvariance, PTL

=============================================================================
