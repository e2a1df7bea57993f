--------------------------- MODULE RemotePlayServer ---------------------------
(***************************************************************************)
(* The server's tasks (server/src/main.rs and connection_task.rs): main    *)
(* accepts connections until Ctrl-C and then waits for every task; each    *)
(* connection creates a virtual device, registers with the input mapper,   *)
(* spawns a video stream and then serves input until something ends it.    *)
(*                                                                         *)
(* The select of a connection is biased: its exits (token, video, TCP) are *)
(* polled before its events (input, timeout), and other threads run in     *)
(* between; stages "exits" and "events" are those two groups of polls.     *)
(* The client and the TCP connection are the environment.                  *)
(*                                                                         *)
(* A definition named X_<mistake> is X with a plausible mistake, used only *)
(* by the mutation runs.                                                   *)
(***************************************************************************)
EXTENDS InputMapper

VARIABLES
  main,    \* "accepting", "closing", "waiting" for the tasks, or "done"
  stage,   \* where each connection's task is
  tcp,     \* each connection's socket as the server sees it
  device,  \* connections whose virtual device exists
  video    \* each connection's video stream task

serverVars == <<mapperVars, main, stage, tcp, device, video>>

To(c, s) == stage' = [stage EXCEPT ![c] = s]


\* peek returns: end of stream, a reset, or data no client should send.
PeekReady_NotAtEnd(c) == tcp[c] \in {"reset", "data"}
PeekReady(c) == tcp[c] \in {"fin", "reset", "data"}

-----------------------------------------------------------------------------
(* The clients.                                                            *)

\* The kernel accepts an address again once its earlier connection is reset or
\* shut down, whether or not that connection's task has noticed.
Connectable(c) ==
  \A b \in Conns :
    b # c /\ AddrOf[b] = AddrOf[c] => tcp[b] \in {"none", "reset", "shut"}

\* main's accept loop spawns the connection's task; it may still do so after
\* Ctrl-C, when `next` was ready first.
Accept(c) ==
  /\ main = "accepting"
  /\ stage[c] = "none"
  /\ Connectable(c)
  /\ To(c, "accepted")
  /\ tcp' = [tcp EXCEPT ![c] = "open"]
  /\ UNCHANGED <<mapperVars, main, device, video>>

ClientLeaves(c) ==
  /\ tcp[c] = "open"
  /\ tcp' = [tcp EXCEPT ![c] = "fin"]
  /\ UNCHANGED <<mapperVars, main, stage, device, video>>

ClientResets(c) ==
  /\ tcp[c] \in {"open", "fin", "data"}
  /\ tcp' = [tcp EXCEPT ![c] = "reset"]
  /\ UNCHANGED <<mapperVars, main, stage, device, video>>

ClientSendsData(c) ==
  /\ tcp[c] = "open"
  /\ tcp' = [tcp EXCEPT ![c] = "data"]
  /\ UNCHANGED <<mapperVars, main, stage, device, video>>

-----------------------------------------------------------------------------
(* A connection's task.                                                    *)

CreateDevice(c) ==
  /\ stage[c] = "accepted"
  /\ device' = device \cup {c}
  /\ To(c, "registering")
  /\ UNCHANGED <<mapperVars, main, tcp, video>>

\* new_device fails, or peer_addr does: only the socket is closed.
CreateDeviceFails(c) ==
  /\ stage[c] = "accepted"
  /\ tcp' = [tcp EXCEPT ![c] = IF @ = "reset" THEN @ ELSE "shut"]
  /\ To(c, "done")
  /\ UNCHANGED <<mapperVars, main, device, video>>

\* Neither await of register_input watches the token.
Register(c) ==
  /\ stage[c] = "registering"
  /\ SendRegister(c)
  /\ To(c, "awaiting")
  /\ UNCHANGED <<main, tcp, device, video>>

RegisterFails_LeaksDevice(c) ==
  /\ \/ stage[c] = "registering" /\ mapper = "exited"
     \/ stage[c] = "awaiting" /\ reply[c] \in {"refused", "dropped"}
  /\ To(c, "done")
  /\ UNCHANGED <<mapperVars, main, tcp, device, video>>

RegisterFails(c) ==
  /\ \/ stage[c] = "registering" /\ mapper = "exited"
     \/ stage[c] = "awaiting" /\ reply[c] \in {"refused", "dropped"}
  /\ To(c, "drop_device")
  /\ UNCHANGED <<mapperVars, main, tcp, device, video>>

SpawnVideo(c) ==
  /\ stage[c] = "awaiting"
  /\ reply[c] = "registered"
  /\ video' = [video EXCEPT ![c] = "running"]
  /\ To(c, "exits")
  /\ UNCHANGED <<mapperVars, main, tcp, device>>

\* One of the exits is ready: leave the loop.
ExitLoop(c) ==
  /\ stage[c] = "exits"
  /\ shutdown \/ video[c] = "ended" \/ PeekReady(c)
  /\ To(c, "cancel_video")
  /\ UNCHANGED <<mapperVars, main, tcp, device, video>>

NoExit(c) ==
  /\ stage[c] = "exits"
  /\ ~shutdown /\ video[c] # "ended" /\ ~PeekReady(c)
  /\ To(c, "events")
  /\ UNCHANGED <<mapperVars, main, tcp, device, video>>

\* A changed input state goes to the device; an error of emit_input ends the loop.
EmitInput(c) ==
  /\ stage[c] = "events"
  /\ ReadInput(c)
  /\ To(c, "exits") \/ To(c, "cancel_video")
  /\ UNCHANGED <<main, tcp, device, video>>

\* The watch's sender is gone, or no input came for CLIENT_CONNECTION_TIMEOUT.
InputEnds(c) ==
  /\ stage[c] = "events"
  /\ c \notin unseen
  /\ To(c, "cancel_video")
  /\ UNCHANGED <<mapperVars, main, tcp, device, video>>

\* Nothing is ready: the task sleeps and is woken to poll from the top.
NoEvent(c) ==
  /\ stage[c] = "events"
  /\ c \notin unseen
  /\ ~InputClosed(c)
  /\ To(c, "exits")
  /\ UNCHANGED <<mapperVars, main, tcp, device, video>>

CancelVideo(c) ==
  /\ stage[c] = "cancel_video"
  /\ To(c, "join_video")
  /\ UNCHANGED <<mapperVars, main, tcp, device, video>>

JoinVideo_NotAwaited(c) ==
  /\ stage[c] = "join_video"
  /\ To(c, "shutdown_tcp")
  /\ UNCHANGED <<mapperVars, main, tcp, device, video>>

\* The handle is awaited unless the select already consumed its result.
JoinVideo(c) ==
  /\ stage[c] = "join_video"
  /\ video[c] = "ended"
  /\ To(c, "shutdown_tcp")
  /\ UNCHANGED <<mapperVars, main, tcp, device, video>>

\* tcp_stream.shutdown(): on a reset connection an error, returned after the same
\* drops.
ShutdownTcp(c) ==
  /\ stage[c] = "shutdown_tcp"
  /\ tcp' = [tcp EXCEPT ![c] = IF @ = "reset" THEN @ ELSE "shut"]
  /\ To(c, "drop_guard")
  /\ UNCHANGED <<mapperVars, main, device, video>>

ReleaseGuard_ReceiverFirst(c) ==
  /\ stage[c] = "drop_guard"
  /\ receivers' = receivers \ {c}
  /\ To(c, "drop_receiver")
  /\ UNCHANGED <<mapper, shutdown, input_map, msgs, removals, reply, guards, unseen,
                 udp, main, tcp, device, video>>

\* Locals drop in reverse: _input_guard, input_receiver, device.
ReleaseGuard(c) ==
  /\ stage[c] = "drop_guard"
  /\ DropGuard(c)
  /\ To(c, "drop_receiver")
  /\ UNCHANGED <<main, tcp, device, video>>

ReleaseReceiver(c) ==
  /\ stage[c] = "drop_receiver"
  /\ DropReceiver(c)
  /\ To(c, "drop_device")
  /\ UNCHANGED <<main, tcp, device, video>>

\* The device, and last the TCP stream, which closes the socket.
ReleaseDevice(c) ==
  /\ stage[c] = "drop_device"
  /\ device' = device \ {c}
  /\ tcp' = [tcp EXCEPT ![c] = IF @ = "reset" THEN @ ELSE "shut"]
  /\ To(c, "done")
  /\ UNCHANGED <<mapperVars, main, video>>

ConnectionTask(c) ==
  \/ CreateDevice(c) \/ CreateDeviceFails(c)
  \/ Register(c) \/ RegisterFails(c) \/ SpawnVideo(c)
  \/ ExitLoop(c) \/ NoExit(c) \/ EmitInput(c) \/ InputEnds(c) \/ NoEvent(c)
  \/ CancelVideo(c) \/ JoinVideo(c) \/ ShutdownTcp(c)
  \/ ReleaseGuard(c) \/ ReleaseReceiver(c) \/ ReleaseDevice(c)

\* The stream ends by itself: an error, a panic, the end of the capture.
VideoFails(c) ==
  /\ video[c] = "running"
  /\ video' = [video EXCEPT ![c] = "ended"]
  /\ UNCHANGED <<mapperVars, main, stage, tcp, device>>

VideoCancelled_Never(c) == FALSE

\* Its token is the connection's child: cancelled by either, it ends (VideoStream).
VideoCancelled(c) == shutdown \/ stage[c] = "join_video"

VideoEnds(c) == VideoCancelled(c) /\ VideoFails(c)

-----------------------------------------------------------------------------
(* main.                                                                   *)

MainStops ==
  /\ main = "accepting"
  /\ shutdown
  /\ main' = "closing"
  /\ UNCHANGED <<mapperVars, stage, tcp, device, video>>

\* task_tracker.close() and cancel_token.cancel(): the token already is.
MainCloses ==
  /\ main = "closing"
  /\ main' = "waiting"
  /\ UNCHANGED <<mapperVars, stage, tcp, device, video>>

MainWaits_ForMapperOnly ==
  /\ main = "waiting"
  /\ mapper = "exited"
  /\ main' = "done"
  /\ UNCHANGED <<mapperVars, stage, tcp, device, video>>

\* task_tracker.wait(): the mapper and every connection spawned have returned.
MainWaits ==
  /\ main = "waiting"
  /\ mapper = "exited"
  /\ \A c \in Conns : stage[c] \in {"none", "done"}
  /\ main' = "done"
  /\ UNCHANGED <<mapperVars, stage, tcp, device, video>>

MainTask == MainStops \/ MainCloses \/ MainWaits

ServerInit ==
  /\ MapperInit
  /\ main = "accepting"
  /\ stage = [c \in Conns |-> "none"]
  /\ tcp = [c \in Conns |-> "none"]
  /\ device = {}
  /\ video = [c \in Conns |-> "none"]

MapperStep ==
  /\ MapperTask \/ Shutdown \/ \E a \in Addrs : PacketArrives(a)
  /\ UNCHANGED <<main, stage, tcp, device, video>>

ServerNext ==
  \/ MapperStep
  \/ \E c \in Conns :
       \/ Accept(c) \/ ClientLeaves(c) \/ ClientResets(c) \/ ClientSendsData(c)
       \/ ConnectionTask(c) \/ VideoFails(c)
  \/ MainTask

\* Every task is polled when it is woken, and a cancelled stream comes to its end
\* (VideoStream!StreamEnds).  Nothing is assumed of clients, timeouts or Ctrl-C.
ServerSpec ==
  /\ ServerInit
  /\ [][ServerNext]_serverVars
  /\ WF_serverVars(MapperTask /\ UNCHANGED <<main, stage, tcp, device, video>>)
  /\ \A c \in Conns : WF_serverVars(ConnectionTask(c)) /\ WF_serverVars(VideoEnds(c))
  /\ WF_serverVars(MainTask)
-----------------------------------------------------------------------------
(* Correctness.                                                            *)

\* The tasks' state is well formed; a device exists from its creation until the
\* task's last drop, whatever path leads there.
ServerTypeOK ==
  /\ main \in {"accepting", "closing", "waiting", "done"}
  /\ stage \in [Conns -> {"none", "accepted", "registering", "awaiting", "exits",
                          "events", "cancel_video", "join_video", "shutdown_tcp",
                          "drop_guard", "drop_receiver", "drop_device", "done"}]
  /\ tcp \in [Conns -> {"none", "open", "fin", "reset", "data", "shut"}]
  /\ device = {c \in Conns : stage[c] \notin {"none", "accepted", "done"}}
  /\ video \in [Conns -> {"none", "running", "ended"}]

\* The video stream never outlives the connection's place in the mapper, nor its
\* socket's shutdown: video is sent to an address only while it is leased.  As a
\* lease has one holder, two streams never mix their sequence numbers at a client.
VideoWhileLeased ==
  \A c \in Conns : video[c] = "running" => c \in guards /\ tcp[c] # "shut"

\* When the server has shut down nothing is left: no device, no stream, no guard.
CleanExit ==
  main = "done" =>
    /\ device = {} /\ guards = {} /\ receivers = {}
    /\ \A c \in Conns : video[c] # "running"

\* The tasks use the mapper as its contract says, drop order included.
UsesMapper == MapperInit /\ [][MapperNext]_mapperVars

\* A connection whose client is gone is cleaned up: its task ends, its device is
\* dropped and its address is free again.
ClosedIsCleanedUp ==
  \A c \in Conns :
    tcp[c] \in {"fin", "reset"} ~>
      stage[c] = "done" /\ c \notin device /\ input_map[AddrOf[c]] # c

\* Ctrl-C shuts the server down, whatever each task is waiting for
\* (main.rs:104).
ShutdownCompletes == shutdown ~> main = "done"
=============================================================================
