------------------------------ MODULE InputMapper ------------------------------
(***************************************************************************)
(* The server's input mapper (server/src/input_mapper.rs): a task that     *)
(* owns the map from client addresses to connections, takes registrations  *)
(* from a bounded queue and removals from an unbounded one, and hands each *)
(* UDP input packet to the connection of its source address.               *)
(*                                                                         *)
(* Its biased select polls its branches in order, and other threads run    *)
(* between two polls: each poll is a step, and `mapper` names the next.    *)
(* A connection is the identity of its watch channel; the connections'     *)
(* side of the interface (register, drop the guard, drop the receiver) is  *)
(* a set of operators that RemotePlayServer composes with the tasks.       *)
(*                                                                         *)
(* A definition named X_<mistake> is X with a plausible mistake, used only *)
(* by the mutation runs.                                                   *)
(***************************************************************************)
EXTENDS Integers, Sequences, FiniteSets

CONSTANTS
  Conns,        \* connections ever made
  Addrs,        \* client addresses
  AddrOf,       \* the peer address of each connection
  NoConn,
  MsgCapacity   \* 8: the bound of the registration queue

ASSUME MapperAssumption ==
  /\ AddrOf \in [Conns -> Addrs]
  /\ NoConn \notin Conns
  /\ MsgCapacity \in Nat \ {0}

VARIABLES
  mapper,     \* the branch the select polls next, or "exited"
  shutdown,   \* the server's cancellation token
  input_map,  \* the connection whose watch sender is stored under an address
  msgs,       \* registration requests, in order
  removals,   \* addresses whose guard was dropped, in order
  reply,      \* the oneshot answer to each connection's request
  guards,     \* connections whose InputMapperGuard is alive
  receivers,  \* connections whose watch receiver is alive
  unseen,     \* connections with an input state they have not read
  udp         \* addresses with an input packet in the socket

mapperVars == <<mapper, shutdown, input_map, msgs, removals, reply, guards,
                receivers, unseen, udp>>

-----------------------------------------------------------------------------
(* The connections' side.                                                  *)

\* msg_sender.send(message).await: waits for room, fails once the mapper is gone.
SendRegister(c) ==
  /\ reply[c] = "none"
  /\ \A i \in DOMAIN msgs : msgs[i] # c
  /\ mapper # "exited"
  /\ Len(msgs) < MsgCapacity
  /\ msgs' = Append(msgs, c)
  /\ UNCHANGED <<mapper, shutdown, input_map, removals, reply, guards, receivers,
                 unseen, udp>>

DropGuard_Silent(c) ==
  /\ c \in guards
  /\ guards' = guards \ {c}
  /\ UNCHANGED <<mapper, shutdown, input_map, msgs, removals, reply, receivers,
                 unseen, udp>>

\* InputMapperGuard::drop.
DropGuard(c) ==
  /\ c \in guards
  /\ guards' = guards \ {c}
  /\ removals' = IF mapper = "exited" THEN removals ELSE Append(removals, AddrOf[c])
  /\ UNCHANGED <<mapper, shutdown, input_map, msgs, reply, receivers, unseen, udp>>

\* The receiver goes after the guard: locals drop in reverse order of binding.
DropReceiver(c) ==
  /\ c \in receivers
  /\ c \notin guards
  /\ receivers' = receivers \ {c}
  /\ UNCHANGED <<mapper, shutdown, input_map, msgs, removals, reply, guards, unseen, udp>>

\* input_receiver.changed() and borrow_and_update().
ReadInput(c) ==
  /\ c \in receivers
  /\ c \in unseen
  /\ unseen' = unseen \ {c}
  /\ UNCHANGED <<mapper, shutdown, input_map, msgs, removals, reply, guards,
                 receivers, udp>>

\* changed() is an error once the sender is gone and nothing is left to read.
InputClosed(c) == c \notin unseen /\ input_map[AddrOf[c]] # c

-----------------------------------------------------------------------------
(* The mapper task.                                                        *)

remove_input_Nothing(a) == UNCHANGED input_map
remove_input(a) == input_map' = [input_map EXCEPT ![a] = NoConn]

\* The mapper returns: its queues, the senders and the unanswered requests drop.
PollCancel ==
  /\ mapper = "cancel"
  /\ IF shutdown
     THEN /\ mapper' = "exited"
          /\ input_map' = [a \in Addrs |-> NoConn]
          /\ reply' = [c \in Conns |->
                         IF \E i \in DOMAIN msgs : msgs[i] = c THEN "dropped" ELSE reply[c]]
          /\ msgs' = <<>>
          /\ removals' = <<>>
     ELSE /\ mapper' = "remove"
          /\ UNCHANGED <<input_map, reply, msgs, removals>>
  /\ UNCHANGED <<shutdown, guards, receivers, unseen, udp>>

PollRemove_AfterRegister ==
  /\ mapper = "remove"
  /\ IF removals # <<>> /\ msgs = <<>>
     THEN /\ remove_input(Head(removals))
          /\ removals' = Tail(removals)
          /\ mapper' = "cancel"
     ELSE mapper' = "register" /\ UNCHANGED <<input_map, removals>>
  /\ UNCHANGED <<shutdown, msgs, reply, guards, receivers, unseen, udp>>

PollRemove ==
  /\ mapper = "remove"
  /\ IF removals # <<>>
     THEN /\ remove_input(Head(removals))
          /\ removals' = Tail(removals)
          /\ mapper' = "cancel"
     ELSE mapper' = "register" /\ UNCHANGED <<input_map, removals>>
  /\ UNCHANGED <<shutdown, msgs, reply, guards, receivers, unseen, udp>>

register_input_Replaces(c) ==
  /\ input_map' = [input_map EXCEPT ![AddrOf[c]] = c]
  /\ reply' = [reply EXCEPT ![c] = "registered"]
  /\ guards' = guards \cup {c}
  /\ receivers' = receivers \cup {c}

register_input_NoRefusal(c) ==
  IF input_map[AddrOf[c]] = NoConn
  THEN /\ input_map' = [input_map EXCEPT ![AddrOf[c]] = c]
       /\ reply' = [reply EXCEPT ![c] = "registered"]
       /\ guards' = guards \cup {c}
       /\ receivers' = receivers \cup {c}
  ELSE UNCHANGED <<input_map, reply, guards, receivers>>

\* register_input: refused while the address has an entry.
register_input(c) ==
  IF input_map[AddrOf[c]] = NoConn
  THEN /\ input_map' = [input_map EXCEPT ![AddrOf[c]] = c]
       /\ reply' = [reply EXCEPT ![c] = "registered"]
       /\ guards' = guards \cup {c}
       /\ receivers' = receivers \cup {c}
  ELSE /\ reply' = [reply EXCEPT ![c] = "refused"]
       /\ UNCHANGED <<input_map, guards, receivers>>

PollRegister ==
  /\ mapper = "register"
  /\ IF msgs # <<>>
     THEN /\ register_input(Head(msgs))
          /\ msgs' = Tail(msgs)
          /\ mapper' = "cancel"
     ELSE /\ mapper' = "packet"
          /\ UNCHANGED <<msgs, input_map, reply, guards, receivers>>
  /\ UNCHANGED <<shutdown, removals, unseen, udp>>

handle_packet_UnreadIsGone(a) ==
  IF input_map[a] = NoConn THEN UNCHANGED <<input_map, unseen>>
  ELSE IF input_map[a] \in receivers \ unseen
       THEN unseen' = unseen \cup {input_map[a]} /\ UNCHANGED input_map
       ELSE remove_input(a) /\ UNCHANGED unseen

\* A packet that deserializes goes to the address's connection; if that has
\* dropped its receiver the entry is removed at once.
handle_packet(a) ==
  IF input_map[a] = NoConn THEN UNCHANGED <<input_map, unseen>>
  ELSE IF input_map[a] \in receivers
       THEN unseen' = unseen \cup {input_map[a]} /\ UNCHANGED input_map
       ELSE remove_input(a) /\ UNCHANGED unseen

PollPacket ==
  /\ mapper = "packet"
  /\ mapper' = "cancel"
  /\ \E a \in udp :
       /\ udp' = udp \ {a}
       /\ handle_packet(a) \/ UNCHANGED <<input_map, unseen>>
  /\ UNCHANGED <<shutdown, msgs, removals, reply, guards, receivers>>

\* Nothing is ready: the task sleeps, and polls from the top when it is woken.
PollNothing ==
  /\ mapper = "packet"
  /\ udp = {}
  /\ mapper' = "cancel"
  /\ UNCHANGED <<shutdown, input_map, msgs, removals, reply, guards, receivers,
                 unseen, udp>>

MapperTask == PollCancel \/ PollRemove \/ PollRegister \/ PollPacket \/ PollNothing

\* A client's datagram reaches the socket; one per address may wait there.
PacketArrives(a) ==
  /\ a \notin udp
  /\ udp' = udp \cup {a}
  /\ UNCHANGED <<mapper, shutdown, input_map, msgs, removals, reply, guards,
                 receivers, unseen>>

\* Ctrl-C.
Shutdown ==
  /\ ~shutdown
  /\ shutdown' = TRUE
  /\ UNCHANGED <<mapper, input_map, msgs, removals, reply, guards, receivers,
                 unseen, udp>>

MapperInit ==
  /\ mapper = "cancel"
  /\ shutdown = FALSE
  /\ input_map = [a \in Addrs |-> NoConn]
  /\ msgs = <<>>
  /\ removals = <<>>
  /\ reply = [c \in Conns |-> "none"]
  /\ guards = {}
  /\ receivers = {}
  /\ unseen = {}
  /\ udp = {}

MapperNext ==
  \/ MapperTask
  \/ Shutdown
  \/ \E a \in Addrs : PacketArrives(a)
  \/ \E c \in Conns : SendRegister(c) \/ DropGuard(c) \/ DropReceiver(c) \/ ReadInput(c)

MapperSpec == MapperInit /\ [][MapperNext]_mapperVars /\ WF_mapperVars(MapperTask)
-----------------------------------------------------------------------------
(* Correctness.                                                            *)

\* The mapper's state is well formed.
MapperTypeOK ==
  /\ mapper \in {"cancel", "remove", "register", "packet", "exited"}
  /\ shutdown \in BOOLEAN
  /\ input_map \in [Addrs -> Conns \cup {NoConn}]
  /\ msgs \in Seq(Conns) /\ Len(msgs) <= MsgCapacity
  /\ removals \in Seq(Addrs)
  /\ reply \in [Conns -> {"none", "registered", "refused", "dropped"}]
  /\ guards \subseteq receivers
  /\ receivers \subseteq Conns
  /\ unseen \subseteq Conns
  /\ udp \subseteq Addrs

\* A live guard keeps its connection registered ("A guard that keeps the client
\* registered in the input mapper as long as it is alive", input_mapper.rs:43):
\* no removal meant for an earlier connection of the same address, whether queued
\* or made by handle_packet, takes the entry of a later one.
GuardKeepsRegistration ==
  mapper # "exited" => \A c \in guards : input_map[AddrOf[c]] = c

\* No registration leaks: an entry whose guard is gone has its removal queued.
NoLeakedRegistration ==
  \A a \in Addrs :
    input_map[a] # NoConn /\ input_map[a] \notin guards
      => \E i \in DOMAIN removals : removals[i] = a

\* A queued removal finds at most the entry it was queued for: at most one removal
\* waits per address, and none while the address has a live guard.
NoStaleRemoval ==
  \A i, j \in DOMAIN removals :
    /\ removals[i] = removals[j] => i = j
    /\ \A c \in guards : AddrOf[c] # removals[i]

Lease == INSTANCE AddressLease
           WITH holder <- input_map,
                gave_up <- {c \in Conns : reply[c] = "registered" /\ c \notin guards},
                open <- mapper # "exited"

\* The mapper implements the lease of addresses.
ImplementsLease == Lease!LeaseSpec

\* Every request is answered, or dropped by a shutdown: a connection that
\* registers is never left waiting (input_mapper.rs:186).
RequestsAnswered ==
  \A c \in Conns : (\E i \in DOMAIN msgs : msgs[i] = c) ~> reply[c] # "none"

\* An entry whose guard was dropped goes away, so the address can be used again.
RegistrationEnds ==
  \A c \in Conns :
    reply[c] = "registered" /\ c \notin guards ~> input_map[AddrOf[c]] # c
=============================================================================
