--------------------------- MODULE InputMapperProofs ---------------------------
(***************************************************************************)
(* The input mapper keeps its registrations straight, for every number of  *)
(* connections and addresses and every bound of its queue, and implements  *)
(* the lease of addresses.                                                 *)
(***************************************************************************)
EXTENDS InputMapper, TLAPS

\* A request waits once, and is answered once.
Requests ==
  /\ \A i, j \in DOMAIN msgs : msgs[i] = msgs[j] => i = j
  /\ \A i \in DOMAIN msgs : reply[msgs[i]] = "none"
  /\ \A c \in receivers : reply[c] = "registered"

\* An entry is that of a registered connection of its address.
Entries ==
  \A a \in Addrs :
    input_map[a] # NoConn =>
      /\ AddrOf[input_map[a]] = a
      /\ reply[input_map[a]] = "registered"

\* Between the poll of the removals and that of the registrations a removal can
\* only be queued for an entry that is there, which a registration is refused for.
RemovalsFirst ==
  mapper = "register" =>
    \A i \in DOMAIN removals : input_map[removals[i]] # NoConn

\* Nothing is left of a mapper that has returned.
NothingLeft ==
  mapper = "exited" =>
    /\ input_map = [a \in Addrs |-> NoConn]
    /\ msgs = <<>>
    /\ removals = <<>>

IInv ==
  /\ MapperTypeOK
  /\ Requests
  /\ Entries
  /\ GuardKeepsRegistration
  /\ NoLeakedRegistration
  /\ NoStaleRemoval
  /\ RemovalsFirst
  /\ NothingLeft

-----------------------------------------------------------------------------
\* The initial state satisfies the inductive invariant.
LEMMA InitIInv == MapperInit => IInv
<1> SUFFICES ASSUME MapperInit PROVE IInv
  OBVIOUS
<1> USE DEF MapperInit
<1>1. MapperTypeOK
  <2>1. MsgCapacity \in Nat
    BY MapperAssumption
  <2>2. Len(msgs) <= MsgCapacity /\ msgs \in Seq(Conns) /\ removals \in Seq(Addrs)
    BY <2>1
  <2> QED
    BY <2>2 DEF MapperTypeOK
<1>2. Requests
  BY DEF Requests
<1>3. \A a \in Addrs : input_map[a] = NoConn
  OBVIOUS
<1>4. Entries /\ NoLeakedRegistration
  BY <1>3 DEF Entries, NoLeakedRegistration
<1>5. GuardKeepsRegistration
  BY DEF GuardKeepsRegistration
<1>6. NoStaleRemoval /\ RemovalsFirst /\ NothingLeft
  BY DEF NoStaleRemoval, RemovalsFirst, NothingLeft
<1> QED
  BY <1>1, <1>2, <1>4, <1>5, <1>6 DEF IInv

-----------------------------------------------------------------------------
(* Queues.                                                                 *)

\* Append adds one element behind the others.
LEMMA AppendFacts ==
  ASSUME NEW S, NEW q \in Seq(S), NEW x \in S
  PROVE  /\ Append(q, x) \in Seq(S)
         /\ Len(Append(q, x)) = Len(q) + 1
         /\ \A i \in DOMAIN Append(q, x) :
              \/ i \in DOMAIN q /\ Append(q, x)[i] = q[i]
              \/ i = Len(q) + 1 /\ Append(q, x)[i] = x
         /\ \A i \in DOMAIN q : i \in DOMAIN Append(q, x) /\ Append(q, x)[i] = q[i]
         /\ Len(q) + 1 \in DOMAIN Append(q, x) /\ Append(q, x)[Len(q) + 1] = x
  OBVIOUS

\* Tail removes the first element and moves the others up.
LEMMA TailFacts ==
  ASSUME NEW S, NEW q \in Seq(S), q # <<>>
  PROVE  /\ Head(q) \in S /\ 1 \in DOMAIN q /\ Head(q) = q[1]
         /\ Tail(q) \in Seq(S)
         /\ Len(Tail(q)) = Len(q) - 1 /\ Len(q) \in Nat
         /\ DOMAIN Tail(q) \subseteq Nat
         /\ \A i \in DOMAIN Tail(q) :
              /\ i \in Nat \ {0} /\ i + 1 \in DOMAIN q
              /\ Tail(q)[i] = q[i + 1]
         /\ \A i \in DOMAIN q :
              i # 1 => i - 1 \in DOMAIN Tail(q) /\ Tail(q)[i - 1] = q[i]
<1>1. Len(q) \in Nat /\ Len(q) # 0
  OBVIOUS
<1>2. /\ DOMAIN q = 1 .. Len(q)
      /\ Tail(q) \in Seq(S)
      /\ Len(Tail(q)) = Len(q) - 1
      /\ \A i \in 1 .. Len(q) - 1 : Tail(q)[i] = q[i + 1]
  BY <1>1
<1>3. DOMAIN Tail(q) = 1 .. Len(q) - 1
  BY <1>1, <1>2
<1>4. Head(q) = q[1] /\ q[1] \in S
  BY <1>1, <1>2
<1> QED
  BY <1>1, <1>2, <1>3, <1>4

-----------------------------------------------------------------------------
(* The steps of the connections.                                           *)

\* A request queues its connection once, behind the others.
LEMMA SendRegisterIInv ==
  ASSUME IInv, NEW c \in Conns, SendRegister(c)
  PROVE  IInv'
<1> USE DEF SendRegister
<1>1. msgs \in Seq(Conns) /\ Len(msgs) \in Nat /\ MsgCapacity \in Nat
  BY MapperAssumption DEF IInv, MapperTypeOK
<1>2. MapperTypeOK'
  BY <1>1, AppendFacts DEF IInv, MapperTypeOK
<1>3. Requests'
  BY <1>1, AppendFacts DEF IInv, Requests
<1>4. Entries' /\ GuardKeepsRegistration' /\ NoLeakedRegistration' /\ NoStaleRemoval'
      /\ RemovalsFirst'
  BY DEF IInv, Entries, GuardKeepsRegistration, NoLeakedRegistration, NoStaleRemoval,
         RemovalsFirst
<1>5. NothingLeft'
  BY DEF NothingLeft
<1> QED
  BY <1>2, <1>3, <1>4, <1>5 DEF IInv

\* A guard's drop queues the only removal of its address, for the entry it held.
LEMMA DropGuardIInv ==
  ASSUME IInv, NEW c \in Conns, DropGuard(c)
  PROVE  IInv'
<1> USE DEF DropGuard
<1> DEFINE a == AddrOf[c]
<1>1. /\ a \in Addrs /\ removals \in Seq(Addrs) /\ c \in guards
      /\ NoConn \notin Conns
  BY MapperAssumption DEF IInv, MapperTypeOK
<1>2. CASE mapper = "exited"
  <2>1. UNCHANGED removals
    BY <1>2
  <2>2. input_map = [b \in Addrs |-> NoConn] /\ removals = <<>>
    BY <1>2 DEF IInv, NothingLeft
  <2>3. MapperTypeOK' /\ Requests' /\ Entries' /\ NothingLeft'
    BY <2>1 DEF IInv, MapperTypeOK, Requests, Entries, NothingLeft
  <2>4. GuardKeepsRegistration' /\ RemovalsFirst'
    BY <1>2 DEF GuardKeepsRegistration, RemovalsFirst
  <2>5. NoLeakedRegistration' /\ NoStaleRemoval'
    BY <2>1, <2>2 DEF NoLeakedRegistration, NoStaleRemoval
  <2> QED
    BY <2>3, <2>4, <2>5 DEF IInv
<1>3. CASE mapper # "exited"
  <2>1. /\ removals' = Append(removals, a)
        /\ removals' \in Seq(Addrs)
        /\ \A i \in DOMAIN removals' :
             \/ i \in DOMAIN removals /\ removals'[i] = removals[i]
             \/ i = Len(removals) + 1 /\ removals'[i] = a
        /\ \A i \in DOMAIN removals : i \in DOMAIN removals' /\ removals'[i] = removals[i]
        /\ Len(removals) + 1 \in DOMAIN removals' /\ removals'[Len(removals) + 1] = a
    BY <1>1, <1>3, AppendFacts
  <2>2. input_map[a] = c /\ \A b \in guards : input_map[AddrOf[b]] = b
    BY <1>1, <1>3 DEF IInv, GuardKeepsRegistration
  <2>3. MapperTypeOK' /\ Requests' /\ Entries' /\ NothingLeft'
    BY <1>3, <2>1 DEF IInv, MapperTypeOK, Requests, Entries, NothingLeft
  <2>4. GuardKeepsRegistration'
    BY DEF IInv, GuardKeepsRegistration
  <2>5. NoLeakedRegistration'
    <3> SUFFICES ASSUME NEW b \in Addrs, input_map[b] # NoConn, input_map[b] \notin guards'
                 PROVE  \E i \in DOMAIN removals' : removals'[i] = b
      BY DEF NoLeakedRegistration
    <3>1. CASE input_map[b] = c
      <4>1. b = a
        BY <3>1 DEF IInv, Entries
      <4> QED
        BY <4>1, <2>1
    <3>2. CASE input_map[b] # c
      BY <3>2, <2>1 DEF IInv, NoLeakedRegistration
    <3> QED
      BY <3>1, <3>2
  <2>6. \A i \in DOMAIN removals : removals[i] # a
    BY <1>1 DEF IInv, NoStaleRemoval
  <2>7. NoStaleRemoval'
    <3>1. ASSUME NEW i \in DOMAIN removals', NEW j \in DOMAIN removals',
                 removals'[i] = removals'[j]
          PROVE  i = j
      BY <3>1, <2>1, <2>6 DEF IInv, NoStaleRemoval
    <3>2. ASSUME NEW i \in DOMAIN removals', NEW b \in guards'
          PROVE  AddrOf[b] # removals'[i]
      BY <3>2, <2>1, <2>2 DEF IInv, NoStaleRemoval
    <3> QED
      BY <3>1, <3>2 DEF NoStaleRemoval
  <2>8. RemovalsFirst'
    BY <2>1, <2>2, <1>1 DEF IInv, RemovalsFirst, MapperTypeOK
  <2> QED
    BY <2>3, <2>4, <2>5, <2>7, <2>8 DEF IInv
<1> QED
  BY <1>2, <1>3

\* The other steps of connections and clients leave the registrations alone.
LEMMA BystanderIInv ==
  ASSUME IInv,
         \/ \E c \in Conns : DropReceiver(c) \/ ReadInput(c)
         \/ \E a \in Addrs : PacketArrives(a)
         \/ Shutdown
         \/ UNCHANGED mapperVars
  PROVE  IInv'
<1>1. /\ UNCHANGED <<mapper, input_map, msgs, removals, reply, guards>>
      /\ receivers' \subseteq receivers
  BY DEF DropReceiver, ReadInput, PacketArrives, Shutdown, mapperVars
<1>2. MapperTypeOK'
  BY DEF IInv, MapperTypeOK, DropReceiver, ReadInput, PacketArrives, Shutdown, mapperVars
<1>3. Requests' /\ Entries' /\ NothingLeft' /\ RemovalsFirst'
  BY <1>1 DEF IInv, Requests, Entries, NothingLeft, RemovalsFirst
<1>4. GuardKeepsRegistration' /\ NoLeakedRegistration' /\ NoStaleRemoval'
  BY <1>1 DEF IInv, GuardKeepsRegistration, NoLeakedRegistration, NoStaleRemoval
<1> QED
  BY <1>2, <1>3, <1>4 DEF IInv

-----------------------------------------------------------------------------
(* The steps of the mapper.                                                *)

\* A mapper that is cancelled gives everything up and answers what waited.
LEMMA PollCancelIInv ==
  ASSUME IInv, PollCancel
  PROVE  IInv'
<1> USE DEF PollCancel
<1>1. CASE shutdown
  <2>1. /\ mapper' = "exited" /\ input_map' = [a \in Addrs |-> NoConn]
        /\ msgs' = <<>> /\ removals' = <<>>
        /\ UNCHANGED <<shutdown, guards, receivers, unseen, udp>>
    BY <1>1
  <2>2. /\ reply' \in [Conns -> {"none", "registered", "refused", "dropped"}]
        /\ \A c \in Conns : reply[c] = "registered" => reply'[c] = "registered"
    BY <1>1 DEF IInv, MapperTypeOK, Requests
  <2>3. MsgCapacity \in Nat
    BY MapperAssumption
  <2>4. MapperTypeOK'
    BY <2>1, <2>2, <2>3 DEF IInv, MapperTypeOK
  <2>5. Requests'
    BY <2>1, <2>2 DEF IInv, MapperTypeOK, Requests
  <2>6. \A a \in Addrs : input_map'[a] = NoConn
    BY <2>1
  <2>7. Entries' /\ NoLeakedRegistration'
    BY <2>6 DEF Entries, NoLeakedRegistration
  <2>8. GuardKeepsRegistration' /\ NoStaleRemoval' /\ RemovalsFirst' /\ NothingLeft'
    BY <2>1 DEF GuardKeepsRegistration, NoStaleRemoval, RemovalsFirst, NothingLeft
  <2> QED
    BY <2>4, <2>5, <2>7, <2>8 DEF IInv
<1>2. CASE ~shutdown
  BY <1>2 DEF IInv, MapperTypeOK, Requests, Entries, GuardKeepsRegistration,
              NoLeakedRegistration, NoStaleRemoval, RemovalsFirst, NothingLeft
<1> QED
  BY <1>1, <1>2

\* A removal finds an entry without a guard, or none.
LEMMA PollRemoveIInv ==
  ASSUME IInv, PollRemove
  PROVE  IInv'
<1> USE DEF PollRemove
<1>1. CASE removals = <<>>
  BY <1>1 DEF IInv, MapperTypeOK, Requests, Entries, GuardKeepsRegistration,
              NoLeakedRegistration, NoStaleRemoval, RemovalsFirst, NothingLeft
<1>2. CASE removals # <<>>
  <2> DEFINE a == Head(removals)
  <2>1. /\ mapper = "remove" /\ mapper' = "cancel"
        /\ removals \in Seq(Addrs) /\ removals' = Tail(removals)
        /\ UNCHANGED <<shutdown, msgs, reply, guards, receivers, unseen, udp>>
    BY <1>2 DEF IInv, MapperTypeOK
  <2>2. /\ a \in Addrs /\ 1 \in DOMAIN removals /\ a = removals[1]
        /\ removals' \in Seq(Addrs)
        /\ \A i \in DOMAIN removals' :
             i \in Nat \ {0} /\ i + 1 \in DOMAIN removals /\ removals'[i] = removals[i + 1]
        /\ \A i \in DOMAIN removals :
             i # 1 => i - 1 \in DOMAIN removals' /\ removals'[i - 1] = removals[i]
    BY <1>2, <2>1, TailFacts
  <2>3. /\ input_map' = [input_map EXCEPT ![a] = NoConn]
        /\ input_map \in [Addrs -> Conns \cup {NoConn}]
    BY <1>2 DEF remove_input, IInv, MapperTypeOK
  <2>4. MapperTypeOK'
    BY <2>1, <2>2, <2>3 DEF IInv, MapperTypeOK
  <2>5. Requests' /\ RemovalsFirst' /\ NothingLeft'
    BY <2>1 DEF IInv, Requests, RemovalsFirst, NothingLeft
  <2>6. Entries'
    BY <2>1, <2>3 DEF IInv, Entries
  <2>7. \A c \in guards : AddrOf[c] # a /\ AddrOf[c] \in Addrs
    BY <2>2, MapperAssumption DEF IInv, MapperTypeOK, NoStaleRemoval
  <2>8. GuardKeepsRegistration'
    BY <2>1, <2>3, <2>7 DEF IInv, GuardKeepsRegistration
  <2>9. NoLeakedRegistration'
    <3> SUFFICES ASSUME NEW b \in Addrs, input_map'[b] # NoConn, input_map'[b] \notin guards
                 PROVE  \E i \in DOMAIN removals' : removals'[i] = b
      BY <2>1 DEF NoLeakedRegistration
    <3>1. b # a /\ input_map[b] = input_map'[b]
      BY <2>2, <2>3
    <3>2. PICK i \in DOMAIN removals : removals[i] = b
      BY <3>1 DEF IInv, NoLeakedRegistration
    <3>3. i # 1
      BY <3>1, <3>2, <2>2
    <3> QED
      BY <3>2, <3>3, <2>2
  <2>10. NoStaleRemoval'
    BY <2>1, <2>2 DEF IInv, NoStaleRemoval
  <2> QED
    BY <2>4, <2>5, <2>6, <2>8, <2>9, <2>10 DEF IInv
<1> QED
  BY <1>1, <1>2

\* A registration takes an address for which no removal waits.
LEMMA PollRegisterIInv ==
  ASSUME IInv, PollRegister
  PROVE  IInv'
<1> USE DEF PollRegister
<1>1. CASE msgs = <<>>
  BY <1>1 DEF IInv, MapperTypeOK, Requests, Entries, GuardKeepsRegistration,
              NoLeakedRegistration, NoStaleRemoval, RemovalsFirst, NothingLeft
<1>2. CASE msgs # <<>>
  <2> DEFINE c == Head(msgs)
             a == AddrOf[c]
  <2>1. /\ mapper = "register" /\ mapper' = "cancel"
        /\ msgs \in Seq(Conns) /\ msgs' = Tail(msgs) /\ Len(msgs) <= MsgCapacity
        /\ MsgCapacity \in Nat
        /\ UNCHANGED <<shutdown, removals, unseen, udp>>
        /\ register_input(c)
    BY <1>2, MapperAssumption DEF IInv, MapperTypeOK
  <2>2. /\ c \in Conns /\ 1 \in DOMAIN msgs /\ c = msgs[1]
        /\ msgs' \in Seq(Conns) /\ Len(msgs') <= MsgCapacity
        /\ \A i \in DOMAIN msgs' :
             i \in Nat \ {0} /\ i + 1 \in DOMAIN msgs /\ msgs'[i] = msgs[i + 1]
    BY <1>2, <2>1, TailFacts
  <2>3. a \in Addrs /\ NoConn \notin Conns /\ c # NoConn
    BY <2>2, MapperAssumption
  <2>4. reply[c] = "none" /\ c \notin receivers /\ c \notin guards
    BY <2>2 DEF IInv, MapperTypeOK, Requests
  <2>5. \A i \in DOMAIN msgs' : msgs'[i] # c /\ reply[msgs'[i]] = "none"
    BY <2>2 DEF IInv, Requests
  <2>6. \A i, j \in DOMAIN msgs' : msgs'[i] = msgs'[j] => i = j
    BY <2>2 DEF IInv, Requests
  <2>7. CASE input_map[a] = NoConn
    <3>1. /\ input_map' = [input_map EXCEPT ![a] = c]
          /\ reply' = [reply EXCEPT ![c] = "registered"]
          /\ guards' = guards \cup {c}
          /\ receivers' = receivers \cup {c}
      BY <2>1, <2>7 DEF register_input
    <3>2. MapperTypeOK'
      BY <2>1, <2>2, <2>3, <3>1 DEF IInv, MapperTypeOK
    <3>3. Requests'
      BY <2>2, <2>5, <2>6, <3>1 DEF IInv, MapperTypeOK, Requests
    <3>4. Entries'
      BY <2>2, <2>3, <3>1 DEF IInv, MapperTypeOK, Entries
    <3>5. \A b \in guards : input_map[AddrOf[b]] = b /\ AddrOf[b] \in Addrs /\ b # NoConn
      BY <2>1, MapperAssumption DEF IInv, MapperTypeOK, GuardKeepsRegistration
    <3>6. GuardKeepsRegistration'
      BY <2>3, <2>7, <3>1, <3>5 DEF IInv, MapperTypeOK, GuardKeepsRegistration
    <3>7. NoLeakedRegistration'
      BY <2>1, <2>3, <3>1 DEF IInv, MapperTypeOK, NoLeakedRegistration
    <3>8. \A i \in DOMAIN removals : removals[i] # a
      BY <2>1, <2>7 DEF IInv, RemovalsFirst
    <3>9. NoStaleRemoval'
      BY <2>1, <3>1, <3>8 DEF IInv, NoStaleRemoval
    <3>10. RemovalsFirst' /\ NothingLeft'
      BY <2>1 DEF RemovalsFirst, NothingLeft
    <3> QED
      BY <3>2, <3>3, <3>4, <3>6, <3>7, <3>9, <3>10 DEF IInv
  <2>8. CASE input_map[a] # NoConn
    <3>1. /\ reply' = [reply EXCEPT ![c] = "refused"]
          /\ UNCHANGED <<input_map, guards, receivers>>
      BY <2>1, <2>8 DEF register_input
    <3>2. MapperTypeOK'
      BY <2>1, <2>2, <3>1 DEF IInv, MapperTypeOK
    <3>3. Requests'
      BY <2>2, <2>4, <2>5, <2>6, <3>1 DEF IInv, MapperTypeOK, Requests
    <3>4. Entries'
      BY <2>4, <3>1 DEF IInv, MapperTypeOK, Entries
    <3>5. GuardKeepsRegistration' /\ NoLeakedRegistration' /\ NoStaleRemoval'
      BY <2>1, <3>1 DEF IInv, GuardKeepsRegistration, NoLeakedRegistration, NoStaleRemoval
    <3>6. RemovalsFirst' /\ NothingLeft'
      BY <2>1 DEF RemovalsFirst, NothingLeft
    <3> QED
      BY <3>2, <3>3, <3>4, <3>5, <3>6 DEF IInv
  <2> QED
    BY <2>7, <2>8
<1> QED
  BY <1>1, <1>2

\* A packet only takes away an entry whose guard was dropped before its receiver.
LEMMA PollPacketIInv ==
  ASSUME IInv, PollPacket \/ PollNothing
  PROVE  IInv'
<1> USE DEF PollPacket, PollNothing
<1>1. /\ mapper = "packet" /\ mapper' = "cancel"
      /\ UNCHANGED <<shutdown, msgs, removals, reply, guards, receivers>>
      /\ udp' \subseteq Addrs
  BY DEF IInv, MapperTypeOK
<1>2. /\ unseen' \subseteq Conns
      /\ \/ UNCHANGED input_map
         \/ \E a \in Addrs : /\ input_map' = [input_map EXCEPT ![a] = NoConn]
                            /\ input_map[a] \notin receivers
  BY DEF handle_packet, remove_input, IInv, MapperTypeOK
<1>3. input_map' \in [Addrs -> Conns \cup {NoConn}]
  BY <1>2 DEF IInv, MapperTypeOK
<1>4. \A b \in Addrs : input_map'[b] = input_map[b] \/ input_map'[b] = NoConn
  BY <1>2 DEF IInv, MapperTypeOK
<1>5. MapperTypeOK'
  BY <1>1, <1>2, <1>3 DEF IInv, MapperTypeOK
<1>6. Requests' /\ RemovalsFirst' /\ NothingLeft' /\ NoStaleRemoval'
  BY <1>1 DEF IInv, Requests, RemovalsFirst, NothingLeft, NoStaleRemoval
<1>7. Entries' /\ NoLeakedRegistration'
  BY <1>1, <1>4 DEF IInv, Entries, NoLeakedRegistration
<1>8. \A c \in guards : input_map[AddrOf[c]] = c /\ c \in receivers /\ AddrOf[c] \in Addrs
  BY <1>1, MapperAssumption DEF IInv, MapperTypeOK, GuardKeepsRegistration
<1>9. GuardKeepsRegistration'
  <2> SUFFICES ASSUME NEW c \in guards PROVE input_map'[AddrOf[c]] = c
    BY <1>1 DEF GuardKeepsRegistration
  <2> QED
    BY <1>2, <1>8 DEF IInv, MapperTypeOK
<1> QED
  BY <1>5, <1>6, <1>7, <1>9 DEF IInv

\* Every step keeps the inductive invariant.
LEMMA NextIInv ==
  ASSUME IInv, [MapperNext]_mapperVars
  PROVE  IInv'
<1>1. CASE \E c \in Conns : SendRegister(c)
  BY <1>1, SendRegisterIInv
<1>2. CASE \E c \in Conns : DropGuard(c)
  BY <1>2, DropGuardIInv
<1>3. CASE PollCancel
  BY <1>3, PollCancelIInv
<1>4. CASE PollRemove
  BY <1>4, PollRemoveIInv
<1>5. CASE PollRegister
  BY <1>5, PollRegisterIInv
<1>6. CASE PollPacket \/ PollNothing
  BY <1>6, PollPacketIInv
<1>7. CASE \/ \E c \in Conns : DropReceiver(c) \/ ReadInput(c)
           \/ \E a \in Addrs : PacketArrives(a)
           \/ Shutdown
           \/ UNCHANGED mapperVars
  BY <1>7, BystanderIInv
<1> QED
  BY <1>1, <1>2, <1>3, <1>4, <1>5, <1>6, <1>7 DEF MapperNext, MapperTask

-----------------------------------------------------------------------------
(* Safety.                                                                 *)

\* The inductive invariant of the mapper holds in every reachable state.
THEOREM Invariance == MapperSpec => []IInv
  BY InitIInv, NextIInv, PTL DEF MapperSpec

\* The mapper's state is well formed for every set of connections and addresses and
\* every bound of the queue of requests.
THEOREM TypeCorrect == MapperSpec => []MapperTypeOK
<1>1. IInv => MapperTypeOK
  BY DEF IInv
<1> QED
  BY <1>1, Invariance, PTL

\* A live guard keeps its connection registered (input_mapper.rs:43).
THEOREM GuardsHold == MapperSpec => []GuardKeepsRegistration
<1>1. IInv => GuardKeepsRegistration
  BY DEF IInv
<1> QED
  BY <1>1, Invariance, PTL

\* An entry whose guard is gone has its removal queued.
THEOREM NothingLeaks == MapperSpec => []NoLeakedRegistration
<1>1. IInv => NoLeakedRegistration
  BY DEF IInv
<1> QED
  BY <1>1, Invariance, PTL

\* No queued removal waits for an address with a live guard, and at most one per
\* address.
THEOREM NoRemovalIsStale == MapperSpec => []NoStaleRemoval
<1>1. IInv => NoStaleRemoval
  BY DEF IInv
<1> QED
  BY <1>1, Invariance, PTL

-----------------------------------------------------------------------------
(* The mapper implements the lease of addresses.                           *)

\* Who has given up the lease, as ImplementsLease maps it.
GaveUp == {c \in Conns : reply[c] = "registered" /\ c \notin guards}

leaseVars == <<input_map, GaveUp, mapper # "exited">>

\* At the start no address is leased.
LEMMA LeaseInitially == MapperInit => Lease!LeaseInit
  BY DEF MapperInit, Lease!LeaseInit

\* A step of the mapper takes, ends or closes leases as the contract allows.
LEMMA LeaseStep ==
  ASSUME IInv, [MapperNext]_mapperVars
  PROVE  [Lease!LeaseNext]_leaseVars
<1> USE DEF GaveUp, leaseVars
<1>1. ASSUME NEW c \in Conns, DropGuard(c)
      PROVE  Lease!GiveUp(c)
  <2>1. guards' = guards \ {c} /\ c \in guards /\ UNCHANGED <<input_map, mapper, reply>>
    BY <1>1 DEF DropGuard
  <2>2. reply[c] = "registered"
    BY <2>1 DEF IInv, MapperTypeOK, Requests
  <2>3. GaveUp' = GaveUp \cup {c} /\ c \notin GaveUp
    BY <2>1, <2>2
  <2> QED
    BY <2>1, <2>3 DEF Lease!GiveUp
<1>2. CASE PollCancel
  <2>1. CASE shutdown
    <3>1. /\ mapper = "cancel" /\ mapper' = "exited"
          /\ input_map' = [a \in Addrs |-> NoConn] /\ UNCHANGED guards
      BY <1>2, <2>1 DEF PollCancel
    <3>2. \A c \in Conns : reply'[c] = "registered" <=> reply[c] = "registered"
      BY <1>2, <2>1 DEF PollCancel, IInv, MapperTypeOK, Requests
    <3>3. GaveUp' = GaveUp
      BY <3>1, <3>2
    <3>4. Lease!Close
      BY <3>1, <3>3 DEF Lease!Close
    <3> QED
      BY <3>4 DEF Lease!LeaseNext
  <2>2. CASE ~shutdown
    BY <1>2, <2>2 DEF PollCancel
  <2> QED
    BY <2>1, <2>2
\* An entry that is taken away belongs to a connection that gave it up.
<1>3. ASSUME NEW a \in Addrs, input_map' = [input_map EXCEPT ![a] = NoConn],
             input_map[a] \notin guards, UNCHANGED <<reply, guards>>,
             mapper # "exited", mapper' # "exited"
      PROVE  Lease!Release(a) \/ UNCHANGED leaseVars
  <2>1. input_map \in [Addrs -> Conns \cup {NoConn}]
    BY DEF IInv, MapperTypeOK
  <2>2. GaveUp' = GaveUp
    BY <1>3
  <2>3. CASE input_map[a] = NoConn
    <3>1. input_map' = input_map
      BY <1>3, <2>1, <2>3
    <3> QED
      BY <1>3, <2>2, <3>1
  <2>4. CASE input_map[a] # NoConn
    <3>1. input_map[a] \in GaveUp
      BY <1>3, <2>1, <2>4 DEF IInv, Entries
    <3> QED
      BY <1>3, <2>2, <3>1 DEF Lease!Release
  <2> QED
    BY <2>3, <2>4
<1>4. CASE PollRemove
  <2>1. CASE removals = <<>>
    BY <1>4, <2>1 DEF PollRemove
  <2>2. CASE removals # <<>>
    <3>1. /\ Head(removals) \in Addrs /\ 1 \in DOMAIN removals
          /\ Head(removals) = removals[1]
      BY <2>2, TailFacts DEF IInv, MapperTypeOK
    <3>2. input_map[Head(removals)] \notin guards
      <4>1. NoConn \notin guards
        BY MapperAssumption DEF IInv, MapperTypeOK
      <4>2. \A c \in guards : AddrOf[c] # Head(removals)
        BY <3>1 DEF IInv, NoStaleRemoval
      <4> QED
        BY <3>1, <4>1, <4>2 DEF IInv, Entries
    <3>3. /\ input_map' = [input_map EXCEPT ![Head(removals)] = NoConn]
          /\ UNCHANGED <<reply, guards>> /\ mapper # "exited" /\ mapper' # "exited"
      BY <1>4, <2>2 DEF PollRemove, remove_input
    <3>4. Lease!Release(Head(removals)) \/ UNCHANGED leaseVars
      BY <1>3, <3>1, <3>2, <3>3
    <3> QED
      BY <3>1, <3>4 DEF Lease!LeaseNext
  <2> QED
    BY <2>1, <2>2
<1>5. CASE PollRegister
  <2>1. CASE msgs = <<>>
    BY <1>5, <2>1 DEF PollRegister
  <2>2. CASE msgs # <<>>
    <3> DEFINE c == Head(msgs)
               a == AddrOf[c]
    <3>1. /\ mapper = "register" /\ mapper' = "cancel" /\ register_input(c)
      BY <1>5, <2>2 DEF PollRegister
    <3>2. c \in Conns /\ 1 \in DOMAIN msgs /\ c = msgs[1]
      BY <2>2, TailFacts DEF IInv, MapperTypeOK
    <3>3. reply[c] = "none" /\ c \notin guards /\ a \in Addrs /\ c # NoConn
      BY <3>2, MapperAssumption DEF IInv, MapperTypeOK, Requests
    <3>4. CASE input_map[a] = NoConn
      <4>1. /\ input_map' = [input_map EXCEPT ![a] = c]
            /\ reply' = [reply EXCEPT ![c] = "registered"]
            /\ guards' = guards \cup {c}
        BY <3>1, <3>4 DEF register_input
      <4>2. GaveUp' = GaveUp
        <5>1. reply \in [Conns -> {"none", "registered", "refused", "dropped"}]
          BY DEF IInv, MapperTypeOK
        <5>2. \A b \in Conns : b # c => reply'[b] = reply[b] /\ (b \in guards' <=> b \in guards)
          BY <4>1, <5>1
        <5>3. c \in guards' /\ reply[c] # "registered"
          BY <3>3, <4>1
        <5> QED
          BY <5>2, <5>3
      <4>3. c \notin GaveUp
        BY <3>3
      <4>4. \A b \in Addrs : input_map[b] # c
        BY <3>3 DEF IInv, Entries
      <4>5. Lease!Acquire(a, c)
        BY <3>1, <3>4, <4>1, <4>2, <4>3, <4>4 DEF Lease!Acquire
      <4> QED
        BY <3>2, <3>3, <4>5 DEF Lease!LeaseNext
    <3>5. CASE input_map[a] # NoConn
      <4>1. /\ reply' = [reply EXCEPT ![c] = "refused"]
            /\ UNCHANGED <<input_map, guards>>
        BY <3>1, <3>5 DEF register_input
      <4>2. GaveUp' = GaveUp
        <5>1. reply \in [Conns -> {"none", "registered", "refused", "dropped"}]
          BY DEF IInv, MapperTypeOK
        <5>2. \A b \in Conns : b # c => reply'[b] = reply[b]
          BY <4>1, <5>1
        <5>3. reply[c] # "registered" /\ reply'[c] # "registered"
          BY <3>2, <3>3, <4>1, <5>1
        <5> QED
          BY <4>1, <5>2, <5>3
      <4> QED
        BY <3>1, <4>1, <4>2
    <3> QED
      BY <3>4, <3>5
  <2> QED
    BY <2>1, <2>2
<1>6. CASE PollPacket \/ PollNothing
  <2>1. UNCHANGED <<reply, guards>> /\ mapper # "exited" /\ mapper' # "exited"
    BY <1>6 DEF PollPacket, PollNothing
  <2>2. \/ UNCHANGED input_map
        \/ \E a \in Addrs : /\ input_map' = [input_map EXCEPT ![a] = NoConn]
                           /\ input_map[a] \notin guards
    BY <1>6 DEF PollPacket, PollNothing, handle_packet, remove_input, IInv, MapperTypeOK
  <2>3. CASE UNCHANGED input_map
    BY <2>1, <2>3
  <2>4. ASSUME NEW a \in Addrs, input_map' = [input_map EXCEPT ![a] = NoConn],
               input_map[a] \notin guards
        PROVE  [Lease!LeaseNext]_leaseVars
    BY <1>3, <2>1, <2>4 DEF Lease!LeaseNext
  <2> QED
    BY <2>2, <2>3, <2>4
<1>7. CASE \/ \E c \in Conns : SendRegister(c) \/ DropReceiver(c) \/ ReadInput(c)
           \/ \E a \in Addrs : PacketArrives(a)
           \/ Shutdown
           \/ UNCHANGED mapperVars
  BY <1>7 DEF SendRegister, DropReceiver, ReadInput, PacketArrives, Shutdown, mapperVars
<1>8. CASE \E c \in Conns : DropGuard(c)
  BY <1>1, <1>8 DEF Lease!LeaseNext
<1> QED
  BY <1>2, <1>4, <1>5, <1>6, <1>7, <1>8 DEF MapperNext, MapperTask

\* The mapper implements the lease of addresses, for every set of connections and
\* addresses: an address has one holder, until that gives it up.
THEOREM Implementation == MapperSpec => ImplementsLease
<1>1. MapperInit => Lease!LeaseInit
  BY LeaseInitially
<1>2. IInv /\ [MapperNext]_mapperVars => [Lease!LeaseNext]_leaseVars
  BY LeaseStep
<1> QED
  BY <1>1, <1>2, Invariance, PTL DEF MapperSpec, ImplementsLease, Lease!LeaseSpec, leaseVars, GaveUp

=============================================================================
