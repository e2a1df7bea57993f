----------------------------- MODULE AddressLease -----------------------------
(* What the input mapper promises its connections: each address is leased to at *)
(* most one connection at a time, and a lease ends only after its holder has    *)
(* given it up (or the mapper is shut down).                                    *)
CONSTANTS Addrs, Conns, NoConn

VARIABLES
  holder,   \* the connection that receives the input of each address
  gave_up,  \* connections that dropped their guard
  open      \* the mapper is running

Acquire(a, c) ==
  /\ open
  /\ holder[a] = NoConn
  /\ c \notin gave_up
  /\ \A b \in Addrs : holder[b] # c
  /\ holder' = [holder EXCEPT ![a] = c]
  /\ UNCHANGED <<gave_up, open>>

GiveUp(c) ==
  /\ c \notin gave_up
  /\ gave_up' = gave_up \cup {c}
  /\ UNCHANGED <<holder, open>>

Release(a) ==
  /\ holder[a] \in gave_up
  /\ holder' = [holder EXCEPT ![a] = NoConn]
  /\ UNCHANGED <<gave_up, open>>

Close ==
  /\ open
  /\ open' = FALSE
  /\ holder' = [a \in Addrs |-> NoConn]
  /\ UNCHANGED gave_up

LeaseInit == holder = [a \in Addrs |-> NoConn] /\ gave_up = {} /\ open = TRUE

LeaseNext ==
  \/ \E a \in Addrs : Release(a) \/ \E c \in Conns : Acquire(a, c)
  \/ \E c \in Conns : GiveUp(c)
  \/ Close

LeaseSpec == LeaseInit /\ [][LeaseNext]_<<holder, gave_up, open>>
=============================================================================
