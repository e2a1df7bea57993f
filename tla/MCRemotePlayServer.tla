-------------------------- MODULE MCRemotePlayServer --------------------------
(* Two connections from one address, the second of which may come while the    *)
(* first is anywhere in its life.                                              *)
EXTENDS RemotePlayServer

CONSTANTS c1, c2, a1

MCConns == {c1, c2}
SameAddress == [c \in MCConns |-> a1]
=============================================================================
