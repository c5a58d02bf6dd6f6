----------------------------- MODULE MCTopology -----------------------------
(* Two masters and a replica for TLC. *)
EXTENDS Topology

CONSTANTS n1, n2, n3, s1, s2

TwoMasters == [s \in Slots |-> IF s = s1 THEN n1 ELSE n2]

\* Done is explored in the cluster that Init found.  It disturbs no liveness:
\* nothing obliges the application to call it.
DoneEarly == done' /\ ~done => changes = 0
=============================================================================
