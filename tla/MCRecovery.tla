----------------------------- MODULE MCRecovery -----------------------------
(***************************************************************************)
(* Small instances of Recovery for TLC.                                    *)
(***************************************************************************)
EXTENDS Recovery

CONSTANTS c1, c2, c3, t1, t2, s1, s2, scan1, scan2, claim1, claim2

\* Every task has a data stream of its own, or all share one.
OwnStream == [t \in Tasks |-> IF t = t1 THEN s1 ELSE s2]
SharedStream == [t \in Tasks |-> s1]

\* A recoverer runs in the consumer with its number.
HostOf == [r \in Recoverers |-> IF r \in {scan1, claim1} THEN c1 ELSE c2]
=============================================================================
