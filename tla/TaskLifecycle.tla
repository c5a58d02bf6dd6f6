--------------------------- MODULE TaskLifecycle ---------------------------
(***************************************************************************)
(* What the library promises about a task, with no streams, locks or       *)
(* processes in it: a task waits to be read, is owned, and is then         *)
(* finished or taken from an owner held to be dead; a task taken is        *)
(* offered once more with its retry count raised, or dead-lettered when    *)
(* the count is used up, or dropped if its recoverer fails.  It is in one  *)
(* place at a time and the last three places are final.                    *)
(***************************************************************************)
EXTENDS Integers

CONSTANTS Tasks, Poison, MaxRetries

VARIABLES
  place,    \* where each task is
  attempts  \* how often it has been re-queued

Places == {"new", "waiting", "owned", "taken", "done", "dlq", "lost"}

Move(S, p) == place' = [t \in Tasks |-> IF t \in S THEN p ELSE place[t]]

Init ==
  /\ place = [t \in Tasks |-> "new"]
  /\ attempts = [t \in Tasks |-> 0]

Add(t) ==
  /\ place[t] = "new"
  /\ Move({t}, "waiting")
  /\ UNCHANGED attempts

\* One read hands out everything that waits.
Deliver ==
  /\ Move({t \in Tasks : place[t] = "waiting"}, "owned")
  /\ UNCHANGED attempts

Finish(t) ==
  /\ place[t] = "owned"
  /\ Move({t}, "done")
  /\ UNCHANGED attempts

Take(t) ==
  /\ place[t] = "owned"
  /\ Move({t}, "taken")
  /\ UNCHANGED attempts

Offer(t) ==
  /\ place[t] = "taken"
  /\ t \notin Poison
  /\ attempts[t] < MaxRetries
  /\ Move({t}, "waiting")
  /\ attempts' = [attempts EXCEPT ![t] = @ + 1]

DeadLetter(t) ==
  /\ place[t] = "taken"
  /\ t \in Poison \/ attempts[t] = MaxRetries
  /\ Move({t}, "dlq")
  /\ UNCHANGED attempts

\* A crash may drop what several recoverers of a process had taken.  A task
\* may be dropped in the very step that takes it.
Drop(S) ==
  /\ \A t \in S : place[t] \in {"owned", "taken"}
  /\ Move(S, "lost")
  /\ UNCHANGED attempts

Next ==
  \/ \E t \in Tasks : Add(t) \/ Finish(t) \/ Take(t) \/ Offer(t) \/ DeadLetter(t)
  \/ Deliver
  \/ \E S \in SUBSET Tasks : Drop(S)

Spec == Init /\ [][Next]_<<place, attempts>>
=============================================================================
