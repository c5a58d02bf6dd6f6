------------------------------ MODULE Recovery ------------------------------
(***************************************************************************)
(* The whole system: producers, consumers, recoverers, Redis, time and     *)
(* crashes; and what the library promises about the tasks.                 *)
(***************************************************************************)
EXTENDS ReQueue

CONSTANTS
  Mortal,     \* the consumers whose process may crash
  MaxCrashes  \* bound on the number of process crashes

ASSUME CrashAssumption == Mortal \subseteq Consumers /\ MaxCrashes \in Nat

VARIABLES
  crashes

vars == <<lbsVars, clientVars, recVars, crashes>>

Init ==
  /\ LBSInit
  /\ ClientInit
  /\ RecInit
  /\ crashes = 0

\* A process dies.  What its recoverers had acknowledged and not yet re-added
\* is lost; Redis keeps everything else.
Crash(c) ==
  /\ c \in Mortal
  /\ up[c]
  /\ crashes < MaxCrashes
  /\ crashes' = crashes + 1
  /\ up' = [up EXCEPT ![c] = FALSE]
  /\ rd' = [rd EXCEPT ![c] = NoReader]
  /\ streamLocks' = [streamLocks EXCEPT ![c] = [s \in Streams |-> 0]]
  /\ exts' = {e \in exts : e.c # c}
  /\ calls' = {k \in calls : k.c # c}
  /\ working' = {w \in working : w[1] # c}
  /\ expired' = {x \in expired : x[1] # c}
  /\ rec' = [r \in Recoverers |-> IF Host[r] = c THEN Resting ELSE rec[r]]
  /\ lost' = lost \cup {TaskOf(rec[r].i) : r \in {q \in Recoverers : Host[q] = c /\ InHand(q)}}
  /\ UNCHANGED <<log, deleted, delivered, pel, idle, locks, dlq, done, stalls>>

\* A new process with the same consumer ID calls Init: it joins the existing
\* group, reads from its end and has an empty map.
Restart(c) ==
  /\ ~up[c]
  /\ up' = [up EXCEPT ![c] = TRUE]
  /\ rd' = [rd EXCEPT ![c] = NewReader]
  /\ UNCHANGED <<lbsVars, streamLocks, exts, calls, working, recVars, crashes>>

Next ==
  \/ \E t \in Tasks : Produce(t) /\ UNCHANGED <<clientVars, recVars, crashes>>
  \/ ClientStep /\ UNCHANGED <<recVars, crashes>>
  \/ \E r \in Recoverers : RecovererStep(r) /\ UNCHANGED <<clientVars, crashes>>
  \/ \E i \in Ids : (BecomeIdle(i) \/ ExpireLock(i)) /\ UNCHANGED <<clientVars, crashes>>
  \/ \E c \in Consumers : Crash(c) \/ Restart(c)

Spec == Init /\ [][Next]_vars

(***************************************************************************)
(* Every goroutine of a live process keeps running, an application calls   *)
(* DoneStream for the streams it finishes, and time passes.  Nothing makes *)
(* a producer add a task, a process crash or restart, or an application    *)
(* call Claim.                                                             *)
(***************************************************************************)
Fairness ==
  /\ \A c \in Consumers : WF_vars(ReaderStep(c) /\ UNCHANGED <<recVars, crashes>>)
  /\ \A c \in Consumers, t \in Tasks : WF_vars(
       \E e \in exts : e.c = c /\ TaskOf(e.i) = t /\ ExtenderStep(e)
                       /\ UNCHANGED <<recVars, crashes>>)
  /\ \A t \in Tasks : WF_vars(
       \E w \in working : TaskOf(w[2]) = t /\ FinishStream(w[1], w[2])
                          /\ UNCHANGED <<recVars, crashes>>)
  /\ \A t \in Tasks : WF_vars(
       \E k \in calls : TaskOf(k.i) = t /\ DoneStep(k) /\ UNCHANGED <<recVars, crashes>>)
  /\ \A r \in Scanners : WF_vars(RecovererStep(r) /\ UNCHANGED <<clientVars, crashes>>)
  /\ \A r \in Claimers : WF_vars(ReQueueStep(r) /\ UNCHANGED <<clientVars, crashes>>)
  /\ \A t \in Tasks : WF_vars(
       \E i \in Ids : TaskOf(i) = t /\ BecomeIdle(i) /\ UNCHANGED <<clientVars, crashes>>)
  /\ \A t \in Tasks : WF_vars(
       \E i \in Ids : TaskOf(i) = t /\ ExpireLock(i) /\ UNCHANGED <<clientVars, crashes>>)

FairSpec == Spec /\ Fairness

-----------------------------------------------------------------------------
(***************************************************************************)
(* Properties.                                                             *)
(***************************************************************************)
Entry == [task : Tasks, retry : Nat]

LBSType ==
  /\ log \in Seq(Entry)
  /\ delivered \in 0 .. Len(log)
  /\ deleted \subseteq 1 .. delivered
  /\ pel \subseteq 1 .. delivered
  /\ idle \subseteq pel
  /\ locks \subseteq 1 .. delivered
  /\ dlq \in Seq(Entry)
  /\ done \subseteq Tasks
  /\ lost \subseteq Tasks

ReaderType ==
  /\ up \in [Consumers -> BOOLEAN]
  /\ rd \in [Consumers -> [pc : {"read", "lock", "send", "dead"}, cur : Nat, last : Nat]]
  /\ \A c \in Consumers : rd[c].pc \in {"lock", "send"} =>
       rd[c].cur \in 1 .. rd[c].last /\ rd[c].last <= delivered

HandlerType ==
  /\ streamLocks \in [Consumers -> [Streams -> 0 .. delivered]]
  /\ exts \subseteq [c : Consumers, i : 1 .. delivered,
                     pc : {"check", "extend", "disown", "cleanup"}]
  /\ calls \subseteq [c : Consumers, i : 1 .. delivered, pc : {"ack", "del", "unlock"}]
  /\ working \subseteq Consumers \X (1 .. delivered)

RecState ==
  [pc : {"rest", "loop", "range", "exists", "ack", "add", "dlqack", "dlqadd", "del"},
   i : 0 .. delivered, todo : SUBSET (1 .. delivered)]

RecovererType ==
  /\ rec \in [Recoverers -> RecState]
  /\ \A r \in Recoverers : rec[r].pc \notin {"rest", "loop"} => rec[r].i # 0
  /\ expired \subseteq Consumers \X (1 .. delivered)
  /\ stalls \in 0 .. MaxStalls
  /\ crashes \in 0 .. MaxCrashes

\* The shape of the state of Redis, of every goroutine and of every map: no
\* handler ever holds the ID of an entry that was not delivered.
TypeOK == LBSType /\ ReaderType /\ HandlerType /\ RecovererType

\* An entry somebody still has to do something about: it is not delivered
\* yet, it is pending, or a recoverer has acknowledged it and will re-add it.
Held(i) == \E r \in Recoverers : InHand(r) /\ rec[r].i = i

Live(i) == i > delivered \/ i \in pel \/ Held(i)

Settled == done \cup lost \cup InDLQ

NewestLive ==
  \A i, j \in Ids : TaskOf(i) = TaskOf(j) /\ Live(i) => j <= i

HandsExclusive ==
  \A r \in Recoverers : InHand(r) =>
    /\ rec[r].i \notin pel
    /\ \A q \in Recoverers : InHand(q) /\ rec[q].i = rec[r].i => q = r

\* However recoverers, Claim calls, DoneStream calls, crashes and errors
\* interleave, a task has at most one live entry, the newest one, and an entry
\* taken by a recoverer is in no other hands: re-queueing never multiplies a
\* task (the XACK-first order of reQueue and routeToDLQ).
OneLiveEntry == NewestLive /\ HandsExclusive

SettledNotLive ==
  \A i \in Ids : Live(i) => TaskOf(i) \notin Settled

SettledOnce ==
  /\ done \cap lost = {}
  /\ (done \cup lost) \cap InDLQ = {}
  /\ \A k, l \in DOMAIN dlq : dlq[k].task = dlq[l].task => k = l

\* A task the application finished, a task in the DLQ and a task lost in the
\* gap between XACK and XADD never come back: no stale Claim, scan or late
\* lock extension resurrects one; and a task ends in one of the three ways,
\* once.
NoResurrection == SettledNotLive /\ SettledOnce

\* No task vanishes: a task that was added has a live entry, was finished, is
\* in the DLQ, or was dropped between an XACK and an XADD that failed or was
\* not reached; and nothing else is ever finished, dead-lettered or dropped.
NothingVanishes ==
  /\ Settled \subseteq Added
  /\ \A t \in Added : t \in Settled \/ \E i \in Ids : TaskOf(i) = t /\ Live(i)

\* _retry_count grows with every copy of a task and never exceeds MaxRetries,
\* so a task is delivered at most MaxRetries + 1 times; a task that can be
\* parsed reaches the DLQ only when the next retry would exceed MaxRetries.
RetryBudget ==
  /\ \A i \in Ids : log[i].retry <= MaxRetries
  /\ \A i, j \in Ids : TaskOf(i) = TaskOf(j) /\ i < j => log[i].retry < log[j].retry
  /\ \A k \in DOMAIN dlq : dlq[k].task \notin Poison => dlq[k].retry = MaxRetries + 1

\* An entry is deleted from the LBS only after it was acknowledged, by
\* DoneStream and by reQueue alike: a pending entry always has its payload, so
\* the branch of reQueue for a missing entry drops nothing.
PendingHasPayload == pel \cap deleted = {}

\* What a handler knows when it is past its XACK, or past its retry check.
HandlerFacts ==
  /\ \A k \in calls : k.pc # "ack" => k.i \notin pel
  /\ \A r \in Recoverers : rec[r].pc = "del" => rec[r].i \notin pel
  /\ \A r \in Recoverers : rec[r].pc \in {"exists", "ack", "add"} => TaskOf(rec[r].i) \notin Poison
  /\ \A r \in Recoverers : rec[r].pc \in {"ack", "add"} => log[rec[r].i].retry < MaxRetries
  /\ \A r \in Recoverers : rec[r].pc \in {"dlqack", "dlqadd"} =>
       TaskOf(rec[r].i) \in Poison \/ log[rec[r].i].retry = MaxRetries

\* The inductive invariant.
IInv ==
  /\ TypeOK
  /\ OneLiveEntry
  /\ NoResurrection
  /\ NothingVanishes
  /\ RetryBudget
  /\ PendingHasPayload
  /\ HandlerFacts

\* The refinement mapping to TaskLifecycle.
PlaceOf(t) ==
  CASE t \in done -> "done"
    [] t \in lost -> "lost"
    [] t \in InDLQ -> "dlq"
    [] \E i \in Ids : TaskOf(i) = t /\ i > delivered -> "waiting"
    [] \E i \in pel : TaskOf(i) = t -> "owned"
    [] \E i \in Ids : TaskOf(i) = t /\ Held(i) -> "taken"
    [] OTHER -> "new"

Copies(t) == {i \in Ids : TaskOf(i) = t}

AttemptsOf(t) == IF Copies(t) = {} THEN 0 ELSE Cardinality(Copies(t)) - 1

Lifecycle == INSTANCE TaskLifecycle WITH
  place <- [t \in Tasks |-> PlaceOf(t)],
  attempts <- [t \in Tasks |-> AttemptsOf(t)]

\* The readers, DoneStream calls and recoverers together implement the life
\* cycle of TaskLifecycle: a task is in one place at a time, goes round at most
\* MaxRetries times and stays where it ends.
ImplementsLifecycle == Lifecycle!Spec

\* Exclusive ownership: with heartbeats on time and no Redis errors, no two
\* consumers (and no consumer twice) process the same data stream, whatever
\* crashes and however long the application works on a stream, as long as it
\* reads its channel before a key or MinIdleTime runs out.
SingleProcessor ==
  \A v, w \in working : Name(v[2]) = Name(w[2]) => v = w

\* DoneStream acknowledges before it unlocks: with heartbeats on time no
\* recoverer takes an entry while DoneStream is running for it.
FinishedNotRequeued ==
  [][\A k \in calls : k.i \in pel /\ k.i \notin pel' => k \notin calls' \/ ~up'[k.c]]_vars

\* With heartbeats on time an entry is taken from the PEL by a recoverer only
\* when no live process is handling it.
AliveNotDisturbed ==
  [][\A c \in Consumers, i \in pel :
       i \notin pel' /\ (i \in rd[c].cur .. rd[c].last \/ <<c, i>> \in working)
         => TaskOf(i) \in done']_vars

(***************************************************************************)
(* Why SingleProcessor holds.  An entry a consumer handles goes through    *)
(* four stages: in a batch, locked and offered to the application, worked  *)
(* on, and being acknowledged by DoneStream.                               *)
(***************************************************************************)
\* Heartbeats on time: no Redis error, no stalled process, and no Send that
\* blocks for longer than a lock key or MinIdleTime lasts.
OnTime == MaxStalls = 0 /\ ~Faulty /\ ~Backpressure

\* No two tasks share a data stream name.
OwnStreams == \A t, u \in Tasks : StreamOf[t] = StreamOf[u] => t = u

Reads(c, i) == i \in rd[c].cur .. rd[c].last
Offers(c, i) == rd[c].pc = "send" /\ rd[c].cur = i
Works(c, i) == <<c, i>> \in working
Finishes(c, i) == [c |-> c, i |-> i, pc |-> "ack"] \in calls

Holds(c, i) == Offers(c, i) \/ Works(c, i) \/ Finishes(c, i)
Handles(c, i) == Reads(c, i) \/ Holds(c, i)

\* A recoverer may take the entry up, or has taken it up.
Exposed(i) ==
  \/ i \in idle
  \/ \E c \in Consumers : <<c, i>> \in expired
  \/ \E r \in Recoverers : rec[r].i = i \/ i \in rec[r].todo

\* An entry is handled by one consumer, in one stage, while it is pending, and
\* no recoverer is about to acknowledge it.
OneHandler ==
  \A c \in Consumers, i \in 1 .. delivered : Handles(c, i) =>
    /\ i \in pel
    /\ \A d \in Consumers : Handles(d, i) => d = c
    /\ ~(Works(c, i) /\ Finishes(c, i))
    /\ Reads(c, i) => ~Works(c, i) /\ ~Finishes(c, i)
    /\ \A r \in Recoverers : rec[r].pc \in {"ack", "dlqack"} => rec[r].i # i

\* The lock key exists from Lock to the XACK of DoneStream; before Lock nobody
\* but the reader knows of the entry.
KeyWhileHeld ==
  \A c \in Consumers, i \in 1 .. delivered :
    /\ Holds(c, i) => i \in locks /\ TaskOf(i) \notin Poison
    /\ Reads(c, i) => ~Exposed(i) /\ (i \in locks => Offers(c, i))

\* Between two batches nothing is left of the last one.
BatchOver ==
  \A c \in Consumers : rd[c].pc \in {"read", "dead"} => rd[c].last < rd[c].cur

\* The map knows what is offered to the application and what it works on, and an
\* extender runs for the work.
KnownWhileWorking ==
  \A c \in Consumers, i \in 1 .. delivered :
    /\ Offers(c, i) \/ Works(c, i) => streamLocks[c][Name(i)] = i
    /\ Works(c, i) => \E e \in exts : e.c = c /\ e.i = i

\* An extender outlives the work only while DoneStream runs or after it.
ExtenderJustified ==
  \A e \in exts :
    /\ e.pc # "disown"
    /\ Works(e.c, e.i) \/ Finishes(e.c, e.i) \/ TaskOf(e.i) \in done
    /\ e.pc = "cleanup" => ~Works(e.c, e.i)
    /\ \A c \in Consumers : ~Reads(c, e.i)

\* With heartbeats on time, an entry a live process handles is out of the
\* reach of every scan and Claim: the lock key, the map entry, the extender and
\* the pending entry stay in step from Lock to the XACK of DoneStream.
OwnerInv ==
  OneHandler /\ KeyWhileHeld /\ BatchOver /\ KnownWhileWorking /\ ExtenderJustified

\* Every task that is added is finished, dead-lettered or dropped in the gap,
\* whichever processes crash, as long as one of them still reads the LBS and
\* scans it (a reader ends at an entry it cannot parse): the scan recovers what
\* dead consumers and readers that ended held.
TaskSettles ==
  \A t \in Tasks \ LongLived : t \in Added ~> t \in Settled

\* Lock extension for a stream stops after DoneStream.
ExtendersStop ==
  \A t \in Tasks : t \in done ~> \A e \in exts : TaskOf(e.i) # t

\* A consumer that comes back when its lock has expired and its entry was
\* re-queued fails to extend the lock of that entry.
StaleExtendFails ==
  [][\A e \in exts : Extend(e) /\ e.i \notin locks =>
       \A j \in Ids : TaskOf(j) = TaskOf(e.i) => j <= e.i]_vars
=============================================================================
