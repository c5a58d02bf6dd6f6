--------------------------- MODULE LifecycleProofs ---------------------------
(***************************************************************************)
(* Recovery implements TaskLifecycle, for every number of tasks, consumers *)
(* and recoverers, with errors, stalls and crashes.                        *)
(***************************************************************************)
EXTENDS TaskProofs, FiniteSetTheorems

(***************************************************************************)
(* Counting.  The retry count of an entry is the number of older entries   *)
(* of its task, so the newest one tells how often the task was re-queued.  *)
(***************************************************************************)
Older(i) == {j \in Ids : TaskOf(j) = TaskOf(i) /\ j < i}

CountInv == \A i \in Ids : log[i].retry = Cardinality(Older(i))

\* There are finitely many entries.
LEMMA EntriesFinite ==
  ASSUME IInv
  PROVE  /\ IsFiniteSet(Ids)
         /\ \A t : IsFiniteSet(Copies(t)) /\ Cardinality(Copies(t)) \in Nat
<1>1. Ids = 1 .. Len(log) /\ Len(log) \in Nat
  BY IdsRange, Zenon DEF IInv
<1>2. IsFiniteSet(Ids)
  BY <1>1, FS_Interval
<1>3. ASSUME NEW t PROVE IsFiniteSet(Copies(t)) /\ Cardinality(Copies(t)) \in Nat
  <2>1. Copies(t) \subseteq Ids
    BY Zenon DEF Copies
  <2>2. IsFiniteSet(Copies(t))
    BY <1>2, <2>1, FS_Subset, Zenon
  <2> QED BY <2>2, FS_CardinalityType, Zenon
<1> QED BY <1>2, <1>3, Zenon

\* A live entry is the newest of its task and counts the others.
LEMMA LiveCounts ==
  ASSUME IInv, CountInv, NEW i \in Ids, Live(i)
  PROVE  /\ Cardinality(Copies(TaskOf(i))) = log[i].retry + 1
         /\ AttemptsOf(TaskOf(i)) = log[i].retry
<1>1. Copies(TaskOf(i)) = Older(i) \cup {i}
  <2>1. \A j \in Ids : TaskOf(j) = TaskOf(i) => j <= i
    BY Zenon DEF IInv, OneLiveEntry, NewestLive
  <2>2. \A j \in Ids : j \in Nat
    BY IdsRange DEF IInv
  <2> QED BY <2>1, <2>2 DEF Copies, Older
<1>2. i \notin Older(i)
  BY IdsRange DEF IInv, Older
<1>3. IsFiniteSet(Older(i))
  <2>1. Older(i) \subseteq Ids
    BY Zenon DEF Older
  <2> QED BY <2>1, EntriesFinite, FS_Subset, Zenon
<1>4. Cardinality(Older(i) \cup {i}) = Cardinality(Older(i)) + 1
  BY <1>2, <1>3, FS_AddElement, Zenon
<1>5. log[i].retry \in Nat /\ log[i].retry = Cardinality(Older(i))
  BY <1>3, FS_CardinalityType, Zenon DEF CountInv
<1>6. Cardinality(Copies(TaskOf(i))) = log[i].retry + 1
  BY <1>1, <1>4, <1>5, Zenon
<1>7. Copies(TaskOf(i)) # {}
  BY <1>1, Zenon
<1> QED BY <1>5, <1>6, <1>7 DEF AttemptsOf

\* An entry that is added with the right count keeps the counts right.
LEMMA CountAdd ==
  ASSUME IInv, CountInv, NEW t \in Tasks, NEW n \in Nat, XAdd(t, n), n = Cardinality(Copies(t))
  PROVE  /\ CountInv'
         /\ \A u : u # t => Copies(u)' = Copies(u)
         /\ Copies(t)' # {} /\ Cardinality(Copies(t)') = n + 1
<1>0. Ids = 1 .. Len(log) /\ Len(log) \in Nat
  BY IdsRange, Zenon DEF IInv
<1>m. PICK m \in Nat : m = Len(log) + 1
  BY <1>0
<1>1. /\ Ids' = Ids \cup {m} /\ m \notin Ids
      /\ \A i \in Ids : TaskOf(i)' = TaskOf(i) /\ log'[i] = log[i] /\ i < m
      /\ TaskOf(m)' = t /\ log'[m].retry = n
  <2>1. log \in Seq(Entry)
    BY Zenon DEF IInv, TypeOK, LBSType
  <2>2. /\ Ids' = 1 .. m
        /\ \A i \in Ids : log'[i] = log[i]
        /\ log'[m] = [task |-> t, retry |-> n]
    BY <1>m, <2>1, AppendEntry, Zenon
  <2> QED BY <1>0, <1>m, <2>2 DEF TaskOf
<1>2. \A i \in Ids : Older(i)' = Older(i)
  BY <1>0, <1>1 DEF Older
<1>3. Older(m)' = Copies(t)
  BY <1>0, <1>1 DEF Older, Copies
<1>4. CountInv'
  BY <1>1, <1>2, <1>3, Zenon DEF CountInv
<1>5. \A u : u # t => Copies(u)' = Copies(u)
  BY <1>1, Zenon DEF Copies
<1>6. Copies(t)' = Copies(t) \cup {m} /\ m \notin Copies(t)
  BY <1>1, Zenon DEF Copies
<1>7. Cardinality(Copies(t) \cup {m}) = n + 1
  BY Zenon, <1>6, EntriesFinite, FS_AddElement
<1> QED BY <1>4, <1>5, <1>6, <1>7

(***************************************************************************)
(* Places.                                                                 *)
(***************************************************************************)
Places ==
  /\ \A t \in done : PlaceOf(t) = "done"
  /\ \A t \in lost : PlaceOf(t) = "lost"
  /\ \A t \in InDLQ : PlaceOf(t) = "dlq"
  /\ \A i \in Ids : i > delivered => PlaceOf(TaskOf(i)) = "waiting"
  /\ \A i \in pel : PlaceOf(TaskOf(i)) = "owned"
  /\ \A i \in Ids : Held(i) => PlaceOf(TaskOf(i)) = "taken"
  /\ \A t \in Tasks : t \notin Added => PlaceOf(t) = "new"

\* A task has one place: where its live entry is, or how it was settled.
LEMMA PlacesHold == IInv => Places
<1> SUFFICES ASSUME IInv PROVE Places
  BY Zenon
<1>0. /\ Ids \subseteq Nat /\ delivered \in Nat /\ pel \subseteq Ids
      /\ \A i \in pel : ~(i > delivered)
  BY IdsRange DEF IInv, TypeOK, LBSType
<1>1. /\ done \cap lost = {} /\ (done \cup lost) \cap InDLQ = {}
      /\ \A i \in Ids : Live(i) => TaskOf(i) \notin done \cup lost \cup InDLQ
  BY Zenon DEF IInv, NoResurrection, SettledOnce, SettledNotLive, Settled
<1>2. \A i, j \in Ids : TaskOf(i) = TaskOf(j) /\ Live(i) /\ Live(j) => i = j
  BY <1>0 DEF IInv, OneLiveEntry, NewestLive
<1>3. \A i \in Ids : Held(i) => i \notin pel /\ ~(i > delivered)
  <2> SUFFICES ASSUME NEW i \in Ids, Held(i) PROVE i \notin pel /\ ~(i > delivered)
    BY Zenon
  <2>1. PICK r \in Recoverers : InHand(r) /\ rec[r].i = i
    BY Zenon DEF Held
  <2>2. rec[r].i \in 1 .. delivered /\ rec[r].i \notin pel
    BY <2>1, HeldLive, Zenon
  <2> QED BY <1>0, <2>1, <2>2
<1> DEFINE Waits(t) == \E i \in Ids : TaskOf(i) = t /\ i > delivered
           Owned(t) == \E i \in pel : TaskOf(i) = t
           Taken(t) == \E i \in Ids : TaskOf(i) = t /\ Held(i)
<1>4. ASSUME NEW t \in done \cup lost \cup InDLQ PROVE ~Waits(t) /\ ~Owned(t) /\ ~Taken(t)
  BY <1>0, <1>1, Zenon DEF Live
<1>5. ASSUME NEW t PROVE /\ Waits(t) => ~Owned(t) /\ ~Taken(t)
                         /\ Owned(t) => ~Taken(t)
  BY <1>0, <1>2, <1>3, Zenon DEF Live
<1> HIDE DEF Waits, Owned, Taken
<1>6. \A t : PlaceOf(t) = CASE t \in done -> "done" [] t \in lost -> "lost" [] t \in InDLQ -> "dlq"
                            [] Waits(t) -> "waiting" [] Owned(t) -> "owned" [] Taken(t) -> "taken"
                            [] OTHER -> "new"
  BY Zenon DEF PlaceOf, Waits, Owned, Taken
<1>7. /\ \A t \in done : PlaceOf(t) = "done"
      /\ \A t \in lost : PlaceOf(t) = "lost"
      /\ \A t \in InDLQ : PlaceOf(t) = "dlq"
  BY <1>1, <1>4, <1>6, Zenon
<1>8. ASSUME NEW t, Waits(t) \/ Owned(t) \/ Taken(t)
      PROVE  /\ Waits(t) => PlaceOf(t) = "waiting"
             /\ Owned(t) => PlaceOf(t) = "owned"
             /\ Taken(t) => PlaceOf(t) = "taken"
  <2>1. t \notin done /\ t \notin lost /\ t \notin InDLQ
    BY <1>4, <1>8, Zenon
  <2> QED BY <1>5, <1>6, <2>1, Zenon
<1>9. ASSUME NEW t \in Tasks, t \notin Added PROVE PlaceOf(t) = "new"
  <2>1. t \notin done /\ t \notin lost /\ t \notin InDLQ
    BY <1>9, Zenon DEF IInv, NothingVanishes, Settled
  <2>2. ~Waits(t) /\ ~Owned(t) /\ ~Taken(t)
    BY <1>0, <1>9, Zenon DEF Added, Waits, Owned, Taken
  <2> QED BY <1>6, <2>1, <2>2, Zenon
<1>10. /\ \A i \in Ids : i > delivered => Waits(TaskOf(i))
       /\ \A i \in pel : Owned(TaskOf(i))
       /\ \A i \in Ids : Held(i) => Taken(TaskOf(i))
  BY Zenon DEF Waits, Owned, Taken
<1> QED BY <1>7, <1>8, <1>9, <1>10 DEF Places

\* So it has after a step.
LEMMA PlacesNext == IInv' => Places'
  BY PlacesHold, PTL

\* A task is in one of the seven places.
LEMMA SomewhereHold ==
  ASSUME IInv, NEW t \in Tasks
  PROVE  \/ t \in done \/ t \in lost \/ t \in InDLQ \/ t \notin Added
         \/ \E i \in Ids : TaskOf(i) = t /\ (i > delivered \/ i \in pel \/ Held(i))
  BY Zenon DEF IInv, NothingVanishes, Settled, Live

\* Nothing that decides on the place of u has changed.
LEMMA SamePlace ==
  ASSUME IInv, NEW u,
         u \in done' <=> u \in done, u \in lost' <=> u \in lost, u \in InDLQ' <=> u \in InDLQ,
         Copies(u)' = Copies(u),
         \A i \in Copies(u) : /\ (i > delivered)' <=> i > delivered
                              /\ i \in pel' <=> i \in pel
                              /\ Held(i)' <=> Held(i),
         pel \subseteq Ids, pel' \subseteq Ids'
  PROVE  PlaceOf(u)' = PlaceOf(u)
<1>1. (\E i \in Ids : TaskOf(i) = u /\ i > delivered) <=> \E i \in Copies(u) : i > delivered
  BY Zenon DEF Copies
<1>2. (\E i \in pel : TaskOf(i) = u) <=> \E i \in Copies(u) : i \in pel
  BY Zenon DEF Copies
<1>3. (\E i \in Ids : TaskOf(i) = u /\ Held(i)) <=> \E i \in Copies(u) : Held(i)
  BY Zenon DEF Copies
<1>4. (\E i \in Ids' : TaskOf(i)' = u /\ i > delivered') <=> \E i \in Copies(u)' : i > delivered'
  BY Zenon DEF Copies
<1>5. (\E i \in pel' : TaskOf(i)' = u) <=> \E i \in Copies(u)' : i \in pel'
  BY Zenon DEF Copies
<1>6. (\E i \in Ids' : TaskOf(i)' = u /\ Held(i)') <=> \E i \in Copies(u)' : Held(i)'
  BY Zenon DEF Copies
<1> QED BY <1>1, <1>2, <1>3, <1>4, <1>5, <1>6 DEF PlaceOf

(***************************************************************************)
(* Steps.  A step of Recovery moves the tasks of a set, or none.           *)
(***************************************************************************)
LifecycleStep ==
  \/ Lifecycle!Next
  \/ \A u \in Tasks : PlaceOf(u)' = PlaceOf(u) /\ AttemptsOf(u)' = AttemptsOf(u)

\* The tasks of S move to p.
LEMMA Moving ==
  ASSUME NEW S \in SUBSET Tasks, NEW p,
         \A u \in Tasks : PlaceOf(u)' = IF u \in S THEN p ELSE PlaceOf(u)
  PROVE  Lifecycle!Move(S, p)
  BY Zenon DEF Lifecycle!Move

\* Steps that concern no entry and nobody's hands.
LEMMA Stutters ==
  ASSUME IInv, UNCHANGED <<log, delivered, pel, dlq, done, lost>>,
         \A i \in Ids : Held(i)' <=> Held(i)
  PROVE  LifecycleStep
<1>1. ASSUME NEW u \in Tasks PROVE PlaceOf(u)' = PlaceOf(u) /\ AttemptsOf(u)' = AttemptsOf(u)
  <2>1. Copies(u)' = Copies(u) /\ Copies(u) \subseteq Ids
    BY Zenon DEF Copies, Ids, TaskOf
  <2>2. pel \subseteq Ids /\ pel' \subseteq Ids'
    BY IdsRange DEF IInv, TypeOK, LBSType, Ids
  <2>3. PlaceOf(u)' = PlaceOf(u)
    BY <2>1, <2>2, SamePlace DEF InDLQ
  <2> QED BY <2>1, <2>3, Zenon DEF AttemptsOf
<1> QED BY <1>1, Zenon DEF LifecycleStep

\* Steps that concern one entry that was delivered: the other tasks stay where
\* they are, and none is added again.
LEMMA OneMoves ==
  ASSUME IInv, UNCHANGED <<log, delivered>>, NEW i \in Ids, NEW t, t = TaskOf(i),
         pel' \in {pel, pel \ {i}},
         \A j \in Ids : j # i => (Held(j)' <=> Held(j)),
         \A u : u # t => /\ u \in done' <=> u \in done
                         /\ u \in lost' <=> u \in lost
                         /\ u \in InDLQ' <=> u \in InDLQ
  PROVE  \A u \in Tasks : /\ u # t => PlaceOf(u)' = PlaceOf(u)
                          /\ AttemptsOf(u)' = AttemptsOf(u)
<1> SUFFICES ASSUME NEW u \in Tasks
             PROVE  /\ u # t => PlaceOf(u)' = PlaceOf(u)
                    /\ AttemptsOf(u)' = AttemptsOf(u)
  BY Zenon
<1>1. Copies(u)' = Copies(u) /\ Copies(u) \subseteq Ids
  BY Zenon DEF Copies, Ids, TaskOf
<1>2. pel \subseteq Ids /\ pel' \subseteq Ids'
  BY IdsRange DEF IInv, TypeOK, LBSType, Ids
<1>3. ASSUME u # t PROVE PlaceOf(u)' = PlaceOf(u)
  <2>1. \A j \in Copies(u) : j # i
    BY <1>3, Zenon DEF Copies
  <2> QED BY <1>1, <1>2, <1>3, <2>1, SamePlace
<1> QED BY <1>1, <1>3, Zenon DEF AttemptsOf

\* What a recoverer takes or lets go of is the entry it works on.
LEMMA HeldOthers ==
  ASSUME IInv, NEW r \in Recoverers, NEW v, rec' = [rec EXCEPT ![r] = v],
         v.pc \in {"add", "dlqadd"} => v.i = rec[r].i
  PROVE  /\ \A j : j # rec[r].i => (Held(j)' <=> Held(j))
         /\ InHand(r)' <=> v.pc \in {"add", "dlqadd"}
         /\ rec'[r] = v
<1>0. rec \in [Recoverers -> RecState]
  BY Zenon DEF IInv, TypeOK, RecovererType
<1>1. rec'[r] = v /\ \A q \in Recoverers : q # r => rec'[q] = rec[q]
  BY <1>0, Zenon
<1> QED BY <1>1, Zenon DEF Held, InHand

\* A producer adds a new task.
LEMMA LifeProduce ==
  ASSUME IInv, IInv', CountInv, NEW t \in Tasks, Produce(t), UNCHANGED recVars
  PROVE  LifecycleStep /\ CountInv'
<1>1. /\ t \notin Added /\ XAdd(t, 0)
      /\ UNCHANGED <<delivered, pel, dlq, done, lost, rec>>
  BY Zenon DEF Produce, recVars
<1>2. Copies(t) = {} /\ Cardinality(Copies(t)) = 0
  BY <1>1, FS_EmptySet, Zenon DEF Copies, Added
<1>3. /\ CountInv'
      /\ \A u : u # t => Copies(u)' = Copies(u)
      /\ Copies(t)' # {} /\ Cardinality(Copies(t)') = 1
  BY <1>1, <1>2, CountAdd
<1>4. PlaceOf(t) = "new"
  BY <1>1, PlacesHold, Zenon DEF Places
<1>5. PlaceOf(t)' = "waiting"
  <2>1. PICK i \in Ids' : TaskOf(i)' = t
    BY <1>3, Zenon DEF Copies
  <2>2. i \notin Ids
    <3>1. log \in Seq(Entry)
      BY Zenon DEF IInv, TypeOK, LBSType
    <3>2. \A j \in Ids : log'[j] = log[j]
      BY Zenon, <1>1, <3>1, AppendEntry
    <3> QED BY <1>1, <2>1, <3>2, Zenon DEF Added, TaskOf
  <2>3. i \in Nat /\ i > delivered'
    <3>1. Ids = 1 .. Len(log) /\ Len(log) \in Nat /\ delivered \in 0 .. Len(log)
      BY IdsRange, Zenon DEF IInv, TypeOK, LBSType
    <3>2. Ids' = 1 .. Len(log) + 1
      BY Zenon, <1>1, AppendEntry DEF IInv, TypeOK, LBSType
    <3> QED BY <1>1, <2>2, <3>1, <3>2
  <2> QED BY <2>1, <2>3, PlacesNext DEF Places
<1>6. ASSUME NEW u \in Tasks, u # t PROVE PlaceOf(u)' = PlaceOf(u) /\ AttemptsOf(u)' = AttemptsOf(u)
  <2>1. Copies(u)' = Copies(u)
    BY <1>3, <1>6, Zenon
  <2>2. pel \subseteq Ids /\ pel' \subseteq Ids'
    BY IdsRange DEF IInv, TypeOK, LBSType, Ids
  <2>3. \A i \in Copies(u) : Held(i)' <=> Held(i)
    BY <1>1, Zenon DEF Held, InHand
  <2>4. PlaceOf(u)' = PlaceOf(u)
    BY <1>1, <2>1, <2>2, <2>3, SamePlace DEF InDLQ
  <2> QED BY <2>1, <2>4, Zenon DEF AttemptsOf
<1>7. AttemptsOf(t)' = AttemptsOf(t)
  BY <1>2, <1>3 DEF AttemptsOf
<1>8. Lifecycle!Move({t}, "waiting")
  BY <1>5, <1>6, Moving, Zenon
<1>9. Lifecycle!Add(t)
  BY <1>4, <1>6, <1>7, <1>8 DEF Lifecycle!Add
<1> QED BY <1>3, <1>9, Zenon DEF LifecycleStep, Lifecycle!Next

\* The counts depend on the log alone.
LEMMA CountSame == CountInv /\ UNCHANGED log => CountInv'
  BY Zenon DEF CountInv, Older, Ids, TaskOf

\* XREADGROUP delivers everything that waits.
LEMMA LifeReadBatch ==
  ASSUME IInv, IInv', NEW c \in Consumers, ReadBatch(c) \/ ReadFails(c), XReadGroup, UNCHANGED recVars
  PROVE  LifecycleStep
<1>1. /\ UNCHANGED <<log, dlq, done, lost, rec>>
      /\ delivered' = Len(log) /\ pel' = pel \cup (delivered + 1 .. Len(log))
  BY Zenon DEF ReadBatch, ReadFails, XReadGroup, recVars
<1>2. /\ Ids = 1 .. Len(log) /\ Len(log) \in Nat /\ delivered \in 0 .. Len(log)
      /\ pel \subseteq Ids /\ pel' \subseteq Ids /\ Ids' = Ids
      /\ \A i \in pel : ~(i > delivered)
  BY <1>1, IdsRange DEF IInv, TypeOK, LBSType, Ids
<1>3. ASSUME NEW u \in Tasks PROVE AttemptsOf(u)' = AttemptsOf(u) /\ Copies(u)' = Copies(u)
  BY <1>1, Zenon DEF AttemptsOf, Copies, Ids, TaskOf
<1>4. ASSUME NEW u \in Tasks, PlaceOf(u) = "waiting" PROVE PlaceOf(u)' = "owned"
  <2>1. PICK i \in Ids : TaskOf(i) = u /\ i > delivered
    BY <1>2, <1>4, SomewhereHold, PlacesHold DEF Places
  <2>2. i \in pel' /\ TaskOf(i)' = u
    BY <1>1, <1>2, <2>1 DEF TaskOf
  <2> QED BY <2>2, PlacesNext, Zenon DEF Places
<1>5. ASSUME NEW u \in Tasks, PlaceOf(u) # "waiting" PROVE PlaceOf(u)' = PlaceOf(u)
  <2>1. \A i \in Copies(u) : i \in Ids /\ ~(i > delivered)
    BY <1>5, PlacesHold, Zenon DEF Places, Copies
  <2>2. \A i \in Copies(u) : ~(i > delivered') /\ (i \in pel' <=> i \in pel)
    BY <1>1, <1>2, <2>1
  <2>3. \A i \in Copies(u) : Held(i)' <=> Held(i)
    BY <1>1, Zenon DEF Held, InHand
  <2>4. Copies(u)' = Copies(u)
    BY <1>3, Zenon
  <2> QED BY <1>1, <1>2, <2>1, <2>2, <2>3, <2>4, SamePlace DEF InDLQ
<1>6. \A u \in Tasks : PlaceOf(u)' = IF PlaceOf(u) = "waiting" THEN "owned" ELSE PlaceOf(u)
  BY <1>4, <1>5, Zenon
<1>7. Lifecycle!Deliver
  BY <1>3, <1>6, Zenon DEF Lifecycle!Deliver, Lifecycle!Move
<1> QED BY <1>7, Zenon DEF LifecycleStep, Lifecycle!Next

\* DoneStream finishes the task of a pending entry, and only that.
LEMMA LifeDoneAck ==
  ASSUME IInv, IInv', NEW k \in calls, DoneAck(k), UNCHANGED recVars
  PROVE  LifecycleStep
<1>1. UNCHANGED <<log, delivered, dlq, lost, rec>>
  BY Zenon DEF DoneAck, recVars
<1>2. \A j : Held(j)' <=> Held(j)
  BY <1>1, Zenon DEF Held, InHand
<1>3. CASE k.i \in pel /\ AckDone(k)
  <2>1. PICK i \in pel : i = k.i
    BY <1>3, Zenon
  <2>2. PICK t \in Tasks : t = TaskOf(i)
    <3>1. log[i] \in Entry
      BY PendingLive DEF IInv, TypeOK, LBSType, Ids
    <3> QED BY <3>1, Zenon DEF Entry, TaskOf
  <2>3. pel' = pel \ {i} /\ done' = done \cup {t}
    BY <1>3, <2>1, <2>2, Zenon DEF AckDone, XAck
  <2>4. i \in Ids /\ PlaceOf(t) = "owned"
    BY <2>2, PendingLive, PlacesHold DEF Places
  <2>5. PlaceOf(t)' = "done"
    BY <2>3, PlacesNext, Zenon DEF Places
  <2>6. InDLQ' = InDLQ
    BY <1>1, Zenon DEF InDLQ
  <2>7. \A u \in Tasks : /\ u # t => PlaceOf(u)' = PlaceOf(u)
                         /\ AttemptsOf(u)' = AttemptsOf(u)
    BY <1>1, <1>2, <2>2, <2>3, <2>4, <2>6, OneMoves
  <2>8. Lifecycle!Move({t}, "done")
    BY <2>5, <2>7, Moving, Zenon
  <2>9. Lifecycle!Finish(t)
    BY <2>4, <2>7, <2>8, Zenon DEF Lifecycle!Finish
  <2> QED BY <2>9, Zenon DEF LifecycleStep, Lifecycle!Next
<1>4. CASE UNCHANGED <<pel, done>>
  BY <1>1, <1>2, <1>4, Stutters
<1>5. \/ k.i \in pel /\ AckDone(k)
      \/ UNCHANGED <<pel, done>>
  BY Zenon DEF DoneAck, AckDone, XAck
<1> QED BY <1>3, <1>4, <1>5, Zenon

\* The XACK of a recoverer takes the task, or drops it when its reply is lost.
LEMMA LifeAckFirst ==
  ASSUME IInv, IInv', NEW r \in Recoverers, ReQueueAck(r) \/ DLQAck(r)
  PROVE  LifecycleStep
<1>1. PICK at, next : /\ AckFirst(r, at, next)
                      /\ <<at, next>> \in {<<"ack", "add">>, <<"dlqack", "dlqadd">>}
  BY Zenon DEF ReQueueAck, DLQAck
<1>2. /\ UNCHANGED <<log, delivered, dlq, done>>
      /\ rec[r].pc = at /\ ~InHand(r) /\ rec[r].pc \notin {"rest", "loop"}
  BY <1>1, Zenon DEF AckFirst, At, InHand
<1>3. PICK i \in Ids : i = rec[r].i
  BY <1>2, BusyEntry, Zenon
<1>4. PICK t \in Tasks : t = TaskOf(i)
  <2>1. log[i] \in Entry
    BY <1>2, <1>3, BusyEntry, Zenon
  <2> QED BY <2>1, Zenon DEF Entry, TaskOf
<1>5. InDLQ' = InDLQ
  BY <1>2, Zenon DEF InDLQ
<1>6. CASE i \in pel /\ XAck(i) /\ Step(r, next) /\ UNCHANGED lost
  <2>1. PICK v : rec' = [rec EXCEPT ![r] = v] /\ v.pc = next /\ v.i = i
    BY <1>3, <1>6, Moves
  <2>2. /\ \A j : j # i => (Held(j)' <=> Held(j))
        /\ InHand(r)' /\ rec'[r].i = i
    BY Zenon, <1>1, <1>3, <2>1, HeldOthers
  <2>3. PlaceOf(t) = "owned"
    BY <1>4, <1>6, PlacesHold, Zenon DEF Places
  <2>4. PlaceOf(t)' = "taken"
    <3>1. Held(i)' /\ i \in Ids' /\ TaskOf(i)' = t
      BY <1>2, <1>4, <2>2 DEF Held, Ids, TaskOf
    <3> QED BY <3>1, PlacesNext, Zenon DEF Places
  <2>5. pel' = pel \ {i}
    BY <1>6, Zenon DEF XAck
  <2>6. \A u \in Tasks : /\ u # t => PlaceOf(u)' = PlaceOf(u)
                         /\ AttemptsOf(u)' = AttemptsOf(u)
    BY SMTT(30), <1>2, <1>4, <1>5, <1>6, <2>2, <2>5, OneMoves
  <2>7. Lifecycle!Move({t}, "taken")
    BY <2>4, <2>6, Moving
  <2>8. Lifecycle!Take(t)
    BY <2>3, <2>6, <2>7, Zenon DEF Lifecycle!Take
  <2> QED BY <2>8, Zenon DEF LifecycleStep, Lifecycle!Next
<1>7. CASE i \in pel /\ XAck(i) /\ Return(r) /\ lost' = lost \cup {t}
  <2>1. PICK v : rec' = [rec EXCEPT ![r] = v] /\ v.pc \in {"loop", "rest"}
    BY <1>7, Moves, Zenon
  <2>2. \A j : j # i => (Held(j)' <=> Held(j))
    BY ZenonT(40), <1>3, <2>1, HeldOthers
  <2>3. PlaceOf(t) = "owned"
    BY <1>4, <1>7, PlacesHold DEF Places
  <2>4. PlaceOf(t)' = "lost"
    BY <1>7, PlacesNext, Zenon DEF Places
  <2>5. pel' = pel \ {i}
    BY <1>7, Zenon DEF XAck
  <2>6. \A u \in Tasks : /\ u # t => PlaceOf(u)' = PlaceOf(u)
                         /\ AttemptsOf(u)' = AttemptsOf(u)
    BY ZenonT(40), <1>2, <1>4, <1>5, <1>7, <2>2, <2>5, OneMoves
  <2>7. Lifecycle!Move({t}, "lost")
    BY <2>4, <2>6, Moving
  <2>8. Lifecycle!Drop({t})
    BY SMTT(30), <2>3, <2>6, <2>7 DEF Lifecycle!Drop
  <2> QED BY <2>8, Zenon DEF LifecycleStep, Lifecycle!Next
<1>8. CASE Return(r) /\ UNCHANGED <<pel, lost>>
  <2>1. PICK v : rec' = [rec EXCEPT ![r] = v] /\ v.pc \in {"loop", "rest"}
    BY <1>8, Moves, Zenon
  <2>2. /\ \A j : j # i => (Held(j)' <=> Held(j))
        /\ ~InHand(r)'
    BY Zenon, <1>3, <2>1, HeldOthers
  <2>3. \A j : Held(j)' <=> Held(j)
    <3>1. rec \in [Recoverers -> RecState]
      BY Zenon DEF IInv, TypeOK, RecovererType
    <3>2. \A q \in Recoverers : q # r => rec'[q] = rec[q]
      BY <2>1, <3>1, Zenon
    <3> QED BY <1>2, <2>2, <3>2 DEF Held, InHand
  <2> QED BY <1>2, <1>8, <2>3, Stutters
<1> QED BY <1>1, <1>3, <1>4, <1>6, <1>7, <1>8 DEF AckFirst

\* What a recoverer has taken goes to the DLQ or is dropped.
LEMMA LifeLetGo ==
  ASSUME IInv, IInv', NEW r \in Recoverers, InHand(r),
         UNCHANGED <<log, delivered, pel, done>>,
         NEW v, rec' = [rec EXCEPT ![r] = v], v.pc \notin {"add", "dlqadd"},
         NEW t \in Tasks, t = TaskOf(rec[r].i),
         \A u : u # t => (u \in lost' <=> u \in lost) /\ (u \in InDLQ' <=> u \in InDLQ)
  PROVE  /\ PlaceOf(t) = "taken"
         /\ \A u \in Tasks : /\ u # t => PlaceOf(u)' = PlaceOf(u)
                             /\ AttemptsOf(u)' = AttemptsOf(u)
<1>1. PICK i \in Ids : i = rec[r].i
  BY HeldLive, Zenon
<1>2. \A j : j # i => (Held(j)' <=> Held(j))
  BY Zenon, <1>1, HeldOthers
<1>3. PlaceOf(t) = "taken"
  <2>1. Held(i)
    BY <1>1, Zenon DEF Held
  <2> QED BY <1>1, <2>1, PlacesHold, Zenon DEF Places
<1> QED BY SMTT(30), <1>1, <1>2, <1>3, OneMoves

\* A task whose XADD fails is dropped.
LEMMA LifeDrop ==
  ASSUME IInv, IInv', NEW r \in Recoverers, InHand(r), Return(r),
         UNCHANGED <<log, delivered, pel, dlq, done>>,
         lost' = lost \cup {TaskOf(rec[r].i)}
  PROVE  LifecycleStep
<1>1. PICK t \in Tasks : t = TaskOf(rec[r].i)
  BY BusyEntry, Zenon DEF InHand, Entry, TaskOf
<1>2. PICK v : rec' = [rec EXCEPT ![r] = v] /\ v.pc \in {"loop", "rest"}
  BY Moves, Zenon
<1>3. /\ PlaceOf(t) = "taken"
      /\ \A u \in Tasks : /\ u # t => PlaceOf(u)' = PlaceOf(u)
                          /\ AttemptsOf(u)' = AttemptsOf(u)
  BY Zenon, <1>1, <1>2, LifeLetGo DEF InDLQ
<1>4. PlaceOf(t)' = "lost"
  BY <1>1, PlacesNext, Zenon DEF Places
<1>5. Lifecycle!Move({t}, "lost")
  BY <1>3, <1>4, Moving, Zenon
<1>6. Lifecycle!Drop({t})
  BY <1>3, <1>5, Zenon DEF Lifecycle!Drop
<1> QED BY <1>6, Zenon DEF LifecycleStep, Lifecycle!Next

\* routeToDLQ dead-letters a task that is unparseable or exhausted.
LEMMA LifeDLQAdd ==
  ASSUME IInv, IInv', CountInv, NEW r \in Recoverers, DLQAdd(r)
  PROVE  LifecycleStep
<1>1. /\ UNCHANGED <<log, delivered, pel, done>>
      /\ InHand(r) /\ rec[r].pc = "dlqadd"
  BY Zenon DEF DLQAdd, At, InHand
<1>2. PICK i \in Ids : i = rec[r].i /\ Live(i)
  BY <1>1, HeldLive, Zenon
<1>3. PICK t \in Tasks : t = TaskOf(i)
  BY <1>1, <1>2, BusyEntry, Zenon DEF InHand, Entry, TaskOf
<1>4. CASE Return(r) /\ lost' = lost \cup {TaskOf(rec[r].i)} /\ UNCHANGED dlq
  BY <1>1, <1>4, LifeDrop, Zenon
<1>5. CASE /\ dlq' = Append(dlq, DLQEntry(rec[r].i)) /\ UNCHANGED lost
           /\ Step(r, "del") \/ Return(r)
  <2>1. PICK v : rec' = [rec EXCEPT ![r] = v] /\ v.pc \notin {"add", "dlqadd"}
    BY <1>5, Moves
  <2>2. InDLQ' = InDLQ \cup {t}
    <3>1. dlq \in Seq(Entry) /\ DLQEntry(rec[r].i).task = t
      BY <1>2, <1>3 DEF IInv, TypeOK, LBSType, DLQEntry
    <3>2. PICK n \in Nat : n = Len(dlq)
      BY SMTT(30), <3>1
    <3>3. /\ DOMAIN dlq = 1 .. n /\ DOMAIN dlq' = 1 .. n + 1
          /\ \A k \in 1 .. n : dlq'[k] = dlq[k]
          /\ dlq'[n + 1] = DLQEntry(rec[r].i)
      BY <1>5, <3>1, <3>2
    <3>4. DOMAIN dlq' = DOMAIN dlq \cup {n + 1} /\ n + 1 \notin DOMAIN dlq
      BY <3>3
    <3> QED BY SMTT(30), <3>1, <3>3, <3>4 DEF InDLQ
  <2>3. /\ PlaceOf(t) = "taken"
        /\ \A u \in Tasks : /\ u # t => PlaceOf(u)' = PlaceOf(u)
                            /\ AttemptsOf(u)' = AttemptsOf(u)
    BY Zenon, <1>1, <1>2, <1>3, <1>5, <2>1, <2>2, LifeLetGo
  <2>4. PlaceOf(t)' = "dlq"
    BY <2>2, PlacesNext, Zenon DEF Places
  <2>5. t \in Poison \/ AttemptsOf(t) = MaxRetries
    BY Zenon, <1>1, <1>2, <1>3, LiveCounts DEF IInv, HandlerFacts
  <2>6. Lifecycle!Move({t}, "dlq")
    BY <2>3, <2>4, Moving
  <2>7. Lifecycle!DeadLetter(t)
    BY <2>3, <2>5, <2>6 DEF Lifecycle!DeadLetter
  <2> QED BY <2>7, Zenon DEF LifecycleStep, Lifecycle!Next
<1> QED BY <1>4, <1>5, Zenon DEF DLQAdd

\* reQueue offers a task once more, with its count raised.
LEMMA LifeReQueueAdd ==
  ASSUME IInv, IInv', CountInv, NEW r \in Recoverers, ReQueueAdd(r)
  PROVE  LifecycleStep /\ CountInv'
<1>1. /\ UNCHANGED <<delivered, pel, dlq, done>>
      /\ InHand(r) /\ rec[r].pc = "add"
  BY Zenon DEF ReQueueAdd, At, InHand
<1>2. PICK i \in Ids : i = rec[r].i /\ Live(i)
  BY <1>1, HeldLive, Zenon
<1>3. PICK t \in Tasks : t = TaskOf(i) /\ log[i].retry \in Nat
  BY SMTT(30), <1>1, <1>2, BusyEntry DEF InHand, Entry, TaskOf
<1>4. CASE Return(r) /\ lost' = lost \cup {TaskOf(rec[r].i)} /\ UNCHANGED log
  BY Zenon, <1>1, <1>4, LifeDrop, CountSame
<1>5. CASE /\ XAdd(TaskOf(rec[r].i), log[rec[r].i].retry + 1) /\ UNCHANGED lost
           /\ Step(r, "del") \/ Return(r)
  <2>1. PICK v : rec' = [rec EXCEPT ![r] = v] /\ v.pc \notin {"add", "dlqadd"}
    BY <1>5, Moves
  <2>2. PICK n \in Nat : n = log[i].retry + 1
    BY <1>3
  <2>3. /\ Cardinality(Copies(t)) = n /\ AttemptsOf(t) = n - 1 /\ XAdd(t, n)
        /\ t \notin Poison /\ n - 1 < MaxRetries
    <3>1. Cardinality(Copies(t)) = n /\ AttemptsOf(t) = log[i].retry
      BY SMTT(30), <1>2, <1>3, <2>2, LiveCounts
    <3>2. t \notin Poison /\ log[i].retry < MaxRetries
      BY ZenonT(40), <1>1, <1>2, <1>3 DEF IInv, HandlerFacts
    <3>3. XAdd(t, n)
      BY <1>2, <1>3, <1>5, <2>2
    <3> QED BY SMTT(30), <1>3, <2>2, <3>1, <3>2, <3>3
  <2>4. /\ CountInv'
        /\ \A u : u # t => Copies(u)' = Copies(u)
        /\ Copies(t)' # {} /\ Cardinality(Copies(t)') = n + 1
    BY <2>3, CountAdd, Zenon
  <2>5. \A j : j # i => (Held(j)' <=> Held(j))
    BY Zenon, <1>2, <2>1, HeldOthers
  <2>6. ASSUME NEW u \in Tasks, u # t
        PROVE  PlaceOf(u)' = PlaceOf(u) /\ AttemptsOf(u)' = AttemptsOf(u)
    <3>1. Copies(u)' = Copies(u) /\ i \notin Copies(u)
      BY <1>3, <2>4, <2>6 DEF Copies
    <3>2. pel \subseteq Ids /\ pel' \subseteq Ids'
      BY SMTT(30), IdsRange DEF IInv, TypeOK, LBSType, Ids
    <3>3. PlaceOf(u)' = PlaceOf(u)
      BY SMTT(30), <1>1, <1>5, <2>5, <3>1, <3>2, SamePlace DEF InDLQ
    <3> QED BY <3>1, <3>3, Zenon DEF AttemptsOf
  <2>7. PlaceOf(t) = "taken"
    <3>1. Held(i)
      BY SMTT(30), <1>1, <1>2 DEF Held
    <3> QED BY <1>3, <3>1, PlacesHold DEF Places
  <2>8. PlaceOf(t)' = "waiting"
    <3>1. PICK m \in Nat : m = Len(log) + 1 /\ m > delivered
      BY IdsRange DEF IInv, TypeOK, LBSType
    <3>2. m \in Ids' /\ log'[m].task = t
      <4>1. log \in Seq(Entry) /\ Len(log) \in Nat
        BY IdsRange DEF IInv, TypeOK, LBSType
      <4>2. Ids' = 1 .. m /\ log'[m] = [task |-> t, retry |-> n]
        BY <2>3, <3>1, <4>1, AppendEntry
      <4> QED BY <3>1, <4>1, <4>2
    <3> QED BY <1>1, <3>1, <3>2, PlacesNext DEF Places, TaskOf
  <2>9. AttemptsOf(t)' = AttemptsOf(t) + 1
    BY <2>3, <2>4 DEF AttemptsOf
  <2>10. Lifecycle!Move({t}, "waiting")
    BY <2>6, <2>8, Moving
  <2>11. Lifecycle!Offer(t)
    BY ZenonT(40), <2>3, <2>6, <2>7, <2>9, <2>10 DEF Lifecycle!Offer
  <2> QED BY <2>4, <2>11, Zenon DEF LifecycleStep, Lifecycle!Next
<1> QED BY <1>4, <1>5, Zenon DEF ReQueueAdd

\* A crash drops what the recoverers of the process had taken.
LEMMA LifeCrash ==
  ASSUME IInv, IInv', NEW c \in Consumers, Crash(c)
  PROVE  LifecycleStep
<1> DEFINE D == {q \in Recoverers : Host[q] = c /\ InHand(q)}
           T == {TaskOf(rec[r].i) : r \in D}
<1>1. /\ UNCHANGED <<log, delivered, pel, dlq, done>>
      /\ rec' = [r \in Recoverers |-> IF Host[r] = c THEN Resting ELSE rec[r]]
      /\ lost' = lost \cup T
  BY Zenon DEF Crash
<1>2. \A r \in Recoverers : IF Host[r] = c THEN ~InHand(r)' ELSE rec'[r] = rec[r]
  BY ZenonT(40), <1>1 DEF InHand, Resting
<1>3. ASSUME NEW r \in D PROVE PlaceOf(TaskOf(rec[r].i)) = "taken" /\ TaskOf(rec[r].i) \in Tasks
  <2>1. rec[r].i \in Ids /\ Held(rec[r].i)
    BY HeldLive, Zenon DEF Held
  <2>2. log[rec[r].i] \in Entry
    BY BusyEntry, Zenon DEF InHand
  <2> QED BY SMTT(30), <2>1, <2>2, PlacesHold DEF Places, Entry, TaskOf
<1>4. PICK S \in SUBSET Tasks : S = T
  BY Zenon, <1>3
<1>5. \A u \in S : PlaceOf(u) = "taken"
  BY <1>3, <1>4, Zenon
<1>6. \A u \in S : PlaceOf(u)' = "lost"
  BY <1>1, <1>4, PlacesNext DEF Places
<1>7. ASSUME NEW u \in Tasks
      PROVE  /\ u \notin S => PlaceOf(u)' = PlaceOf(u)
             /\ AttemptsOf(u)' = AttemptsOf(u)
  <2>1. Copies(u)' = Copies(u) /\ Copies(u) \subseteq Ids
    BY <1>1, Zenon DEF Copies, Ids, TaskOf
  <2>2. pel \subseteq Ids /\ pel' \subseteq Ids'
    BY IdsRange DEF IInv, TypeOK, LBSType, Ids
  <2>3. ASSUME u \notin S, NEW i \in Copies(u) PROVE Held(i)' <=> Held(i)
    <3>1. \A r \in Recoverers : InHand(r) /\ rec[r].i = i => Host[r] # c
      BY SMTT(30), <1>4, <2>3 DEF Copies
    <3>2. ASSUME Held(i) PROVE Held(i)'
      BY <1>2, <3>1, <3>2 DEF Held, InHand
    <3>3. ASSUME Held(i)' PROVE Held(i)
      BY SMTT(30), <1>2, <3>3 DEF Held, InHand
    <3> QED BY <3>2, <3>3, Zenon
  <2>4. ASSUME u \notin S PROVE PlaceOf(u)' = PlaceOf(u)
    <3>1. u \in lost' <=> u \in lost
      BY <1>1, <1>4, <2>4
    <3>2. InDLQ' = InDLQ
      BY <1>1, Zenon DEF InDLQ
    <3>3. \A i \in Copies(u) : Held(i)' <=> Held(i)
      BY <2>3, <2>4, Zenon
    <3> HIDE DEF T
    <3> QED BY SMTT(30), <1>1, <2>1, <2>2, <3>1, <3>2, <3>3, SamePlace
  <2> QED BY <2>1, <2>4, Zenon DEF AttemptsOf
<1> HIDE DEF T
<1>8. Lifecycle!Move(S, "lost")
  BY <1>6, <1>7, Moving, Zenon
<1>9. Lifecycle!Drop(S)
  BY <1>5, <1>7, <1>8, Zenon DEF Lifecycle!Drop
<1> QED BY <1>9, Zenon DEF LifecycleStep, Lifecycle!Next

\* Looking at entries and deleting one move no task.
LEMMA LifeLook ==
  ASSUME IInv, NEW r \in Recoverers,
         \/ StartScan(r) \/ NextPending(r) \/ Claim(r)
         \/ ReadEntry(r) \/ AckRemoved(r) \/ CheckOwner(r) \/ DelOriginal(r)
  PROVE  LifecycleStep /\ UNCHANGED log
<1>1. UNCHANGED <<log, delivered, pel, dlq, done, lost>>
  <2>1. CASE AckRemoved(r)
    BY <2>1, Zenon DEF AckRemoved, XAck, IInv, PendingHasPayload
  <2>2. CASE \/ StartScan(r) \/ NextPending(r) \/ Claim(r)
             \/ ReadEntry(r) \/ CheckOwner(r) \/ DelOriginal(r)
    BY ZenonT(40), <2>2 DEF StartScan, NextPending, Claim, ReadEntry, CheckOwner, DelOriginal,
                            lbsVars
  <2> QED BY <2>1, <2>2, Zenon
<1>2. ~InHand(r)
  BY Zenon DEF StartScan, NextPending, Claim, ReadEntry, AckRemoved, CheckOwner, DelOriginal,
               At, InHand
<1>3. \E v : rec' = [rec EXCEPT ![r] = v] /\ v.pc \notin {"add", "dlqadd"}
  <2>1. CASE StartScan(r)
    <3> DEFINE v == [pc |-> "loop", i |-> 0, todo |-> XPending(BatchSize)]
    <3>1. rec' = [rec EXCEPT ![r] = v] /\ v.pc \notin {"add", "dlqadd"}
      BY Zenon, <2>1 DEF StartScan
    <3> HIDE DEF v
    <3> QED BY ZenonT(40), <3>1
  <2>2. CASE NextPending(r)
    BY ZenonT(40), <2>2 DEF NextPending, Resting
  <2>3. CASE Claim(r)
    BY Zenon, <2>3 DEF Claim
  <2>4. CASE ReadEntry(r) \/ AckRemoved(r) \/ CheckOwner(r) \/ DelOriginal(r)
    <3>1. Return(r) \/ \E pc \in {"dlqack", "exists", "ack"} : Step(r, pc)
      BY Zenon, <2>4 DEF ReadEntry, AckRemoved, CheckOwner, DelOriginal
    <3>2. CASE Return(r)
      BY <3>2, Moves, Zenon
    <3>3. ASSUME NEW pc \in {"dlqack", "exists", "ack"}, Step(r, pc)
          PROVE  \E v : rec' = [rec EXCEPT ![r] = v] /\ v.pc \notin {"add", "dlqadd"}
      <4>1. PICK v : rec' = [rec EXCEPT ![r] = v] /\ v.pc = pc
        BY <3>3, Moves
      <4> QED BY Zenon, <4>1
    <3> QED BY <3>1, <3>2, <3>3
  <2> QED BY <2>1, <2>2, <2>3, <2>4
<1>4. \A j : Held(j)' <=> Held(j)
  <2>1. PICK v : rec' = [rec EXCEPT ![r] = v] /\ v.pc \notin {"add", "dlqadd"}
    BY Zenon, <1>3
  <2>2. rec \in [Recoverers -> RecState]
    BY Zenon DEF IInv, TypeOK, RecovererType
  <2>3. rec'[r] = v /\ \A q \in Recoverers : q # r => rec'[q] = rec[q]
    BY <2>1, <2>2, Zenon
  <2> QED BY <1>2, <2>1, <2>3 DEF Held, InHand
<1> QED BY <1>1, <1>4, Stutters, Zenon

\* Steps that touch neither the entries nor the recoverers.
LEMMA LifeQuiet ==
  ASSUME IInv, UNCHANGED <<log, delivered, pel, dlq, done, lost, rec>>
  PROVE  LifecycleStep
  BY Stutters, Zenon DEF Held, InHand

\* Every step of a reader, an extender and a DoneStream call.
LEMMA LifeClient ==
  ASSUME IInv, IInv', CountInv, ClientStep, UNCHANGED recVars
  PROVE  LifecycleStep /\ CountInv'
<1>0. UNCHANGED rec
  BY Zenon DEF recVars
<1>1. ASSUME NEW c \in Consumers, LockEntry(c) \/ TerminateReader(c) \/ SendAdded(c)
      PROVE  LifecycleStep
  BY <1>0, <1>1, LifeQuiet, Zenon DEF LockEntry, TerminateReader, SendAdded, lbsVars
<1>2. ASSUME NEW e \in exts, ExtenderStep(e)
      PROVE  LifecycleStep
  BY <1>0, <1>2, LifeQuiet, Zenon DEF ExtenderStep, ExtCheck, Extend, ExtendFails, SendDisowned,
                               ExtCleanup, lbsVars
<1>3. ASSUME NEW w \in working, FinishStream(w[1], w[2])
      PROVE  LifecycleStep
  BY <1>0, <1>3, LifeQuiet DEF FinishStream, lbsVars
<1>4. ASSUME NEW k \in calls, DoneDel(k) \/ DoneUnlock(k)
      PROVE  LifecycleStep
  BY ZenonT(40), <1>0, <1>4, LifeQuiet DEF DoneDel, DoneUnlock
<1>5. UNCHANGED log
  BY Zenon DEF ClientStep, ReaderStep, ExtenderStep, DoneStep, ReadBatch, ReadFails, LockEntry,
               TerminateReader, SendAdded, ExtCheck, Extend, ExtendFails, SendDisowned,
               ExtCleanup, FinishStream, DoneAck, DoneDel, DoneUnlock, lbsVars
<1>6. ASSUME NEW c \in Consumers, ReadBatch(c) \/ ReadFails(c)
      PROVE  LifecycleStep
  <2>1. CASE XReadGroup
    BY <1>6, <2>1, LifeReadBatch, Zenon
  <2>2. CASE ReadFails(c) /\ UNCHANGED <<delivered, pel>>
    BY <1>0, <2>2, LifeQuiet, Zenon DEF ReadFails
  <2> QED BY <1>6, <2>1, <2>2, Zenon DEF ReadBatch, ReadFails
<1> QED BY <1>1, <1>2, <1>3, <1>4, <1>5, <1>6, CountSame, LifeDoneAck
        DEF ClientStep, ReaderStep, DoneStep

\* Every step of a scan and of a Claim.
LEMMA LifeRecoverer ==
  ASSUME IInv, IInv', CountInv, NEW r \in Recoverers, RecovererStep(r)
  PROVE  LifecycleStep /\ CountInv'
<1>1. CASE \/ StartScan(r) \/ NextPending(r) \/ Claim(r)
           \/ ReadEntry(r) \/ AckRemoved(r) \/ CheckOwner(r) \/ DelOriginal(r)
  BY <1>1, LifeLook, CountSame, Zenon
<1>2. CASE ReQueueAck(r) \/ DLQAck(r)
  <2>1. UNCHANGED log
    BY <1>2, Zenon DEF ReQueueAck, DLQAck, AckFirst
  <2> QED BY <1>2, <2>1, LifeAckFirst, CountSame, Zenon
<1>3. CASE ReQueueAdd(r)
  BY <1>3, LifeReQueueAdd, Zenon
<1>4. CASE DLQAdd(r)
  <2>1. UNCHANGED log
    BY <1>4, Zenon DEF DLQAdd
  <2> QED BY <1>4, <2>1, LifeDLQAdd, CountSame, Zenon
<1> QED BY <1>1, <1>2, <1>3, <1>4, Zenon DEF RecovererStep, ReQueueStep

\* Every step of the system is a step of the life cycle, or changes nothing in it.
LEMMA LifeNext ==
  ASSUME IInv, IInv', CountInv, [Next]_vars
  PROVE  LifecycleStep /\ CountInv'
<1>1. ASSUME NEW i \in Ids, BecomeIdle(i) \/ ExpireLock(i)
      PROVE  LifecycleStep /\ CountInv'
  BY Zenon, <1>1, LifeQuiet, CountSame DEF BecomeIdle, ExpireLock
<1>2. ASSUME NEW c \in Consumers, Restart(c)
      PROVE  LifecycleStep /\ CountInv'
  BY <1>2, LifeQuiet, CountSame, Zenon DEF Restart, lbsVars, recVars
<1>3. ASSUME NEW c \in Consumers, Crash(c)
      PROVE  LifecycleStep /\ CountInv'
  <2>1. UNCHANGED log
    BY <1>3, Zenon DEF Crash
  <2> QED BY SMTT(30), <1>3, <2>1, LifeCrash, CountSame
<1>4. CASE UNCHANGED vars
  BY <1>4, LifeQuiet, CountSame, Zenon DEF vars, lbsVars, recVars
<1> QED BY <1>1, <1>2, <1>3, <1>4, LifeProduce, LifeClient, LifeRecoverer DEF Next

\* However scans, Claim calls, DoneStream calls, failing Redis calls and crashes
\* interleave, for any number of them: a task is in one place at a time, is
\* offered at most MaxRetries times more, reaches the DLQ only unparseable or
\* with its retries used up, and stays where it ends.
THEOREM RecoveryImplementsLifecycle == Spec => ImplementsLifecycle
<1>1. Init => Lifecycle!Init /\ CountInv
  <2> SUFFICES ASSUME Init PROVE Lifecycle!Init /\ CountInv
    BY Zenon
  <2>1. Ids = {}
    BY DEF Init, LBSInit, Ids
  <2>2. \A t \in Tasks : t \notin Added /\ Copies(t) = {}
    BY <2>1, Zenon DEF Added, Copies
  <2>3. \A t \in Tasks : PlaceOf(t) = "new" /\ AttemptsOf(t) = 0
    BY <2>2, InvInit, PlacesHold, Zenon DEF Places, AttemptsOf
  <2> QED BY <2>1, <2>3, Zenon DEF Lifecycle!Init, CountInv
<1>2. IInv /\ IInv' /\ CountInv /\ [Next]_vars =>
        CountInv' /\ [Lifecycle!Next]_<<[t \in Tasks |-> PlaceOf(t)], [t \in Tasks |-> AttemptsOf(t)]>>
  BY LifeNext, Zenon DEF LifecycleStep
<1> QED BY <1>1, <1>2, Inductive, PTL DEF Spec, ImplementsLifecycle, Lifecycle!Spec
=============================================================================
