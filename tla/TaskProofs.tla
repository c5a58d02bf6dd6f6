----------------------------- MODULE TaskProofs -----------------------------
(***************************************************************************)
(* What becomes of a task: the inductive invariant IInv of Recovery and    *)
(* the properties that follow from it.                                     *)
(***************************************************************************)
EXTENDS RecoveryProofs

(***************************************************************************)
(* The Redis calls of reQueue and routeToDLQ preserve IInv.                *)
(***************************************************************************)
\* A recoverer inside reQueue works on a delivered entry.
LEMMA BusyEntry ==
  ASSUME IInv, NEW r \in Recoverers, rec[r].pc \notin {"rest", "loop"}
  PROVE  rec[r].i \in Ids /\ log[rec[r].i] \in Entry
<1>1. rec \in [Recoverers -> RecState] /\ rec[r].i # 0
  BY Zenon DEF IInv, TypeOK, RecovererType
<1>2. rec[r].i \in 0 .. delivered
  BY <1>1, Zenon DEF RecState
<1>3. delivered \in 0 .. Len(log) /\ log \in Seq(Entry)
  BY Zenon DEF IInv, TypeOK, LBSType
<1> QED BY <1>1, <1>2, <1>3, IdsRange DEF IInv

\* Where a recoverer is after a step of reQueue.
LEMMA Moves ==
  ASSUME IInv, NEW r \in Recoverers
  PROVE  /\ Return(r) => \E v : /\ rec' = [rec EXCEPT ![r] = v]
                               /\ v.pc \in {"loop", "rest"}
         /\ \A pc : Step(r, pc) => \E v : /\ rec' = [rec EXCEPT ![r] = v]
                                          /\ v.pc = pc /\ v.i = rec[r].i
<1>1. ASSUME Return(r)
      PROVE  \E v : rec' = [rec EXCEPT ![r] = v] /\ v.pc \in {"loop", "rest"}
  <2> DEFINE v == IF r \in Scanners THEN [pc |-> "loop", i |-> 0, todo |-> rec[r].todo]
                  ELSE Resting
  <2>1. rec' = [rec EXCEPT ![r] = v]
    BY <1>1, Zenon DEF Return
  <2>2. v.pc \in {"loop", "rest"}
    BY Zenon DEF Resting
  <2> HIDE DEF v
  <2> QED BY Zenon, <2>1, <2>2
<1>2. ASSUME NEW pc, Step(r, pc)
      PROVE  \E v : rec' = [rec EXCEPT ![r] = v] /\ v.pc = pc /\ v.i = rec[r].i
  <2> DEFINE v == [pc |-> pc, i |-> rec[r].i, todo |-> rec[r].todo]
  <2>1. rec' = [rec EXCEPT ![r] = v]
    BY <1>2, Zenon DEF Step
  <2>2. v.pc = pc /\ v.i = rec[r].i
    BY Zenon
  <2> HIDE DEF v
  <2> QED BY Zenon, <2>1, <2>2
<1> QED BY <1>1, <1>2, Zenon

\* Scanning, Claim, XRANGE and EXISTS take nothing.
LEMMA InvLook ==
  ASSUME IInv, TypeOK', NEW r \in Recoverers, UNCHANGED <<clientVars, crashes>>,
         StartScan(r) \/ NextPending(r) \/ Claim(r) \/ ReadEntry(r) \/ CheckOwner(r)
  PROVE  IInv'
<1>1. UNCHANGED core /\ UNCHANGED calls
  BY Zenon DEF StartScan, NextPending, Claim, ReadEntry, CheckOwner, lbsVars, clientVars, core
<1>2. CASE StartScan(r)
  <2>1. /\ rec' = [rec EXCEPT ![r] = [pc |-> "loop", i |-> 0, todo |-> XPending(BatchSize)]]
        /\ ~InHand(r)
    BY <1>2, Zenon DEF StartScan, InHand
  <2> QED BY Zenon, <1>1, <2>1, QuietRecoverer
<1>3. CASE NextPending(r)
  <2>1. ~InHand(r)
    BY <1>3, Zenon DEF NextPending, InHand
  <2>2. CASE rec' = [rec EXCEPT ![r] = Resting]
    BY Zenon, <1>1, <2>1, <2>2, QuietRecoverer DEF Resting
  <2>3. ASSUME NEW i, rec' = [rec EXCEPT ![r] = [pc |-> "range", i |-> i, todo |-> rec[r].todo \ {i}]]
        PROVE  IInv'
    BY Zenon, <1>1, <2>1, <2>3, QuietRecoverer
  <2> QED BY <1>3, <2>2, <2>3, Zenon DEF NextPending
<1>4. CASE Claim(r)
  <2>1. ~InHand(r)
    BY <1>4, Zenon DEF Claim, InHand
  <2>2. PICK i : rec' = [rec EXCEPT ![r] = [pc |-> "range", i |-> i, todo |-> {}]]
    BY Zenon, <1>4 DEF Claim
  <2> QED BY Zenon, <1>1, <2>1, <2>2, QuietRecoverer
<1>5. CASE ReadEntry(r)
  <2>1. ~InHand(r)
    BY <1>5, Zenon DEF ReadEntry, At, InHand
  <2>2. PICK v : /\ rec' = [rec EXCEPT ![r] = v]
                 /\ \/ v.pc \in {"loop", "rest"}
                    \/ v.pc = "exists" /\ TaskOf(v.i) \notin Poison
                    \/ v.pc = "dlqack" /\ TaskOf(v.i) \in Poison
    BY <1>5, Moves DEF ReadEntry
  <2> QED BY Zenon, <1>1, <2>1, <2>2, QuietRecoverer
<1>6. CASE CheckOwner(r)
  <2>1. ~InHand(r)
    BY <1>6, Zenon DEF CheckOwner, At, InHand
  <2>2. /\ rec[r].i \in Ids
        /\ log[rec[r].i].retry \in Nat /\ log[rec[r].i].retry <= MaxRetries
        /\ TaskOf(rec[r].i) \notin Poison
    <3>1. rec[r].pc = "exists"
      BY <1>6, Zenon DEF CheckOwner, At
    <3>2. rec[r].i \in Ids /\ log[rec[r].i] \in Entry
      BY <3>1, BusyEntry, Zenon
    <3> QED BY <3>1, <3>2, Zenon DEF IInv, RetryBudget, HandlerFacts, Entry
  <2>3. PICK v : /\ rec' = [rec EXCEPT ![r] = v]
                 /\ \/ v.pc \in {"loop", "rest"}
                    \/ /\ v.pc = "dlqack" /\ v.i = rec[r].i
                       /\ log[v.i].retry = MaxRetries
                    \/ /\ v.pc = "ack" /\ v.i = rec[r].i
                       /\ log[v.i].retry < MaxRetries
    BY <1>6, <2>2, Moves, RecoveryAssumption DEF CheckOwner
  <2> QED BY Zenon, <1>1, <2>1, <2>2, <2>3, QuietRecoverer
<1> QED BY <1>2, <1>3, <1>4, <1>5, <1>6, Zenon

\* XACK of a deleted entry removes nothing: no deleted entry is pending.
LEMMA InvAckRemoved ==
  ASSUME IInv, TypeOK', NEW r \in Recoverers, AckRemoved(r), UNCHANGED <<clientVars, crashes>>
  PROVE  IInv'
<1>1. pel' = pel
  BY Zenon DEF AckRemoved, XAck, IInv, PendingHasPayload
<1>2. UNCHANGED core /\ UNCHANGED calls
  BY <1>1, Zenon DEF AckRemoved, core, clientVars
<1>3. PICK v : rec' = [rec EXCEPT ![r] = v] /\ v.pc \in {"loop", "rest"}
  BY Moves, Zenon DEF AckRemoved
<1>4. ~InHand(r)
  BY Zenon DEF AckRemoved, At, InHand
<1> QED BY Zenon, <1>2, <1>3, <1>4, QuietRecoverer

\* The XACK of reQueue and routeToDLQ: one recoverer gets the entry, or nobody
\* does and the task is lost, or the entry was not pending any more.
LEMMA InvAckFirst ==
  ASSUME IInv, TypeOK', NEW r \in Recoverers, UNCHANGED <<clientVars, crashes>>,
         ReQueueAck(r) \/ DLQAck(r)
  PROVE  IInv'
<1>1. PICK at, next : /\ AckFirst(r, at, next)
                      /\ <<at, next>> \in {<<"ack", "add">>, <<"dlqack", "dlqadd">>}
  BY Zenon DEF ReQueueAck, DLQAck
<1>2. /\ UNCHANGED <<log, delivered, deleted, dlq, done, calls>>
      /\ rec[r].pc = at /\ ~InHand(r)
  BY <1>1, Zenon DEF AckFirst, At, InHand, clientVars
<1>3. rec \in [Recoverers -> RecState]
  BY Zenon DEF IInv, TypeOK, RecovererType
<1>4. CASE Return(r) /\ UNCHANGED <<pel, lost>>
  <2>1. PICK v : rec' = [rec EXCEPT ![r] = v] /\ v.pc \in {"loop", "rest"}
    BY <1>4, Moves, Zenon
  <2> QED BY Zenon, <1>2, <1>4, <2>1, QuietRecoverer DEF core
<1>5. CASE rec[r].i \in pel /\ pel' = pel \ {rec[r].i} /\ Step(r, next) /\ UNCHANGED lost
  <2>1. PICK v : rec' = [rec EXCEPT ![r] = v] /\ v.pc = next /\ v.i = rec[r].i
    BY <1>5, Moves
  <2>2. /\ rec[r].i \in Ids /\ Live(rec[r].i)
        /\ \A q \in Recoverers : InHand(q) => rec[q].i # rec[r].i
    BY <1>5, PendingLive, Zenon
  <2>3. \A q \in Recoverers : /\ rec'[q].i = rec[q].i
                              /\ InHand(q)' <=> (q = r \/ InHand(q))
    BY <1>1, <1>3, <2>1, Zenon DEF InHand
  <2>4. \A i \in Ids : Live(i)' <=> Live(i)
    <3>1. \A i \in Ids : Held(i)' <=> Held(i) \/ i = rec[r].i
      BY <2>3, Zenon DEF Held
    <3> QED BY <1>2, <1>5, <2>2, <3>1, Zenon DEF Live
  <2>5. NewestLive' /\ SettledNotLive' /\ NothingVanishes'
    <3>1. /\ {} \in SUBSET Ids
          /\ \A i \in Ids : Live(i)' <=> Live(i) /\ i \notin {}
          /\ Settled' = Settled \cup {TaskOf(i) : i \in {}}
      BY <1>2, <1>5, <2>4, Zenon DEF Settled, InDLQ
    <3> QED BY Zenon, <1>2, <3>1, SettleStep
  <2>6. HandsExclusive'
    BY <1>5, <2>2, <2>3, Zenon DEF IInv, OneLiveEntry, HandsExclusive
  <2>7. SettledOnce' /\ RetryBudget' /\ PendingHasPayload'
    <3>1. SettledOnce'
      BY <1>2, <1>5 DEF IInv, NoResurrection, SettledOnce, InDLQ
    <3>2. RetryBudget'
      BY <1>2, <1>5, Zenon DEF IInv, RetryBudget, Ids, TaskOf
    <3>3. PendingHasPayload'
      BY <1>2, <1>5, Zenon DEF IInv, PendingHasPayload
    <3> QED BY <3>1, <3>2, <3>3, Zenon
  <2>8. HandlerFacts'
    BY <1>1, <1>2, <1>3, <1>5, <2>1 DEF IInv, HandlerFacts, TaskOf
  <2> QED BY <2>5, <2>6, <2>7, <2>8, Zenon DEF IInv, OneLiveEntry, NoResurrection
<1>6. CASE /\ rec[r].i \in pel /\ pel' = pel \ {rec[r].i}
           /\ Return(r) /\ lost' = lost \cup {TaskOf(rec[r].i)}
  <2>1. PICK v : rec' = [rec EXCEPT ![r] = v] /\ v.pc \in {"loop", "rest"}
    BY <1>6, Moves, Zenon
  <2>2. /\ rec[r].i \in Ids /\ rec[r].i \in 1 .. delivered /\ delivered \in Nat
        /\ Live(rec[r].i) /\ TaskOf(rec[r].i) \notin Settled
        /\ \A q \in Recoverers : InHand(q) => rec[q].i # rec[r].i
    BY <1>6, PendingLive, Zenon
  <2>3. \A q \in Recoverers : /\ InHand(q)' <=> InHand(q)
                              /\ InHand(q) => rec'[q].i = rec[q].i
    BY <1>2, <1>3, <2>1, Zenon DEF InHand
  <2>4. NewestLive' /\ SettledNotLive' /\ NothingVanishes'
    <3>1. \A i \in Ids : Held(i)' <=> Held(i)
      BY <2>3, Zenon DEF Held
    <3>2. ~Held(rec[r].i)
      BY <2>2, Zenon DEF Held
    <3>3. \A i \in Ids : Live(i)' <=> Live(i) /\ i \notin {rec[r].i}
      BY <1>2, <1>6, <2>2, <3>1, <3>2 DEF Live
    <3>4. Settled' = Settled \cup {TaskOf(i) : i \in {rec[r].i}}
      BY <1>2, <1>6, Zenon DEF Settled, InDLQ
    <3> QED BY Zenon, <1>2, <2>2, <3>3, <3>4, SettleStep
  <2>5. HandsExclusive'
    BY <1>6, <2>3, Zenon DEF IInv, OneLiveEntry, HandsExclusive
  <2>6. SettledOnce'
    BY <1>2, <1>6, <2>2 DEF IInv, NoResurrection, SettledOnce, InDLQ, Settled
  <2>7. RetryBudget' /\ PendingHasPayload'
    BY <1>2, <1>6, Zenon DEF IInv, RetryBudget, Ids, TaskOf, PendingHasPayload
  <2>8. HandlerFacts'
    BY Zenon, <1>2, <1>3, <1>6, <2>1 DEF IInv, HandlerFacts, TaskOf
  <2> QED BY <2>4, <2>5, <2>6, <2>7, <2>8, Zenon DEF IInv, OneLiveEntry, NoResurrection
<1> QED BY <1>1, <1>4, <1>5, <1>6, Zenon DEF AckFirst, XAck

\* A recoverer that has taken an entry lets go of it without re-adding it; its
\* task is recorded as lost or is put in the DLQ.
LEMMA LetGo ==
  ASSUME IInv, NEW r \in Recoverers, InHand(r),
         UNCHANGED <<log, delivered, deleted, pel, done, calls>>,
         NEW v, rec' = [rec EXCEPT ![r] = v], v.pc \notin {"add", "dlqadd"},
         Settled' = Settled \cup {TaskOf(rec[r].i)}
  PROVE  NewestLive' /\ SettledNotLive' /\ NothingVanishes' /\ HandsExclusive' /\ PendingHasPayload'
<1>0. rec \in [Recoverers -> RecState]
  BY Zenon DEF IInv, TypeOK, RecovererType
<1>1. /\ rec[r].i \in Ids /\ rec[r].i \in 1 .. delivered /\ delivered \in Nat
      /\ Live(rec[r].i) /\ rec[r].i \notin pel
      /\ \A q \in Recoverers : InHand(q) /\ rec[q].i = rec[r].i => q = r
  BY HeldLive, Zenon
<1>2. \A q \in Recoverers : /\ InHand(q)' <=> InHand(q) /\ q # r
                            /\ InHand(q)' => rec'[q].i = rec[q].i
  BY <1>0, Zenon DEF InHand
<1>3. \A i \in Ids : Held(i)' <=> Held(i) /\ i # rec[r].i
  BY <1>1, <1>2, Zenon DEF Held
<1>4. \A i \in Ids : Live(i)' <=> Live(i) /\ i \notin {rec[r].i}
  BY <1>1, <1>3 DEF Live
<1>5. NewestLive' /\ SettledNotLive' /\ NothingVanishes'
  <2>1. Settled' = Settled \cup {TaskOf(i) : i \in {rec[r].i}}
    BY Zenon
  <2> QED BY Zenon, <1>1, <1>4, <2>1, SettleStep
<1>6. HandsExclusive' /\ PendingHasPayload'
  BY <1>2 DEF IInv, OneLiveEntry, HandsExclusive, PendingHasPayload
<1> QED BY <1>5, <1>6, Zenon

\* XADD of the copy: it replaces the entry the recoverer has taken, with the
\* next retry count.  When it fails the task is lost.
LEMMA InvReQueueAdd ==
  ASSUME IInv, TypeOK', NEW r \in Recoverers, ReQueueAdd(r), UNCHANGED <<clientVars, crashes>>
  PROVE  IInv'
<1>1. /\ UNCHANGED <<deleted, delivered, pel, dlq, done, calls>>
      /\ InHand(r) /\ rec[r].pc = "add"
  BY Zenon DEF ReQueueAdd, At, InHand, clientVars
<1>2. /\ rec[r].i \in Ids /\ rec[r].i \in 1 .. delivered /\ delivered \in Nat
      /\ Live(rec[r].i) /\ rec[r].i \notin pel /\ TaskOf(rec[r].i) \notin Settled
      /\ \A q \in Recoverers : InHand(q) /\ rec[q].i = rec[r].i => q = r
  BY <1>1, HeldLive, Zenon
<1>3. /\ rec \in [Recoverers -> RecState] /\ log \in Seq(Entry)
      /\ Ids = 1 .. Len(log) /\ Len(log) \in Nat
  BY IdsRange, Zenon DEF IInv, TypeOK, LBSType, RecovererType
<1>4. PICK v : /\ rec' = [rec EXCEPT ![r] = v]
               /\ v.pc \in {"loop", "rest"} \/ (v.pc = "del" /\ v.i = rec[r].i)
  BY Moves DEF ReQueueAdd
<1>5. CASE XAdd(TaskOf(rec[r].i), log[rec[r].i].retry + 1) /\ UNCHANGED lost
  <2>1. PICK t \in Tasks, n \in Nat :
          t = TaskOf(rec[r].i) /\ n = log[rec[r].i].retry + 1 /\ XAdd(t, n)
    <3>1. log[rec[r].i] \in Entry
      BY <1>2, <1>3
    <3> QED BY <1>5, <3>1 DEF Entry, TaskOf
  <2>2. PICK m \in Nat : m = Len(log) + 1
    BY <1>3
  <2>3. /\ Ids' = 1 .. m
        /\ \A i \in Ids : log'[i] = log[i]
        /\ log'[m] = [task |-> t, retry |-> n]
    BY Zenon, <1>3, <2>1, <2>2, AppendEntry
  <2>4. \A q \in Recoverers : /\ InHand(q)' <=> InHand(q) /\ q # r
                              /\ InHand(q)' => rec'[q].i = rec[q].i
    BY <1>3, <1>4, Zenon DEF InHand
  <2>5. PICK e \in Ids : e = rec[r].i
    BY <1>2, Zenon
  <2>6. \A i \in Ids : Held(i)' <=> Held(i) /\ i # e
    BY Zenon, <1>2, <2>4, <2>5, <1>1 DEF Held
  <2>7. \A i \in Ids : Live(i)' <=> Live(i) /\ i \notin {e}
    BY <1>1, <1>2, <2>5, <2>6 DEF Live
  <2>8. \A i \in Ids : TaskOf(i) = t => i <= e /\ ~Live(i)'
    <3> SUFFICES ASSUME NEW i \in Ids, TaskOf(i) = t PROVE i <= e /\ ~Live(i)'
      BY Zenon
    <3>1. i <= e
      BY <1>2, <2>1, <2>5, Zenon DEF IInv, OneLiveEntry, NewestLive
    <3>2. Live(i) => e <= i
      BY <2>1, <2>5, Zenon DEF IInv, OneLiveEntry, NewestLive
    <3>3. i \in Nat /\ e \in Nat
      BY <1>3
    <3> QED BY <2>7, <3>1, <3>2, <3>3
  <2>9. NewestLive' /\ SettledNotLive' /\ NothingVanishes'
    <3>1. t \notin Settled /\ Settled' = Settled /\ {e} \in SUBSET Ids /\ \A i \in {e} : TaskOf(i) = t
      BY Zenon, <1>1, <1>2, <1>5, <2>1, <2>5 DEF Settled, InDLQ
    <3> QED BY Zenon, <1>1, <2>1, <2>7, <2>8, <3>1, AddStep
  <2>10. HandsExclusive' /\ SettledOnce' /\ PendingHasPayload'
    <3>1. HandsExclusive'
      BY <1>1, <1>5, <2>4, Zenon DEF IInv, OneLiveEntry, HandsExclusive
    <3>2. SettledOnce'
      BY <1>1, <1>5 DEF IInv, NoResurrection, SettledOnce, InDLQ
    <3>3. PendingHasPayload'
      BY <1>1, <1>5, Zenon DEF IInv, PendingHasPayload
    <3> QED BY <3>1, <3>2, <3>3, Zenon
  <2>11. RetryBudget'
    <3>1. \A i \in Ids : log[i] \in Entry
      BY SMTT(20), <1>3
    <3>2. n <= MaxRetries
      <4>1. log[e].retry < MaxRetries /\ n = log[e].retry + 1
        BY <1>1, <2>1, <2>5, Zenon DEF IInv, HandlerFacts
      <4>2. log[e].retry \in Nat /\ MaxRetries \in Nat
        BY <2>1, <2>5, <3>1, RecoveryAssumption, Zenon DEF Entry
      <4> QED BY <4>1, <4>2
    <3>3. \A i \in Ids : TaskOf(i) = t => log[i].retry < n
      <4> SUFFICES ASSUME NEW i \in Ids, TaskOf(i) = t PROVE log[i].retry < n
        BY Zenon
      <4>1. log[i].retry \in Nat /\ log[e].retry \in Nat /\ n = log[e].retry + 1
        BY <2>1, <2>5, <3>1, Zenon DEF Entry
      <4>2. i = e \/ i < e
        BY <1>3, <2>8
      <4>3. i < e => log[i].retry < log[e].retry
        BY <2>1, <2>5, Zenon DEF IInv, RetryBudget
      <4> QED BY <4>1, <4>2, <4>3
    <3>4. /\ Ids' = Ids \cup {m} /\ m \notin Ids /\ \A i \in Ids : i < m
          /\ \A i \in Ids : TaskOf(i)' = TaskOf(i) /\ log'[i].retry = log[i].retry
          /\ TaskOf(m)' = t /\ log'[m].retry = n
      BY <1>3, <2>2, <2>3 DEF TaskOf
    <3>5. \A i \in Ids' : log'[i].retry <= MaxRetries
      BY <3>2, <3>4, Zenon DEF IInv, RetryBudget
    <3>6. ASSUME NEW i \in Ids', NEW j \in Ids', TaskOf(i)' = TaskOf(j)', i < j
          PROVE  log'[i].retry < log'[j].retry
      <4>1. CASE j = m
        BY <3>3, <3>4, <3>6, <4>1
      <4>2. CASE j \in Ids
        <5>1. i # m
          BY <1>3, <2>2, <3>4, <3>6, <4>2
        <5> QED BY <3>4, <3>6, <4>2, <5>1, Zenon DEF IInv, RetryBudget
      <4> QED BY <3>4, <4>1, <4>2, Zenon
    <3>7. \A k \in DOMAIN dlq : dlq[k].task \notin Poison => dlq[k].retry = MaxRetries + 1
      BY Zenon DEF IInv, RetryBudget
    <3> QED BY <1>1, <3>5, <3>6, <3>7, Zenon DEF RetryBudget
  <2>12. HandlerFacts'
    <3>1. \A q \in Recoverers : rec[q].pc \notin {"rest", "loop"} => log'[rec[q].i] = log[rec[q].i]
      BY Zenon, <2>3, BusyEntry
    <3> QED BY Zenon, <1>1, <1>2, <1>3, <1>4, <3>1 DEF IInv, HandlerFacts, TaskOf
  <2> QED BY <2>9, <2>10, <2>11, <2>12, Zenon DEF IInv, OneLiveEntry, NoResurrection
<1>6. CASE UNCHANGED log /\ lost' = lost \cup {TaskOf(rec[r].i)}
  <2>1. Settled' = Settled \cup {TaskOf(rec[r].i)}
    BY <1>1, <1>6, Zenon DEF Settled, InDLQ
  <2>2. NewestLive' /\ SettledNotLive' /\ NothingVanishes' /\ HandsExclusive' /\ PendingHasPayload'
    BY Zenon, <1>1, <1>4, <1>6, <2>1, LetGo
  <2>3. SettledOnce'
    BY SMTT(30), <1>1, <1>2, <1>6 DEF IInv, NoResurrection, SettledOnce, InDLQ, Settled
  <2>4. RetryBudget'
    BY <1>1, <1>6, Zenon DEF IInv, RetryBudget, Ids, TaskOf
  <2>5. HandlerFacts'
    BY Zenon, <1>1, <1>2, <1>3, <1>4, <1>6 DEF IInv, HandlerFacts, TaskOf
  <2> QED BY <2>2, <2>3, <2>4, <2>5, Zenon DEF IInv, OneLiveEntry, NoResurrection
<1> QED BY <1>5, <1>6, Zenon DEF ReQueueAdd

\* XADD to the DLQ, of a task that is not there yet.
LEMMA InvDLQAdd ==
  ASSUME IInv, TypeOK', NEW r \in Recoverers, DLQAdd(r), UNCHANGED <<clientVars, crashes>>
  PROVE  IInv'
<1>1. /\ UNCHANGED <<log, deleted, delivered, pel, done, calls>>
      /\ InHand(r) /\ rec[r].pc = "dlqadd"
  BY Zenon DEF DLQAdd, At, InHand, clientVars
<1>2. rec[r].i \notin pel /\ TaskOf(rec[r].i) \notin Settled
  BY <1>1, HeldLive, Zenon
<1>3. rec \in [Recoverers -> RecState] /\ dlq \in Seq(Entry)
  BY Zenon DEF IInv, TypeOK, LBSType, RecovererType
<1>4. PICK v : /\ rec' = [rec EXCEPT ![r] = v]
               /\ v.pc \in {"loop", "rest"} \/ (v.pc = "del" /\ v.i = rec[r].i)
  BY SMTT(20), Moves DEF DLQAdd
<1>5. HandlerFacts'
  BY <1>1, <1>2, <1>3, <1>4, Zenon DEF IInv, HandlerFacts, TaskOf
<1>6. CASE dlq' = Append(dlq, DLQEntry(rec[r].i)) /\ UNCHANGED lost
  <2>1. PICK d \in Entry : /\ d = DLQEntry(rec[r].i)
                           /\ d.task = TaskOf(rec[r].i)
                           /\ d.task \notin Poison => d.retry = MaxRetries + 1
    <3>1. log[rec[r].i] \in Entry
      BY <1>1, BusyEntry, Zenon
    <3>2. TaskOf(rec[r].i) \notin Poison => log[rec[r].i].retry = MaxRetries
      BY <1>1, Zenon DEF IInv, HandlerFacts
    <3>3. DLQEntry(rec[r].i) \in Entry
      BY <3>1 DEF DLQEntry, Entry, TaskOf
    <3> QED BY <3>2, <3>3, Zenon DEF DLQEntry
  <2>2. PICK m \in Nat : m = Len(dlq) + 1
    BY SMTT(20), <1>3
  <2>3. /\ DOMAIN dlq' = DOMAIN dlq \cup {m} /\ m \notin DOMAIN dlq
        /\ \A k \in DOMAIN dlq : dlq'[k] = dlq[k]
        /\ dlq'[m] = d
    BY <1>3, <1>6, <2>1, <2>2
  <2>4. InDLQ' = InDLQ \cup {TaskOf(rec[r].i)}
    BY SMTT(30), <2>1, <2>3 DEF InDLQ
  <2>5. NewestLive' /\ SettledNotLive' /\ NothingVanishes' /\ HandsExclusive' /\ PendingHasPayload'
    <3>1. Settled' = Settled \cup {TaskOf(rec[r].i)}
      BY <1>1, <1>6, <2>4, Zenon DEF Settled
    <3> QED BY Zenon, <1>1, <1>4, <3>1, LetGo
  <2>6. SettledOnce'
    <3>1. \A k \in DOMAIN dlq : dlq[k].task # d.task
      BY <1>2, <2>1, Zenon DEF Settled, InDLQ
    <3>2. \A k, l \in DOMAIN dlq' : dlq'[k].task = dlq'[l].task => k = l
      BY <2>3, <3>1, Zenon DEF IInv, NoResurrection, SettledOnce
    <3>3. (done \cap lost = {} /\ (done \cup lost) \cap InDLQ = {})'
      BY <1>1, <1>2, <1>6, <2>4, Zenon DEF IInv, NoResurrection, SettledOnce, Settled
    <3> QED BY <3>2, <3>3, Zenon DEF SettledOnce
  <2>7. RetryBudget'
    BY Zenon, <1>1, <2>1, <2>3 DEF IInv, RetryBudget, Ids, TaskOf
  <2> QED BY <1>5, <2>5, <2>6, <2>7, Zenon DEF IInv, OneLiveEntry, NoResurrection
<1>7. CASE UNCHANGED dlq /\ lost' = lost \cup {TaskOf(rec[r].i)}
  <2>1. Settled' = Settled \cup {TaskOf(rec[r].i)}
    BY <1>1, <1>7, Zenon DEF Settled, InDLQ
  <2>2. NewestLive' /\ SettledNotLive' /\ NothingVanishes' /\ HandsExclusive' /\ PendingHasPayload'
    BY Zenon, <1>1, <1>4, <2>1, LetGo
  <2>3. SettledOnce'
    BY <1>1, <1>2, <1>7 DEF IInv, NoResurrection, SettledOnce, InDLQ, Settled
  <2>4. RetryBudget'
    BY <1>1, <1>7, Zenon DEF IInv, RetryBudget, Ids, TaskOf
  <2> QED BY <1>5, <2>2, <2>3, <2>4, Zenon DEF IInv, OneLiveEntry, NoResurrection
<1> QED BY <1>6, <1>7, Zenon DEF DLQAdd

\* The XDEL of reQueue and routeToDLQ: the XACK has been executed.
LEMMA InvDelOriginal ==
  ASSUME IInv, TypeOK', NEW r \in Recoverers, DelOriginal(r), UNCHANGED <<clientVars, crashes>>
  PROVE  IInv'
<1>1. /\ UNCHANGED <<log, delivered, pel, dlq, done, lost, calls>>
      /\ deleted' \in {deleted, deleted \cup {rec[r].i}}
      /\ rec[r].pc = "del" /\ ~InHand(r)
  BY Zenon DEF DelOriginal, XDel, At, InHand, clientVars
<1>2. rec[r].i \notin pel
  BY <1>1, Zenon DEF IInv, HandlerFacts
<1>3. PICK v : rec' = [rec EXCEPT ![r] = v] /\ v.pc \in {"loop", "rest"}
  BY Moves, Zenon DEF DelOriginal
<1>4. rec \in [Recoverers -> RecState]
  BY Zenon DEF IInv, TypeOK, RecovererType
<1>5. \A q \in Recoverers : /\ InHand(q)' <=> InHand(q)
                            /\ InHand(q) => rec'[q].i = rec[q].i
  BY <1>1, <1>3, <1>4, Zenon DEF InHand
<1>6. NewestLive' /\ SettledNotLive' /\ NothingVanishes'
  <2>1. \A i \in Ids : Live(i)' <=> Live(i) /\ i \notin {}
    BY <1>1, <1>5, Zenon DEF Live, Held
  <2>2. Settled' = Settled \cup {TaskOf(i) : i \in {}} /\ {} \in SUBSET Ids
    BY <1>1, Zenon DEF Settled, InDLQ
  <2> QED BY Zenon, <1>1, <2>1, <2>2, SettleStep
<1>7. HandsExclusive'
  BY <1>1, <1>5, Zenon DEF IInv, OneLiveEntry, HandsExclusive
<1>8. SettledOnce' /\ RetryBudget' /\ PendingHasPayload'
  <2>1. SettledOnce'
    BY <1>1, <1>2 DEF IInv, NoResurrection, SettledOnce, InDLQ
  <2>2. RetryBudget'
    BY <1>1, <1>2, Zenon DEF IInv, RetryBudget, Ids, TaskOf
  <2>3. PendingHasPayload'
    BY <1>1, <1>2, Zenon DEF IInv, PendingHasPayload
  <2> QED BY <2>1, <2>2, <2>3, Zenon
<1>9. HandlerFacts'
  BY <1>1, <1>3, <1>4, Zenon DEF IInv, HandlerFacts, TaskOf
<1> QED BY <1>6, <1>7, <1>8, <1>9, Zenon DEF IInv, OneLiveEntry, NoResurrection

(***************************************************************************)
(* Crashes preserve it, and so does every step.                            *)
(***************************************************************************)
\* A crash loses exactly the tasks whose entries the recoverers of the process
\* had taken.
LEMMA InvCrash ==
  ASSUME IInv, TypeOK', NEW c \in Consumers, Crash(c)
  PROVE  IInv'
<1> DEFINE D == {q \in Recoverers : Host[q] = c /\ InHand(q)}
           S == {rec[r].i : r \in D}
<1>1. /\ UNCHANGED <<log, deleted, delivered, pel, dlq, done>>
      /\ calls' \subseteq calls
      /\ rec' = [r \in Recoverers |-> IF Host[r] = c THEN Resting ELSE rec[r]]
      /\ lost' = lost \cup {TaskOf(rec[r].i) : r \in D}
  BY Zenon DEF Crash
<1>2. \A q \in D : /\ rec[q].i \in Ids /\ rec[q].i \in 1 .. delivered /\ delivered \in Nat
                   /\ Live(rec[q].i) /\ rec[q].i \notin pel /\ TaskOf(rec[q].i) \notin Settled
                   /\ \A p \in Recoverers : InHand(p) /\ rec[p].i = rec[q].i => p = q
  BY HeldLive, Zenon
<1>3. \A q \in Recoverers : /\ InHand(q)' <=> InHand(q) /\ q \notin D
                            /\ InHand(q)' => rec'[q].i = rec[q].i
  BY <1>1, Zenon DEF InHand, Resting
<1>4. PICK L : L = {TaskOf(rec[r].i) : r \in D}
  BY Zenon
<1>5. \A t \in L : t \notin Settled
  BY <1>2, <1>4, Zenon
<1>6. NewestLive' /\ SettledNotLive' /\ NothingVanishes'
  <2>1. \A i \in Ids : Held(i)' <=> Held(i) /\ i \notin S
    <3> SUFFICES ASSUME NEW i \in Ids PROVE Held(i)' <=> Held(i) /\ i \notin S
      BY Zenon
    <3>1. ASSUME Held(i)' PROVE Held(i) /\ i \notin S
      <4>1. PICK q \in Recoverers : InHand(q) /\ q \notin D /\ rec[q].i = i
        BY <1>3, <3>1, Zenon DEF Held
      <4>2. i \notin S
        BY <1>2, <4>1, Zenon
      <4> QED BY <4>1, <4>2, Zenon DEF Held
    <3>2. ASSUME Held(i), i \notin S PROVE Held(i)'
      <4>1. PICK q \in Recoverers : InHand(q) /\ rec[q].i = i
        BY <3>2, Zenon DEF Held
      <4>2. q \notin D
        BY <3>2, <4>1, Zenon
      <4> QED BY <1>3, <4>1, <4>2, Zenon DEF Held
    <3> QED BY Zenon, <3>1, <3>2
  <2>2. \A i \in S : i \in Ids /\ Live(i) /\ i \notin pel /\ i \in 1 .. delivered /\ delivered \in Nat
    BY <1>2, Zenon
  <2>3. \A i \in Ids : Live(i)' <=> Live(i) /\ i \notin S
    BY SMTT(30), <1>1, <2>1, <2>2 DEF Live
  <2>4. Settled' = Settled \cup {TaskOf(i) : i \in S}
    <3>1. L = {TaskOf(i) : i \in S}
      BY <1>4, Zenon
    <3> QED BY <1>1, <1>4, <3>1, Zenon DEF Settled, InDLQ
  <2>5. S \in SUBSET Ids /\ \A i \in S : Live(i)
    BY <2>2, Zenon
  <2> HIDE DEF S
  <2> QED BY Zenon, <1>1, <2>3, <2>4, <2>5, SettleStep
<1>7. HandsExclusive'
  BY <1>1, <1>3, Zenon DEF IInv, OneLiveEntry, HandsExclusive
<1>8. SettledOnce'
  <2>1. lost' = lost \cup L
    BY <1>1, <1>4, Zenon
  <2> QED BY <1>1, <1>5, <2>1 DEF IInv, NoResurrection, SettledOnce, InDLQ, Settled
<1>9. RetryBudget' /\ PendingHasPayload'
  BY Zenon, <1>1 DEF IInv, RetryBudget, Ids, TaskOf, PendingHasPayload
<1>10. HandlerFacts'
  BY Zenon, <1>1 DEF IInv, HandlerFacts, TaskOf, Resting
<1> QED BY <1>6, <1>7, <1>8, <1>9, <1>10, Zenon DEF IInv, OneLiveEntry, NoResurrection

\* Nothing has been added when a system starts.
LEMMA InvInit == Init => IInv
<1> SUFFICES ASSUME Init PROVE IInv
  BY Zenon
<1>1. TypeOK
  BY TypeInit, Zenon
<1>2. /\ Ids = {} /\ DOMAIN dlq = {} /\ pel = {} /\ done = {} /\ lost = {} /\ calls = {}
      /\ \A r \in Recoverers : rec[r] = Resting
  BY DEF Init, LBSInit, ClientInit, RecInit, Ids
<1>3. OneLiveEntry /\ NoResurrection /\ NothingVanishes
  BY <1>2 DEF OneLiveEntry, NewestLive, HandsExclusive, InHand, Resting, NoResurrection,
              SettledNotLive, SettledOnce, InDLQ, NothingVanishes, Settled, Added
<1>4. RetryBudget /\ PendingHasPayload
  BY <1>2, Zenon DEF RetryBudget, PendingHasPayload
<1>5. HandlerFacts
  <2>1. \A r \in Recoverers : rec[r].pc = "rest"
    BY <1>2 DEF Resting
  <2> QED BY <1>2, <2>1, Zenon DEF HandlerFacts
<1> QED BY <1>1, <1>3, <1>4, <1>5, Zenon DEF IInv

\* Every step of a reader, an extender and a DoneStream call.
LEMMA InvClient ==
  ASSUME IInv, TypeOK', ClientStep, UNCHANGED <<recVars, crashes>>
  PROVE  IInv'
<1>1. ASSUME NEW c \in Consumers, LockEntry(c) \/ TerminateReader(c) \/ SendAdded(c)
      PROVE  IInv'
  BY <1>1, QuietClient, Zenon DEF LockEntry, TerminateReader, SendAdded, lbsVars, recVars, core
<1>2. ASSUME NEW e \in exts, ExtenderStep(e)
      PROVE  IInv'
  BY <1>2, QuietClient, Zenon DEF ExtenderStep, ExtCheck, Extend, ExtendFails, SendDisowned,
                           ExtCleanup, lbsVars, recVars, core
<1>3. ASSUME NEW w \in working, FinishStream(w[1], w[2])
      PROVE  IInv'
  BY <1>3, QuietClient DEF FinishStream, lbsVars, recVars, core
<1>4. ASSUME NEW k \in calls, DoneUnlock(k)
      PROVE  IInv'
  BY <1>4, QuietClient, Zenon DEF DoneUnlock, EndCall, recVars, core
<1>5. ASSUME NEW c \in Consumers, ReadBatch(c) \/ ReadFails(c)
      PROVE  IInv'
  <2>1. CASE XReadGroup
    BY <1>5, <2>1, InvReadBatch, Zenon
  <2>2. CASE ReadFails(c) /\ UNCHANGED <<delivered, pel>>
    BY <2>2, QuietClient, Zenon DEF ReadFails, recVars, core
  <2> QED BY <1>5, <2>1, <2>2, Zenon DEF ReadBatch, ReadFails
<1> QED BY <1>1, <1>2, <1>3, <1>4, <1>5, InvDoneAck, InvDoneDel, Zenon
        DEF ClientStep, ReaderStep, DoneStep

\* Every step of a scan and of a Claim.
LEMMA InvRecoverer ==
  ASSUME IInv, TypeOK', NEW r \in Recoverers, RecovererStep(r), UNCHANGED <<clientVars, crashes>>
  PROVE  IInv'
  BY InvLook, InvAckRemoved, InvAckFirst, InvReQueueAdd, InvDLQAdd, InvDelOriginal, Zenon
     DEF RecovererStep, ReQueueStep

\* Every step of the system keeps the inductive invariant.
LEMMA InvNext == IInv /\ [Next]_vars => IInv'
<1> SUFFICES ASSUME IInv, [Next]_vars PROVE IInv'
  BY Zenon
<1>1. TypeOK'
  BY TypeNext, Zenon DEF IInv
<1>2. ASSUME NEW i \in Ids, BecomeIdle(i) \/ ExpireLock(i), UNCHANGED <<clientVars, crashes>>
      PROVE  IInv'
  BY Zenon, <1>1, <1>2, QuietClient DEF BecomeIdle, ExpireLock, clientVars, core
<1>3. ASSUME NEW c \in Consumers, Restart(c)
      PROVE  IInv'
  BY <1>1, <1>3, QuietClient, Zenon DEF Restart, lbsVars, recVars, core
<1>4. CASE UNCHANGED vars
  BY <1>1, <1>4, QuietClient, Zenon DEF vars, lbsVars, clientVars, recVars, core
<1> QED BY <1>1, <1>2, <1>3, <1>4, InvProduce, InvClient, InvRecoverer, InvCrash, Zenon DEF Next

\* The inductive invariant holds in every reachable state.
THEOREM Inductive == Spec => []IInv
  BY InvInit, InvNext, PTL DEF Spec

\* For any number of tasks, consumers, scanners, Claim calls and crashes:
\* re-queueing never multiplies a task.
THEOREM OneLiveEntryAlways == Spec => []OneLiveEntry
<1>1. IInv => OneLiveEntry
  BY Zenon DEF IInv
<1> QED BY <1>1, Inductive, PTL

\* No stale Claim, scan or lock extension brings a settled task back, and a
\* task is settled once.
THEOREM NoResurrectionEver == Spec => []NoResurrection
<1>1. IInv => NoResurrection
  BY Zenon DEF IInv
<1> QED BY <1>1, Inductive, PTL

\* A task that was added is live, finished, dead-lettered or lost in the gap
\* between XACK and XADD: nothing else makes a task disappear.
THEOREM NothingEverVanishes == Spec => []NothingVanishes
<1>1. IInv => NothingVanishes
  BY Zenon DEF IInv
<1> QED BY <1>1, Inductive, PTL

\* A task is delivered at most MaxRetries + 1 times, and only an exhausted or
\* unparseable task reaches the DLQ.
THEOREM RetryBudgetKept == Spec => []RetryBudget
<1>1. IInv => RetryBudget
  BY Zenon DEF IInv
<1> QED BY <1>1, Inductive, PTL

\* XDEL never precedes XACK.
THEOREM PayloadKept == Spec => []PendingHasPayload
<1>1. IInv => PendingHasPayload
  BY Zenon DEF IInv
<1> QED BY <1>1, Inductive, PTL
=============================================================================
