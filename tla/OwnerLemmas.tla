---------------------------- MODULE OwnerLemmas ----------------------------
(***************************************************************************)
(* The steps that keep exclusive ownership by the types alone: with        *)
(* heartbeats on time, what a consumer handles stays out of the reach of   *)
(* every scan and Claim.                                                   *)
(***************************************************************************)
EXTENDS RecoveryProofs

\* Only delivered entries are handled.
LEMMA HandledDelivered ==
  ASSUME TypeOK, OwnerInv, NEW c \in Consumers, NEW i, Handles(c, i)
  PROVE  i \in 1 .. delivered
<1>1. CASE Reads(c, i)
  <2>1. rd[c].pc \in {"lock", "send"}
    BY <1>1 DEF Reads, OwnerInv, BatchOver, TypeOK, ReaderType
  <2>2. rd[c].cur \in 1 .. rd[c].last /\ rd[c].last <= delivered /\ rd[c].last \in Nat
    BY <2>1, Zenon DEF TypeOK, ReaderType
  <2>3. delivered \in Nat
    BY DEF TypeOK, LBSType
  <2> QED BY <1>1, <2>2, <2>3 DEF Reads
<1>2. CASE Offers(c, i)
  BY <1>2 DEF Offers, TypeOK, ReaderType, LBSType
<1>3. CASE Works(c, i)
  BY <1>3, Zenon DEF Works, TypeOK, HandlerType
<1>4. CASE Finishes(c, i)
  BY <1>4, Zenon DEF Finishes, TypeOK, HandlerType
<1> QED BY <1>1, <1>2, <1>3, <1>4, Zenon DEF Handles, Holds

\* The entry a reader offers is the first of the rest of its batch.
LEMMA OfferedIsRead ==
  ASSUME TypeOK, NEW c \in Consumers, NEW i, Offers(c, i)
  PROVE  Reads(c, i)
  BY DEF Offers, Reads, TypeOK, ReaderType

\* The step keeps OwnerInv in a well-formed state.  The lemmas on the actions
\* are stated with this name, so that a proof that expands OwnerInv does not
\* expand it in their statements.
KeepsOwner == TypeOK /\ OwnerInv => OwnerInv'

\* A step that leaves the goroutines of the consumers alone, acknowledges no
\* entry they handle, releases no key they hold and exposes nothing they have
\* still to lock.
LEMMA ClientKept ==
  ASSUME UNCHANGED <<delivered, clientVars>>, done \subseteq done',
         \A i \in 1 .. delivered : log'[i] = log[i],
         \A c \in Consumers, i \in 1 .. delivered :
           /\ Handles(c, i) => i \in pel'
           /\ Holds(c, i) => i \in locks'
           /\ Reads(c, i) => ~Exposed(i)' /\ (i \in locks' => i \in locks)
           /\ Handles(c, i) =>
                \A r \in Recoverers : rec'[r].pc \in {"ack", "dlqack"} => rec'[r].i # i
  PROVE  KeepsOwner
<1> SUFFICES ASSUME TypeOK, OwnerInv PROVE OwnerInv'
  BY Zenon DEF KeepsOwner
<1>1. \A c, i : /\ Reads(c, i)' <=> Reads(c, i)
                /\ Offers(c, i)' <=> Offers(c, i)
                /\ Works(c, i)' <=> Works(c, i)
                /\ Finishes(c, i)' <=> Finishes(c, i)
  BY Zenon DEF Reads, Offers, Works, Finishes, clientVars
<1>2. \A c, i : (Holds(c, i)' <=> Holds(c, i)) /\ (Handles(c, i)' <=> Handles(c, i))
  BY <1>1, Zenon DEF Holds, Handles
<1>3. \A i \in 1 .. delivered : TaskOf(i)' = TaskOf(i) /\ Name(i)' = Name(i)
  BY Zenon DEF TaskOf, Name
<1>4. OneHandler'
  BY <1>1, <1>2, Zenon DEF OwnerInv, OneHandler
<1>5. KeyWhileHeld'
  BY <1>1, <1>2, <1>3, Zenon DEF OwnerInv, KeyWhileHeld
<1>6. BatchOver' /\ KnownWhileWorking' /\ ExtenderJustified'
  <2>1. \A e \in exts : e.i \in 1 .. delivered
    BY Zenon DEF TypeOK, HandlerType
  <2>2. UNCHANGED <<rd, streamLocks, exts>>
    BY Zenon DEF clientVars
  <2>3. BatchOver'
    BY <2>2, Zenon DEF OwnerInv, BatchOver
  <2>4. KnownWhileWorking'
    BY <1>1, <1>3, <2>2 DEF OwnerInv, KnownWhileWorking
  <2>5. ExtenderJustified'
    BY <1>1, <1>3, <2>1, <2>2, Zenon DEF OwnerInv, ExtenderJustified
  <2> QED BY <2>3, <2>4, <2>5, Zenon
<1> QED BY <1>4, <1>5, <1>6, Zenon DEF OwnerInv

\* A step that leaves all of this alone.
LEMMA OwnerFrame ==
  ASSUME UNCHANGED <<delivered, clientVars, pel, idle, expired, locks, done, rec>>,
         \A i \in 1 .. delivered : log'[i] = log[i]
  PROVE  KeepsOwner
<1> SUFFICES ASSUME TypeOK, OwnerInv PROVE OwnerInv'
  BY Zenon DEF KeepsOwner
<1>1. \A i : Exposed(i)' <=> Exposed(i)
  BY Zenon DEF Exposed
<1>2. \A c \in Consumers, i \in 1 .. delivered :
        /\ Handles(c, i) => i \in pel
        /\ Holds(c, i) => i \in locks
        /\ Reads(c, i) => ~Exposed(i)
        /\ Handles(c, i) =>
             \A r \in Recoverers : rec[r].pc \in {"ack", "dlqack"} => rec[r].i # i
  BY Zenon DEF OwnerInv, OneHandler, KeyWhileHeld
<1> QED BY <1>1, <1>2, ClientKept, Zenon DEF KeepsOwner

\* A producer adds an entry nobody handles yet.
LEMMA OwnerProduce ==
  ASSUME NEW t \in Tasks, Produce(t), UNCHANGED <<clientVars, recVars, crashes>>
  PROVE  KeepsOwner
<1> SUFFICES ASSUME TypeOK, OwnerInv PROVE OwnerInv'
  BY Zenon DEF KeepsOwner
<1>1. \A i \in 1 .. Len(log) : log'[i] = log[i]
  BY AppendEntry, Zenon DEF TypeOK, LBSType, Produce
<1>2. \A i \in 1 .. delivered : log'[i] = log[i]
  BY <1>1 DEF TypeOK, LBSType
<1>3. UNCHANGED <<delivered, clientVars, pel, idle, expired, locks, done, rec>>
  BY Zenon DEF Produce, recVars
<1> QED BY <1>2, <1>3, OwnerFrame, Zenon DEF KeepsOwner

\* With no stalls to spare, MinIdleTime does not pass while an entry waits in
\* a batch, and no key expires that an extender, a DoneStream call or a reader
\* keeps.
LEMMA OwnerTime ==
  ASSUME OnTime, NEW n \in Ids, BecomeIdle(n) \/ ExpireLock(n),
         UNCHANGED <<clientVars, crashes>>
  PROVE  KeepsOwner
<1> SUFFICES ASSUME TypeOK, OwnerInv PROVE OwnerInv'
  BY Zenon DEF KeepsOwner
<1>1. UNCHANGED <<delivered, clientVars, log, pel, done, rec>>
  BY Zenon DEF BecomeIdle, ExpireLock
<1>2. \A c \in Consumers, i \in 1 .. delivered :
        /\ Handles(c, i) => i \in pel
        /\ Holds(c, i) => i \in locks
        /\ Reads(c, i) => ~Exposed(i) /\ (i \in locks => Offers(c, i))
        /\ Handles(c, i) =>
             \A r \in Recoverers : rec[r].pc \in {"ack", "dlqack"} => rec[r].i # i
  BY Zenon DEF OwnerInv, OneHandler, KeyWhileHeld
<1>3. ASSUME NEW slow, Stall(slow) PROVE ~slow
  BY <1>3 DEF Stall, OnTime, TypeOK, RecovererType
<1>4. CASE BecomeIdle(n)
  <2>1. \A c \in Consumers : ~Reads(c, n)
    BY <1>3, <1>4, Zenon DEF BecomeIdle, InSend, OnTime, Reads
  <2>2. \A i : i # n => (Exposed(i)' <=> Exposed(i))
    BY <1>4, Zenon DEF BecomeIdle, Exposed
  <2>3. locks' = locks
    BY <1>4, Zenon DEF BecomeIdle
  <2> QED BY <1>1, <1>2, <2>1, <2>2, <2>3, ClientKept, Zenon DEF KeepsOwner
<1>5. CASE ExpireLock(n)
  <2>1. \A c \in Consumers : ~Holds(c, n)
    <3>1. /\ \A e \in exts : e.i # n
          /\ \A k \in calls : k.i # n
          /\ \A c \in Consumers : ~Offers(c, n)
      BY <1>3, <1>5, Zenon DEF ExpireLock, InSend, OnTime, Offers
    <3>2. n \in 1 .. delivered
      BY <1>5, Zenon DEF ExpireLock, TypeOK, LBSType
    <3>3. \A c \in Consumers : ~Works(c, n)
      BY <3>1, <3>2, Zenon DEF OwnerInv, KnownWhileWorking
    <3>4. \A c \in Consumers : ~Finishes(c, n)
      BY <3>1, Zenon DEF Finishes
    <3> QED BY <3>1, <3>3, <3>4, Zenon DEF Holds
  <2>2. \A c \in Consumers : ~Reads(c, n)
    <3>1. n \in locks /\ n \in 1 .. delivered
      BY <1>5, Zenon DEF ExpireLock, TypeOK, LBSType
    <3> QED BY <1>2, <2>1, <3>1, Zenon DEF Holds
  <2>3. \A i : i # n => (Exposed(i)' <=> Exposed(i))
    <3>1. PICK told : expired' = expired \cup {<<c, n>> : c \in told}
      BY <1>5, Zenon DEF ExpireLock, Published
    <3>2. \A i, c : i # n => (<<c, i>> \in expired' <=> <<c, i>> \in expired)
      BY <3>1, Zenon
    <3>3. UNCHANGED <<idle, rec>>
      BY <1>5, Zenon DEF ExpireLock
    <3> QED BY <3>2, <3>3, Zenon DEF Exposed
  <2>4. locks' = locks \ {n}
    BY <1>5, Zenon DEF ExpireLock
  <2> QED BY <1>1, <1>2, <2>1, <2>2, <2>3, <2>4, ClientKept, Zenon DEF KeepsOwner
<1> QED BY <1>4, <1>5, Zenon

\* A recoverer takes up only what is exposed, and is about to acknowledge only
\* what no consumer handles.
LEMMA RecovererKept ==
  ASSUME NEW r \in Recoverers, NEW v,
         rec' = [rec EXCEPT ![r] = v],
         \A i \in 1 .. delivered : v.i = i \/ i \in v.todo => Exposed(i),
         v.pc \in {"ack", "dlqack"} => \A c \in Consumers : ~Handles(c, v.i),
         \A c \in Consumers, i \in 1 .. delivered : Handles(c, i) => i \in pel',
         \A i \in 1 .. delivered : log'[i] = log[i],
         idle' \subseteq idle, expired' \subseteq expired,
         UNCHANGED <<delivered, clientVars, locks, done>>
  PROVE  KeepsOwner
<1> SUFFICES ASSUME TypeOK, OwnerInv PROVE OwnerInv'
  BY Zenon DEF KeepsOwner
<1>1. /\ rec'[r] = v
      /\ \A q \in Recoverers : q # r => rec'[q] = rec[q]
  BY Zenon DEF TypeOK, RecovererType
<1>2. \A i \in 1 .. delivered : Exposed(i)' => Exposed(i)
  <2> SUFFICES ASSUME NEW i \in 1 .. delivered, Exposed(i)'
               PROVE  Exposed(i)
    BY Zenon
  <2>1. CASE i \in idle' \/ \E c \in Consumers : <<c, i>> \in expired'
    BY <2>1, Zenon DEF Exposed
  <2>2. CASE \E q \in Recoverers : rec'[q].i = i \/ i \in rec'[q].todo
    BY <1>1, <2>2, Zenon DEF Exposed
  <2> QED BY <2>1, <2>2, Zenon DEF Exposed
<1>3. ASSUME NEW c \in Consumers, NEW i \in 1 .. delivered, Handles(c, i), NEW q \in Recoverers,
             rec'[q].pc \in {"ack", "dlqack"}
      PROVE  rec'[q].i # i
  BY <1>1, <1>3 DEF OwnerInv, OneHandler
<1>4. \A c \in Consumers, i \in 1 .. delivered :
        /\ Holds(c, i) => i \in locks
        /\ Reads(c, i) => ~Exposed(i)
  BY Zenon DEF OwnerInv, KeyWhileHeld
<1> QED BY <1>2, <1>3, <1>4, ClientKept, Zenon DEF KeepsOwner

\* What a step of reQueue does to its recoverer exposes nothing new.
LEMMA OwnerMoves ==
  ASSUME NEW r \in Recoverers,
         \/ \E p \in {"exists", "ack", "add", "dlqack", "dlqadd", "del"} :
              /\ Step(r, p)
              /\ p \in {"ack", "dlqack"} => \A c \in Consumers : ~Handles(c, rec[r].i)
         \/ Return(r),
         \A c \in Consumers, i \in 1 .. delivered : Handles(c, i) => i \in pel',
         \A i \in 1 .. delivered : log'[i] = log[i],
         idle' \subseteq idle,
         UNCHANGED <<delivered, clientVars, locks, done, expired>>
  PROVE  KeepsOwner
<1> SUFFICES ASSUME TypeOK, OwnerInv PROVE OwnerInv'
  BY Zenon DEF KeepsOwner
<1>1. \A i : rec[r].i = i \/ i \in rec[r].todo => Exposed(i)
  BY Zenon DEF Exposed
<1>2. CASE \E p \in {"exists", "ack", "add", "dlqack", "dlqadd", "del"} :
             /\ Step(r, p)
             /\ p \in {"ack", "dlqack"} => \A c \in Consumers : ~Handles(c, rec[r].i)
  <2>1. PICK p \in {"exists", "ack", "add", "dlqack", "dlqadd", "del"} :
               /\ Step(r, p)
               /\ p \in {"ack", "dlqack"} => \A c \in Consumers : ~Handles(c, rec[r].i)
    BY <1>2, Zenon
  <2> DEFINE v == [pc |-> p, i |-> rec[r].i, todo |-> rec[r].todo]
  <2>2. rec' = [rec EXCEPT ![r] = v] /\ v.pc = p /\ v.i = rec[r].i /\ v.todo = rec[r].todo
    BY <2>1, Zenon DEF Step
  <2> HIDE DEF v
  <2> QED BY <1>1, <2>1, <2>2, RecovererKept, Zenon DEF KeepsOwner
<1>3. CASE Return(r)
  <2> DEFINE v == IF r \in Scanners THEN [pc |-> "loop", i |-> 0, todo |-> rec[r].todo]
                  ELSE Resting
  <2>1. /\ rec' = [rec EXCEPT ![r] = v]
        /\ v.pc \in {"rest", "loop"} /\ v.i = 0 /\ (v.todo = {} \/ v.todo = rec[r].todo)
    BY <1>3, Zenon DEF Return, Resting
  <2> HIDE DEF v
  <2>2. \A i \in 1 .. delivered : i # 0
    BY DEF TypeOK, LBSType
  <2>3. \A i \in 1 .. delivered : v.i = i \/ i \in v.todo => Exposed(i)
    BY <1>1, <2>1, <2>2, Zenon
  <2> QED BY <2>1, <2>3, RecovererKept, Zenon DEF KeepsOwner
<1> QED BY <1>2, <1>3, Zenon

\* A scan and a Claim take up exposed entries only.
LEMMA OwnerTakeUp ==
  ASSUME NEW r \in Recoverers, StartScan(r) \/ NextPending(r) \/ Claim(r),
         UNCHANGED <<clientVars, crashes>>
  PROVE  KeepsOwner
<1> SUFFICES ASSUME TypeOK, OwnerInv PROVE OwnerInv'
  BY Zenon DEF KeepsOwner
<1>1. /\ UNCHANGED <<delivered, clientVars, log, pel, idle, locks, done>>
      /\ expired' \subseteq expired
  BY Zenon DEF StartScan, NextPending, Claim, lbsVars
<1>2. \A c \in Consumers, i \in 1 .. delivered : Handles(c, i) => i \in pel
  BY Zenon DEF OwnerInv, OneHandler
<1>3. \A i \in 1 .. delivered : i # 0
  BY DEF TypeOK, LBSType
<1>4. ASSUME NEW v, rec' = [rec EXCEPT ![r] = v], v.pc \in {"loop", "range", "rest"},
             \A i \in 1 .. delivered : v.i = i \/ i \in v.todo => Exposed(i)
      PROVE  OwnerInv'
  BY <1>1, <1>2, <1>4, RecovererKept, Zenon DEF KeepsOwner
<1>5. CASE StartScan(r)
  <2> DEFINE v == [pc |-> "loop", i |-> 0, todo |-> XPending(BatchSize)]
  <2>1. XPending(BatchSize) \subseteq idle
    BY Zenon DEF XPending
  <2>2. rec' = [rec EXCEPT ![r] = v] /\ v.pc = "loop" /\ v.i = 0 /\ v.todo \subseteq idle
    BY <1>5, <2>1, Zenon DEF StartScan
  <2> HIDE DEF v
  <2>3. \A i \in 1 .. delivered : v.i = i \/ i \in v.todo => Exposed(i)
    BY <1>3, <2>2, Zenon DEF Exposed
  <2> QED BY <1>4, <2>2, <2>3, Zenon
<1>6. CASE NextPending(r)
  <2>1. CASE rec' = [rec EXCEPT ![r] = Resting]
    <3>1. Resting.pc = "rest" /\ Resting.i = 0 /\ Resting.todo = {}
      BY Zenon DEF Resting
    <3> QED BY <1>3, <1>4, <2>1, <3>1, Zenon
  <2>2. CASE \E i \in rec[r].todo :
          rec' = [rec EXCEPT ![r] = [pc |-> "range", i |-> i, todo |-> rec[r].todo \ {i}]]
    <3>1. PICK n \in rec[r].todo :
            rec' = [rec EXCEPT ![r] = [pc |-> "range", i |-> n, todo |-> rec[r].todo \ {n}]]
      BY Zenon, <2>2
    <3> DEFINE v == [pc |-> "range", i |-> n, todo |-> rec[r].todo \ {n}]
    <3>2. rec' = [rec EXCEPT ![r] = v] /\ v.pc = "range" /\ v.i = n /\ v.todo \subseteq rec[r].todo
      BY <3>1, Zenon
    <3> HIDE DEF v
    <3>3. \A i \in 1 .. delivered : v.i = i \/ i \in v.todo => Exposed(i)
      BY <3>2, Zenon DEF Exposed
    <3> QED BY <1>4, <3>2, <3>3, Zenon
  <2> QED BY <1>6, <2>1, <2>2, Zenon DEF NextPending
<1>7. CASE Claim(r)
  <2>1. PICK n \in Ids : /\ <<Host[r], n>> \in expired
                         /\ rec' = [rec EXCEPT ![r] = [pc |-> "range", i |-> n, todo |-> {}]]
    BY Zenon, <1>7 DEF Claim
  <2>2. Exposed(n)
    BY <2>1, RecoveryAssumption, Zenon DEF Exposed
  <2> DEFINE v == [pc |-> "range", i |-> n, todo |-> {}]
  <2>3. rec' = [rec EXCEPT ![r] = v] /\ v.pc = "range" /\ v.i = n /\ v.todo = {}
    BY <2>1, Zenon
  <2> HIDE DEF v
  <2> QED BY <1>4, <2>2, <2>3, Zenon
<1> QED BY <1>5, <1>6, <1>7, Zenon

\* A consumer lets go of entries, which changes nothing for the others.
LEMMA LetsGo ==
  ASSUME OwnerInv, UNCHANGED <<log, delivered, pel, locks>>,
         \A c \in Consumers, i \in 1 .. delivered :
           /\ Reads(c, i)' => Reads(c, i) /\ (Offers(c, i) => Offers(c, i)')
           /\ Offers(c, i)' => Offers(c, i)
           /\ Works(c, i)' => Works(c, i)
           /\ Finishes(c, i)' => Finishes(c, i),
         \A i \in 1 .. delivered : Exposed(i)' => Exposed(i),
         \A r \in Recoverers : rec'[r].pc \in {"ack", "dlqack"} => rec'[r] = rec[r]
  PROVE  OneHandler' /\ KeyWhileHeld'
<1>1. \A c \in Consumers, i \in 1 .. delivered :
        (Holds(c, i)' => Holds(c, i)) /\ (Handles(c, i)' => Handles(c, i))
  BY Zenon DEF Holds, Handles
<1>2. OneHandler'
  BY <1>1, Zenon DEF OwnerInv, OneHandler
<1>3. \A i : TaskOf(i)' = TaskOf(i)
  BY Zenon DEF TaskOf
<1>4. KeyWhileHeld'
  BY <1>1, <1>3, Zenon DEF OwnerInv, KeyWhileHeld
<1> QED BY <1>2, <1>4, Zenon

\* What a dead process handled is handled by nobody; its keys stay until they
\* expire.
LEMMA OwnerCrash ==
  ASSUME NEW c \in Consumers, Crash(c)
  PROVE  KeepsOwner
<1> SUFFICES ASSUME TypeOK, OwnerInv PROVE OwnerInv'
  BY Zenon DEF KeepsOwner
<1>1. UNCHANGED <<log, delivered, pel, idle, locks, done>>
  BY Zenon DEF Crash
<1>2. \A d \in Consumers : rd'[d] = IF d = c THEN NoReader ELSE rd[d]
  BY Zenon DEF Crash, TypeOK, ReaderType
<1>3. \A i : ~Reads(c, i)' /\ ~Offers(c, i)' /\ ~Works(c, i)' /\ ~Finishes(c, i)'
  <2>1. \A i : ~Reads(c, i)' /\ ~Offers(c, i)'
    BY <1>2 DEF NoReader, Reads, Offers
  <2>2. \A i : ~Works(c, i)'
    BY Zenon DEF Crash, Works
  <2>3. \A i : ~Finishes(c, i)'
    BY Zenon DEF Crash, Finishes
  <2> QED BY <2>1, <2>2, <2>3, Zenon
<1>4. \A d \in Consumers : \A i : d # c => /\ Reads(d, i)' <=> Reads(d, i)
                                           /\ Offers(d, i)' <=> Offers(d, i)
                                           /\ Works(d, i)' <=> Works(d, i)
                                           /\ Finishes(d, i)' <=> Finishes(d, i)
  <2>1. \A d \in Consumers : \A i : d # c => /\ Reads(d, i)' <=> Reads(d, i)
                                             /\ Offers(d, i)' <=> Offers(d, i)
    BY <1>2, Zenon DEF Reads, Offers
  <2>2. \A d \in Consumers : \A i : d # c => (Works(d, i)' <=> Works(d, i))
    BY Zenon DEF Crash, Works
  <2>3. \A d \in Consumers : \A i : d # c => (Finishes(d, i)' <=> Finishes(d, i))
    BY Zenon DEF Crash, Finishes
  <2> QED BY <2>1, <2>2, <2>3, Zenon
<1>5. \A r \in Recoverers : rec'[r] = rec[r] \/ rec'[r] = Resting
  BY Zenon DEF Crash
<1>6. \A i \in 1 .. delivered : Exposed(i)' => Exposed(i)
  <2>1. \A i \in 1 .. delivered : i # 0
    BY DEF TypeOK, LBSType
  <2>2. Resting.i = 0 /\ Resting.todo = {}
    BY Zenon DEF Resting
  <2>3. expired' \subseteq expired
    BY Zenon DEF Crash
  <2> QED BY <1>1, <1>5, <2>1, <2>2, <2>3, Zenon DEF Exposed
<1>7. \A r \in Recoverers : rec'[r].pc \in {"ack", "dlqack"} => rec'[r] = rec[r]
  BY <1>5 DEF Resting
<1>8. OneHandler' /\ KeyWhileHeld'
  BY <1>1, <1>3, <1>4, <1>6, <1>7, LetsGo, Zenon
<1>9. BatchOver' /\ KnownWhileWorking' /\ ExtenderJustified'
  <2>1. BatchOver'
    BY <1>2 DEF NoReader, OwnerInv, BatchOver
  <2>2. \A d \in Consumers : d # c => streamLocks'[d] = streamLocks[d]
    BY Zenon DEF Crash, TypeOK, HandlerType
  <2>3. \A e : e \in exts' <=> e \in exts /\ e.c # c
    BY Zenon DEF Crash
  <2>4. \A i : TaskOf(i)' = TaskOf(i) /\ Name(i)' = Name(i)
    BY <1>1, Zenon DEF TaskOf, Name
  <2>5. KnownWhileWorking'
    <3> SUFFICES ASSUME NEW d \in Consumers, NEW i \in 1 .. delivered, Offers(d, i)' \/ Works(d, i)'
                 PROVE  /\ streamLocks'[d][Name(i)'] = i
                        /\ Works(d, i)' => \E e \in exts' : e.c = d /\ e.i = i
      BY <1>1, SMTT(20) DEF KnownWhileWorking
    <3>1. d # c /\ (Offers(d, i) \/ Works(d, i)) /\ (Works(d, i)' => Works(d, i))
      BY <1>3, <1>4, Zenon
    <3>2. /\ streamLocks[d][Name(i)] = i
          /\ Works(d, i) => \E e \in exts : e.c = d /\ e.i = i
      BY <3>1, Zenon DEF OwnerInv, KnownWhileWorking
    <3> QED BY <2>2, <2>3, <2>4, <3>1, <3>2, Zenon
  <2>6. ExtenderJustified'
    <3> SUFFICES ASSUME NEW e \in exts'
                 PROVE  /\ e.pc # "disown"
                        /\ Works(e.c, e.i)' \/ Finishes(e.c, e.i)' \/ TaskOf(e.i)' \in done'
                        /\ e.pc = "cleanup" => ~Works(e.c, e.i)'
                        /\ \A d \in Consumers : ~Reads(d, e.i)'
      BY Zenon DEF ExtenderJustified
    <3>1. e \in exts /\ e.c \in Consumers /\ e.c # c
      BY <2>3 DEF TypeOK, HandlerType
    <3> QED BY <1>1, <1>3, <1>4, <2>4, <3>1, Zenon DEF OwnerInv, ExtenderJustified
  <2> QED BY <2>1, <2>5, <2>6, Zenon
<1> QED BY <1>8, <1>9, Zenon DEF OwnerInv

\* A reader that is replaced or terminates leaves the rest of its batch pending
\* and unlocked.
LEMMA OwnerLeaveBatch ==
  ASSUME NEW c \in Consumers, NEW v \in {NoReader, NewReader},
         rd' = [rd EXCEPT ![c] = v],
         UNCHANGED <<lbsVars, streamLocks, exts, calls, working, recVars>>
  PROVE  KeepsOwner
<1> SUFFICES ASSUME TypeOK, OwnerInv PROVE OwnerInv'
  BY Zenon DEF KeepsOwner
<1>1. \A d \in Consumers : rd'[d] = IF d = c THEN v ELSE rd[d]
  BY Zenon DEF TypeOK, ReaderType
<1>2. v.pc \in {"read", "dead"} /\ v.cur = 1 /\ v.last = 0
  BY DEF NoReader, NewReader
<1>3. \A i : ~Reads(c, i)' /\ ~Offers(c, i)'
  BY <1>1, <1>2 DEF Reads, Offers
<1>4. \A d \in Consumers : \A i : d # c => /\ Reads(d, i)' <=> Reads(d, i)
                                           /\ Offers(d, i)' <=> Offers(d, i)
  BY <1>1, Zenon DEF Reads, Offers
<1>5. \A d, i : (Works(d, i)' <=> Works(d, i)) /\ (Finishes(d, i)' <=> Finishes(d, i))
  BY Zenon DEF Works, Finishes
<1>6. /\ \A i : Exposed(i)' <=> Exposed(i)
      /\ UNCHANGED <<log, delivered, pel, locks, done, rec>>
  BY Zenon DEF Exposed, lbsVars, recVars
<1>7. OneHandler' /\ KeyWhileHeld'
  BY <1>3, <1>4, <1>5, <1>6, LetsGo, Zenon
<1>8. BatchOver' /\ KnownWhileWorking' /\ ExtenderJustified'
  <2>1. BatchOver'
    BY <1>1, <1>2 DEF OwnerInv, BatchOver
  <2>2. \A i : TaskOf(i)' = TaskOf(i) /\ Name(i)' = Name(i)
    BY <1>6, Zenon DEF TaskOf, Name
  <2>3. KnownWhileWorking'
    <3> SUFFICES ASSUME NEW d \in Consumers, NEW i \in 1 .. delivered, Offers(d, i)' \/ Works(d, i)'
                 PROVE  /\ streamLocks[d][Name(i)] = i
                        /\ Works(d, i) => \E e \in exts : e.c = d /\ e.i = i
      BY <1>5, <1>6, <2>2 DEF KnownWhileWorking
    <3>1. Offers(d, i) \/ Works(d, i)
      BY <1>3, <1>4, <1>5, Zenon
    <3> QED BY <3>1, Zenon DEF OwnerInv, KnownWhileWorking
  <2>4. ExtenderJustified'
    BY <1>3, <1>4, <1>5, <1>6, <2>2, Zenon DEF OwnerInv, ExtenderJustified
  <2> QED BY <2>1, <2>3, <2>4, Zenon
<1> QED BY <1>7, <1>8, Zenon DEF OwnerInv

\* A new batch: nobody has seen an entry that was not delivered before.
LEMMA OwnerReadBatch ==
  ASSUME NEW c \in Consumers, ReadBatch(c), UNCHANGED <<recVars, crashes>>
  PROVE  KeepsOwner
<1> SUFFICES ASSUME TypeOK, OwnerInv PROVE OwnerInv'
  BY Zenon DEF KeepsOwner
<1> DEFINE New == delivered + 1 .. Len(log)
<1>0. delivered \in Nat /\ Len(log) \in Nat /\ delivered < Len(log) /\ delivered' = Len(log)
  BY DEF ReadBatch, XReadGroup, TypeOK, LBSType
<1>1. /\ UNCHANGED <<log, locks, done, rec, streamLocks, exts, working, calls>>
      /\ pel' = pel \cup New
      /\ \A d \in Consumers : rd'[d] = IF d = c THEN [pc |-> "lock", cur |-> delivered + 1, last |-> Len(log)]
                                       ELSE rd[d]
  BY Zenon DEF ReadBatch, XReadGroup, recVars, TypeOK, ReaderType
<1>2. \A i : /\ i \in 1 .. delivered' <=> i \in 1 .. delivered \/ i \in New
             /\ ~(i \in 1 .. delivered /\ i \in New)
  BY <1>0
<1>3. \A d \in Consumers : \A i : Handles(d, i) => i \in 1 .. delivered
  BY HandledDelivered, Zenon
<1>4. \A d \in Consumers : \A i : /\ Works(d, i)' <=> Works(d, i)
                                  /\ Finishes(d, i)' <=> Finishes(d, i)
                                  /\ Offers(d, i)' <=> Offers(d, i)
                                  /\ Reads(d, i)' <=> Reads(d, i) \/ (d = c /\ i \in New)
  <2>1. rd[c].pc = "read" /\ \A i : ~Reads(c, i)
    BY DEF ReadBatch, Reads, OwnerInv, BatchOver, TypeOK, ReaderType
  <2>2. \A d \in Consumers : \A i : /\ Offers(d, i)' <=> Offers(d, i)
                                    /\ Reads(d, i)' <=> Reads(d, i) \/ (d = c /\ i \in New)
    BY <1>1, <2>1 DEF Reads, Offers
  <2>3. \A d, i : (Works(d, i)' <=> Works(d, i)) /\ (Finishes(d, i)' <=> Finishes(d, i))
    BY <1>1, Zenon DEF Works, Finishes
  <2> QED BY <2>2, <2>3, Zenon
<1>5. \A d \in Consumers : \A i : /\ Holds(d, i)' <=> Holds(d, i)
                                  /\ Handles(d, i)' <=> Handles(d, i) \/ (d = c /\ i \in New)
  BY <1>4, Zenon DEF Holds, Handles
<1>6. \A i \in New : ~Exposed(i)' /\ i \notin locks
  <2>1. \A i \in New : i # 0
    BY <1>0
  <2>2. \A r \in Recoverers : rec[r].i \in 0 .. delivered /\ rec[r].todo \subseteq 1 .. delivered
    BY Zenon DEF TypeOK, RecovererType, RecState
  <2>3. \A r \in Recoverers : rec[r].i = 0 \/ rec[r].i \in 1 .. delivered
    BY <1>0, <2>2
  <2>4. /\ idle' \subseteq 1 .. delivered
        /\ locks \subseteq 1 .. delivered
        /\ \A d, i : <<d, i>> \in expired' => i \in 1 .. delivered
    BY Zenon DEF ReadBatch, recVars, TypeOK, LBSType, RecovererType
  <2> QED BY <1>1, <1>2, <2>1, <2>2, <2>3, <2>4, Zenon DEF Exposed
<1>7. \A i : Exposed(i)' <=> Exposed(i)
  BY Zenon DEF ReadBatch, recVars, Exposed
<1> HIDE DEF New
<1>8. OneHandler'
  <2> SUFFICES ASSUME NEW d \in Consumers, NEW i \in 1 .. delivered', Handles(d, i)'
               PROVE  /\ i \in pel'
                      /\ \A b \in Consumers : Handles(b, i)' => b = d
                      /\ ~(Works(d, i)' /\ Finishes(d, i)')
                      /\ Reads(d, i)' => ~Works(d, i)' /\ ~Finishes(d, i)'
                      /\ \A r \in Recoverers : rec'[r].pc \in {"ack", "dlqack"} => rec'[r].i # i
    BY Zenon DEF OneHandler
  <2>1. CASE i \in 1 .. delivered
    BY <1>1, <1>2, <1>4, <1>5, <2>1, Zenon DEF OwnerInv, OneHandler
  <2>2. CASE i \in New
    <3>1. \A b \in Consumers : ~Handles(b, i) /\ ~Works(b, i) /\ ~Finishes(b, i)
      BY <1>2, <1>3, <2>2, Zenon DEF Handles, Holds
    <3>2. \A r \in Recoverers : rec'[r].i # i
      BY <1>6, <2>2, Zenon DEF Exposed
    <3> QED BY <1>1, <1>4, <1>5, <2>2, <3>1, <3>2, Zenon
  <2> QED BY <1>2, <2>1, <2>2, Zenon
<1>9. \A i : TaskOf(i)' = TaskOf(i) /\ Name(i)' = Name(i)
  BY <1>1, Zenon DEF TaskOf, Name
<1>10. KeyWhileHeld'
  <2> SUFFICES ASSUME NEW d \in Consumers, NEW i \in 1 .. delivered'
               PROVE  /\ Holds(d, i)' => i \in locks' /\ TaskOf(i)' \notin Poison
                      /\ Reads(d, i)' => ~Exposed(i)' /\ (i \in locks' => Offers(d, i)')
    BY Zenon DEF KeyWhileHeld
  <2>1. CASE i \in 1 .. delivered
    BY <1>1, <1>2, <1>4, <1>5, <1>7, <1>9, <2>1, Zenon DEF OwnerInv, KeyWhileHeld
  <2>2. CASE i \in New
    BY <1>1, <1>2, <1>3, <1>5, <1>6, <2>2, Zenon DEF Handles
  <2> QED BY <1>2, <2>1, <2>2, Zenon
<1>11. BatchOver' /\ KnownWhileWorking' /\ ExtenderJustified'
  <2>1. BatchOver'
    BY <1>1 DEF OwnerInv, BatchOver
  <2>2. KnownWhileWorking'
    <3> SUFFICES ASSUME NEW d \in Consumers, NEW i, Offers(d, i)' \/ Works(d, i)'
                 PROVE  /\ streamLocks'[d][Name(i)'] = i
                        /\ Works(d, i)' => \E e \in exts' : e.c = d /\ e.i = i
      BY DEF KnownWhileWorking
    <3>1. i \in 1 .. delivered /\ (Offers(d, i) \/ Works(d, i))
      BY <1>3, <1>4, Zenon DEF Handles, Holds
    <3> QED BY <1>1, <1>4, <1>9, <3>1, Zenon DEF OwnerInv, KnownWhileWorking
  <2>3. ExtenderJustified'
    <3> SUFFICES ASSUME NEW e \in exts'
                 PROVE  /\ e.pc # "disown"
                        /\ Works(e.c, e.i)' \/ Finishes(e.c, e.i)' \/ TaskOf(e.i)' \in done'
                        /\ e.pc = "cleanup" => ~Works(e.c, e.i)'
                        /\ \A d \in Consumers : ~Reads(d, e.i)'
      BY Zenon DEF ExtenderJustified
    <3>1. e \in exts /\ e.c \in Consumers /\ e.i \in 1 .. delivered
      BY <1>1, Zenon DEF TypeOK, HandlerType
    <3> QED BY <1>1, <1>2, <1>4, <1>9, <3>1, Zenon DEF OwnerInv, ExtenderJustified
  <2> QED BY <2>1, <2>2, <2>3, Zenon
<1> QED BY <1>8, <1>10, <1>11, Zenon DEF OwnerInv

\* Send returns: the application has the entry, and its extender starts.
LEMMA OwnerSendAdded ==
  ASSUME NEW c \in Consumers, SendAdded(c), UNCHANGED <<recVars, crashes>>
  PROVE  KeepsOwner
<1> SUFFICES ASSUME TypeOK, OwnerInv PROVE OwnerInv'
  BY Zenon DEF KeepsOwner
<1> DEFINE n == rd[c].cur
           m == [c |-> c, i |-> n, pc |-> "check"]
<1>1. /\ UNCHANGED <<log, delivered, pel, idle, locks, done, rec, expired, streamLocks, calls>>
      /\ working' = working \cup {<<c, n>>}
      /\ exts' = exts \cup {m}
      /\ Offers(c, n)
  BY Zenon DEF SendAdded, recVars, lbsVars, Offers
<1>2. \A d \in Consumers : d # c => rd'[d] = rd[d]
  BY Zenon DEF SendAdded, TypeOK, ReaderType
<1>3. /\ n \in 1 .. delivered /\ Reads(c, n)
      /\ n \in Nat /\ rd[c].last \in Nat /\ n <= rd[c].last
      /\ \A i : Offers(c, i) <=> i = n
  BY DEF SendAdded, Reads, Offers, TypeOK, ReaderType, LBSType
<1>4. \/ n = rd[c].last /\ rd'[c] = NewReader
      \/ n < rd[c].last /\ rd'[c] = [pc |-> "lock", cur |-> n + 1, last |-> rd[c].last]
  <2>1. rd'[c] = IF n = rd[c].last THEN NewReader
                 ELSE [pc |-> "lock", cur |-> n + 1, last |-> rd[c].last]
    BY Zenon DEF SendAdded, TypeOK, ReaderType
  <2> HIDE DEF n
  <2>2. n = rd[c].last \/ n < rd[c].last
    BY <1>3
  <2> QED BY <1>3, <2>1, <2>2, Zenon
<1>5. \A i : (Reads(c, i)' <=> Reads(c, i) /\ i # n) /\ ~Offers(c, i)'
  <2>1. CASE n = rd[c].last /\ rd'[c] = NewReader
    BY <1>3, <2>1 DEF NewReader, Reads, Offers
  <2>2. CASE n < rd[c].last /\ rd'[c] = [pc |-> "lock", cur |-> n + 1, last |-> rd[c].last]
    BY <1>3, <2>2 DEF Reads, Offers
  <2> QED BY <1>4, <2>1, <2>2, Zenon
<1>6. \A d \in Consumers : \A i : d # c => (Reads(d, i)' <=> Reads(d, i)) /\ (Offers(d, i)' <=> Offers(d, i))
  BY <1>2, Zenon DEF Reads, Offers
<1>7. \A d \in Consumers : \A i : /\ Works(d, i)' <=> Works(d, i) \/ (d = c /\ i = n)
                                  /\ Finishes(d, i)' <=> Finishes(d, i)
  BY <1>1, Zenon DEF Works, Finishes
<1>8. \A d \in Consumers : \A i : (Holds(d, i)' <=> Holds(d, i)) /\ (Handles(d, i)' <=> Handles(d, i))
  BY <1>1, <1>3, <1>5, <1>6, <1>7, Zenon DEF Holds, Handles
<1>9. \A i : /\ TaskOf(i)' = TaskOf(i)
             /\ Name(i)' = Name(i)
             /\ Exposed(i)' <=> Exposed(i)
  BY <1>1, Zenon DEF TaskOf, Name, Exposed
<1>10. m.c = c /\ m.i = n /\ m.pc = "check"
  BY Zenon
<1> HIDE DEF n, m
<1>11. \A d \in Consumers : Handles(d, n) => d = c
  BY <1>3, Zenon DEF OwnerInv, OneHandler, Handles
<1>12. OneHandler'
  <2>1. ~Works(c, n) /\ ~Finishes(c, n)
    BY <1>3, Zenon DEF OwnerInv, OneHandler, Handles
  <2>2. \A d \in Consumers : \A i : Reads(d, i)' => Reads(d, i) /\ ~(d = c /\ i = n)
    BY <1>5, <1>6, Zenon
  <2> SUFFICES ASSUME NEW d \in Consumers, NEW i \in 1 .. delivered, Handles(d, i)'
               PROVE  /\ i \in pel
                      /\ \A b \in Consumers : Handles(b, i)' => b = d
                      /\ ~(Works(d, i)' /\ Finishes(d, i)')
                      /\ Reads(d, i)' => ~Works(d, i)' /\ ~Finishes(d, i)'
                      /\ \A r \in Recoverers : rec[r].pc \in {"ack", "dlqack"} => rec[r].i # i
    BY <1>1, Zenon DEF OneHandler
  <2>3. /\ i \in pel
        /\ \A b \in Consumers : Handles(b, i) => b = d
        /\ ~(Works(d, i) /\ Finishes(d, i))
        /\ Reads(d, i) => ~Works(d, i) /\ ~Finishes(d, i)
        /\ \A r \in Recoverers : rec[r].pc \in {"ack", "dlqack"} => rec[r].i # i
    BY <1>8, Zenon DEF OwnerInv, OneHandler
  <2> QED BY <1>7, <1>8, <2>1, <2>2, <2>3, Zenon
<1>13. KeyWhileHeld'
  BY <1>1, <1>3, <1>5, <1>6, <1>8, <1>9, Zenon DEF OwnerInv, KeyWhileHeld
<1>14. BatchOver' /\ KnownWhileWorking' /\ ExtenderJustified'
  <2>1. BatchOver'
    <3>1. NewReader.last < NewReader.cur
      BY DEF NewReader
    <3>2. rd'[c].pc = "lock" \/ rd'[c] = NewReader
      BY <1>4
    <3>3. rd'[c].pc \in {"read", "dead"} => rd'[c].last < rd'[c].cur
      BY <3>1, <3>2, Zenon
    <3> QED BY <1>2, <3>3, Zenon DEF OwnerInv, BatchOver
  <2>2. KnownWhileWorking'
    <3>0. delivered' = delivered /\ streamLocks' = streamLocks
      BY <1>1, Zenon
    <3> SUFFICES ASSUME NEW d \in Consumers, NEW i \in 1 .. delivered, Offers(d, i)' \/ Works(d, i)'
                 PROVE  /\ streamLocks[d][Name(i)] = i
                        /\ Works(d, i)' => \E e \in exts' : e.c = d /\ e.i = i
      BY <1>9, <3>0, SMTT(20) DEF KnownWhileWorking
    <3>1. CASE d = c /\ i = n
      BY <1>1, <1>3, <1>10, <3>1, Zenon DEF OwnerInv, KnownWhileWorking
    <3>2. CASE ~(d = c /\ i = n)
      <4>1. (Offers(d, i) \/ Works(d, i)) /\ (Works(d, i)' => Works(d, i))
        BY <1>5, <1>6, <1>7, <3>2, Zenon
      <4>2. \A e : e \in exts => e \in exts'
        BY <1>1, Zenon
      <4> QED BY <4>1, <4>2, Zenon DEF OwnerInv, KnownWhileWorking
    <3> QED BY <3>1, <3>2, Zenon
  <2>3. ExtenderJustified'
    <3> SUFFICES ASSUME NEW e \in exts'
                 PROVE  /\ e.pc # "disown"
                        /\ Works(e.c, e.i)' \/ Finishes(e.c, e.i)' \/ TaskOf(e.i)' \in done'
                        /\ e.pc = "cleanup" => ~Works(e.c, e.i)'
                        /\ \A d \in Consumers : ~Reads(d, e.i)'
      BY Zenon DEF ExtenderJustified
    <3>1. CASE e = m
      <4>1. e.c = c /\ e.i = n /\ e.pc = "check" /\ c \in Consumers
        BY <1>10, <3>1, Zenon
      <4>2. \A i : i = n => Works(c, i)' /\ \A d \in Consumers : ~Reads(d, i)'
        BY <1>5, <1>6, <1>7, <1>11, Zenon DEF Handles
      <4> QED BY <4>1, <4>2, Zenon
    <3>2. CASE e \in exts
      <4>1. e.c \in Consumers
        BY <3>2, Zenon DEF TypeOK, HandlerType
      <4>2. e.i # n
        BY <1>3, <3>2, Zenon DEF OwnerInv, ExtenderJustified
      <4> QED BY <1>1, <1>5, <1>6, <1>7, <1>9, <3>2, <4>1, <4>2, Zenon DEF OwnerInv, ExtenderJustified
    <3> QED BY <1>1, <3>1, <3>2, Zenon
  <2> QED BY <2>1, <2>2, <2>3, Zenon
<1> QED BY <1>12, <1>13, <1>14, Zenon DEF OwnerInv

\* An extender goes on while the map holds its stream; setting the key of an
\* entry again disturbs no reader.
LEMMA OwnerExtend ==
  ASSUME OnTime, NEW e \in exts, ExtCheck(e) \/ Extend(e),
         UNCHANGED <<recVars, crashes>>
  PROVE  KeepsOwner
<1> SUFFICES ASSUME TypeOK, OwnerInv PROVE OwnerInv'
  BY Zenon DEF KeepsOwner
<1>0. e.c \in Consumers /\ e.i \in 1 .. delivered
  BY Zenon DEF TypeOK, HandlerType
<1>1. /\ UNCHANGED <<log, delivered, pel, idle, done, rec, expired, rd, streamLocks, working, calls>>
      /\ locks' = locks \/ locks' = locks \cup {e.i}
  BY Zenon DEF ExtCheck, Extend, recVars, lbsVars
<1>2. PICK p \in {"check", "extend", "cleanup"} :
        Goto(e, p) /\ (p = "cleanup" => IsStreamProcessingDone(e.c, Name(e.i)))
  BY Zenon DEF ExtCheck, Extend
<1> DEFINE m == [c |-> e.c, i |-> e.i, pc |-> p]
<1>3. exts' = (exts \ {e}) \cup {m} /\ m.c = e.c /\ m.i = e.i /\ m.pc = p
  BY <1>2, Zenon DEF Goto
<1>4. \A c \in Consumers : \A i : /\ Reads(c, i)' <=> Reads(c, i)
                                  /\ Offers(c, i)' <=> Offers(c, i)
                                  /\ Works(c, i)' <=> Works(c, i)
                                  /\ Finishes(c, i)' <=> Finishes(c, i)
  BY <1>1, Zenon DEF Reads, Offers, Works, Finishes
<1>5. \A c \in Consumers : \A i : (Holds(c, i)' <=> Holds(c, i)) /\ (Handles(c, i)' <=> Handles(c, i))
  BY <1>4, Zenon DEF Holds, Handles
<1>6. \A i : /\ TaskOf(i)' = TaskOf(i)
             /\ Name(i)' = Name(i)
             /\ Exposed(i)' <=> Exposed(i)
  BY <1>1, Zenon DEF TaskOf, Name, Exposed
<1>7. p = "cleanup" => ~Works(e.c, e.i)
  <2>1. e.i # 0
    BY <1>0 DEF TypeOK, LBSType
  <2> QED BY <1>0, <1>2, <2>1, Zenon DEF IsStreamProcessingDone, OwnerInv, KnownWhileWorking
<1> HIDE DEF m
<1>8. OneHandler'
  BY <1>1, <1>4, <1>5, Zenon DEF OwnerInv, OneHandler
<1>9. KeyWhileHeld'
  <2>1. \A c \in Consumers : ~Reads(c, e.i)
    BY Zenon DEF OwnerInv, ExtenderJustified
  <2> QED BY <1>1, <1>4, <1>5, <1>6, <2>1, Zenon DEF OwnerInv, KeyWhileHeld
<1>10. BatchOver' /\ KnownWhileWorking' /\ ExtenderJustified'
  <2>1. BatchOver'
    BY <1>1, Zenon DEF OwnerInv, BatchOver
  <2>2. KnownWhileWorking'
    <3> SUFFICES ASSUME NEW c \in Consumers, NEW i \in 1 .. delivered
                 PROVE  /\ Offers(c, i)' \/ Works(c, i)' => streamLocks'[c][Name(i)'] = i
                        /\ Works(c, i)' => \E f \in exts' : f.c = c /\ f.i = i
      BY <1>1, Zenon DEF KnownWhileWorking
    <3>1. Works(c, i) => \E f \in exts' : f.c = c /\ f.i = i
      BY <1>3, Zenon DEF OwnerInv, KnownWhileWorking
    <3>2. Offers(c, i) \/ Works(c, i) => streamLocks[c][Name(i)] = i
      BY Zenon DEF OwnerInv, KnownWhileWorking
    <3> QED BY <1>1, <1>4, <1>6, <3>1, <3>2, Zenon
  <2>3. ExtenderJustified'
    <3> SUFFICES ASSUME NEW f \in exts'
                 PROVE  /\ f.pc # "disown"
                        /\ Works(f.c, f.i)' \/ Finishes(f.c, f.i)' \/ TaskOf(f.i)' \in done'
                        /\ f.pc = "cleanup" => ~Works(f.c, f.i)'
                        /\ \A c \in Consumers : ~Reads(c, f.i)'
      BY Zenon DEF ExtenderJustified
    <3>1. CASE f \in exts
      <4>1. f.c \in Consumers
        BY <3>1, Zenon DEF TypeOK, HandlerType
      <4> QED BY <1>1, <1>4, <1>6, <3>1, <4>1, Zenon DEF OwnerInv, ExtenderJustified
    <3>2. CASE f = m
      <4>1. f.c = e.c /\ f.i = e.i /\ f.pc = p
        BY <1>3, <3>2, Zenon
      <4>2. /\ Works(e.c, e.i) \/ Finishes(e.c, e.i) \/ TaskOf(e.i) \in done
            /\ \A c \in Consumers : ~Reads(c, e.i)
        BY Zenon DEF OwnerInv, ExtenderJustified
      <4> QED BY <1>0, <1>1, <1>2, <1>4, <1>6, <1>7, <4>1, <4>2, Zenon
    <3> QED BY <1>3, <3>1, <3>2, Zenon
  <2> QED BY <2>1, <2>2, <2>3, Zenon
<1> QED BY <1>8, <1>9, <1>10, Zenon DEF OwnerInv

\* Nothing is handled in the beginning.
LEMMA OwnerInit == Init => OwnerInv
<1> SUFFICES ASSUME Init PROVE OwnerInv
  BY Zenon
<1>1. /\ delivered = 0 /\ exts = {}
      /\ \A c \in Consumers : rd[c].last < rd[c].cur
  BY DEF Init, LBSInit, ClientInit, NewReader
<1>2. 1 .. delivered = {}
  BY <1>1
<1> QED BY <1>1, <1>2, Zenon DEF OwnerInv, OneHandler, KeyWhileHeld, BatchOver, KnownWhileWorking,
                           ExtenderJustified
============================================================================
