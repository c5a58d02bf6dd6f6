---------------------------- MODULE OwnerProofs ----------------------------
(***************************************************************************)
(* Exclusive ownership.  With heartbeats on time the entry a live process  *)
(* handles is out of the reach of every scan and Claim, so that no data    *)
(* stream is processed twice at a time.                                    *)
(***************************************************************************)
EXTENDS TaskProofs, OwnerLemmas

\* Two pending entries for the same data stream are the same entry.
LEMMA SameEntry ==
  ASSUME IInv, OwnStreams, NEW i \in pel, NEW j \in pel, Name(i) = Name(j)
  PROVE  i = j
<1>1. i \in 1 .. Len(log) /\ j \in 1 .. Len(log) /\ Len(log) \in Nat
  BY DEF IInv, TypeOK, LBSType
<1>2. /\ i \in Ids /\ TaskOf(i) \in Tasks
      /\ j \in Ids /\ TaskOf(j) \in Tasks
  BY <1>1, EntryTypes, Zenon DEF IInv
<1>3. TaskOf(i) = TaskOf(j)
  BY <1>2, Zenon DEF OwnStreams, Name
<1>4. i <= j /\ j <= i
  BY <1>2, <1>3, Zenon DEF IInv, OneLiveEntry, NewestLive, Live
<1> QED BY <1>1, <1>4

\* A pending entry's task is not finished.
LEMMA PendingNotDone ==
  ASSUME IInv, NEW i \in pel
  PROVE  TaskOf(i) \notin done
<1>1. i \in Ids
  BY IdsRange DEF IInv, TypeOK, LBSType
<1> QED BY <1>1, Zenon DEF IInv, NoResurrection, SettledNotLive, Settled, Live

\* The step keeps OwnerInv in a state that satisfies IInv.
OwnerStays == IInv /\ OwnerInv => OwnerInv'

\* reQueue and routeToDLQ acknowledge no entry a consumer handles: its key
\* exists, it can be parsed, and it is not exposed before it is locked.
LEMMA OwnerReQueue ==
  ASSUME OnTime, NEW r \in Recoverers, ReQueueStep(r),
         UNCHANGED <<clientVars, crashes>>
  PROVE  OwnerStays
<1> SUFFICES ASSUME IInv, OwnerInv PROVE OwnerInv'
  BY Zenon DEF OwnerStays
<1> DEFINE n == rec[r].i
<1>0. TypeOK /\ Exposed(n)
  BY Zenon DEF IInv, Exposed
<1>1. UNCHANGED <<delivered, clientVars, locks, done, expired>>
  BY Zenon DEF ReQueueStep, ReadEntry, AckRemoved, CheckOwner,
         ReQueueAck, ReQueueAdd, DLQAck, DLQAdd, DelOriginal, AckFirst, lbsVars
<1>2. \A c \in Consumers, i \in 1 .. delivered : Handles(c, i) => i \in pel
  BY Zenon DEF OwnerInv, OneHandler
<1>3. \A c \in Consumers : Handles(c, n) => n \in pel /\ n \in locks /\ TaskOf(n) \notin Poison
  <2> SUFFICES ASSUME NEW c \in Consumers, Handles(c, n)
               PROVE  n \in pel /\ n \in locks /\ TaskOf(n) \notin Poison
    BY Zenon
  <2>1. n \in 1 .. delivered
    BY <1>0, HandledDelivered, Zenon
  <2>2. Holds(c, n)
    BY <1>0, <2>1, Zenon DEF OwnerInv, KeyWhileHeld, Handles
  <2> QED BY <1>2, <2>1, <2>2, Zenon DEF OwnerInv, KeyWhileHeld
<1>4. ASSUME pel' = pel \/ (pel' = pel \ {n} /\ \A c \in Consumers : ~Handles(c, n))
      PROVE  \A c \in Consumers, i \in 1 .. delivered : Handles(c, i) => i \in pel'
  BY <1>2, <1>4, Zenon
<1>5. CASE ReadEntry(r) \/ CheckOwner(r)
  <2>1. UNCHANGED <<log, pel, idle>>
    BY <1>5, Zenon DEF ReadEntry, CheckOwner, lbsVars
  <2>2. \/ \E p \in {"exists", "ack", "dlqack"} :
             /\ Step(r, p)
             /\ p \in {"ack", "dlqack"} => \A c \in Consumers : ~Handles(c, n)
        \/ Return(r)
    BY <1>3, <1>5, Zenon DEF ReadEntry, CheckOwner, OwnerAlive, OnTime
  <2> QED BY <1>0, <1>1, <1>4, <2>1, <2>2, OwnerMoves, Zenon DEF KeepsOwner
<1>6. CASE AckRemoved(r)
  <2>1. n \notin pel /\ Return(r) /\ UNCHANGED log
    BY <1>6, Zenon DEF AckRemoved, IInv, PendingHasPayload
  <2>2. pel' = pel /\ idle' \subseteq idle
    BY <1>6, <2>1, Zenon DEF AckRemoved, XAck
  <2> QED BY <1>0, <1>1, <1>4, <2>1, <2>2, OwnerMoves, Zenon DEF KeepsOwner
<1>7. CASE ReQueueAck(r) \/ DLQAck(r)
  <2>1. \A c \in Consumers : ~Handles(c, n)
    <3>1. rec[r].pc \in {"ack", "dlqack"}
      BY <1>7, Zenon DEF ReQueueAck, DLQAck, AckFirst, At
    <3> SUFFICES ASSUME NEW c \in Consumers, Handles(c, n) PROVE FALSE
      BY Zenon
    <3>2. n \in 1 .. delivered
      BY <1>0, HandledDelivered, Zenon
    <3> QED BY <3>1, <3>2, Zenon DEF OwnerInv, OneHandler
  <2>2. /\ UNCHANGED log /\ idle' \subseteq idle
        /\ pel' = pel \/ pel' = pel \ {n}
        /\ Step(r, "add") \/ Step(r, "dlqadd") \/ Return(r)
    BY <1>7, Zenon DEF ReQueueAck, DLQAck, AckFirst, XAck
  <2> QED BY <1>0, <1>1, <1>4, <2>1, <2>2, OwnerMoves, Zenon DEF KeepsOwner
<1>8. CASE ReQueueAdd(r)
  <2>1. UNCHANGED <<pel, idle>> /\ (Step(r, "del") \/ Return(r))
    BY <1>8, Zenon DEF ReQueueAdd
  <2>0. rec[r].pc = "add"
    BY <1>8, Zenon DEF ReQueueAdd, At
  <2>2. n \in 1 .. Len(log) /\ Len(log) \in Nat /\ log \in Seq(Entry) /\ delivered <= Len(log)
    <3>1. Len(log) \in Nat /\ log \in Seq(Entry) /\ delivered <= Len(log) /\ delivered \in Nat
      BY <1>0 DEF TypeOK, LBSType
    <3>2. n \in 1 .. delivered
      BY <1>0, <2>0 DEF TypeOK, RecovererType, RecState
    <3> QED BY <3>1, <3>2
  <2>3. TaskOf(n) \in Tasks /\ log[n].retry + 1 \in Nat
    BY <1>0, <2>2, EntryTypes
  <2>4. \A i \in 1 .. Len(log) : log'[i] = log[i]
    BY <1>8, <2>2, <2>3, AppendEntry, Zenon DEF ReQueueAdd, OnTime
  <2>5. \A i \in 1 .. delivered : log'[i] = log[i]
    BY <1>0, <2>2, <2>4 DEF TypeOK, LBSType
  <2> QED BY <1>0, <1>1, <1>4, <2>1, <2>5, OwnerMoves, Zenon DEF KeepsOwner
<1>9. CASE DLQAdd(r) \/ DelOriginal(r)
  <2>1. UNCHANGED <<log, pel, idle>> /\ (Step(r, "del") \/ Return(r))
    BY <1>9, Zenon DEF DLQAdd, DelOriginal
  <2> QED BY <1>0, <1>1, <1>4, <2>1, OwnerMoves, Zenon DEF KeepsOwner
<1> QED BY <1>5, <1>6, <1>7, <1>8, <1>9, Zenon DEF ReQueueStep

\* Lock: the key of the first entry of the batch, and its place in the map.
LEMMA OwnerLockEntry ==
  ASSUME OwnStreams, NEW c \in Consumers, LockEntry(c),
         UNCHANGED <<recVars, crashes>>
  PROVE  OwnerStays
<1> SUFFICES ASSUME IInv, OwnerInv PROVE OwnerInv'
  BY Zenon DEF OwnerStays
<1> DEFINE n == rd[c].cur
<1>0. TypeOK
  BY Zenon DEF IInv
<1>1. /\ UNCHANGED <<log, delivered, pel, idle, done, rec, expired, exts, working, calls>>
      /\ locks' = locks \cup {n}
      /\ rd[c].pc = "lock" /\ TaskOf(n) \notin Poison
  BY Zenon DEF LockEntry, recVars
<1>2. \A d \in Consumers : rd'[d] = IF d = c THEN [rd[c] EXCEPT !.pc = "send"] ELSE rd[d]
  BY <1>0, Zenon DEF LockEntry, TypeOK, ReaderType
<1>3. n \in 1 .. delivered /\ Name(n) \in Streams /\ Reads(c, n)
  <2>1. n \in 1 .. rd[c].last /\ rd[c].last <= delivered /\ rd[c].last \in Nat
    BY <1>0, <1>1, Zenon DEF TypeOK, ReaderType
  <2>2. n \in 1 .. delivered /\ n \in 1 .. Len(log)
    BY <1>0, <2>1 DEF TypeOK, LBSType
  <2>3. Name(n) \in Streams
    BY <1>0, <2>2, EntryTypes, Zenon
  <2> QED BY <2>1, <2>2, <2>3 DEF Reads
<1>4. /\ \A d \in Consumers, s \in Streams : ~(d = c /\ s = Name(n)) => streamLocks'[d][s] = streamLocks[d][s]
      /\ streamLocks'[c][Name(n)] = n
  BY <1>0, <1>3 DEF LockEntry, TypeOK, HandlerType
<1>5. \A d \in Consumers : \A i : /\ Reads(d, i)' <=> Reads(d, i)
                                  /\ Offers(d, i)' <=> Offers(d, i) \/ (d = c /\ i = n)
                                  /\ Works(d, i)' <=> Works(d, i)
                                  /\ Finishes(d, i)' <=> Finishes(d, i)
  <2>1. [rd[c] EXCEPT !.pc = "send"].cur = n /\ [rd[c] EXCEPT !.pc = "send"].last = rd[c].last
        /\ [rd[c] EXCEPT !.pc = "send"].pc = "send"
    BY <1>0, Zenon DEF TypeOK, ReaderType
  <2>2. \A d \in Consumers : \A i : /\ Reads(d, i)' <=> Reads(d, i)
                                    /\ Offers(d, i)' <=> Offers(d, i) \/ (d = c /\ i = n)
    BY <1>1, <1>2, <2>1, Zenon DEF Reads, Offers
  <2>3. \A d, i : (Works(d, i)' <=> Works(d, i)) /\ (Finishes(d, i)' <=> Finishes(d, i))
    BY <1>1, Zenon DEF Works, Finishes
  <2> QED BY <2>2, <2>3, Zenon
<1>6. \A d \in Consumers : \A i : /\ Holds(d, i)' <=> Holds(d, i) \/ (d = c /\ i = n)
                                  /\ Handles(d, i)' <=> Handles(d, i)
  BY <1>3, <1>5, Zenon DEF Holds, Handles
<1>7. \A i : /\ TaskOf(i)' = TaskOf(i)
             /\ Name(i)' = Name(i)
             /\ Exposed(i)' <=> Exposed(i)
  BY <1>1, Zenon DEF TaskOf, Name, Exposed
<1> HIDE DEF n
<1>8. OneHandler'
  BY <1>1, <1>5, <1>6, Zenon DEF OwnerInv, OneHandler
<1>9. KeyWhileHeld'
  <2>1. \A d \in Consumers : Reads(d, n) => d = c
    BY <1>3, Zenon DEF OwnerInv, OneHandler, Handles
  <2> QED BY <1>1, <1>5, <1>6, <1>7, <2>1, Zenon DEF OwnerInv, KeyWhileHeld
<1>10. BatchOver' /\ KnownWhileWorking' /\ ExtenderJustified'
  <2>1. BatchOver'
    BY <1>0, <1>2, Zenon DEF OwnerInv, BatchOver, TypeOK, ReaderType
  <2>2. ASSUME NEW d \in Consumers, NEW i \in 1 .. delivered, Offers(d, i)' \/ Works(d, i)'
        PROVE  streamLocks'[d][Name(i)] = i
    <3>1. i \in 1 .. Len(log)
      BY <1>0 DEF TypeOK, LBSType
    <3>2. Name(i) \in Streams
      BY <1>0, <3>1, EntryTypes, Zenon
    <3>3. i \in pel /\ n \in pel
      BY <1>3, <1>5, <1>6, <2>2, Zenon DEF OwnerInv, OneHandler, Handles, Holds
    <3>4. Name(i) = Name(n) => i = n
      BY <3>3, SameEntry, Zenon
    <3>5. CASE i = n
      <4>1. d = c
        BY <1>3, <1>5, <2>2, <3>5, Zenon DEF OwnerInv, OneHandler, Handles, Holds
      <4> QED BY <1>4, <3>5, <4>1, Zenon
    <3>6. CASE i # n
      <4>1. streamLocks[d][Name(i)] = i
        BY <1>5, <2>2, <3>6, Zenon DEF OwnerInv, KnownWhileWorking
      <4> QED BY <1>4, <3>2, <3>4, <3>6, <4>1, Zenon
    <3> QED BY <3>5, <3>6, Zenon
  <2>3. \A e \in exts : e.c \in Consumers /\ e.i \in 1 .. delivered
    BY <1>0, Zenon DEF TypeOK, HandlerType
  <2>4. KnownWhileWorking'
    BY <1>1, <1>5, <1>7, <2>2, Zenon DEF OwnerInv, KnownWhileWorking
  <2>5. ExtenderJustified'
    BY <1>1, <1>5, <1>7, <2>3, Zenon DEF OwnerInv, ExtenderJustified
  <2> QED BY <2>1, <2>4, <2>5, Zenon
<1> QED BY <1>8, <1>9, <1>10, Zenon DEF OwnerInv

\* The deferred pop of an extender finds nothing that is worked on or offered
\* under its stream name.
LEMMA OwnerExtCleanup ==
  ASSUME OwnStreams, NEW e \in exts, ExtCleanup(e), UNCHANGED <<recVars, crashes>>
  PROVE  OwnerStays
<1> SUFFICES ASSUME IInv, OwnerInv PROVE OwnerInv'
  BY Zenon DEF OwnerStays
<1>0. TypeOK /\ e.c \in Consumers /\ e.i \in 1 .. delivered
  BY Zenon DEF IInv, TypeOK, HandlerType
<1>1. /\ UNCHANGED <<log, delivered, pel, idle, locks, done, rec, expired, rd, working, calls>>
      /\ exts' = exts \ {e} /\ e.pc = "cleanup"
  BY Zenon DEF ExtCleanup, recVars, lbsVars
<1>2. \A c \in Consumers, s \in Streams :
        ~(c = e.c /\ s = Name(e.i)) => streamLocks'[c][s] = streamLocks[c][s]
  BY <1>0, Zenon DEF ExtCleanup, PopStreamLocksInfo, TypeOK, HandlerType
<1>3. \A c \in Consumers : \A i : /\ Reads(c, i)' <=> Reads(c, i)
                                  /\ Offers(c, i)' <=> Offers(c, i)
                                  /\ Works(c, i)' <=> Works(c, i)
                                  /\ Finishes(c, i)' <=> Finishes(c, i)
  BY <1>1, Zenon DEF Reads, Offers, Works, Finishes
<1>4. \A i : /\ TaskOf(i)' = TaskOf(i)
             /\ Name(i)' = Name(i)
             /\ Exposed(i)' <=> Exposed(i)
  BY <1>1, Zenon DEF TaskOf, Name, Exposed
<1>5. OneHandler' /\ KeyWhileHeld'
  BY <1>1, <1>3, <1>4, LetsGo, Zenon
<1>6. ~Works(e.c, e.i) /\ \A c \in Consumers : ~Reads(c, e.i)
  BY <1>1, Zenon DEF OwnerInv, ExtenderJustified
<1>7. ASSUME NEW i \in 1 .. delivered, Offers(e.c, i) \/ Works(e.c, i)
      PROVE  Name(i) # Name(e.i)
  <2> SUFFICES ASSUME Name(i) = Name(e.i) PROVE FALSE
    BY Zenon
  <2>1. i \in pel
    BY <1>0, <1>7, Zenon DEF OwnerInv, OneHandler, Handles, Holds
  <2>2. i # e.i
    BY <1>0, <1>6, <1>7, OfferedIsRead, Zenon
  <2>3. e.i \notin pel
    BY <2>1, <2>2, SameEntry, Zenon
  <2>4. TaskOf(e.i) \in done
    BY <1>0, <1>6, <2>3, Zenon DEF OwnerInv, OneHandler, ExtenderJustified, Handles, Holds
  <2>5. TaskOf(i) = TaskOf(e.i)
    <3>1. i \in 1 .. Len(log) /\ e.i \in 1 .. Len(log)
      BY <1>0 DEF TypeOK, LBSType
    <3>2. TaskOf(i) \in Tasks /\ TaskOf(e.i) \in Tasks
      BY <1>0, <3>1, EntryTypes, Zenon
    <3> QED BY <3>2, Zenon DEF OwnStreams, Name
  <2> QED BY <2>1, <2>4, <2>5, PendingNotDone, Zenon
<1>8. BatchOver' /\ KnownWhileWorking' /\ ExtenderJustified'
  <2>1. BatchOver'
    BY <1>1, Zenon DEF OwnerInv, BatchOver
  <2>2. ASSUME NEW c \in Consumers, NEW i \in 1 .. delivered, Offers(c, i) \/ Works(c, i)
        PROVE  streamLocks'[c][Name(i)] = i
    <3>1. i \in 1 .. Len(log)
      BY <1>0 DEF TypeOK, LBSType
    <3>2. Name(i) \in Streams
      BY <1>0, <3>1, EntryTypes, Zenon
    <3>3. streamLocks[c][Name(i)] = i
      BY <2>2, Zenon DEF OwnerInv, KnownWhileWorking
    <3> QED BY <1>2, <1>7, <2>2, <3>2, <3>3, Zenon
  <2>3. ASSUME NEW c \in Consumers, NEW i \in 1 .. delivered, Works(c, i)
        PROVE  \E f \in exts' : f.c = c /\ f.i = i
    BY <1>1, <1>6, <2>3, Zenon DEF OwnerInv, KnownWhileWorking
  <2>4. \A f \in exts : f.c \in Consumers
    BY <1>0, Zenon DEF TypeOK, HandlerType
  <2>5. KnownWhileWorking'
    <3> SUFFICES ASSUME NEW c \in Consumers, NEW i \in 1 .. delivered
                 PROVE  /\ Offers(c, i) \/ Works(c, i) => streamLocks'[c][Name(i)] = i
                        /\ Works(c, i) => \E f \in exts' : f.c = c /\ f.i = i
      BY <1>1, <1>3, <1>4 DEF KnownWhileWorking
    <3> QED BY <2>2, <2>3, Zenon
  <2>6. ExtenderJustified'
    BY <1>1, <1>3, <1>4, <2>4, Zenon DEF OwnerInv, ExtenderJustified
  <2> QED BY <2>1, <2>5, <2>6, Zenon
<1> QED BY <1>5, <1>8, Zenon DEF OwnerInv

\* DoneStream pops the entry the application worked on, and no other.
LEMMA OwnerFinish ==
  ASSUME OwnStreams, NEW w \in working, FinishStream(w[1], w[2]),
         UNCHANGED <<recVars, crashes>>
  PROVE  OwnerStays
<1> SUFFICES ASSUME IInv, OwnerInv PROVE OwnerInv'
  BY Zenon DEF OwnerStays
<1> DEFINE b == w[1]
           n == w[2]
           k == [c |-> b, i |-> n, pc |-> "ack"]
<1>0. /\ TypeOK /\ b \in Consumers /\ n \in 1 .. delivered
      /\ Works(b, n)
  <2>1. TypeOK /\ w \in Consumers \X (1 .. delivered)
    BY Zenon DEF IInv, TypeOK, HandlerType
  <2>2. w[1] \in Consumers /\ w[2] \in 1 .. delivered /\ w = <<w[1], w[2]>>
    BY <2>1
  <2> QED BY <2>1, <2>2, Zenon DEF Works
<1>1. /\ UNCHANGED <<log, delivered, pel, idle, locks, done, rec, expired, rd, exts>>
      /\ working' = working \ {<<b, n>>}
  BY Zenon DEF FinishStream, recVars, lbsVars
<1>2. streamLocks[b][Name(n)] = n /\ n # 0
  <2>1. n # 0
    BY <1>0 DEF TypeOK, LBSType
  <2> QED BY <1>0, <2>1, Zenon DEF OwnerInv, KnownWhileWorking
<1>3. calls' = calls \cup {k} /\ streamLocks' = [streamLocks EXCEPT ![b][Name(n)] = 0]
  BY <1>2, Zenon DEF FinishStream, IsStreamProcessingDone, PopStreamLocksInfo
<1> HIDE DEF b, n
<1>4. \A c \in Consumers, s \in Streams :
        ~(c = b /\ s = Name(n)) => streamLocks'[c][s] = streamLocks[c][s]
  BY <1>0, <1>3, Zenon DEF TypeOK, HandlerType
<1>5. \A c \in Consumers : \A i : /\ Reads(c, i)' <=> Reads(c, i)
                                  /\ Offers(c, i)' <=> Offers(c, i)
                                  /\ Works(c, i)' <=> Works(c, i) /\ ~(c = b /\ i = n)
                                  /\ Finishes(c, i)' <=> Finishes(c, i) \/ (c = b /\ i = n)
  <2>1. \A c, i : (Reads(c, i)' <=> Reads(c, i)) /\ (Offers(c, i)' <=> Offers(c, i))
    BY <1>1, Zenon DEF Reads, Offers
  <2>2. \A c, i : Works(c, i)' <=> Works(c, i) /\ ~(c = b /\ i = n)
    BY <1>1, Zenon DEF Works
  <2>3. \A c, i : Finishes(c, i)' <=> Finishes(c, i) \/ (c = b /\ i = n)
    BY <1>3, Zenon DEF Finishes
  <2> QED BY <2>1, <2>2, <2>3, Zenon
<1>6. \A c \in Consumers : \A i : (Holds(c, i)' <=> Holds(c, i)) /\ (Handles(c, i)' <=> Handles(c, i))
  BY <1>0, <1>5, Zenon DEF Holds, Handles
<1>7. \A i : /\ TaskOf(i)' = TaskOf(i)
             /\ Name(i)' = Name(i)
             /\ Exposed(i)' <=> Exposed(i)
  BY <1>1, Zenon DEF TaskOf, Name, Exposed
<1>8. n \in pel /\ ~Reads(b, n)
  BY <1>0, Zenon DEF OwnerInv, OneHandler, Handles, Holds
<1>9. OneHandler'
  <2> SUFFICES ASSUME NEW c \in Consumers, NEW i \in 1 .. delivered, Handles(c, i)'
               PROVE  /\ i \in pel
                      /\ \A d \in Consumers : Handles(d, i)' => d = c
                      /\ ~(Works(c, i)' /\ Finishes(c, i)')
                      /\ Reads(c, i)' => ~Works(c, i)' /\ ~Finishes(c, i)'
                      /\ \A r \in Recoverers : rec[r].pc \in {"ack", "dlqack"} => rec[r].i # i
    BY <1>1, Zenon DEF OneHandler
  <2>1. /\ i \in pel
        /\ \A d \in Consumers : Handles(d, i) => d = c
        /\ ~(Works(c, i) /\ Finishes(c, i))
        /\ Reads(c, i) => ~Works(c, i) /\ ~Finishes(c, i)
        /\ \A r \in Recoverers : rec[r].pc \in {"ack", "dlqack"} => rec[r].i # i
    BY <1>6, Zenon DEF OwnerInv, OneHandler
  <2> QED BY <1>5, <1>6, <1>8, <2>1, Zenon
<1>10. KeyWhileHeld'
  BY <1>1, <1>5, <1>6, <1>7, Zenon DEF OwnerInv, KeyWhileHeld
<1>11. BatchOver' /\ KnownWhileWorking' /\ ExtenderJustified'
  <2>1. BatchOver'
    BY <1>1, Zenon DEF OwnerInv, BatchOver
  <2>2. ASSUME NEW c \in Consumers, NEW i \in 1 .. delivered, Offers(c, i)' \/ Works(c, i)'
        PROVE  streamLocks'[c][Name(i)] = i
    <3>1. i \in 1 .. Len(log)
      BY <1>0 DEF TypeOK, LBSType
    <3>2. Name(i) \in Streams
      BY <1>0, <3>1, EntryTypes, Zenon
    <3>3. Offers(c, i) \/ Works(c, i)
      BY <1>5, <2>2, Zenon
    <3>4. streamLocks[c][Name(i)] = i /\ i \in pel
      BY <3>3, Zenon DEF OwnerInv, OneHandler, KnownWhileWorking, Handles, Holds
    <3>5. ~(c = b /\ i = n)
      BY <1>0, <1>5, <1>8, <2>2, OfferedIsRead, Zenon
    <3>6. Name(i) = Name(n) => i = n
      BY <1>8, <3>4, SameEntry, Zenon
    <3> QED BY <1>4, <3>2, <3>4, <3>5, <3>6, Zenon
  <2>3. \A e \in exts : e.c \in Consumers
    BY <1>0, Zenon DEF TypeOK, HandlerType
  <2>4. KnownWhileWorking'
    BY <1>1, <1>5, <1>7, <2>2, Zenon DEF OwnerInv, KnownWhileWorking
  <2>5. ExtenderJustified'
    BY <1>1, <1>5, <1>7, <2>3, Zenon DEF OwnerInv, ExtenderJustified
  <2> QED BY <2>1, <2>4, <2>5, Zenon
<1> QED BY <1>9, <1>10, <1>11, Zenon DEF OwnerInv

\* The XACK of DoneStream ends the handling of its entry.
LEMMA OwnerDoneAck ==
  ASSUME OnTime, NEW k \in calls, DoneAck(k), UNCHANGED <<recVars, crashes>>
  PROVE  OwnerStays
<1> SUFFICES ASSUME IInv, OwnerInv PROVE OwnerInv'
  BY Zenon DEF OwnerStays
<1> DEFINE b == k.c
           n == k.i
           m == [c |-> b, i |-> n, pc |-> "del"]
<1>0. /\ TypeOK /\ b \in Consumers /\ n \in 1 .. delivered
      /\ k = [c |-> b, i |-> n, pc |-> "ack"] /\ Finishes(b, n)
  <2>1. k \in [c : Consumers, i : 1 .. delivered, pc : {"ack", "del", "unlock"}] /\ k.pc = "ack"
    BY Zenon DEF DoneAck, IInv, TypeOK, HandlerType
  <2>2. b \in Consumers /\ n \in 1 .. delivered /\ k = [c |-> b, i |-> n, pc |-> "ack"]
    BY <2>1, Zenon
  <2> QED BY <2>2, Zenon DEF IInv, Finishes
<1>1. n \in pel
  BY <1>0, Zenon DEF OwnerInv, OneHandler, Handles, Holds
<1>2. /\ UNCHANGED <<log, delivered, locks, rec, expired, rd, streamLocks, exts, working>>
      /\ pel' = pel \ {n} /\ idle' = idle \ {n} /\ done' = done \cup {TaskOf(n)}
      /\ calls' = (calls \ {k}) \cup {m}
  BY <1>1, Zenon DEF DoneAck, AckDone, XAck, Proceed, OnTime, recVars
<1> HIDE DEF b, n
<1>3. \A c \in Consumers : \A i : /\ Reads(c, i)' <=> Reads(c, i)
                                  /\ Offers(c, i)' <=> Offers(c, i)
                                  /\ Works(c, i)' <=> Works(c, i)
                                  /\ Finishes(c, i)' <=> Finishes(c, i) /\ ~(c = b /\ i = n)
  <2>1. \A c, i : /\ Reads(c, i)' <=> Reads(c, i)
                  /\ Offers(c, i)' <=> Offers(c, i)
                  /\ Works(c, i)' <=> Works(c, i)
    BY <1>2, Zenon DEF Reads, Offers, Works
  <2>2. \A c, i : Finishes(c, i)' <=> Finishes(c, i) /\ ~(c = b /\ i = n)
    <3>1. \A c, i : /\ [c |-> c, i |-> i, pc |-> "ack"] # m
                    /\ [c |-> c, i |-> i, pc |-> "ack"] = k <=> c = b /\ i = n
      BY <1>0, Zenon
    <3> HIDE DEF m
    <3> QED BY <1>2, <3>1, Zenon DEF Finishes
  <2> QED BY <2>1, <2>2, Zenon
<1>4. ~Reads(b, n) /\ ~Works(b, n) /\ ~Offers(b, n) /\ \A c \in Consumers : Handles(c, n) => c = b
  BY <1>0, OfferedIsRead, Zenon DEF OwnerInv, OneHandler, Handles, Holds
<1>5. \A c \in Consumers : \A i : /\ Holds(c, i)' <=> Holds(c, i) /\ ~(c = b /\ i = n)
                                  /\ Handles(c, i)' <=> Handles(c, i) /\ i # n
  BY <1>3, <1>4, Zenon DEF Holds, Handles
<1>6. \A i : /\ TaskOf(i)' = TaskOf(i)
             /\ Name(i)' = Name(i)
             /\ Exposed(i)' => Exposed(i)
  BY <1>2, Zenon DEF TaskOf, Name, Exposed
<1>7. OneHandler'
  BY <1>2, <1>3, <1>5, Zenon DEF OwnerInv, OneHandler
<1>8. KeyWhileHeld'
  BY <1>2, <1>3, <1>5, <1>6, Zenon DEF OwnerInv, KeyWhileHeld
<1>9. BatchOver' /\ KnownWhileWorking' /\ ExtenderJustified'
  <2>1. BatchOver'
    BY <1>2, Zenon DEF OwnerInv, BatchOver
  <2>2. \A e \in exts : e.c \in Consumers
    BY <1>0, Zenon DEF TypeOK, HandlerType
  <2>3. \A e \in exts : Works(e.c, e.i)' \/ Finishes(e.c, e.i)' \/ TaskOf(e.i)' \in done'
    BY <1>2, <1>3, <1>6, <2>2, Zenon DEF OwnerInv, ExtenderJustified
  <2>4. KnownWhileWorking'
    BY <1>2, <1>3, <1>6, Zenon DEF OwnerInv, KnownWhileWorking
  <2>5. ExtenderJustified'
    BY <1>2, <1>3, <1>6, <2>2, <2>3, Zenon DEF OwnerInv, ExtenderJustified
  <2> QED BY <2>1, <2>4, <2>5, Zenon
<1> QED BY <1>7, <1>8, <1>9, Zenon DEF OwnerInv

\* The XDEL and the Unlock of DoneStream are about an entry nobody handles.
LEMMA OwnerDoneEnd ==
  ASSUME OnTime, NEW k \in calls, DoneDel(k) \/ DoneUnlock(k),
         UNCHANGED <<recVars, crashes>>
  PROVE  OwnerStays
<1> SUFFICES ASSUME IInv, OwnerInv PROVE OwnerInv'
  BY Zenon DEF OwnerStays
<1> DEFINE n == k.i
           m == [c |-> k.c, i |-> n, pc |-> "unlock"]
<1>0. TypeOK /\ n \in 1 .. delivered /\ k.pc # "ack" /\ n \notin pel
  BY Zenon DEF DoneDel, DoneUnlock, IInv, TypeOK, HandlerType, HandlerFacts
<1>1. /\ UNCHANGED <<log, delivered, pel, idle, done, rec, expired, rd, streamLocks, exts, working>>
      /\ locks' = locks \/ locks' = locks \ {n}
      /\ calls' = calls \ {k} \/ calls' = (calls \ {k}) \cup {m}
  BY Zenon DEF DoneDel, DoneUnlock, Proceed, EndCall, recVars
<1> HIDE DEF n
<1>2. \A c \in Consumers : \A i : /\ Reads(c, i)' <=> Reads(c, i)
                                  /\ Offers(c, i)' <=> Offers(c, i)
                                  /\ Works(c, i)' <=> Works(c, i)
                                  /\ Finishes(c, i)' <=> Finishes(c, i)
  <2>1. \A c, i : /\ Reads(c, i)' <=> Reads(c, i)
                  /\ Offers(c, i)' <=> Offers(c, i)
                  /\ Works(c, i)' <=> Works(c, i)
    BY <1>1, Zenon DEF Reads, Offers, Works
  <2>2. \A c, i : Finishes(c, i)' <=> Finishes(c, i)
    <3>1. m.pc = "unlock" /\ \A c, i : [c |-> c, i |-> i, pc |-> "ack"].pc = "ack"
      BY Zenon
    <3> HIDE DEF m
    <3>2. \A c, i : /\ [c |-> c, i |-> i, pc |-> "ack"] # m
                    /\ [c |-> c, i |-> i, pc |-> "ack"] # k
      BY <1>0, <3>1, Zenon
    <3>3. \A x : x # m /\ x # k => (x \in calls' <=> x \in calls)
      BY <1>1, Zenon
    <3> QED BY <3>2, <3>3, Zenon DEF Finishes
  <2> QED BY <2>1, <2>2, Zenon
<1>3. \A c \in Consumers : \A i : (Holds(c, i)' <=> Holds(c, i)) /\ (Handles(c, i)' <=> Handles(c, i))
  BY <1>2, Zenon DEF Holds, Handles
<1>4. \A i : /\ TaskOf(i)' = TaskOf(i)
             /\ Name(i)' = Name(i)
             /\ Exposed(i)' <=> Exposed(i)
  BY <1>1, Zenon DEF TaskOf, Name, Exposed
<1>5. \A c \in Consumers : ~Handles(c, n)
  BY <1>0, Zenon DEF OwnerInv, OneHandler
<1>6. OneHandler'
  BY <1>1, <1>2, <1>3, Zenon DEF OwnerInv, OneHandler
<1>7. KeyWhileHeld'
  BY <1>1, <1>2, <1>3, <1>4, <1>5, Zenon DEF OwnerInv, KeyWhileHeld, Handles
<1>8. BatchOver' /\ KnownWhileWorking' /\ ExtenderJustified'
  <2>1. \A e \in exts : e.c \in Consumers
    BY <1>0, Zenon DEF TypeOK, HandlerType
  <2>2. BatchOver'
    BY <1>1, Zenon DEF OwnerInv, BatchOver
  <2>3. KnownWhileWorking'
    BY <1>1, <1>2, <1>4, Zenon DEF OwnerInv, KnownWhileWorking
  <2>4. ExtenderJustified'
    BY <1>1, <1>2, <1>4, <2>1, Zenon DEF OwnerInv, ExtenderJustified
  <2> QED BY <2>2, <2>3, <2>4, Zenon
<1> QED BY <1>6, <1>7, <1>8, Zenon DEF OwnerInv

\* Every step of a consumer, with heartbeats on time.
LEMMA OwnerClient ==
  ASSUME OnTime, OwnStreams, ClientStep, UNCHANGED <<recVars, crashes>>
  PROVE  OwnerStays
<1> SUFFICES ASSUME IInv, OwnerInv PROVE OwnerInv'
  BY Zenon DEF OwnerStays
<1>0. TypeOK
  BY Zenon DEF IInv
<1>1. ASSUME NEW c \in Consumers, TerminateReader(c) PROVE OwnerInv'
  <2>1. /\ rd' = [rd EXCEPT ![c] = NoReader]
        /\ UNCHANGED <<lbsVars, streamLocks, exts, calls, working>>
    BY <1>1, Zenon DEF TerminateReader, OnTime, lbsVars
  <2> QED BY <1>0, <2>1, OwnerLeaveBatch, Zenon DEF KeepsOwner
<1>2. ASSUME NEW e \in exts, ExtendFails(e) \/ SendDisowned(e) PROVE OwnerInv'
  BY <1>2, Zenon DEF ExtendFails, SendDisowned, OnTime, OwnerInv, ExtenderJustified
<1>3. \A c \in Consumers : ~ReadFails(c)
  BY Zenon DEF ReadFails, OnTime
<1> QED BY Zenon, <1>0, <1>1, <1>2, <1>3, OwnerReadBatch, OwnerLockEntry, OwnerSendAdded, OwnerExtend,
           OwnerExtCleanup, OwnerFinish, OwnerDoneAck, OwnerDoneEnd
        DEF KeepsOwner, OwnerStays, ClientStep, ReaderStep, ExtenderStep, DoneStep

\* Every step of the system, with heartbeats on time.
LEMMA OwnerNext == ASSUME OnTime, OwnStreams PROVE IInv /\ OwnerInv /\ [Next]_vars => OwnerInv'
<1> SUFFICES ASSUME IInv, OwnerInv, [Next]_vars PROVE OwnerInv'
  BY Zenon
<1>0. TypeOK
  BY Zenon DEF IInv
<1>1. ASSUME NEW c \in Consumers, Restart(c) PROVE OwnerInv'
  BY <1>0, <1>1, OwnerLeaveBatch, Zenon DEF KeepsOwner, Restart
<1>2. ASSUME NEW r \in Recoverers, RecovererStep(r), UNCHANGED <<clientVars, crashes>>
      PROVE  OwnerInv'
  BY <1>0, <1>2, OwnerTakeUp, OwnerReQueue, Zenon DEF KeepsOwner, OwnerStays, RecovererStep
<1>3. CASE UNCHANGED vars
  BY <1>0, <1>3, OwnerFrame, Zenon DEF KeepsOwner, vars, lbsVars, recVars
<1> QED BY <1>0, <1>1, <1>2, <1>3, OwnerProduce, OwnerClient, OwnerTime, OwnerCrash DEF KeepsOwner, OwnerStays, Next

\* With heartbeats on time, for any number of tasks, consumers, recoverers,
\* retries and crashes: the lock key, the map entry, the extender and the
\* pending entry of what a live process handles stay in step.
THEOREM OwnershipKept == ASSUME OnTime, OwnStreams PROVE Spec => []OwnerInv
  BY Inductive, OwnerInit, OwnerNext, PTL DEF Spec

\* With heartbeats on time and one task per data stream name, no two consumers,
\* and no consumer twice, process the same data stream, whatever crashes.
THEOREM ExclusiveOwnership == ASSUME OnTime, OwnStreams PROVE Spec => []SingleProcessor
<1>1. IInv /\ OwnerInv => SingleProcessor
  <2> SUFFICES ASSUME IInv, OwnerInv, NEW v \in working, NEW w \in working,
                      Name(v[2]) = Name(w[2])
               PROVE  v = w
    BY Zenon DEF SingleProcessor
  <2>1. /\ v \in Consumers \X (1 .. delivered)
        /\ w \in Consumers \X (1 .. delivered)
    BY Zenon DEF IInv, TypeOK, HandlerType
  <2>2. /\ v[1] \in Consumers /\ v[2] \in 1 .. delivered /\ v = <<v[1], v[2]>>
        /\ w[1] \in Consumers /\ w[2] \in 1 .. delivered /\ w = <<w[1], w[2]>>
    BY <2>1
  <2>3. Works(v[1], v[2]) /\ Works(w[1], w[2])
    BY <2>2, Zenon DEF Works
  <2>4. Handles(v[1], v[2]) /\ Handles(w[1], w[2])
    BY <2>3, Zenon DEF Handles, Holds
  <2>5. v[2] \in pel /\ w[2] \in pel
    BY <2>2, <2>4, Zenon DEF OwnerInv, OneHandler
  <2>6. v[2] = w[2]
    BY <2>5, SameEntry, Zenon
  <2>7. v[1] = w[1]
    BY <2>2, <2>4, <2>6, Zenon DEF OwnerInv, OneHandler
  <2> QED BY <2>2, <2>6, <2>7, Zenon
<1> QED BY <1>1, Inductive, OwnershipKept, PTL

\* Who removes a pending entry: the XACK of a DoneStream call for it, or that
\* of a recoverer past its checks.
LEMMA WhoAcks ==
  ASSUME IInv, [Next]_vars, NEW i \in pel, i \notin pel'
  PROVE  \/ \E k \in calls : k.i = i /\ DoneAck(k)
         \/ \E r \in Recoverers : rec[r].i = i /\ rec[r].pc \in {"ack", "dlqack"}
<1>1. CASE ClientStep
  <2>1. \A c \in Consumers : ~ReaderStep(c)
    BY Zenon DEF ReaderStep, ReadBatch, ReadFails, XReadGroup, LockEntry, TerminateReader, SendAdded,
                 lbsVars
  <2>2. \A e \in exts : ~ExtenderStep(e)
    BY Zenon DEF ExtenderStep, ExtCheck, Extend, ExtendFails, SendDisowned, ExtCleanup, lbsVars
  <2>3. \A w \in working : ~FinishStream(w[1], w[2])
    BY Zenon DEF FinishStream, lbsVars
  <2>4. PICK k \in calls : DoneStep(k)
    BY <1>1, <2>1, <2>2, <2>3, Zenon DEF ClientStep
  <2>5. DoneAck(k)
    BY <2>4, Zenon DEF DoneStep, DoneDel, DoneUnlock
  <2>6. k.i = i
    BY <2>5, Zenon DEF DoneAck, AckDone, XAck
  <2> QED BY <2>5, <2>6, Zenon
<1>2. CASE \E r \in Recoverers : RecovererStep(r)
  <2>1. PICK r \in Recoverers : RecovererStep(r)
    BY <1>2, Zenon
  <2>2. AckRemoved(r) \/ ReQueueAck(r) \/ DLQAck(r)
    BY <2>1, Zenon DEF RecovererStep, StartScan, NextPending, Claim, ReQueueStep, ReadEntry, CheckOwner,
                ReQueueAdd, DLQAdd, DelOriginal, lbsVars
  <2>3. rec[r].i = i
    BY <2>2, Zenon DEF AckRemoved, ReQueueAck, DLQAck, AckFirst, XAck
  <2>4. ~AckRemoved(r)
    BY <2>3, Zenon DEF AckRemoved, IInv, PendingHasPayload
  <2> QED BY <2>2, <2>3, <2>4, Zenon DEF ReQueueAck, DLQAck, AckFirst, At
<1>3. pel' = pel \/ ClientStep \/ \E r \in Recoverers : RecovererStep(r)
  BY Zenon DEF Next, Produce, BecomeIdle, ExpireLock, Crash, Restart, vars, lbsVars
<1> QED BY <1>1, <1>2, <1>3, Zenon

\* DoneStream acknowledges before it unlocks, so with heartbeats on time no
\* recoverer takes an entry while a DoneStream call is running for it.
THEOREM FinishedStaysFinished ==
  ASSUME OnTime, OwnStreams PROVE Spec => FinishedNotRequeued
<1>1. IInv /\ OwnerInv /\ [Next]_vars =>
        [\A k \in calls : k.i \in pel /\ k.i \notin pel' => k \notin calls' \/ ~up'[k.c]]_vars
  <2> SUFFICES ASSUME IInv, OwnerInv, [Next]_vars,
                      NEW k \in calls, k.i \in pel, k.i \notin pel'
               PROVE  k \notin calls'
    BY Zenon
  <2>1. /\ k.c \in Consumers /\ k.i \in 1 .. delivered
        /\ k = [c |-> k.c, i |-> k.i, pc |-> "ack"]
    <3>1. k \in [c : Consumers, i : 1 .. delivered, pc : {"ack", "del", "unlock"}]
      BY Zenon DEF IInv, TypeOK, HandlerType
    <3>2. k.pc = "ack"
      BY Zenon DEF IInv, HandlerFacts
    <3> QED BY <3>1, <3>2, Zenon
  <2>2. Handles(k.c, k.i)
    BY <2>1, Zenon DEF Handles, Holds, Finishes
  <2>3. PICK m \in calls : m.i = k.i /\ DoneAck(m)
    BY <2>1, <2>2, WhoAcks, Zenon DEF OwnerInv, OneHandler
  <2>4. /\ m.c \in Consumers
        /\ m = [c |-> m.c, i |-> k.i, pc |-> "ack"]
    <3>1. m \in [c : Consumers, i : 1 .. delivered, pc : {"ack", "del", "unlock"}]
      BY Zenon DEF IInv, TypeOK, HandlerType
    <3>2. m.pc = "ack"
      BY <2>3, Zenon DEF DoneAck
    <3> QED BY <2>3, <3>1, <3>2, Zenon
  <2>5. Handles(m.c, k.i)
    BY <2>4, Zenon DEF Handles, Holds, Finishes
  <2>6. m = k
    BY <2>1, <2>2, <2>4, <2>5, Zenon DEF OwnerInv, OneHandler
  <2>7. calls' = calls \ {k} \/ calls' = (calls \ {k}) \cup {[c |-> k.c, i |-> k.i, pc |-> "del"]}
    BY <2>3, <2>6, Zenon DEF DoneAck, Proceed, EndCall
  <2> QED BY <2>1, <2>7
<1> QED BY <1>1, Inductive, OwnershipKept, PTL DEF Spec, FinishedNotRequeued

\* With heartbeats on time a recoverer takes no entry that a live process has
\* in its batch or works on: such an entry leaves the PEL only finished.
THEOREM AliveUndisturbed ==
  ASSUME OnTime, OwnStreams PROVE Spec => AliveNotDisturbed
<1>1. IInv /\ OwnerInv /\ [Next]_vars =>
        [\A c \in Consumers, i \in pel :
           i \notin pel' /\ (i \in rd[c].cur .. rd[c].last \/ <<c, i>> \in working)
             => TaskOf(i) \in done']_vars
  <2> SUFFICES ASSUME IInv, OwnerInv, [Next]_vars, NEW c \in Consumers, NEW i \in pel,
                      i \notin pel', i \in rd[c].cur .. rd[c].last \/ <<c, i>> \in working
               PROVE  TaskOf(i) \in done'
    BY Zenon
  <2>1. Handles(c, i)
    BY Zenon DEF Handles, Holds, Reads, Works
  <2>2. i \in 1 .. delivered
    BY Zenon DEF IInv, TypeOK, LBSType
  <2>3. PICK k \in calls : k.i = i /\ DoneAck(k)
    BY <2>1, <2>2, WhoAcks, Zenon DEF OwnerInv, OneHandler
  <2> QED BY <2>3, Zenon DEF DoneAck, AckDone, OnTime
<1> QED BY <1>1, Inductive, OwnershipKept, PTL DEF Spec, AliveNotDisturbed
============================================================================
