------------------------------ MODULE ReQueue ------------------------------
(***************************************************************************)
(* Recovery of the work of dead consumers: the reconciliation loop of each *)
(* consumer (a scanner) and the Claim calls an application makes when it   *)
(* is told that a lock key expired (a claimer).  Both run reQueue, whose   *)
(* Redis calls interleave with everything else.                            *)
(***************************************************************************)
EXTENDS StreamClient

CONSTANTS
  Scanners,    \* the reconciliation goroutines
  Claimers,    \* the application goroutines that call Claim
  Host,        \* the consumer each of them runs in
  MaxRetries,  \* RecoveryConfig.MaxRetries
  BatchSize,   \* RecoveryConfig.BatchSize
  Backpressure,  \* Send may block for longer than a lock key or MinIdleTime lasts
  MaxStalls      \* bound on the times a live process is too slow in another way

Recoverers == Scanners \cup Claimers

ASSUME RecoveryAssumption == /\ Host \in [Recoverers -> Consumers]
                             /\ Scanners \cap Claimers = {}
                             /\ MaxRetries \in Nat
                             /\ BatchSize \in Nat \ {0}
                             /\ Backpressure \in BOOLEAN
                             /\ MaxStalls \in Nat

VARIABLES
  rec,     \* rec[r]: where r is in reQueue, on which entry, and what is left of its scan
  expired, \* <<c, i>>: the application of c has been sent StreamExpired for entry i
  stalls   \* how often a live process was too slow

recVars == <<rec, expired, stalls>>

Resting == [pc |-> "rest", i |-> 0, todo |-> {}]

RecInit ==
  /\ rec = [r \in Recoverers |-> Resting]
  /\ expired = {}
  /\ stalls = 0

(***************************************************************************)
(* Time.  An entry becomes eligible for the scan when it has been pending  *)
(* for MinIdleTime, and a lock key expires when it has not been extended.  *)
(* While a live process is still handling the entry this takes a stall of  *)
(* that process: a long pause, a slow network.  With Backpressure, waiting *)
(* in Send for the application to read its channel is no stall.            *)
(***************************************************************************)
Stall(slow) ==
  stalls' = (IF slow THEN stalls + 1 ELSE stalls) /\ stalls' <= MaxStalls

InSend(c) == Backpressure /\ rd[c].pc = "send"

BecomeIdle(i) ==
  /\ i \in pel \ idle
  /\ Stall(\E c \in Consumers : i \in rd[c].cur .. rd[c].last /\ ~InSend(c))
  /\ idle' = idle \cup {i}
  /\ UNCHANGED <<log, deleted, delivered, pel, locks, dlq, done, lost, rec, expired>>

\* An expiry event is published: each running consumer gets it or misses it
\* (publish/subscribe, full channel).  Only applications that call Claim care.
Published(i) ==
  LET listening == {c \in {Host[r] : r \in Claimers} : up[c]} IN
  {expired \cup {<<c, i>> : c \in told} : told \in SUBSET listening}

\* listenKsp passes what it gets on to the application.
ExpireLock(i) ==
  /\ i \in locks
  /\ Stall(\/ \E e \in exts : e.i = i
           \/ \E k \in calls : k.i = i
           \/ \E c \in Consumers : rd[c].pc = "send" /\ rd[c].cur = i /\ ~InSend(c))
  /\ locks' = locks \ {i}
  /\ expired' \in Published(i)
  /\ UNCHANGED <<log, deleted, delivered, pel, idle, dlq, done, lost, rec>>

(***************************************************************************)
(* reconcileLBS and Claim.                                                 *)
(***************************************************************************)
StartScan(r) ==
  /\ r \in Scanners
  /\ up[Host[r]]
  /\ rec[r].pc = "rest"
  /\ XPending(BatchSize) # {}
  /\ rec' = [rec EXCEPT ![r] = [pc |-> "loop", i |-> 0, todo |-> XPending(BatchSize)]]
  /\ UNCHANGED <<lbsVars, expired, stalls>>

\* Mutant: the goroutine does not go back to its timer after a scan.
NextPendingOnce(r) ==
  /\ rec[r].pc = "loop"
  /\ \E i \in rec[r].todo :
       /\ \A j \in rec[r].todo : i <= j
       /\ rec' = [rec EXCEPT ![r] = [pc |-> "range", i |-> i, todo |-> rec[r].todo \ {i}]]
  /\ UNCHANGED <<lbsVars, expired, stalls>>

NextPending(r) ==
  /\ rec[r].pc = "loop"
  /\ \/ /\ rec[r].todo = {}
        /\ rec' = [rec EXCEPT ![r] = Resting]
     \/ \E i \in rec[r].todo :
          /\ \A j \in rec[r].todo : i <= j
          /\ rec' = [rec EXCEPT ![r] = [pc |-> "range", i |-> i, todo |-> rec[r].todo \ {i}]]
  /\ UNCHANGED <<lbsVars, expired, stalls>>

Claim(r) ==
  /\ r \in Claimers
  /\ rec[r].pc = "rest"
  /\ \E i \in Ids :
       /\ <<Host[r], i>> \in expired
       /\ expired' = expired \ {<<Host[r], i>>}
       /\ rec' = [rec EXCEPT ![r] = [pc |-> "range", i |-> i, todo |-> {}]]
  /\ UNCHANGED <<lbsVars, stalls>>

(***************************************************************************)
(* reQueue and routeToDLQ, one Redis call per step.                        *)
(***************************************************************************)
At(r, pc) == rec[r].pc = pc

Step(r, pc) ==
  rec' = [rec EXCEPT ![r] = [pc |-> pc, i |-> rec[r].i, todo |-> rec[r].todo]]

\* reQueue returns: the scan goes on to its next entry, Claim returns.
Return(r) == rec' = [rec EXCEPT ![r] = IF r \in Scanners
                                       THEN [pc |-> "loop", i |-> 0, todo |-> rec[r].todo]
                                       ELSE Resting]

\* XRANGE finds the entry; one that cannot be parsed goes straight to the DLQ.
ReadEntry(r) ==
  /\ At(r, "range")
  /\ \/ /\ rec[r].i \notin deleted
        /\ Step(r, IF TaskOf(rec[r].i) \in Poison THEN "dlqack" ELSE "exists")
     \/ Faulty /\ Return(r)
  /\ UNCHANGED <<lbsVars, expired, stalls>>

\* XRANGE finds nothing, which is final; the XACK that follows may fail.
AckRemoved(r) ==
  /\ At(r, "range")
  /\ rec[r].i \in deleted
  /\ XAck(rec[r].i) \/ (Faulty /\ UNCHANGED <<pel, idle>>)
  /\ Return(r)
  /\ UNCHANGED <<log, deleted, delivered, locks, dlq, done, lost, expired, stalls>>

OwnerAlive(i) == i \in locks

\* Mutants: no liveness check; one retry too many.
CheckOwnerBlind(r) ==
  /\ At(r, "exists")
  /\ Step(r, IF log[rec[r].i].retry + 1 > MaxRetries THEN "dlqack" ELSE "ack")
  /\ UNCHANGED <<lbsVars, expired, stalls>>

CheckOwnerGenerous(r) ==
  /\ At(r, "exists")
  /\ \/ OwnerAlive(rec[r].i) /\ Return(r)
     \/ /\ ~OwnerAlive(rec[r].i)
        /\ Step(r, IF log[rec[r].i].retry > MaxRetries THEN "dlqack" ELSE "ack")
  /\ UNCHANGED <<lbsVars, expired, stalls>>

\* ownerAlive, then the retry count decides where the entry goes.
CheckOwner(r) ==
  /\ At(r, "exists")
  /\ \/ /\ OwnerAlive(rec[r].i)
        /\ Return(r)
     \/ /\ ~OwnerAlive(rec[r].i)
        /\ Step(r, IF log[rec[r].i].retry + 1 > MaxRetries THEN "dlqack" ELSE "ack")
     \/ Faulty /\ Return(r)
  /\ UNCHANGED <<lbsVars, expired, stalls>>

\* Mutant: the number of entries acknowledged is not looked at.
AckUncounted(r, at, next) ==
  /\ At(r, at)
  /\ XAck(rec[r].i)
  /\ Step(r, next)
  /\ UNCHANGED <<log, deleted, delivered, locks, dlq, done, lost, expired, stalls>>

\* XACK first: the recoverer whose XACK removes the entry goes on.  When the
\* reply is lost after that, nobody will re-add the task.
AckFirst(r, at, next) ==
  /\ At(r, at)
  /\ \/ /\ rec[r].i \in pel
        /\ XAck(rec[r].i)
        /\ \/ Step(r, next) /\ UNCHANGED lost
           \/ Faulty /\ Return(r) /\ lost' = lost \cup {TaskOf(rec[r].i)}
     \/ /\ rec[r].i \notin pel \/ Faulty
        /\ Return(r)
        /\ UNCHANGED <<pel, idle, lost>>
  /\ UNCHANGED <<log, deleted, delivered, locks, dlq, done, expired, stalls>>

ReQueueAck(r) == AckFirst(r, "ack", "add")

\* Mutant: the entry is acknowledged and dropped.
DLQAckDrops(r) ==
  /\ At(r, "dlqack")
  /\ XAck(rec[r].i)
  /\ Return(r)
  /\ UNCHANGED <<log, deleted, delivered, locks, dlq, done, lost, expired, stalls>>

DLQAck(r) == AckFirst(r, "dlqack", "dlqadd")

\* Mutant: the copy carries the old retry count.
ReQueueAddSame(r) ==
  /\ At(r, "add")
  /\ XAdd(TaskOf(rec[r].i), log[rec[r].i].retry)
  /\ Step(r, "del")
  /\ UNCHANGED <<lost, deleted, delivered, pel, idle, locks, dlq, done, expired, stalls>>

ReQueueAdd(r) ==
  /\ At(r, "add")
  /\ \/ /\ XAdd(TaskOf(rec[r].i), log[rec[r].i].retry + 1)
        /\ UNCHANGED lost
        /\ Step(r, "del") \/ (Faulty /\ Return(r))
     \/ /\ Faulty
        /\ lost' = lost \cup {TaskOf(rec[r].i)}
        /\ UNCHANGED log
        /\ Return(r)
  /\ UNCHANGED <<deleted, delivered, pel, idle, locks, dlq, done, expired, stalls>>

\* The DLQ entry carries the retry count of an unparseable entry unchanged.
DLQEntry(i) ==
  [task |-> TaskOf(i),
   retry |-> IF TaskOf(i) \in Poison THEN log[i].retry ELSE log[i].retry + 1]

DLQAdd(r) ==
  /\ At(r, "dlqadd")
  /\ \/ /\ dlq' = Append(dlq, DLQEntry(rec[r].i))
        /\ UNCHANGED lost
        /\ Step(r, "del") \/ (Faulty /\ Return(r))
     \/ /\ Faulty
        /\ lost' = lost \cup {TaskOf(rec[r].i)}
        /\ UNCHANGED dlq
        /\ Return(r)
  /\ UNCHANGED <<log, deleted, delivered, pel, idle, locks, done, expired, stalls>>

\* Mutant: the ID that XADD returned is deleted, not the original one.
DelCopy(r) ==
  /\ At(r, "del")
  /\ XDel(Len(log))
  /\ Return(r)
  /\ UNCHANGED <<log, delivered, pel, idle, locks, dlq, done, lost, expired, stalls>>

\* An XDEL that fails is only logged.
DelOriginal(r) ==
  /\ At(r, "del")
  /\ XDel(rec[r].i) \/ (Faulty /\ UNCHANGED deleted)
  /\ Return(r)
  /\ UNCHANGED <<log, delivered, pel, idle, locks, dlq, done, lost, expired, stalls>>

ReQueueStep(r) ==
  \/ ReadEntry(r) \/ AckRemoved(r) \/ CheckOwner(r)
  \/ ReQueueAck(r) \/ ReQueueAdd(r)
  \/ DLQAck(r) \/ DLQAdd(r)
  \/ DelOriginal(r)

RecovererStep(r) == StartScan(r) \/ NextPending(r) \/ Claim(r) \/ ReQueueStep(r)

InHand(r) == rec[r].pc \in {"add", "dlqadd"}
=============================================================================
