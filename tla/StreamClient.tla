---------------------------- MODULE StreamClient ----------------------------
(***************************************************************************)
(* One consumer process: the goroutine that reads the LBS and locks what   *)
(* it reads, one goroutine per stream that extends the lock, and the calls *)
(* of DoneStream the application makes.  Notifications reach the           *)
(* application when they are sent: `working' is what the application has   *)
(* been given and has neither finished nor been told to stop.              *)
(***************************************************************************)
EXTENDS LBS

CONSTANTS
  Consumers,
  Faulty,        \* Redis calls may fail
  LongLived      \* tasks whose application never calls DoneStream

ASSUME ClientAssumption == /\ Faulty \in BOOLEAN
                           /\ LongLived \subseteq Tasks

VARIABLES
  up,           \* up[c]: the process of c is running
  rd,           \* rd[c]: the LBS reader; cur .. last is the rest of its batch
  streamLocks,  \* streamLocks[c][s]: the entry ID under s in the map, 0 if none
  exts,         \* the running startExtendingKey goroutines
  calls,        \* the DoneStream calls in progress, after the pop
  working       \* <<c, i>>: the application of c processes entry i

clientVars == <<up, rd, streamLocks, exts, calls, working>>

IsStreamProcessingDone(c, s) == streamLocks[c][s] = 0

PopStreamLocksInfo(c, s) == streamLocks' = [streamLocks EXCEPT ![c][s] = 0]

NoReader == [pc |-> "dead", cur |-> 1, last |-> 0]
NewReader == [pc |-> "read", cur |-> 1, last |-> 0]

ClientInit ==
  /\ up = [c \in Consumers |-> TRUE]
  /\ rd = [c \in Consumers |-> NewReader]
  /\ streamLocks = [c \in Consumers |-> [s \in Streams |-> 0]]
  /\ exts = {}
  /\ calls = {}
  /\ working = {}

(***************************************************************************)
(* readLBSStream / processLBSMessages.  The reader works through its batch *)
(* in order; on an entry it cannot parse or lock it terminates and leaves  *)
(* the rest of the batch pending and unlocked.                             *)
(***************************************************************************)
ReadBatch(c) ==
  /\ rd[c].pc = "read"
  /\ delivered < Len(log)
  /\ XReadGroup
  /\ rd' = [rd EXCEPT ![c] = [pc |-> "lock", cur |-> delivered + 1, last |-> Len(log)]]
  /\ UNCHANGED <<log, deleted, idle, locks, dlq, done, lost,
                 up, streamLocks, exts, calls, working>>

\* XREADGROUP fails, or is executed and its reply is lost: what it handed out
\* is pending and in nobody's batch.  The reader tries again or gives up.
ReadFails(c) ==
  /\ rd[c].pc = "read"
  /\ Faulty
  /\ XReadGroup \/ UNCHANGED <<delivered, pel>>
  /\ rd' \in {rd, [rd EXCEPT ![c] = NoReader]}
  /\ UNCHANGED <<log, deleted, idle, locks, dlq, done, lost,
                 up, streamLocks, exts, calls, working>>

\* The lock key of a new entry cannot exist, so Lock fails only with an error.
LockEntry(c) ==
  /\ rd[c].pc = "lock"
  /\ TaskOf(rd[c].cur) \notin Poison
  /\ locks' = locks \cup {rd[c].cur}
  /\ streamLocks' = [streamLocks EXCEPT ![c][Name(rd[c].cur)] = rd[c].cur]
  /\ rd' = [rd EXCEPT ![c].pc = "send"]
  /\ UNCHANGED <<log, deleted, delivered, pel, idle, dlq, done, lost,
                 up, exts, calls, working>>

TerminateReader(c) ==
  /\ rd[c].pc = "lock"
  /\ \/ /\ TaskOf(rd[c].cur) \in Poison
        /\ UNCHANGED locks
     \/ /\ TaskOf(rd[c].cur) \notin Poison
        /\ Faulty
        /\ locks' \in {locks, locks \cup {rd[c].cur}}
  /\ rd' = [rd EXCEPT ![c] = NoReader]
  /\ UNCHANGED <<log, deleted, delivered, pel, idle, dlq, done, lost,
                 up, streamLocks, exts, calls, working>>

\* Send(StreamAdded) returns, possibly after blocking on a full channel; only
\* then is the goroutine that extends the lock started.
SendAdded(c) ==
  /\ rd[c].pc = "send"
  /\ working' = working \cup {<<c, rd[c].cur>>}
  /\ exts' = exts \cup {[c |-> c, i |-> rd[c].cur, pc |-> "check"]}
  /\ rd' = [rd EXCEPT ![c] = IF rd[c].cur = rd[c].last THEN NewReader
                             ELSE [pc |-> "lock", cur |-> rd[c].cur + 1, last |-> rd[c].last]]
  /\ UNCHANGED <<lbsVars, up, streamLocks, calls>>

(***************************************************************************)
(* startExtendingKey.  Whether to go on is decided by looking up the       *)
(* stream NAME in the map; the key extended is the one of entry e.i.       *)
(***************************************************************************)
Goto(e, pc) == exts' = (exts \ {e}) \cup {[c |-> e.c, i |-> e.i, pc |-> pc]}

\* Mutant: DoneStream does not stop the extender.
ExtCheckNever(e) ==
  /\ e.pc = "check"
  /\ Goto(e, "extend")
  /\ UNCHANGED <<lbsVars, up, rd, streamLocks, calls, working>>

ExtCheck(e) ==
  /\ e.pc = "check"
  /\ Goto(e, IF IsStreamProcessingDone(e.c, Name(e.i)) THEN "cleanup" ELSE "extend")
  /\ UNCHANGED <<lbsVars, up, rd, streamLocks, calls, working>>

\* WithSetNXOnExtend: an expired key is set again.
Extend(e) ==
  /\ e.pc = "extend"
  /\ locks' = locks \cup {e.i}
  /\ Goto(e, "check")
  /\ UNCHANGED <<log, deleted, delivered, pel, idle, dlq, done, lost,
                 up, rd, streamLocks, calls, working>>

\* Extend reports failure on a Redis error, or when the call itself took longer
\* than the expiry of the key; it may have been executed in both cases.
ExtendFails(e) ==
  /\ e.pc = "extend"
  /\ Faulty
  /\ locks' \in {locks, locks \cup {e.i}}
  /\ Goto(e, "disown")
  /\ UNCHANGED <<log, deleted, delivered, pel, idle, dlq, done, lost,
                 up, rd, streamLocks, calls, working>>

SendDisowned(e) ==
  /\ e.pc = "disown"
  /\ working' = working \ {<<e.c, e.i>>}
  /\ Goto(e, "cleanup")
  /\ UNCHANGED <<lbsVars, up, rd, streamLocks, calls>>

\* The deferred pop, of whatever entry the map holds under the name by then.
ExtCleanup(e) ==
  /\ e.pc = "cleanup"
  /\ PopStreamLocksInfo(e.c, Name(e.i))
  /\ exts' = exts \ {e}
  /\ UNCHANGED <<lbsVars, up, rd, calls, working>>

(***************************************************************************)
(* DoneStream: pop the map entry, XACK, XDEL, Unlock.  A step that fails   *)
(* ends the call; the entry stays popped.                                  *)
(***************************************************************************)
\* Mutant: the lock is released before the XACK.
FinishStreamUnlocks(c, i) ==
  /\ <<c, i>> \in working
  /\ TaskOf(i) \notin LongLived
  /\ ~IsStreamProcessingDone(c, Name(i))
  /\ LET j == streamLocks[c][Name(i)] IN
       /\ calls' = calls \cup {[c |-> c, i |-> j, pc |-> "ack"]}
       /\ locks' = locks \ {j}
  /\ working' = working \ {<<c, i>>}
  /\ PopStreamLocksInfo(c, Name(i))
  /\ UNCHANGED <<log, deleted, delivered, pel, idle, dlq, done, lost, up, rd, exts>>

FinishStream(c, i) ==
  /\ <<c, i>> \in working
  /\ TaskOf(i) \notin LongLived
  /\ working' = working \ {<<c, i>>}
  /\ \/ /\ IsStreamProcessingDone(c, Name(i))
        /\ UNCHANGED <<calls, streamLocks>>
     \/ /\ ~IsStreamProcessingDone(c, Name(i))
        /\ calls' = calls \cup {[c |-> c, i |-> streamLocks[c][Name(i)], pc |-> "ack"]}
        /\ PopStreamLocksInfo(c, Name(i))
  /\ UNCHANGED <<lbsVars, up, rd, exts>>

Proceed(k, pc) == calls' = (calls \ {k}) \cup {[c |-> k.c, i |-> k.i, pc |-> pc]}

EndCall(k) == calls' = calls \ {k}

AckDone(k) ==
  /\ XAck(k.i)
  /\ done' = IF k.i \in pel THEN done \cup {TaskOf(k.i)} ELSE done

\* Mutant: a failed XACK is only logged.
DoneAckGoesOn(k) ==
  /\ k.pc = "ack"
  /\ AckDone(k) \/ (Faulty /\ UNCHANGED <<pel, idle, done>>)
  /\ Proceed(k, "del")
  /\ UNCHANGED <<log, deleted, delivered, locks, dlq, lost,
                 up, rd, streamLocks, exts, working>>

DoneAck(k) ==
  /\ k.pc = "ack"
  /\ \/ AckDone(k) /\ Proceed(k, "del")
     \/ Faulty /\ EndCall(k) /\ (AckDone(k) \/ UNCHANGED <<pel, idle, done>>)
  /\ UNCHANGED <<log, deleted, delivered, locks, dlq, lost,
                 up, rd, streamLocks, exts, working>>

DoneDel(k) ==
  /\ k.pc = "del"
  /\ \/ XDel(k.i) /\ Proceed(k, "unlock")
     \/ Faulty /\ EndCall(k) /\ (XDel(k.i) \/ UNCHANGED deleted)
  /\ UNCHANGED <<log, delivered, pel, idle, locks, dlq, done, lost,
                 up, rd, streamLocks, exts, working>>

\* Unlock of a key that has expired is not an error.
DoneUnlock(k) ==
  /\ k.pc = "unlock"
  /\ EndCall(k)
  /\ locks' = locks \ {k.i} \/ (Faulty /\ UNCHANGED locks)
  /\ UNCHANGED <<log, deleted, delivered, pel, idle, dlq, done, lost,
                 up, rd, streamLocks, exts, working>>

ReaderStep(c) == ReadBatch(c) \/ ReadFails(c) \/ LockEntry(c) \/ TerminateReader(c) \/ SendAdded(c)

ExtenderStep(e) == ExtCheck(e) \/ Extend(e) \/ ExtendFails(e) \/ SendDisowned(e) \/ ExtCleanup(e)

DoneStep(k) == DoneAck(k) \/ DoneDel(k) \/ DoneUnlock(k)

ClientStep ==
  \/ \E c \in Consumers : ReaderStep(c)
  \/ \E e \in exts : ExtenderStep(e)
  \/ \E w \in working : FinishStream(w[1], w[2])
  \/ \E k \in calls : DoneStep(k)
=============================================================================
