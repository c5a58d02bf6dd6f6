-------------------------------- MODULE LBS --------------------------------
(***************************************************************************)
(* The Redis side of the library: the load balancer stream (LBS) with its  *)
(* consumer group, the lock keys and the dead letter queue, and the        *)
(* commands the client sends to them.  Redis executes one command at a     *)
(* time, so each operator below is one atomic effect.                      *)
(*                                                                         *)
(* An LBS entry ID is the position of its XADD in `log': Redis hands out   *)
(* increasing IDs and never reuses one.  A task is what a producer adds    *)
(* once; a re-queue adds another entry (a copy) for the same task.  The    *)
(* lock key <stream name, entry ID> is identified with the entry ID, which *)
(* determines it.                                                          *)
(***************************************************************************)
EXTENDS Integers, Sequences, FiniteSets

CONSTANTS
  Tasks,     \* the tasks producers may add
  Streams,   \* data stream names
  StreamOf,  \* the DataStreamName in the payload of each task
  Poison     \* the tasks whose payload cannot be parsed

ASSUME TaskAssumption == /\ StreamOf \in [Tasks -> Streams]
                         /\ Poison \subseteq Tasks

VARIABLES
  log,        \* every entry ever added to the LBS: its task and _retry_count
  deleted,    \* IDs removed from the LBS by XDEL
  delivered,  \* last-delivered-id of the consumer group
  pel,        \* pending entries list: delivered and not acknowledged
  idle,       \* the pending IDs whose idle time has reached MinIdleTime
  locks,      \* IDs whose lock key exists
  dlq,        \* every entry ever added to the dead letter queue
  done,       \* history: tasks whose pending entry was acknowledged by DoneStream
  lost        \* history: tasks acknowledged by a recoverer and not re-added

lbsVars == <<log, deleted, delivered, pel, idle, locks, dlq, done, lost>>

Ids == DOMAIN log

TaskOf(i) == log[i].task

Name(i) == StreamOf[TaskOf(i)]

(***************************************************************************)
(* Commands.                                                               *)
(***************************************************************************)
XAdd(t, n) ==
  log' = Append(log, [task |-> t, retry |-> n])

\* XREADGROUP with ID ">" and no COUNT hands out every undelivered entry.
XReadGroup ==
  /\ delivered' = Len(log)
  /\ pel' = pel \cup (delivered + 1 .. Len(log))

XAck(i) ==
  /\ pel' = pel \ {i}
  /\ idle' = idle \ {i}

XDel(i) ==
  deleted' = deleted \cup {i}

\* Mutant: XPENDING without IDLE.
XPendingAny(n) ==
  {i \in pel : Cardinality({j \in pel : j < i}) < n}

\* XPENDING ... IDLE MinIdleTime - + n: the n oldest idle entries of the PEL.
XPending(n) ==
  {i \in idle : Cardinality({j \in idle : j < i}) < n}

\* The first Init has created the group, from "$": it starts with the entries
\* added after that.  What a producer added before is never delivered to it.
LBSInit ==
  /\ log = <<>>
  /\ deleted = {}
  /\ delivered = 0
  /\ pel = {}
  /\ idle = {}
  /\ locks = {}
  /\ dlq = <<>>
  /\ done = {}
  /\ lost = {}

(***************************************************************************)
(* A producer adds a task once.  It adds a data stream name again only     *)
(* when the earlier task for that name has left the system: a data stream  *)
(* is owned by one consumer at a time.                                     *)
(***************************************************************************)
InDLQ == {dlq[k].task : k \in DOMAIN dlq}

Added == {TaskOf(i) : i \in Ids}

Produce(t) ==
  /\ t \notin Added
  /\ \A u \in Added : StreamOf[u] = StreamOf[t] => u \in done \cup lost \cup InDLQ
  /\ XAdd(t, 0)
  /\ UNCHANGED <<deleted, delivered, pel, idle, locks, dlq, done, lost>>
=============================================================================
