# A TLA+ verification of redis-stream-client-go

The library distributes *data streams* over a group of consumer processes.
Producers add one message per data stream to the **load balancer stream** (LBS);
a Redis consumer group hands each message to one consumer, which locks the
stream, tells its application, and extends the lock until the application calls
`DoneStream`. The work of a consumer that dies is recovered by a periodic scan
of the pending entries list (PEL) or by an application that calls `Claim`.

The modules here model that protocol one Redis command at a time; the life of
one client, from its options to the end of `Done`, one goroutine at a time; the
notification broker one channel operation at a time; and the subscriptions in a
Redis Cluster one node command at a time. TLC checks small instances. TLAPS
proves the safety properties of the protocol, of the broker and of the client
for every value of the constants, and that the protocol and the broker implement
their abstract specifications.

Paths below are relative to the repository root (`src/` here).

## 1. The parts

| Part | State | Operations | Hard behaviour | What should hold |
|---|---|---|---|---|
| LBS, group, lock keys, DLQ (Redis) | entries, last-delivered-id, PEL and idle times, keys, DLQ | XADD, XREADGROUP, XACK, XDEL, XPENDING, SET NX, EXISTS | commands of many processes interleave; a key expires | one live entry per task |
| LBS reader (`impl/init.go`) | rest of the batch, `streamLocks`, error counter, delay | `readLBSStream`, `processLBSMessages` | blocks in `Send`; strands its batch when it terminates; parked in XREADGROUP | a live consumer is not disturbed; gives up in time, and says so |
| Key extender (`impl/init.go`) | one goroutine per entry | `startExtendingKey` and its deferred cleanup | looks up a *name*, extends the key of an *entry*; re-creates an expired key | stops after `DoneStream`; no stream is forgotten |
| `DoneStream` (`impl/relredis.go`) | map entry, then three Redis calls | pop, XACK, XDEL, Unlock | any call may fail; the scan runs meanwhile | a finished task never comes back |
| Recovery (`impl/requeue.go`, `impl/init.go`) | what a recoverer has read and acknowledged | `reconcileLBS`, `Claim`, `reQueue`, `routeToDLQ` | several recoverers on one entry; crash between XACK and XADD | no duplicate, no resurrection, retry budget, everything settles |
| Keyspace events (`impl/init.go`, `notifs/lbsmsg.go`) | subscription, `kspChan` | `fanInPubSub`, `listenKsp`, the parsing of key and payload | lost events, full channel, names with the separator | recovery does not depend on them; an event names the right entry |
| Broker (`notifs/broker.go`) | two channels, flag, quit | `Send`, `run`, `Close` | `Send` racing `Close`; full channels | order, no loss, no panic, `Close` returns |
| Shutdown (`impl/relredis.go`, `impl/helpers.go`) | map snapshot, context, channels | `Done`, `cleanup` | streams come and go after the snapshot; early return; a second call | nothing is left running or locked |
| Topology (`impl/settled.go`, `impl/oss.go`) | per-master subscriptions | `Init`, `ReinitTopology`, `ensureClusterSettled` | topology changes after it was checked | one subscription per master |
| Configuration (`impl/recovery_config.go`, `impl/opts.go`, `configs/`) | settings | options, builder, `Validate`, `nextReconciliationDelay` | order of options, boundary values | what the recovery code relies on |
| Metrics, errors, notification types, examples | none that influences control | | | |

## 2. Modules

```
LBS                 Redis: log, PEL, idle, locks, DLQ; one operator per command; producers
 └ StreamClient        a consumer process: reader, extenders, DoneStream calls
    └ ReQueue             time, expiry events, scans, Claim, reQueue, routeToDLQ
       └ Recovery            whole system: crash, restart, fairness, properties
          ├ MCRecovery          instances for TLC
          └ RecoveryProofs      type correctness; producers and consumers keep IInv
             ├ TaskProofs          recoverers and crashes keep IInv; the theorems
             │  └ LifecycleProofs     Recovery implements TaskLifecycle
             └ OwnerLemmas         steps that keep OwnerInv by the types alone
                └ OwnerProofs         the other steps (with TaskProofs); exclusive ownership
TaskLifecycle       abstract: the life of a task; implemented by Recovery

BrokerContract      abstract: what a caller of Send and Close may rely on
NotificationBroker  the broker; implements BrokerContract
 └ BrokerProofs        order, closing, the refinement
ClientConfig        defaults, options, validation, the two delays
LBSInfo             lock keys, keyspace channels and their parsing
ClientLife          one client; extends BrokerContract, ClientConfig and LBSInfo
 ├ MCClientLife        instances for TLC
 └ ClientProofs        its theorems

Topology            settled check, per-master setup and subscriptions
 ├ MCTopology          its instance for TLC
 └ TopologyProofs      types, the number of subscriptions, never without one, and why
                       the settled check is enough
```

How the modules are composed: Recovery is the composition of Redis, any number
of consumer processes and their recoverers. ClientLife is the composition of the
goroutines inside one process with the broker. It uses the broker through
BrokerContract, which NotificationBroker is shown to implement, so the channels
of the broker do not multiply its states. The two levels divide the client
between them: what a Redis call does to *other* consumers is in Recovery, what
it does to the *other goroutines of the client* is in ClientLife.

### Recovery: state and code

- An entry ID is the position of its XADD in `log`; Redis never reuses an ID. A
  *task* is what a producer adds once; a re-queue adds a further entry for it.
  The lock key `<name, entry ID>` is identified with the entry ID.
- Time is abstracted: `idle` holds the pending IDs that have reached
  `MinIdleTime`, and a lock key expires when it was not extended. While a live
  goroutine is responsible for an entry, either takes a *stall* of its process,
  and `MaxStalls` bounds those. `MaxStalls = 0` means that heartbeats are on
  time. `Backpressure` says that a reader in `Send`, waiting for the application
  to read its channel, is in normal operation: what becomes idle or expires in its
  batch meanwhile takes no stall.
- `Faulty` lets every Redis call return an error, with its effect or without. An
  XREADGROUP that was executed and whose reply is lost (`ReadFails`) leaves pending
  entries that are in no batch.
- The model begins when the consumer group exists. `Init` creates it at `$`
  (`impl/relredis.go:183`), so entries added before the first `Init` are never
  delivered; they are no tasks of the model.
- `streamLocks[c][s]` is the map of the code, by stream name; `exts` and `calls`
  are the extenders and `DoneStream` calls in progress, with the entry they
  captured. `working` is what the application has been given and has neither
  finished nor been told to stop.
- `rec[r]` is where a recoverer is in `reQueue`; each Redis call is a step.
- `done` and `lost` are history variables: tasks whose entry `DoneStream`
  acknowledged while it was pending, and tasks a recoverer acknowledged and will
  not re-add. `dlq` keeps what was ever dead-lettered: the approximate MAXLEN
  trim is left out.
- A crash drops everything in the memory of a process. A restart is `Init` of a
  new process with the same consumer ID: it reads new entries only.
- `routeToDLQ` has a branch for an empty DLQ name. The constructor
  (`impl/relredis.go:142`) replaces an empty name by a default, which
  `ConfigUsable` checks in ClientLife, so the branch is not in ReQueue.

### ClientLife: state and code

- Every goroutine is a program counter: `reader` (`readLBSStream` and
  `processLBSMessages`), `extender[e]` (`startExtendingKey` of entry `e`),
  `listener` (`listenKsp`), `done[k]` (the k-th call of `Done`). A `Send` is two
  or three steps: it finds the broker closed, or it enters and is later accepted
  or refused. A `Send` carries the number of its goroutine, a `Close` the number
  of the call of `Done` that makes it.
- Entries have distinct stream names (equal names are a matter of Recovery), and
  Redis delivers them in order. Which entries come in one reply is decided when
  the reader comes to them.
- `streamLocks` is the set of entries in the map. `Done` copies it into
  `snapshot[k]` and works through `todo[k]`; each `DoneStream` is one step here.
  It returns at the first error, and may be called again after that.
- `shut` holds the closed flag of the broker, the context and the output. The
  context ends when the application cancels it or `cleanup` does.
- `kspChan` is bounded; an event that does not fit is dropped. `LBSInfo` parses
  an event as the code does: a stream name is a sequence of parts, because a name
  may contain the separator. An event that cannot be parsed is skipped.
- The parked XREADGROUP does not see a cancelled context; it ends when an entry
  comes or its connection does. The application closes its Redis client after
  `Done` has returned, as the examples do.
- `Lives` lists the lives that TLC explores: a client (its configuration), how
  many entries and expiry events there are, and which kinds of Redis calls may
  fail. Construction is explored for every list of at most two options.
- `failures` and `terminated` are history: failed reads since one succeeded, and
  that `StreamTerminated` was accepted.

### Broker and Topology: state and code

In the broker a message is the number of the `Send` that was accepted. A select
takes any ready case; a send case on a closed channel is ready, and panics. The
check of the closed flag and the select are separate steps, as are the default
case of the drain loop and the close that follows it. The contract hides the
channels: a `Send` that has entered is accepted, or refused once the broker is
closed or the context is done; a `Close` returns and closes the output. It keeps
the two panics of the code: of a `Send` that overlaps `Close`, and of a second
`Close`.

In Topology the cluster has a true slot ownership (`owner`) and one `view` per
node, which may be behind: a failover is known at once to the new master only,
and a node that was down comes back with the view it had and perhaps without its
keyspace config. `call[c]` is where a goroutine is in `Init` or
`ReinitTopology`; every command to a node, every `PSubscribe` and every
`closeAll` is a step. The cluster client is external: before each sweep over the
masters it loads the topology from any node that answers (the hazard that the
comment at `impl/relredis.go:323` describes). CLUSTER NODES is reduced to who
owns which slots, as `slotOwnership` does; all nodes are known to the client.
A node that is up may fail a single command too: CLUSTER INFO or NODES
(`AskFails`), and CONFIG GET or SET, with its effect or without (`EnableFails`).
Such a failure counts as one of the `MaxChanges`. A call is `quiet` as long as the
ownership stays, no node comes back and no node that is up fails one of its
commands.
`Init` is called once. Both results of `evaluateSettled` other than nil are
failures of the call, and are not told apart.

## 3. Runs

Deadlock is not checked because every part may rest: all tasks may have settled,
the broker may be closed, `Init` may have failed, `Done` may have returned.
Bounds are named constants: `MaxRetries`, `BatchSize`, `MaxStalls`, `MaxCrashes`,
`MaxSends`, `MaxChanges`, `MaxEntries`, `MaxErrors`, `MaxDone`, `KspCap`, `Lives`.

### Runs that pass

| Run | Instance | Shows |
|---|---|---|
| `errors` | 2 consumers, every call may fail, 1 crash, scan and Claim, 2 retries | the conjuncts of the inductive invariant; `ImplementsLifecycle` (refinement of TaskLifecycle) |
| `exclusive` | 2 consumers, 2 crashes, two scans and Claim, no stalls | `SingleProcessor` with the invariant `OwnerInv` behind it, `FinishedNotRequeued` |
| `settles` | 3 consumers, 2 tasks of which one is unparseable, 1 crash, `BatchSize` 2, fairness | every task settles as long as a reader is left, the unparseable one in the DLQ (`TaskSettles`, `NothingVanishes`); `AliveNotDisturbed`, `ExtendersStop` |
| `broker` | 3 senders, 2 callers of Close, cancellation, fairness | order, capacity, drain, no sender stays parked, `ImplementsContract` (refinement of BrokerContract, the return of every `Send` and `Close` included) |
| `life` | all lists of 2 options; 6 lives with up to 2 entries, 2 events, failing reads, locks, extensions, acknowledgements and unsubscriptions; cancellation; 2 calls of `Done`; fairness | see below |
| `topology` | 2 masters, 1 replica, 1 caller, 2 changes of the cluster or failed commands, `Done` before the first change (`DoneEarly`), fairness | `CoveredAfterSuccess`, `NeverDeaf`, `SubscriptionsBounded`, `EventuallyCovered` |

What `life` shows of one client:

- Configuration: whatever options were accepted in whatever order, the recovery
  code gets a batch size, a retry budget, a named DLQ and scan delays of at most
  1.1 intervals (`ConfigUsable`).
- Reading: the delays double from the initial one up to the maximum
  (`BackoffExact`); the reader gives up on the failure after the last retry,
  never earlier or later (`GivesUpInTime`), and the application is told
  (`GiveUpIsTold`).
- Keyspace events: a `StreamExpired` names the entry whose lock expired
  (`ExpiryNamesEntry`).
- The map: each of its entries has a goroutine that will pop it (`NoOrphan`).
- Shutdown: a `Done` without an error has acknowledged its whole snapshot
  (`DoneFinishesSnapshot`; a stream that disappears from the map meanwhile makes it
  return an error, see `done_aborts`), and then everything is released, entries that were
  read after the snapshot included (`DoneReleases`); `Done` returns, except in
  one race (`DoneReturns`, see section 4); a second `Done` closes the broker
  again only after a failed unsubscription (`NoSecondClose`); a cancelled context
  stops the reader unless it is parked in its read, the listener and the extenders
  (`CancelStops`). The broker's `run` and `fanInPubSub` do not see the context:
  they end with `Close` and with the subscription, both in `Done`.

Why the bounds are enough to be interesting: two recoverers and an owner are the
smallest set in which two can hold the same entry while a third finishes it;
`MaxRetries` 1 or 2 lets a task be re-queued and dead-lettered; two crashes with
one retry exhaust the budget; a batch of two is the smallest in which one entry
is locked while another is not, or in which an unparseable one strands the
other; three consumers are needed because each of the first two may lose its
reader, to the crash or to the unparseable entry. Three senders fill a channel
and leave one parked and one before its select; two callers of `Close` meet at
the output. Two entries are the smallest snapshot that `Done` can finish in part;
two events overflow a `kspChan` of one; three failed reads pass the limit of two
and reach the cap of the delay; a second `Done` needs a first that failed. Two
changes of the cluster are a failover and the failure or the return of a node, or
a failed command, in one call of `ReinitTopology`. A `Done` after a change of the cluster is left to
the proofs of the topology invariants: `EventuallyCovered` holds of every behaviour
with a `Done`, which nothing obliges the application to call. The lives of `life`
keep apart faults that do not meet: keyspace events come with failing
extensions, a second entry with failing locks and acknowledgements, and one
entry with all the faults but failing reads, which have lives of their own.

### Runs that contradict a statement in the docs

| Run | Property | Statement | What happens |
|---|---|---|---|
| `stale_owner` | `StaleExtendFails` | README.md:400, an old client "will fail to extend the lock" | the key expired in a stall and the task was re-queued; `WithSetNXOnExtend` (`impl/init.go:296`) sets the expired key again, which belongs to the old entry only, so `Extend` succeeds |
| `slow_reader` | `AliveNotDisturbed` | README.md:21, "slow-but-alive consumers are never disturbed" | blocked in `Send` (and stalled nowhere else), the reader has not locked the rest of its batch, which the scan re-queues; equally, it has not started the extender of the entry it is sending, whose key expires |
| `name_reused` | `SingleProcessor` | README.md:78, a stream is "exclusively owned by one consumer at a time" | the extender of a finished task pops the map entry of the next task with that name; its lock lapses |
| `scan_starves` | `TaskSettles` | docs/USAGE.md:119, the scan "recovers it regardless" | `BatchSize` entries of live owners at the head of the PEL hide all others from every scan |
| `broker_panic` | `NoPanic` | docs/CODEBASE_OVERVIEW.md:70, "No panics on send to closed channels" | a `Send` past its flag check meets the closed input |
| `done_aborts` | `DoneCleansUp` | impl/relredis.go:277, "It cleans up all the streams handled by the client" | the context is cancelled while `Done` works through its snapshot: an extender pops the next stream, `DoneStream` does not find it, and `Done` returns before `cleanup`; a `DoneStream` of the application beside `Done` is enough, too |

In `name_reused` the producer adds a stream name again only after the earlier
task of that name has left the system. The lookup by name also lets the extender
of the finished task run on when it finds the name in the map again.

### Fairness

`FairSpec` of Recovery: every goroutine of a live process that can take a step
does (Go's scheduler); a Redis call returns; the reconciliation loop scans again
and again; time passes, so that idle times and expiries are reached; an
application calls `DoneStream` for the streams outside `LongLived`. Nothing makes
a producer add a task, a process crash or restart, or an application call
`Claim`. All conditions are weak fairness. Extenders, calls and entries come and
go, so their conditions are stated per consumer and task.

`FairSpec` of the broker: goroutines that can run do, and the application keeps
reading its channel. `Close` without a reader may wait for ever.

`FairSpec` of ClientLife: weak fairness for each goroutine by itself, with the
`Send` it is in (the broker's contract, so again an application that reads). The
parked read is only forced to end once the Redis client is closed, which the
application does after `Done` has returned. Nothing forces an entry to be
delivered, an event to fire, an extension to fail, a stream to be finished,
`Done` to be called or the context to be cancelled.

`FairSpec` of Topology: calls go on, gossip reaches a live node, a dead node that
still owns slots comes back or is failed over (the changes are bounded), and the
application retries, as docs/USAGE.md asks it to. A dead node without slots may
stay dead. Nothing makes the application call `Done`.

## 4. Observations

Behaviour met while modelling that no run reports as a contradiction:

- A task acknowledged by a recoverer that then fails or crashes is lost. The code
  accepts this (`impl/requeue.go:120`), so `lost` is one of the final places of a
  task in the model and not a violation. docs/ARCHITECTURE.md:28 calls recovery
  "at-least-once" all the same.
- In the broker a `Send` may be accepted after the drain and before the input is
  closed; `AcceptedReceived` speaks of what was accepted before `Close`.
- `cleanup` reads the length of `kspChan` and then receives from it
  (`impl/helpers.go:32`), while `listenKsp` receives from the same channel. When
  the listener takes the last event in between, `Done` waits for an event that
  need not come. `DoneReturns` names this case.
- `Done` closes the broker before it cancels the context, so a reader that stops
  because of `Done` has its `StreamTerminated` refused. `GiveUpIsTold` therefore
  speaks of a reader that stops by itself.
- When closing the subscription fails, `Done` returns an error after the broker
  was closed; calling it again closes the output twice, which panics.
- What a `ReinitTopology` that overlaps `Done` subscribes to is never closed.
- Two goroutines in `ReinitTopology` at once can leave two subscriptions on a
  master, until the next call.
- `CoveredAfterSuccess` needs its premise. When a node comes back during a call,
  the settled check may not have heard what it knows: without the premise TLC
  finds calls that return nil and are subscribed to former masters, or to a
  master that was down when the config was set. The same holds of a single failed
  command: a node that did not answer the check is left out of it, and a master
  whose CONFIG failed is subscribed to although it may publish nothing (the code
  logs it and goes on, `impl/oss.go:63`). docs/USAGE.md:264 says that the
  check is no guarantee against every transient state.
- A reconciliation interval below 10ns passes `Validate`, and the jitter of
  `nextReconciliationDelay` is then drawn from an empty range, which panics in
  Go. `ConfigUsable` starts at 10ns.
- `WithKspChanSize` sets a field, but `kspChan` is always made with the default
  size (`impl/relredis.go:114`). `KspCap` is that size.
- The comment at `impl/requeue.go:31` says that an unparseable entry is dropped;
  the code, and the model, route it to the DLQ.

## 5. Proofs

| Module | Theorems |
|---|---|
| `RecoveryProofs` | `TypeCorrect` |
| `TaskProofs` | `Inductive`, `OneLiveEntryAlways`, `NoResurrectionEver`, `NothingEverVanishes`, `RetryBudgetKept`, `PayloadKept` |
| `OwnerProofs` (on `OwnerLemmas`) | `OwnershipKept`, `ExclusiveOwnership`, `FinishedStaysFinished`, `AliveUndisturbed` |
| `LifecycleProofs` | `RecoveryImplementsLifecycle` |
| `BrokerProofs` | `OutputClosedLastAlways`, `NoneParkedAlways`, `InOrderAlways`, `BrokerTypeCorrect`, `BrokerImplementsContract` |
| `ClientProofs` | `NoOrphanEver`, `DoneFinishes`, `ExpiryNamesEntryAlways`, `SecondCloseOnlyAfterUnsubscribe`, `ConfigAlwaysUsable`, `BackoffAlwaysExact`, `GivesUpInTimeAlways`, `ClientTypeCorrect` |
| `TopologyProofs` | `TopologyTypes`, `SubscriptionsStayBounded`, `ClientNeverDeaf`, `SuccessCovers` |

The assumptions are the named ones of the modules: `StreamOf` and `Host` are
functions, scanners and claimers are distinct, `MaxRetries` is a natural number
and `BatchSize` a positive one (what `RecoveryConfig.Validate` enforces), the
bounds are natural numbers, the default configurations are valid and those that
options carry are well-formed (valid or not), the goroutines of ClientLife are
numbered as the module says, and Topology has a slot, an owner for every slot and finitely many callers. `Faulty`,
`Backpressure` and the sets are arbitrary, so errors, stalls and crashes are all
included (the passing runs have no stalls: behaviour after one is covered by
these theorems). Only the theorems of `OwnerProofs` restrict them, see below.

**The protocol.** No property is inductive alone. An entry is *live* when it is
undelivered, pending, or in the hands of a recoverer that has acknowledged it
and not yet re-added it. XACK is the linearisation point: it moves an entry from
the PEL into the hands of exactly one process, because all others see a count of
0. So a re-queue (XADD) replaces the one live entry of its task by a newer one
(`NewestLive`, `HandsExclusive`), and a settled task has no live entry that could
bring it back (`SettledNotLive`). For the retry budget and the DLQ the handlers
must remember what they checked, although other processes moved on since:
`HandlerFacts` says that the retry count read stays below the limit and that an
entry past its XACK is no longer pending. The proof has one lemma per action and
one step per conjunct that the action disturbs.

**Ownership.** Exclusive ownership does not hold unconditionally, and the
theorems say when it does: heartbeats are on time (`OnTime`: no Redis error, no
stall, no `Send` that blocks longer than a lock key or `MinIdleTime` lasts) and
no two tasks share a stream name (`OwnStreams`). The runs `slow_reader` (a `Send`
that blocks) and `name_reused` (a shared name) each drop one condition and find
the promise broken; `stale_owner` shows what a stall does to a lock. Crashes,
restarts, scans and Claim calls are unrestricted. `OwnerInv` follows an
entry through its four stages: in a batch, offered to the application, worked on,
and acknowledged by `DoneStream`. `OneHandler`: one consumer is in one of them, the
entry is pending, and no recoverer is about to acknowledge it. `KeyWhileHeld`:
before `Lock` no recoverer knows of the entry, and from `Lock` to the XACK the
key exists, so that the EXISTS of `reQueue` turns every recoverer away, also one
that read the entry long ago. The key is there because an extender runs as long
as the work does (`KnownWhileWorking`), which needs the map entry by *name* that
the extender looks up, and that an extender which still runs cleans up only after
its own work (`ExtenderJustified`). `IInv` is used twice: two pending entries
with the same name are the same entry (`SameEntry`), and a pending task is not
finished (`PendingNotDone`).

**The life cycle.** `IInv` puts every task in exactly one place (`Places`): where
its one live entry is, or how it was settled. What is added to it is `CountInv`:
the retry count of an entry is the number of older entries of its task. Hence
the live entry tells how often a task was offered, and the checks of `reQueue`
against that count are the guards of `Offer` and `DeadLetter`. One lemma per
action shows which tasks move, and that all others stay (`SamePlace`); a crash
drops everything that the recoverers of the process had taken at once.

**The broker.** `ShutInv` orders what is closed (flag, quit, input, output) and
ties it to where `run` and the callers of `Close` are; with it every step is a
step of the contract or leaves its state alone. `OrderInv` is `InOrder` with the
types of the channels: what was received, what is in the output, in the hands of
`run` and in the input are, one after the other, the numbers of the messages
accepted. The capacities are part of `TypeOK`: a `Send` finds room before it is
accepted.

**The client.** `MapInv` adds to `NoOrphan` which entry the reader is at.
`DoneInv` says that what `Done` has not come to is all that may be
unacknowledged of its snapshot. `KspInv` gives each event in `kspChan` the entry
it is about. `CloseInv` says that the calls of `Done` follow each other and that
the output was closed by one of them that is past `Close`. `RetryInv` bounds the
error counter of a reader that has not given up, makes it equal to the history
of failed reads, and gives the delay as the initial one times a power of two,
capped; doubling a capped delay and capping it again is the same as doubling
first. `Sound` is what is kept along a list of options: each option that is
accepted leaves a valid retry and a valid recovery configuration, and the
constructor names the DLQ afterwards. The provers have no induction with an
operator parameter; the powers of two and the fold over the options use
`SetInduction`, induction for a set of numbers, instead.

**The topology.** The run has one caller of `ReinitTopology`; the theorems have
any number, overlapping in any way. `StartInv` says that `Init` runs alone and
begins without subscriptions. A caller that has subscribed to a node cannot do so
again before some caller closes everything, so the subscriptions of a node and
the callers that may still make one (`MaySubscribe`) are together no more than
the callers (`BoundInv`). `HopeInv` is the promise behind `NeverDeaf`: there is a
subscription, or a caller that has closed them and has masters left to subscribe
to. For `CoveredAfterSuccess` the argument follows a quiet call through its
steps (`Cover`). One master always knows the ownership, the one that changed it
last (`KnowInv`). It is up, so it answers (had its command failed, the call would
not be quiet), and answers that agree with its answer are right (`AskInv`; slots by master determine the ownership, `SlotsTell`). So
after the check every node that is up is right (`Fresh`), whichever node the
client loads the topology from, and it stays so until the ownership changes or a
node comes back. Other callers may close what the quiet call subscribed to, but
what they load then is right too, so each master has a subscription or a caller
that will make it (`Coming`).

Only model-checked, because liveness under fairness is out of the prover's
reach: `TaskSettles`, `ExtendersStop`, the liveness half of BrokerContract
(`ImplementsContract` with fairness) and `AcceptedReceived`, `GiveUpIsTold`,
`DoneReleases`, `DoneReturns`, `CancelStops` and `EventuallyCovered`. Every
invariant and every action property of the passing runs is proved.

## 6. Not modelled

- Metrics recorders, loggers, error values and notification types: no state that
  influences control. With them the options `WithLogger` and
  `WithMetricsRecorder`.
- `Init`: the check that `ClusterModeOSS` comes with a cluster client is a
  static one; everything else of `Init` is in Topology, Recovery and ClientLife.
- The examples, apart from their producer loop (`Produce`) and from what they
  show of an application: it reads its channel and closes Redis after `Done`.
- The trim of the DLQ to its approximate maximal length, which Redis may do or
  not.
- The clock: durations appear as orders of events (Recovery) and as numbers in
  the two computed delays (ClientConfig).
