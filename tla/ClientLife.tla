----------------------------- MODULE ClientLife -----------------------------
(***************************************************************************)
(* One client from its construction to the end of Done: the LBS reader,    *)
(* the key extenders and the keyspace listener as goroutines that share    *)
(* the notification broker, the streamLocks map, kspChan and the context,  *)
(* while the application finishes streams, cancels the context, and calls  *)
(* Done.  The broker is its contract; what other consumers do is in        *)
(* Recovery, and the subscriptions of a cluster are in Topology.           *)
(***************************************************************************)
EXTENDS BrokerContract, ClientConfig, LBSInfo

CONSTANTS
  MaxEntries,   \* bound on the number of LBS entries, each with a stream name of its own
  OptionLists,  \* what the application passes to NewRedisStreamClient
  Others,       \* LBS entries of other consumers, whose locks may expire
  Payloads,     \* payloads of the keyspace events that Redis publishes
  KspCap,       \* capacity of kspChan
  MaxErrors,    \* bound on the number of consecutive read errors
  MaxDone,      \* bound on the number of calls of Done
  Lives         \* bounds on what happens in one life: the clients that are started,
                \* how many entries and expiry events there are, and which kinds of
                \* Redis calls may fail

Entries == 1 .. MaxEntries   \* in the order in which Redis delivers them
Reader == 0
Listener == -1

\* A Send call has the number of its goroutine; the extender of entry e is e.
\* A Close call has the number of the call of Done that makes it.
ASSUME LifeAssumption ==
  /\ MaxEntries \in Nat /\ Senders = -1 .. MaxEntries
  /\ MaxDone \in Nat /\ Closers = 1 .. MaxDone
  /\ KspCap \in Nat \ {0} /\ MaxErrors \in Nat
  /\ Others \subseteq [DataStreamName : Seq(STRING) \ {<<>>}, IDInLBS : STRING]
  /\ \A opts \in OptionLists :
       /\ DOMAIN opts = 1 .. Len(opts) /\ Len(opts) \in Nat
       /\ \A n \in DOMAIN opts :
            /\ opts[n].field = "retry" => opts[n].value \in RetryConfig
            /\ opts[n].field = "recovery" => opts[n].value \in RecoveryConfig
  /\ \A l \in Lives :
       /\ l.entries \in 0 .. MaxEntries /\ l.events \in Nat
       /\ l.faults \subseteq {"read", "lock", "extend", "finish", "unsubscribe"}

VARIABLES
  life,         \* which of Lives this is
  client,       \* the configuration of the client, in a set; {} if there is none
  started,      \* Init has started the goroutines
  reader,       \* the goroutine of readLBSStream
  consecutiveErrors, currentRetryDelay,   \* its local variables
  failures,     \* history: the reads that failed since one succeeded
  current,      \* the last entry it has come to, 0 at first
  streamLocks,  \* the entries in the map
  extender,     \* extender[e]: the goroutine of startExtendingKey
  listener,     \* the goroutine of listenKsp
  kspChan,      \* the events in the channel, each with the entry it is about
  expired,      \* what listenKsp has made of the event it handles, in a set
  events,       \* the number of expiry events so far
  pubSub,       \* the subscription: "open", "closed", or "broken" when Close failed
  acked,        \* the entries that were acknowledged
  done,         \* done[k]: where the k-th call of Done is
  snapshot,     \* snapshot[k]: the streams it found in the map
  todo,         \* todo[k]: those it has not come to
  redis,        \* the Redis client of the application: "open" or "closed"
  terminated    \* history: Send has accepted StreamTerminated

config == <<life, client, started>>
counters == <<consecutiveErrors, currentRetryDelay, failures>>
reading == <<reader, counters, current>>
loops == <<reading, extender, listener>>
keyspace == <<kspChan, expired, events, pubSub>>
calls == <<acked, done, snapshot, todo>>
outside == <<config, keyspace, calls, redis>>
clientVars == <<loops, streamLocks, outside>>
vars == <<contract, clientVars, terminated>>

Init ==
  /\ ContractInit
  /\ life \in Lives
  /\ client = {} /\ started = FALSE
  /\ reader = "check" /\ current = 0
  /\ consecutiveErrors = 0 /\ currentRetryDelay = 0 /\ failures = 0
  /\ streamLocks = {}
  /\ extender = [e \in Entries |-> "none"]
  /\ listener = "wait"
  /\ kspChan = <<>> /\ expired = {} /\ events = 0 /\ pubSub = "open"
  /\ acked = {}
  /\ done = [k \in Closers |-> "out"]
  /\ snapshot = [k \in Closers |-> {}] /\ todo = [k \in Closers |-> {}]
  /\ redis = "open"
  /\ terminated = FALSE

isContextDone == "ctx" \in shut

Fails(call) == call \in life.faults \/ redis = "closed"

Retry == (CHOOSE r \in client : TRUE).retry

Construct ==
  /\ client = {}
  /\ \E pod \in BOOLEAN, opts \in OptionLists : client' = NewRedisStreamClient(pod, opts)
  /\ UNCHANGED <<contract, terminated, life, started, loops, streamLocks, keyspace, calls, redis>>

\* Init starts the goroutines; how it can fail is in Topology.
Start ==
  /\ client # {} /\ ~started
  /\ client = life.client
  /\ started' = TRUE
  /\ currentRetryDelay' = Retry.InitialRetryDelay
  /\ UNCHANGED <<contract, terminated, life, client, reader, consecutiveErrors, failures, current,
                 extender, listener, streamLocks, keyspace, calls, redis>>

\* A Send is over when the broker was closed at its first check, or when the
\* call has returned.
SendOver(g, pc, before, during) ==
  /\ \/ pc = before /\ "flag" \in shut
     \/ pc = during /\ g \notin sending
  /\ UNCHANGED <<contract, terminated>>

(***************************************************************************)
(* readLBSStream / processLBSMessages.  The parked XREADGROUP does not     *)
(* notice a cancelled context, only the end of its connection.  The error  *)
(* of a read that was cancelled before it was sent is the same exit as the *)
(* check of the context.                                                   *)
(***************************************************************************)
ReadCheck ==
  /\ reader = "check"
  /\ reader' = (IF isContextDone THEN "term" ELSE "parked")
  /\ UNCHANGED <<contract, terminated, counters, current, extender, listener, streamLocks, outside>>

\* The next entry is there.  Which entries come in one reply is decided when
\* the reader comes to them: until then they make no difference here.
ToNextEntry ==
  /\ current < life.entries
  /\ current' = current + 1
  /\ reader' = "lock"

\* Mutant: the counter is not reset.
DeliverKeepsCount ==
  /\ reader = "parked" /\ redis = "open"
  /\ ToNextEntry
  /\ failures' = 0
  /\ UNCHANGED <<consecutiveErrors, currentRetryDelay>>
  /\ UNCHANGED <<contract, terminated, extender, listener, streamLocks, outside>>

Deliver ==
  /\ reader = "parked" /\ redis = "open"
  /\ ToNextEntry
  /\ consecutiveErrors' = 0 /\ failures' = 0
  /\ currentRetryDelay' = IF consecutiveErrors > 0 THEN Retry.InitialRetryDelay ELSE currentRetryDelay
  /\ UNCHANGED <<contract, terminated, extender, listener, streamLocks, outside>>

ReadFails ==
  /\ reader = "parked" /\ Fails("read")
  /\ consecutiveErrors < MaxErrors \/ redis = "closed"
  /\ consecutiveErrors' = consecutiveErrors + 1 /\ failures' = failures + 1
  /\ reader' = (IF Retry.MaxRetries >= 0 /\ consecutiveErrors' > Retry.MaxRetries
                THEN "term" ELSE "backoff")
  /\ UNCHANGED <<contract, terminated, currentRetryDelay, current,
                 extender, listener, streamLocks, outside>>

\* The connection failed, and the context is done when the call is retried.
ReadCancelled ==
  /\ reader = "parked" /\ Fails("read") /\ isContextDone
  /\ reader' = "term"
  /\ UNCHANGED <<contract, terminated, counters, current, extender, listener, streamLocks, outside>>

BackOff ==
  /\ reader = "backoff"
  /\ \/ reader' = "check" /\ currentRetryDelay' = NextDelay(Retry, currentRetryDelay)
     \/ isContextDone /\ reader' = "term" /\ UNCHANGED currentRetryDelay
  /\ UNCHANGED <<contract, terminated, consecutiveErrors, failures, current,
                 extender, listener, streamLocks, outside>>

\* Mutant: the reader returns without a notification.
LockEntryQuits ==
  /\ reader = "lock"
  /\ \/ redis = "open" /\ streamLocks' = streamLocks \cup {current} /\ reader' = "add"
     \/ Fails("lock") /\ UNCHANGED streamLocks /\ reader' = "gone"
  /\ UNCHANGED <<contract, terminated, counters, current, extender, listener, outside>>

LockEntry ==
  /\ reader = "lock"
  /\ \/ redis = "open" /\ streamLocks' = streamLocks \cup {current} /\ reader' = "add"
     \/ Fails("lock") /\ UNCHANGED streamLocks /\ reader' = "term"
  /\ UNCHANGED <<contract, terminated, counters, current, extender, listener, outside>>

ReaderSends ==
  /\ \/ reader = "add" /\ reader' = "adding"
     \/ reader = "term" /\ reader' = "terminating"
  /\ SendEnters(Reader)
  /\ UNCHANGED <<terminated, counters, current, extender, listener, streamLocks, outside>>

\* Whatever Send returned, the extender is started, and the next entry locked.
AddedOver ==
  /\ SendOver(Reader, reader, "add", "adding")
  /\ extender' = [extender EXCEPT ![current] = "run"]
  /\ \/ reader' = "check" /\ UNCHANGED current
     \/ ToNextEntry
  /\ UNCHANGED <<counters, listener, streamLocks, outside>>

\* The local variables of the reader end with it.
TerminatedOver ==
  /\ SendOver(Reader, reader, "term", "terminating")
  /\ reader' = "gone"
  /\ consecutiveErrors' = 0 /\ currentRetryDelay' = Retry.InitialRetryDelay /\ failures' = 0
  /\ UNCHANGED <<current, extender, listener, streamLocks, outside>>

ReaderStep ==
  \/ ReadCheck \/ Deliver \/ ReadFails \/ ReadCancelled \/ BackOff \/ LockEntry
  \/ ReaderSends \/ AddedOver \/ TerminatedOver

(***************************************************************************)
(* startExtendingKey of entry e.  An extension that succeeds changes       *)
(* nothing here.  The deferred function sends StreamDisowned after a       *)
(* failed extension, then pops the map entry.                              *)
(***************************************************************************)
ExtenderGoto(e, pc) == extender' = [extender EXCEPT ![e] = pc]

\* Mutant: the map entry is popped only after a failed extension.
ExtenderExitsOnly(e) ==
  /\ extender[e] = "run"
  /\ isContextDone \/ e \notin streamLocks
  /\ ExtenderGoto(e, "gone")
  /\ UNCHANGED <<contract, terminated, reading, listener, streamLocks, outside>>

\* Mutant: the context is not looked at.
ExtenderExitsWhenDone(e) ==
  /\ extender[e] = "run"
  /\ e \notin streamLocks
  /\ ExtenderGoto(e, "gone")
  /\ UNCHANGED <<contract, terminated, reading, listener, streamLocks, outside>>

ExtenderExits(e) ==
  /\ extender[e] = "run"
  /\ isContextDone \/ e \notin streamLocks
  /\ streamLocks' = streamLocks \ {e}
  /\ ExtenderGoto(e, "gone")
  /\ UNCHANGED <<contract, terminated, reading, listener, outside>>

ExtendFails(e) ==
  /\ extender[e] = "run"
  /\ Fails("extend")
  /\ ExtenderGoto(e, "disown")
  /\ UNCHANGED <<contract, terminated, reading, listener, streamLocks, outside>>

SendDisowned(e) ==
  /\ extender[e] = "disown"
  /\ SendEnters(e)
  /\ ExtenderGoto(e, "disowning")
  /\ UNCHANGED <<terminated, reading, listener, streamLocks, outside>>

DisownedOver(e) ==
  /\ SendOver(e, extender[e], "disown", "disowning")
  /\ streamLocks' = streamLocks \ {e}
  /\ ExtenderGoto(e, "gone")
  /\ UNCHANGED <<reading, listener, outside>>

ExtenderStep(e) == ExtenderExits(e) \/ ExtendFails(e) \/ SendDisowned(e) \/ DisownedOver(e)

(***************************************************************************)
(* The keyspace subscription and listenKsp.  A full kspChan drops the      *)
(* event; an event that cannot be parsed is skipped.                       *)
(***************************************************************************)
FanIn ==
  /\ pubSub = "open" /\ redis = "open"
  /\ events < life.events
  /\ events' = events + 1
  /\ \E i \in Others, p \in Payloads :
       LET msg == [Channel |-> KspChannel(FormMutexKey(i)), Payload |-> p, about |-> i]
       IN kspChan' = IF Len(kspChan) < KspCap THEN Append(kspChan, msg) ELSE kspChan
  /\ UNCHANGED <<contract, terminated, loops, streamLocks, config, expired, pubSub, calls, redis>>

ListenerTakes ==
  /\ listener = "wait"
  /\ kspChan # <<>>
  /\ kspChan' = Tail(kspChan)
  /\ LET msg == Head(kspChan)
         infos == UNION {CreateByKspNotification(key, msg.Payload) :
                           key \in extractStreamnameFromKspChannel(msg.Channel)}
     IN /\ expired' = {[info |-> i, about |-> msg.about] : i \in infos}
        /\ listener' = IF infos = {} THEN "wait" ELSE "expire"
  /\ UNCHANGED <<contract, terminated, reading, extender, streamLocks, config, events, pubSub, calls, redis>>

SendExpired ==
  /\ listener = "expire"
  /\ SendEnters(Listener)
  /\ listener' = "expiring"
  /\ UNCHANGED <<terminated, reading, extender, streamLocks, outside>>

ExpiredOver ==
  /\ SendOver(Listener, listener, "expire", "expiring")
  /\ listener' = "wait"
  /\ expired' = {}
  /\ UNCHANGED <<reading, extender, streamLocks, config, kspChan, events, pubSub, calls, redis>>

ListenerExits ==
  /\ listener = "wait" /\ isContextDone
  /\ listener' = "gone"
  /\ UNCHANGED <<contract, terminated, reading, extender, streamLocks, outside>>

ListenerStep == ListenerTakes \/ SendExpired \/ ExpiredOver \/ ListenerExits

(***************************************************************************)
(* DoneStream: the pop, then XACK, XDEL and Unlock, which are separate     *)
(* steps in StreamClient.  A name that is not in the map is an error.      *)
(***************************************************************************)
DoneStream(e, ok) ==
  /\ streamLocks' = streamLocks \ {e}
  /\ \/ ok /\ e \in streamLocks /\ redis = "open" /\ acked' = acked \cup {e}
     \/ ~ok /\ e \in streamLocks /\ Fails("finish") /\ acked' \in {acked, acked \cup {e}}
     \/ ~ok /\ e \notin streamLocks /\ UNCHANGED acked

\* The application finishes a stream that it was told of.
AppDoneStream(e) ==
  /\ e \in streamLocks
  /\ extender[e] # "none" \/ (reader = "adding" /\ Reader \notin sending)
  /\ \E ok \in BOOLEAN : DoneStream(e, ok)
  /\ UNCHANGED <<contract, terminated, loops, config, keyspace, done, snapshot, todo, redis>>

(***************************************************************************)
(* Done and cleanup.  Done may be called again after it returned an error. *)
(***************************************************************************)
DoneGoto(k, pc) == done' = [done EXCEPT ![k] = pc]

CallDone(k) ==
  /\ done[k] = "out"
  /\ \A j \in 1 .. k - 1 : done[j] = "failed"
  /\ snapshot' = [snapshot EXCEPT ![k] = streamLocks]
  /\ todo' = [todo EXCEPT ![k] = streamLocks]
  /\ DoneGoto(k, "streams")
  /\ UNCHANGED <<contract, terminated, loops, streamLocks, config, keyspace, acked, redis>>

\* Mutant: a failed DoneStream is only logged.
DoneNextGoesOn(k) ==
  /\ done[k] = "streams"
  /\ \E e \in todo[k], ok \in BOOLEAN :
       /\ DoneStream(e, ok)
       /\ todo' = [todo EXCEPT ![k] = @ \ {e}]
  /\ UNCHANGED <<contract, terminated, loops, config, keyspace, done, snapshot, redis>>

\* Mutant: a failed DoneStream is tried again.
DoneNextRetries(k) ==
  /\ done[k] = "streams"
  /\ \E e \in todo[k], ok \in BOOLEAN :
       /\ DoneStream(e, ok)
       /\ todo' = [todo EXCEPT ![k] = IF ok THEN @ \ {e} ELSE @]
  /\ UNCHANGED <<contract, terminated, loops, config, keyspace, done, snapshot, redis>>

DoneNext(k) ==
  /\ done[k] = "streams"
  /\ \E e \in todo[k], ok \in BOOLEAN :
       /\ DoneStream(e, ok)
       /\ todo' = [todo EXCEPT ![k] = IF ok THEN @ \ {e} ELSE {}]
       /\ DoneGoto(k, IF ok THEN "streams" ELSE "failed")
  /\ UNCHANGED <<contract, terminated, loops, config, keyspace, snapshot, redis>>

\* The length of kspChan is read, then an event is received: two steps.
DrainCheck(k) ==
  /\ \/ done[k] = "streams" /\ todo[k] = {}
     \/ done[k] = "drain"
  /\ DoneGoto(k, IF Len(kspChan) > 0 THEN "receive" ELSE "close")
  /\ UNCHANGED <<contract, terminated, loops, streamLocks, config, keyspace, acked, snapshot, todo, redis>>

DrainReceive(k) ==
  /\ done[k] = "receive"
  /\ kspChan # <<>>
  /\ kspChan' = Tail(kspChan)
  /\ DoneGoto(k, "drain")
  /\ UNCHANGED <<contract, terminated, loops, streamLocks, config, expired, events, pubSub, acked, snapshot, todo, redis>>

DoneClose(k) ==
  /\ done[k] = "close"
  /\ CloseEnters(k)
  /\ DoneGoto(k, "closing")
  /\ UNCHANGED <<terminated, loops, streamLocks, config, keyspace, acked, snapshot, todo, redis>>

\* Mutant: the context is not cancelled.
DoneCancelForgotten(k) ==
  /\ done[k] = "closing" /\ k \in closed
  /\ DoneGoto(k, "unsubscribe")
  /\ UNCHANGED <<contract, terminated, loops, streamLocks, config, keyspace, acked, snapshot, todo, redis>>

\* Mutant: a context that was cancelled before is an error.
DoneCancelOnce(k) ==
  /\ done[k] = "closing" /\ k \in closed
  /\ \/ ContractCancel /\ DoneGoto(k, "unsubscribe")
     \/ isContextDone /\ UNCHANGED contract /\ DoneGoto(k, "failed")
  /\ UNCHANGED <<terminated, loops, streamLocks, config, keyspace, acked, snapshot, todo, redis>>

\* Cancelling again has no effect.
DoneCancel(k) ==
  /\ done[k] = "closing" /\ k \in closed
  /\ ContractCancel \/ (isContextDone /\ UNCHANGED contract)
  /\ DoneGoto(k, "unsubscribe")
  /\ UNCHANGED <<terminated, loops, streamLocks, config, keyspace, acked, snapshot, todo, redis>>

DoneUnsubscribe(k) ==
  /\ done[k] = "unsubscribe"
  /\ \/ pubSub' = "closed" /\ DoneGoto(k, "returned")
     \/ Fails("unsubscribe") /\ pubSub' = "broken" /\ DoneGoto(k, "failed")
  /\ UNCHANGED <<contract, terminated, loops, streamLocks, config, kspChan, expired, events, acked, snapshot, todo, redis>>

DoneStep(k) ==
  DoneNext(k) \/ DrainCheck(k) \/ DrainReceive(k) \/ DoneClose(k) \/ DoneCancel(k) \/ DoneUnsubscribe(k)

\* The application closes its Redis client once Done has returned.
CloseRedis ==
  /\ redis = "open"
  /\ \E k \in Closers : done[k] = "returned"
  /\ redis' = "closed"
  /\ UNCHANGED <<contract, terminated, loops, streamLocks, config, keyspace, calls>>

(***************************************************************************)
(* The broker, which decides when a Send or a Close returns, and the       *)
(* context that the application passed to Init.                            *)
(***************************************************************************)
BrokerAccepts(g) ==
  /\ SendAccepted(g)
  /\ terminated' = (terminated \/ (g = Reader /\ reader = "terminating"))
  /\ UNCHANGED clientVars

BrokerRefuses(g) == SendsRefused({g}) /\ UNCHANGED <<terminated, clientVars>>

BrokerPanics == SendPanics /\ UNCHANGED <<terminated, clientVars>>

BrokerCloses(k) == CloseReturns(k) /\ UNCHANGED <<terminated, clientVars>>

AppCancels == ContractCancel /\ UNCHANGED <<terminated, clientVars>>

Running ==
  \/ ReaderStep \/ ListenerStep \/ FanIn
  \/ \E e \in Entries : ExtenderStep(e) \/ AppDoneStream(e)
  \/ \E k \in Closers : CallDone(k) \/ DoneStep(k) \/ BrokerCloses(k)
  \/ \E g \in Senders : BrokerAccepts(g) \/ BrokerRefuses(g)
  \/ BrokerPanics \/ AppCancels \/ CloseRedis

Next ==
  /\ ~panicked
  /\ \/ Construct
     \/ Start
     \/ started /\ Running

Spec == Init /\ [][Next]_vars

\* Goroutines are scheduled, one condition for each, the application reads its
\* channel, and it closes Redis after Done.  An entry need not be delivered, an
\* event fired, a stream finished, Done called or the context cancelled.
Active == started /\ ~panicked

\* The Send of goroutine g returns.
SendReturns(g) == BrokerAccepts(g) \/ BrokerRefuses(g)

Fairness ==
  /\ WF_vars(Active /\ \/ ReaderStep /\ (reader = "parked" => redis = "closed")
                       \/ SendReturns(Reader))
  /\ WF_vars(Active /\ (ListenerStep \/ SendReturns(Listener)))
  /\ \A e \in Entries :
       WF_vars(Active /\ (ExtenderExits(e) \/ SendDisowned(e) \/ DisownedOver(e) \/ SendReturns(e)))
  /\ \A k \in Closers : WF_vars(Active /\ (DoneStep(k) \/ BrokerCloses(k)))
  /\ WF_vars(Active /\ CloseRedis)

FairSpec == Spec /\ Fairness

(***************************************************************************)
(* Properties.                                                             *)
(***************************************************************************)
\* The values of the variables: the delay of a started reader is between 1 and
\* the maximum, only entries that were read are in the map or acknowledged, and
\* kspChan never holds more than its capacity.
TypeOK ==
  /\ shut \subseteq {"flag", "ctx", "output"}
  /\ sending \subseteq Senders
  /\ reader \in {"check", "parked", "backoff", "lock", "add", "adding", "term", "terminating", "gone"}
  /\ current \in 0 .. MaxEntries
  /\ started => client # {} /\ currentRetryDelay \in 1 .. Retry.MaxRetryDelay
  /\ streamLocks \cup acked \subseteq 1 .. current
  /\ extender \in [Entries -> {"none", "run", "disown", "disowning", "gone"}]
  /\ listener \in {"wait", "expire", "expiring", "gone"}
  /\ Len(kspChan) <= KspCap /\ (listener \in {"wait", "gone"} => expired = {})
  /\ pubSub \in {"open", "closed", "broken"}
  /\ \A k \in Closers : todo[k] \subseteq snapshot[k]

\* Whatever options were accepted, in whatever order, the client meets what
\* the recovery code relies on: a batch to scan, a retry budget, a named
\* dead-letter stream, and a delay between two scans that is at most a tenth
\* longer than the interval.  Below 10ns there is no jitter to draw.
ConfigUsable ==
  \A r \in client :
    LET interval == r.recovery.ReconciliationInterval IN
    /\ r.recovery.BatchSize > 0 /\ r.recovery.MaxRetries >= 0 /\ r.recovery.MinIdleTime > 0
    /\ r.recovery.DLQStream # NoName
    /\ interval >= 10 =>
         /\ nextReconciliationDelay(interval) # {}
         /\ \A d \in nextReconciliationDelay(interval) : interval <= d /\ 10 * d < 11 * interval

\* 2 to the power n.
Pow2[n \in Nat] == IF n = 0 THEN 1 ELSE 2 * Pow2[n - 1]

\* The reader waits between failed reads as documented: the initial delay,
\* doubled for each further failure since a read last succeeded, up to the
\* maximum (readLBSStream).
BackoffExact ==
  reader = "backoff" =>
    LET doubled == Retry.InitialRetryDelay * Pow2[failures - 1]
    IN currentRetryDelay = IF doubled > Retry.MaxRetryDelay THEN Retry.MaxRetryDelay ELSE doubled

\* Unless the context is done, the reader gives up on the failure after the
\* last retry it is allowed, no earlier and no later, and never when retries
\* are unlimited (readLBSStream).
GivesUpInTime ==
  [][reader = "parked" /\ reader' \in {"term", "backoff"} /\ ~isContextDone
       => (reader' = "term" <=> failures' = Retry.MaxRetries + 1)]_vars

\* A StreamExpired that listenKsp sends names the entry whose lock expired:
\* a stream name that contains the separator makes the event unreadable, and
\* is never taken for another stream (FormMutexKey, CreateByKspNotification).
ExpiryNamesEntry == \A x \in expired : x.info = x.about

\* No entry of the map is forgotten: a goroutine is left that extends its lock
\* and pops it when it exits, whatever happened to the notification
\* (processLBSMessages, startExtendingKey).
NoOrphan ==
  \A e \in streamLocks :
    \/ extender[e] \in {"run", "disown", "disowning"}
    \/ current = e /\ reader \in {"add", "adding"}

\* When Done returns without an error, it has acknowledged every stream that it
\* found.  (A stream that somebody else popped meanwhile makes it return an
\* error, see DoneCleansUp.)
DoneFinishesSnapshot ==
  \A k \in Closers : done[k] = "returned" => snapshot[k] \subseteq acked

\* A second Done gets as far as closing the broker again, which panics, only
\* when the first could not close its subscription (cleanup).
NoSecondClose ==
  \A k \in Closers : done[k] = "close" /\ "output" \in shut => pubSub = "broken"

\* Nothing of the client is left: no goroutine, no map entry, no subscription.
\* (The scan, which shares nothing with the others, ends with the context.)
AllReleased ==
  /\ reader = "gone" /\ listener = "gone"
  /\ \A e \in Entries : extender[e] \in {"none", "gone"}
  /\ streamLocks = {}
  /\ pubSub # "open" /\ "output" \in shut

\* Once Done has returned without an error and Redis is closed, everything the
\* client started is released, entries that were read after Done looked
\* at the map included (Done, cleanup).
DoneReleases == (\E k \in Closers : done[k] = "returned") ~> AllReleased \/ panicked

\* Done returns, unless the listener took the event that the drain of kspChan
\* had counted: Done then waits for an event that need not come (cleanup).
DoneReturns ==
  (\E k \in Closers : done[k] = "streams") ~>
    \/ \A k \in Closers : done[k] \in {"out", "returned", "failed"}
    \/ kspChan = <<>> /\ \E k \in Closers : done[k] = "receive"
    \/ panicked

\* A reader that stops while the broker is open and the context is not done
\* tells the application with StreamTerminated (readLBSStream).
GiveUpIsTold ==
  reader \in {"term", "gone"} /\ {"flag", "ctx"} \cap shut = {}
    ~> terminated \/ {"flag", "ctx"} \cap shut # {} \/ panicked

\* A cancelled context stops the reader, the listener and the extenders, but
\* for a reader that is parked in XREADGROUP (isContextDone and the selects on
\* ctx.Done).  The broker's run and fanInPubSub do not see the context: they
\* end with Close and with the subscription, in Done.
CancelStops ==
  isContextDone ~>
    \/ /\ listener = "gone" /\ reader \in {"parked", "gone"}
       /\ \A e \in Entries : extender[e] \in {"none", "gone"}
    \/ panicked

\* What the comment on Done says: it cleans up all the streams handled by the
\* client and releases its resources.
DoneCleansUp == (\E k \in Closers : done[k] = "streams") ~> AllReleased \/ panicked
=============================================================================
