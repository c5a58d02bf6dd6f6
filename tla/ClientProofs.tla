---------------------------- MODULE ClientProofs ----------------------------
(***************************************************************************)
(* Proofs about ClientLife, for any number of entries, calls of Done and   *)
(* events, any faults and any options that the application may pass.  Each *)
(* theorem has an inductive invariant of its own; the lemma on its steps   *)
(* goes through the actions that touch its variables, and the lemmas on    *)
(* what a goroutine leaves alone cover the rest.                           *)
(***************************************************************************)
EXTENDS ClientLife, WellFoundedInduction, TLAPS

\* The sizes of an instance.
LEMMA Sizes ==
  /\ MaxEntries \in Nat /\ Senders = -1 .. MaxEntries
  /\ MaxDone \in Nat /\ Closers = 1 .. MaxDone
  /\ KspCap \in Nat \ {0} /\ MaxErrors \in Nat
BY LifeAssumption, Zenon DEF LifeAssumption

(***************************************************************************)
(* What the steps of a goroutine leave alone.                              *)
(***************************************************************************)
\* The reader.
LEMMA ReaderTouches ==
  ASSUME ReaderStep
  PROVE  /\ UNCHANGED <<life, client, started, listener, kspChan, expired, events, pubSub,
                        acked, done, snapshot, todo, redis, shut, closing, closed>>
         /\ sending' \subseteq sending \cup {Reader}
<1> USE DEF outside, config, keyspace, calls, contract, SendOver, SendEnters
<1>1. CASE ReadCheck \/ Deliver \/ ReadFails \/ ReadCancelled
  BY <1>1, Zenon DEF ReadCheck, Deliver, ReadFails, ReadCancelled
<1>2. CASE BackOff \/ LockEntry
  BY <1>2, Zenon DEF BackOff, LockEntry
<1>3. CASE ReaderSends \/ AddedOver \/ TerminatedOver
  BY <1>3, Zenon DEF ReaderSends, AddedOver, TerminatedOver
<1> QED BY <1>1, <1>2, <1>3, Zenon DEF ReaderStep

\* An extender.
LEMMA ExtenderTouches ==
  ASSUME NEW e \in Entries, ExtenderStep(e)
  PROVE  /\ UNCHANGED <<life, client, started, reader, consecutiveErrors, currentRetryDelay, failures,
                        current, listener, kspChan, expired, events, pubSub,
                        acked, done, snapshot, todo, redis, shut, closing, closed>>
         /\ sending' \subseteq sending \cup {e}
BY Zenon DEF ExtenderStep, ExtenderExits, ExtendFails, SendDisowned, DisownedOver, SendOver, SendEnters,
       reading, counters, outside, config, keyspace, calls, contract

\* The listener.
LEMMA ListenerTouches ==
  ASSUME ListenerStep
  PROVE  /\ UNCHANGED <<life, client, started, reader, consecutiveErrors, currentRetryDelay, failures,
                        current, extender, streamLocks, events, pubSub,
                        acked, done, snapshot, todo, redis, shut, closing, closed>>
         /\ sending' \subseteq sending \cup {Listener}
BY Zenon DEF ListenerStep, ListenerTakes, SendExpired, ExpiredOver, ListenerExits, SendOver, SendEnters,
       reading, counters, outside, config, keyspace, calls, contract

\* The application when it finishes a stream.
LEMMA AppTouches ==
  ASSUME NEW e \in Entries, AppDoneStream(e)
  PROVE  UNCHANGED <<life, client, started, reader, consecutiveErrors, currentRetryDelay, failures,
                     current, extender, listener, kspChan, expired, events, pubSub,
                     done, snapshot, todo, redis, shut, sending, closing, closed>>
BY Zenon DEF AppDoneStream, loops, reading, counters, config, keyspace, contract

\* A call of Done.
LEMMA DoneTouches ==
  ASSUME NEW k \in Closers, CallDone(k) \/ DoneStep(k)
  PROVE  /\ UNCHANGED <<life, client, started, reader, consecutiveErrors, currentRetryDelay, failures,
                        current, extender, listener, expired, events, redis>>
         /\ sending' \subseteq sending
<1> USE DEF loops, reading, counters, config, keyspace, contract
<1>1. CASE CallDone(k) \/ DoneNext(k) \/ DrainCheck(k) \/ DrainReceive(k)
  BY <1>1, Zenon DEF CallDone, DoneNext, DrainCheck, DrainReceive
<1>2. CASE DoneClose(k) \/ DoneCancel(k) \/ DoneUnsubscribe(k)
  BY <1>2, Zenon DEF DoneClose, DoneCancel, DoneUnsubscribe, CloseEnters, ContractCancel
<1> QED BY <1>1, <1>2, Zenon DEF DoneStep

\* The broker and the context.
BrokerStep ==
  \/ \E g \in Senders : BrokerAccepts(g) \/ BrokerRefuses(g)
  \/ \E k \in Closers : BrokerCloses(k)
  \/ BrokerPanics \/ AppCancels

LEMMA BrokerTouches ==
  ASSUME BrokerStep
  PROVE  /\ UNCHANGED <<life, client, started, reader, consecutiveErrors, currentRetryDelay, failures,
                        current, extender, listener, streamLocks, kspChan, expired, events, pubSub,
                        acked, done, snapshot, todo, redis>>
         /\ sending' \subseteq sending
<1>1. UNCHANGED clientVars
  BY Zenon DEF BrokerStep, BrokerAccepts, BrokerRefuses, BrokerCloses, BrokerPanics, AppCancels
<1>2. sending' \subseteq sending
  BY Zenon DEF BrokerStep, BrokerAccepts, BrokerRefuses, BrokerCloses, BrokerPanics, AppCancels,
         SendAccepted, SendsRefused, CloseReturns, SendPanics, ContractCancel
<1> QED BY <1>1, <1>2, Zenon DEF clientVars, loops, reading, counters, outside, config, keyspace, calls

\* NewRedisStreamClient, Init, Redis and the application that closes it, and a
\* step of none of them.
LEMMA OutsideTouches ==
  ASSUME Construct \/ Start \/ FanIn \/ CloseRedis \/ UNCHANGED vars
  PROVE  UNCHANGED <<life, reader, consecutiveErrors, failures, current, extender, listener, streamLocks,
                     expired, pubSub, acked, done, snapshot, todo, shut, sending, closing, closed>>
<1> USE DEF loops, reading, counters, config, keyspace, calls, contract
<1>1. CASE Construct \/ Start
  BY <1>1, Zenon DEF Construct, Start
<1>2. CASE FanIn \/ CloseRedis
  BY <1>2, Zenon DEF FanIn, CloseRedis
<1>3. CASE UNCHANGED vars
  BY <1>3, Zenon DEF vars, clientVars, outside
<1> QED BY <1>1, <1>2, <1>3, Zenon

(***************************************************************************)
(* The map and the extenders.                                              *)
(***************************************************************************)
MapInv ==
  /\ life \in Lives
  /\ reader \in {"check", "parked", "backoff", "lock", "add", "adding", "term", "terminating", "gone"}
  /\ current \in 0 .. MaxEntries
  /\ reader \in {"lock", "add", "adding"} => current \in Entries
  /\ streamLocks \cup acked \subseteq 1 .. current
  /\ extender \in [Entries -> {"none", "run", "disown", "disowning", "gone"}]
  /\ NoOrphan

\* Steps that leave the map, the reader and the extenders alone.
LEMMA MapFrame ==
  ASSUME MapInv, UNCHANGED <<life, current, reader, streamLocks, acked, extender>>
  PROVE  MapInv'
BY Zenon DEF MapInv, NoOrphan, Entries

\* The steps of readLBSStream and processLBSMessages.
LEMMA MapReader ==
  ASSUME MapInv, ReaderStep
  PROVE  MapInv'
<1> USE LifeAssumption DEF MapInv, NoOrphan, Entries, LifeAssumption
<1>0. UNCHANGED <<life, acked>>
  BY ReaderTouches, Zenon
<1>1. CASE ReadCheck
  BY <1>0, <1>1, Zenon DEF ReadCheck
<1>2. CASE Deliver
  BY <1>0, <1>2 DEF Deliver, ToNextEntry
<1>3. CASE ReadFails
  BY <1>0, <1>3, Zenon DEF ReadFails
<1>4. CASE ReadCancelled
  BY <1>0, <1>4, Zenon DEF ReadCancelled
<1>5. CASE BackOff
  BY <1>0, <1>5, Zenon DEF BackOff
<1>6. CASE LockEntry
  BY <1>0, <1>6 DEF LockEntry
<1>7. CASE ReaderSends
  BY <1>0, <1>7, Zenon DEF ReaderSends
<1>8. CASE AddedOver
  BY <1>0, <1>8 DEF AddedOver, ToNextEntry, SendOver
<1>9. CASE TerminatedOver
  BY <1>0, <1>9, Zenon DEF TerminatedOver, SendOver
<1> QED BY <1>1, <1>2, <1>3, <1>4, <1>5, <1>6, <1>7, <1>8, <1>9, Zenon DEF ReaderStep

\* The steps of startExtendingKey: an extender that ends pops its map entry.
LEMMA MapExtender ==
  ASSUME MapInv, NEW e \in Entries, ExtenderStep(e)
  PROVE  MapInv'
<1> USE DEF MapInv, NoOrphan, Entries, ExtenderGoto
<1>0. UNCHANGED <<life, current, reader, acked>>
  BY ExtenderTouches, Zenon
<1>1. CASE ExtenderExits(e)
  BY <1>0, <1>1 DEF ExtenderExits
<1>2. CASE ExtendFails(e)
  BY <1>0, <1>2 DEF ExtendFails
<1>3. CASE SendDisowned(e)
  BY <1>0, <1>3 DEF SendDisowned
<1>4. CASE DisownedOver(e)
  BY <1>0, <1>4 DEF DisownedOver
<1> QED BY <1>1, <1>2, <1>3, <1>4, Zenon DEF ExtenderStep

\* DoneStream, called by the application or by Done, only takes from the map,
\* and acknowledges what it takes.
LEMMA MapShrinks ==
  ASSUME MapInv, NEW e, NEW ok, DoneStream(e, ok), UNCHANGED <<life, current, reader, extender>>
  PROVE  MapInv'
BY Zenon DEF MapInv, NoOrphan, Entries, DoneStream

\* Every step preserves the invariant.
LEMMA MapStep == MapInv /\ [Next]_vars => MapInv'
<1> SUFFICES ASSUME MapInv, [Next]_vars PROVE MapInv'
  BY Zenon
<1>1. CASE Construct \/ Start \/ FanIn \/ CloseRedis \/ UNCHANGED vars
  BY <1>1, OutsideTouches, MapFrame, Zenon
<1>2. CASE ListenerStep
  BY <1>2, ListenerTouches, MapFrame, Zenon
<1>3. CASE BrokerStep
  BY <1>3, BrokerTouches, MapFrame, Zenon
<1>4. ASSUME NEW e \in Entries, AppDoneStream(e)
      PROVE  MapInv'
  <2>1. PICK ok : DoneStream(e, ok)
    BY <1>4, Zenon DEF AppDoneStream
  <2> QED BY <1>4, <2>1, AppTouches, MapShrinks, Zenon
<1>5. ASSUME NEW k \in Closers, CallDone(k) \/ DoneStep(k)
      PROVE  MapInv'
  <2>0. UNCHANGED <<life, current, reader, extender>>
    BY <1>5, DoneTouches, Zenon
  <2>1. CASE DoneNext(k)
    <3>1. PICK e, ok : DoneStream(e, ok)
      BY <2>1, Zenon DEF DoneNext
    <3> QED BY <2>0, <3>1, MapShrinks, Zenon
  <2>2. CASE CallDone(k) \/ DrainCheck(k) \/ DrainReceive(k)
    BY <2>0, <2>2, MapFrame, Zenon DEF CallDone, DrainCheck, DrainReceive
  <2>3. CASE DoneClose(k) \/ DoneCancel(k) \/ DoneUnsubscribe(k)
    BY <2>0, <2>3, MapFrame, Zenon DEF DoneClose, DoneCancel, DoneUnsubscribe
  <2> QED BY <1>5, <2>1, <2>2, <2>3, Zenon DEF DoneStep
<1> QED BY <1>1, <1>2, <1>3, <1>4, <1>5, MapReader, MapExtender, Zenon DEF Next, Running, BrokerStep

\* The invariant holds at first.
LEMMA MapStart == Init => MapInv
BY Sizes DEF Init, MapInv, NoOrphan, Entries

\* Every stream in the map has a goroutine that extends its lock and pops it:
\* neither a refused notification, a failed extension, a cancelled context, a
\* DoneStream nor a Done that stops half way leaves one behind.
THEOREM NoOrphanEver == Spec => []NoOrphan
<1>1. MapInv => NoOrphan
  BY Zenon DEF MapInv
<1> QED BY <1>1, MapStart, MapStep, PTL DEF Spec

(***************************************************************************)
(* What Done finds in the map.                                             *)
(***************************************************************************)
\* The streams that Done has gone through are acknowledged; past its loop, all.
DoneInv ==
  /\ done \in [Closers -> {"out", "streams", "drain", "receive", "close", "closing",
                           "unsubscribe", "returned", "failed"}]
  /\ snapshot \in [Closers -> SUBSET Entries] /\ todo \in [Closers -> SUBSET Entries]
  /\ \A k \in Closers :
       /\ todo[k] \subseteq snapshot[k]
       /\ done[k] = "streams" => snapshot[k] \subseteq acked \cup todo[k]
       /\ done[k] \notin {"out", "streams", "failed"} => snapshot[k] \subseteq acked

\* Steps that leave the calls of Done alone.
LEMMA DoneFrame ==
  ASSUME DoneInv, UNCHANGED <<acked, done, snapshot, todo>>
  PROVE  DoneInv'
BY Zenon DEF DoneInv, Entries

\* The steps of Done and cleanup, and DoneStream in between.
LEMMA DoneCalls ==
  ASSUME DoneInv, streamLocks \subseteq Entries, NEW k \in Closers, CallDone(k) \/ DoneStep(k)
  PROVE  DoneInv'
<1> USE DEF DoneInv, DoneGoto, Entries
<1>1. CASE CallDone(k)
  BY <1>1, Zenon DEF CallDone
<1>2. CASE DoneNext(k)
  BY <1>2 DEF DoneNext, DoneStream
<1>3. CASE DrainCheck(k)
  BY <1>3, Zenon DEF DrainCheck
<1>4. CASE DrainReceive(k)
  BY <1>4, Zenon DEF DrainReceive
<1>5. CASE DoneClose(k)
  BY <1>5, Zenon DEF DoneClose
<1>6. CASE DoneCancel(k)
  BY <1>6, Zenon DEF DoneCancel
<1>7. CASE DoneUnsubscribe(k)
  BY <1>7, Zenon DEF DoneUnsubscribe
<1> QED BY <1>1, <1>2, <1>3, <1>4, <1>5, <1>6, <1>7, Zenon DEF DoneStep

\* Every step preserves the invariant.
LEMMA DoneStepInv == MapInv /\ DoneInv /\ [Next]_vars => DoneInv'
<1> SUFFICES ASSUME MapInv, DoneInv, [Next]_vars PROVE DoneInv'
  BY Zenon
<1>1. CASE Construct \/ Start \/ FanIn \/ CloseRedis \/ UNCHANGED vars
  BY <1>1, OutsideTouches, DoneFrame, Zenon
<1>2. CASE ReaderStep \/ ListenerStep \/ BrokerStep
  BY <1>2, ReaderTouches, ListenerTouches, BrokerTouches, DoneFrame, Zenon
<1>3. ASSUME NEW e \in Entries, ExtenderStep(e)
      PROVE  DoneInv'
  BY <1>3, ExtenderTouches, DoneFrame, Zenon
<1>4. ASSUME NEW e \in Entries, AppDoneStream(e)
      PROVE  DoneInv'
  BY <1>4, Zenon DEF AppDoneStream, DoneStream, DoneInv, Entries
<1>5. ASSUME NEW k \in Closers, CallDone(k) \/ DoneStep(k)
      PROVE  DoneInv'
  <2>1. streamLocks \subseteq Entries
    BY Sizes DEF MapInv, Entries
  <2> QED BY <1>5, <2>1, DoneCalls, Zenon
<1> QED BY <1>1, <1>2, <1>3, <1>4, <1>5, Zenon DEF Next, Running, BrokerStep

\* The invariant holds at first.
LEMMA DoneStart == Init => DoneInv
BY Zenon DEF Init, DoneInv, Entries

\* A Done that returns without an error has acknowledged every stream it found
\* in the map, whatever extenders and reads ran beside it.
THEOREM DoneFinishes == Spec => []DoneFinishesSnapshot
<1>1. DoneInv => DoneFinishesSnapshot
  BY Zenon DEF DoneInv, DoneFinishesSnapshot
<1> QED BY <1>1, MapStart, MapStep, DoneStart, DoneStepInv, PTL DEF Spec

(***************************************************************************)
(* What an expiry event says.                                              *)
(***************************************************************************)
\* The events that Redis publishes for the locks of other consumers.
KspMsg ==
  {m \in [Channel : {KspChannel(FormMutexKey(i)) : i \in Others}, Payload : Payloads, about : Others] :
     m.Channel = KspChannel(FormMutexKey(m.about))}

KspInv ==
  /\ kspChan \in Seq(KspMsg) /\ Len(kspChan) <= KspCap
  /\ listener \in {"wait", "expire", "expiring", "gone"}
  /\ listener \in {"wait", "gone"} => expired = {}
  /\ ExpiryNamesEntry

\* Steps that leave the channel and the listener alone.
LEMMA KspFrame ==
  ASSUME KspInv, UNCHANGED <<kspChan, listener, expired>>
  PROVE  KspInv'
BY Zenon DEF KspInv, KspMsg, ExpiryNamesEntry

\* Taking the prefix off the channel of a lock key gives the key.
LEMMA ChannelKey ==
  ASSUME NEW i \in Others, NEW key \in extractStreamnameFromKspChannel(KspChannel(FormMutexKey(i)))
  PROVE  key = FormMutexKey(i)
<1> DEFINE k == FormMutexKey(i)
<1>1. k \in Seq(STRING)
  BY LifeAssumption DEF LifeAssumption, FormMutexKey
<1> HIDE DEF k
<1>2. Tail(<<KeySpacePrefix>> \o k) = k
  BY <1>1 DEF KeySpacePrefix
<1> QED BY <1>2, Zenon DEF extractStreamnameFromKspChannel, KspChannel, k

\* A key that can be parsed is parsed into the entry it was formed from.
LEMMA KeyRoundTrip ==
  ASSUME NEW i \in Others, NEW p, NEW x \in CreateByKspNotification(FormMutexKey(i), p)
  PROVE  x = i
<1>1. /\ i.DataStreamName \in Seq(STRING) /\ i.DataStreamName # <<>> /\ i.IDInLBS \in STRING
      /\ i = [DataStreamName |-> i.DataStreamName, IDInLBS |-> i.IDInLBS]
  BY LifeAssumption, Zenon DEF LifeAssumption
<1>2. /\ Len(FormMutexKey(i)) = 2
      /\ x = [DataStreamName |-> <<FormMutexKey(i)[1]>>, IDInLBS |-> FormMutexKey(i)[2]]
  BY Zenon DEF CreateByKspNotification
<1>3. Len(i.DataStreamName) = 1
  BY <1>1, <1>2 DEF FormMutexKey
<1>4. FormMutexKey(i)[1] = i.DataStreamName[1] /\ FormMutexKey(i)[2] = i.IDInLBS
  BY <1>1, <1>3 DEF FormMutexKey
<1>5. <<i.DataStreamName[1]>> = i.DataStreamName
  BY <1>1, <1>3
<1> QED BY <1>1, <1>2, <1>4, <1>5, Zenon

\* An event that is published is dropped when the channel is full.
LEMMA KspFanIn ==
  ASSUME KspInv, FanIn
  PROVE  KspInv'
<1>1. PICK i \in Others, p \in Payloads :
        kspChan' = IF Len(kspChan) < KspCap
                   THEN Append(kspChan, [Channel |-> KspChannel(FormMutexKey(i)), Payload |-> p, about |-> i])
                   ELSE kspChan
  BY Zenon DEF FanIn
<1> DEFINE m == [Channel |-> KspChannel(FormMutexKey(i)), Payload |-> p, about |-> i]
<1>2. m \in KspMsg
  BY Zenon DEF KspMsg
<1> HIDE DEF m
<1>3. kspChan' = kspChan \/ (Len(kspChan) < KspCap /\ kspChan' = Append(kspChan, m))
  BY <1>1, Zenon DEF m
<1>4. kspChan' \in Seq(KspMsg) /\ Len(kspChan') <= KspCap
  <2>1. kspChan \in Seq(KspMsg) /\ Len(kspChan) <= KspCap /\ KspCap \in Nat
    BY Sizes, Zenon DEF KspInv
  <2>2. Append(kspChan, m) \in Seq(KspMsg) /\ Len(Append(kspChan, m)) = Len(kspChan) + 1
    BY <1>2, <2>1
  <2> QED BY <1>3, <2>1, <2>2
<1>5. UNCHANGED <<listener, expired>>
  BY OutsideTouches, Zenon
<1> QED BY <1>4, <1>5, Zenon DEF KspInv, KspMsg, ExpiryNamesEntry

\* The first event is taken out of the channel.
LEMMA KspTail ==
  ASSUME KspInv, kspChan # <<>>, kspChan' = Tail(kspChan)
  PROVE  Head(kspChan) \in KspMsg /\ kspChan' \in Seq(KspMsg) /\ Len(kspChan') <= KspCap
BY Sizes DEF KspInv

\* The listener reads the event as the entry it is about, or not at all.
LEMMA KspTakes ==
  ASSUME KspInv, ListenerTakes
  PROVE  KspInv'
<1> DEFINE msg == Head(kspChan)
<1>1. msg \in KspMsg /\ kspChan' \in Seq(KspMsg) /\ Len(kspChan') <= KspCap
  BY KspTail, Zenon DEF ListenerTakes
<1>2. msg.about \in Others /\ msg.Channel = KspChannel(FormMutexKey(msg.about))
  BY <1>1, Zenon DEF KspMsg
<1>3. ASSUME NEW x \in expired' PROVE x.info = x.about
  <2>1. PICK key \in extractStreamnameFromKspChannel(msg.Channel) :
          \E j \in CreateByKspNotification(key, msg.Payload) : x = [info |-> j, about |-> msg.about]
    BY <1>3, Zenon DEF ListenerTakes
  <2>2. PICK j \in CreateByKspNotification(key, msg.Payload) : x = [info |-> j, about |-> msg.about]
    BY <2>1, Zenon
  <2>3. key = FormMutexKey(msg.about)
    BY <1>2, <2>1, ChannelKey, Zenon
  <2>4. j = msg.about
    <3> HIDE DEF msg
    <3>1. j \in CreateByKspNotification(FormMutexKey(msg.about), msg.Payload)
      BY <2>2, <2>3, Zenon
    <3> QED BY <1>2, <3>1, KeyRoundTrip, Zenon
  <2> QED BY <1>2, <2>2, <2>4, Zenon
<1>4. listener' \in {"wait", "expire"} /\ (listener' = "wait" => expired' = {})
  <2> DEFINE infos == UNION {CreateByKspNotification(key, msg.Payload) :
                               key \in extractStreamnameFromKspChannel(msg.Channel)}
  <2>1. /\ expired' = {[info |-> i, about |-> msg.about] : i \in infos}
        /\ listener' = IF infos = {} THEN "wait" ELSE "expire"
    BY Zenon DEF ListenerTakes
  <2> HIDE DEF infos, msg
  <2> QED BY <2>1, Zenon
<1> QED BY <1>1, <1>3, <1>4, Zenon DEF KspInv, KspMsg, ExpiryNamesEntry

\* Every step preserves the invariant.
LEMMA KspStep == KspInv /\ [Next]_vars => KspInv'
<1> SUFFICES ASSUME KspInv, [Next]_vars PROVE KspInv'
  BY Zenon
<1>1. CASE Construct \/ Start \/ CloseRedis \/ UNCHANGED vars
  <2>1. UNCHANGED kspChan
    BY <1>1, Zenon DEF Construct, Start, CloseRedis, vars, clientVars, outside, keyspace
  <2> QED BY <1>1, <2>1, OutsideTouches, KspFrame, Zenon
<1>2. CASE ReaderStep \/ BrokerStep
  BY <1>2, ReaderTouches, BrokerTouches, KspFrame, Zenon
<1>3. ASSUME NEW e \in Entries, ExtenderStep(e) \/ AppDoneStream(e)
      PROVE  KspInv'
  BY <1>3, ExtenderTouches, AppTouches, KspFrame, Zenon
<1>4. CASE SendExpired \/ ExpiredOver \/ ListenerExits
  BY <1>4, Zenon DEF SendExpired, ExpiredOver, SendOver, ListenerExits, outside, keyspace, KspInv, KspMsg, ExpiryNamesEntry
<1>5. ASSUME NEW k \in Closers, CallDone(k) \/ DoneStep(k)
      PROVE  KspInv'
  <2>1. UNCHANGED <<listener, expired>>
    BY <1>5, DoneTouches, Zenon
  <2>2. CASE DrainReceive(k)
    BY <2>1, <2>2, KspTail, Zenon DEF DrainReceive, KspInv, KspMsg, ExpiryNamesEntry
  <2>3. CASE CallDone(k) \/ DoneNext(k) \/ DrainCheck(k) \/ DoneClose(k) \/ DoneCancel(k) \/ DoneUnsubscribe(k)
    <3>1. UNCHANGED kspChan
      BY <2>3, Zenon DEF CallDone, DoneNext, DrainCheck, DoneClose, DoneCancel, DoneUnsubscribe, keyspace
    <3> QED BY <2>1, <3>1, KspFrame, Zenon
  <2> QED BY <1>5, <2>2, <2>3, Zenon DEF DoneStep
<1> QED BY <1>1, <1>2, <1>3, <1>4, <1>5, KspFanIn, KspTakes, Zenon DEF Next, Running, BrokerStep, ListenerStep

\* The invariant holds at first.
LEMMA KspStart == Init => KspInv
<1> SUFFICES ASSUME Init PROVE KspInv
  BY Zenon
<1>1. listener = "wait" /\ kspChan = <<>> /\ expired = {}
  BY Zenon DEF Init
<1>2. kspChan \in Seq(KspMsg) /\ Len(kspChan) <= KspCap
  BY <1>1, Sizes
<1> QED BY <1>1, <1>2, Zenon DEF KspInv, ExpiryNamesEntry

\* A StreamExpired that listenKsp sends names the entry whose lock expired, for
\* every stream name: forming a lock key and parsing the event about it are
\* inverse, and a name that contains the separator is never misread.
THEOREM ExpiryNamesEntryAlways == Spec => []ExpiryNamesEntry
<1>1. KspInv => ExpiryNamesEntry
  BY Zenon DEF KspInv
<1> QED BY <1>1, KspStart, KspStep, PTL DEF Spec

(***************************************************************************)
(* Closing the broker.  The calls of Done come one after the other, each   *)
(* after the one before has failed; the output is closed by a call that    *)
(* got as far as cleanup, and that fails only with its subscription.       *)
(***************************************************************************)
CloseInv ==
  /\ shut \subseteq {"flag", "ctx", "output"}
  /\ pubSub \in {"open", "closed", "broken"}
  /\ done \in [Closers -> {"out", "streams", "drain", "receive", "close",
                           "closing", "unsubscribe", "returned", "failed"}]
  /\ \A k \in Closers : done[k] # "out" => \A j \in 1 .. k - 1 : done[j] = "failed"
  /\ \A k \in Closers : k \in closing => done[k] = "closing" /\ k \notin closed
  /\ "output" \in shut =>
       \E j \in Closers : \/ done[j] = "closing" /\ j \in closed
                          \/ done[j] \in {"unsubscribe", "returned"}
                          \/ done[j] = "failed" /\ pubSub = "broken"

\* Steps that leave the calls, the broker and the subscription alone.
LEMMA CloseFrame ==
  ASSUME CloseInv, UNCHANGED <<done, closing, closed, shut, pubSub>>
  PROVE  CloseInv'
BY Zenon DEF CloseInv

\* Steps of Done before it closes the broker.
LEMMA CloseBefore ==
  ASSUME CloseInv, NEW k \in Closers,
         CallDone(k) \/ DoneNext(k) \/ DrainCheck(k) \/ DrainReceive(k)
  PROVE  CloseInv'
<1>1. CASE CallDone(k)
  BY <1>1, Sizes DEF CloseInv, CallDone, DoneGoto, contract, keyspace
<1>2. CASE DoneNext(k)
  BY <1>2, Sizes DEF CloseInv, DoneNext, DoneGoto, contract, keyspace
<1>3. CASE DrainCheck(k)
  BY <1>3, Sizes DEF CloseInv, DrainCheck, DoneGoto, contract, keyspace
<1>4. CASE DrainReceive(k)
  BY <1>4, Sizes DEF CloseInv, DrainReceive, DoneGoto, contract
<1> QED BY <1>1, <1>2, <1>3, <1>4, Zenon

\* Steps of Done from the call of Close on, and the return of that call.
LEMMA CloseAfter ==
  ASSUME CloseInv, NEW k \in Closers,
         DoneClose(k) \/ DoneCancel(k) \/ DoneUnsubscribe(k) \/ BrokerCloses(k)
  PROVE  CloseInv'
<1>1. CASE DoneClose(k)
  BY <1>1, Sizes DEF CloseInv, DoneClose, CloseEnters, DoneGoto, keyspace
<1>2. CASE DoneCancel(k)
  <2>1. /\ UNCHANGED <<closing, closed, pubSub>>
        /\ shut' \in {shut, shut \cup {"ctx"}}
        /\ done[k] = "closing" /\ k \in closed /\ done' = [done EXCEPT ![k] = "unsubscribe"]
    BY <1>2, Zenon DEF DoneCancel, ContractCancel, DoneGoto, contract, keyspace
  <2> QED BY <2>1, Sizes DEF CloseInv
<1>3. CASE DoneUnsubscribe(k)
  <2>1. /\ UNCHANGED <<closing, closed, shut>> /\ done[k] = "unsubscribe"
        /\ \/ pubSub' = "closed" /\ done' = [done EXCEPT ![k] = "returned"]
           \/ pubSub' = "broken" /\ done' = [done EXCEPT ![k] = "failed"]
    BY <1>3, Zenon DEF DoneUnsubscribe, DoneGoto, contract
  <2> QED BY <2>1, Sizes DEF CloseInv
<1>4. CASE BrokerCloses(k)
  BY <1>4, Sizes, Zenon DEF CloseInv, BrokerCloses, CloseReturns,
           clientVars, outside, calls, keyspace
<1> QED BY <1>1, <1>2, <1>3, <1>4, Zenon

\* Every step preserves the invariant.
LEMMA CloseStep == CloseInv /\ [Next]_vars => CloseInv'
<1> SUFFICES ASSUME CloseInv, [Next]_vars PROVE CloseInv'
  BY Zenon
<1>1. CASE Construct \/ Start \/ FanIn \/ CloseRedis \/ UNCHANGED vars
  BY <1>1, OutsideTouches, CloseFrame, Zenon
<1>2. CASE ReaderStep \/ ListenerStep
  BY <1>2, ReaderTouches, ListenerTouches, CloseFrame, Zenon
<1>3. ASSUME NEW e \in Entries, ExtenderStep(e) \/ AppDoneStream(e)
      PROVE  CloseInv'
  BY <1>3, ExtenderTouches, AppTouches, CloseFrame, Zenon
<1>4. ASSUME NEW k \in Closers, CallDone(k) \/ DoneStep(k) \/ BrokerCloses(k)
      PROVE  CloseInv'
  BY <1>4, CloseBefore, CloseAfter, Zenon DEF DoneStep
<1>5. CASE (\E g \in Senders : BrokerAccepts(g) \/ BrokerRefuses(g)) \/ BrokerPanics
  <2>1. UNCHANGED <<closing, closed, shut>>
    BY <1>5, Zenon DEF BrokerAccepts, BrokerRefuses, BrokerPanics, SendAccepted, SendsRefused, SendPanics
  <2>2. UNCHANGED <<done, pubSub>>
    BY <1>5, BrokerTouches, Zenon DEF BrokerStep
  <2> QED BY <2>1, <2>2, CloseFrame, Zenon
<1>6. CASE AppCancels
  <2>1. UNCHANGED <<done, pubSub>>
    BY <1>6, BrokerTouches, Zenon DEF BrokerStep
  <2> QED BY <1>6, <2>1, Zenon DEF AppCancels, ContractCancel, CloseInv
<1> QED BY <1>1, <1>2, <1>3, <1>4, <1>5, <1>6, Zenon DEF Next, Running

\* The invariant holds at first.
LEMMA CloseStart == Init => CloseInv
BY Zenon DEF Init, ContractInit, CloseInv

\* However often Done is called after an error, a call comes to close a broker
\* that is already closed only when an earlier one failed to close its
\* subscription.
THEOREM SecondCloseOnlyAfterUnsubscribe == Spec => []NoSecondClose
<1>1. CloseInv => NoSecondClose
  BY Sizes DEF CloseInv, NoSecondClose
<1> QED BY <1>1, CloseStart, CloseStep, PTL DEF Spec

(***************************************************************************)
(* Induction over the natural numbers, as a set, and the two recursive     *)
(* definitions of the model: the fold over the options, and Pow2.  What is *)
(* shown first is that a function satisfies the recursive equation.        *)
(***************************************************************************)
\* Induction over the natural numbers, for a set.
LEMMA SetInduction ==
  ASSUME NEW S, 0 \in S, \A n \in Nat : n \in S => n + 1 \in S
  PROVE  Nat \subseteq S
<1> DEFINE T == Nat \ S
<1> SUFFICES ASSUME T # {} PROVE FALSE
  BY Zenon
<1>1. PICK x \in T : \A y \in T : ~(<<y, x>> \in OpToRel(<, Nat))
  BY NatLessThanWellFounded, WFMin, Zenon
<1>2. x \in Nat /\ x # 0 /\ x \notin S
  BY Zenon
<1>3. \A y \in T : ~(y < x)
  BY <1>1, Zenon DEF OpToRel
<1>4. x - 1 \in Nat /\ x - 1 < x /\ (x - 1) + 1 = x
  BY <1>2
<1>5. x - 1 \in S
  BY <1>3, <1>4, Zenon
<1> QED BY <1>2, <1>4, <1>5, Zenon

\* The largest element of a set that reaches up to n.
LEMMA MaxIs ==
  ASSUME NEW n \in Nat, NEW s \in SUBSET (1 .. n), n \in s
  PROVE  Max(s) = n
<1>1. \A y \in s : n >= y
  OBVIOUS
<1>2. \A x \in s : (\A y \in s : x >= y) => x = n
  OBVIOUS
<1> QED BY <1>1, <1>2, Zenon DEF Max

\* A valid recovery configuration, whatever the name of its stream.
Recovers(c) ==
  /\ {"ReconciliationInterval", "MinIdleTime", "BatchSize", "MaxRetries", "DLQStream", "DLQMaxLen"}
       \subseteq DOMAIN c
  /\ c.ReconciliationInterval \in Int
  /\ RecoveryConfigValidate(c)

\* A configuration that the retries and the recovery can work with.
Sound(r) ==
  /\ {"retry", "recovery"} \subseteq DOMAIN r
  /\ r.retry \in RetryConfig /\ RetryConfigValidate(r.retry)
  /\ Recovers(r.recovery)

LEMMA RecoversIf == \A c \in RecoveryConfig : RecoveryConfigValidate(c) => Recovers(c)
BY Zenon DEF RecoveryConfig, Recovers

\* An option that is accepted keeps a configuration sound.
LEMMA ApplySound ==
  ASSUME NEW clients, \A r \in clients : Sound(r), NEW o,
         o.field = "retry" => o.value \in RetryConfig,
         o.field = "recovery" => o.value \in RecoveryConfig
  PROVE  \A r \in Apply(clients, o) : Sound(r)
<1> SUFFICES ASSUME NEW r \in clients, OptionAccepted(o)
             PROVE  Sound([r EXCEPT ![o.field] = o.value])
  BY Zenon DEF Apply
<1>1. Sound(r)
  BY Zenon
<1>2. /\ o.field = "retry" => RetryConfigValidate(o.value)
      /\ o.field = "recovery" => Recovers(o.value)
  BY RecoversIf, Zenon DEF OptionAccepted
<1> DEFINE q == [r EXCEPT ![o.field] = o.value]
<1>3. /\ DOMAIN q = DOMAIN r
      /\ q.retry = IF o.field = "retry" THEN o.value ELSE r.retry
      /\ q.recovery = IF o.field = "recovery" THEN o.value ELSE r.recovery
  BY <1>1, Zenon DEF Sound
<1> HIDE DEF q
<1>4. Sound(q)
  BY <1>1, <1>2, <1>3, Zenon DEF Sound
<1> QED BY <1>4, Zenon DEF q

\* g is the fold of the first n options, from base: MapThenFoldSet defines it
\* on the sets of indices, the largest index last.
FoldUpTo(base, opts, n, g) ==
  g = [s \in SUBSET (1 .. n) |-> IF s = {} THEN base ELSE Apply(g[s \ {Max(s)}], opts[Max(s)])]

\* There is such a function for every n.
LEMMA FoldUpToExists ==
  ASSUME NEW base, NEW opts
  PROVE  \A n \in Nat : \E g : FoldUpTo(base, opts, n, g)
<1> DEFINE S == {n \in Nat : \E g : FoldUpTo(base, opts, n, g)}
<1>1. 0 \in S
  <2> DEFINE g == [s \in SUBSET (1 .. 0) |-> base]
  <2>1. \A s \in SUBSET (1 .. 0) : s = {}
    OBVIOUS
  <2>2. FoldUpTo(base, opts, 0, g)
    BY <2>1, Zenon DEF FoldUpTo
  <2> QED BY <2>2, Zenon
<1>2. ASSUME NEW n \in Nat, n \in S PROVE n + 1 \in S
  <2>1. PICK g : FoldUpTo(base, opts, n, g)
    BY <1>2, Zenon
  <2> DEFINE h == [s \in SUBSET (1 .. n + 1) |->
                     IF n + 1 \in s THEN Apply(g[s \ {n + 1}], opts[n + 1]) ELSE g[s]]
             e(s) == IF s = {} THEN base ELSE Apply(h[s \ {Max(s)}], opts[Max(s)])
  <2>2. ASSUME NEW s \in SUBSET (1 .. n + 1) PROVE h[s] = e(s)
    <3>1. CASE n + 1 \in s
      <4>1. Max(s) = n + 1
        BY <3>1, MaxIs
      <4>2. h[s \ {n + 1}] = g[s \ {n + 1}]
        BY Zenon
      <4> QED BY <3>1, <4>1, <4>2, Zenon
    <3>2. CASE n + 1 \notin s
      <4>1. s \in SUBSET (1 .. n)
        BY <3>2
      <4>2. h[s] = g[s] /\ h[s \ {Max(s)}] = g[s \ {Max(s)}]
        BY <3>2, <4>1, Zenon
      <4>3. g[s] = IF s = {} THEN base ELSE Apply(g[s \ {Max(s)}], opts[Max(s)])
        BY <2>1, <4>1, Zenon DEF FoldUpTo
      <4> QED BY <4>2, <4>3, Zenon
    <3> QED BY <3>1, <3>2, Zenon
  <2>3. h = [s \in SUBSET (1 .. n + 1) |-> h[s]]
    BY Zenon
  <2> HIDE DEF h
  <2>4. FoldUpTo(base, opts, n + 1, h)
    BY <2>2, <2>3, Zenon DEF FoldUpTo
  <2> QED BY <2>4
<1> HIDE DEF S
<1>3. Nat \subseteq S
  BY <1>1, <1>2, SetInduction, Zenon
<1> QED BY <1>3, Zenon DEF S

\* g doubles up to n, from 1.
PowUpTo(n, g) == g[0] = 1 /\ \A k \in 0 .. n - 1 : g[k + 1] = 2 * g[k]

\* There is such a function for every n.
LEMMA PowUpToExists == \A n \in Nat : \E g : PowUpTo(n, g)
<1> DEFINE S == {n \in Nat : \E g : PowUpTo(n, g)}
<1>1. 0 \in S
  <2>1. PowUpTo(0, [k \in {0} |-> 1])
    BY DEF PowUpTo
  <2> QED BY <2>1, Zenon
<1>2. ASSUME NEW n \in Nat, n \in S PROVE n + 1 \in S
  <2>1. PICK g : PowUpTo(n, g)
    BY <1>2, Zenon
  <2> DEFINE h == [k \in 0 .. n + 1 |-> IF k = n + 1 THEN 2 * g[n] ELSE g[k]]
  <2>2. PowUpTo(n + 1, h)
    BY <2>1 DEF PowUpTo
  <2> HIDE DEF h
  <2> QED BY <2>2
<1> HIDE DEF S
<1>3. Nat \subseteq S
  BY <1>1, <1>2, SetInduction, Zenon
<1> QED BY <1>3, Zenon DEF S

\* Two of them agree as far as both go.
LEMMA PowUpToUnique ==
  ASSUME NEW n \in Nat, NEW m \in Nat, NEW g, NEW h, PowUpTo(n, g), PowUpTo(m, h)
  PROVE  \A k \in Nat : k <= n /\ k <= m => g[k] = h[k]
<1> DEFINE S == {k \in Nat : k <= n /\ k <= m => g[k] = h[k]}
<1>1. 0 \in S
  BY Zenon DEF PowUpTo
<1>2. ASSUME NEW k \in Nat, k \in S PROVE k + 1 \in S
  BY <1>2 DEF PowUpTo
<1> HIDE DEF S
<1>3. Nat \subseteq S
  BY <1>1, <1>2, SetInduction, Zenon
<1> QED BY <1>3, Zenon DEF S

\* Pow2 satisfies the equation that defines it.
LEMMA Pow2Def == Pow2[0] = 1 /\ \A n \in Nat : Pow2[n + 1] = 2 * Pow2[n]
<1> DEFINE G(n) == CHOOSE g : PowUpTo(n, g)
           f == [n \in Nat |-> G(n)[n]]
<1>1. \A n \in Nat : PowUpTo(n, G(n))
  BY PowUpToExists, Zenon
<1> HIDE DEF G
<1>2. f[0] = 1
  BY <1>1, Zenon DEF PowUpTo
<1>3. ASSUME NEW n \in Nat PROVE f[n + 1] = 2 * f[n]
  <2>1. PowUpTo(n, G(n)) /\ PowUpTo(n + 1, G(n + 1))
    BY <1>1
  <2>2. G(n + 1)[n + 1] = 2 * G(n + 1)[n]
    BY <2>1 DEF PowUpTo
  <2>3. G(n + 1)[n] = G(n)[n]
    BY <2>1, PowUpToUnique
  <2> QED BY <2>2, <2>3
<1>4. f = [n \in Nat |-> IF n = 0 THEN 1 ELSE 2 * f[n - 1]]
  <2>1. ASSUME NEW n \in Nat PROVE f[n] = IF n = 0 THEN 1 ELSE 2 * f[n - 1]
    <3>1. CASE n = 0
      BY <1>2, <3>1, Zenon
    <3>2. CASE n # 0
      <4>1. n - 1 \in Nat /\ (n - 1) + 1 = n
        BY <3>2
      <4>2. f[(n - 1) + 1] = 2 * f[n - 1]
        BY <1>3, <4>1, Zenon
      <4> HIDE DEF f
      <4> QED BY <3>2, <4>1, <4>2, Zenon
    <3> QED BY <3>1, <3>2, Zenon
  <2>2. f = [n \in Nat |-> f[n]]
    BY Zenon
  <2> HIDE DEF f
  <2> QED BY <2>1, <2>2, Zenon
<1> HIDE DEF f
<1>5. Pow2 = [n \in Nat |-> IF n = 0 THEN 1 ELSE 2 * Pow2[n - 1]]
  BY <1>4, Zenon DEF Pow2
<1> HIDE DEF Pow2
<1>6. \A n \in Nat : Pow2[n] = IF n = 0 THEN 1 ELSE 2 * Pow2[n - 1]
  BY <1>5, Zenon
<1> QED BY <1>6
\* Its values are natural numbers.
LEMMA Pow2Nat == \A n \in Nat : Pow2[n] \in Nat
<1> DEFINE S == {n \in Nat : Pow2[n] \in Nat}
<1>1. 0 \in S
  BY Pow2Def
<1>2. ASSUME NEW n \in Nat, n \in S PROVE n + 1 \in S
  BY <1>2, Pow2Def
<1> HIDE DEF S
<1>3. Nat \subseteq S
  BY <1>1, <1>2, SetInduction, Zenon
<1> QED BY <1>3, Zenon DEF S

(***************************************************************************)
(* The configuration of a client.                                          *)
(***************************************************************************)
\* Whatever options are accepted, in whatever order, the result is sound.
LEMMA FoldSound ==
  ASSUME NEW base, \A r \in base : Sound(r), NEW opts \in OptionLists
  PROVE  \A r \in FoldInOrder(Apply, base, opts) : Sound(r)
<1> DEFINE N == Len(opts)
           it == CHOOSE g : FoldUpTo(base, opts, N, g)
<1>1. N \in Nat /\ DOMAIN opts = 1 .. N
  BY LifeAssumption, Zenon DEF LifeAssumption
<1>2. \A n \in 1 .. N : /\ opts[n].field = "retry" => opts[n].value \in RetryConfig
                        /\ opts[n].field = "recovery" => opts[n].value \in RecoveryConfig
  BY <1>1, LifeAssumption, Zenon DEF LifeAssumption
<1>3. FoldInOrder(Apply, base, opts) = it[1 .. N]
  BY <1>1, Zenon DEF FoldInOrder, MapThenFoldSet, FoldUpTo
<1>4. FoldUpTo(base, opts, N, it)
  BY <1>1, FoldUpToExists, Zenon
<1> HIDE DEF it, N
<1>5. \A s \in SUBSET (1 .. N) : it[s] = IF s = {} THEN base ELSE Apply(it[s \ {Max(s)}], opts[Max(s)])
  BY <1>4, Zenon DEF FoldUpTo
<1> DEFINE S == {n \in Nat : n <= N => \A s \in SUBSET (1 .. n) : \A r \in it[s] : Sound(r)}
<1>6. 0 \in S
  <2>1. \A s \in SUBSET (1 .. 0) : s = {}
    OBVIOUS
  <2>2. it[{}] = base
    BY <1>5, Zenon
  <2> QED BY <2>1, <2>2, Zenon
<1>7. ASSUME NEW n \in Nat, n \in S PROVE n + 1 \in S
  <2> SUFFICES ASSUME n + 1 <= N, NEW s \in SUBSET (1 .. n + 1)
               PROVE  \A r \in it[s] : Sound(r)
    OBVIOUS
  <2>1. n <= N /\ \A q \in SUBSET (1 .. n) : \A r \in it[q] : Sound(r)
    BY <1>1, <1>7
  <2>2. CASE n + 1 \notin s
    <3>1. s \in SUBSET (1 .. n)
      BY <2>2
    <3> QED BY <2>1, <3>1, Zenon
  <2>3. CASE n + 1 \in s
    <3>1. Max(s) = n + 1 /\ s \in SUBSET (1 .. N) /\ s \ {n + 1} \in SUBSET (1 .. n) /\ n + 1 \in 1 .. N
      BY <1>1, <2>3, MaxIs
    <3>2. it[s] = Apply(it[s \ {n + 1}], opts[n + 1])
      BY <1>5, <2>3, <3>1, Zenon
    <3> QED BY <1>2, <2>1, <3>1, <3>2, ApplySound
  <2> QED BY <2>2, <2>3, Zenon
<1> HIDE DEF S
<1>8. Nat \subseteq S
  BY <1>6, <1>7, SetInduction, Zenon
<1>9. N \in S
  BY <1>1, <1>8, Zenon
<1> QED BY <1>1, <1>3, <1>9 DEF S

\* What NewRedisStreamClient returns is sound, and names a dead-letter stream.
LEMMA NewSound ==
  ASSUME NEW pod \in BOOLEAN, NEW opts \in OptionLists, NEW r \in NewRedisStreamClient(pod, opts)
  PROVE  Sound(r) /\ r.recovery.DLQStream # NoName
<1> DEFINE base == IF pod THEN {Defaults} ELSE {}
<1>1. \A q \in base : Sound(q)
  BY ConfigAssumption, RecoversIf, Zenon DEF ConfigAssumption, Sound
<1> HIDE DEF base
<1>2. PICK q \in FoldInOrder(Apply, base, opts) : r = WithDLQ(q)
  BY Zenon DEF NewRedisStreamClient, base
<1>3. Sound(q)
  BY <1>1, FoldSound, Zenon
<1>4. CASE q.recovery.DLQStream # NoName
  BY <1>2, <1>3, <1>4, Zenon DEF WithDLQ
<1>5. CASE q.recovery.DLQStream = NoName
  <2>1. r = [q EXCEPT !.recovery.DLQStream = "lbs-dlq"]
    BY <1>2, <1>5, Zenon DEF WithDLQ
  <2>2. /\ DOMAIN r = DOMAIN q /\ r.retry = q.retry
        /\ r.recovery = [q.recovery EXCEPT !.DLQStream = "lbs-dlq"]
    BY <1>3, <2>1, Zenon DEF Sound
  <2>3. ASSUME NEW c, Recovers(c)
        PROVE  LET d == [c EXCEPT !.DLQStream = "lbs-dlq"]
               IN Recovers(d) /\ d.DLQStream = "lbs-dlq"
    BY <2>3, Zenon DEF Recovers, RecoveryConfigValidate
  <2> QED BY <1>3, <2>2, <2>3, Zenon DEF Sound, NoName
<1> QED BY <1>4, <1>5, Zenon

\* The delay after n failures, as documented: doubled up to the maximum.
DelayAfter(n) ==
  LET doubled == Retry.InitialRetryDelay * Pow2[n]
  IN IF doubled > Retry.MaxRetryDelay THEN Retry.MaxRetryDelay ELSE doubled

Stopping == {"term", "terminating", "gone"}

\* The configuration and the retries.  Before Init nothing was counted; the
\* reader has counted the failure that it waits for.
RetryInv ==
  /\ \A r \in client : Sound(r) /\ r.recovery.DLQStream # NoName
  /\ consecutiveErrors \in Nat /\ failures = consecutiveErrors
  /\ ~started => consecutiveErrors = 0 /\ reader = "check"
  /\ reader = "backoff" => failures > 0
  /\ started =>
       /\ client # {}
       /\ currentRetryDelay \in 1 .. Retry.MaxRetryDelay
       /\ reader \notin Stopping =>
            /\ Retry.MaxRetries >= 0 => consecutiveErrors <= Retry.MaxRetries
            /\ currentRetryDelay = DelayAfter(IF reader = "backoff" THEN failures - 1 ELSE failures)

\* Steps that leave the configuration and the reader alone.
LEMMA RetryFrame ==
  ASSUME RetryInv, UNCHANGED <<client, started, reader, consecutiveErrors, currentRetryDelay, failures>>
  PROVE  RetryInv'
<1>1. Retry' = Retry
  BY Zenon DEF Retry
<1> QED BY <1>1, Zenon DEF RetryInv, DelayAfter

\* A client has a valid retry configuration.
LEMMA RetryType ==
  ASSUME RetryInv, client # {}
  PROVE  Retry \in RetryConfig /\ RetryConfigValidate(Retry)
<1> DEFINE r == CHOOSE x \in client : TRUE
<1>1. r \in client
  BY Zenon
<1>2. Sound(r)
  BY <1>1, Zenon DEF RetryInv
<1> QED BY <1>2, Zenon DEF Retry, Sound

\* Before the first failure the delay is the initial one; the one after the
\* next failure is NextDelay of the last.
LEMMA DelayFirst ==
  ASSUME RetryInv, client # {}
  PROVE  DelayAfter(0) = Retry.InitialRetryDelay
BY RetryType, Pow2Def DEF DelayAfter, RetryConfig, RetryConfigValidate

LEMMA DelayNext ==
  ASSUME RetryInv, client # {}, NEW n \in Nat
  PROVE  DelayAfter(n + 1) = NextDelay(Retry, DelayAfter(n))
<1> DEFINE x == Retry.InitialRetryDelay * Pow2[n]
<1>1. Retry.InitialRetryDelay \in Int /\ Retry.MaxRetryDelay \in Int /\ Retry.MaxRetryDelay > 0
  BY RetryType, Zenon DEF RetryConfig, RetryConfigValidate
<1>2. Pow2[n] \in Nat /\ Pow2[n + 1] = 2 * Pow2[n]
  BY Pow2Def, Pow2Nat, Zenon
<1>3. x \in Int /\ Retry.InitialRetryDelay * Pow2[n + 1] = 2 * x
  BY <1>1, <1>2
<1> HIDE DEF x
<1>4. DelayAfter(n) = IF x > Retry.MaxRetryDelay THEN Retry.MaxRetryDelay ELSE x
  BY Zenon DEF DelayAfter, x
<1>5. DelayAfter(n + 1) = IF 2 * x > Retry.MaxRetryDelay THEN Retry.MaxRetryDelay ELSE 2 * x
  BY <1>3, Zenon DEF DelayAfter
<1> QED BY <1>1, <1>3, <1>4, <1>5 DEF NextDelay

\* The steps of readLBSStream and processLBSMessages.
LEMMA RetryReader ==
  ASSUME RetryInv, started, ReaderStep
  PROVE  RetryInv'
<1> DEFINE R == Retry
<1>0. /\ R.MaxRetries \in Int /\ R.InitialRetryDelay \in 1 .. R.MaxRetryDelay /\ R.MaxRetryDelay \in Int
      /\ client # {}
  BY RetryType DEF RetryInv, RetryConfig, RetryConfigValidate
<1>1. UNCHANGED <<client, started>> /\ Retry' = R /\ \A n : DelayAfter(n)' = DelayAfter(n)
  BY ReaderTouches DEF Retry, DelayAfter
<1>2. DelayAfter(0) = R.InitialRetryDelay
  BY <1>0, DelayFirst, Zenon
<1>3. CASE ReadCheck \/ ReadCancelled \/ LockEntry \/ ReaderSends \/ AddedOver
  <2>1. UNCHANGED counters /\ (reader \in Stopping => reader' \in Stopping)
        /\ reader # "backoff" /\ reader' # "backoff"
    BY <1>3, Zenon DEF ReadCheck, ReadCancelled, LockEntry, ReaderSends, AddedOver, SendOver, ToNextEntry, Stopping
  <2> QED BY <1>1, <2>1, Zenon DEF RetryInv, counters
<1>4. CASE Deliver \/ TerminatedOver
  <2>1. /\ reader # "backoff" /\ reader' # "backoff" /\ consecutiveErrors' = 0 /\ failures' = 0
        /\ \/ currentRetryDelay' = R.InitialRetryDelay
           \/ currentRetryDelay' = currentRetryDelay /\ ~(consecutiveErrors > 0) /\ reader \notin Stopping
    BY <1>4, Zenon DEF Deliver, TerminatedOver, SendOver, ToNextEntry, Stopping
  <2>2. currentRetryDelay' = R.InitialRetryDelay
    BY <1>2, <2>1 DEF RetryInv
  <2> QED BY <1>0, <1>1, <1>2, <2>1, <2>2, Zenon DEF RetryInv
<1>5. CASE ReadFails
  BY <1>0, <1>1, <1>5 DEF ReadFails, RetryInv, Stopping
<1>6. CASE BackOff
  <2>1. reader = "backoff" /\ failures - 1 \in Nat /\ UNCHANGED <<consecutiveErrors, failures>>
        /\ currentRetryDelay = DelayAfter(failures - 1)
    BY <1>6 DEF BackOff, RetryInv, Stopping
  <2>2. DelayAfter(failures) = NextDelay(R, currentRetryDelay)
    BY <1>0, <2>1, DelayNext, failures = (failures - 1) + 1, Zenon DEF RetryInv
  <2>3. CASE reader' = "check" /\ currentRetryDelay' = NextDelay(R, currentRetryDelay)
    <3>1. currentRetryDelay' \in 1 .. R.MaxRetryDelay
      BY <1>0, <2>3 DEF NextDelay, RetryInv
    <3> QED BY <1>1, <2>1, <2>2, <2>3, <3>1, Zenon DEF RetryInv, Stopping
  <2>4. CASE reader' = "term" /\ UNCHANGED currentRetryDelay
    BY <1>1, <2>1, <2>4, Zenon DEF RetryInv, Stopping
  <2> QED BY <1>6, <2>3, <2>4, Zenon DEF BackOff
<1> QED BY <1>3, <1>4, <1>5, <1>6, Zenon DEF ReaderStep

\* Every step preserves the invariant.
LEMMA RetryStep == RetryInv /\ [Next]_vars => RetryInv'
<1> SUFFICES ASSUME RetryInv, [Next]_vars PROVE RetryInv'
  BY Zenon
<1>1. CASE started /\ ReaderStep
  BY <1>1, RetryReader, Zenon
<1>2. CASE Construct
  <2>1. client = {} /\ ~started /\ started' = started
        /\ UNCHANGED <<reader, consecutiveErrors, failures>>
    BY <1>2, OutsideTouches, Zenon DEF Construct, RetryInv
  <2>2. \A r \in client' : Sound(r) /\ r.recovery.DLQStream # NoName
    BY <1>2, NewSound, Zenon DEF Construct
  <2> QED BY <2>1, <2>2, Zenon DEF RetryInv
<1>3. CASE Start
  <2>1. /\ client # {} /\ client' = client /\ ~started /\ currentRetryDelay' = Retry.InitialRetryDelay
        /\ UNCHANGED <<reader, consecutiveErrors, failures>>
    BY <1>3, OutsideTouches, Zenon DEF Start
  <2>2. Retry' = Retry /\ \A n : DelayAfter(n)' = DelayAfter(n)
    BY <2>1 DEF Retry, DelayAfter
  <2>3. DelayAfter(0) = Retry.InitialRetryDelay
    BY <2>1, DelayFirst, Zenon
  <2>4. Retry.InitialRetryDelay \in 1 .. Retry.MaxRetryDelay /\ Retry.MaxRetries \in Int
    BY <2>1, RetryType DEF RetryConfig, RetryConfigValidate
  <2> QED BY <2>1, <2>2, <2>3, <2>4, Zenon DEF RetryInv
<1>4. CASE ListenerStep
  BY <1>4, ListenerTouches, RetryFrame, Zenon
<1>5. CASE \E e \in Entries : ExtenderStep(e) \/ AppDoneStream(e)
  BY <1>5, ExtenderTouches, AppTouches, RetryFrame, Zenon
<1>6. CASE \E k \in Closers : CallDone(k) \/ DoneStep(k)
  BY <1>6, DoneTouches, RetryFrame, Zenon
<1>7. CASE BrokerStep
  BY <1>7, BrokerTouches, RetryFrame, Zenon
<1>8. CASE FanIn \/ CloseRedis \/ UNCHANGED vars
  <2>1. UNCHANGED <<client, started, currentRetryDelay>>
    BY <1>8, Zenon DEF FanIn, CloseRedis, vars, clientVars, outside, loops, reading, counters, config
  <2> QED BY <1>8, <2>1, OutsideTouches, RetryFrame, Zenon
<1> QED BY <1>1, <1>2, <1>3, <1>4, <1>5, <1>6, <1>7, <1>8, Zenon DEF Next, Running, BrokerStep

LEMMA RetryStart == Init => RetryInv
BY DEF Init, RetryInv

\* For every configuration and every list of options, whatever order the
\* options come in: the client meets what the recovery code relies on.
THEOREM ConfigAlwaysUsable == Spec => []ConfigUsable
<1>1. RetryInv => ConfigUsable
  <2> SUFFICES ASSUME RetryInv, NEW r \in client
               PROVE  LET interval == r.recovery.ReconciliationInterval IN
                      /\ r.recovery.BatchSize > 0 /\ r.recovery.MaxRetries >= 0 /\ r.recovery.MinIdleTime > 0
                      /\ r.recovery.DLQStream # NoName
                      /\ interval >= 10 =>
                           /\ nextReconciliationDelay(interval) # {}
                           /\ \A d \in nextReconciliationDelay(interval) : interval <= d /\ 10 * d < 11 * interval
    BY Zenon DEF ConfigUsable
  <2> DEFINE interval == r.recovery.ReconciliationInterval
  <2>1. /\ r.recovery.BatchSize > 0 /\ r.recovery.MaxRetries >= 0 /\ r.recovery.MinIdleTime > 0
        /\ r.recovery.DLQStream # NoName /\ interval \in Int
    BY Zenon DEF RetryInv, Sound, Recovers, RecoveryConfigValidate
  <2> HIDE DEF interval
  <2>2. ASSUME interval >= 10
        PROVE  /\ nextReconciliationDelay(interval) # {}
               /\ \A d \in nextReconciliationDelay(interval) : interval <= d /\ 10 * d < 11 * interval
    <3>1. nextReconciliationDelay(interval) = {interval + jitter : jitter \in 0 .. (interval \div 10) - 1}
      <4>1. ~(interval <= 0)
        BY <2>1, <2>2
      <4> QED BY <4>1, Zenon DEF nextReconciliationDelay
    <3>2. interval \div 10 \in Nat /\ interval \div 10 >= 1 /\ 10 * (interval \div 10) <= interval
      BY <2>1, <2>2
    <3> QED BY <2>1, <3>1, <3>2
  <2> QED BY <2>1, <2>2, Zenon DEF interval
<1> QED BY <1>1, RetryStart, RetryStep, PTL DEF Spec

\* For every retry configuration, the reader that waits after the n-th failure
\* in a row waits for the initial delay doubled n - 1 times, up to the maximum.
THEOREM BackoffAlwaysExact == Spec => []BackoffExact
<1>1. RetryInv => BackoffExact
  BY Zenon DEF RetryInv, BackoffExact, DelayAfter, Stopping
<1> QED BY <1>1, RetryStart, RetryStep, PTL DEF Spec

\* For every number of retries that a configuration may ask for, the reader
\* gives up on the failure after the last of them, and never when they are
\* unlimited.
THEOREM GivesUpInTimeAlways == Spec => GivesUpInTime
<1> DEFINE InTime == reader = "parked" /\ reader' \in {"term", "backoff"} /\ ~isContextDone
                       => (reader' = "term" <=> failures' = Retry.MaxRetries + 1)
<1>1. RetryInv /\ [Next]_vars => [InTime]_vars
  <2> SUFFICES ASSUME RetryInv, [Next]_vars,
                      reader = "parked", reader' \in {"term", "backoff"}, ~isContextDone
               PROVE  reader' = "term" <=> failures' = Retry.MaxRetries + 1
    BY Zenon
  <2>1. reader' # reader
    BY Zenon
  <2>2. started /\ ReaderStep
    <3> USE <2>1
    <3>1. ~(Construct \/ Start \/ FanIn \/ CloseRedis \/ UNCHANGED vars)
      BY OutsideTouches, Zenon
    <3>2. ~ListenerStep /\ ~BrokerStep
      BY ListenerTouches, BrokerTouches, Zenon
    <3>3. ~\E e \in Entries : ExtenderStep(e) \/ AppDoneStream(e)
      BY ExtenderTouches, AppTouches, Zenon
    <3>4. ~\E k \in Closers : CallDone(k) \/ DoneStep(k)
      BY DoneTouches, Zenon
    <3> QED BY <3>1, <3>2, <3>3, <3>4, Zenon DEF Next, Running, BrokerStep
  <2>3. ReadFails
    BY <2>2, Zenon DEF ReaderStep, ReadCheck, Deliver, ToNextEntry, ReadCancelled, BackOff, LockEntry, ReaderSends,
                AddedOver, TerminatedOver, SendOver
  <2>4. Retry.MaxRetries \in Int /\ Retry.MaxRetries >= -1
    BY <2>2, RetryType, Zenon DEF RetryInv, RetryConfig, RetryConfigValidate
  <2> QED BY <2>2, <2>3, <2>4 DEF ReadFails, RetryInv, Stopping
<1> QED BY <1>1, RetryStart, RetryStep, PTL DEF Spec, GivesUpInTime

(***************************************************************************)
(* The types, from all the invariants.                                     *)
(***************************************************************************)
\* Only the goroutines of the client have a Send under way.
SendersInv == sending \subseteq Senders

LEMMA SendersStep == SendersInv /\ [Next]_vars => SendersInv'
<1> SUFFICES ASSUME sending \subseteq Senders, [Next]_vars PROVE sending' \subseteq Senders
  BY Zenon DEF SendersInv
<1>1. Reader \in Senders /\ Listener \in Senders /\ Entries \subseteq Senders
  BY Sizes DEF Reader, Listener, Entries
<1>2. CASE ReaderStep
  BY <1>1, <1>2, ReaderTouches, Zenon
<1>3. CASE ListenerStep
  BY <1>1, <1>3, ListenerTouches, Zenon
<1>4. CASE \E e \in Entries : ExtenderStep(e) \/ AppDoneStream(e)
  BY <1>1, <1>4, ExtenderTouches, AppTouches, Zenon
<1>5. CASE \E k \in Closers : CallDone(k) \/ DoneStep(k)
  BY <1>5, DoneTouches, Zenon
<1>6. CASE BrokerStep
  BY <1>6, BrokerTouches, Zenon
<1>7. CASE Construct \/ Start \/ FanIn \/ CloseRedis \/ UNCHANGED vars
  BY <1>7, OutsideTouches, Zenon
<1> QED BY <1>2, <1>3, <1>4, <1>5, <1>6, <1>7, Zenon DEF Next, Running, BrokerStep

\* For every number of entries, calls of Done and options: the delay of a
\* reader stays in the range of its configuration, nothing but an entry that
\* was read is in the map or acknowledged, and kspChan keeps to its capacity.
THEOREM ClientTypeCorrect == Spec => []TypeOK
<1>1. Init => SendersInv
  BY Zenon DEF Init, ContractInit, SendersInv
<1>2. SendersInv /\ MapInv /\ DoneInv /\ KspInv /\ CloseInv /\ RetryInv => TypeOK
  BY Zenon DEF TypeOK, SendersInv, MapInv, DoneInv, KspInv, CloseInv, RetryInv
<1> QED BY <1>1, <1>2, SendersStep, MapStart, MapStep, DoneStart, DoneStepInv, KspStart, KspStep,
           CloseStart, CloseStep, RetryStart, RetryStep, PTL DEF Spec
=============================================================================
