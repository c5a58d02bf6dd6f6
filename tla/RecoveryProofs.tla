--------------------------- MODULE RecoveryProofs ---------------------------
(***************************************************************************)
(* Proofs about Recovery, for any number of tasks, consumers, recoverers,  *)
(* retries, crashes and stalls.                                            *)
(***************************************************************************)
EXTENDS Recovery, TLAPS


\* What XADD does to the log: the entries there stay, the new one is last.
LEMMA AppendEntry ==
  ASSUME log \in Seq(Entry), NEW t \in Tasks, NEW n \in Nat, XAdd(t, n)
  PROVE  /\ log' \in Seq(Entry)
         /\ Len(log') = Len(log) + 1
         /\ Ids = 1 .. Len(log)
         /\ Ids' = 1 .. Len(log) + 1
         /\ \A i \in Ids : log'[i] = log[i]
         /\ log'[Len(log) + 1] = [task |-> t, retry |-> n]
  BY DEF XAdd, Entry, Ids

\* An entry ID that was delivered names an entry, and so a task and a stream.
LEMMA EntryTypes ==
  ASSUME TypeOK, NEW i \in 1 .. Len(log)
  PROVE  /\ i \in Ids
         /\ log[i] \in Entry
         /\ TaskOf(i) \in Tasks
         /\ log[i].retry \in Nat
         /\ Name(i) \in Streams
<1>1. Ids = 1 .. Len(log) /\ log[i] \in Entry
  BY DEF TypeOK, LBSType, Ids
<1>2. log[i].task \in Tasks /\ log[i].retry \in Nat
  BY <1>1, Zenon DEF Entry
<1> QED BY <1>1, <1>2, TaskAssumption, Zenon DEF TaskOf, Name

\* A client starts, and the streams are, well formed.
LEMMA TypeInit == Init => TypeOK
<1> SUFFICES ASSUME Init PROVE TypeOK
  BY Zenon
<1>1. LBSType
  <2>1. <<>> \in Seq(Entry) /\ Len(<<>>) = 0
    OBVIOUS
  <2> QED BY <2>1 DEF Init, LBSInit, LBSType
<1>2. ReaderType
  BY Zenon DEF Init, ClientInit, NewReader, ReaderType
<1>3. HandlerType
  BY DEF Init, ClientInit, LBSInit, HandlerType
<1>4. RecovererType
  BY RecoveryAssumption, CrashAssumption
  DEF Init, LBSInit, RecInit, Resting, RecovererType, RecState
<1> QED BY <1>1, <1>2, <1>3, <1>4, Zenon DEF TypeOK

\* XREADGROUP adds to the PEL what it delivers.
LEMMA TypeRead ==
  ASSUME TypeOK, XReadGroup,
         UNCHANGED <<log, deleted, idle, locks, dlq, done, lost, up, streamLocks, exts, calls, working>>,
         UNCHANGED <<recVars, crashes>>
  PROVE  LBSType' /\ HandlerType' /\ RecovererType'
<1> USE DEF TypeOK, XReadGroup, LBSType
<1>1. Len(log) \in Nat /\ delivered \in Nat /\ delivered <= Len(log) /\ delivered' = Len(log)
  OBVIOUS
<1>2. LBSType'
  <2>1. (delivered + 1 .. Len(log)) \subseteq 1 .. Len(log)
    BY <1>1
  <2>2. 1 .. delivered \subseteq 1 .. Len(log)
    BY <1>1
  <2>3. pel' \subseteq 1 .. delivered' /\ idle' \subseteq pel'
    BY Zenon, <2>1, <2>2
  <2> QED BY <1>1, <2>2, <2>3
<1>3. HandlerType'
  BY DEF HandlerType
<1>4. RecovererType'
  BY DEF RecovererType, RecState, recVars
<1> QED BY <1>2, <1>3, <1>4, Zenon

\* readLBSStream and processLBSMessages handle only delivered entries.
LEMMA TypeReader ==
  ASSUME TypeOK, NEW c \in Consumers, ReaderStep(c), UNCHANGED <<recVars, crashes>>
  PROVE  TypeOK'
<1> USE DEF TypeOK
<1>1. CASE ReadBatch(c)
  <2>1. LBSType' /\ HandlerType' /\ RecovererType'
    BY <1>1, TypeRead, Zenon DEF ReadBatch
  <2>2. ReaderType'
    BY <1>1 DEF ReadBatch, XReadGroup, LBSType, ReaderType
  <2> QED BY <2>1, <2>2, Zenon
<1>2. CASE LockEntry(c)
  <2> DEFINE i == rd[c].cur
  <2>1. i \in 1 .. delivered /\ Name(i) \in Streams
    <3>1. i \in 1 .. delivered /\ i \in 1 .. Len(log)
      BY <1>2 DEF LockEntry, LBSType, ReaderType
    <3> QED BY <3>1, EntryTypes, Zenon
  <2>2. LBSType'
    BY <1>2, <2>1, Zenon DEF LockEntry, LBSType
  <2>3. ReaderType'
    BY <1>2, Zenon DEF LockEntry, ReaderType
  <2>4. HandlerType'
    BY <1>2, <2>1 DEF LockEntry, HandlerType
  <2>5. RecovererType'
    BY <1>2, Zenon DEF LockEntry, RecovererType, RecState, recVars
  <2> QED BY <2>2, <2>3, <2>4, <2>5, Zenon
<1>3. CASE TerminateReader(c)
  <2>1. rd[c].cur \in 1 .. delivered
    BY <1>3 DEF TerminateReader, LBSType, ReaderType
  <2>2. LBSType'
    BY Zenon, <1>3, <2>1 DEF TerminateReader, LBSType
  <2>3. ReaderType'
    BY <1>3, Zenon DEF TerminateReader, ReaderType, NoReader
  <2>4. HandlerType' /\ RecovererType'
    BY <1>3, Zenon DEF TerminateReader, HandlerType, RecovererType, RecState, recVars
  <2> QED BY <2>2, <2>3, <2>4, Zenon
<1>4. CASE SendAdded(c)
  <2>1. rd[c].cur \in 1 .. delivered
    BY <1>4 DEF SendAdded, LBSType, ReaderType
  <2>2. LBSType' /\ RecovererType'
    BY <1>4, Zenon DEF SendAdded, LBSType, RecovererType, RecState, recVars, lbsVars
  <2>3. ReaderType'
    <3>1. CASE rd[c].cur = rd[c].last
      BY <1>4, <3>1, Zenon DEF SendAdded, ReaderType, NewReader, lbsVars
    <3>2. CASE rd[c].cur # rd[c].last
      <4>1. rd[c].cur \in 1 .. rd[c].last /\ rd[c].last \in Nat /\ rd[c].last <= delivered
        BY <1>4, Zenon DEF SendAdded, ReaderType
      <4>2. rd[c].cur + 1 \in 1 .. rd[c].last
        BY <3>2, <4>1
      <4> QED BY <1>4, <3>2, <4>1, <4>2 DEF SendAdded, ReaderType, lbsVars
    <3> QED BY <3>1, <3>2, Zenon
  <2>4. HandlerType'
    <3>1. [c |-> c, i |-> rd[c].cur, pc |-> "check"] \in
            [c : Consumers, i : 1 .. delivered, pc : {"check", "extend", "disown", "cleanup"}]
      BY <2>1, Zenon
    <3>2. <<c, rd[c].cur>> \in Consumers \X (1 .. delivered)
      BY <2>1, Zenon
    <3> QED BY <1>4, <3>1, <3>2, Zenon DEF SendAdded, HandlerType, lbsVars
  <2> QED BY <2>2, <2>3, <2>4, Zenon
<1>5. CASE ReadFails(c)
  <2>1. LBSType' /\ HandlerType' /\ RecovererType'
    <3>1. CASE XReadGroup
      BY <1>5, <3>1, TypeRead, Zenon DEF ReadFails
    <3>2. CASE UNCHANGED <<delivered, pel>>
      BY <1>5, <3>2, Zenon DEF ReadFails, LBSType, HandlerType, RecovererType, RecState, recVars
    <3> QED BY <1>5, <3>1, <3>2, Zenon DEF ReadFails
  <2>2. delivered \in Nat /\ delivered' \in Nat /\ delivered <= delivered'
    BY <1>5 DEF ReadFails, XReadGroup, LBSType
  <2>3. \A d \in Consumers : rd[d].last \in Nat /\ (rd[d].last <= delivered => rd[d].last <= delivered')
    BY <2>2 DEF ReaderType
  <2>4. /\ NoReader \in [pc : {"read", "lock", "send", "dead"}, cur : Nat, last : Nat]
        /\ NoReader.pc \notin {"lock", "send"}
    BY Zenon DEF NoReader
  <2>5. ReaderType'
    BY <1>5, <2>3, <2>4, Zenon DEF ReadFails, ReaderType
  <2> QED BY <2>1, <2>5, Zenon
<1> QED BY <1>1, <1>2, <1>3, <1>4, <1>5, Zenon DEF ReaderStep

\* startExtendingKey keeps the entry it was started for.
LEMMA TypeExtender ==
  ASSUME TypeOK, NEW e \in exts, ExtenderStep(e), UNCHANGED <<recVars, crashes>>
  PROVE  TypeOK'
<1> USE DEF TypeOK
<1>0. e.c \in Consumers /\ e.i \in 1 .. delivered /\ Name(e.i) \in Streams
  <2>1. e.c \in Consumers /\ e.i \in 1 .. delivered
    BY Zenon DEF HandlerType
  <2>2. e.i \in 1 .. Len(log)
    BY <2>1 DEF LBSType
  <2> QED BY <2>1, <2>2, EntryTypes, Zenon
<1>6. ASSUME NEW p \in {"check", "extend", "disown", "cleanup"}, Goto(e, p),
             UNCHANGED <<delivered, streamLocks, calls>>, working' \subseteq working
      PROVE  HandlerType'
  <2>1. [c |-> e.c, i |-> e.i, pc |-> p] \in
          [c : Consumers, i : 1 .. delivered, pc : {"check", "extend", "disown", "cleanup"}]
    BY <1>0, Zenon
  <2> QED BY <1>6, <2>1, Zenon DEF Goto, HandlerType
<1>1. CASE ExtCheck(e)
  <2>1. LBSType' /\ ReaderType' /\ RecovererType'
    BY <1>0, <1>1, Zenon DEF ExtCheck, IsStreamProcessingDone, LBSType, ReaderType, RecovererType, RecState, recVars, lbsVars
  <2>2. HandlerType'
    BY <1>6, <1>1, Zenon DEF ExtCheck, IsStreamProcessingDone, lbsVars
  <2> QED BY <2>1, <2>2, Zenon
<1>2. CASE Extend(e)
  <2>1. LBSType' /\ ReaderType' /\ RecovererType'
    BY Zenon, <1>0, <1>2 DEF Extend, LBSType, ReaderType, RecovererType, RecState, recVars
  <2>2. HandlerType'
    BY <1>6, <1>2, Zenon DEF Extend
  <2> QED BY <2>1, <2>2, Zenon
<1>3. CASE ExtendFails(e)
  <2>1. LBSType' /\ ReaderType' /\ RecovererType'
    BY <1>0, <1>3, Zenon DEF ExtendFails, LBSType, ReaderType, RecovererType, RecState, recVars
  <2>2. HandlerType'
    BY <1>6, <1>3, Zenon DEF ExtendFails
  <2> QED BY <2>1, <2>2, Zenon
<1>4. CASE SendDisowned(e)
  <2>1. LBSType' /\ ReaderType' /\ RecovererType'
    BY <1>0, <1>4, Zenon DEF SendDisowned, LBSType, ReaderType, RecovererType, RecState, recVars, lbsVars
  <2>2. HandlerType'
    BY <1>6, <1>4, Zenon DEF SendDisowned, lbsVars
  <2> QED BY <2>1, <2>2, Zenon
<1>5. CASE ExtCleanup(e)
  <2>1. LBSType' /\ ReaderType' /\ RecovererType'
    BY <1>5, Zenon DEF ExtCleanup, PopStreamLocksInfo, LBSType, ReaderType, RecovererType, RecState, recVars, lbsVars
  <2>2. HandlerType'
    BY <1>0, <1>5 DEF ExtCleanup, PopStreamLocksInfo, LBSType, HandlerType, lbsVars
  <2> QED BY <2>1, <2>2, Zenon
<1> QED BY <1>1, <1>2, <1>3, <1>4, <1>5, Zenon DEF ExtenderStep

\* DoneStream pops an entry the map holds, which was delivered.
LEMMA TypeFinish ==
  ASSUME TypeOK, NEW w \in working, FinishStream(w[1], w[2]), UNCHANGED <<recVars, crashes>>
  PROVE  TypeOK'
<1> USE DEF TypeOK
<1> DEFINE c == w[1]
           i == w[2]
           j == streamLocks[c][Name(i)]
<1>1. c \in Consumers /\ i \in 1 .. delivered /\ Name(i) \in Streams
  <2>1. c \in Consumers /\ i \in 1 .. delivered
    BY Zenon DEF HandlerType
  <2>2. i \in 1 .. Len(log)
    BY <2>1 DEF LBSType
  <2> QED BY <2>1, <2>2, EntryTypes, Zenon
<1>2. j \in 0 .. delivered
  BY <1>1, Zenon DEF HandlerType
<1>3. LBSType' /\ ReaderType' /\ RecovererType'
  BY Zenon DEF FinishStream, IsStreamProcessingDone, PopStreamLocksInfo, LBSType, ReaderType, RecovererType, RecState, recVars, lbsVars
<1>4. HandlerType'
  <2>1. CASE j = 0
    BY <2>1, Zenon DEF FinishStream, IsStreamProcessingDone, PopStreamLocksInfo, HandlerType, lbsVars
  <2>2. CASE j # 0
    <3>1. [c |-> c, i |-> j, pc |-> "ack"] \in
            [c : Consumers, i : 1 .. delivered, pc : {"ack", "del", "unlock"}]
      BY <1>1, <1>2, <2>2 DEF LBSType
    <3>2. streamLocks' \in [Consumers -> [Streams -> 0 .. delivered]]
      <4>1. streamLocks' = [streamLocks EXCEPT ![c][Name(i)] = 0]
        BY <2>2, Zenon DEF FinishStream, IsStreamProcessingDone, PopStreamLocksInfo
      <4>2. 0 \in 0 .. delivered
        BY DEF LBSType
      <4> HIDE DEF c, i
      <4> QED BY <1>1, <4>1, <4>2, Zenon DEF HandlerType
    <3>3. calls' = calls \cup {[c |-> c, i |-> j, pc |-> "ack"]}
      BY <2>2, Zenon DEF FinishStream, IsStreamProcessingDone, PopStreamLocksInfo
    <3>4. UNCHANGED <<delivered, exts>> /\ working' \subseteq working
      BY Zenon DEF FinishStream, IsStreamProcessingDone, PopStreamLocksInfo, lbsVars
    <3> QED BY <3>1, <3>2, <3>3, <3>4, Zenon DEF HandlerType
  <2> QED BY <2>1, <2>2, Zenon
<1> QED BY <1>3, <1>4, Zenon

\* The XACK, XDEL and Unlock of DoneStream.
LEMMA TypeDoneStream ==
  ASSUME TypeOK, NEW k \in calls, DoneStep(k), UNCHANGED <<recVars, crashes>>
  PROVE  TypeOK'
<1>0. k.c \in Consumers /\ k.i \in 1 .. delivered /\ TaskOf(k.i) \in Tasks
  <2>1. k.c \in Consumers /\ k.i \in 1 .. delivered
    BY Zenon DEF TypeOK, HandlerType
  <2> QED BY <2>1, EntryTypes DEF TypeOK, LBSType
<1> USE DEF TypeOK
<1>4. ASSUME NEW p \in {"ack", "del", "unlock"}, Proceed(k, p) \/ EndCall(k),
             UNCHANGED <<delivered, streamLocks, exts, working>>
      PROVE  HandlerType'
  <2>1. [c |-> k.c, i |-> k.i, pc |-> p] \in
          [c : Consumers, i : 1 .. delivered, pc : {"ack", "del", "unlock"}]
    BY <1>0, Zenon
  <2> QED BY <1>4, <2>1, Zenon DEF Proceed, EndCall, HandlerType
<1>1. CASE DoneAck(k)
  <2>1. ReaderType' /\ RecovererType'
    BY <1>1, Zenon DEF DoneAck, ReaderType, RecovererType, RecState, recVars
  <2>2. LBSType'
    BY Zenon, <1>0, <1>1 DEF DoneAck, AckDone, XAck, LBSType
  <2>3. HandlerType'
    BY <1>1, <1>4, Zenon DEF DoneAck
  <2> QED BY <2>1, <2>2, <2>3, Zenon
<1>2. CASE DoneDel(k)
  <2>1. ReaderType' /\ RecovererType'
    BY <1>2, Zenon DEF DoneDel, ReaderType, RecovererType, RecState, recVars
  <2>2. LBSType'
    BY Zenon, <1>0, <1>2 DEF DoneDel, XDel, LBSType
  <2>3. HandlerType'
    BY <1>2, <1>4, Zenon DEF DoneDel
  <2> QED BY <2>1, <2>2, <2>3, Zenon
<1>3. CASE DoneUnlock(k)
  <2>1. LBSType' /\ ReaderType' /\ RecovererType'
    BY Zenon, <1>3 DEF DoneUnlock, LBSType, ReaderType, RecovererType, RecState, recVars
  <2>2. HandlerType'
    BY <1>3, <1>4, Zenon DEF DoneUnlock
  <2> QED BY <2>1, <2>2, Zenon
<1> QED BY <1>1, <1>2, <1>3, Zenon DEF DoneStep

\* A recoverer moves to a state of the right shape.
LEMMA RecovererUpdate ==
  ASSUME TypeOK, NEW r \in Recoverers, NEW v \in RecState,
         v.pc \notin {"rest", "loop"} => v.i # 0,
         rec' = [rec EXCEPT ![r] = v],
         UNCHANGED <<delivered, stalls, crashes>>, expired' \subseteq expired
  PROVE  RecovererType'
<1>1. RecState' = RecState
  BY Zenon DEF RecState
<1>2. rec' \in [Recoverers -> RecState]
  BY Zenon DEF TypeOK, RecovererType
<1>3. \A q \in Recoverers : rec'[q].pc \notin {"rest", "loop"} => rec'[q].i # 0
  BY Zenon DEF TypeOK, RecovererType
<1> QED BY <1>1, <1>2, <1>3, Zenon DEF TypeOK, RecovererType

\* Where a step of reQueue may leave its recoverer.
LEMMA RecovererMoves ==
  ASSUME TypeOK, NEW r \in Recoverers,
         \/ \E p \in {"exists", "ack", "add", "dlqack", "dlqadd", "del"} :
              Step(r, p) /\ rec[r].i # 0
         \/ Return(r),
         UNCHANGED <<delivered, expired, stalls, crashes>>
  PROVE  RecovererType'
<1>0. rec[r] \in RecState
  BY Zenon DEF TypeOK, RecovererType
<1>1. CASE \E p \in {"exists", "ack", "add", "dlqack", "dlqadd", "del"} :
             Step(r, p) /\ rec[r].i # 0
  <2>1. PICK p \in {"exists", "ack", "add", "dlqack", "dlqadd", "del"} :
               Step(r, p) /\ rec[r].i # 0
    BY <1>1, Zenon
  <2>2. [pc |-> p, i |-> rec[r].i, todo |-> rec[r].todo] \in RecState
    BY <1>0, Zenon DEF RecState
  <2> QED BY Zenon, <2>1, <2>2, RecovererUpdate DEF Step
<1>2. CASE Return(r)
  <2>1. /\ Resting \in RecState
        /\ [pc |-> "loop", i |-> 0, todo |-> rec[r].todo] \in RecState
    BY <1>0 DEF Resting, RecState, TypeOK, LBSType
  <2> QED BY Zenon, <1>2, <2>1, RecovererUpdate DEF Return, Resting
<1> QED BY <1>1, <1>2, Zenon

\* The Redis calls of reQueue and routeToDLQ.
LEMMA TypeReQueue ==
  ASSUME TypeOK, NEW r \in Recoverers, ReQueueStep(r), UNCHANGED <<clientVars, crashes>>
  PROVE  TypeOK'
<1> DEFINE i == rec[r].i
<1>0. /\ i \in 1 .. delivered /\ i # 0
      /\ TaskOf(i) \in Tasks
      /\ log[i].retry \in Nat
  <2>1. rec[r].pc \notin {"rest", "loop"}
    BY Zenon DEF ReQueueStep, ReadEntry, AckRemoved, CheckOwner,
           ReQueueAck, ReQueueAdd, DLQAck, DLQAdd, DelOriginal, AckFirst, At
  <2>2. i \in 1 .. delivered
    BY <2>1 DEF TypeOK, LBSType, RecovererType, RecState
  <2> QED BY <2>2, EntryTypes DEF TypeOK, LBSType
<1>1. UNCHANGED <<delivered, expired, stalls, crashes>>
  BY Zenon DEF ReQueueStep, ReadEntry, AckRemoved, CheckOwner,
         ReQueueAck, ReQueueAdd, DLQAck, DLQAdd, DelOriginal, AckFirst, lbsVars
<1>2. ReaderType' /\ HandlerType'
  BY <1>1, Zenon DEF TypeOK, ReaderType, HandlerType, clientVars
<1>3. RecovererType'
  <2>1. \/ \E p \in {"exists", "ack", "add", "dlqack", "dlqadd", "del"} : Step(r, p)
        \/ Return(r)
    BY Zenon DEF ReQueueStep, ReadEntry, AckRemoved, CheckOwner,
           ReQueueAck, ReQueueAdd, DLQAck, DLQAdd, DelOriginal, AckFirst
  <2> QED BY <1>0, <1>1, <2>1, RecovererMoves, Zenon
<1>4. LBSType'
  <2>1. CASE ReadEntry(r) \/ CheckOwner(r)
    BY Zenon, <2>1 DEF TypeOK, LBSType, ReadEntry, CheckOwner, lbsVars
  <2>2. CASE AckRemoved(r)
    BY Zenon, <2>2 DEF TypeOK, LBSType, AckRemoved, XAck
  <2>3. CASE ReQueueAck(r) \/ DLQAck(r)
    BY Zenon, <1>0, <2>3 DEF TypeOK, LBSType, ReQueueAck, DLQAck, AckFirst, XAck
  <2>4. CASE ReQueueAdd(r)
    <3>1. log' \in Seq(Entry) /\ Len(log) <= Len(log')
      <4>1. CASE XAdd(TaskOf(i), log[i].retry + 1)
        <5>1. log[i].retry + 1 \in Nat
          BY <1>0
        <5>2. log \in Seq(Entry)
          BY Zenon DEF TypeOK, LBSType
        <5>3. log' \in Seq(Entry) /\ Len(log') = Len(log) + 1
          BY Zenon, <1>0, <4>1, <5>1, <5>2, AppendEntry
        <5> QED BY <5>2, <5>3
      <4>2. CASE UNCHANGED log
        BY <4>2 DEF TypeOK, LBSType
      <4> QED BY <2>4, <4>1, <4>2, Zenon DEF ReQueueAdd
    <3>2. lost' \subseteq Tasks
      BY <1>0, <2>4, Zenon DEF TypeOK, LBSType, ReQueueAdd
    <3> QED BY <2>4, <3>1, <3>2 DEF TypeOK, LBSType, ReQueueAdd
  <2>5. CASE DLQAdd(r)
    <3>1. dlq' \in Seq(Entry)
      <4>1. DLQEntry(i) \in Entry
        BY <1>0 DEF DLQEntry, Entry
      <4>2. dlq \in Seq(Entry)
        BY Zenon DEF TypeOK, LBSType
      <4>3. dlq' = dlq \/ dlq' = Append(dlq, DLQEntry(i))
        BY <2>5, Zenon DEF DLQAdd
      <4> QED BY <4>1, <4>2, <4>3
    <3>2. lost' \subseteq Tasks
      BY <1>0, <2>5, Zenon DEF TypeOK, LBSType, DLQAdd
    <3> QED BY <2>5, <3>1, <3>2, Zenon DEF TypeOK, LBSType, DLQAdd
  <2>6. CASE DelOriginal(r)
    BY Zenon, <1>0, <2>6 DEF TypeOK, LBSType, DelOriginal, XDel
  <2> QED BY <2>1, <2>2, <2>3, <2>4, <2>5, <2>6, Zenon DEF ReQueueStep
<1> QED BY <1>2, <1>3, <1>4, Zenon DEF TypeOK

\* A scan and a Claim take up only delivered entries.
LEMMA TypeRecoverer ==
  ASSUME TypeOK, NEW r \in Recoverers, RecovererStep(r), UNCHANGED <<clientVars, crashes>>
  PROVE  TypeOK'
<1>1. CASE StartScan(r) \/ NextPending(r) \/ Claim(r)
  <2>1. LBSType' /\ ReaderType' /\ HandlerType' /\ UNCHANGED <<delivered, stalls, crashes>>
    BY Zenon, <1>1 DEF TypeOK, LBSType, ReaderType, HandlerType, StartScan, NextPending, Claim,
                lbsVars, clientVars
  <2>2. SUFFICES RecovererType'
    BY <2>1, Zenon DEF TypeOK
  <2>3. 0 \in 0 .. delivered /\ delivered \in Nat /\ rec[r] \in RecState
    BY DEF TypeOK, LBSType, RecovererType
  <2>4. CASE StartScan(r)
    <3>1. XPending(BatchSize) \in SUBSET (1 .. delivered)
      BY Zenon DEF TypeOK, LBSType, XPending
    <3>2. [pc |-> "loop", i |-> 0, todo |-> XPending(BatchSize)] \in RecState
      BY <2>3, <3>1, Zenon DEF RecState
    <3> QED BY Zenon, <2>1, <2>4, <3>2, RecovererUpdate DEF StartScan
  <2>5. CASE NextPending(r)
    <3>1. CASE rec' = [rec EXCEPT ![r] = Resting]
      <4>1. Resting \in RecState
        BY <2>3, Zenon DEF Resting, RecState
      <4> QED BY Zenon, <2>1, <2>5, <3>1, <4>1, RecovererUpdate DEF NextPending, Resting
    <3>2. CASE \E i \in rec[r].todo :
            rec' = [rec EXCEPT ![r] = [pc |-> "range", i |-> i, todo |-> rec[r].todo \ {i}]]
      <4>1. PICK i \in rec[r].todo :
              rec' = [rec EXCEPT ![r] = [pc |-> "range", i |-> i, todo |-> rec[r].todo \ {i}]]
        BY Zenon, <3>2
      <4>2. i \in 1 .. delivered /\ rec[r].todo \in SUBSET (1 .. delivered)
        BY <2>3, Zenon DEF RecState
      <4>3. i # 0 /\ [pc |-> "range", i |-> i, todo |-> rec[r].todo \ {i}] \in RecState
        BY <2>3, <4>2 DEF RecState
      <4> QED BY Zenon, <2>1, <2>5, <4>1, <4>3, RecovererUpdate DEF NextPending
    <3> QED BY <2>5, <3>1, <3>2, Zenon DEF NextPending
  <2>6. CASE Claim(r)
    <3>1. PICK i \in Ids : /\ <<Host[r], i>> \in expired
                           /\ expired' = expired \ {<<Host[r], i>>}
                           /\ rec' = [rec EXCEPT ![r] = [pc |-> "range", i |-> i, todo |-> {}]]
      BY Zenon, <2>6 DEF Claim
    <3>2. i \in 1 .. delivered
      BY <3>1, Zenon DEF TypeOK, RecovererType
    <3>3. i # 0 /\ [pc |-> "range", i |-> i, todo |-> {}] \in RecState
      BY <2>3, <3>2 DEF RecState
    <3> QED BY Zenon, <2>1, <3>1, <3>3, RecovererUpdate
  <2> QED BY <1>1, <2>4, <2>5, <2>6, Zenon
<1>2. CASE ReQueueStep(r)
  BY <1>2, TypeReQueue, Zenon
<1> QED BY <1>1, <1>2, Zenon DEF RecovererStep

\* Idle time passes and lock keys expire for delivered entries only.
LEMMA TypeTime ==
  ASSUME TypeOK, NEW i \in Ids, BecomeIdle(i) \/ ExpireLock(i), UNCHANGED <<clientVars, crashes>>
  PROVE  TypeOK'
<1>1. UNCHANGED <<delivered, rec>> /\ stalls' \in 0 .. MaxStalls
  BY DEF BecomeIdle, ExpireLock, Stall, TypeOK, RecovererType
<1>2. LBSType'
  BY Zenon DEF TypeOK, LBSType, BecomeIdle, ExpireLock
<1>3. ReaderType' /\ HandlerType'
  BY <1>1, Zenon DEF TypeOK, ReaderType, HandlerType, clientVars
<1>4. expired' \subseteq Consumers \X (1 .. delivered)
  <2>1. CASE BecomeIdle(i)
    BY <2>1, Zenon DEF BecomeIdle, TypeOK, RecovererType
  <2>2. CASE ExpireLock(i)
    <3>1. PICK told \in SUBSET {Host[r] : r \in Claimers} :
            expired' = expired \cup {<<c, i>> : c \in {d \in told : up[d]}}
      BY <2>2, Zenon DEF ExpireLock, Published
    <3>2. told \subseteq Consumers
      BY RecoveryAssumption, Zenon DEF Recoverers
    <3>3. i \in 1 .. delivered
      BY Zenon, <2>2 DEF ExpireLock, TypeOK, LBSType
    <3> QED BY <3>1, <3>2, <3>3 DEF TypeOK, RecovererType
  <2> QED BY <2>1, <2>2, Zenon
<1>5. RecovererType'
  BY <1>1, <1>4, Zenon DEF TypeOK, RecovererType, RecState
<1> QED BY <1>2, <1>3, <1>5, Zenon DEF TypeOK

\* A producer appends an entry.
LEMMA TypeProduce ==
  ASSUME TypeOK, NEW t \in Tasks, Produce(t), UNCHANGED <<clientVars, recVars, crashes>>
  PROVE  TypeOK'
<1>1. log' \in Seq(Entry) /\ Len(log') = Len(log) + 1
  BY Zenon, AppendEntry DEF TypeOK, LBSType, Produce
<1>2. LBSType'
  BY <1>1 DEF TypeOK, LBSType, Produce
<1>3. ReaderType' /\ HandlerType' /\ RecovererType'
  BY Zenon DEF TypeOK, ReaderType, HandlerType, RecovererType, RecState, Produce, clientVars, recVars
<1> QED BY <1>2, <1>3, Zenon DEF TypeOK

\* A crash resets what the process had in memory.
LEMMA TypeCrash ==
  ASSUME TypeOK, NEW c \in Consumers, Crash(c)
  PROVE  TypeOK'
<1>1. UNCHANGED <<log, delivered>>
  BY Zenon DEF Crash
<1>2. lost' \subseteq Tasks
  <2>1. \A r \in Recoverers : InHand(r) => rec[r].i \in 1 .. Len(log)
    BY DEF InHand, TypeOK, LBSType, RecovererType, RecState
  <2>2. \A r \in Recoverers : InHand(r) => TaskOf(rec[r].i) \in Tasks
    BY <2>1, EntryTypes, Zenon
  <2> QED BY <2>2, Zenon DEF Crash, TypeOK, LBSType
<1>3. LBSType'
  BY <1>2, Zenon DEF TypeOK, LBSType, Crash
<1>4. ReaderType'
  <2>1. up' \in [Consumers -> BOOLEAN]
    BY Zenon DEF TypeOK, ReaderType, Crash
  <2>2. NoReader \in [pc : {"read", "lock", "send", "dead"}, cur : Nat, last : Nat]
        /\ NoReader.pc = "dead"
    BY Zenon DEF NoReader
  <2>3. /\ rd' \in [Consumers -> [pc : {"read", "lock", "send", "dead"}, cur : Nat, last : Nat]]
        /\ \A d \in Consumers : rd'[d] = IF d = c THEN NoReader ELSE rd[d]
    BY <2>2, Zenon DEF TypeOK, ReaderType, Crash
  <2>4. \A d \in Consumers : rd'[d].pc \in {"lock", "send"} =>
          rd'[d].cur \in 1 .. rd'[d].last /\ rd'[d].last <= delivered'
    BY <1>1, <2>2, <2>3, Zenon DEF TypeOK, ReaderType
  <2> QED BY <2>1, <2>3, <2>4, Zenon DEF ReaderType
<1>5. HandlerType'
  <2>1. 0 \in 0 .. delivered
    BY DEF TypeOK, LBSType
  <2> QED BY <2>1, Zenon DEF TypeOK, HandlerType, Crash
<1>6. RecovererType'
  <2>1. Resting \in RecState /\ RecState' = RecState
    <3>1. delivered \in Nat
      BY DEF TypeOK, LBSType
    <3> QED BY <1>1, <3>1 DEF Resting, RecState
  <2>2. rec' \in [Recoverers -> RecState']
    BY <2>1, Zenon DEF Crash, TypeOK, RecovererType
  <2>3. \A r \in Recoverers : rec'[r].pc \notin {"rest", "loop"} => rec'[r].i # 0
    BY Zenon DEF Crash, Resting, TypeOK, RecovererType
  <2>4. crashes' \in 0 .. MaxCrashes
    BY CrashAssumption DEF Crash, TypeOK, RecovererType
  <2> QED BY <2>2, <2>3, <2>4, Zenon DEF Crash, TypeOK, RecovererType
<1> QED BY <1>3, <1>4, <1>5, <1>6, Zenon DEF TypeOK

\* Init of a new process.
LEMMA TypeRestart ==
  ASSUME TypeOK, NEW c \in Consumers, Restart(c)
  PROVE  TypeOK'
<1>1. ReaderType'
  BY Zenon DEF TypeOK, ReaderType, Restart, NewReader, lbsVars
<1>2. LBSType' /\ HandlerType' /\ RecovererType'
  BY Zenon DEF TypeOK, LBSType, HandlerType, RecovererType, RecState, Restart, lbsVars, recVars
<1> QED BY <1>1, <1>2, Zenon DEF TypeOK

\* Steps that change nothing.
LEMMA TypeStutter ==
  ASSUME TypeOK, UNCHANGED vars
  PROVE  TypeOK'
  BY Zenon DEF TypeOK, LBSType, ReaderType, HandlerType, RecovererType, RecState,
         vars, lbsVars, clientVars, recVars

\* Every step of every handler keeps the state well formed.
LEMMA TypeNext == TypeOK /\ [Next]_vars => TypeOK'
<1> SUFFICES ASSUME TypeOK, [Next]_vars PROVE TypeOK'
  BY Zenon
<1>1. CASE \E t \in Tasks : Produce(t) /\ UNCHANGED <<clientVars, recVars, crashes>>
  BY <1>1, TypeProduce, Zenon
<1>2. CASE ClientStep /\ UNCHANGED <<recVars, crashes>>
  BY <1>2, TypeReader, TypeExtender, TypeFinish, TypeDoneStream, Zenon DEF ClientStep
<1>3. CASE \E r \in Recoverers : RecovererStep(r) /\ UNCHANGED <<clientVars, crashes>>
  BY <1>3, TypeRecoverer, Zenon
<1>4. CASE \E i \in Ids : (BecomeIdle(i) \/ ExpireLock(i)) /\ UNCHANGED <<clientVars, crashes>>
  BY <1>4, TypeTime, Zenon
<1>5. CASE \E c \in Consumers : Crash(c) \/ Restart(c)
  BY <1>5, TypeCrash, TypeRestart, Zenon
<1>6. CASE UNCHANGED vars
  BY <1>6, TypeStutter, Zenon
<1> QED BY <1>1, <1>2, <1>3, <1>4, <1>5, <1>6, Zenon DEF Next

\* In every behaviour, whatever fails, no handler of StreamClient or ReQueue
\* holds the ID of an entry that was never delivered, and every map, goroutine
\* and Redis structure keeps its shape.
THEOREM TypeCorrect == Spec => []TypeOK
  BY TypeInit, TypeNext, PTL DEF Spec

(***************************************************************************)
(* The steps that settle a task or add an entry for it, and the actions of *)
(* producers and consumers: each preserves the inductive invariant IInv.   *)
(***************************************************************************)
\* Entry IDs are the positions of the log.
LEMMA IdsRange == TypeOK => Ids = 1 .. Len(log) /\ Len(log) \in Nat
  BY DEF TypeOK, LBSType, Ids

\* Nothing is added, and the entries in S, if any, stop being live in the step
\* that settles their tasks.
LEMMA SettleStep ==
  ASSUME IInv, log' = log, NEW S \in SUBSET Ids,
         \A i \in S : Live(i),
         \A i \in Ids : Live(i)' <=> Live(i) /\ i \notin S,
         Settled' = Settled \cup {TaskOf(i) : i \in S}
  PROVE  NewestLive' /\ SettledNotLive' /\ NothingVanishes'
<1>1. Ids' = Ids /\ \A i \in Ids : TaskOf(i)' = TaskOf(i)
  BY Zenon DEF Ids, TaskOf
<1>2. NewestLive'
  BY <1>1, Zenon DEF IInv, OneLiveEntry, NewestLive
<1>3. SettledNotLive'
  <2> SUFFICES ASSUME NEW i \in Ids, Live(i)', TaskOf(i) \in Settled' PROVE FALSE
    BY <1>1, Zenon DEF SettledNotLive
  <2>1. Live(i) /\ i \notin S /\ TaskOf(i) \notin Settled
    BY Zenon DEF IInv, NoResurrection, SettledNotLive
  <2>2. PICK j \in S : TaskOf(j) = TaskOf(i)
    BY <2>1, Zenon
  <2>3. i <= j /\ j <= i /\ i \in Nat /\ j \in Nat
    BY <2>1, <2>2, IdsRange DEF IInv, OneLiveEntry, NewestLive
  <2> QED BY <2>1, <2>2, <2>3
<1>4. NothingVanishes'
  <2>1. Added' = Added
    BY <1>1, Zenon DEF Added
  <2> SUFFICES ASSUME NEW t \in Added, t \notin Settled'
               PROVE  \E i \in Ids : TaskOf(i) = t /\ Live(i)'
    <3>1. Settled' \subseteq Added'
      BY <2>1, Zenon DEF IInv, NothingVanishes, Added
    <3> QED BY <1>1, <2>1, <3>1, Zenon DEF NothingVanishes
  <2>2. PICK i \in Ids : TaskOf(i) = t /\ Live(i)
    BY Zenon DEF IInv, NothingVanishes
  <2>3. i \notin S
    BY <2>2, Zenon
  <2> QED BY <2>2, <2>3, Zenon
<1> QED BY <1>2, <1>3, <1>4, Zenon

\* An entry for t is added when t has no live entry, or when its live entry,
\* the only member of S, stops being live in the same step.
LEMMA AddStep ==
  ASSUME IInv, NEW t \in Tasks, NEW n \in Nat, XAdd(t, n), UNCHANGED delivered,
         t \notin Settled, Settled' = Settled,
         NEW S \in SUBSET Ids,
         \A i \in S : TaskOf(i) = t,
         \A i \in Ids : Live(i)' <=> Live(i) /\ i \notin S,
         \A i \in Ids : TaskOf(i) = t => ~Live(i)'
  PROVE  NewestLive' /\ SettledNotLive' /\ NothingVanishes'
<1>0. Ids = 1 .. Len(log) /\ Len(log) \in Nat
  BY IdsRange, Zenon DEF IInv
<1>m. PICK m \in Nat : m = Len(log) + 1
  BY <1>0
<1>1. /\ Ids' = Ids \cup {m}
      /\ \A i \in Ids : TaskOf(i)' = TaskOf(i)
      /\ TaskOf(m)' = t
  <2>1. log \in Seq(Entry)
    BY Zenon DEF IInv, TypeOK, LBSType
  <2>2. /\ Ids' = 1 .. m
        /\ \A i \in Ids : log'[i] = log[i]
        /\ log'[m] = [task |-> t, retry |-> n]
    BY <1>m, <2>1, AppendEntry, Zenon
  <2> QED BY <1>0, <1>m, <2>2 DEF TaskOf
<1>2. Live(m)'
  BY <1>0, <1>m DEF Live, IInv, TypeOK, LBSType
<1>3. NewestLive'
  <2> SUFFICES ASSUME NEW i \in Ids', NEW j \in Ids', TaskOf(i)' = TaskOf(j)', Live(i)'
               PROVE  j <= i
    BY Zenon DEF NewestLive
  <2>1. CASE i = m
    BY <1>0, <1>m, <1>1, <2>1
  <2>2. CASE i \in Ids
    <3>1. j # m
      BY <1>1, <2>2, Zenon
    <3>2. j \in Ids /\ TaskOf(i) = TaskOf(j) /\ Live(i)
      BY <1>1, <2>2, <3>1, Zenon
    <3> QED BY <2>2, <3>2, Zenon DEF IInv, OneLiveEntry, NewestLive
  <2> QED BY <1>1, <2>1, <2>2, Zenon
<1>4. SettledNotLive'
  BY <1>1, Zenon DEF IInv, NoResurrection, SettledNotLive
<1>5. NothingVanishes'
  <2>1. Added' = Added \cup {t}
    BY <1>1, Zenon DEF Added
  <2> SUFFICES ASSUME NEW u \in Added', u \notin Settled
               PROVE  \E i \in Ids' : TaskOf(i)' = u /\ Live(i)'
    BY <2>1, Zenon DEF IInv, NothingVanishes
  <2>2. CASE u = t
    BY <1>1, <1>2, <2>2, Zenon
  <2>3. CASE u # t
    <3>1. PICK i \in Ids : TaskOf(i) = u /\ Live(i)
      BY <2>1, <2>3, Zenon DEF IInv, NothingVanishes
    <3>2. i \notin S
      BY <2>3, <3>1, Zenon
    <3> QED BY <1>1, <3>1, <3>2, Zenon
  <2> QED BY <2>2, <2>3, Zenon
<1> QED BY <1>3, <1>4, <1>5, Zenon

\* A pending entry is live, nobody has taken it and its task is not settled.
LEMMA PendingLive ==
  ASSUME IInv, NEW i \in pel
  PROVE  /\ i \in Ids /\ i \in 1 .. delivered /\ delivered \in Nat
         /\ Live(i)
         /\ TaskOf(i) \notin Settled
         /\ \A r \in Recoverers : InHand(r) => rec[r].i # i
<1>1. i \in Ids /\ i \in 1 .. delivered /\ delivered \in Nat
  BY IdsRange DEF IInv, TypeOK, LBSType
<1>2. Live(i)
  BY Zenon DEF Live
<1>3. TaskOf(i) \notin Settled
  BY <1>1, <1>2, Zenon DEF IInv, NoResurrection, SettledNotLive
<1>4. \A r \in Recoverers : InHand(r) => rec[r].i # i
  BY Zenon DEF IInv, OneLiveEntry, HandsExclusive
<1> QED BY <1>1, <1>2, <1>3, <1>4, Zenon

\* So is an entry a recoverer has taken, and no other recoverer has it.
LEMMA HeldLive ==
  ASSUME IInv, NEW r \in Recoverers, InHand(r)
  PROVE  /\ rec[r].i \in Ids /\ rec[r].i \in 1 .. delivered /\ delivered \in Nat
         /\ Live(rec[r].i)
         /\ rec[r].i \notin pel
         /\ TaskOf(rec[r].i) \notin Settled
         /\ \A q \in Recoverers : InHand(q) /\ rec[q].i = rec[r].i => q = r
<1>1. rec[r].i \in 1 .. delivered /\ delivered \in 0 .. Len(log)
  BY DEF IInv, TypeOK, LBSType, RecovererType, RecState, InHand
<1>2. rec[r].i \in Ids /\ delivered \in Nat
  BY <1>1, IdsRange DEF IInv
<1>3. Live(rec[r].i)
  BY Zenon DEF Live, Held
<1>4. TaskOf(rec[r].i) \notin Settled
  BY <1>2, <1>3, Zenon DEF IInv, NoResurrection, SettledNotLive
<1>5. /\ rec[r].i \notin pel
      /\ \A q \in Recoverers : InHand(q) /\ rec[q].i = rec[r].i => q = r
  BY Zenon DEF IInv, OneLiveEntry, HandsExclusive
<1> QED BY <1>1, <1>2, <1>3, <1>4, <1>5, Zenon

\* The state the properties of tasks depend on, apart from the handlers.
core == <<log, delivered, deleted, pel, dlq, done, lost>>

\* A step that changes neither the entries nor who has taken one.
LEMMA QuietStep ==
  ASSUME IInv, UNCHANGED core,
         \A r \in Recoverers : /\ InHand(r)' <=> InHand(r)
                               /\ InHand(r) => rec'[r].i = rec[r].i
  PROVE  OneLiveEntry' /\ NoResurrection' /\ NothingVanishes' /\ RetryBudget' /\ PendingHasPayload'
<1>1. UNCHANGED <<log, delivered, deleted, pel, dlq, done, lost>>
  BY Zenon DEF core
<1>2. Ids' = Ids /\ Settled' = Settled
  BY <1>1, Zenon DEF Ids, Settled, InDLQ
<1>3. \A i \in Ids : Live(i)' <=> Live(i)
  BY <1>1, Zenon DEF Live, Held
<1>4. NewestLive' /\ SettledNotLive' /\ NothingVanishes'
  <2>1. /\ {} \in SUBSET Ids
        /\ \A i \in Ids : Live(i)' <=> Live(i) /\ i \notin {}
        /\ Settled' = Settled \cup {TaskOf(i) : i \in {}}
    BY <1>2, <1>3, Zenon
  <2> QED BY Zenon, <1>1, <2>1, SettleStep
<1>5. HandsExclusive'
  BY <1>1, Zenon DEF IInv, OneLiveEntry, HandsExclusive
<1>6. SettledOnce'
  BY <1>1 DEF IInv, NoResurrection, SettledOnce, InDLQ
<1>7. RetryBudget' /\ PendingHasPayload'
  BY <1>1, Zenon DEF IInv, RetryBudget, PendingHasPayload, Ids, TaskOf
<1> QED BY <1>4, <1>5, <1>6, <1>7, Zenon DEF OneLiveEntry, NoResurrection

\* Locking, extending, notifying, starting DoneStream, unlocking, expiry, idling
\* and restarts are such steps.
LEMMA QuietClient ==
  ASSUME IInv, TypeOK', UNCHANGED core, UNCHANGED rec,
         \A k \in calls' : k \in calls \/ k.pc = "ack"
  PROVE  IInv'
<1>1. OneLiveEntry' /\ NoResurrection' /\ NothingVanishes' /\ RetryBudget' /\ PendingHasPayload'
  BY QuietStep, Zenon DEF InHand
<1>2. HandlerFacts'
  BY Zenon DEF IInv, HandlerFacts, core, TaskOf
<1> QED BY <1>1, <1>2, Zenon DEF IInv

\* So are the steps of a recoverer up to its XACK.
LEMMA QuietRecoverer ==
  ASSUME IInv, TypeOK', UNCHANGED core, UNCHANGED calls,
         NEW r \in Recoverers, NEW v, rec' = [rec EXCEPT ![r] = v],
         ~InHand(r), v.pc \notin {"add", "dlqadd"},
         v.pc = "del" => v.i \notin pel,
         v.pc \in {"exists", "ack"} => TaskOf(v.i) \notin Poison,
         v.pc = "ack" => log[v.i].retry < MaxRetries,
         v.pc = "dlqack" => TaskOf(v.i) \in Poison \/ log[v.i].retry = MaxRetries
  PROVE  IInv'
<1>0. rec \in [Recoverers -> RecState]
  BY Zenon DEF IInv, TypeOK, RecovererType
<1>1. \A q \in Recoverers : /\ InHand(q)' <=> InHand(q)
                            /\ InHand(q) => rec'[q].i = rec[q].i
  BY <1>0, Zenon DEF InHand
<1>2. OneLiveEntry' /\ NoResurrection' /\ NothingVanishes' /\ RetryBudget' /\ PendingHasPayload'
  BY <1>1, QuietStep, Zenon
<1>3. HandlerFacts'
  BY <1>0, Zenon DEF IInv, HandlerFacts, core, TaskOf
<1> QED BY <1>2, <1>3, Zenon DEF IInv

\* XREADGROUP moves undelivered entries to the PEL: they stay live.
LEMMA InvReadBatch ==
  ASSUME IInv, TypeOK', NEW c \in Consumers, ReadBatch(c) \/ ReadFails(c), XReadGroup,
         UNCHANGED <<recVars, crashes>>
  PROVE  IInv'
<1>1. /\ UNCHANGED <<log, deleted, dlq, done, lost, calls, rec>>
      /\ delivered' = Len(log)
      /\ pel' = pel \cup (delivered + 1 .. Len(log))
  BY Zenon DEF ReadBatch, ReadFails, XReadGroup, recVars
<1>2. /\ Ids = 1 .. Len(log) /\ Len(log) \in Nat /\ delivered \in 0 .. Len(log)
      /\ pel \subseteq 1 .. delivered /\ deleted \subseteq 1 .. delivered
      /\ \A r \in Recoverers : rec[r].i \in 0 .. delivered
      /\ \A k \in calls : k.i \in 1 .. delivered
  BY IdsRange, Zenon DEF IInv, TypeOK, LBSType, RecovererType, RecState, HandlerType
<1>3. \A i \in Ids : Live(i)' <=> Live(i)
  BY <1>1, <1>2 DEF Live, Held, InHand
<1>4. NewestLive' /\ SettledNotLive' /\ NothingVanishes'
  <2>1. /\ {} \in SUBSET Ids
        /\ \A i \in Ids : Live(i)' <=> Live(i) /\ i \notin {}
        /\ Settled' = Settled \cup {TaskOf(i) : i \in {}}
    BY <1>1, <1>3, Zenon DEF Settled, InDLQ
  <2> QED BY <1>1, <2>1, SettleStep, Zenon
<1>5. \A i \in 0 .. delivered : i \in pel' <=> i \in pel
  BY <1>1, <1>2
<1>6. HandsExclusive'
  BY <1>1, <1>2, <1>5, Zenon DEF IInv, OneLiveEntry, HandsExclusive, InHand
<1>7. SettledOnce' /\ RetryBudget'
  <2>1. SettledOnce /\ UNCHANGED <<dlq, done, lost>>
    BY <1>1, Zenon DEF IInv, NoResurrection
  <2>2. SettledOnce'
    BY <2>1 DEF SettledOnce, InDLQ
  <2>3. RetryBudget'
    BY <1>1, Zenon DEF IInv, RetryBudget, Ids, TaskOf
  <2> QED BY <2>2, <2>3, Zenon
<1>8. PendingHasPayload'
  <2>1. \A i \in deleted : i \in 0 .. delivered /\ i \notin pel
    BY <1>2 DEF IInv, PendingHasPayload
  <2> QED BY <1>1, <1>5, <2>1, Zenon DEF PendingHasPayload
<1>9. HandlerFacts'
  <2>1. /\ \A k \in calls : k.i \in pel' <=> k.i \in pel
        /\ \A r \in Recoverers : rec[r].i \in pel' <=> rec[r].i \in pel
    <3>1. \A i \in 1 .. delivered : i \in 0 .. delivered
      BY <1>2
    <3> QED BY <1>2, <1>5, <3>1, Zenon
  <2> QED BY <1>1, <2>1, Zenon DEF IInv, HandlerFacts, TaskOf
<1> QED BY <1>4, <1>6, <1>7, <1>8, <1>9, Zenon DEF IInv, OneLiveEntry, NoResurrection

\* A producer adds a task that was never added before.
LEMMA InvProduce ==
  ASSUME IInv, TypeOK', NEW t \in Tasks, Produce(t), UNCHANGED <<clientVars, recVars, crashes>>
  PROVE  IInv'
<1>1. /\ UNCHANGED <<delivered, deleted, pel, dlq, done, lost, calls, rec>>
      /\ XAdd(t, 0) /\ t \notin Added
  BY Zenon DEF Produce, clientVars, recVars
<1>2. /\ Ids = 1 .. Len(log) /\ Len(log) \in Nat /\ delivered \in 0 .. Len(log)
      /\ log \in Seq(Entry)
      /\ \A r \in Recoverers : rec[r].i \in 0 .. delivered
                           /\ (rec[r].pc \notin {"rest", "loop"} => rec[r].i # 0)
  BY IdsRange, Zenon DEF IInv, TypeOK, LBSType, RecovererType, RecState
<1>3. PICK m \in Nat : m = Len(log) + 1
  BY <1>2
<1>4. /\ Ids' = 1 .. m
      /\ \A i \in Ids : log'[i] = log[i]
      /\ log'[m] = [task |-> t, retry |-> 0]
  BY <1>1, <1>2, <1>3, AppendEntry, Zenon
<1>5. \A i \in Ids : TaskOf(i) # t
  BY <1>1, Zenon DEF Added
<1>6. \A i \in Ids : Live(i)' <=> Live(i)
  BY <1>1, Zenon DEF Live, Held, InHand
<1>7. NewestLive' /\ SettledNotLive' /\ NothingVanishes'
  <2>1. t \notin Settled /\ Settled' = Settled
    BY <1>1, Zenon DEF IInv, NothingVanishes, Settled, InDLQ
  <2>2. /\ {} \in SUBSET Ids /\ 0 \in Nat
        /\ \A i \in {} : TaskOf(i) = t
        /\ \A i \in Ids : Live(i)' <=> Live(i) /\ i \notin {}
        /\ \A i \in Ids : TaskOf(i) = t => ~Live(i)'
    BY <1>5, <1>6, Zenon
  <2> QED BY Zenon, <1>1, <2>1, <2>2, AddStep
<1>8. HandsExclusive' /\ SettledOnce' /\ PendingHasPayload'
  <2>1. HandsExclusive'
    BY <1>1, Zenon DEF IInv, OneLiveEntry, HandsExclusive, InHand
  <2>2. SettledOnce'
    BY <1>1 DEF IInv, NoResurrection, SettledOnce, InDLQ
  <2>3. PendingHasPayload'
    BY <1>1, Zenon DEF IInv, PendingHasPayload
  <2> QED BY <2>1, <2>2, <2>3, Zenon
<1>9. RetryBudget'
  <2>1. log'[m].retry = 0 /\ log'[m].task = t /\ 0 <= MaxRetries
    BY <1>4, RecoveryAssumption
  <2>2. \A i \in Ids' : log'[i].retry <= MaxRetries
    BY <1>2, <1>3, <1>4, <2>1 DEF IInv, RetryBudget
  <2>3. \A i, j \in Ids' : TaskOf(i)' = TaskOf(j)' /\ i < j => log'[i].retry < log'[j].retry
    <3> SUFFICES ASSUME NEW i \in Ids', NEW j \in Ids', TaskOf(i)' = TaskOf(j)', i < j
                 PROVE  log'[i].retry < log'[j].retry
      BY Zenon
    <3>1. i \in Ids /\ log'[i] = log[i] /\ TaskOf(i)' = TaskOf(i)
      BY <1>2, <1>3, <1>4 DEF TaskOf
    <3>2. j # m
      BY <1>5, <2>1, <3>1, Zenon DEF TaskOf
    <3>3. j \in Ids /\ log'[j] = log[j] /\ TaskOf(j)' = TaskOf(j)
      BY <1>2, <1>3, <1>4, <3>2 DEF TaskOf
    <3> QED BY <3>1, <3>3, Zenon DEF IInv, RetryBudget
  <2> QED BY <1>1, <2>2, <2>3, Zenon DEF IInv, RetryBudget
<1>10. HandlerFacts'
  <2>1. \A r \in Recoverers : rec[r].pc \notin {"rest", "loop"} => log'[rec[r].i] = log[rec[r].i]
    BY <1>2, <1>4
  <2> QED BY <1>1, <2>1, Zenon DEF IInv, HandlerFacts, TaskOf
<1> QED BY <1>7, <1>8, <1>9, <1>10, Zenon DEF IInv, OneLiveEntry, NoResurrection

\* The XACK of DoneStream: if the entry was pending its task is finished in the
\* same step, otherwise somebody else has taken it and nothing changes.
LEMMA InvDoneAck ==
  ASSUME IInv, TypeOK', NEW k \in calls, DoneAck(k), UNCHANGED <<recVars, crashes>>
  PROVE  IInv'
<1>1. /\ UNCHANGED <<log, delivered, deleted, dlq, lost, rec>>
      /\ \A l \in calls' : l \in calls \/ (l.i = k.i /\ pel' = pel \ {k.i})
  BY DEF DoneAck, AckDone, XAck, Proceed, EndCall, recVars
<1>2. CASE UNCHANGED <<pel, done>>
  <2>1. \A l \in calls' : l.pc # "ack" => l.i \notin pel'
    BY <1>1, <1>2, Zenon DEF IInv, HandlerFacts
  <2>2. OneLiveEntry' /\ NoResurrection' /\ NothingVanishes' /\ RetryBudget' /\ PendingHasPayload'
    BY <1>1, <1>2, QuietStep, Zenon DEF core, InHand
  <2>3. HandlerFacts'
    BY <1>1, <1>2, <2>1, Zenon DEF IInv, HandlerFacts, TaskOf
  <2> QED BY <2>2, <2>3, Zenon DEF IInv
<1>3. CASE k.i \in pel /\ pel' = pel \ {k.i} /\ done' = done \cup {TaskOf(k.i)}
  <2>1. /\ k.i \in Ids /\ k.i \in 1 .. delivered /\ delivered \in Nat
        /\ Live(k.i) /\ TaskOf(k.i) \notin Settled
        /\ \A r \in Recoverers : InHand(r) => rec[r].i # k.i
    BY <1>3, PendingLive, Zenon
  <2>3. \A i \in Ids : Live(i)' <=> Live(i) /\ i \notin {k.i}
    BY <1>1, <1>3, <2>1 DEF Live, Held, InHand
  <2>4. Settled' = Settled \cup {TaskOf(i) : i \in {k.i}}
    BY <1>1, <1>3, Zenon DEF Settled, InDLQ
  <2>5. NewestLive' /\ SettledNotLive' /\ NothingVanishes'
    BY Zenon, <1>1, <2>1, <2>3, <2>4, SettleStep
  <2>6. HandsExclusive' /\ RetryBudget' /\ PendingHasPayload'
    <3>1. HandsExclusive'
      BY <1>1, <1>3, Zenon DEF IInv, OneLiveEntry, HandsExclusive, InHand
    <3>2. RetryBudget'
      BY <1>1, Zenon DEF IInv, RetryBudget, Ids, TaskOf
    <3>3. PendingHasPayload'
      BY <1>1, <1>3, Zenon DEF IInv, PendingHasPayload
    <3> QED BY <3>1, <3>2, <3>3, Zenon
  <2>7. SettledOnce'
    <3>1. InDLQ' = InDLQ /\ TaskOf(k.i) \notin lost \cup InDLQ
      BY <1>1, <2>1, Zenon DEF InDLQ, Settled
    <3>2. SettledOnce
      BY Zenon DEF IInv, NoResurrection
    <3> QED BY <1>1, <1>3, <3>1, <3>2, Zenon DEF SettledOnce
  <2>8. HandlerFacts'
    BY <1>1, <1>3, Zenon DEF IInv, HandlerFacts, TaskOf
  <2> QED BY <2>5, <2>6, <2>7, <2>8, Zenon DEF IInv, OneLiveEntry, NoResurrection
<1> QED
  <2>1. \/ UNCHANGED <<pel, done>>
        \/ k.i \in pel /\ pel' = pel \ {k.i} /\ done' = done \cup {TaskOf(k.i)}
    BY Zenon DEF DoneAck, AckDone, XAck
  <2> QED BY <1>2, <1>3, <2>1, Zenon

\* The XDEL of DoneStream: its XACK has been executed.
LEMMA InvDoneDel ==
  ASSUME IInv, TypeOK', NEW k \in calls, DoneDel(k), UNCHANGED <<recVars, crashes>>
  PROVE  IInv'
<1>1. /\ UNCHANGED <<log, delivered, pel, dlq, done, lost, rec>>
      /\ deleted' \in {deleted, deleted \cup {k.i}}
      /\ k.pc = "del" /\ \A l \in calls' : l \in calls \/ l.i = k.i
  <2>1. UNCHANGED <<log, delivered, pel, dlq, done, lost, rec>> /\ k.pc = "del"
    BY Zenon DEF DoneDel, recVars
  <2>2. deleted' \in {deleted, deleted \cup {k.i}}
    BY Zenon DEF DoneDel, XDel
  <2>3. \A l \in calls' : l \in calls \/ l.i = k.i
    BY DEF DoneDel, Proceed, EndCall
  <2> QED BY <2>1, <2>2, <2>3, Zenon
<1>2. k.i \notin pel
  BY <1>1, Zenon DEF IInv, HandlerFacts
<1>3. NewestLive' /\ SettledNotLive' /\ NothingVanishes'
  <2>1. \A i \in Ids : Live(i)' <=> Live(i) /\ i \notin {}
    BY <1>1, Zenon DEF Live, Held, InHand
  <2>2. Settled' = Settled \cup {TaskOf(i) : i \in {}}
    BY <1>1, Zenon DEF Settled, InDLQ
  <2>3. {} \in SUBSET Ids
    BY Zenon
  <2> QED BY Zenon, <1>1, <2>1, <2>2, <2>3, SettleStep
<1>4. HandsExclusive' /\ SettledOnce' /\ RetryBudget' /\ PendingHasPayload'
  <2>1. HandsExclusive'
    BY <1>1, Zenon DEF IInv, OneLiveEntry, HandsExclusive, InHand
  <2>2. SettledOnce'
    <3>1. SettledOnce /\ UNCHANGED <<dlq, done, lost>>
      BY <1>1, Zenon DEF IInv, NoResurrection
    <3> QED BY <3>1 DEF SettledOnce, InDLQ
  <2>3. RetryBudget'
    BY <1>1, Zenon DEF IInv, RetryBudget, Ids, TaskOf
  <2>4. PendingHasPayload'
    BY <1>1, <1>2, Zenon DEF IInv, PendingHasPayload
  <2> QED BY <2>1, <2>2, <2>3, <2>4, Zenon
<1>5. HandlerFacts'
  BY <1>1, <1>2, Zenon DEF IInv, HandlerFacts, TaskOf
<1> QED BY <1>3, <1>4, <1>5, Zenon DEF IInv, OneLiveEntry, NoResurrection
=============================================================================
