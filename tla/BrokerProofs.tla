---------------------------- MODULE BrokerProofs ----------------------------
(***************************************************************************)
(* Proofs about NotificationBroker, for any number of senders, closers and *)
(* messages and any capacities of the channels: the order of a shutdown,   *)
(* the order of the messages, and that the broker implements the safety    *)
(* part of its contract.                                                   *)
(***************************************************************************)
EXTENDS NotificationBroker, SequenceTheorems, TLAPS

(***************************************************************************)
(* The shutdown.  The flag comes first, then quit, which only one Close    *)
(* closes, then run leaves its loop and drains, then the input is closed,  *)
(* and the output last.                                                    *)
(***************************************************************************)
ShutInv ==
  /\ shut \subseteq {"flag", "ctx", "quit", "input", "output"}
  /\ run \in {"select", "drain", "drained", "exited"}
  /\ snd \in [Senders -> {"out", "select", "parked"}]
  /\ cls \in [Closers -> {"out", "quit", "wait", "returned"}]
  /\ panicked \in BOOLEAN
  /\ "quit" \in shut => "flag" \in shut
  /\ run # "select" => "quit" \in shut
  /\ "input" \in shut <=> run = "exited"
  /\ run \in {"drained", "exited"} => held = <<>>
  /\ "output" \in shut => run = "exited"
  /\ \A k \in Closers : cls[k] = "quit" => "flag" \in shut /\ "quit" \notin shut
  /\ \A j, k \in Closers : cls[j] = "quit" /\ cls[k] = "quit" => j = k
  /\ NoneParked

\* The steps of Send and the cancellation.
LEMMA ShutSend ==
  ASSUME ShutInv, NEW s \in Senders, CallSend(s) \/ SendStep(s)
  PROVE  ShutInv'
<1> USE DEF ShutInv, NoneParked, data
<1>1. CASE CallSend(s)
  BY <1>1, Zenon DEF CallSend
<1>2. CASE Refused(s)
  BY <1>2, Zenon DEF Refused
<1>3. CASE Accepted(s)
  BY <1>3, Zenon DEF Accepted
<1>4. CASE SendOnClosed(s)
  BY <1>4, Zenon DEF SendOnClosed
<1>5. CASE Park(s)
  BY <1>5, Zenon DEF Park
<1> QED BY <1>1, <1>2, <1>3, <1>4, <1>5, Zenon DEF SendStep

\* The steps of the forwarding goroutine.
LEMMA ShutRun ==
  ASSUME ShutInv, RunStep
  PROVE  ShutInv'
<1> USE DEF ShutInv, NoneParked, data
<1>1. CASE SeeQuit
  BY <1>1, Zenon DEF SeeQuit
<1>2. CASE Take
  BY <1>2, Zenon DEF Take
<1>3. CASE Forward
  BY <1>3 DEF Forward
<1>4. CASE Drained
  BY <1>4, Zenon DEF Drained
<1>5. CASE CloseInput
  BY <1>5 DEF CloseInput, CloseChan
<1> QED BY <1>1, <1>2, <1>3, <1>4, <1>5, Zenon DEF RunStep

\* The steps of Close: only the call that set the flag closes quit.
LEMMA ShutClose ==
  ASSUME ShutInv, NEW k \in Closers, CallClose(k) \/ CloseStep(k)
  PROVE  ShutInv'
<1> USE DEF ShutInv, NoneParked, data
<1>1. CASE CallClose(k)
  BY <1>1, Zenon DEF CallClose
<1>2. CASE CloseQuit(k)
  BY <1>2 DEF CloseQuit, CloseChan, Unparked
<1>3. CASE CloseOutput(k)
  BY <1>3 DEF CloseOutput, CloseChan
<1> QED BY <1>1, <1>2, <1>3, Zenon DEF CloseStep

\* Every step preserves the invariant.
LEMMA ShutStep == ShutInv /\ [Next]_vars => ShutInv'
<1> SUFFICES ASSUME ShutInv, [Next]_vars PROVE ShutInv'
  BY Zenon
<1>1. CASE UNCHANGED vars
  BY <1>1, Zenon DEF vars, data, ShutInv, NoneParked
<1>2. CASE Cancel
  BY <1>2 DEF Cancel, CloseChan, Unparked, data, ShutInv, NoneParked
<1>3. CASE Receive
  BY <1>3, Zenon DEF Receive, ShutInv, NoneParked
<1> QED BY <1>1, <1>2, <1>3, ShutSend, ShutRun, ShutClose, Zenon DEF Next

\* The invariant holds at first.
LEMMA ShutStart == Init => ShutInv
BY Zenon DEF Init, ShutInv, NoneParked

\* The output is closed only after run has stopped forwarding: a Forward never
\* meets a closed channel.
THEOREM OutputClosedLastAlways == Spec => []OutputClosedLast
<1>1. ShutInv => OutputClosedLast
  BY Zenon DEF ShutInv, OutputClosedLast
<1> QED BY <1>1, ShutStart, ShutStep, PTL DEF Spec

\* No Send stays parked once the context is done or quit is closed.
THEOREM NoneParkedAlways == Spec => []NoneParked
<1>1. ShutInv => NoneParked
  BY Zenon DEF ShutInv
<1> QED BY <1>1, ShutStart, ShutStep, PTL DEF Spec

(***************************************************************************)
(* The contract.  A step of Send, Close or the cancellation is the step of *)
(* the contract with that name, except that closing quit refuses every     *)
(* Send that is parked; the other steps leave the contract's state alone.  *)
(***************************************************************************)
\* The steps of Send.
LEMMA ContractSend ==
  ASSUME ShutInv, ~panicked, NEW s \in Senders, CallSend(s) \/ SendStep(s)
  PROVE  Contract!ContractNext \/ UNCHANGED Contract!contract
<1> USE DEF ShutInv, Contract!contract
<1>1. CASE CallSend(s)
  <2>1. Contract!SendEnters(s)
    BY <1>1, Zenon DEF CallSend, Contract!SendEnters
  <2> QED BY <2>1, Zenon DEF Contract!ContractNext
<1>2. CASE Refused(s)
  <2>1. Contract!SendsRefused({s})
    BY <1>2, Zenon DEF Refused, Contract!SendsRefused
  <2> QED BY <2>1, Zenon DEF Contract!ContractNext
<1>3. CASE Accepted(s)
  <2>1. Contract!SendAccepted(s)
    BY <1>3, Zenon DEF Accepted, Contract!SendAccepted
  <2> QED BY <2>1, Zenon DEF Contract!ContractNext
<1>4. CASE SendOnClosed(s)
  <2>1. Contract!SendPanics
    BY <1>4, Zenon DEF SendOnClosed, Contract!SendPanics
  <2> QED BY <2>1, Zenon DEF Contract!ContractNext
<1>5. CASE Park(s)
  BY <1>5, Zenon DEF Park
<1> QED BY <1>1, <1>2, <1>3, <1>4, <1>5, Zenon DEF SendStep

\* The steps of Close.
LEMMA ContractClose ==
  ASSUME ShutInv, ~panicked, NEW k \in Closers, CallClose(k) \/ CloseStep(k)
  PROVE  Contract!ContractNext \/ UNCHANGED Contract!contract
<1> USE DEF ShutInv, Contract!contract
<1>1. CASE CallClose(k)
  <2>1. Contract!CloseEnters(k)
    BY <1>1, Zenon DEF CallClose, Contract!CloseEnters
  <2> QED BY <2>1, Zenon DEF Contract!ContractNext
<1>2. CASE CloseQuit(k)
  <2> DEFINE R == {s \in Senders : snd[s] = "parked"}
  <2>1. CASE R = {}
    <3>1. snd' = snd
      BY <1>2, <2>1, Zenon DEF CloseQuit, Unparked
    <3> QED BY <1>2, <3>1 DEF CloseQuit, CloseChan
  <2>2. CASE R # {}
    <3>1. Contract!SendsRefused(R)
      BY <1>2, <2>2 DEF CloseQuit, CloseChan, Unparked, Contract!SendsRefused
    <3>2. R \in SUBSET Senders
      BY Zenon
    <3>3. \E Q \in SUBSET Senders : Contract!SendsRefused(Q)
      <4> HIDE DEF R, ShutInv, Contract!contract
      <4> QED BY <3>1, <3>2, Zenon DEF Contract!SendsRefused
    <3> QED BY <3>3, Zenon DEF Contract!ContractNext
  <2> QED BY <2>1, <2>2, Zenon
<1>3. CASE CloseOutput(k)
  <2>1. Contract!CloseReturns(k)
    BY <1>3 DEF CloseOutput, CloseChan, Contract!CloseReturns
  <2> QED BY <2>1, Zenon DEF Contract!ContractNext
<1> QED BY <1>1, <1>2, <1>3, Zenon DEF CloseStep

\* The steps of run and of the application are hidden: none of them panics.
LEMMA ContractRun ==
  ASSUME ShutInv, ~panicked, RunStep \/ Receive
  PROVE  UNCHANGED Contract!contract
BY DEF ShutInv, RunStep, SeeQuit, Take, Forward, Drained, CloseInput, CloseChan, Receive, Contract!contract

\* The broker implements the safety part of its contract: a Send is refused
\* only once the broker is closed or the context is done, a panic comes only
\* from a Send that overlaps Close or from a second Close, and the output is
\* closed by a Close that returns.
THEOREM BrokerImplementsContract ==
  Spec => Contract!ContractInit /\ [][Contract!ContractNext]_(Contract!contract)
<1>1. Init => Contract!ContractInit
  BY Zenon DEF Init, Contract!ContractInit
<1>2. ShutInv /\ [Next]_vars => [Contract!ContractNext]_(Contract!contract)
  <2> SUFFICES ASSUME ShutInv, [Next]_vars
               PROVE  Contract!ContractNext \/ UNCHANGED Contract!contract
    BY Zenon
  <2>1. CASE UNCHANGED vars
    BY <2>1, Zenon DEF vars, Contract!contract
  <2>2. CASE ~panicked /\ Cancel
    <3>1. Contract!ContractCancel
      BY <2>2 DEF Cancel, CloseChan, Unparked, ShutInv, Contract!ContractCancel
    <3> QED BY <2>2, <3>1, Zenon DEF Contract!ContractNext
  <2> QED BY <2>1, <2>2, ContractSend, ContractClose, ContractRun, Zenon DEF Next
<1> QED BY <1>1, <1>2, ShutStart, ShutStep, PTL DEF Spec

(***************************************************************************)
(* The order of the messages.                                              *)
(***************************************************************************)
OrderInv ==
  /\ input \in Seq(Nat) /\ held \in Seq(Nat) /\ output \in Seq(Nat) /\ received \in Seq(Nat)
  /\ Len(held) <= 1
  /\ accepted \in Nat
  /\ InOrder

\* The numbers of the first n messages.
Numbers(n) == [m \in 1 .. n |-> m]

\* One message more.
LEMMA NumbersGrow ==
  ASSUME NEW n \in Nat
  PROVE  Append(Numbers(n), n + 1) = Numbers(n + 1)
<1>1. Numbers(n) \in Seq(Nat) /\ Len(Numbers(n)) = n
  BY DEF Numbers
<1> DEFINE a == Append(Numbers(n), n + 1)
<1>2. a \in Seq(Nat) /\ Len(a) = n + 1
  BY <1>1
<1>3. DOMAIN a = 1 .. n + 1
  BY <1>2
<1>4. \A m \in 1 .. n + 1 : a[m] = m
  BY <1>1 DEF Numbers
<1>5. a = [m \in 1 .. n + 1 |-> a[m]]
  BY <1>2, <1>3
<1> HIDE DEF a
<1>6. a = [m \in 1 .. n + 1 |-> m]
  BY <1>4, <1>5, Zenon
<1> QED BY <1>6, Zenon DEF a, Numbers

\* Moving the first element of a sequence to the end of the one before it.
LEMMA MoveHead ==
  ASSUME NEW p \in Seq(Nat), NEW q \in Seq(Nat), q # <<>>
  PROVE  /\ Append(p, Head(q)) \o Tail(q) = p \o q
         /\ p \o <<Head(q)>> = Append(p, Head(q))
         /\ Head(q) \in Nat /\ Tail(q) \in Seq(Nat)
<1>1. Head(q) \in Nat /\ Tail(q) \in Seq(Nat)
  OBVIOUS
<1>2. p \o <<Head(q)>> = Append(p, Head(q))
  BY <1>1
<1>3. Append(p, Head(q)) \o Tail(q) = p \o q
  <2> DEFINE l == Append(p, Head(q)) \o Tail(q)
             r == p \o q
  <2>1. /\ Append(p, Head(q)) \in Seq(Nat) /\ Len(Append(p, Head(q))) = Len(p) + 1
        /\ Len(q) \in Nat /\ Len(Tail(q)) = Len(q) - 1 /\ Len(p) \in Nat
    BY <1>1
  <2>2. /\ l \in Seq(Nat) /\ Len(l) = Len(p) + Len(q)
        /\ r \in Seq(Nat) /\ Len(r) = Len(p) + Len(q)
    BY <1>1, <2>1
  <2>3. ASSUME NEW i \in 1 .. Len(l) PROVE l[i] = r[i]
    <3>1. CASE i \in 1 .. Len(p)
      BY <1>1, <2>1, <3>1
    <3>2. CASE i = Len(p) + 1
      BY <1>1, <2>1, <2>2, <3>2
    <3>3. CASE i - (Len(p) + 1) \in 1 .. Len(Tail(q))
      BY <1>1, <2>1, <2>2, <3>3
    <3> QED BY <2>1, <2>2, <3>1, <3>2, <3>3
  <2> HIDE DEF l, r
  <2>4. l = r
    BY <2>2, <2>3, SeqEqual, Zenon
  <2> QED BY <2>4, Zenon DEF l, r
<1> QED BY <1>1, <1>2, <1>3, Zenon

\* Steps that leave the messages alone.
LEMMA OrderFrame == OrderInv /\ UNCHANGED data => OrderInv'
BY Zenon DEF OrderInv, InOrder, data

\* What is appended to the last part is appended to the whole.
LEMMA AppendToPart ==
  ASSUME NEW s \in Seq(Nat), NEW t \in Seq(Nat), NEW n \in Nat
  PROVE  s \o Append(t, n) = Append(s \o t, n)
<1> DEFINE l == s \o Append(t, n)
           r == Append(s \o t, n)
<1>1. /\ s \o t \in Seq(Nat) /\ Len(s \o t) = Len(s) + Len(t)
      /\ Append(t, n) \in Seq(Nat) /\ Len(Append(t, n)) = Len(t) + 1
      /\ l \in Seq(Nat) /\ Len(l) = Len(s) + (Len(t) + 1)
      /\ r \in Seq(Nat) /\ Len(r) = Len(s) + Len(t) + 1
  OBVIOUS
<1>2. ASSUME NEW i \in 1 .. Len(l) PROVE l[i] = r[i]
  <2>1. CASE i \in 1 .. Len(s)
    BY <1>1, <2>1
  <2>2. CASE i - Len(s) \in 1 .. Len(t)
    BY <1>1, <2>2
  <2>3. CASE i = Len(s) + Len(t) + 1
    BY <1>1, <2>3
  <2> QED BY <1>1, <2>1, <2>2, <2>3
<1>3. l \in Seq(Nat) /\ r \in Seq(Nat) /\ Len(l) = Len(r)
  BY <1>1
<1> HIDE DEF l, r
<1>4. l = r
  BY <1>2, <1>3, SeqEqual, Zenon
<1> QED BY <1>4, Zenon DEF l, r

\* A Send that is accepted adds the next number at the end.
LEMMA OrderAccepted ==
  ASSUME OrderInv, NEW s \in Senders, Accepted(s)
  PROVE  OrderInv'
<1> DEFINE before == received \o output \o held
           n == accepted + 1
<1>1. before \in Seq(Nat) /\ input \in Seq(Nat) /\ n \in Nat /\ before \o input = Numbers(accepted)
  BY DEF OrderInv, InOrder, Numbers
<1>2. /\ input' = Append(input, n) /\ accepted' = n
      /\ UNCHANGED <<held, output, received>> /\ before' = before
  BY Zenon DEF Accepted
<1>3. before \o Append(input, n) = Append(before \o input, n)
  <2> HIDE DEF before, n
  <2> QED BY <1>1, AppendToPart, Zenon
<1>4. Append(before \o input, n) = Numbers(n)
  BY <1>1, NumbersGrow, Zenon DEF OrderInv
<1>5. InOrder'
  BY <1>2, <1>3, <1>4, Zenon DEF InOrder, Numbers
<1> QED BY <1>1, <1>2, <1>5 DEF OrderInv

\* Taking, forwarding and receiving a message move it to the next place.
LEMMA OrderTake ==
  ASSUME OrderInv, Take
  PROVE  OrderInv'
<1> DEFINE before == received \o output
<1>1. before \in Seq(Nat) /\ input \in Seq(Nat) /\ input # <<>> /\ held = <<>>
  BY DEF OrderInv, Take
<1>2. /\ held' = <<Head(input)>> /\ input' = Tail(input)
      /\ UNCHANGED <<output, received, accepted>>
  BY Zenon DEF Take
<1>3. /\ Append(before, Head(input)) \o Tail(input) = before \o input
      /\ before \o <<Head(input)>> = Append(before, Head(input))
      /\ Head(input) \in Nat /\ Tail(input) \in Seq(Nat)
  <2> HIDE DEF before
  <2> QED BY <1>1, MoveHead, Zenon
<1>4. before \o <<>> = before
  <2> HIDE DEF before
  <2> QED BY <1>1
<1>5. InOrder'
  BY <1>1, <1>2, <1>3, <1>4, Zenon DEF OrderInv, InOrder
<1>6. held' \in Seq(Nat) /\ Len(held') <= 1
  BY <1>2, <1>3
<1> QED BY <1>2, <1>3, <1>5, <1>6, Zenon DEF OrderInv

\* Three sequences may be put together from either end.
LEMMA ThreeParts ==
  ASSUME NEW s \in Seq(Nat), NEW t \in Seq(Nat), NEW u \in Seq(Nat)
  PROVE  s \o (t \o u) = (s \o t) \o u
<1> DEFINE l == s \o (t \o u)
           r == (s \o t) \o u
<1>1. /\ s \o t \in Seq(Nat) /\ Len(s \o t) = Len(s) + Len(t)
      /\ t \o u \in Seq(Nat) /\ Len(t \o u) = Len(t) + Len(u)
      /\ l \in Seq(Nat) /\ Len(l) = Len(s) + (Len(t) + Len(u))
      /\ r \in Seq(Nat) /\ Len(r) = (Len(s) + Len(t)) + Len(u)
  OBVIOUS
<1>2. ASSUME NEW i \in 1 .. Len(l) PROVE l[i] = r[i]
  <2>1. CASE i \in 1 .. Len(s)
    BY <1>1, <2>1
  <2>2. CASE i - Len(s) \in 1 .. Len(t)
    BY <1>1, <2>2
  <2>3. CASE i - Len(s) - Len(t) \in 1 .. Len(u)
    BY <1>1, <2>3
  <2> QED BY <1>1, <2>1, <2>2, <2>3
<1>3. l \in Seq(Nat) /\ r \in Seq(Nat) /\ Len(l) = Len(r)
  BY <1>1
<1> HIDE DEF l, r
<1>4. l = r
  BY <1>2, <1>3, SeqEqual, Zenon
<1> QED BY <1>4, Zenon DEF l, r

\* Forwarding.
LEMMA OrderForward ==
  ASSUME OrderInv, Forward
  PROVE  OrderInv'
<1>1. /\ received \in Seq(Nat) /\ output \in Seq(Nat) /\ held \in Seq(Nat) /\ input \in Seq(Nat)
      /\ output' = output \o held /\ held' = <<>> /\ UNCHANGED <<input, received, accepted>>
  BY Zenon DEF OrderInv, Forward
<1>2. received \o (output \o held) = (received \o output) \o held
  <2>1. received \in Seq(Nat) /\ output \in Seq(Nat) /\ held \in Seq(Nat)
    BY <1>1, Zenon
  <2> QED BY <2>1, ThreeParts, Zenon
<1>3. (received \o (output \o held)) \o <<>> = received \o (output \o held)
  <2> DEFINE all == received \o (output \o held)
  <2>1. all \in Seq(Nat)
    BY <1>1
  <2> HIDE DEF all
  <2>2. all \o <<>> = all
    BY <2>1, ConcatEmptySeq, Zenon
  <2> QED BY <2>2, Zenon DEF all
<1>4. InOrder'
  BY <1>1, <1>2, <1>3, Zenon DEF OrderInv, InOrder
<1> QED BY <1>1, <1>4 DEF OrderInv

\* Receiving.
LEMMA OrderReceive ==
  ASSUME OrderInv, Receive
  PROVE  OrderInv'
<1>1. /\ received \in Seq(Nat) /\ output \in Seq(Nat) /\ output # <<>>
      /\ received' = Append(received, Head(output)) /\ output' = Tail(output)
      /\ UNCHANGED <<input, held, accepted>>
  BY Zenon DEF OrderInv, Receive
<1>2. /\ received' \o output' = received \o output
      /\ received' \in Seq(Nat) /\ output' \in Seq(Nat)
  <2>1. /\ Append(received, Head(output)) \o Tail(output) = received \o output
        /\ Head(output) \in Nat /\ Tail(output) \in Seq(Nat)
    BY <1>1, MoveHead, Zenon
  <2>2. Append(received, Head(output)) \in Seq(Nat)
    BY <1>1, <2>1
  <2> QED BY <1>1, <2>1, <2>2, Zenon
<1> QED BY <1>1, <1>2, Zenon DEF OrderInv, InOrder

\* Every step preserves the invariant.
LEMMA OrderStep == OrderInv /\ [Next]_vars => OrderInv'
<1> SUFFICES ASSUME OrderInv, [Next]_vars PROVE OrderInv'
  BY Zenon
<1>1. ASSUME NEW s \in Senders, CallSend(s) \/ SendStep(s)
      PROVE  OrderInv'
  BY <1>1, OrderFrame, OrderAccepted, Zenon DEF CallSend, SendStep, Refused, SendOnClosed, Park
<1>2. CASE RunStep
  BY <1>2, OrderFrame, OrderTake, OrderForward, Zenon DEF RunStep, SeeQuit, Drained, CloseInput
<1>3. CASE (\E k \in Closers : CallClose(k) \/ CloseStep(k)) \/ Cancel \/ UNCHANGED vars
  BY <1>3, OrderFrame, Zenon DEF CallClose, CloseStep, CloseQuit, CloseOutput, Cancel, vars
<1> QED BY <1>1, <1>2, <1>3, OrderReceive, Zenon DEF Next

\* The invariant holds at first.
LEMMA OrderStart == Init => OrderInv
BY DEF Init, OrderInv, InOrder

\* Through every interleaving of senders, run, Close and the application, what
\* was received, buffered and held is exactly what Send accepted, in order.
THEOREM InOrderAlways == Spec => []InOrder
<1>1. OrderInv => InOrder
  BY Zenon DEF OrderInv
<1> QED BY <1>1, OrderStart, OrderStep, PTL DEF Spec

(***************************************************************************)
(* The channels.                                                           *)
(***************************************************************************)
Within == Len(input) <= InCap /\ Len(output) <= OutCap

\* A buffer grows by one message, and only when it has a place.
LEMMA WithinStep == OrderInv /\ Within /\ [Next]_vars => Within'
<1> SUFFICES ASSUME OrderInv, Within, [Next]_vars PROVE Within'
  BY Zenon
<1>0. UNCHANGED data => Within'
  BY Zenon DEF Within, data
<1>1. ASSUME NEW s \in Senders, Accepted(s) PROVE Within'
  <2>1. Len(input') = Len(input) + 1 /\ output' = output /\ Len(input) < InCap
    BY <1>1 DEF Accepted, OrderInv
  <2> QED BY <2>1, BrokerAssumption DEF BrokerAssumption, Within, OrderInv
<1>2. CASE Take
  <2>1. Len(input') = Len(input) - 1 /\ output' = output
    BY <1>2 DEF Take, OrderInv
  <2> QED BY <2>1, BrokerAssumption DEF BrokerAssumption, Within, OrderInv
<1>3. CASE Forward
  <2>1. Len(output') = Len(output) + Len(held) /\ input' = input /\ Len(output) < OutCap
    BY <1>3 DEF Forward, OrderInv
  <2> QED BY <2>1, BrokerAssumption DEF BrokerAssumption, Within, OrderInv
<1>4. CASE Receive
  <2>1. Len(output') = Len(output) - 1 /\ input' = input
    BY <1>4 DEF Receive, OrderInv
  <2> QED BY <2>1, BrokerAssumption DEF BrokerAssumption, Within, OrderInv
<1>5. ASSUME NEW s \in Senders, CallSend(s) \/ Refused(s) \/ SendOnClosed(s) \/ Park(s)
      PROVE  Within'
  BY <1>0, <1>5, Zenon DEF CallSend, Refused, SendOnClosed, Park
<1>6. CASE SeeQuit \/ Drained \/ CloseInput
  BY <1>0, <1>6, Zenon DEF SeeQuit, Drained, CloseInput
<1>7. CASE (\E k \in Closers : CallClose(k) \/ CloseStep(k)) \/ Cancel \/ UNCHANGED vars
  BY <1>0, <1>7, Zenon DEF CallClose, CloseStep, CloseQuit, CloseOutput, Cancel, vars
<1> QED BY <1>1, <1>2, <1>3, <1>4, <1>5, <1>6, <1>7, Zenon DEF Next, SendStep, RunStep

\* Type correctness, capacities included: no interleaving of Send, run and the
\* application puts more into a channel than it holds, or has run hold more
\* than one message.
THEOREM BrokerTypeCorrect == Spec => []TypeOK
<1>1. Init => Within
  BY BrokerAssumption DEF BrokerAssumption, Init, Within
<1>2. ShutInv /\ OrderInv /\ Within => TypeOK
  BY Zenon DEF ShutInv, OrderInv, Within, TypeOK
<1> QED BY <1>1, <1>2, ShutStart, ShutStep, OrderStart, OrderStep, WithinStep, PTL DEF Spec
=============================================================================
