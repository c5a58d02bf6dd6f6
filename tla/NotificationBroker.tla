------------------------- MODULE NotificationBroker -------------------------
(***************************************************************************)
(* The notification broker between the goroutines of a client and the      *)
(* output channel its application reads: Send, the forwarding goroutine    *)
(* run, and Close.  A select takes any of its ready cases; a send case on  *)
(* a closed channel is ready, and panics.  A message is the number of the  *)
(* Send that was accepted.                                                 *)
(***************************************************************************)
EXTENDS Integers, Sequences

CONSTANTS
  Senders,   \* goroutines that call Send: reader, key extenders, keyspace listener
  Closers,   \* goroutines that call Close
  InCap,     \* capacity of the input channel
  OutCap,    \* capacity of the output channel
  MaxSends   \* bound on the number of messages accepted

ASSUME BrokerAssumption == InCap \in Nat \ {0} /\ OutCap \in Nat \ {0} /\ MaxSends \in Nat

VARIABLES
  input,     \* buffer of the channel Send writes to
  held,      \* the message run has received and not forwarded
  output,    \* buffer of the channel the application reads
  received,  \* history: what the application has read
  accepted,  \* history: the number of Send calls that returned true
  shut,      \* what is closed: the closed flag and the channels
  run,       \* where the forwarding goroutine is
  snd,       \* snd[s]: where the Send call of s is
  cls,       \* cls[k]: where the Close call of k is
  panicked   \* some goroutine has panicked, and the process with it

data == <<input, held, output, received, accepted>>
vars == <<data, shut, run, snd, cls, panicked>>

Init ==
  /\ input = <<>> /\ held = <<>> /\ output = <<>> /\ received = <<>>
  /\ accepted = 0
  /\ shut = {}
  /\ run = "select"
  /\ snd = [s \in Senders |-> "out"]
  /\ cls = [k \in Closers |-> "out"]
  /\ panicked = FALSE

\* close(ch), where "ctx" is the channel of the context; closing "ctx" or
\* "quit" makes every Send parked in its select return false.
CloseChan(ch) ==
  /\ panicked' = (ch \in shut)
  /\ shut' = shut \cup {ch}

Unparked == [s \in Senders |-> IF snd[s] = "parked" THEN "out" ELSE snd[s]]

Cancel ==
  /\ "ctx" \notin shut
  /\ CloseChan("ctx")
  /\ snd' = Unparked
  /\ UNCHANGED <<data, run, cls>>

(***************************************************************************)
(* Send: the flag is read first, the select is entered later.              *)
(***************************************************************************)
CallSend(s) ==
  /\ snd[s] = "out"
  /\ accepted < MaxSends
  /\ "flag" \notin shut
  /\ snd' = [snd EXCEPT ![s] = "select"]
  /\ UNCHANGED <<data, shut, run, cls, panicked>>

Refused(s) ==
  /\ snd[s] = "select"
  /\ {"ctx", "quit"} \cap shut # {}
  /\ snd' = [snd EXCEPT ![s] = "out"]
  /\ UNCHANGED <<data, shut, run, cls, panicked>>

\* A place in the buffer goes to any sender that is waiting for one.
Accepted(s) ==
  /\ snd[s] \in {"select", "parked"}
  /\ "input" \notin shut
  /\ Len(input) < InCap
  /\ accepted' = accepted + 1
  /\ input' = Append(input, accepted')
  /\ snd' = [snd EXCEPT ![s] = "out"]
  /\ UNCHANGED <<held, output, received, shut, run, cls, panicked>>

SendOnClosed(s) ==
  /\ snd[s] = "select"
  /\ "input" \in shut
  /\ panicked' = TRUE
  /\ UNCHANGED <<data, shut, run, snd, cls>>

Park(s) ==
  /\ snd[s] = "select"
  /\ {"ctx", "quit", "input"} \cap shut = {}
  /\ Len(input) = InCap
  /\ snd' = [snd EXCEPT ![s] = "parked"]
  /\ UNCHANGED <<data, shut, run, cls, panicked>>

SendStep(s) == Refused(s) \/ Accepted(s) \/ SendOnClosed(s) \/ Park(s)

(***************************************************************************)
(* run: forward until quit is closed, then drain and close the input.      *)
(***************************************************************************)
SeeQuit ==
  /\ run = "select" /\ held = <<>>
  /\ "quit" \in shut
  /\ run' = "drain"
  /\ UNCHANGED <<data, shut, snd, cls, panicked>>

\* Mutant: run collects what the input holds before it forwards any of it.
TakeMore ==
  /\ run \in {"select", "drain"}
  /\ input # <<>>
  /\ held' = Append(held, Head(input))
  /\ input' = Tail(input)
  /\ UNCHANGED <<output, received, accepted, shut, run, snd, cls, panicked>>

Take ==
  /\ run \in {"select", "drain"} /\ held = <<>>
  /\ input # <<>>
  /\ held' = <<Head(input)>>
  /\ input' = Tail(input)
  /\ UNCHANGED <<output, received, accepted, shut, run, snd, cls, panicked>>

\* Mutant: a message is dropped when the output channel is full.
ForwardOrDrop ==
  /\ held # <<>>
  /\ output' = IF Len(output) < OutCap THEN output \o held ELSE output
  /\ held' = <<>>
  /\ UNCHANGED <<input, received, accepted, shut, run, snd, cls, panicked>>

Forward ==
  /\ held # <<>>
  /\ Len(output) < OutCap
  /\ output' = output \o held
  /\ held' = <<>>
  /\ panicked' = ("output" \in shut)
  /\ UNCHANGED <<input, received, accepted, shut, run, snd, cls>>

\* Mutant: run returns without draining.
DrainedEarly ==
  /\ run = "drain" /\ held = <<>>
  /\ run' = "drained"
  /\ UNCHANGED <<data, shut, snd, cls, panicked>>

\* The default case of the drain loop is chosen; the close comes after it.
Drained ==
  /\ run = "drain" /\ held = <<>>
  /\ input = <<>>
  /\ run' = "drained"
  /\ UNCHANGED <<data, shut, snd, cls, panicked>>

CloseInput ==
  /\ run = "drained"
  /\ CloseChan("input")
  /\ run' = "exited"
  /\ UNCHANGED <<data, snd, cls>>

RunStep == SeeQuit \/ Take \/ Forward \/ Drained \/ CloseInput

(***************************************************************************)
(* Close: compare-and-swap the flag, close quit, wait for run, close the   *)
(* output.                                                                 *)
(***************************************************************************)
CallClose(k) ==
  /\ cls[k] = "out"
  /\ cls' = [cls EXCEPT ![k] = IF "flag" \in shut THEN "wait" ELSE "quit"]
  /\ shut' = shut \cup {"flag"}
  /\ UNCHANGED <<data, run, snd, panicked>>

\* Mutants: Send does not watch quit; Close does not close quit.
CloseQuitUnseen(k) ==
  /\ cls[k] = "quit"
  /\ CloseChan("quit")
  /\ cls' = [cls EXCEPT ![k] = "wait"]
  /\ UNCHANGED <<data, run, snd>>

CloseQuitForgotten(k) ==
  /\ cls[k] = "quit"
  /\ cls' = [cls EXCEPT ![k] = "wait"]
  /\ UNCHANGED <<data, shut, run, snd, panicked>>

CloseQuit(k) ==
  /\ cls[k] = "quit"
  /\ CloseChan("quit")
  /\ snd' = Unparked
  /\ cls' = [cls EXCEPT ![k] = "wait"]
  /\ UNCHANGED <<data, run>>

\* Mutant: Close does not wait for run.
CloseOutputEarly(k) ==
  /\ cls[k] = "wait"
  /\ CloseChan("output")
  /\ cls' = [cls EXCEPT ![k] = "returned"]
  /\ UNCHANGED <<data, run, snd>>

CloseOutput(k) ==
  /\ cls[k] = "wait"
  /\ run = "exited"
  /\ CloseChan("output")
  /\ cls' = [cls EXCEPT ![k] = "returned"]
  /\ UNCHANGED <<data, run, snd>>

CloseStep(k) == CloseQuit(k) \/ CloseOutput(k)

\* The application reads its channel.
Receive ==
  /\ output # <<>>
  /\ received' = Append(received, Head(output))
  /\ output' = Tail(output)
  /\ UNCHANGED <<input, held, accepted, shut, run, snd, cls, panicked>>

Next ==
  /\ ~panicked
  /\ \/ \E s \in Senders : CallSend(s) \/ SendStep(s)
     \/ RunStep
     \/ \E k \in Closers : CallClose(k) \/ CloseStep(k)
     \/ Cancel
     \/ Receive

Spec == Init /\ [][Next]_vars

\* Goroutines that can run do run, and the application keeps reading its
\* channel; nothing forces a call of Send or Close, or a cancellation.
FairSpec ==
  /\ Spec
  /\ \A s \in Senders : WF_vars(~panicked /\ SendStep(s))
  /\ \A k \in Closers : WF_vars(~panicked /\ CloseStep(k))
  /\ WF_vars(~panicked /\ RunStep)
  /\ WF_vars(~panicked /\ Receive)

-----------------------------------------------------------------------------
\* The channels stay within their capacities, run never has more than one
\* message in its hands, and everything has its type.
TypeOK ==
  /\ input \in Seq(Nat) /\ Len(input) <= InCap
  /\ held \in Seq(Nat) /\ Len(held) <= 1
  /\ output \in Seq(Nat) /\ Len(output) <= OutCap
  /\ received \in Seq(Nat)
  /\ accepted \in Nat
  /\ shut \subseteq {"flag", "ctx", "quit", "input", "output"}
  /\ run \in {"select", "drain", "drained", "exited"}
  /\ snd \in [Senders -> {"out", "select", "parked"}]
  /\ cls \in [Closers -> {"out", "quit", "wait", "returned"}]
  /\ panicked \in BOOLEAN

\* Through normal operation, the drain and the shutdown, what Send accepts is
\* forwarded once and in order: what was received, buffered and held is
\* together exactly what was accepted.
InOrder == received \o output \o held \o input = [m \in 1 .. accepted |-> m]

\* The output channel is closed only when run has stopped forwarding (the
\* wg.Wait of Close), so forwarding never panics.
OutputClosedLast == "output" \in shut => run = "exited" /\ held = <<>>

\* A Send waiting for room is released by Close and by its context: none stays
\* parked once either is closed, so none sleeps for ever or wakes up on the
\* closed input.
NoneParked == {"ctx", "quit"} \cap shut # {} => \A s \in Senders : snd[s] # "parked"

\* Every message that Send accepted before Close was called is received by an
\* application that keeps reading, also when Close is called meanwhile (drain).
AcceptedReceived ==
  \A m \in 1 .. MaxSends :
    accepted >= m /\ "flag" \notin shut ~> Len(received) >= m \/ panicked

\* No goroutine panics by sending on a closed channel or closing one twice.
NoPanic == ~panicked

-----------------------------------------------------------------------------
\* The broker with its channels hidden.
Contract == INSTANCE BrokerContract WITH
  shut <- shut \cap {"flag", "ctx", "output"},
  sending <- {s \in Senders : snd[s] # "out"},
  closing <- {k \in Closers : cls[k] \in {"quit", "wait"}},
  closed <- {k \in Closers : cls[k] = "returned"}

\* The goroutines of the client may treat the broker as the contract: a Send is
\* refused only once the broker is closed or the context is done, and neither
\* Send nor Close blocks for ever while the application reads its channel.
ImplementsContract == Contract!ContractSpec
=============================================================================
