--------------------------- MODULE BrokerContract ---------------------------
(***************************************************************************)
(* What the goroutines of a client rely on when they call the notification *)
(* broker: a Send returns while the application reads its channel, refused *)
(* only once the broker is closed or the context is done; a Close returns  *)
(* and closes the output.  The channels between Send and the application   *)
(* are hidden.  NotificationBroker implements this specification.          *)
(***************************************************************************)
CONSTANTS
  Senders,   \* goroutines that call Send
  Closers    \* goroutines that call Close

VARIABLES
  shut,      \* what is closed, of: the closed flag, the context, the output
  sending,   \* the senders inside Send
  closing,   \* the closers inside Close
  closed,    \* the closers whose Close has returned
  panicked   \* some goroutine has panicked

contract == <<shut, sending, closing, closed, panicked>>

ContractInit ==
  /\ shut = {}
  /\ sending = {} /\ closing = {} /\ closed = {}
  /\ panicked = FALSE

\* Cancelling releases some of the senders that wait.
ContractCancel ==
  /\ "ctx" \notin shut
  /\ shut' = shut \cup {"ctx"}
  /\ sending' \in SUBSET sending
  /\ UNCHANGED <<closing, closed, panicked>>

SendEnters(s) ==
  /\ s \notin sending
  /\ "flag" \notin shut
  /\ sending' = sending \cup {s}
  /\ UNCHANGED <<shut, closing, closed, panicked>>

SendAccepted(s) ==
  /\ s \in sending
  /\ sending' = sending \ {s}
  /\ UNCHANGED <<shut, closing, closed, panicked>>

SendsRefused(R) ==
  /\ R # {} /\ R \subseteq sending
  /\ {"flag", "ctx"} \cap shut # {}
  /\ sending' = sending \ R
  /\ UNCHANGED <<shut, closing, closed, panicked>>

\* A Send that overlaps Close may still meet the closed input.
SendPanics ==
  /\ sending # {} /\ "flag" \in shut
  /\ panicked' = TRUE
  /\ UNCHANGED <<shut, sending, closing, closed>>

CloseEnters(k) ==
  /\ k \notin closing \cup closed
  /\ shut' = shut \cup {"flag"}
  /\ closing' = closing \cup {k}
  /\ UNCHANGED <<sending, closed, panicked>>

CloseReturns(k) ==
  /\ k \in closing
  /\ panicked' = ("output" \in shut)
  /\ shut' = shut \cup {"output"}
  /\ closing' = closing \ {k} /\ closed' = closed \cup {k}
  /\ UNCHANGED sending

ContractNext ==
  /\ ~panicked
  /\ \/ ContractCancel
     \/ \E s \in Senders : SendEnters(s) \/ SendAccepted(s)
     \/ \E R \in SUBSET Senders : SendsRefused(R)
     \/ SendPanics
     \/ \E k \in Closers : CloseEnters(k) \/ CloseReturns(k)

\* Nobody stays inside Send or Close.
ContractLiveness ==
  /\ \A s \in Senders : s \in sending ~> s \notin sending \/ panicked
  /\ \A k \in Closers : k \in closing ~> k \in closed \/ panicked

ContractSpec == ContractInit /\ [][ContractNext]_contract /\ ContractLiveness
=============================================================================
