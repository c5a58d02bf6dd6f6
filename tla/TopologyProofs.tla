--------------------------- MODULE TopologyProofs ---------------------------
(***************************************************************************)
(* The subscriptions of a client in a Redis Cluster, for any number of     *)
(* nodes, slots, changes of the cluster and goroutines that call           *)
(* ReinitTopology.                                                         *)
(***************************************************************************)
EXTENDS Topology, FiniteSetTheorems, TLAPS

(***************************************************************************)
(* Types.                                                                  *)
(***************************************************************************)
CallRec ==
  [pc : Pcs, reapply : BOOLEAN, todo : SUBSET Nodes, succeeded : Nat,
   refused : BOOLEAN, won : BOOLEAN, quiet : BOOLEAN]

SlotMaps == {<<>>} \cup {SlotOwnership(o) : o \in Ownerships}

RepRec == [at : {"unasked", "info", "answered", "err"}, ok : BOOLEAN, slots : SlotMaps]

ClientType ==
  /\ call \in [Callers -> CallRec]
  /\ pubSubs \in [Nodes -> Nat]
  /\ known \in Ownerships
  /\ inited \in {"new", "called", "ready"} /\ done \in BOOLEAN

ClusterType ==
  /\ owner \in Ownerships
  /\ view \in [Nodes -> [owner : Ownerships, ok : BOOLEAN]]
  /\ down \subseteq Nodes
  /\ conf \in [Nodes -> {"", "other", "KEx"}]
  /\ changes \in 0 .. MaxChanges

ReportType ==
  /\ reports \in [Callers -> [Nodes -> RepRec]]
  /\ \A c \in Callers : call[c].pc # "ask" => \A n \in Nodes : reports[c][n] = Unasked

TypeInv == ClientType /\ ClusterType /\ ReportType

\* The record of one caller is replaced.
LEMMA OneCall ==
  ASSUME call \in [Callers -> CallRec], NEW c \in Callers, NEW v \in CallRec,
         call' = [call EXCEPT ![c] = v]
  PROVE  /\ call' \in [Callers -> CallRec]
         /\ call'[c] = v
         /\ \A d \in Callers \ {c} : call'[d] = call[d]
  BY Zenon

\* The record of a goroutine that is not inside a call.
LEMMA IdleRec == Idle \in CallRec
  BY Zenon DEF Idle, CallRec, Pcs

\* A step of the call of c that leads to p, with the masters in t to come.
Becomes(c, p, t) ==
  /\ call' \in [Callers -> CallRec]
  /\ \A d \in Callers \ {c} : call'[d] = call[d]
  /\ call'[c].pc = p /\ call'[c].todo = t

Keeps(c) ==
  /\ call'[c].reapply = call[c].reapply
  /\ call'[c].won = call[c].won
  /\ call'[c].quiet = call[c].quiet

\* A call that returns an error leaves nothing of itself.
LEMMA FailCall ==
  ASSUME call \in [Callers -> CallRec], NEW c \in Callers, Fail(c)
  PROVE  /\ Becomes(c, "out", {})
         /\ ~call'[c].quiet /\ ~call'[c].won /\ ~call'[c].reapply
<1>1. /\ call' \in [Callers -> CallRec] /\ call'[c] = Idle
      /\ \A d \in Callers \ {c} : call'[d] = call[d]
  BY IdleRec, OneCall, Zenon DEF Fail
<1> QED BY <1>1 DEF Becomes, Idle

\* A call goes on to its next step.
LEMMA GotoCall ==
  ASSUME call \in [Callers -> CallRec], NEW c \in Callers, NEW p \in Pcs, Goto(c, p)
  PROVE  Becomes(c, p, call[c].todo) /\ Keeps(c)
<1>1. call[c] \in CallRec
  BY Zenon
<1>2. [call[c] EXCEPT !.pc = p] \in CallRec
  BY <1>1, Zenon DEF CallRec
<1>3. call' = [call EXCEPT ![c] = [call[c] EXCEPT !.pc = p]]
  BY Zenon DEF Goto
<1>4. /\ call' \in [Callers -> CallRec]
      /\ call'[c] = [call[c] EXCEPT !.pc = p]
      /\ \A d \in Callers \ {c} : call'[d] = call[d]
  BY <1>2, <1>3, OneCall, Zenon
<1> QED BY <1>1, <1>4, Zenon DEF Becomes, Keeps, CallRec

\* The ownership that the cluster client loads.
LEMMA LoadType ==
  ASSUME ClientType, ClusterType, Load
  PROVE  known' \in Ownerships /\ Masters(known') \subseteq Nodes /\ Masters(known') # {}
<1>1. known' \in Ownerships
  <2>1. \A n \in Up : view[n].owner \in Ownerships
    BY Zenon DEF ClusterType, Up
  <2>2. CASE Up = {}
    BY <2>2, Zenon DEF Load, ClientType
  <2>3. CASE Up # {}
    BY <2>1, <2>3, Zenon DEF Load
  <2> QED BY <2>2, <2>3, Zenon
<1>2. Masters(known') \subseteq Nodes
  BY <1>1, Zenon DEF Masters, Ownerships
<1>3. Masters(known') # {}
  BY TopologyAssumption, Zenon DEF Masters, TopologyAssumption
<1> QED BY <1>1, <1>2, <1>3, Zenon

\* ForEachMaster sets out for all masters that the client has loaded.
LEMMA SweepCall ==
  ASSUME ClientType, ClusterType, NEW c \in Callers, NEW at, NEW p \in Pcs, ForEachMaster(c, at, p)
  PROVE  Becomes(c, p, Masters(known')) /\ Keeps(c) /\ Masters(known') # {} /\ known' \in Ownerships
<1>1. call \in [Callers -> CallRec] /\ call[c] \in CallRec
  BY Zenon DEF ClientType
<1>2. known' \in Ownerships /\ Masters(known') \subseteq Nodes /\ Masters(known') # {}
  BY LoadType, Zenon DEF ForEachMaster
<1>t. PICK t \in SUBSET Nodes : t = Masters(known')
  BY <1>2, Zenon
<1>3. [call[c] EXCEPT !.pc = p, !.todo = t] \in CallRec
  BY Zenon, <1>1, <1>2 DEF CallRec
<1>4. call' = [call EXCEPT ![c] = [call[c] EXCEPT !.pc = p, !.todo = t]]
  BY Zenon, <1>1, <1>t DEF ForEachMaster
<1>5. /\ call' \in [Callers -> CallRec]
      /\ call'[c] = [call[c] EXCEPT !.pc = p, !.todo = t]
      /\ \A d \in Callers \ {c} : call'[d] = call[d]
  BY <1>1, <1>3, <1>4, OneCall, Zenon
<1>6. call'[c].pc = p /\ call'[c].todo = t /\ Keeps(c)
  BY <1>1, <1>5, Zenon DEF Keeps, CallRec
<1> QED BY <1>2, <1>5, <1>6, <1>t, Zenon DEF Becomes

\* A ReinitTopology begins undisturbed.
LEMMA ReinitCall ==
  ASSUME call \in [Callers -> CallRec], NEW c \in Callers, ReinitTopology(c)
  PROVE  Becomes(c, "ask", {}) /\ call'[c].reapply /\ call'[c].quiet /\ ~call'[c].won
<1> DEFINE v == [Idle EXCEPT !.pc = "ask", !.reapply = TRUE, !.quiet = TRUE]
<1>1. v \in CallRec /\ v.pc = "ask" /\ v.todo = {} /\ v.reapply /\ v.quiet /\ ~v.won
  BY Zenon DEF Idle, CallRec, Pcs
<1>2. call' = [call EXCEPT ![c] = v]
  BY Zenon DEF ReinitTopology
<1> HIDE DEF v
<1>3. call' \in [Callers -> CallRec] /\ call'[c] = v /\ \A d \in Callers \ {c} : call'[d] = call[d]
  BY <1>1, <1>2, OneCall, Zenon
<1> QED BY <1>1, <1>3, Zenon DEF Becomes

\* Init begins.
LEMMA InitCall ==
  ASSUME call \in [Callers -> CallRec], NEW c \in Callers, CallInit(c)
  PROVE  Becomes(c, "enable", {}) /\ ~call'[c].reapply /\ ~call'[c].quiet /\ ~call'[c].won
<1> DEFINE v == [Idle EXCEPT !.pc = "enable"]
<1>1. v \in CallRec /\ v.pc = "enable" /\ v.todo = {} /\ ~v.reapply /\ ~v.quiet /\ ~v.won
  BY Zenon DEF Idle, CallRec, Pcs
<1>2. call' = [call EXCEPT ![c] = v]
  BY Zenon DEF CallInit
<1> HIDE DEF v
<1>3. call' \in [Callers -> CallRec] /\ call'[c] = v /\ \A d \in Callers \ {c} : call'[d] = call[d]
  BY <1>1, <1>2, OneCall, Zenon
<1> QED BY <1>1, <1>3, Zenon DEF Becomes

\* enableKeyspaceNotifsOnMasters is through with the master m.
LEMMA EnableCall ==
  ASSUME call \in [Callers -> CallRec], NEW c \in Callers, NEW m \in Nodes,
         EnableKeyspaceNotifsOn(c, m)
  PROVE  Becomes(c, "enabling", call[c].todo \ {m}) /\ Keeps(c) /\ call[c].pc = "enabling"
<1> DEFINE rest == [call[c] EXCEPT !.todo = call[c].todo \ {m}]
<1>1. call[c] \in CallRec /\ call[c].pc = "enabling"
  BY Zenon DEF EnableKeyspaceNotifsOn
<1>2. \E v \in CallRec :
        /\ call' = [call EXCEPT ![c] = v]
        /\ v.pc = "enabling" /\ v.todo = call[c].todo \ {m}
        /\ v.reapply = call[c].reapply /\ v.won = call[c].won /\ v.quiet = call[c].quiet
  <2>0. /\ rest \in CallRec /\ rest.pc = "enabling" /\ rest.todo = call[c].todo \ {m}
        /\ rest.reapply = call[c].reapply /\ rest.won = call[c].won /\ rest.quiet = call[c].quiet
    BY <1>1, Zenon DEF CallRec
  <2>1. \/ call' = [call EXCEPT ![c] = rest]
        \/ call' = [call EXCEPT ![c] = [rest EXCEPT !.refused = TRUE]]
        \/ call' = [call EXCEPT ![c] = [rest EXCEPT !.succeeded = rest.succeeded + 1]]
    BY Zenon DEF EnableKeyspaceNotifsOn
  <2> HIDE DEF rest
  <2>2. CASE call' = [call EXCEPT ![c] = rest]
    BY Zenon, <2>0, <2>2
  <2>3. CASE call' = [call EXCEPT ![c] = [rest EXCEPT !.refused = TRUE]]
    <3> DEFINE v == [rest EXCEPT !.refused = TRUE]
    <3>1. v \in CallRec /\ v.pc = rest.pc /\ v.todo = rest.todo /\ v.reapply = rest.reapply
          /\ v.won = rest.won /\ v.quiet = rest.quiet
      BY Zenon, <2>0 DEF CallRec
    <3>2. call' = [call EXCEPT ![c] = v]
      BY <2>3, Zenon
    <3> HIDE DEF v
    <3> QED BY Zenon, <2>0, <3>1, <3>2
  <2>4. CASE call' = [call EXCEPT ![c] = [rest EXCEPT !.succeeded = rest.succeeded + 1]]
    <3> DEFINE v == [rest EXCEPT !.succeeded = rest.succeeded + 1]
    <3>1. v \in CallRec /\ v.pc = rest.pc /\ v.todo = rest.todo /\ v.reapply = rest.reapply
          /\ v.won = rest.won /\ v.quiet = rest.quiet
      BY <2>0 DEF CallRec
    <3>2. call' = [call EXCEPT ![c] = v]
      BY <2>4, Zenon
    <3> HIDE DEF v
    <3> QED BY Zenon, <2>0, <3>1, <3>2
  <2> QED BY <2>1, <2>2, <2>3, <2>4, Zenon
<1>3. PICK v \in CallRec :
        /\ call' = [call EXCEPT ![c] = v]
        /\ v.pc = "enabling" /\ v.todo = call[c].todo \ {m}
        /\ v.reapply = call[c].reapply /\ v.won = call[c].won /\ v.quiet = call[c].quiet
  BY Zenon, <1>2
<1>4. call' \in [Callers -> CallRec] /\ call'[c] = v /\ \A d \in Callers \ {c} : call'[d] = call[d]
  BY <1>3, OneCall, Zenon
<1> QED BY <1>1, <1>3, <1>4, Zenon DEF Becomes, Keeps

\* A node that is up fails a command of the settled check: the quiet ends.
LEMMA AskFailsCall ==
  ASSUME call \in [Callers -> CallRec], NEW c \in Callers, NEW n \in Nodes, AskFails(c, n)
  PROVE  /\ Becomes(c, "ask", call[c].todo) /\ call[c].pc = "ask"
         /\ call'[c].reapply = call[c].reapply /\ call'[c].won = call[c].won
         /\ ~call'[c].quiet
<1> DEFINE v == [call[c] EXCEPT !.quiet = FALSE]
<1>1. call[c] \in CallRec /\ call[c].pc = "ask"
  BY Zenon DEF AskFails
<1>2. /\ v \in CallRec /\ v.pc = "ask" /\ v.todo = call[c].todo
      /\ v.reapply = call[c].reapply /\ v.won = call[c].won /\ ~v.quiet
  BY <1>1, Zenon DEF CallRec
<1>3. call' = [call EXCEPT ![c] = v]
  BY Zenon DEF AskFails
<1> HIDE DEF v
<1>4. call' \in [Callers -> CallRec] /\ call'[c] = v /\ \A d \in Callers \ {c} : call'[d] = call[d]
  BY <1>2, <1>3, OneCall, Zenon
<1> QED BY <1>1, <1>2, <1>4, Zenon DEF Becomes

\* A master that is up fails to be enabled: the sweep goes on, the quiet ends.
LEMMA EnableFailsCall ==
  ASSUME call \in [Callers -> CallRec], NEW c \in Callers, NEW m \in Nodes, EnableFails(c, m)
  PROVE  /\ Becomes(c, "enabling", call[c].todo \ {m}) /\ call[c].pc = "enabling"
         /\ call'[c].reapply = call[c].reapply /\ ~call'[c].quiet
<1> DEFINE v == [call[c] EXCEPT !.todo = call[c].todo \ {m}, !.quiet = FALSE]
<1>1. call[c] \in CallRec /\ call[c].pc = "enabling"
  BY Zenon DEF EnableFails
<1>2. /\ v \in CallRec /\ v.pc = "enabling" /\ v.todo = call[c].todo \ {m}
      /\ v.reapply = call[c].reapply /\ ~v.quiet
  BY <1>1, Zenon DEF CallRec
<1>3. call' = [call EXCEPT ![c] = v]
  BY DEF EnableFails
<1> HIDE DEF v
<1>4. call' \in [Callers -> CallRec] /\ call'[c] = v /\ \A d \in Callers \ {c} : call'[d] = call[d]
  BY <1>2, <1>3, OneCall, Zenon
<1> QED BY <1>1, <1>2, <1>4, Zenon DEF Becomes

\* subscribeToExpiredEventsOSS is through with the master m.
LEMMA SubscribeCall ==
  ASSUME call \in [Callers -> CallRec], NEW c \in Callers, NEW m \in Nodes, Subscribe(c, m)
  PROVE  Becomes(c, "subscribing", call[c].todo \ {m}) /\ Keeps(c) /\ call[c].pc = "subscribing"
<1> DEFINE v == [call[c] EXCEPT !.todo = call[c].todo \ {m}]
<1>1. call[c] \in CallRec /\ call[c].pc = "subscribing"
  BY Zenon DEF Subscribe
<1>2. /\ v \in CallRec /\ v.pc = "subscribing" /\ v.todo = call[c].todo \ {m}
      /\ v.reapply = call[c].reapply /\ v.won = call[c].won /\ v.quiet = call[c].quiet
  BY <1>1, Zenon DEF CallRec
<1>3. call' = [call EXCEPT ![c] = v]
  BY Zenon DEF Subscribe
<1> HIDE DEF v
<1>4. call' \in [Callers -> CallRec] /\ call'[c] = v /\ \A d \in Callers \ {c} : call'[d] = call[d]
  BY <1>2, <1>3, OneCall, Zenon
<1> QED BY <1>1, <1>2, <1>4, Zenon DEF Becomes, Keeps

\* ReinitTopology returns nil.
LEMMA ReturnCall ==
  ASSUME call \in [Callers -> CallRec], NEW c \in Callers, Reinitialized(c)
  PROVE  /\ Becomes(c, "out", {}) /\ call'[c].won /\ ~call'[c].reapply
         /\ call'[c].quiet = call[c].quiet
<1> DEFINE v == [Idle EXCEPT !.won = TRUE, !.quiet = call[c].quiet]
<1>1. call[c].quiet \in BOOLEAN
  BY Zenon DEF CallRec
<1>2. v \in CallRec /\ v.pc = "out" /\ v.todo = {} /\ v.won /\ ~v.reapply /\ v.quiet = call[c].quiet
  BY Zenon, <1>1 DEF Idle, CallRec, Pcs
<1>3. call' = [call EXCEPT ![c] = v]
  BY Zenon DEF Reinitialized
<1> HIDE DEF v
<1>4. call' \in [Callers -> CallRec] /\ call'[c] = v /\ \A d \in Callers \ {c} : call'[d] = call[d]
  BY <1>2, <1>3, OneCall, Zenon
<1> QED BY <1>2, <1>4, Zenon DEF Becomes

\* A change of the cluster only ends the quiet.
LEMMA DisturbCall ==
  ASSUME call \in [Callers -> CallRec], Disturb
  PROVE  /\ call' \in [Callers -> CallRec]
         /\ \A c \in Callers : /\ call'[c].pc = call[c].pc /\ call'[c].todo = call[c].todo
                               /\ call'[c].reapply = call[c].reapply /\ call'[c].won = call[c].won
                               /\ ~call'[c].quiet
<1>1. \A c \in Callers : [call[c] EXCEPT !.quiet = FALSE] \in CallRec
  BY Zenon DEF CallRec
<1>2. /\ call' \in [Callers -> CallRec]
      /\ \A c \in Callers : call'[c] = [call[c] EXCEPT !.quiet = FALSE]
  BY <1>1, Zenon DEF Disturb
<1> QED BY <1>2 DEF CallRec

(***************************************************************************)
(* The invariants.                                                         *)
(***************************************************************************)
\* Nobody else is active while Init runs, and Init starts with no subscription.
StartInv ==
  /\ inited = "new" =>
       /\ \A c \in Callers : call[c].pc = "out"
       /\ \A n \in Nodes : pubSubs[n] = 0
  /\ \A c \in Callers : call[c].pc # "out" /\ call[c].reapply => inited = "ready"
  /\ \A c \in Callers : call[c].pc # "out" /\ ~call[c].reapply =>
       /\ inited = "called"
       /\ call[c].pc \in {"enable", "enabling", "subscribe", "subscribing"}
       /\ \A d \in Callers \ {c} : call[d].pc = "out"
       /\ call[c].pc \in {"enable", "enabling"} => \A n \in Nodes : pubSubs[n] = 0
  /\ done => inited = "ready"

\* The callers that may still subscribe to n before they close what is there.
MaySubscribe(n) ==
  {c \in Callers : \/ call[c].pc = "subscribe"
                   \/ (call[c].pc = "subscribing" /\ n \in call[c].todo)}

BoundInv == \A n \in Nodes : pubSubs[n] + Cardinality(MaySubscribe(n)) <= Cardinality(Callers)

\* There is a subscription, or a caller is about to make one.
Hope ==
  \/ \E n \in Nodes : pubSubs[n] >= 1
  \/ \E c \in Callers : \/ call[c].pc = "subscribe"
                        \/ (call[c].pc = "subscribing" /\ call[c].todo # {})

HopeInv ==
  /\ ~done
  /\ inited = "ready" \/ \E c \in Callers : call[c].pc \in {"subscribe", "subscribing"}
  => Hope

CallsInv == TypeInv /\ StartInv /\ BoundInv /\ HopeInv

(***************************************************************************)
(* Types are preserved.                                                    *)
(***************************************************************************)
\* No slots reported yet.
LEMMA NoSlots == <<>> \in SlotMaps
  BY Zenon DEF SlotMaps

\* A node not yet asked, and a node that does not answer.
LEMMA UnaskedRec == Unasked \in RepRec /\ [Unasked EXCEPT !.at = "err"] \in RepRec
  BY Zenon, NoSlots DEF Unasked, RepRec

\* The bound on changes is a number.
LEMMA MaxType == MaxChanges \in Nat
  BY TopologyAssumption, Zenon DEF TopologyAssumption

\* The initial state is well typed.
LEMMA InitTypes == Init => TypeInv
<1> SUFFICES ASSUME Init PROVE TypeInv
  BY Zenon
<1>1. call \in [Callers -> CallRec]
  BY Zenon, IdleRec DEF Init
<1>2. ClientType
  BY Zenon, <1>1, TopologyAssumption DEF Init, ClientType, Ownerships, TopologyAssumption
<1>3. ClusterType
  <2>1. owner \in Ownerships /\ InitialOwner \in Ownerships
    BY Zenon, TopologyAssumption DEF Init, Ownerships, TopologyAssumption
  <2>2. view \in [Nodes -> [owner : Ownerships, ok : BOOLEAN]]
    BY Zenon, <2>1 DEF Init
  <2>3. down \subseteq Nodes /\ changes \in 0 .. MaxChanges
    <3>1. 0 \in 0 .. MaxChanges
      BY MaxType
    <3> QED BY Zenon, <3>1 DEF Init
  <2>4. conf \in [Nodes -> {"", "other", "KEx"}]
    BY Zenon DEF Init
  <2> QED BY Zenon, <2>1, <2>2, <2>3, <2>4 DEF ClusterType
<1>4. ReportType
  BY Zenon, UnaskedRec DEF Init, ReportType
<1> QED BY <1>2, <1>3, <1>4, Zenon DEF TypeInv

\* What every step of the call of c keeps of the types.
LEMMA BecomesReports ==
  ASSUME ReportType, NEW c \in Callers, NEW p, NEW t, Becomes(c, p, t), reports' = reports,
         call[c].pc # "ask"
  PROVE  ReportType'
  BY Zenon DEF ReportType, Becomes

\* A report of a node is filed.
LEMMA ReportStep ==
  ASSUME TypeInv, NEW c \in Callers, NEW n \in Nodes, NEW r \in RepRec, Report(c, n, r),
         call[c].pc = "ask"
  PROVE  TypeInv'
<1>1. ClientType' /\ ClusterType'
  BY Zenon DEF TypeInv, ClientType, ClusterType, Report, cluster
<1> DEFINE x == IF n \in Up THEN r ELSE [Unasked EXCEPT !.at = "err"]
<1>2. x \in RepRec
  BY UnaskedRec, Zenon
<1>3. reports' = [reports EXCEPT ![c][n] = x] /\ call' = call
  BY Zenon DEF Report
<1> HIDE DEF x
<1>4. reports' \in [Callers -> [Nodes -> RepRec]]
      /\ \A d \in Callers \ {c} : reports'[d] = reports[d]
  BY <1>2, <1>3, Zenon DEF TypeInv, ReportType
<1>5. ReportType'
  BY <1>3, <1>4, Zenon DEF TypeInv, ReportType
<1> QED BY <1>1, <1>5, Zenon DEF TypeInv

\* What a node reports of its view.
LEMMA SlotMapOf ==
  ASSUME ClusterType, NEW n \in Nodes
  PROVE  SlotOwnership(view[n].owner) \in SlotMaps /\ view[n].ok \in BOOLEAN
  BY Zenon DEF ClusterType, SlotMaps

\* The view of a node that has heard of the ownership o.
LEMMA ViewType ==
  ASSUME ClusterType, NEW o \in Ownerships
  PROVE  View(o) \in [owner : Ownerships, ok : BOOLEAN] /\ View(o).owner = o
  BY Zenon DEF View

\* A change of ownership keeps the types.
LEMMA ChangeTypes ==
  ASSUME TypeInv, NEW o \in Ownerships, NEW k, Change(o, k)
  PROVE  TypeInv'
<1>1. call' \in [Callers -> CallRec] /\ \A c \in Callers : call'[c].pc = call[c].pc
  BY DisturbCall, Zenon DEF TypeInv, ClientType, Change
<1>2. ClientType'
  BY <1>1, Zenon DEF TypeInv, ClientType, Change
<1>3. ReportType'
  BY <1>1, Zenon DEF TypeInv, ReportType, Change
<1>4. view' \in [Nodes -> [owner : Ownerships, ok : BOOLEAN]]
  BY Zenon, ViewType DEF TypeInv, ClusterType, Change
<1>5. changes' \in 0 .. MaxChanges
  <2>1. changes \in 0 .. MaxChanges /\ changes < MaxChanges /\ changes' = changes + 1
    BY Zenon DEF TypeInv, ClusterType, Change
  <2> QED BY <2>1, MaxType
<1>6. ClusterType'
  BY Zenon, <1>4, <1>5 DEF TypeInv, ClusterType, Change
<1> QED BY <1>2, <1>3, <1>6, Zenon DEF TypeInv

\* The replica that takes over becomes a master and knows all owners.
LEMMA FailoverOwner ==
  ASSUME TypeInv, NEW o \in Nodes, NEW m \in Nodes, Failover(o, m)
  PROVE  /\ owner' \in Ownerships /\ m \in Masters(owner')
         /\ view'[m].owner = owner' /\ Change(owner', {m})
<1> DEFINE w == [s \in Slots |-> IF owner[s] = o THEN m ELSE owner[s]]
<1>1. w \in Ownerships
  BY Zenon DEF TypeInv, ClusterType, Ownerships
<1>2. Change(w, {m}) /\ owner' = w
  BY Zenon DEF Failover, Change
<1>3. m \in Masters(w)
  BY Zenon DEF Failover, Masters
<1> HIDE DEF w
<1>4. view'[m] = View(w)
  BY <1>2, Zenon DEF Change
<1> QED BY <1>1, <1>2, <1>3, <1>4, ViewType, Zenon DEF TypeInv

\* The node that a slot moves to becomes a master and knows all owners.
LEMMA ReshardOwner ==
  ASSUME TypeInv, NEW s \in Slots, NEW m \in Nodes, Reshard(s, m)
  PROVE  /\ owner' \in Ownerships /\ m \in Masters(owner')
         /\ view'[m].owner = owner' /\ Change(owner', {owner[s], m})
<1> DEFINE w == [owner EXCEPT ![s] = m]
<1>1. w \in Ownerships /\ w[s] = m
  BY Zenon DEF TypeInv, ClusterType, Ownerships
<1>2. Change(w, {owner[s], m}) /\ owner' = w
  BY Zenon DEF Reshard, Change
<1>3. m \in Masters(w)
  BY <1>1, Zenon DEF Masters
<1> HIDE DEF w
<1>4. view'[m] = View(w)
  BY <1>2, Zenon DEF Change
<1> QED BY <1>1, <1>2, <1>3, <1>4, ViewType, Zenon DEF TypeInv

\* A node that comes back keeps the types.
LEMMA NodeUpTypes ==
  ASSUME TypeInv, NEW n \in Nodes, NodeUp(n)
  PROVE  TypeInv'
<1>1. call' \in [Callers -> CallRec] /\ \A c \in Callers : call'[c].pc = call[c].pc
  BY Zenon, DisturbCall DEF TypeInv, ClientType, NodeUp
<1>2. ClientType'
  BY Zenon, <1>1 DEF TypeInv, ClientType, NodeUp
<1>3. ReportType'
  BY Zenon, <1>1 DEF TypeInv, ReportType, NodeUp
<1>4. conf' \in [Nodes -> {"", "other", "KEx"}]
  BY Zenon DEF TypeInv, ClusterType, NodeUp
<1>5. ClusterType'
  BY Zenon, <1>4 DEF TypeInv, ClusterType, NodeUp
<1> QED BY <1>2, <1>3, <1>5, Zenon DEF TypeInv

\* A step of a call that touches neither the cluster nor the reports.
LEMMA CallTypes ==
  ASSUME TypeInv, NEW c \in Callers, NEW p, NEW t, Becomes(c, p, t), call[c].pc # "ask",
         pubSubs' \in [Nodes -> Nat], known' \in Ownerships,
         inited' \in {"new", "called", "ready"}, done' = done, reports' = reports,
         conf' \in [Nodes -> {"", "other", "KEx"}], UNCHANGED cluster
  PROVE  TypeInv'
<1>1. ClientType'
  BY Zenon DEF TypeInv, ClientType, Becomes
<1>2. ClusterType'
  BY Zenon DEF TypeInv, ClusterType, cluster
<1>3. ReportType'
  BY Zenon, BecomesReports DEF TypeInv
<1> QED BY Zenon, <1>1, <1>2, <1>3 DEF TypeInv

\* A command that fails is counted.
LEMMA FailureCounted ==
  ASSUME TypeInv, NEW n \in Nodes, CommandFails(n)
  PROVE  changes' \in 0 .. MaxChanges
<1>1. changes \in 0 .. MaxChanges /\ changes < MaxChanges /\ changes' = changes + 1
  BY Zenon DEF TypeInv, ClusterType, CommandFails
<1> QED BY <1>1, MaxType

\* A command that fails changes nothing else of the cluster.
LEMMA FailureTypes ==
  ASSUME TypeInv, NEW n \in Nodes, CommandFails(n), conf' \in [Nodes -> {"", "other", "KEx"}]
  PROVE  ClusterType'
  BY FailureCounted, Zenon DEF TypeInv, ClusterType, CommandFails

\* A node that fails a command of the settled check has answered with an error.
LEMMA AskFailsTypes ==
  ASSUME TypeInv, NEW c \in Callers, NEW n \in Nodes, AskFails(c, n)
  PROVE  TypeInv'
<1>t. call \in [Callers -> CallRec] /\ reports \in [Callers -> [Nodes -> RepRec]]
  BY Zenon DEF TypeInv, ClientType, ReportType
<1>1. Becomes(c, "ask", call[c].todo)
  BY <1>t, AskFailsCall, Zenon
<1>2. ClientType'
  BY <1>1, Zenon DEF TypeInv, ClientType, Becomes, AskFails, CommandFails
<1>3. ClusterType'
  <2>1. CommandFails(n) /\ conf' = conf /\ conf \in [Nodes -> {"", "other", "KEx"}]
    BY Zenon DEF TypeInv, ClusterType, AskFails
  <2> QED BY <2>1, FailureTypes, Zenon
<1> DEFINE x == [Unasked EXCEPT !.at = "err"]
<1>4. x \in RepRec /\ reports' = [reports EXCEPT ![c][n] = x]
  BY UnaskedRec, Zenon DEF AskFails
<1> HIDE DEF x
<1>5. /\ reports' \in [Callers -> [Nodes -> RepRec]]
      /\ \A d \in Callers \ {c} : reports'[d] = reports[d]
  BY <1>t, <1>4, Zenon
<1>6. ReportType'
  BY <1>1, <1>5, Zenon DEF TypeInv, ReportType, Becomes
<1> QED BY <1>2, <1>3, <1>6, Zenon DEF TypeInv

\* A master that fails to be enabled may have taken its config or not.
LEMMA EnableFailsTypes ==
  ASSUME TypeInv, NEW c \in Callers, NEW m \in Nodes, EnableFails(c, m)
  PROVE  TypeInv'
<1>1. Becomes(c, "enabling", call[c].todo \ {m}) /\ call[c].pc = "enabling"
  BY EnableFailsCall, Zenon DEF TypeInv, ClientType
<1>2. conf' \in [Nodes -> {"", "other", "KEx"}]
  BY Zenon DEF TypeInv, ClusterType, EnableFails
<1>3. ClusterType'
  BY <1>2, FailureTypes, Zenon DEF EnableFails
<1>4. ClientType'
  BY <1>1, Zenon DEF TypeInv, ClientType, Becomes, EnableFails, CommandFails
<1>5. ReportType'
  BY <1>1, BecomesReports, Zenon DEF TypeInv, EnableFails
<1> QED BY <1>3, <1>4, <1>5, Zenon DEF TypeInv

\* Every step keeps the types.
LEMMA TypeStep == TypeInv /\ StartInv /\ [Next]_vars => TypeInv'
<1> SUFFICES ASSUME TypeInv, StartInv, [Next]_vars PROVE TypeInv'
  BY Zenon
<1>t. /\ call \in [Callers -> CallRec] /\ pubSubs \in [Nodes -> Nat] /\ known \in Ownerships
      /\ inited \in {"new", "called", "ready"} /\ conf \in [Nodes -> {"", "other", "KEx"}]
      /\ ClientType /\ ClusterType /\ ReportType
  BY Zenon DEF TypeInv, ClientType, ClusterType
<1>z. {"out", "reload", "enable", "enabling", "close", "subscribe", "subscribing"} \subseteq Pcs
  BY Zenon DEF Pcs
<1>1. ASSUME NEW o \in Nodes, NEW m \in Nodes, Failover(o, m) PROVE TypeInv'
  BY Zenon, <1>1, FailoverOwner, ChangeTypes
<1>2. ASSUME NEW s \in Slots, NEW m \in Nodes, Reshard(s, m) PROVE TypeInv'
  BY Zenon, <1>2, ReshardOwner, ChangeTypes
<1>3. ASSUME NEW n \in Nodes, NodeDown(n) PROVE TypeInv'
  <2>1. changes' \in 0 .. MaxChanges
    <3>1. changes \in 0 .. MaxChanges /\ changes < MaxChanges /\ changes' = changes + 1
      BY Zenon, <1>3 DEF TypeInv, ClusterType, NodeDown
    <3> QED BY <3>1, MaxType
  <2>2. ClusterType'
    BY Zenon, <1>3, <2>1 DEF TypeInv, ClusterType, NodeDown
  <2> QED BY <1>3, <2>2, Zenon DEF TypeInv, ClientType, ReportType, NodeDown, client
<1>4. ASSUME NEW n \in Nodes, NodeUp(n) PROVE TypeInv'
  BY <1>4, NodeUpTypes, Zenon
<1>5. ASSUME NEW n \in Nodes, Gossip(n) PROVE TypeInv'
  <2>1. View(owner) \in [owner : Ownerships, ok : BOOLEAN]
    BY Zenon, ViewType DEF TypeInv, ClusterType
  <2>2. ClusterType'
    BY Zenon, <1>5, <2>1 DEF TypeInv, ClusterType, Gossip
  <2> QED BY <1>5, <2>2, Zenon DEF TypeInv, ClientType, ReportType, Gossip, client
<1>6. ASSUME NEW c \in Callers, CallInit(c) PROVE TypeInv'
  <2>1. Becomes(c, "enable", {})
    BY Zenon, <1>t, <1>6, InitCall
  <2>2. call[c].pc # "ask"
    BY <1>6, Zenon DEF StartInv, CallInit
  <2>3. inited' \in {"new", "called", "ready"}
    BY <1>6, Zenon DEF CallInit
  <2> QED BY Zenon, <1>t, <1>6, <2>1, <2>2, <2>3, CallTypes DEF CallInit
<1>7. ASSUME NEW c \in Callers, ReinitTopology(c) PROVE TypeInv'
  <2>1. Becomes(c, "ask", {}) /\ call[c].pc # "ask"
    BY Zenon, <1>t, <1>7, ReinitCall DEF ReinitTopology
  <2> QED BY Zenon, <1>t, <1>7, <2>1, CallTypes DEF ReinitTopology
<1>8. ASSUME NEW c \in Callers, NEW n \in Nodes, ClusterInfo(c, n) PROVE TypeInv'
  <2>1. [Unasked EXCEPT !.at = "info", !.ok = view[n].ok] \in RepRec
    BY Zenon, <1>t, SlotMapOf, NoSlots DEF Unasked, RepRec
  <2> QED BY <1>8, <2>1, ReportStep, Zenon DEF ClusterInfo
<1>9. ASSUME NEW c \in Callers, NEW n \in Nodes, ClusterNodes(c, n) PROVE TypeInv'
  <2> DEFINE S == SlotOwnership(view[n].owner)
  <2>1. S \in SlotMaps /\ reports[c][n] \in RepRec
    BY Zenon, <1>t, SlotMapOf DEF ReportType
  <2> HIDE DEF S
  <2>2. [reports[c][n] EXCEPT !.at = "answered", !.slots = S] \in RepRec
    BY Zenon, <2>1 DEF RepRec
  <2> USE DEF S
  <2> QED BY <1>9, <2>2, ReportStep, Zenon DEF ClusterNodes
<1>10. ASSUME NEW c \in Callers, EnsureClusterSettled(c) PROVE TypeInv'
  <2>1. \E p, t : Becomes(c, p, t)
    BY Zenon, <1>t, <1>z, <1>10, FailCall, GotoCall DEF EnsureClusterSettled
  <2>2. call' \in [Callers -> CallRec] /\ \A d \in Callers \ {c} : call'[d] = call[d]
    BY <2>1, Zenon DEF Becomes
  <2>3. ClientType' /\ ClusterType'
    BY Zenon, <1>10, <2>2 DEF EnsureClusterSettled, cluster, TypeInv, ClientType, ClusterType
  <2>4. /\ reports' \in [Callers -> [Nodes -> RepRec]]
        /\ \A n \in Nodes : reports'[c][n] = Unasked
        /\ \A d \in Callers \ {c} : reports'[d] = reports[d]
    <3> DEFINE none == [n \in Nodes |-> Unasked]
    <3>1. none \in [Nodes -> RepRec] /\ \A n \in Nodes : none[n] = Unasked
      BY UnaskedRec, Zenon
    <3>2. reports' = [reports EXCEPT ![c] = none] /\ reports \in [Callers -> [Nodes -> RepRec]]
      BY Zenon, <1>10, <1>t DEF EnsureClusterSettled, ReportType
    <3> HIDE DEF none
    <3> QED BY <3>1, <3>2, Zenon
  <2>5. \A d \in Callers : call'[d].pc # "ask" => \A n \in Nodes : reports'[d][n] = Unasked
    <3> SUFFICES ASSUME NEW d \in Callers, call'[d].pc # "ask", NEW n \in Nodes
                 PROVE  reports'[d][n] = Unasked
      BY Zenon
    <3>1. CASE d = c
      BY <3>1, <2>4, Zenon
    <3>2. CASE d # c
      <4>1. call[d].pc # "ask" /\ reports'[d] = reports[d]
        BY <3>2, <2>2, <2>4, Zenon
      <4>2. reports[d][n] = Unasked
        BY <4>1, <1>t, Zenon DEF ReportType
      <4> QED BY <4>1, <4>2, Zenon
    <3> QED BY <3>1, <3>2, Zenon
  <2> QED BY <2>3, <2>4, <2>5, Zenon DEF TypeInv, ReportType
<1>11. ASSUME NEW c \in Callers, ReloadState(c) PROVE TypeInv'
  <2>1. known' \in Ownerships /\ \E t : Becomes(c, "enable", t)
    BY Zenon, <1>t, <1>z, <1>11, GotoCall, LoadType DEF ReloadState
  <2> QED BY Zenon, <1>t, <1>11, <2>1, CallTypes DEF ReloadState
<1>12. ASSUME NEW c \in Callers, NEW at \in {"enable", "subscribe"},
              NEW p \in {"enabling", "subscribing"}, ForEachMaster(c, at, p)
       PROVE  TypeInv'
  <2>1. known' \in Ownerships /\ Becomes(c, p, Masters(known'))
    BY Zenon, <1>t, <1>z, <1>12, SweepCall
  <2> QED BY Zenon, <1>t, <1>12, <2>1, CallTypes DEF ForEachMaster
<1>13. ASSUME NEW c \in Callers, NEW m \in Nodes, EnableKeyspaceNotifsOn(c, m) PROVE TypeInv'
  <2>1. Becomes(c, "enabling", call[c].todo \ {m}) /\ call[c].pc = "enabling"
    BY Zenon, <1>t, <1>13, EnableCall
  <2>2. conf' \in [Nodes -> {"", "other", "KEx"}]
    BY Zenon, <1>t, <1>13 DEF EnableKeyspaceNotifsOn
  <2> QED BY Zenon, <1>t, <1>13, <2>1, <2>2, CallTypes DEF EnableKeyspaceNotifsOn
<1>14. ASSUME NEW c \in Callers, NEW m \in Nodes, Subscribe(c, m) PROVE TypeInv'
  <2>1. Becomes(c, "subscribing", call[c].todo \ {m}) /\ call[c].pc = "subscribing"
    BY Zenon, <1>t, <1>14, SubscribeCall
  <2>2. pubSubs' \in [Nodes -> Nat]
    <3>1. pubSubs[m] \in Nat
      BY Zenon, <1>t
    <3>2. pubSubs[m] + 1 \in Nat
      BY <3>1
    <3>3. pubSubs' = [pubSubs EXCEPT ![m] = pubSubs[m] + 1]
      BY <1>14, Zenon DEF Subscribe
    <3> QED BY Zenon, <1>t, <3>2, <3>3
  <2> QED BY Zenon, <1>t, <1>14, <2>1, <2>2, CallTypes DEF Subscribe
<1>15. ASSUME NEW c \in Callers, EnabledOnMasters(c) PROVE TypeInv'
  <2>1. \E p, t : Becomes(c, p, t)
    BY Zenon, <1>t, <1>z, <1>15, GotoCall, FailCall DEF EnabledOnMasters
  <2> QED BY Zenon, <1>t, <1>15, <2>1, CallTypes DEF EnabledOnMasters
<1>16. ASSUME NEW c \in Callers, CloseSubscriptions(c) PROVE TypeInv'
  <2>1. \E t : Becomes(c, "subscribe", t)
    BY Zenon, <1>t, <1>z, <1>16, GotoCall DEF CloseSubscriptions
  <2>2. pubSubs' \in [Nodes -> Nat]
    BY <1>16, Zenon DEF CloseSubscriptions, CloseAll
  <2> QED BY Zenon, <1>t, <1>16, <2>1, <2>2, CallTypes DEF CloseSubscriptions
<1>17. ASSUME NEW c \in Callers, Reinitialized(c) PROVE TypeInv'
  BY Zenon, <1>t, <1>17, ReturnCall, CallTypes DEF Reinitialized
<1>18. ASSUME NEW c \in Callers, Initialized(c) PROVE TypeInv'
  <2>1. Becomes(c, "out", {})
    BY Zenon, <1>t, <1>18, FailCall DEF Initialized, Fail
  <2>2. inited' \in {"new", "called", "ready"}
    BY <1>18, Zenon DEF Initialized
  <2> QED BY Zenon, <1>t, <1>18, <2>1, <2>2, CallTypes DEF Initialized
<1>19. CASE Done
  <2>1. pubSubs' \in [Nodes -> Nat] /\ done' \in BOOLEAN
    BY <1>19, Zenon DEF Done, CloseAll
  <2> QED BY Zenon, <1>19, <2>1 DEF Done, TypeInv, ClientType, ClusterType, ReportType, cluster
<1>20. CASE UNCHANGED vars
  BY Zenon, <1>20 DEF vars, cluster, client, TypeInv, ClientType, ClusterType, ReportType
<1>21. ASSUME NEW c \in Callers, NEW n \in Nodes, AskFails(c, n) \/ EnableFails(c, n) PROVE TypeInv'
  BY <1>21, AskFailsTypes, EnableFailsTypes, Zenon
<1> QED
  BY <1>1, <1>2, <1>3, <1>4, <1>5, <1>6, <1>7, <1>8, <1>9, <1>10, <1>11, <1>12, <1>13,
     <1>14, <1>15, <1>16, <1>17, <1>18, <1>19, <1>20, <1>21 DEF Next, ClusterStep, CallStep

(***************************************************************************)
(* The steps, as far as calls and subscriptions are concerned.             *)
(***************************************************************************)
SameCall(c) ==
  /\ call'[c].pc = call[c].pc /\ call'[c].todo = call[c].todo
  /\ call'[c].reapply = call[c].reapply /\ call'[c].won = call[c].won

\* The cluster changes, a node answers, or nothing happens.
Aside ==
  /\ call' \in [Callers -> CallRec]
  /\ \A c \in Callers : SameCall(c)
  /\ UNCHANGED <<pubSubs, inited, done>>

Starts(c) ==
  /\ inited = "new" /\ inited' = "called"
  /\ Becomes(c, "enable", {}) /\ ~call'[c].reapply
  /\ UNCHANGED <<pubSubs, done>>

Retries(c) ==
  /\ inited = "ready" /\ ~done /\ call[c].pc = "out"
  /\ Becomes(c, "ask", {}) /\ call'[c].reapply
  /\ UNCHANGED <<pubSubs, inited, done>>

Fails(c) ==
  /\ call[c].pc \in {"ask", "enabling"}
  /\ Becomes(c, "out", {}) /\ ~call'[c].reapply
  /\ UNCHANGED <<pubSubs, inited, done>>

Advances(c) ==
  /\ \E t : \/ call[c].pc = "ask" /\ Becomes(c, "reload", t)
            \/ call[c].pc = "reload" /\ Becomes(c, "enable", t)
            \/ call[c].pc \in {"enable", "enabling"} /\ Becomes(c, "enabling", t)
            \/ call[c].pc = "enabling" /\ call[c].reapply /\ Becomes(c, "close", t)
  /\ call'[c].reapply = call[c].reapply
  /\ UNCHANGED <<pubSubs, inited, done>>

Skips(c) ==
  /\ call[c].pc = "enabling" /\ ~call[c].reapply
  /\ Becomes(c, "subscribe", call[c].todo) /\ call'[c].reapply = call[c].reapply
  /\ UNCHANGED <<pubSubs, inited, done>>

Closes(c) ==
  /\ call[c].pc = "close"
  /\ \A n \in Nodes : pubSubs'[n] = 0
  /\ Becomes(c, "subscribe", call[c].todo) /\ call'[c].reapply = call[c].reapply
  /\ UNCHANGED <<inited, done>>

Begins(c) ==
  /\ call[c].pc = "subscribe"
  /\ Load /\ Masters(known') \in (SUBSET Nodes) \ {{}}
  /\ Becomes(c, "subscribing", Masters(known')) /\ call'[c].reapply = call[c].reapply
  /\ UNCHANGED <<pubSubs, inited, done>>

Subscribes(c, m) ==
  /\ call[c].pc = "subscribing" /\ m \in call[c].todo
  /\ pubSubs' = [pubSubs EXCEPT ![m] = pubSubs[m] + 1]
  /\ Becomes(c, "subscribing", call[c].todo \ {m}) /\ call'[c].reapply = call[c].reapply
  /\ UNCHANGED <<inited, done>>

Returns(c) ==
  /\ call[c].pc = "subscribing" /\ call[c].todo = {}
  /\ Becomes(c, "out", {}) /\ ~call'[c].reapply
  /\ IF call[c].reapply THEN inited' = inited ELSE inited' \in {"ready", "called"}
  /\ UNCHANGED <<pubSubs, done>>

Move(c) ==
  \/ Starts(c) \/ Retries(c) \/ Fails(c) \/ Advances(c) \/ Skips(c) \/ Closes(c)
  \/ Begins(c) \/ (\E m \in Nodes : Subscribes(c, m)) \/ Returns(c)

\* Steps of the cluster and answers of nodes are none of a call.
LEMMA Asides ==
  ASSUME TypeInv,
         \/ ClusterStep
         \/ \E c \in Callers, n \in Nodes :
              ClusterInfo(c, n) \/ ClusterNodes(c, n) \/ AskFails(c, n)
         \/ UNCHANGED vars
  PROVE  Aside
<1>0. call \in [Callers -> CallRec]
  BY Zenon DEF TypeInv, ClientType
<1>1. CASE Disturb /\ UNCHANGED <<pubSubs, inited, done>>
  BY <1>0, <1>1, DisturbCall, Zenon DEF Aside, SameCall
<1>2. CASE UNCHANGED <<call, pubSubs, inited, done>>
  BY <1>0, <1>2, Zenon DEF Aside, SameCall
<1>3. ASSUME NEW o \in Nodes, NEW m \in Nodes, Failover(o, m) PROVE Aside
  BY <1>1, <1>3, Zenon DEF Failover, Change
<1>4. ASSUME NEW s \in Slots, NEW m \in Nodes, Reshard(s, m) PROVE Aside
  BY <1>1, <1>4, Zenon DEF Reshard, Change
<1>5. ASSUME NEW n \in Nodes, NodeDown(n) \/ Gossip(n) PROVE Aside
  BY <1>2, <1>5, Zenon DEF NodeDown, Gossip, client
<1>6. ASSUME NEW n \in Nodes, NodeUp(n) PROVE Aside
  BY ZenonT(40), <1>1, <1>6 DEF NodeUp
<1>7. ASSUME NEW c \in Callers, NEW n \in Nodes, ClusterInfo(c, n) \/ ClusterNodes(c, n) PROVE Aside
  BY Zenon, <1>2, <1>7 DEF ClusterInfo, ClusterNodes, Report
<1>8. CASE UNCHANGED vars
  BY <1>2, <1>8, Zenon DEF vars, client
<1>9. ASSUME NEW c \in Callers, NEW n \in Nodes, AskFails(c, n) PROVE Aside
  <2>1. Becomes(c, "ask", call[c].todo) /\ SameCall(c)
    BY <1>0, <1>9, AskFailsCall, Zenon DEF Becomes, SameCall
  <2>2. call' \in [Callers -> CallRec] /\ \A d \in Callers : SameCall(d)
    BY <2>1, Zenon DEF Becomes, SameCall
  <2> QED BY <1>9, <2>2, Zenon DEF AskFails, CommandFails, Aside
<1> QED BY <1>3, <1>4, <1>5, <1>6, <1>7, <1>8, <1>9, Zenon DEF ClusterStep

\* Every other step of a goroutine is one of the moves.
LEMMA Moves ==
  ASSUME TypeInv, NEW c \in Callers,
         \/ CallInit(c) \/ ReinitTopology(c) \/ EnsureClusterSettled(c) \/ ReloadState(c)
         \/ ForEachMaster(c, "enable", "enabling") \/ EnabledOnMasters(c)
         \/ \E m \in Nodes : EnableKeyspaceNotifsOn(c, m) \/ EnableFails(c, m) \/ Subscribe(c, m)
         \/ CloseSubscriptions(c) \/ ForEachMaster(c, "subscribe", "subscribing")
         \/ Reinitialized(c) \/ Initialized(c)
  PROVE  Move(c)
<1>t. call \in [Callers -> CallRec] /\ ClientType /\ ClusterType
  BY Zenon DEF TypeInv, ClientType
<1>z. {"out", "reload", "enable", "enabling", "close", "subscribe", "subscribing"} \subseteq Pcs
  BY Zenon DEF Pcs
<1>1. CASE CallInit(c)
  <2>1. Starts(c)
    BY Zenon, <1>1, <1>t, InitCall DEF CallInit, Starts
  <2> QED BY <2>1, Zenon DEF Move
<1>2. CASE ReinitTopology(c)
  <2>1. Retries(c)
    BY Zenon, <1>2, <1>t, ReinitCall DEF ReinitTopology, Retries
  <2> QED BY <2>1, Zenon DEF Move
<1>3. CASE EnsureClusterSettled(c)
  <2>1. CASE Goto(c, "reload")
    <3>1. Becomes(c, "reload", call[c].todo) /\ Keeps(c)
      BY <1>t, <1>z, <2>1, GotoCall, Zenon
    <3>2. Advances(c)
      BY <1>3, <3>1, Zenon DEF EnsureClusterSettled, Keeps, Advances
    <3> QED BY <3>2, Zenon DEF Move
  <2>2. CASE Fail(c)
    <3>1. Fails(c)
      BY <1>3, <1>t, <2>2, FailCall, Zenon DEF EnsureClusterSettled, Fails
    <3> QED BY <3>1, Zenon DEF Move
  <2> QED BY <1>3, <2>1, <2>2, Zenon DEF EnsureClusterSettled
<1>4. CASE ReloadState(c)
  <2>1. Becomes(c, "enable", call[c].todo) /\ Keeps(c)
    BY <1>4, <1>t, <1>z, GotoCall, Zenon DEF ReloadState
  <2>2. Advances(c)
    BY <1>4, <2>1, Zenon DEF ReloadState, Keeps, Advances
  <2> QED BY <2>2, Zenon DEF Move
<1>5. CASE ForEachMaster(c, "enable", "enabling")
  <2>1. Becomes(c, "enabling", Masters(known')) /\ Keeps(c)
    BY <1>5, <1>t, <1>z, SweepCall, Zenon
  <2>2. Advances(c)
    BY <1>5, <2>1, Zenon DEF ForEachMaster, Keeps, Advances
  <2> QED BY <2>2, Zenon DEF Move
<1>6. CASE EnabledOnMasters(c)
  <2>1. CASE Fail(c)
    <3>1. Fails(c)
      BY <1>6, <1>t, <2>1, FailCall, Zenon DEF EnabledOnMasters, Fails
    <3> QED BY <3>1, Zenon DEF Move
  <2>2. CASE call[c].reapply /\ Goto(c, "close")
    <3>1. Becomes(c, "close", call[c].todo) /\ Keeps(c)
      BY <1>t, <1>z, <2>2, GotoCall, Zenon
    <3>2. Advances(c)
      BY Zenon, <1>6, <2>2, <3>1 DEF EnabledOnMasters, Keeps, Advances
    <3> QED BY <3>2, Zenon DEF Move
  <2>3. CASE ~call[c].reapply /\ Goto(c, "subscribe")
    <3>1. Becomes(c, "subscribe", call[c].todo) /\ Keeps(c)
      BY <1>t, <1>z, <2>3, GotoCall, Zenon
    <3>2. Skips(c)
      BY Zenon, <1>6, <2>3, <3>1 DEF EnabledOnMasters, Keeps, Skips
    <3> QED BY <3>2, Zenon DEF Move
  <2> QED BY Zenon, <1>6, <2>1, <2>2, <2>3 DEF EnabledOnMasters
<1>7. ASSUME NEW m \in Nodes, EnableKeyspaceNotifsOn(c, m) PROVE Move(c)
  <2>1. Becomes(c, "enabling", call[c].todo \ {m}) /\ Keeps(c) /\ call[c].pc = "enabling"
    BY <1>7, <1>t, EnableCall, Zenon
  <2>2. Advances(c)
    BY Zenon, <1>7, <2>1 DEF EnableKeyspaceNotifsOn, Keeps, Advances
  <2> QED BY <2>2, Zenon DEF Move
<1>8. ASSUME NEW m \in Nodes, Subscribe(c, m) PROVE Move(c)
  <2>1. Becomes(c, "subscribing", call[c].todo \ {m}) /\ Keeps(c)
    BY <1>8, <1>t, SubscribeCall, Zenon
  <2>2. Subscribes(c, m)
    BY <1>8, <2>1, Zenon DEF Subscribe, Keeps, Subscribes
  <2> QED BY <2>2, Zenon DEF Move
<1>9. CASE CloseSubscriptions(c)
  <2>1. Becomes(c, "subscribe", call[c].todo) /\ Keeps(c)
    BY <1>9, <1>t, <1>z, GotoCall, Zenon DEF CloseSubscriptions
  <2>2. \A n \in Nodes : pubSubs'[n] = 0
    BY <1>9, Zenon DEF CloseSubscriptions, CloseAll
  <2>3. Closes(c)
    BY <1>9, <2>1, <2>2, Zenon DEF CloseSubscriptions, Keeps, Closes
  <2> QED BY <2>3, Zenon DEF Move
<1>10. CASE ForEachMaster(c, "subscribe", "subscribing")
  <2>1. Becomes(c, "subscribing", Masters(known')) /\ Keeps(c) /\ Masters(known') # {}
    BY <1>10, <1>t, <1>z, SweepCall, Zenon
  <2>2. Masters(known') \in (SUBSET Nodes) \ {{}}
    BY <1>10, <1>t, <2>1, LoadType, Zenon DEF ForEachMaster
  <2>3. Begins(c)
    BY <1>10, <2>1, <2>2, Zenon DEF ForEachMaster, Keeps, Begins
  <2> QED BY <2>3, Zenon DEF Move
<1>11. CASE Reinitialized(c)
  <2>1. Returns(c)
    BY Zenon, <1>11, <1>t, ReturnCall DEF Reinitialized, Returns
  <2> QED BY <2>1, Zenon DEF Move
<1>12. CASE Initialized(c)
  <2>1. Becomes(c, "out", {}) /\ ~call'[c].reapply
    BY Zenon, <1>12, <1>t, FailCall DEF Initialized, Fail
  <2>2. Returns(c)
    BY <1>12, <2>1, Zenon DEF Initialized, Returns
  <2> QED BY <2>2, Zenon DEF Move
<1>13. ASSUME NEW m \in Nodes, EnableFails(c, m) PROVE Move(c)
  <2>1. /\ Becomes(c, "enabling", call[c].todo \ {m}) /\ call[c].pc = "enabling"
        /\ call'[c].reapply = call[c].reapply
    BY <1>13, <1>t, EnableFailsCall, Zenon
  <2>2. Advances(c)
    BY Zenon, <1>13, <2>1 DEF EnableFails, CommandFails, Advances
  <2> QED BY <2>2, Zenon DEF Move
<1> QED
  BY <1>1, <1>2, <1>3, <1>4, <1>5, <1>6, <1>7, <1>8, <1>9, <1>10, <1>11, <1>12, <1>13

\* A step is aside, Done, or a move of one goroutine.
LEMMA Steps == TypeInv /\ [Next]_vars => Aside \/ Done \/ \E c \in Callers : Move(c)
  BY Asides, Moves, Zenon DEF Next, CallStep

(***************************************************************************)
(* The invariants about calls and subscriptions are preserved.             *)
(***************************************************************************)
\* Every step keeps Init alone.
LEMMA StartStep ==
  ASSUME TypeInv, StartInv, [Next]_vars
  PROVE  StartInv'
<1>1. CASE Aside
  BY <1>1 DEF Aside, SameCall, StartInv
<1>2. CASE Done
  BY <1>2, Zenon DEF Done, CloseAll, StartInv
<1>3. ASSUME NEW c \in Callers, Move(c) PROVE StartInv'
  <2>1. CASE Starts(c)
    BY <2>1, Zenon DEF Starts, Becomes, StartInv
  <2>2. CASE Retries(c)
    BY <2>2, Zenon DEF Retries, Becomes, StartInv
  <2>3. CASE Fails(c)
    BY <2>3, Zenon DEF Fails, Becomes, StartInv
  <2>4. CASE Advances(c)
    BY <2>4 DEF Advances, Becomes, StartInv
  <2>5. CASE Skips(c)
    BY <2>5, Zenon DEF Skips, Becomes, StartInv
  <2>6. CASE Closes(c)
    BY <2>6, Zenon DEF Closes, Becomes, StartInv
  <2>7. CASE Begins(c)
    BY <2>7, Zenon DEF Begins, Becomes, StartInv
  <2>8. ASSUME NEW m \in Nodes, Subscribes(c, m) PROVE StartInv'
    BY <2>8, Zenon DEF Subscribes, Becomes, StartInv
  <2>9. CASE Returns(c)
    BY <2>9, Zenon DEF Returns, Becomes, StartInv
  <2> QED BY <1>3, <2>1, <2>2, <2>3, <2>4, <2>5, <2>6, <2>7, <2>8, <2>9 DEF Move
<1> QED BY <1>1, <1>2, <1>3, Steps, Zenon

\* Sets of callers are finite, and a part of one is no larger.
LEMMA MayCount ==
  ASSUME NEW S \in SUBSET Callers
  PROVE  /\ IsFiniteSet(S) /\ Cardinality(S) \in Nat
         /\ Cardinality(Callers) \in Nat /\ Cardinality(S) <= Cardinality(Callers)
         /\ \A T \in SUBSET S : Cardinality(T) \in Nat /\ Cardinality(T) <= Cardinality(S)
<1>1. IsFiniteSet(Callers)
  BY TopologyAssumption, Zenon DEF TopologyAssumption
<1>2. IsFiniteSet(S)
  BY <1>1, FS_Subset, Zenon
<1> QED BY <1>1, <1>2, FS_Subset, FS_CardinalityType, Zenon

\* Who may subscribe is a caller.
LEMMA MayType == \A n : MaySubscribe(n) \in SUBSET Callers /\ MaySubscribe(n)' \in SUBSET Callers
  BY Zenon DEF MaySubscribe

\* Subscriptions as before, and nobody more who may make one.
LEMMA BoundKept ==
  ASSUME TypeInv, BoundInv, pubSubs' = pubSubs,
         \A n \in Nodes : MaySubscribe(n)' \subseteq MaySubscribe(n)
  PROVE  BoundInv'
<1> SUFFICES ASSUME NEW n \in Nodes
             PROVE  pubSubs[n] + Cardinality(MaySubscribe(n)') <= Cardinality(Callers)
  BY Zenon DEF BoundInv
<1>1. pubSubs[n] \in Nat
  BY Zenon DEF TypeInv, ClientType
<1>2. /\ Cardinality(MaySubscribe(n)) \in Nat /\ Cardinality(MaySubscribe(n)') \in Nat
      /\ Cardinality(MaySubscribe(n)') <= Cardinality(MaySubscribe(n))
      /\ Cardinality(Callers) \in Nat
  BY MayCount, MayType, Zenon
<1>3. pubSubs[n] + Cardinality(MaySubscribe(n)) <= Cardinality(Callers)
  BY Zenon DEF BoundInv
<1> QED BY <1>1, <1>2, <1>3

\* Without subscriptions each caller may make one.
LEMMA BoundCleared ==
  ASSUME \A n \in Nodes : pubSubs'[n] = 0
  PROVE  BoundInv'
<1> SUFFICES ASSUME NEW n \in Nodes
             PROVE  pubSubs'[n] + Cardinality(MaySubscribe(n)') <= Cardinality(Callers)
  BY Zenon DEF BoundInv
<1>1. /\ Cardinality(MaySubscribe(n)') \in Nat /\ Cardinality(Callers) \in Nat
      /\ Cardinality(MaySubscribe(n)') <= Cardinality(Callers)
  BY MayCount, MayType, Zenon
<1>2. pubSubs'[n] = 0
  BY Zenon
<1> QED BY <1>1, <1>2

\* A caller that subscribes to m may not do so again before it closes all.
LEMMA BoundSubscribes ==
  ASSUME TypeInv, BoundInv, NEW c \in Callers, NEW m \in Nodes, Subscribes(c, m)
  PROVE  BoundInv'
<1> SUFFICES ASSUME NEW n \in Nodes
             PROVE  pubSubs'[n] + Cardinality(MaySubscribe(n)') <= Cardinality(Callers)
  BY Zenon DEF BoundInv
<1>1. pubSubs \in [Nodes -> Nat] /\ pubSubs[n] \in Nat
  BY Zenon DEF TypeInv, ClientType
<1>2. pubSubs[n] + Cardinality(MaySubscribe(n)) <= Cardinality(Callers)
  BY Zenon DEF BoundInv
<1>3. /\ IsFiniteSet(MaySubscribe(n)) /\ Cardinality(MaySubscribe(n)) \in Nat
      /\ Cardinality(Callers) \in Nat
  BY MayCount, MayType, Zenon
<1>4. CASE n = m
  <2>1. MaySubscribe(n)' = MaySubscribe(n) \ {c} /\ c \in MaySubscribe(n)
    BY <1>4, Zenon DEF Subscribes, Becomes, MaySubscribe
  <2>2. Cardinality(MaySubscribe(n)') = Cardinality(MaySubscribe(n)) - 1
    BY Zenon, <1>3, <2>1, FS_RemoveElement
  <2>3. pubSubs'[n] = pubSubs[n] + 1
    BY <1>1, <1>4, Zenon DEF Subscribes
  <2> QED BY <1>1, <1>2, <1>3, <2>2, <2>3
<1>5. CASE n # m
  <2>1. MaySubscribe(n)' = MaySubscribe(n)
    BY <1>5, Zenon DEF Subscribes, Becomes, MaySubscribe
  <2>2. pubSubs'[n] = pubSubs[n]
    BY <1>1, <1>5, Zenon DEF Subscribes
  <2> QED BY <1>2, <2>1, <2>2, Zenon
<1> QED BY <1>4, <1>5, Zenon

\* Every step keeps the bound.
LEMMA BoundStep ==
  ASSUME TypeInv, StartInv, BoundInv, [Next]_vars
  PROVE  BoundInv'
<1>1. CASE Aside
  <2>1. \A n \in Nodes : MaySubscribe(n)' \subseteq MaySubscribe(n)
    BY <1>1, Zenon DEF Aside, SameCall, MaySubscribe
  <2> QED BY <1>1, <2>1, BoundKept, Zenon DEF Aside
<1>2. CASE Done
  BY <1>2, BoundCleared, Zenon DEF Done, CloseAll
<1>3. ASSUME NEW c \in Callers, Move(c) PROVE BoundInv'
  <2>1. CASE Starts(c) \/ Retries(c) \/ Fails(c) \/ Advances(c) \/ Begins(c) \/ Returns(c)
    <3>1. pubSubs' = pubSubs
      BY Zenon, <2>1 DEF Starts, Retries, Fails, Advances, Begins, Returns
    <3>2. /\ \A d \in Callers \ {c} : call'[d] = call[d]
          /\ \/ call'[c].pc \notin {"subscribe", "subscribing"}
             \/ call[c].pc = "subscribe"
      BY <2>1, Zenon DEF Starts, Retries, Fails, Advances, Begins, Returns, Becomes
    <3>3. \A n \in Nodes : MaySubscribe(n)' \subseteq MaySubscribe(n)
      BY <3>2, Zenon DEF MaySubscribe
    <3> QED BY <3>1, <3>3, BoundKept, Zenon
  <2>2. CASE Skips(c)
    <3>1. \A n \in Nodes : pubSubs'[n] = 0
      BY <2>2, Zenon DEF Skips, StartInv
    <3> QED BY <3>1, BoundCleared, Zenon
  <2>3. CASE Closes(c)
    BY <2>3, BoundCleared, Zenon DEF Closes
  <2>4. ASSUME NEW m \in Nodes, Subscribes(c, m) PROVE BoundInv'
    BY <2>4, BoundSubscribes, Zenon
  <2> QED BY <1>3, <2>1, <2>2, <2>3, <2>4, Zenon DEF Move
<1> QED BY <1>1, <1>2, <1>3, Steps, Zenon

\* Every step keeps a subscription or the promise of one.
LEMMA HopeStep ==
  ASSUME TypeInv, StartInv, HopeInv, [Next]_vars
  PROVE  HopeInv'
<1>1. CASE Aside
  BY <1>1, Zenon DEF Aside, SameCall, HopeInv, Hope
<1>2. CASE Done
  BY <1>2, Zenon DEF Done, HopeInv
<1>3. ASSUME NEW c \in Callers, Move(c) PROVE HopeInv'
  <2>1. CASE Starts(c)
    BY <2>1, Zenon DEF Starts, Becomes, StartInv, HopeInv
  <2>2. CASE Retries(c)
    BY <2>2, Zenon DEF Retries, Becomes, HopeInv, Hope
  <2>3. CASE Fails(c)
    BY <2>3, Zenon DEF Fails, Becomes, HopeInv, Hope
  <2>4. CASE Advances(c)
    BY <2>4, Zenon DEF Advances, Becomes, HopeInv, Hope
  <2>5. CASE Skips(c)
    BY <2>5, Zenon DEF Skips, Becomes, HopeInv, Hope
  <2>6. CASE Closes(c)
    BY <2>6, Zenon DEF Closes, Becomes, HopeInv, Hope
  <2>7. CASE Begins(c)
    BY <2>7, Zenon DEF Begins, Becomes, HopeInv, Hope
  <2>8. ASSUME NEW m \in Nodes, Subscribes(c, m) PROVE HopeInv'
    <3>1. pubSubs \in [Nodes -> Nat] /\ pubSubs[m] \in Nat
      BY Zenon DEF TypeInv, ClientType
    <3>2. pubSubs'[m] = pubSubs[m] + 1
      BY <2>8, <3>1, Zenon DEF Subscribes
    <3>3. pubSubs'[m] >= 1
      BY <3>1, <3>2
    <3> QED BY <3>3, Zenon DEF HopeInv, Hope
  <2>9. CASE Returns(c)
    <3>1. ~done' => Hope
      BY <2>9, Zenon DEF Returns, HopeInv
    <3>2. Hope => Hope'
      BY <2>9, Zenon DEF Returns, Becomes, Hope
    <3> QED BY <3>1, <3>2, Zenon DEF HopeInv
  <2> QED BY <1>3, <2>1, <2>2, <2>3, <2>4, <2>5, <2>6, <2>7, <2>8, <2>9 DEF Move
<1> QED BY <1>1, <1>2, <1>3, Steps, Zenon

(***************************************************************************)
(* The theorems.                                                           *)
(***************************************************************************)
\* The initial state satisfies the invariant.
LEMMA CallsInit == Init => CallsInv
<1> SUFFICES ASSUME Init PROVE CallsInv
  BY Zenon
<1>0. TypeInv
  BY InitTypes, Zenon
<1>1. /\ \A c \in Callers : call[c] = Idle
      /\ \A n \in Nodes : pubSubs[n] = 0 /\ view[n].owner = owner
      /\ inited = "new" /\ done = FALSE
  BY Zenon DEF Init
<1>2. \A c \in Callers : call[c].pc = "out" /\ ~call[c].quiet
  BY <1>1 DEF Idle
<1>3. StartInv
  BY <1>1, <1>2, Zenon DEF StartInv
<1>4. BoundInv
  <2> SUFFICES ASSUME NEW n \in Nodes
               PROVE  pubSubs[n] + Cardinality(MaySubscribe(n)) <= Cardinality(Callers)
    BY Zenon DEF BoundInv
  <2>1. /\ Cardinality(MaySubscribe(n)) \in Nat /\ Cardinality(Callers) \in Nat
        /\ Cardinality(MaySubscribe(n)) <= Cardinality(Callers)
    BY MayCount, MayType, Zenon
  <2> QED BY <1>1, <2>1
<1>5. HopeInv
  BY <1>1, <1>2, Zenon DEF HopeInv
<1> QED BY <1>0, <1>3, <1>4, <1>5, Zenon DEF CallsInv

\* Every step preserves the invariant.
LEMMA CallsStep == CallsInv /\ [Next]_vars => CallsInv'
  BY TypeStep, StartStep, BoundStep, HopeStep, Zenon DEF CallsInv

\* The invariant holds throughout.
LEMMA CallsInvariant == Spec => []CallsInv
  BY CallsInit, CallsStep, PTL DEF Spec

\* Every structure of the cluster client keeps its shape, and the answers of
\* an ensureClusterSettled call do not outlive it.
THEOREM TopologyTypes == Spec => []TypeOK
<1>1. CallsInv => TypeOK
  BY Zenon DEF CallsInv, TypeInv, ClientType, ClusterType, ReportType, CallRec, TypeOK
<1> QED BY <1>1, CallsInvariant, PTL

\* However many goroutines call ReinitTopology, and however often, no node has
\* more subscriptions of the client than there are such goroutines.
THEOREM SubscriptionsStayBounded == Spec => []SubscriptionsBounded
<1>1. CallsInv => SubscriptionsBounded
  <2> SUFFICES ASSUME CallsInv, NEW n \in Nodes PROVE pubSubs[n] <= Cardinality(Callers)
    BY Zenon DEF SubscriptionsBounded
  <2>1. pubSubs[n] \in Nat
    BY Zenon DEF CallsInv, TypeInv, ClientType
  <2>2. Cardinality(MaySubscribe(n)) \in Nat /\ Cardinality(Callers) \in Nat
    BY MayCount, MayType, Zenon
  <2>3. pubSubs[n] + Cardinality(MaySubscribe(n)) <= Cardinality(Callers)
    BY Zenon DEF CallsInv, BoundInv
  <2> QED BY <2>1, <2>2, <2>3
<1> QED BY <1>1, CallsInvariant, PTL

\* A ReinitTopology that fails leaves the client its subscriptions, also when
\* several of them overlap: without any it is only while one rebuilds them.
THEOREM ClientNeverDeaf == Spec => []NeverDeaf
<1>1. CallsInv => NeverDeaf
  BY Zenon DEF CallsInv, HopeInv, Hope, NeverDeaf
<1> QED BY <1>1, CallsInvariant, PTL

\* One master at least knows the ownership: the one that changed it last.
KnowInv == \E m \in Masters(owner) : view[m].owner = owner

Fresh == \A n \in Up : view[n].owner = owner

Answered(c, n) == reports[c][n].at = "answered"

\* What the answers collected so far say, in a call that nothing disturbed:
\* the nodes that are up have not failed to answer, one master gives the
\* right answer, and a node that gave it still has it.
AskInv(c) ==
  /\ \A n \in Up : reports[c][n].at # "err"
  /\ \E m \in Masters(owner) :
       view[m].owner = owner /\ (Answered(c, m) => reports[c][m].slots = SlotOwnership(owner))
  /\ \A n \in Nodes :
       Answered(c, n) /\ reports[c][n].slots = SlotOwnership(owner) => view[n].owner = owner

Publishes == \A m \in Masters(owner) : conf[m] = "KEx"

Coming == \A m \in Masters(owner) : pubSubs[m] >= 1 \/ MaySubscribe(m) # {}

Returned(c) == call[c].pc = "out" /\ call[c].won

\* How far an undisturbed call has come, as long as all masters are up.
Cover(c) ==
  /\ Returned(c) \/ (call[c].pc # "out" /\ call[c].reapply)
  /\ Masters(owner) \subseteq Up =>
       /\ call[c].pc = "ask" => AskInv(c)
       /\ call[c].pc # "ask" => Fresh
       /\ call[c].pc = "enabling" => \A m \in Masters(owner) \ call[c].todo : conf[m] = "KEx"
       /\ call[c].pc \in {"close", "subscribe", "subscribing"} \/ Returned(c) => Publishes
       /\ call[c].pc \in {"subscribe", "subscribing"} \/ Returned(c) => Coming \/ done

CoverInv == \A c \in Callers : call[c].quiet => Cover(c)

(***************************************************************************)
(* What an undisturbed call has achieved is preserved.                     *)
(***************************************************************************)
\* The ownership is the same, no node comes back, and nothing is unlearnt.
Still ==
  /\ owner' = owner /\ Up' \subseteq Up
  /\ \A n \in Nodes : view'[n].owner = view[n].owner \/ view'[n].owner = owner
  /\ \A n \in Nodes : conf[n] = "KEx" => conf'[n] = "KEx"

CallOf(c) == CallInit(c) \/ ReinitTopology(c) \/ CallStep(c)

\* The other calls do not move.
Apart(c) == \A d \in Callers \ {c} : call'[d] = call[d] /\ reports'[d] = reports[d]

\* A step that leaves the cluster alone.
LEMMA StillUnchanged ==
  ASSUME UNCHANGED <<owner, view, down, conf>>
  PROVE  Still
  BY Zenon DEF Still, Up

\* A step of the cluster ends the quiet or unlearns nothing.
LEMMA ChangeKnown ==
  ASSUME TypeInv, ClusterStep, KnowInv
  PROVE  (Disturb /\ KnowInv') \/ (Still /\ UNCHANGED <<call, reports>>)
<1>1. ASSUME NEW o \in Nodes, NEW m \in Nodes, Failover(o, m) PROVE Disturb /\ KnowInv'
  BY <1>1, FailoverOwner, Zenon DEF Change, KnowInv
<1>2. ASSUME NEW s \in Slots, NEW m \in Nodes, Reshard(s, m) PROVE Disturb /\ KnowInv'
  BY <1>2, ReshardOwner, Zenon DEF Change, KnowInv
<1>3. ASSUME NEW n \in Nodes, NodeDown(n) PROVE Still /\ UNCHANGED <<call, reports>>
  BY <1>3, Zenon DEF NodeDown, client, Still, Up
<1>4. ASSUME NEW n \in Nodes, NodeUp(n) PROVE Disturb /\ KnowInv'
  BY Zenon, <1>4 DEF NodeUp, KnowInv
<1>5. ASSUME NEW n \in Nodes, Gossip(n) PROVE Still /\ UNCHANGED <<call, reports>>
  <2>1. View(owner).owner = owner
    BY Zenon, ViewType DEF TypeInv, ClusterType
  <2>2. \A k \in Nodes : view'[k].owner = view[k].owner \/ view'[k].owner = owner
    BY Zenon, <1>5, <2>1 DEF Gossip, TypeInv, ClusterType
  <2> QED BY <1>5, <2>2, Zenon DEF Gossip, client, Still, Up
<1> QED BY <1>1, <1>2, <1>3, <1>4, <1>5, Zenon DEF ClusterStep

\* A step of a call leaves the cluster and the other calls alone.
LEMMA CallStill ==
  ASSUME TypeInv, NEW c \in Callers, CallOf(c)
  PROVE  Still /\ Apart(c)
<1>t. call \in [Callers -> CallRec] /\ reports \in [Callers -> [Nodes -> RepRec]]
      /\ conf \in [Nodes -> {"", "other", "KEx"}]
  BY Zenon DEF TypeInv, ClientType, ClusterType, ReportType
<1>1. ASSUME NEW n \in Nodes, ClusterInfo(c, n) \/ ClusterNodes(c, n) PROVE Still /\ Apart(c)
  <2>1. Still /\ call' = call
    BY <1>1, StillUnchanged, Zenon DEF ClusterInfo, ClusterNodes, Report, cluster
  <2>2. \A d \in Callers \ {c} : reports'[d] = reports[d]
    BY Zenon, <1>1, <1>t DEF ClusterInfo, ClusterNodes, Report
  <2> QED BY <2>1, <2>2, Zenon DEF Apart
<1>2. CASE EnsureClusterSettled(c)
  <2>1. Still
    BY <1>2, StillUnchanged, Zenon DEF EnsureClusterSettled, cluster
  <2>2. \A d \in Callers \ {c} : reports'[d] = reports[d]
    BY Zenon, <1>2, <1>t DEF EnsureClusterSettled
  <2>3. \A d \in Callers \ {c} : call'[d] = call[d]
    BY Zenon, <1>2, <1>t DEF EnsureClusterSettled, Goto, Fail
  <2> QED BY <2>1, <2>2, <2>3, Zenon DEF Apart
<1>3. ASSUME NEW m \in Nodes, EnableKeyspaceNotifsOn(c, m) PROVE Still /\ Apart(c)
  <2>1. \A n \in Nodes : conf[n] = "KEx" => conf'[n] = "KEx"
    BY Zenon, <1>3, <1>t DEF EnableKeyspaceNotifsOn
  <2>2. Still
    BY <1>3, <2>1, Zenon DEF EnableKeyspaceNotifsOn, cluster, Still, Up
  <2>3. \A d \in Callers \ {c} : call'[d] = call[d]
    BY Zenon, <1>3, <1>t, EnableCall DEF Becomes
  <2>4. reports' = reports
    BY <1>3, Zenon DEF EnableKeyspaceNotifsOn
  <2> QED BY <2>2, <2>3, <2>4, Zenon DEF Apart
<1>4. CASE \/ CallInit(c) \/ ReinitTopology(c) \/ ReloadState(c)
           \/ ForEachMaster(c, "enable", "enabling") \/ EnabledOnMasters(c)
           \/ \E m \in Nodes : Subscribe(c, m)
           \/ CloseSubscriptions(c) \/ ForEachMaster(c, "subscribe", "subscribing")
           \/ Reinitialized(c) \/ Initialized(c)
  <2>1. UNCHANGED <<cluster, conf, reports>>
    BY <1>4, Zenon DEF CallInit, ReinitTopology, ReloadState, ForEachMaster, EnabledOnMasters,
                Subscribe, CloseSubscriptions, Reinitialized, Initialized
  <2>2. Still
    BY <2>1, StillUnchanged, Zenon DEF cluster
  <2>3. Move(c)
    BY <1>4, Moves, Zenon
  <2>4. \A d \in Callers \ {c} : call'[d] = call[d]
    BY Zenon, <2>3 DEF Move, Starts, Retries, Fails, Advances, Skips, Closes, Begins, Subscribes,
                Returns, Becomes
  <2> QED BY <2>1, <2>2, <2>4, Zenon DEF Apart
<1>5. ASSUME NEW n \in Nodes, AskFails(c, n) PROVE Still /\ Apart(c)
  <2>1. Still
    BY <1>5, StillUnchanged, Zenon DEF AskFails, CommandFails
  <2>2. \A d \in Callers \ {c} : call'[d] = call[d]
    BY <1>5, <1>t, AskFailsCall, Zenon DEF Becomes
  <2>3. \A d \in Callers \ {c} : reports'[d] = reports[d]
    BY <1>5, <1>t, Zenon DEF AskFails
  <2> QED BY <2>1, <2>2, <2>3, Zenon DEF Apart
<1>6. ASSUME NEW m \in Nodes, EnableFails(c, m) PROVE Still /\ Apart(c)
  <2>1. \A n \in Nodes : conf[n] = "KEx" => conf'[n] = "KEx"
    BY Zenon, <1>6, <1>t DEF EnableFails
  <2>2. Still
    BY <1>6, <2>1, Zenon DEF EnableFails, CommandFails, Still, Up
  <2>3. \A d \in Callers \ {c} : call'[d] = call[d]
    BY Zenon, <1>6, <1>t, EnableFailsCall DEF Becomes
  <2>4. reports' = reports
    BY <1>6, Zenon DEF EnableFails
  <2> QED BY <2>2, <2>3, <2>4, Zenon DEF Apart
<1> QED BY <1>1, <1>2, <1>3, <1>4, <1>5, <1>6, Zenon DEF CallOf, CallStep

\* A step ends the quiet, moves no call, or moves one.
LEMMA ClusterSteps ==
  ASSUME TypeInv, KnowInv, [Next]_vars
  PROVE  \/ Disturb /\ KnowInv'
         \/ Still /\ UNCHANGED <<call, reports>>
         \/ Still /\ \E c \in Callers : CallOf(c) /\ Apart(c)
<1>1. CASE ClusterStep
  BY <1>1, ChangeKnown, Zenon
<1>2. CASE \E c \in Callers : CallOf(c)
  BY <1>2, CallStill, Zenon
<1>3. CASE Done
  BY <1>3, StillUnchanged, Zenon DEF Done, cluster
<1>4. CASE UNCHANGED vars
  BY <1>4, StillUnchanged, Zenon DEF vars, cluster, client
<1> QED BY <1>1, <1>2, <1>3, <1>4, Zenon DEF Next, CallOf

\* Some node is a master.
LEMMA MastersNodes ==
  ASSUME TypeInv
  PROVE  Masters(owner) \subseteq Nodes /\ Masters(owner) # {}
<1>1. Masters(owner) \subseteq Nodes
  BY Zenon DEF TypeInv, ClusterType, Masters, Ownerships
<1>2. Masters(owner) # {}
  BY TopologyAssumption, Zenon DEF Masters, TopologyAssumption
<1> QED BY <1>1, <1>2, Zenon

\* The master that knows goes on knowing.
LEMMA KnowKept ==
  ASSUME TypeInv, KnowInv, Still
  PROVE  KnowInv'
<1>1. PICK m \in Masters(owner) : view[m].owner = owner
  BY Zenon DEF KnowInv
<1>2. m \in Nodes
  BY MastersNodes, Zenon
<1>3. view'[m].owner = owner' /\ m \in Masters(owner')
  BY <1>1, <1>2, Zenon DEF Still
<1> QED BY <1>3, Zenon DEF KnowInv

\* Every step leaves a master that knows the ownership.
LEMMA KnowStep ==
  ASSUME TypeInv, KnowInv, [Next]_vars
  PROVE  KnowInv'
  BY ClusterSteps, KnowKept, Zenon

\* Nodes that are right stay right until the ownership changes.
LEMMA FreshKept ==
  ASSUME Still, Fresh
  PROVE  Fresh'
<1> SUFFICES ASSUME NEW n \in Up' PROVE view'[n].owner = owner'
  BY Zenon DEF Fresh
<1>1. n \in Up /\ n \in Nodes
  BY Zenon DEF Still, Up
<1> QED BY <1>1, Zenon DEF Still, Fresh

\* All nodes that answer being right, the client loads the right ownership.
LEMMA FreshLoad ==
  ASSUME TypeInv, Fresh, Masters(owner) \subseteq Up, Load
  PROVE  known' = owner
<1>1. Up # {}
  BY MastersNodes, Zenon
<1> QED BY <1>1, Zenon DEF Load, Fresh

\* Two ownerships with the same slots by master are the same.
LEMMA SlotsTell ==
  ASSUME NEW o \in Ownerships, NEW w \in Ownerships, SlotOwnership(o) = SlotOwnership(w)
  PROVE  o = w
<1>1. ASSUME NEW s \in Slots PROVE o[s] = w[s]
  <2>1. o[s] \in Masters(o) /\ o[s] \in DOMAIN SlotOwnership(o) /\ s \in SlotOwnership(o)[o[s]]
    BY <1>1, Zenon DEF SlotOwnership, Masters
  <2>2. o[s] \in DOMAIN SlotOwnership(w) /\ s \in SlotOwnership(w)[o[s]]
    BY <2>1, Zenon
  <2>3. DOMAIN SlotOwnership(w) = Masters(w)
    BY Zenon DEF SlotOwnership
  <2>4. s \in {r \in Slots : w[r] = o[s]}
    BY <2>2, <2>3, Zenon DEF SlotOwnership
  <2> QED BY <2>4, Zenon
<1> QED BY <1>1 DEF Ownerships

\* The answers collected so far stay right while others move.
LEMMA AskKept ==
  ASSUME TypeInv, Still, NEW c \in Callers, reports'[c] = reports[c], AskInv(c)
  PROVE  AskInv(c)'
<1>1. \A n \in Up' : reports'[c][n].at # "err"
  BY Zenon DEF AskInv, Still
<1>2. PICK m \in Masters(owner) :
        view[m].owner = owner /\ (Answered(c, m) => reports[c][m].slots = SlotOwnership(owner))
  BY Zenon DEF AskInv
<1>3. /\ m \in Masters(owner') /\ view'[m].owner = owner'
      /\ Answered(c, m)' => reports'[c][m].slots = SlotOwnership(owner')
  BY <1>2, MastersNodes, Zenon DEF Still, Answered
<1>4. \A n \in Nodes :
        Answered(c, n)' /\ reports'[c][n].slots = SlotOwnership(owner') => view'[n].owner = owner'
  BY Zenon DEF AskInv, Still, Answered
<1> QED BY <1>1, <1>3, <1>4, Zenon DEF AskInv

\* A subscription that exists or is to come is not lost to the client.
LEMMA ComingStep ==
  ASSUME TypeInv, StartInv, [Next]_vars, owner' = owner, Fresh, Masters(owner) \subseteq Up,
         Coming \/ done
  PROVE  (Coming \/ done)'
<1>d. done => done'
  <2>1. CASE Aside
    BY <2>1, Zenon DEF Aside
  <2>2. CASE Done
    BY <2>2, Zenon DEF Done
  <2>3. ASSUME NEW c \in Callers, Move(c) PROVE done' = done
    BY Zenon, <2>3 DEF Move, Starts, Retries, Fails, Advances, Skips, Closes, Begins,
                       Subscribes, Returns
  <2> QED BY Zenon, <2>1, <2>2, <2>3, Steps
<1> SUFFICES ASSUME Coming, ~done', NEW k \in Masters(owner)
             PROVE  (pubSubs[k] >= 1 \/ MaySubscribe(k) # {})'
  BY <1>d, Zenon DEF Coming
<1>0. k \in Nodes /\ pubSubs \in [Nodes -> Nat]
  BY MastersNodes, Zenon DEF TypeInv, ClientType
<1>h. pubSubs[k] >= 1 \/ MaySubscribe(k) # {}
  BY Zenon DEF Coming
<1>1. CASE Aside
  <2>1. MaySubscribe(k)' = MaySubscribe(k) /\ pubSubs' = pubSubs
    BY <1>1, Zenon DEF Aside, SameCall, MaySubscribe
  <2> QED BY <1>h, <2>1, Zenon
<1>2. CASE Done
  BY <1>2, Zenon DEF Done
<1>3. ASSUME NEW c \in Callers, Move(c) PROVE (pubSubs[k] >= 1 \/ MaySubscribe(k) # {})'
  <2>1. CASE \/ Starts(c) \/ Retries(c) \/ Fails(c) \/ Advances(c) \/ Returns(c)
    <3>1. c \notin MaySubscribe(k)
      BY ZenonT(40), <2>1 DEF Starts, Retries, Fails, Advances, Returns, StartInv, MaySubscribe
    <3>2. pubSubs' = pubSubs /\ \A d \in Callers \ {c} : call'[d] = call[d]
      BY <2>1, Zenon DEF Starts, Retries, Fails, Advances, Returns, Becomes
    <3>3. MaySubscribe(k) \subseteq MaySubscribe(k)'
      BY <3>1, <3>2, Zenon DEF MaySubscribe
    <3> QED BY <1>h, <3>2, <3>3, Zenon
  <2>2. CASE Skips(c) \/ Closes(c)
    BY <2>2, Zenon DEF Skips, Closes, Becomes, MaySubscribe
  <2>3. CASE Begins(c)
    <3>1. known' = owner
      BY <2>3, FreshLoad, Zenon DEF Begins
    <3> QED BY <2>3, <3>1, Zenon DEF Begins, Becomes, MaySubscribe
  <2>4. ASSUME NEW m \in Nodes, Subscribes(c, m) PROVE (pubSubs[k] >= 1 \/ MaySubscribe(k) # {})'
    <3>1. CASE k = m
      <4>1. pubSubs[k] \in Nat /\ pubSubs'[k] = pubSubs[k] + 1
        BY <1>0, <2>4, <3>1, Zenon DEF Subscribes
      <4>2. pubSubs'[k] >= 1
        BY <4>1
      <4> QED BY <4>2, Zenon
    <3>2. CASE k # m
      <4>1. pubSubs'[k] = pubSubs[k]
        BY <1>0, <2>4, <3>2, Zenon DEF Subscribes
      <4>2. MaySubscribe(k) \subseteq MaySubscribe(k)'
        BY <2>4, <3>2, Zenon DEF Subscribes, Becomes, MaySubscribe
      <4> QED BY <1>h, <4>1, <4>2, Zenon
    <3> QED BY <3>1, <3>2, Zenon
  <2> QED BY <1>3, <2>1, <2>2, <2>3, <2>4, Zenon DEF Move
<1> QED BY <1>1, <1>2, <1>3, Steps, Zenon

\* If all masters are up after a quiet step they were up before it.
LEMMA MastersUp ==
  ASSUME Still, (Masters(owner) \subseteq Up)'
  PROVE  Masters(owner) \subseteq Up /\ Masters(owner') = Masters(owner)
  BY Zenon DEF Still

\* A master that publishes expiries goes on while no node comes back.
LEMMA PublishesKept ==
  ASSUME TypeInv, Still, NEW t, \A m \in Masters(owner) \ t : conf[m] = "KEx"
  PROVE  \A m \in Masters(owner') \ t : conf'[m] = "KEx"
  BY MastersNodes, Zenon DEF Still

\* A call that the step does not move.
LEMMA CoverOther ==
  ASSUME TypeInv, StartInv, [Next]_vars, Still, NEW d \in Callers,
         call'[d] = call[d], reports'[d] = reports[d], Cover(d)
  PROVE  Cover(d)'
<1>1. Returned(d)' \/ (call'[d].pc # "out" /\ call'[d].reapply)
  BY Zenon DEF Cover, Returned
<1>2. ASSUME (Masters(owner) \subseteq Up)'
      PROVE  /\ call'[d].pc = "ask" => AskInv(d)'
             /\ call'[d].pc # "ask" => Fresh'
             /\ call'[d].pc = "enabling" =>
                  \A m \in Masters(owner') \ call'[d].todo : conf'[m] = "KEx"
             /\ call'[d].pc \in {"close", "subscribe", "subscribing"} \/ Returned(d)' => Publishes'
             /\ call'[d].pc \in {"subscribe", "subscribing"} \/ Returned(d)' => (Coming \/ done)'
  <2>1. Masters(owner) \subseteq Up /\ owner' = owner
    BY <1>2, MastersUp, Zenon DEF Still
  <2>2. call[d].pc = "ask" => AskInv(d)'
    BY <2>1, AskKept, Zenon DEF Cover
  <2>3. call[d].pc # "ask" => Fresh /\ Fresh'
    BY <2>1, FreshKept, Zenon DEF Cover
  <2>4. call[d].pc = "enabling" => \A m \in Masters(owner') \ call[d].todo : conf'[m] = "KEx"
    BY <2>1, PublishesKept, Zenon DEF Cover
  <2>5. Publishes => Publishes'
    BY MastersNodes, Zenon DEF Publishes, Still
  <2>6. call[d].pc \in {"subscribe", "subscribing"} \/ Returned(d) => (Coming \/ done)'
    <3> SUFFICES ASSUME call[d].pc \in {"subscribe", "subscribing"} \/ Returned(d)
                 PROVE  (Coming \/ done)'
      BY Zenon
    <3>1. Coming \/ done
      BY <2>1, Zenon DEF Cover
    <3>2. Fresh
      BY <2>3, Zenon DEF Returned
    <3> QED BY <2>1, <3>1, <3>2, ComingStep, Zenon
  <2>7. Returned(d)' <=> Returned(d)
    BY Zenon DEF Returned
  <2>8. call[d].pc \in {"close", "subscribe", "subscribing"} \/ Returned(d) => Publishes'
    BY <2>1, <2>5, Zenon DEF Cover
  <2> QED BY <2>2, <2>3, <2>4, <2>6, <2>7, <2>8, Zenon
<1> QED BY <1>1, <1>2, Zenon DEF Cover

\* A ReinitTopology begins without answers.
LEMMA AskBegins ==
  ASSUME TypeInv, KnowInv, NEW c \in Callers, ReinitTopology(c)
  PROVE  Cover(c)'
<1>1. /\ call'[c].pc = "ask" /\ call'[c].reapply
      /\ reports' = reports /\ view' = view /\ owner' = owner
      /\ \A n \in Nodes : reports[c][n] = Unasked
  BY ReinitCall, Zenon DEF ReinitTopology, Becomes, cluster, TypeInv, ClientType, ReportType
<1>2. \A n \in Nodes : reports'[c][n].at = "unasked"
  BY <1>1 DEF Unasked
<1>3. AskInv(c)'
  <2>1. \A n \in Up' : reports'[c][n].at # "err"
    BY <1>2, Zenon DEF Up
  <2>2. PICK m \in Masters(owner) : view[m].owner = owner
    BY Zenon DEF KnowInv
  <2>3. m \in Masters(owner') /\ view'[m].owner = owner' /\ ~Answered(c, m)'
    BY <1>1, <1>2, <2>2, MastersNodes, Zenon DEF Answered
  <2>4. \A n \in Nodes : ~Answered(c, n)'
    BY <1>2, Zenon DEF Answered
  <2> QED BY <2>1, <2>3, <2>4, Zenon DEF AskInv
<1> QED BY <1>1, <1>3, Zenon DEF Cover, Returned

\* A node that is up answers with what it knows.
LEMMA AskGoesOn ==
  ASSUME TypeInv, NEW c \in Callers, NEW n \in Nodes, ClusterInfo(c, n) \/ ClusterNodes(c, n),
         Cover(c)
  PROVE  Cover(c)'
<1>1. /\ call' = call /\ call[c].pc = "ask"
      /\ UNCHANGED <<owner, view, down>>
  BY Zenon DEF ClusterInfo, ClusterNodes, Report, cluster
<1>2. call[c].reapply
  BY ZenonT(40), <1>1 DEF Cover, Returned
<1>3. ASSUME (Masters(owner) \subseteq Up)' PROVE AskInv(c)'
  <2>1. AskInv(c)
    BY <1>1, <1>3, Zenon DEF Cover, Up
  <2>t. reports \in [Callers -> [Nodes -> RepRec]] /\ reports[c][n] \in RepRec
        /\ view[n].owner \in Ownerships /\ owner \in Ownerships
    BY Zenon DEF TypeInv, ReportType, ClusterType
  <2>2. \A k \in Nodes \ {n} : reports'[c][k] = reports[c][k]
    BY <2>t DEF ClusterInfo, ClusterNodes, Report
  <2>3. /\ n \in Up => reports'[c][n].at # "err"
        /\ Answered(c, n)' => reports'[c][n].slots = SlotOwnership(view[n].owner)
    <3>1. CASE n \notin Up
      <4>1. reports'[c][n] = [Unasked EXCEPT !.at = "err"]
        BY <3>1, <2>t DEF ClusterInfo, ClusterNodes, Report
      <4> QED BY <3>1, <4>1, Zenon DEF Unasked, Answered
    <3>2. CASE n \in Up /\ ClusterInfo(c, n)
      <4>1. reports'[c][n] = [Unasked EXCEPT !.at = "info", !.ok = view[n].ok]
        BY <3>2, <2>t, Zenon DEF ClusterInfo, Report
      <4> QED BY <4>1, Zenon DEF Unasked, Answered
    <3>3. CASE n \in Up /\ ClusterNodes(c, n)
      <4> DEFINE S == SlotOwnership(view[n].owner)
      <4>1. reports'[c][n] = [reports[c][n] EXCEPT !.at = "answered", !.slots = S]
        BY Zenon, <3>3, <2>t DEF ClusterNodes, Report
      <4> HIDE DEF S
      <4>2. reports'[c][n].at = "answered" /\ reports'[c][n].slots = S
        BY <4>1, <2>t, Zenon DEF RepRec
      <4> USE DEF S
      <4> QED BY <4>2, Zenon
    <3> QED BY <3>1, <3>2, <3>3, Zenon
  <2>4. \A k \in Up' : reports'[c][k].at # "err"
    <3> SUFFICES ASSUME NEW k \in Up PROVE reports'[c][k].at # "err"
      BY <1>1, Zenon DEF Up
    <3>1. k \in Nodes /\ reports[c][k].at # "err"
      BY <2>1, Zenon DEF AskInv, Up
    <3> QED BY <2>2, <2>3, <3>1, Zenon
  <2>5. PICK m \in Masters(owner) :
          view[m].owner = owner /\ (Answered(c, m) => reports[c][m].slots = SlotOwnership(owner))
    BY <2>1, Zenon DEF AskInv
  <2>6. /\ m \in Masters(owner') /\ view'[m].owner = owner'
        /\ Answered(c, m)' => reports'[c][m].slots = SlotOwnership(owner')
    <3>1. m \in Nodes
      BY MastersNodes, Zenon
    <3>2. CASE m = n
      BY <1>1, <2>3, <2>5, <3>2, Zenon
    <3>3. CASE m # n
      BY <1>1, <2>2, <2>5, <3>1, <3>3, Zenon DEF Answered
    <3> QED BY <3>2, <3>3, Zenon
  <2>7. ASSUME NEW k \in Nodes, Answered(c, k)', reports'[c][k].slots = SlotOwnership(owner')
        PROVE  view'[k].owner = owner'
    <3>1. CASE k = n
      BY ZenonT(40), <1>1, <2>3, <2>7, <2>t, <3>1, SlotsTell
    <3>2. CASE k # n
      BY <1>1, <2>1, <2>2, <2>7, <3>2, Zenon DEF AskInv, Answered
    <3> QED BY <3>1, <3>2, Zenon
  <2> QED BY <2>4, <2>6, <2>7, Zenon DEF AskInv
<1> QED BY Zenon, <1>1, <1>2, <1>3 DEF Cover, Returned

\* All answers agree with the right one: every node that is up is right.
LEMMA SettledFresh ==
  ASSUME TypeInv, NEW c \in Callers, AskInv(c), Masters(owner) \subseteq Up,
         \A n \in Nodes : reports[c][n].at \in {"answered", "err"},
         EvaluateSettled(reports[c])
  PROVE  Fresh
<1>1. \A n \in Up : n \in Nodes /\ Answered(c, n)
  BY Zenon DEF AskInv, Answered, Up
<1>2. PICK m \in Masters(owner) :
        view[m].owner = owner /\ (Answered(c, m) => reports[c][m].slots = SlotOwnership(owner))
  BY Zenon DEF AskInv
<1>3. m \in Up
  BY <1>2, Zenon
<1>4. reports[c][m].slots = SlotOwnership(owner)
  BY <1>1, <1>2, <1>3, Zenon
<1>5. ASSUME NEW n \in Up PROVE view[n].owner = owner
  <2>1. n \in Nodes /\ m \in Nodes /\ reports[c][n].at = "answered" /\ reports[c][m].at = "answered"
    BY <1>1, <1>3, <1>5, Zenon DEF Answered
  <2>2. reports[c][m].slots = reports[c][n].slots
    BY <2>1, Zenon DEF EvaluateSettled
  <2> QED BY <1>4, <2>1, <2>2, Zenon DEF AskInv, Answered
<1> QED BY <1>5, Zenon DEF Fresh

\* Past the settled check.
LEMMA SettledCover ==
  ASSUME TypeInv, NEW c \in Callers, EnsureClusterSettled(c), Still, Cover(c), call'[c].quiet
  PROVE  Cover(c)'
<1>0. call \in [Callers -> CallRec] /\ "reload" \in Pcs
  BY Zenon DEF TypeInv, ClientType, Pcs
<1>1. EvaluateSettled(reports[c]) /\ Goto(c, "reload") /\ call[c].pc = "ask"
      /\ \A n \in Nodes : reports[c][n].at \in {"answered", "err"}
  BY ZenonT(40), <1>0, FailCall DEF EnsureClusterSettled
<1>2. call'[c].pc = "reload" /\ call'[c].reapply = call[c].reapply
  BY <1>0, <1>1, GotoCall, Zenon DEF Becomes, Keeps
<1>3. call[c].reapply
  BY <1>1, Zenon DEF Cover, Returned
<1>4. ASSUME (Masters(owner) \subseteq Up)' PROVE Fresh'
  <2>1. Masters(owner) \subseteq Up
    BY <1>4, MastersUp, Zenon
  <2>2. Fresh
    BY <1>1, <2>1, SettledFresh, Zenon DEF Cover
  <2> QED BY <2>2, FreshKept, Zenon
<1> QED BY Zenon, <1>2, <1>3, <1>4 DEF Cover, Returned

\* A quiet call that has passed the settled check finds only right nodes.
LEMMA PastAsk ==
  ASSUME TypeInv, NEW c \in Callers, Cover(c), Still, (Masters(owner) \subseteq Up)',
         call[c].pc # "ask"
  PROVE  Fresh /\ Fresh' /\ Masters(owner) \subseteq Up /\ owner' = owner
<1>1. Masters(owner) \subseteq Up /\ owner' = owner
  BY MastersUp, Zenon DEF Still
<1>2. Fresh
  BY <1>1, Zenon DEF Cover
<1> QED BY <1>1, <1>2, FreshKept, Zenon

\* After ReloadState.
LEMMA ReloadCover ==
  ASSUME TypeInv, NEW c \in Callers, ReloadState(c), Still, Cover(c)
  PROVE  Cover(c)'
<1>0. call \in [Callers -> CallRec] /\ "enable" \in Pcs
  BY Zenon DEF TypeInv, ClientType, Pcs
<1>1. call[c].pc = "reload" /\ call'[c].pc = "enable" /\ call'[c].reapply = call[c].reapply
  BY <1>0, GotoCall, Zenon DEF ReloadState, Becomes, Keeps
<1>2. call[c].reapply
  BY <1>1, Zenon DEF Cover, Returned
<1>3. (Masters(owner) \subseteq Up)' => Fresh'
  BY <1>1, PastAsk, Zenon
<1> QED BY <1>1, <1>2, <1>3, Zenon DEF Cover, Returned

\* All masters are to be enabled.
LEMMA SweepCover ==
  ASSUME TypeInv, NEW c \in Callers, ForEachMaster(c, "enable", "enabling"), Still, Cover(c)
  PROVE  Cover(c)'
<1>0. ClientType /\ ClusterType /\ "enabling" \in Pcs
  BY Zenon DEF TypeInv, Pcs
<1>1. /\ call[c].pc = "enable" /\ call'[c].pc = "enabling" /\ call'[c].todo = Masters(known')
      /\ call'[c].reapply = call[c].reapply /\ Load
  <2>1. call[c].pc = "enable" /\ Load
    BY Zenon DEF ForEachMaster
  <2>2. Becomes(c, "enabling", Masters(known')) /\ Keeps(c)
    BY <1>0, SweepCall, Zenon
  <2> QED BY <2>1, <2>2, Zenon DEF Becomes, Keeps
<1>2. call[c].reapply
  BY ZenonT(40), <1>1 DEF Cover, Returned
<1>3. ASSUME (Masters(owner) \subseteq Up)' PROVE Fresh' /\ Masters(owner') \ call'[c].todo = {}
  <2>1. Fresh /\ Fresh' /\ Masters(owner) \subseteq Up /\ owner' = owner
    BY <1>1, <1>3, PastAsk, Zenon
  <2>2. known' = owner
    BY <1>1, <2>1, FreshLoad, Zenon
  <2> QED BY <1>1, <2>1, <2>2, Zenon
<1> QED BY <1>1, <1>2, <1>3, Zenon DEF Cover, Returned

\* A master that is up is enabled, whatever it was configured to.
LEMMA EnableCover ==
  ASSUME TypeInv, NEW c \in Callers, NEW m \in Nodes, EnableKeyspaceNotifsOn(c, m), Still, Cover(c)
  PROVE  Cover(c)'
<1>1. /\ call[c].pc = "enabling" /\ call'[c].pc = "enabling"
      /\ call'[c].todo = call[c].todo \ {m} /\ call'[c].reapply = call[c].reapply
  BY ZenonT(40), EnableCall DEF TypeInv, ClientType, Becomes, Keeps
<1>2. call[c].reapply
  BY <1>1, Zenon DEF Cover, Returned
<1>3. ASSUME (Masters(owner) \subseteq Up)'
      PROVE  Fresh' /\ \A k \in Masters(owner') \ call'[c].todo : conf'[k] = "KEx"
  <2>1. Fresh' /\ Masters(owner) \subseteq Up /\ owner' = owner
    BY <1>1, <1>3, PastAsk, Zenon
  <2>2. \A k \in Masters(owner) \ call[c].todo : conf'[k] = "KEx"
    BY <1>1, <2>1, MastersNodes, Zenon DEF Cover, Still
  <2>3. m \in Masters(owner) => conf'[m] = "KEx"
    <3>1. m \in Masters(owner) => m \in Up /\ m \notin down
      BY <2>1, Zenon DEF Up
    <3>2. ~Conflict(c, m)
      BY <1>2, Zenon DEF Conflict
    <3>3. m \in Masters(owner) => conf' = [conf EXCEPT ![m] = "KEx"]
      BY <3>1, <3>2, Zenon DEF EnableKeyspaceNotifsOn
    <3> QED BY Zenon, <3>3 DEF TypeInv, ClusterType
  <2>4. \A k \in Masters(owner) \ (call[c].todo \ {m}) : conf'[k] = "KEx"
    BY ZenonT(40), <2>2, <2>3
  <2> QED BY <1>1, <2>1, <2>4, Zenon
<1> QED BY <1>1, <1>2, <1>3, Zenon DEF Cover, Returned

\* All masters publish.
LEMMA EnabledCover ==
  ASSUME TypeInv, NEW c \in Callers, EnabledOnMasters(c), Still, Cover(c), call'[c].quiet
  PROVE  Cover(c)'
<1>0. call \in [Callers -> CallRec] /\ "close" \in Pcs
  BY Zenon DEF TypeInv, ClientType, Pcs
<1>1. call[c].pc = "enabling" /\ call[c].todo = {}
  BY Zenon DEF EnabledOnMasters
<1>2. call[c].reapply
  BY <1>1, Zenon DEF Cover, Returned
<1>3. Goto(c, "close")
  BY <1>0, <1>2, FailCall, Zenon DEF EnabledOnMasters
<1>4. call'[c].pc = "close" /\ call'[c].reapply = call[c].reapply
  BY <1>0, <1>3, GotoCall, Zenon DEF Becomes, Keeps
<1>5. ASSUME (Masters(owner) \subseteq Up)' PROVE Fresh' /\ Publishes'
  <2>1. Fresh' /\ Masters(owner) \subseteq Up /\ owner' = owner
    BY <1>1, <1>5, PastAsk, Zenon
  <2>2. \A k \in Masters(owner) : conf[k] = "KEx"
    BY <1>1, <2>1, Zenon DEF Cover
  <2> QED BY <2>1, <2>2, MastersNodes, Zenon DEF Publishes, Still
<1> QED BY <1>2, <1>4, <1>5, Zenon DEF Cover, Returned

\* The caller that closed the subscriptions is about to renew them.
LEMMA CloseCover ==
  ASSUME TypeInv, NEW c \in Callers, CloseSubscriptions(c), Still, Cover(c)
  PROVE  Cover(c)'
<1>0. call \in [Callers -> CallRec] /\ "subscribe" \in Pcs
  BY Zenon DEF TypeInv, ClientType, Pcs
<1>1. call[c].pc = "close" /\ call'[c].pc = "subscribe" /\ call'[c].reapply = call[c].reapply
  BY <1>0, GotoCall, Zenon DEF CloseSubscriptions, Becomes, Keeps
<1>2. call[c].reapply
  BY <1>1, Zenon DEF Cover, Returned
<1>3. \A m : c \in MaySubscribe(m)'
  BY <1>1, Zenon DEF MaySubscribe
<1>4. Coming'
  BY <1>3, Zenon DEF Coming
<1>5. ASSUME (Masters(owner) \subseteq Up)' PROVE Fresh' /\ Publishes'
  <2>1. Fresh' /\ Masters(owner) \subseteq Up /\ owner' = owner
    BY <1>1, <1>5, PastAsk, Zenon
  <2>2. Publishes
    BY <1>1, <2>1, Zenon DEF Cover
  <2> QED BY <2>1, <2>2, MastersNodes, Zenon DEF Publishes, Still
<1> QED BY <1>1, <1>2, <1>4, <1>5, Zenon DEF Cover, Returned

\* From the first subscription to the return.
LEMMA SubscribeCover ==
  ASSUME TypeInv, StartInv, [Next]_vars, NEW c \in Callers, Still, Cover(c),
         \/ ForEachMaster(c, "subscribe", "subscribing")
         \/ \E m \in Nodes : Subscribe(c, m)
         \/ Reinitialized(c)
  PROVE  Cover(c)'
<1>0. ClientType /\ ClusterType /\ call \in [Callers -> CallRec] /\ "subscribing" \in Pcs
  BY Zenon DEF TypeInv, ClientType, Pcs
<1>1. call[c].pc \in {"subscribe", "subscribing"}
  BY Zenon DEF ForEachMaster, Subscribe, Reinitialized
<1>2. call[c].reapply
  BY ZenonT(40), <1>1 DEF Cover, Returned
<1>3. (call'[c].pc = "subscribing" /\ call'[c].reapply) \/ (call'[c].pc = "out" /\ call'[c].won)
  <2>1. CASE ForEachMaster(c, "subscribe", "subscribing")
    BY <1>0, <1>2, <2>1, SweepCall, Zenon DEF Becomes, Keeps
  <2>2. ASSUME NEW m \in Nodes, Subscribe(c, m)
        PROVE  call'[c].pc = "subscribing" /\ call'[c].reapply
    BY <1>0, <1>2, <2>2, SubscribeCall, Zenon DEF Becomes, Keeps
  <2>3. CASE Reinitialized(c)
    BY <1>0, <2>3, ReturnCall, Zenon DEF Becomes
  <2> QED BY <2>1, <2>2, <2>3, Zenon
<1>4. ASSUME (Masters(owner) \subseteq Up)' PROVE Fresh' /\ Publishes' /\ (Coming \/ done)'
  <2>1. Fresh /\ Fresh' /\ Masters(owner) \subseteq Up /\ owner' = owner
    BY <1>1, <1>4, PastAsk, Zenon
  <2>2. Publishes /\ (Coming \/ done)
    BY <1>1, <2>1, Zenon DEF Cover
  <2>3. Publishes'
    BY ZenonT(40), <2>2, MastersNodes DEF Publishes, Still
  <2> QED BY <2>1, <2>2, <2>3, ComingStep, Zenon
<1> QED BY Zenon, <1>3, <1>4 DEF Cover, Returned

\* The call that moves.
LEMMA CoverMover ==
  ASSUME TypeInv, StartInv, KnowInv, CoverInv, [Next]_vars, Still, NEW c \in Callers, CallOf(c),
         call'[c].quiet
  PROVE  Cover(c)'
<1>0. call \in [Callers -> CallRec] /\ ClientType /\ ClusterType
      /\ {"reload", "enable", "enabling", "close", "subscribe", "subscribing"} \subseteq Pcs
  BY Zenon DEF TypeInv, ClientType, Pcs
<1>1. CASE CallInit(c)
  BY <1>0, <1>1, InitCall, Zenon
<1>2. CASE ReinitTopology(c)
  BY <1>2, AskBegins, Zenon
<1>3. CASE Initialized(c)
  BY ZenonT(40), <1>0, <1>3, FailCall DEF Initialized, Fail
<1>f. ASSUME NEW n \in Nodes, AskFails(c, n) \/ EnableFails(c, n) PROVE FALSE
  BY <1>0, <1>f, AskFailsCall, EnableFailsCall, Zenon
<1>q. CASE call[c].quiet
  <2>0. Cover(c)
    BY <1>q, Zenon DEF CoverInv
  <2>1. ASSUME NEW n \in Nodes, ClusterInfo(c, n) \/ ClusterNodes(c, n) PROVE Cover(c)'
    BY <2>0, <2>1, AskGoesOn, Zenon
  <2>2. CASE EnsureClusterSettled(c)
    BY <2>0, <2>2, SettledCover, Zenon
  <2>3. CASE ReloadState(c)
    BY <2>0, <2>3, ReloadCover, Zenon
  <2>4. CASE ForEachMaster(c, "enable", "enabling")
    BY <2>0, <2>4, SweepCover, Zenon
  <2>5. ASSUME NEW m \in Nodes, EnableKeyspaceNotifsOn(c, m) PROVE Cover(c)'
    BY <2>0, <2>5, EnableCover, Zenon
  <2>6. CASE EnabledOnMasters(c)
    BY <2>0, <2>6, EnabledCover, Zenon
  <2>7. CASE CloseSubscriptions(c)
    BY <2>0, <2>7, CloseCover, Zenon
  <2>8. CASE \/ ForEachMaster(c, "subscribe", "subscribing")
             \/ \E m \in Nodes : Subscribe(c, m)
             \/ Reinitialized(c)
    BY <2>0, <2>8, SubscribeCover, Zenon
  <2> QED BY <1>1, <1>2, <1>3, <1>f, <2>1, <2>2, <2>3, <2>4, <2>5, <2>6, <2>7, <2>8
          DEF CallOf, CallStep
<1>n. CASE ~call[c].quiet /\ CallStep(c) /\ ~Initialized(c)
  <2>1. ASSUME NEW n \in Nodes, ClusterInfo(c, n) \/ ClusterNodes(c, n) PROVE FALSE
    BY <1>n, <2>1, Zenon DEF ClusterInfo, ClusterNodes, Report
  <2>2. CASE EnsureClusterSettled(c)
    BY ZenonT(40), <1>0, <1>n, <2>2, FailCall, GotoCall DEF EnsureClusterSettled, Keeps
  <2>3. CASE ReloadState(c)
    BY ZenonT(40), <1>0, <1>n, <2>3, GotoCall DEF ReloadState, Keeps
  <2>4. CASE ForEachMaster(c, "enable", "enabling")
    BY ZenonT(40), <1>0, <1>n, <2>4, SweepCall DEF Keeps
  <2>5. ASSUME NEW m \in Nodes, EnableKeyspaceNotifsOn(c, m) PROVE FALSE
    BY Zenon, <1>0, <1>n, <2>5, EnableCall DEF Keeps
  <2>6. CASE EnabledOnMasters(c)
    <3>1. Fail(c) \/ Goto(c, "close") \/ Goto(c, "subscribe")
      BY <2>6, Zenon DEF EnabledOnMasters
    <3> QED BY Zenon, <1>0, <1>n, <3>1, FailCall, GotoCall DEF Keeps
  <2>7. CASE CloseSubscriptions(c)
    BY SMTT(30), <1>0, <1>n, <2>7, GotoCall DEF CloseSubscriptions, Keeps
  <2>8. CASE ForEachMaster(c, "subscribe", "subscribing")
    BY ZenonT(40), <1>0, <1>n, <2>8, SweepCall DEF Keeps
  <2>9. ASSUME NEW m \in Nodes, Subscribe(c, m) PROVE FALSE
    BY Zenon, <1>0, <1>n, <2>9, SubscribeCall DEF Keeps
  <2>10. CASE Reinitialized(c)
    BY <1>0, <1>n, <2>10, ReturnCall, Zenon
  <2> QED BY ZenonT(40), <1>n, <1>f, <2>1, <2>2, <2>3, <2>4, <2>5, <2>6, <2>7, <2>8, <2>9,
             <2>10 DEF CallStep
<1> QED BY <1>1, <1>2, <1>3, <1>q, <1>n, Zenon DEF CallOf

\* Every step keeps what undisturbed calls have achieved.
LEMMA CoverStep ==
  ASSUME TypeInv, StartInv, KnowInv, CoverInv, [Next]_vars
  PROVE  CoverInv'
<1> SUFFICES ASSUME NEW d \in Callers, call'[d].quiet PROVE Cover(d)'
  BY Zenon DEF CoverInv
<1>1. CASE Disturb
  BY <1>1, DisturbCall, Zenon DEF TypeInv, ClientType
<1>2. CASE Still /\ UNCHANGED <<call, reports>>
  BY <1>2, CoverOther, Zenon DEF CoverInv
<1>3. ASSUME Still, NEW c \in Callers, CallOf(c), Apart(c) PROVE Cover(d)'
  <2>1. CASE d = c
    BY <1>3, <2>1, CoverMover, Zenon
  <2>2. CASE d # c
    <3>1. call'[d] = call[d] /\ reports'[d] = reports[d]
      BY <1>3, <2>2, Zenon DEF Apart
    <3> QED BY <1>3, <3>1, CoverOther, Zenon DEF CoverInv
  <2> QED BY <2>1, <2>2, Zenon
<1> QED BY <1>1, <1>2, <1>3, ClusterSteps, Zenon

\* The invariants of the calls, and what undisturbed calls have achieved.
CoveredInv == CallsInv /\ KnowInv /\ CoverInv

\* The initial state satisfies the invariant.
LEMMA CoveredInit == Init => CoveredInv
<1> SUFFICES ASSUME Init PROVE CoveredInv
  BY Zenon
<1>1. CallsInv /\ TypeInv
  BY CallsInit, Zenon DEF CallsInv
<1>2. \A c \in Callers : ~call[c].quiet
  BY Zenon DEF Init, Idle
<1>3. KnowInv
  <2>1. PICK m : m \in Masters(owner) /\ m \in Nodes
    BY <1>1, MastersNodes, Zenon
  <2>2. view[m].owner = owner
    BY <2>1, Zenon DEF Init
  <2> QED BY <2>1, <2>2, Zenon DEF KnowInv
<1>4. CoverInv
  BY <1>2, Zenon DEF CoverInv
<1> QED BY <1>1, <1>3, <1>4, Zenon DEF CoveredInv

\* Every step preserves the invariant.
LEMMA CoveredStep == CoveredInv /\ [Next]_vars => CoveredInv'
  BY CallsStep, KnowStep, CoverStep, Zenon DEF CallsInv, CoveredInv

\* The invariant holds throughout.
LEMMA CoverInvariant == Spec => []CoveredInv
  BY CoveredInit, CoveredStep, PTL DEF Spec

\* The settled check is enough: a ReinitTopology that returned nil, during
\* which the ownership did not change, no node came back and none that is up
\* failed a command of it, leaves the client subscribed to every master,
\* whatever overlapped it.
THEOREM SuccessCovers == Spec => []CoveredAfterSuccess
<1>1. CoveredInv => CoveredAfterSuccess
  <2> SUFFICES ASSUME CoveredInv, ~done, \A c \in Callers : call[c].pc = "out",
                      NEW c \in Callers, call[c].won, call[c].quiet,
                      Masters(owner) \subseteq Up, NEW m \in Masters(owner)
               PROVE  Listening(m)
    BY Zenon DEF CoveredAfterSuccess, Covered
  <2>1. Publishes /\ Coming
    BY Zenon DEF CoveredInv, CoverInv, Cover, Returned
  <2>2. MaySubscribe(m) = {}
    BY Zenon DEF MaySubscribe
  <2> QED BY <2>1, <2>2, Zenon DEF Publishes, Coming, Listening
<1> QED BY <1>1, CoverInvariant, PTL
====
