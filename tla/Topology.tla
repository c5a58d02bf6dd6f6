------------------------------ MODULE Topology ------------------------------
(***************************************************************************)
(* Keyspace notifications in ClusterModeOSS.  A client enables them on     *)
(* every master and subscribes there, in Init and again in ReinitTopology, *)
(* which first asks all nodes whether the cluster is settled.  Meanwhile   *)
(* slots move, masters fail over, nodes go down and come back with the     *)
(* view they had, and other goroutines call ReinitTopology or Done.        *)
(***************************************************************************)
EXTENDS Integers, FiniteSets

CONSTANTS
  Nodes,          \* the nodes of the cluster, masters and replicas
  Slots,          \* the hash slots
  InitialOwner,   \* InitialOwner[s]: the master that serves s at first
  Foreign,        \* nodes that may carry keyspace config of another application
  ForceOverride,  \* forceOverrideConfig
  Callers,        \* goroutines that call Init and ReinitTopology
  MaxChanges      \* bound on node failures, failovers, slot moves and failed commands

ASSUME TopologyAssumption ==
  /\ Slots # {} /\ InitialOwner \in [Slots -> Nodes]
  /\ Foreign \subseteq Nodes /\ ForceOverride \in BOOLEAN
  /\ IsFiniteSet(Callers) /\ MaxChanges \in Nat

VARIABLES
  owner,     \* owner[s]: the master that serves slot s
  view,      \* view[n]: slot ownership and cluster_state as node n sees them
  down,      \* nodes that do not answer
  conf,      \* conf[n]: notify-keyspace-events of n, "" when not set
  changes,   \* the changes of the cluster so far
  pubSubs,   \* pubSubs[n]: how many open subscriptions of oss are on n
  known,     \* slot ownership as last loaded by the cluster client
  reports,   \* reports[c][n]: what n told the ensureClusterSettled call of c
  call,      \* call[c]: where c is, and what its last call returned
  inited,    \* "new", "called", or "ready" once Init has returned successfully
  done       \* Done has been called

cluster == <<owner, view, down, changes>>
client == <<pubSubs, known, reports, call, inited, done>>
vars == <<cluster, conf, client>>

Masters(o) == {o[s] : s \in Slots}
Up == Nodes \ down

Unasked == [at |-> "unasked", ok |-> FALSE, slots |-> <<>>]
\* quiet: since the call began the ownership is the same, no node came back and
\* no node that is up failed a command of the call.
Idle == [pc |-> "out", reapply |-> FALSE, todo |-> {}, succeeded |-> 0,
         refused |-> FALSE, won |-> FALSE, quiet |-> FALSE]

Init ==
  /\ owner = InitialOwner
  /\ view = [n \in Nodes |-> [owner |-> InitialOwner, ok |-> TRUE]]
  /\ down = {} /\ changes = 0
  /\ \E F \in SUBSET Foreign : conf = [n \in Nodes |-> IF n \in F THEN "other" ELSE ""]
  /\ pubSubs = [n \in Nodes |-> 0]
  /\ known = InitialOwner
  /\ reports = [c \in Callers |-> [n \in Nodes |-> Unasked]]
  /\ call = [c \in Callers |-> Idle]
  /\ inited = "new" /\ done = FALSE

(***************************************************************************)
(* The cluster.  A change of ownership is known at once to the nodes that  *)
(* make it and reaches the others by gossip.                               *)
(***************************************************************************)
View(o) == [owner |-> o, ok |-> Masters(o) \subseteq Up]

Disturb == call' = [c \in Callers |-> [call[c] EXCEPT !.quiet = FALSE]]

Change(o, knowing) ==
  /\ changes < MaxChanges
  /\ owner' = o
  /\ view' = [n \in Nodes |-> IF n \in knowing THEN View(o) ELSE view[n]]
  /\ changes' = changes + 1
  /\ Disturb
  /\ UNCHANGED <<down, conf, pubSubs, known, reports, inited, done>>

\* A replica m takes over the slots of the master o, dead or alive.
Failover(o, m) ==
  /\ o \in Masters(owner) /\ m \in Up \ Masters(owner)
  /\ Change([s \in Slots |-> IF owner[s] = o THEN m ELSE owner[s]], {m})

\* A slot moves to another master, or to a node that becomes one.
Reshard(s, m) ==
  /\ {owner[s], m} \subseteq Up /\ m # owner[s]
  /\ Change([owner EXCEPT ![s] = m], {owner[s], m})

NodeDown(n) ==
  /\ n \in Up /\ changes < MaxChanges
  /\ down' = down \cup {n}
  /\ changes' = changes + 1
  /\ UNCHANGED <<owner, view, conf, client>>

\* Config set with CONFIG SET survives a partition but not a restart.
NodeUp(n) ==
  /\ n \in down
  /\ down' = down \ {n}
  /\ \E v \in {"", conf[n]} : conf' = [conf EXCEPT ![n] = v]
  /\ Disturb
  /\ UNCHANGED <<owner, view, changes, pubSubs, known, reports, inited, done>>

Gossip(n) ==
  /\ n \in Up /\ view[n] # View(owner)
  /\ view' = [view EXCEPT ![n] = View(owner)]
  /\ UNCHANGED <<owner, down, changes, conf, client>>

ClusterStep ==
  \/ \E o, m \in Nodes : Failover(o, m)
  \/ \E s \in Slots, m \in Nodes : Reshard(s, m)
  \/ \E n \in Nodes : NodeDown(n) \/ NodeUp(n) \/ Gossip(n)

(***************************************************************************)
(* ensureClusterSettled: two commands on every node, all nodes at once.    *)
(***************************************************************************)
Goto(c, pc) == call' = [call EXCEPT ![c].pc = pc]

Fail(c) == call' = [call EXCEPT ![c] = Idle]

Report(c, n, r) ==
  /\ reports' = [reports EXCEPT ![c][n] = IF n \in Up THEN r ELSE [Unasked EXCEPT !.at = "err"]]
  /\ UNCHANGED <<cluster, conf, pubSubs, known, call, inited, done>>

CommandFails(n) ==
  /\ n \in Up /\ changes < MaxChanges
  /\ changes' = changes + 1
  /\ UNCHANGED <<owner, view, down, pubSubs, known, inited, done>>

\* Mutant: nothing is done while the client has a subscription.
ReinitTopologySkips(c) ==
  /\ inited = "ready" /\ ~done /\ \A n \in Nodes : pubSubs[n] = 0
  /\ call[c].pc = "out"
  /\ call' = [call EXCEPT ![c] = [Idle EXCEPT !.pc = "ask", !.reapply = TRUE, !.quiet = TRUE]]
  /\ UNCHANGED <<cluster, conf, pubSubs, known, reports, inited, done>>

ReinitTopology(c) ==
  /\ inited = "ready" /\ ~done
  /\ call[c].pc = "out"
  /\ call' = [call EXCEPT ![c] = [Idle EXCEPT !.pc = "ask", !.reapply = TRUE, !.quiet = TRUE]]
  /\ UNCHANGED <<cluster, conf, pubSubs, known, reports, inited, done>>

ClusterInfo(c, n) ==
  /\ call[c].pc = "ask" /\ reports[c][n].at = "unasked"
  /\ Report(c, n, [Unasked EXCEPT !.at = "info", !.ok = view[n].ok])

\* Who owns which slots; nodes without slots are left out.
SlotOwnership(o) == [m \in Masters(o) |-> {s \in Slots : o[s] = m}]

ClusterNodes(c, n) ==
  /\ call[c].pc = "ask" /\ reports[c][n].at = "info"
  /\ Report(c, n, [reports[c][n] EXCEPT !.at = "answered", !.slots = SlotOwnership(view[n].owner)])

\* A node that is up fails one of the two commands; it is left out, like one
\* that is down.
AskFails(c, n) ==
  /\ call[c].pc = "ask" /\ reports[c][n].at \in {"unasked", "info"}
  /\ CommandFails(n)
  /\ reports' = [reports EXCEPT ![c][n] = [Unasked EXCEPT !.at = "err"]]
  /\ call' = [call EXCEPT ![c].quiet = FALSE]
  /\ UNCHANGED conf

\* Mutant: the nodes' ownership is not compared.
SettledStateOnly(reps) ==
  LET answered == {n \in Nodes : reps[n].at = "answered"}
  IN  answered # {} /\ \A n \in answered : reps[n].ok

EvaluateSettled(reps) ==
  LET answered == {n \in Nodes : reps[n].at = "answered"}
  IN  /\ answered # {}
      /\ \A n \in answered : reps[n].ok
      /\ \A m, n \in answered : reps[m].slots = reps[n].slots

\* Mutant: the reports of an earlier call are still there.
EnsureSettledKeeps(c) ==
  /\ call[c].pc = "ask"
  /\ \A n \in Nodes : reports[c][n].at \in {"answered", "err"}
  /\ IF EvaluateSettled(reports[c]) THEN Goto(c, "reload") ELSE Fail(c)
  /\ UNCHANGED <<cluster, conf, pubSubs, known, reports, inited, done>>

EnsureClusterSettled(c) ==
  /\ call[c].pc = "ask"
  /\ \A n \in Nodes : reports[c][n].at \in {"answered", "err"}
  /\ IF EvaluateSettled(reports[c]) THEN Goto(c, "reload") ELSE Fail(c)
  /\ reports' = [reports EXCEPT ![c] = [n \in Nodes |-> Unasked]]
  /\ UNCHANGED <<cluster, conf, pubSubs, known, inited, done>>

(***************************************************************************)
(* The cluster client loads the topology from a node that answers, and     *)
(* keeps the one it has when none does.                                    *)
(***************************************************************************)
Load == known' \in (IF Up = {} THEN {known} ELSE {view[n].owner : n \in Up})

\* Mutant: the subscriptions are torn down before the masters are set up.
ReloadStateCloses(c) ==
  /\ call[c].pc = "reload"
  /\ Load
  /\ pubSubs' = [n \in Nodes |-> 0]
  /\ Goto(c, "enable")
  /\ UNCHANGED <<cluster, conf, reports, inited, done>>

ReloadState(c) ==
  /\ call[c].pc = "reload"
  /\ Load
  /\ Goto(c, "enable")
  /\ UNCHANGED <<cluster, conf, pubSubs, reports, inited, done>>

ForEachMaster(c, at, callback) ==
  /\ call[c].pc = at
  /\ Load
  /\ call' = [call EXCEPT ![c].pc = callback, ![c].todo = Masters(known')]
  /\ UNCHANGED <<cluster, conf, pubSubs, reports, inited, done>>

(***************************************************************************)
(* enableKeyspaceNotifsOnMasters, and what Init and ReinitTopology do with *)
(* its result.                                                             *)
(***************************************************************************)
\* An application calls Init once, and gives up when it fails.
CallInit(c) ==
  /\ inited = "new"
  /\ inited' = "called"
  /\ call' = [call EXCEPT ![c] = [Idle EXCEPT !.pc = "enable"]]
  /\ UNCHANGED <<cluster, conf, pubSubs, known, reports, done>>

Conflict(c, m) == conf[m] # "" /\ ~ForceOverride /\ ~call[c].reapply

EnableKeyspaceNotifsOn(c, m) ==
  /\ call[c].pc = "enabling" /\ m \in call[c].todo
  /\ LET rest == [call[c] EXCEPT !.todo = @ \ {m}] IN
     \/ /\ m \in down
        /\ call' = [call EXCEPT ![c] = rest]
        /\ UNCHANGED conf
     \/ /\ m \in Up /\ Conflict(c, m)
        /\ call' = [call EXCEPT ![c] = [rest EXCEPT !.refused = TRUE]]
        /\ UNCHANGED conf
     \/ /\ m \in Up /\ ~Conflict(c, m)
        /\ call' = [call EXCEPT ![c] = [rest EXCEPT !.succeeded = @ + 1]]
        /\ conf' = [conf EXCEPT ![m] = "KEx"]
  /\ UNCHANGED <<cluster, pubSubs, known, reports, inited, done>>

\* A master that is up fails CONFIG GET or CONFIG SET, or its reply to the
\* latter is lost.  The sweep goes on without it.
EnableFails(c, m) ==
  /\ call[c].pc = "enabling" /\ m \in call[c].todo
  /\ CommandFails(m)
  /\ call' = [call EXCEPT ![c].todo = @ \ {m}, ![c].quiet = FALSE]
  /\ UNCHANGED conf \/ (~Conflict(c, m) /\ conf' = [conf EXCEPT ![m] = "KEx"])
  /\ UNCHANGED reports

EnabledOnMasters(c) ==
  /\ call[c].pc = "enabling" /\ call[c].todo = {}
  /\ IF call[c].refused \/ call[c].succeeded = 0
       THEN Fail(c)
       ELSE Goto(c, IF call[c].reapply THEN "close" ELSE "subscribe")
  /\ UNCHANGED <<cluster, conf, pubSubs, known, reports, inited, done>>

(***************************************************************************)
(* closeAll and subscribeToExpiredEventsOSS, each under the mutex of oss   *)
(* for one call only.                                                      *)
(***************************************************************************)
\* Mutant: the set is rebuilt without closing what it held.
CloseAllForgotten == UNCHANGED pubSubs

CloseAll == pubSubs' = [n \in Nodes |-> 0]

CloseSubscriptions(c) ==
  /\ call[c].pc = "close"
  /\ CloseAll
  /\ Goto(c, "subscribe")
  /\ UNCHANGED <<cluster, conf, known, reports, inited, done>>

Subscribe(c, m) ==
  /\ call[c].pc = "subscribing" /\ m \in call[c].todo
  /\ pubSubs' = [pubSubs EXCEPT ![m] = @ + 1]
  /\ call' = [call EXCEPT ![c].todo = @ \ {m}]
  /\ UNCHANGED <<cluster, conf, known, reports, inited, done>>

Reinitialized(c) ==
  /\ call[c].pc = "subscribing" /\ call[c].todo = {} /\ call[c].reapply
  /\ call' = [call EXCEPT ![c] = [Idle EXCEPT !.won = TRUE, !.quiet = call[c].quiet]]
  /\ UNCHANGED <<cluster, conf, pubSubs, known, reports, inited, done>>

\* Init ends by creating the consumer group, and fails when that fails.
Initialized(c) ==
  /\ call[c].pc = "subscribing" /\ call[c].todo = {} /\ ~call[c].reapply
  /\ inited' \in {"ready", "called"}
  /\ call' = [call EXCEPT ![c] = Idle]
  /\ UNCHANGED <<cluster, conf, pubSubs, known, reports, done>>

\* What Done, through cleanup, does to the subscriptions.
Done ==
  /\ inited = "ready" /\ ~done
  /\ done' = TRUE
  /\ CloseAll
  /\ UNCHANGED <<cluster, conf, known, reports, call, inited>>

CallStep(c) ==
  \/ \E n \in Nodes : ClusterInfo(c, n) \/ ClusterNodes(c, n) \/ AskFails(c, n)
  \/ EnsureClusterSettled(c)
  \/ ReloadState(c)
  \/ ForEachMaster(c, "enable", "enabling")
  \/ \E m \in Nodes : EnableKeyspaceNotifsOn(c, m) \/ EnableFails(c, m) \/ Subscribe(c, m)
  \/ EnabledOnMasters(c)
  \/ CloseSubscriptions(c)
  \/ ForEachMaster(c, "subscribe", "subscribing")
  \/ Reinitialized(c)
  \/ Initialized(c)

Next ==
  \/ ClusterStep
  \/ \E c \in Callers : CallInit(c) \/ ReinitTopology(c) \/ CallStep(c)
  \/ Done

Spec == Init /\ [][Next]_vars

\* Calls go on, gossip arrives, a dead node that still owns slots comes back
\* unless it is failed over, and the application calls ReinitTopology again
\* and again.
FairSpec ==
  /\ Spec
  /\ \A c \in Callers : WF_vars(CallStep(c)) /\ WF_vars(ReinitTopology(c))
  /\ \A n \in Nodes : WF_vars(Gossip(n)) /\ WF_vars(n \in down /\ n \in Masters(owner) /\ NodeUp(n))
-----------------------------------------------------------------------------
Ownerships == [Slots -> Nodes]
Pcs == {"out", "ask", "reload", "enable", "enabling", "close", "subscribe", "subscribing"}

\* Every structure keeps its shape, and reports exist only while nodes are
\* being asked.
TypeOK ==
  /\ {owner, known} \subseteq Ownerships
  /\ view \in [Nodes -> [owner : Ownerships, ok : BOOLEAN]]
  /\ down \subseteq Nodes
  /\ conf \in [Nodes -> {"", "other", "KEx"}]
  /\ changes \in 0 .. MaxChanges
  /\ pubSubs \in [Nodes -> Nat]
  /\ \A c \in Callers :
       /\ call[c].pc \in Pcs /\ call[c].todo \subseteq Nodes
       /\ call[c].succeeded \in Nat
       /\ {call[c].reapply, call[c].refused, call[c].won, call[c].quiet} \subseteq BOOLEAN
       /\ call[c].pc # "ask" => \A n \in Nodes : reports[c][n] = Unasked
  /\ inited \in {"new", "called", "ready"} /\ done \in BOOLEAN

Listening(m) == pubSubs[m] >= 1 /\ conf[m] = "KEx"

Covered == \A m \in Masters(owner) : Listening(m)

\* ReinitTopology replaces subscriptions instead of stacking them: however
\* often it is called, a node never has more subscriptions than there are
\* goroutines that call it (one, for one caller).
SubscriptionsBounded == \A n \in Nodes : pubSubs[n] <= Cardinality(Callers)

\* A ReinitTopology that fails, at whichever step, leaves the client its
\* subscriptions: a client between Init and Done is without any only while a
\* call is rebuilding them.
NeverDeaf ==
  inited = "ready" /\ ~done /\ (\A c \in Callers : call[c].pc \notin {"subscribe", "subscribing"})
    => \E n \in Nodes : pubSubs[n] >= 1

\* What the settled check is for: after a ReinitTopology that returned nil
\* the client is subscribed to every current master, and each publishes
\* expiries, unless since the call began the ownership changed, a node came
\* back, or one that is up failed a command of the call, which the code
\* tolerates.  A stale node, or one that is down, does not mislead it.
CoveredAfterSuccess ==
  /\ ~done
  /\ \A c \in Callers : call[c].pc = "out"
  /\ \E c \in Callers : call[c].won /\ call[c].quiet
  /\ Masters(owner) \subseteq Up
  => Covered

\* The settled check does not refuse for ever: when the cluster stops changing
\* and the application retries, the client gets to listen to all masters,
\* also when a node without slots stays dead.
EventuallyCovered == [](inited = "ready" => <>(Covered \/ done))
=============================================================================
