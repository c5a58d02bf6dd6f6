---------------------------- MODULE ClientConfig ----------------------------
(***************************************************************************)
(* How a client is configured: the defaults, the options that             *)
(* NewRedisStreamClient applies in order, what Validate accepts, and the   *)
(* two delays that are computed from the configuration.  A duration is a   *)
(* number of nanoseconds; the defaults are scaled down in the instances.   *)
(* A width does not matter: a delay that doubles up to 2^62 has been       *)
(* waited for.                                                             *)
(***************************************************************************)
EXTENDS Integers, Sequences, FiniteSetsExt

CONSTANTS
  Defaults,   \* the default configuration of a client, a record
  HBInterval, \* the heartbeat interval
  Minute      \* time.Minute

(***************************************************************************)
(* RetryConfig and RecoveryConfig.                                         *)
(***************************************************************************)
RetryConfig == [MaxRetries : Int, InitialRetryDelay : Int, MaxRetryDelay : Int]

RecoveryConfig ==
  [ReconciliationInterval : Int, MinIdleTime : Int, BatchSize : Int, MaxRetries : Int,
   DLQStream : STRING, DLQMaxLen : Int]

RetryConfigValidate(rc) ==
  /\ rc.MaxRetries >= -1
  /\ rc.InitialRetryDelay > 0 /\ rc.MaxRetryDelay > 0
  /\ rc.InitialRetryDelay <= rc.MaxRetryDelay

RecoveryConfigValidate(rc) ==
  /\ rc.ReconciliationInterval > 0 /\ rc.MinIdleTime > 0
  /\ rc.BatchSize > 0
  /\ rc.MaxRetries >= 0 /\ rc.DLQMaxLen >= 0

ASSUME ConfigAssumption ==
  /\ HBInterval \in Nat \ {0} /\ Minute \in Nat \ {0}
  /\ {"retry", "recovery"} \subseteq DOMAIN Defaults
  /\ Defaults.retry \in RetryConfig /\ RetryConfigValidate(Defaults.retry)
  /\ Defaults.recovery \in RecoveryConfig /\ RecoveryConfigValidate(Defaults.recovery)

\* Folds a sequence from its first element on.
FoldInOrder(op(_, _), base, seq) ==
  MapThenFoldSet(LAMBDA x, acc : op(acc, x), base, LAMBDA n : seq[n], Max, DOMAIN seq)

\* The builder starts from the defaults; each setter replaces one field, and
\* Build validates the result.  A failed call returns the empty set.
Build(setters) ==
  LET cfg == FoldInOrder(LAMBDA c, s : [c EXCEPT ![s.field] = s.value], Defaults.recovery, setters)
  IN {c \in {cfg} : RecoveryConfigValidate(c)}

(***************************************************************************)
(* The options.  One that is refused leaves no client.                     *)
(***************************************************************************)
\* Mutant: WithRecoveryConfig does not validate.
OptionAcceptedUnchecked(o) ==
  CASE o.field = "lbsIdleTime" -> o.value # 0 /\ o.value >= 2 * HBInterval
    [] o.field = "kspChanTimeout" -> o.value >= Minute
    [] o.field \in {"lbsRecoveryCount", "kspChanSize", "outputChanSize"} -> o.value > 0
    [] o.field = "retry" -> RetryConfigValidate(o.value)
    [] o.field \in {"recovery", "forceOverrideConfig", "clusterMode"} -> TRUE

OptionAccepted(o) ==
  CASE o.field = "lbsIdleTime" -> o.value # 0 /\ o.value >= 2 * HBInterval
    [] o.field = "kspChanTimeout" -> o.value >= Minute
    [] o.field \in {"lbsRecoveryCount", "kspChanSize", "outputChanSize"} -> o.value > 0
    [] o.field = "retry" -> RetryConfigValidate(o.value)
    [] o.field = "recovery" -> RecoveryConfigValidate(o.value)
    [] o.field \in {"forceOverrideConfig", "clusterMode"} -> TRUE

Apply(clients, o) == {[r EXCEPT ![o.field] = o.value] : r \in {r \in clients : OptionAccepted(o)}}

NoName == ""

\* The dead-letter stream of a client that was given none.
WithDLQ(r) ==
  IF r.recovery.DLQStream = NoName THEN [r EXCEPT !.recovery.DLQStream = "lbs-dlq"] ELSE r

\* pod: the name or the address of the pod is set in the environment.
NewRedisStreamClient(pod, opts) ==
  {WithDLQ(r) : r \in FoldInOrder(Apply, IF pod THEN {Defaults} ELSE {}, opts)}

(***************************************************************************)
(* The delays.                                                             *)
(***************************************************************************)
\* Mutant: the cap is forgotten.
NextDelayUncapped(retry, delay) == 2 * delay

\* readLBSStream: the delay after the next failure.
NextDelay(retry, delay) == IF 2 * delay > retry.MaxRetryDelay THEN retry.MaxRetryDelay ELSE 2 * delay

\* The delays nextReconciliationDelay may return: the jitter is drawn below a
\* tenth of the interval, truncated; there is none to draw below 0.
nextReconciliationDelay(interval) ==
  LET base == IF interval <= 0 THEN Defaults.recovery.ReconciliationInterval ELSE interval
  IN {base + jitter : jitter \in 0 .. (base \div 10) - 1}
=============================================================================
