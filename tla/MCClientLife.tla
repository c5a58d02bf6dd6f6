---------------------------- MODULE MCClientLife ----------------------------
(***************************************************************************)
(* An instance of ClientLife: options the application may pass, accepted   *)
(* and refused ones, alone and one after the other.                        *)
(***************************************************************************)
EXTENDS ClientLife

MCSenders == -1 .. MaxEntries

\* A plain stream name, and one that contains the separator.
MCOthers ==
  {[DataStreamName |-> <<"orders">>, IDInLBS |-> "5-0"],
   [DataStreamName |-> <<"orders", "eu">>, IDInLBS |-> "6-0"]}

MCRetry(m, i, x) == [MaxRetries |-> m, InitialRetryDelay |-> i, MaxRetryDelay |-> x]

MCDefaults ==
  [retry |-> MCRetry(2, 2, 3),
   recovery |-> [ReconciliationInterval |-> 20, MinIdleTime |-> 10, BatchSize |-> 2,
                 MaxRetries |-> 1, DLQStream |-> NoName, DLQMaxLen |-> 3],
   lbsIdleTime |-> 40, lbsRecoveryCount |-> 5,
   kspChanSize |-> 1, kspChanTimeout |-> 600, outputChanSize |-> 1,
   forceOverrideConfig |-> FALSE, clusterMode |-> "SingleShard"]

MCRetries == {MCRetry(-1, 1, 3), MCRetry(0, 2, 2), MCRetry(1, 3, 2), MCRetry(-2, 1, 2), MCRetry(1, 0, 2)}

MCSetters ==
  {[field |-> "ReconciliationInterval", value |-> v] : v \in {0, 10, 35}}
    \cup {[field |-> f, value |-> v] : f \in {"MinIdleTime", "BatchSize", "MaxRetries", "DLQMaxLen"}, v \in {-1, 0, 1}}
    \cup {[field |-> "DLQStream", value |-> v] : v \in {NoName, "dead"}}

\* A recovery configuration from the builder, or one written by hand.
MCRecoveries ==
  UNION {Build(<<a, b>>) : a, b \in MCSetters}
    \cup {[MCDefaults.recovery EXCEPT !.ReconciliationInterval = v] : v \in {-5, 9}}
    \cup {[MCDefaults.recovery EXCEPT !.BatchSize = 0]}

MCOptions ==
  {[field |-> "retry", value |-> v] : v \in MCRetries}
    \cup {[field |-> "recovery", value |-> v] : v \in MCRecoveries}
    \cup {[field |-> "lbsIdleTime", value |-> v] : v \in {0, 3, 4}}
    \cup {[field |-> "kspChanTimeout", value |-> v] : v \in {59, 60}}
    \cup {[field |-> f, value |-> v] : f \in {"lbsRecoveryCount", "kspChanSize", "outputChanSize"}, v \in {0, 1}}
    \cup {[field |-> "forceOverrideConfig", value |-> TRUE], [field |-> "clusterMode", value |-> "OSS"]}

MCOptionLists == {<<>>} \cup {<<a>> : a \in MCOptions} \cup {<<a, b>> : a, b \in MCOptions}

\* A client with the default settings, and one that retries without limit.
MCDefault == NewRedisStreamClient(TRUE, <<>>)
MCUnlimited == NewRedisStreamClient(TRUE, <<[field |-> "retry", value |-> MCRetry(-1, 1, 3)]>>)

\* An event while extending the lock fails; faults of every kind on one entry;
\* failing reads; two entries, of which one may not be locked or finished; a
\* full kspChan; failing reads without a limit.
MCLives ==
  {[client |-> MCDefault, entries |-> 1, events |-> 1, faults |-> {"extend"}],
   [client |-> MCDefault, entries |-> 1, events |-> 0, faults |-> {"lock", "extend", "finish", "unsubscribe"}],
   [client |-> MCDefault, entries |-> 1, events |-> 0, faults |-> {"read", "finish", "unsubscribe"}],
   [client |-> MCDefault, entries |-> 2, events |-> 0, faults |-> {"lock", "finish"}],
   [client |-> MCDefault, entries |-> 0, events |-> 2, faults |-> {"unsubscribe"}],
   [client |-> MCUnlimited, entries |-> 1, events |-> 0, faults |-> {"read"}]}

\* One entry, and nothing fails.
MCQuiet == {[client |-> MCDefault, entries |-> 1, events |-> 0, faults |-> {}]}
=============================================================================
