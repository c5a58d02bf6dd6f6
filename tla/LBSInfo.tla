------------------------------ MODULE LBSInfo ------------------------------
(***************************************************************************)
(* The lock key of an LBS entry and what a keyspace event tells of it.  A  *)
(* string is the sequence of its parts between separators (MutexKeySep): a *)
(* stream name is usually one part, but nothing keeps the separator out of *)
(* it.  The ID that Redis gives to an entry is always one part.            *)
(***************************************************************************)
EXTENDS Sequences, Naturals

KeySpacePrefix == "__keyspace@0__:"
ExpiredPayload == "expired"

FormMutexKey(info) == Append(info.DataStreamName, info.IDInLBS)

\* The channel of an event on a key.
KspChannel(key) == <<KeySpacePrefix>> \o key

\* The key, or the empty set for a channel that is none of a keyspace event.
extractStreamnameFromKspChannel(channel) ==
  {Tail(c) : c \in {c \in {channel} : Head(c) = KeySpacePrefix}}

\* Mutant: the number of parts is not checked.
CreateFromFirstParts(key, payload) ==
  {[DataStreamName |-> <<k[1]>>, IDInLBS |-> k[2]] :
     k \in {k \in {key} : payload = ExpiredPayload}}

CreateByKspNotification(key, payload) ==
  {[DataStreamName |-> <<k[1]>>, IDInLBS |-> k[2]] :
     k \in {k \in {key} : payload = ExpiredPayload /\ Len(k) = 2}}
=============================================================================
