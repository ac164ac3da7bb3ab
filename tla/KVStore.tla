------------------------------- MODULE KVStore -------------------------------
(***************************************************************************)
(* The two stores behind store.Store: Memory (store/memory.go), which the  *)
(* tests run on, and NATS (store/nats.go), which the service runs on, a    *)
(* JetStream key-value bucket that keeps one message for each key.  Both   *)
(* number their writes with one counter; a client keeps the revisions it   *)
(* was given for as long as it likes.                                      *)
(***************************************************************************)
EXTENDS Naturals

CONSTANTS
  Client, Key, Value,
  Missing,      \* no entry
  Purged,       \* the value of the marker that a purge leaves in NATS
  MaxRevision   \* bound: writes

ASSUME StoreAssumption ==
  /\ MaxRevision \in Nat
  /\ Missing \notin Value /\ Purged \notin Value
  /\ Missing \notin [value : Value \cup {Purged}, revision : 1 .. MaxRevision]

VARIABLES
  backend,   \* which of the two stores this is
  stored,    \* what the store holds for each key: an entry, a marker, or Missing
  revision,  \* the latest revision handed out: Memory.revision, the stream's sequence
  known,     \* the revision each client remembers of each key, 0 for none
  answer     \* the result of each client's latest call

vars == <<backend, stored, revision, known, answer>>

Entry == [value : Value \cup {Purged}, revision : 1 .. MaxRevision]
Present(k) == stored[k] # Missing /\ stored[k].value # Purged

Contract == INSTANCE StoreContract WITH
  value   <- [k \in Key |-> IF Present(k) THEN stored[k].value ELSE Missing],
  current <- [k \in Key |-> {c \in Client : Present(k) /\ known[c][k] = stored[k].revision}]

(* NewMemory, NewNATS: an empty bucket.                                    *)
Init ==
  /\ backend \in {"memory", "nats"}
  /\ stored = [k \in Key |-> Missing]
  /\ revision = 0
  /\ known = [c \in Client |-> [k \in Key |-> 0]]
  /\ answer = [c \in Client |-> "none"]

Returns(c, result) == answer' = [answer EXCEPT ![c] = result]
Fails(c, result) == Returns(c, result) /\ UNCHANGED <<stored, revision, known>>

(* A mutant: revisions count the writes of one key since its creation.     *)
PutNumberedByKey(k, v) ==
  LET r == IF Present(k) THEN stored[k].revision + 1 ELSE 1 IN
  /\ revision < MaxRevision
  /\ revision' = revision + 1
  /\ stored' = [stored EXCEPT ![k] = [value |-> v, revision |-> r]]

(* Every write, a purge in NATS included, takes a new revision.            *)
Put(k, v) ==
  /\ revision < MaxRevision
  /\ revision' = revision + 1
  /\ stored' = [stored EXCEPT ![k] = [value |-> v, revision |-> revision + 1]]

Remember(c, k, r) == known' = [known EXCEPT ![c][k] = r]

(* A mutant: a client cannot tell a purge from a write.                    *)
RemoveReturningRevision(c, k) ==
  \/ /\ backend = "memory"
     /\ stored' = [stored EXCEPT ![k] = Missing]
     /\ UNCHANGED <<revision, known>>
  \/ backend = "nats" /\ Put(k, Purged) /\ Remember(c, k, revision')

(* Memory forgets the entry; NATS keeps a marker, whose revision nobody is *)
(* told.                                                                   *)
Remove(c, k) ==
  \/ /\ backend = "memory"
     /\ stored' = [stored EXCEPT ![k] = Missing]
     /\ UNCHANGED <<revision, known>>
  \/ backend = "nats" /\ Put(k, Purged) /\ UNCHANGED known

Get(c, k) ==
  \/ Present(k) /\ Remember(c, k, stored[k].revision) /\ Returns(c, "done") /\ UNCHANGED <<stored, revision>>
  \/ ~ Present(k) /\ Fails(c, "missing")

(* Memory.List is one step.  NATS.List is a Get for each key it was told   *)
(* of, with other calls between them.                                      *)
List(c) ==
  /\ backend = "memory"
  /\ known' = [known EXCEPT ![c] = [k \in Key |-> IF Present(k) THEN stored[k].revision ELSE @[k]]]
  /\ Returns(c, "done")
  /\ UNCHANGED <<stored, revision>>

(* In NATS a marker does not stand in the way of a creation.               *)
Create(c, k, v) ==
  \/ ~ Present(k) /\ Put(k, v) /\ Remember(c, k, revision') /\ Returns(c, "done")
  \/ Present(k) /\ Fails(c, "exists")

(* The test of Update and DeleteRevision.  The callers pass revisions they *)
(* were given.  Memory looks for the key first; NATS compares with the     *)
(* revision of whatever it holds, a marker included.                       *)
Matches(c, k) == stored[k] # Missing /\ stored[k].revision = known[c][k]

Mismatch(c, k) ==
  /\ known[c][k] # 0
  /\ ~ Matches(c, k)
  /\ Fails(c, IF backend = "memory" /\ stored[k] = Missing THEN "missing" ELSE "conflict")

Update(c, k, v) ==
  \/ Matches(c, k) /\ Put(k, v) /\ Remember(c, k, revision') /\ Returns(c, "done")
  \/ Mismatch(c, k)

DeleteRevision(c, k) ==
  \/ Matches(c, k) /\ Remove(c, k) /\ Returns(c, "done")
  \/ Mismatch(c, k)

(* A purge of a key that is not there is no error in NATS.                 *)
Delete(c, k) ==
  \/ (Present(k) \/ backend = "nats") /\ Remove(c, k) /\ Returns(c, "done")
  \/ backend = "memory" /\ ~ Present(k) /\ Fails(c, "missing")

Next ==
  /\ \E c \in Client :
       \/ List(c)
       \/ \E k \in Key :
            \/ Get(c, k)
            \/ Delete(c, k)
            \/ DeleteRevision(c, k)
            \/ \E v \in Value : Create(c, k, v) \/ Update(c, k, v)
  /\ UNCHANGED backend

Spec == Init /\ [][Next]_vars

-----------------------------------------------------------------------------
(* Every variable has its type.                                            *)
TypeOK ==
  /\ backend \in {"memory", "nats"}
  /\ stored \in [Key -> Entry \cup {Missing}]
  /\ revision \in 0 .. MaxRevision
  /\ known \in [Client -> [Key -> 0 .. MaxRevision]]
  /\ answer \in [Client -> Contract!Answer]

(* No revision is given out twice, and no client holds that of a marker:   *)
(* why an old revision never matches a key that was deleted and created    *)
(* again (access/recovery.go:74 "An old response can never delete a new    *)
(* slot generation").                                                      *)
RevisionsOK ==
  \A k \in Key :
    /\ \A c \in Client : known[c][k] <= revision
    /\ stored[k] # Missing => stored[k].revision <= revision
    /\ \A c \in Client : stored[k] # Missing /\ stored[k].value = Purged
         => known[c][k] < stored[k].revision

(* Both stores keep the contract, under every interleaving of calls.       *)
KeepsContract == Contract!Spec
=============================================================================
