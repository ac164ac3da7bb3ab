---------------------------- MODULE KVStoreProofs ----------------------------
(***************************************************************************)
(* Both stores keep the contract the access service is modelled on, for    *)
(* any number of clients, keys and values.                                 *)
(***************************************************************************)
EXTENDS KVStore, TLAPS

Inv == TypeOK /\ RevisionsOK

(* A write takes a revision above every one that is known.                 *)
LEMMA PutInv ==
  ASSUME Inv, NEW k \in Key, NEW v \in Value \cup {Purged}, Put(k, v)
  PROVE  /\ revision' = revision + 1 /\ revision' \in 1 .. MaxRevision
         /\ stored' \in [Key -> Entry \cup {Missing}]
         /\ stored'[k] # Missing /\ stored'[k].value = v /\ stored'[k].revision = revision'
         /\ \A j \in Key : j # k => stored'[j] = stored[j]
<1>1. revision \in 0 .. MaxRevision /\ stored \in [Key -> Entry \cup {Missing}]
  BY DEF Inv, TypeOK
<1>2. revision + 1 \in 1 .. MaxRevision
  BY <1>1, StoreAssumption DEF Put
<1>3. [value |-> v, revision |-> revision + 1] \in Entry
  BY <1>2 DEF Entry
<1> QED
  BY <1>1, <1>2, <1>3, StoreAssumption DEF Put, Entry

(* The store starts empty.                                                 *)
LEMMA StoreInitInv == ASSUME Init PROVE Inv
BY StoreAssumption DEF Init, Inv, TypeOK, RevisionsOK, Contract!Answer

(* A call preserves the invariant: it changes the revision one client      *)
(* remembers of one key at most, to that of the entry it saw or wrote.     *)
LEMMA StoreNextInv == ASSUME Inv, [Next]_vars PROVE Inv'
<1> USE DEF Inv
<1>1. /\ stored \in [Key -> Entry \cup {Missing}] /\ revision \in 0 .. MaxRevision
      /\ known \in [Client -> [Key -> 0 .. MaxRevision]] /\ MaxRevision \in Nat
      /\ answer \in [Client -> Contract!Answer] /\ backend \in {"memory", "nats"}
  BY StoreAssumption DEF TypeOK
<1>2. ASSUME NEW c \in Client, NEW result \in Contract!Answer, Fails(c, result), UNCHANGED backend
      PROVE  Inv'
  BY <1>1, <1>2 DEF Fails, Returns, TypeOK, RevisionsOK
<1>3. ASSUME NEW c \in Client, NEW result \in Contract!Answer, Returns(c, result)
      PROVE  answer' \in [Client -> Contract!Answer]
  BY <1>1, <1>3 DEF Returns
<1>4. {"none", "done", "missing", "exists", "conflict"} = Contract!Answer
  BY DEF Contract!Answer
<1>5. ASSUME NEW c \in Client, NEW k \in Key, NEW v \in Value,
             Put(k, v), Remember(c, k, revision'), Returns(c, "done"), UNCHANGED backend
      PROVE  Inv'
  <2>1. /\ revision' = revision + 1 /\ revision' \in 1 .. MaxRevision
        /\ stored' \in [Key -> Entry \cup {Missing}]
        /\ stored'[k] # Missing /\ stored'[k].value = v /\ stored'[k].revision = revision'
        /\ \A j \in Key : j # k => stored'[j] = stored[j]
    BY <1>5, PutInv
  <2>2. /\ known' \in [Client -> [Key -> 0 .. MaxRevision]] /\ known'[c][k] = revision'
        /\ \A d \in Client : \A j \in Key : d # c \/ j # k => known'[d][j] = known[d][j]
    BY <1>1, <1>5, <2>1 DEF Remember
  <2>3. TypeOK'
    BY <1>1, <1>3, <1>4, <1>5, <2>1, <2>2 DEF TypeOK
  <2>4. RevisionsOK'
    BY <1>1, <1>5, <2>1, <2>2, StoreAssumption DEF RevisionsOK, Entry
  <2> QED
    BY <2>3, <2>4
<1>6. ASSUME NEW c \in Client, NEW k \in Key, Remove(c, k), Returns(c, "done"), UNCHANGED backend
      PROVE  Inv'
  <2>1. CASE stored' = [stored EXCEPT ![k] = Missing] /\ UNCHANGED <<revision, known>>
    BY <1>1, <1>3, <1>4, <1>6, <2>1 DEF TypeOK, RevisionsOK
  <2>2. CASE Put(k, Purged) /\ UNCHANGED known
    <3>1. /\ revision' = revision + 1 /\ revision' \in 1 .. MaxRevision
          /\ stored' \in [Key -> Entry \cup {Missing}]
          /\ stored'[k] # Missing /\ stored'[k].revision = revision'
          /\ \A j \in Key : j # k => stored'[j] = stored[j]
      BY <2>2, PutInv
    <3>2. TypeOK'
      BY <1>1, <1>3, <1>4, <1>6, <2>2, <3>1 DEF TypeOK
    <3>3. RevisionsOK'
      BY <1>1, <2>2, <3>1 DEF RevisionsOK, Entry
    <3> QED
      BY <3>2, <3>3
  <2> QED
    BY <1>6, <2>1, <2>2 DEF Remove
<1>7. ASSUME NEW c \in Client, NEW k \in Key, Present(k), Remember(c, k, stored[k].revision),
             Returns(c, "done"), UNCHANGED <<backend, stored, revision>>
      PROVE  Inv'
  <2>1. stored[k] \in Entry /\ stored[k].value # Purged
    BY <1>1, <1>7 DEF Present
  <2>2. /\ known' \in [Client -> [Key -> 0 .. MaxRevision]] /\ known'[c][k] = stored[k].revision
        /\ \A d \in Client : \A j \in Key : d # c \/ j # k => known'[d][j] = known[d][j]
    BY <1>1, <1>7, <2>1 DEF Remember, Entry
  <2>3. TypeOK'
    BY <1>1, <1>3, <1>4, <1>7, <2>2 DEF TypeOK
  <2>4. RevisionsOK'
    BY <1>1, <1>7, <2>1, <2>2 DEF RevisionsOK, Present
  <2> QED
    BY <2>3, <2>4
<1>8. ASSUME NEW c \in Client, List(c), UNCHANGED backend
      PROVE  Inv'
  <2>1. /\ known' \in [Client -> [Key -> 0 .. MaxRevision]]
        /\ \A d \in Client : \A j \in Key :
             \/ known'[d][j] = known[d][j]
             \/ Present(j) /\ known'[d][j] = stored[j].revision
    BY <1>1, <1>8 DEF List, Present, Entry
  <2>2. TypeOK'
    BY <1>1, <1>3, <1>4, <1>8, <2>1 DEF TypeOK, List
  <2>3. RevisionsOK'
    BY <1>1, <1>8, <2>1 DEF RevisionsOK, List, Present
  <2> QED
    BY <2>2, <2>3
<1>9. CASE UNCHANGED vars
  BY <1>9 DEF vars, TypeOK, RevisionsOK
<1>10. CASE Next
  <2>1. PICK c \in Client :
          \/ List(c)
          \/ \E k \in Key :
               \/ Get(c, k) \/ Delete(c, k) \/ DeleteRevision(c, k)
               \/ \E v \in Value : Create(c, k, v) \/ Update(c, k, v)
    BY <1>10 DEF Next
  <2>2. UNCHANGED backend
    BY <1>10 DEF Next
  <2>3. ASSUME NEW k \in Key, Get(c, k) PROVE Inv'
    BY <1>2, <1>4, <1>7, <2>2, <2>3 DEF Get
  <2>4. ASSUME NEW k \in Key, Delete(c, k) PROVE Inv'
    BY <1>2, <1>4, <1>6, <2>2, <2>4 DEF Delete
  <2>5. ASSUME NEW k \in Key, DeleteRevision(c, k) PROVE Inv'
    BY <1>2, <1>4, <1>6, <2>2, <2>5 DEF DeleteRevision, Mismatch
  <2>6. ASSUME NEW k \in Key, NEW v \in Value, Create(c, k, v) PROVE Inv'
    BY <1>2, <1>4, <1>5, <2>2, <2>6 DEF Create
  <2>7. ASSUME NEW k \in Key, NEW v \in Value, Update(c, k, v) PROVE Inv'
    BY <1>2, <1>4, <1>5, <2>2, <2>7 DEF Update, Mismatch
  <2> QED
    BY <1>8, <2>1, <2>2, <2>3, <2>4, <2>5, <2>6, <2>7
<1> QED
  BY <1>9, <1>10

(* Revisions are never given out twice, and markers' never at all, with    *)
(* either store (store/memory.go:35-38, 61-62; store/nats.go).             *)
THEOREM RevisionsAreFresh == Spec => [](TypeOK /\ RevisionsOK)
<1>1. Init => Inv
  BY StoreInitInv
<1>2. Inv /\ [Next]_vars => Inv'
  BY StoreNextInv
<1> QED
  BY <1>1, <1>2, PTL DEF Spec, Inv

-----------------------------------------------------------------------------
(* What the contract says of the state: the keys that hold a value, and    *)
(* the clients that know it.                                               *)
Holds == [k \in Key |-> IF Present(k) THEN stored[k].value ELSE Missing]
Knows == [k \in Key |-> {c \in Client : Present(k) /\ known[c][k] = stored[k].revision}]

(* A call that fails leaves the contract's state alone.                    *)
LEMMA FailsTurned ==
  ASSUME NEW c \in Client, NEW result, Fails(c, result)
  PROVE  Contract!Turned(c, result)
BY DEF Fails, Returns, Contract!Turned, Contract!Returns, Present

(* A write leaves the writer, and nobody else, knowing the value.          *)
LEMMA PutWritten ==
  ASSUME Inv, NEW c \in Client, NEW k \in Key, NEW v \in Value,
         Put(k, v), Remember(c, k, revision'), Returns(c, "done")
  PROVE  Contract!Written(c, k, v)
<1>1. /\ known \in [Client -> [Key -> 0 .. MaxRevision]] /\ revision \in Nat
      /\ \A d \in Client : \A j \in Key : known[d][j] \in Nat /\ known[d][j] <= revision
  BY StoreAssumption DEF Inv, TypeOK, RevisionsOK
<1>2. /\ revision' = revision + 1
      /\ stored'[k] # Missing /\ stored'[k].value = v /\ stored'[k].revision = revision'
      /\ \A j \in Key : j # k => stored'[j] = stored[j]
  BY PutInv
<1>3. \A d \in Client : \A j \in Key :
        known'[d][j] = IF d = c /\ j = k THEN revision' ELSE known[d][j]
  BY <1>1 DEF Remember
<1>4. Holds' = [Holds EXCEPT ![k] = v]
  BY <1>2, StoreAssumption DEF Holds, Present
<1>5. Knows' = [Knows EXCEPT ![k] = {c}]
  <2>1. ASSUME NEW j \in Key PROVE Knows'[j] = IF j = k THEN {c} ELSE Knows[j]
    <3>1. CASE j = k
      <4>1. \A d \in Client : d # c => known'[d][k] # revision'
        BY <1>1, <1>2, <1>3
      <4>2. Present(k)' /\ stored'[k].revision = revision' /\ known'[c][k] = revision'
        BY <1>2, <1>3, StoreAssumption DEF Present
      <4> QED
        BY <3>1, <4>1, <4>2 DEF Knows
    <3>2. CASE j # k
      BY <1>2, <1>3, <3>2 DEF Knows, Present
    <3> QED
      BY <3>1, <3>2
  <2> QED
    BY <2>1 DEF Knows
<1> QED
  BY <1>4, <1>5 DEF Holds, Knows, Returns, Contract!Written, Contract!Returns

(* After a deletion nobody knows the key: a marker's revision is new.      *)
LEMMA RemoveRemoved ==
  ASSUME Inv, NEW c \in Client, NEW k \in Key, Remove(c, k), Returns(c, "done")
  PROVE  Contract!Removed(c, k)
<1>1. known' = known /\ ~ Present(k)' /\ \A j \in Key : j # k => stored'[j] = stored[j]
  <2>1. stored \in [Key -> Entry \cup {Missing}]
    BY DEF Inv, TypeOK
  <2>2. CASE stored' = [stored EXCEPT ![k] = Missing] /\ UNCHANGED <<revision, known>>
    BY <2>1, <2>2 DEF Present
  <2>3. CASE Put(k, Purged) /\ UNCHANGED known
    BY <2>3, PutInv DEF Present
  <2> QED
    BY <2>2, <2>3 DEF Remove
<1>2. Holds' = [Holds EXCEPT ![k] = Missing]
  BY <1>1 DEF Holds, Present
<1>3. Knows' = [Knows EXCEPT ![k] = {}]
  BY <1>1 DEF Knows, Present
<1> QED
  BY <1>2, <1>3 DEF Holds, Knows, Returns, Contract!Removed, Contract!Returns

(* The revision a client passes matches iff the client knows the value.    *)
LEMMA MatchesKnown ==
  ASSUME Inv, NEW c \in Client, NEW k \in Key
  PROVE  Matches(c, k) <=> c \in Knows[k]
<1>1. stored[k] # Missing /\ stored[k].value = Purged => known[c][k] # stored[k].revision
  BY StoreAssumption DEF Inv, TypeOK, RevisionsOK, Entry
<1> QED
  BY <1>1 DEF Matches, Knows, Present

(* A refused conditional write is the contract's.                          *)
LEMMA MismatchBehind ==
  ASSUME Inv, NEW c \in Client, NEW k \in Key, Mismatch(c, k)
  PROVE  Contract!Behind(c, k)
<1>1. c \notin Knows[k]
  BY MatchesKnown DEF Mismatch
<1>2. Contract!Turned(c, "conflict") \/ (Holds[k] = Missing /\ Contract!Turned(c, "missing"))
  BY FailsTurned DEF Mismatch, Holds, Present
<1> QED
  BY <1>1, <1>2 DEF Contract!Behind, Holds, Knows

(* A List, or a Get, of keys that are there.                               *)
LEMMA ReadFound ==
  ASSUME Inv, NEW c \in Client, NEW K \in SUBSET Key, \A k \in K : Present(k), UNCHANGED stored,
         \A d \in Client : \A k \in Key :
           known'[d][k] = IF d = c /\ k \in K THEN stored[k].revision ELSE known[d][k],
         Returns(c, "done")
  PROVE  Contract!Found(c, K)
<1>1. Holds' = Holds
  BY DEF Holds, Present
<1>2. \A k \in K : Holds[k] # Missing
  BY StoreAssumption DEF Holds, Present, Inv, TypeOK, Entry
<1>3. Knows' = [k \in Key |-> IF k \in K THEN Knows[k] \cup {c} ELSE Knows[k]]
  <2>1. ASSUME NEW k \in Key
        PROVE  Knows'[k] = IF k \in K THEN Knows[k] \cup {c} ELSE Knows[k]
    BY DEF Knows, Present
  <2> QED
    BY <2>1 DEF Knows
<1> QED
  BY <1>1, <1>2, <1>3 DEF Holds, Knows, Returns, Contract!Found, Contract!Returns

(* Every step of either store is a step of the contract, or none.          *)
LEMMA NextRefines == ASSUME Inv, [Next]_vars PROVE [Contract!Next]_(Contract!vars)
<1>1. CASE UNCHANGED vars
  BY <1>1 DEF vars, Contract!vars, Present
<1>2. CASE Next
  <2>1. PICK c \in Client :
          \/ List(c)
          \/ \E k \in Key :
               \/ Get(c, k) \/ Delete(c, k) \/ DeleteRevision(c, k)
               \/ \E v \in Value : Create(c, k, v) \/ Update(c, k, v)
    BY <1>2 DEF Next
  <2>2. /\ known \in [Client -> [Key -> 0 .. MaxRevision]]
        /\ \A k \in Key : (Holds[k] = Missing) <=> ~ Present(k)
    BY StoreAssumption DEF Inv, TypeOK, Holds, Present, Entry
  <2>3. CASE List(c)
    <3>1. PICK K \in SUBSET Key : K = {k \in Key : Present(k)}
      OBVIOUS
    <3>2. \A d \in Client : \A k \in Key :
            known'[d][k] = IF d = c /\ k \in K THEN stored[k].revision ELSE known[d][k]
      BY <2>2, <2>3, <3>1 DEF List
    <3>3. Contract!Found(c, K)
      BY <2>3, <3>1, <3>2, ReadFound DEF List
    <3> QED
      BY <3>3 DEF Contract!List, Contract!Next
  <2>4. ASSUME NEW k \in Key, Get(c, k) PROVE Contract!Get(c, k)
    <3>1. CASE Present(k) /\ Remember(c, k, stored[k].revision) /\ Returns(c, "done") /\ UNCHANGED <<stored, revision>>
      <4>1. \A d \in Client : \A j \in Key :
              known'[d][j] = IF d = c /\ j \in {k} THEN stored[j].revision ELSE known[d][j]
        BY <2>2, <3>1 DEF Remember
      <4>2. Contract!Found(c, {k})
        BY <3>1, <4>1, ReadFound
      <4> QED
        BY <4>2 DEF Contract!Get
    <3>2. CASE ~ Present(k) /\ Fails(c, "missing")
      BY <3>2, <2>2, FailsTurned DEF Contract!Get, Holds
    <3> QED
      BY <2>4, <3>1, <3>2 DEF Get
  <2>5. ASSUME NEW k \in Key, Delete(c, k) PROVE Contract!Delete(c, k)
    BY <2>2, <2>5, RemoveRemoved, FailsTurned DEF Delete, Contract!Delete, Holds
  <2>6. ASSUME NEW k \in Key, DeleteRevision(c, k) PROVE Contract!DeleteRevision(c, k)
    BY <2>6, RemoveRemoved, MatchesKnown, MismatchBehind
    DEF DeleteRevision, Contract!DeleteRevision, Knows
  <2>7. ASSUME NEW k \in Key, NEW v \in Value, Create(c, k, v) PROVE Contract!Create(c, k, v)
    BY <2>2, <2>7, PutWritten, FailsTurned DEF Create, Contract!Create, Holds
  <2>8. ASSUME NEW k \in Key, NEW v \in Value, Update(c, k, v) PROVE Contract!Update(c, k, v)
    BY <2>8, PutWritten, MatchesKnown, MismatchBehind DEF Update, Contract!Update, Knows
  <2> QED
    BY <2>1, <2>3, <2>4, <2>5, <2>6, <2>7, <2>8 DEF Contract!Next
<1> QED
  BY <1>1, <1>2

(* Memory and NATS both implement the contract.                            *)
THEOREM StoreImplements == Spec => KeepsContract
<1>1. Init => Contract!Init
  BY DEF Init, Contract!Init, Present
<1>2. Inv /\ [Next]_vars => [Contract!Next]_(Contract!vars)
  BY NextRefines
<1>3. Spec => []Inv
  BY RevisionsAreFresh, PTL DEF Inv
<1> QED
  BY <1>1, <1>2, <1>3, PTL DEF Spec, KeepsContract, Contract!Spec
=============================================================================
