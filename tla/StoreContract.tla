---------------------------- MODULE StoreContract ----------------------------
(***************************************************************************)
(* What the access service relies on from its key-value store (store/      *)
(* store.go:19-26), without revision numbers: a conditional write of a     *)
(* client succeeds iff nobody wrote the key since the client read or wrote *)
(* it itself.  GuestState follows the event and the slots in these terms   *)
(* (holdsEvent, holdsSlot).                                                *)
(***************************************************************************)
CONSTANTS Client, Key, Value, Missing

VARIABLES
  value,    \* what each key holds, or Missing
  current,  \* the clients that know what it holds now
  answer    \* the result of each client's latest call

vars == <<value, current, answer>>

Answer == {"none", "done", "missing", "exists", "conflict"}

Init ==
  /\ value = [k \in Key |-> Missing]
  /\ current = [k \in Key |-> {}]
  /\ answer = [c \in Client |-> "none"]

Returns(c, result) == answer' = [answer EXCEPT ![c] = result]

(* A Get, or a List, finds the keys K.                                     *)
Found(c, K) ==
  /\ \A k \in K : value[k] # Missing
  /\ current' = [k \in Key |-> IF k \in K THEN current[k] \cup {c} ELSE current[k]]
  /\ Returns(c, "done")
  /\ UNCHANGED value

Written(c, k, v) ==
  /\ value' = [value EXCEPT ![k] = v]
  /\ current' = [current EXCEPT ![k] = {c}]
  /\ Returns(c, "done")

Removed(c, k) ==
  /\ value' = [value EXCEPT ![k] = Missing]
  /\ current' = [current EXCEPT ![k] = {}]
  /\ Returns(c, "done")

Turned(c, result) == Returns(c, result) /\ UNCHANGED <<value, current>>

Get(c, k) ==
  \/ Found(c, {k})
  \/ value[k] = Missing /\ Turned(c, "missing")

List(c) == \E K \in SUBSET Key : Found(c, K)

Create(c, k, v) ==
  \/ value[k] = Missing /\ Written(c, k, v)
  \/ value[k] # Missing /\ Turned(c, "exists")

(* A conditional write is turned away iff the client is behind.  That the  *)
(* key is gone may be told by either error.                                *)
Behind(c, k) ==
  /\ c \notin current[k]
  /\ \/ Turned(c, "conflict")
     \/ value[k] = Missing /\ Turned(c, "missing")

Update(c, k, v) ==
  \/ c \in current[k] /\ Written(c, k, v)
  \/ Behind(c, k)

DeleteRevision(c, k) ==
  \/ c \in current[k] /\ Removed(c, k)
  \/ Behind(c, k)

Delete(c, k) ==
  \/ Removed(c, k)
  \/ value[k] = Missing /\ Turned(c, "missing")

Next ==
  \E c \in Client :
    \/ List(c)
    \/ \E k \in Key :
         \/ Get(c, k)
         \/ Delete(c, k)
         \/ DeleteRevision(c, k)
         \/ \E v \in Value : Create(c, k, v) \/ Update(c, k, v)

Spec == Init /\ [][Next]_vars
=============================================================================
