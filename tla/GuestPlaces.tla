----------------------------- MODULE GuestPlaces -----------------------------
(***************************************************************************)
(* What the access service promises about the places of one event, with    *)
(* every operation a single step: a place has one guest at a time, given   *)
(* to it free, and taken away only when the application has erased the     *)
(* guest or the guest was never told of it; a deletion that was recorded   *)
(* speaks for everybody, before it and after it.  GuestAccess keeps this   *)
(* with its reads, conditional writes, claims and retries.                 *)
(***************************************************************************)
CONSTANTS Slot, Gen, NoGen

VARIABLES
  place,   \* the identity in each place, or NoGen
  used,    \* identities that were ever given a place
  issued,  \* identities that were handed a token and a cookie
  acked,   \* identities whose erasure was acknowledged
  stage    \* of the event: serving, ending, recorded, over

vars == <<place, used, issued, acked, stage>>

Init ==
  /\ place = [n \in Slot |-> NoGen]
  /\ used = {} /\ issued = {} /\ acked = {}
  /\ stage = "serving"

(* A fresh identity gets a free place.  Whether the event admits is looked *)
(* at again before anybody is told, so this is not a matter of the stage.  *)
Take(n, g) ==
  /\ place[n] = NoGen
  /\ g \notin used
  /\ place' = [place EXCEPT ![n] = g]
  /\ used' = used \cup {g}
  /\ UNCHANGED <<issued, acked, stage>>

(* The identity is handed out, once.  By then it has its place, or whoever *)
(* took it away has had it erased; and a deletion that was recorded knew   *)
(* of it.                                                                  *)
Admit(g) ==
  /\ g \in used \ issued
  /\ g \in acked \/ \E n \in Slot : place[n] = g
  /\ stage \in {"recorded", "over"} => g \in acked
  /\ stage = "over" => \A n \in Slot : place[n] # g
  /\ issued' = issued \cup {g}
  /\ UNCHANGED <<place, used, acked, stage>>

(* The application acknowledges that it has erased the identities G.       *)
Erase(G) ==
  /\ G \subseteq used
  /\ acked' = acked \cup G
  /\ UNCHANGED <<place, used, issued, stage>>

(* A place becomes free again.                                             *)
Leave(n) ==
  /\ place[n] # NoGen
  /\ place[n] \in acked \/ place[n] \notin issued
  /\ place' = [place EXCEPT ![n] = NoGen]
  /\ UNCHANGED <<used, issued, acked, stage>>

Onwards(from, to) ==
  /\ stage = from
  /\ stage' = to
  /\ UNCHANGED <<place, used, issued, acked>>

DeleteBegin  == Onwards("serving", "ending")
DeleteRecord == issued \subseteq acked /\ Onwards("ending", "recorded")
FinalEvent   == (\A n \in Slot : place[n] \notin issued) /\ Onwards("recorded", "over")

Next ==
  \/ \E n \in Slot : Leave(n) \/ \E g \in Gen : Take(n, g)
  \/ \E g \in Gen : Admit(g)
  \/ \E G \in SUBSET Gen : Erase(G)
  \/ DeleteBegin \/ DeleteRecord \/ FinalEvent

Spec == Init /\ [][Next]_vars
=============================================================================
