--------------------------- MODULE GuestInvariant ---------------------------
(***************************************************************************)
(* Why the purge guarantees of GuestAccess hold: the strengthening of them *)
(* that every step preserves.  It says, for every point a worker may have  *)
(* reached, what its stale knowledge is still worth.                       *)
(***************************************************************************)
EXTENDS GuestAccess

(* Points at which a worker is committed to a slot number, and those at    *)
(* which it knows an identity by that number.                              *)
Cleanup     == {"clean_claim", "clean_call", "clean_backoff", "clean_unindex", "clean_drop"}
Provisional == {"start_recheck", "start_index", "start_undo", "start_undo_next"}
Renewal     == {"renew_event", "renew_slot", "renew_put"}
Identified  == Cleanup \cup Provisional \cup Renewal \cup {"final_drop"}
Numbered    == Identified \cup {"start_create", "start_inspect", "start_recreate", "release_slot"}

Listing    == {"scan_list", "reserve_list", "delete_list", "final_list"}
Erasing    == {"delete_list", "delete_call", "delete_backoff", "delete_record"}
Finalizing == {"final_list", "final_mark", "final_drop", "final_event"}
Closed     == {"delete_receipt", "delete_claim"} \cup Erasing \cup Finalizing

Live == event # NoEvent /\ event.state # "deleting"

(* Handed out, or past the last check of the event and about to be.        *)
Committed == issued \cup {Own(w) : w \in {v \in Worker : At(v, "start_index")}}

Accounted(g) == g \in acked \/ \E n \in Slot : SlotHas(n, g)

(* What holds of a worker that stands at j.                                *)
JobOK(j) ==
  /\ j.pc = "idle" => j = Idle
  /\ j.pc \in Numbered => j.num \in Slot
  /\ j.pc \in Identified => j.seen[j.num] \in Gen
  /\ \A n \in Slot : j.seen[n] \in used \cup {NoGen}
  /\ j.pc \in {"clean_unindex", "clean_drop"} => j.seen[j.num] \in acked
  /\ \A n \in j.todo : j.seen[n] = NoGen /\ j.pc \in Listing
  /\ j.pc \in Provisional => j.seen[j.num] \notin issued
  /\ j.pc = "start_recheck" => ~ Live \/ Accounted(j.seen[j.num])
  /\ j.pc \in {"set_put", "set_load"} => j.target \in {"open", "paused"}
  /\ j.pc \in Closed => ~ Live
  /\ j.pc \in Finalizing => receipt # NoReceipt
  /\ j.pc = "delete_list" => \A g \in Committed :
       \/ g \in acked
       \/ \E n \in Slot : j.seen[n] = g
       \/ \E n \in j.todo : SlotHas(n, g)
  /\ j.pc = "delete_call" => \A g \in Committed : g \in acked \/ \E n \in Slot : j.seen[n] = g
  /\ j.pc = "delete_record" => Committed \subseteq acked
  /\ j.pc \in Finalizing => \A n \in Slot : \A g \in Committed :
       SlotHas(n, g) => (n \in j.todo \/ j.seen[n] = g)
  /\ j.pc = "final_event" => ~ invitation /\ Read(j) = {}

(* What a worker's hold on a revision is worth.                            *)
HoldsOK(w) ==
  /\ \A n \in Slot : w \in holdsSlot[n] => SlotHas(n, job[w].seen[n])
  /\ w \in holdsEvent => event # NoEvent
  /\ w \in holdsEvent /\ job[w].pc \in {"set_put", "capacity_put"} => Live

SlotsOK ==
  /\ \A n \in Slot : slot[n] # NoSlot => slot[n].gen \in used
  /\ \A m, n \in Slot : slot[m] # NoSlot /\ SlotHas(n, slot[m].gen) => m = n

(* No two admissions under way are for the same identity.                  *)
AdmissionsDistinct ==
  \A v, w \in Worker :
    (job[v].pc \in Provisional /\ job[w].pc \in Provisional /\ Own(v) = Own(w)) => v = w

Inv ==
  /\ TypeOK
  /\ \A w \in Worker : JobOK(job[w]) /\ HoldsOK(w)
  /\ SlotsOK
  /\ AdmissionsDistinct
  /\ issued \subseteq used
  /\ \A g \in Committed : Accounted(g)
  /\ receipt # NoReceipt => ~ Live /\ Committed \subseteq acked
  /\ event = NoEvent =>
       /\ receipt # NoReceipt /\ ~ invitation
       /\ \A n \in Slot : slot[n] # NoSlot => slot[n].gen \notin Committed
-----------------------------------------------------------------------------
(* Why a guest keeps its place until a claim, and a claim is not undone:   *)
(* what the claim in a slot's record says of the workers' identities.      *)
Asked    == {"clean_call", "clean_backoff", "clean_unindex", "clean_drop"}
Scanning == {"scan_list", "scan_pick"} \cup Cleanup

Reclaimable(n) == Unclaimed(n) => slot[n].expired /\ ~ slot[n].reserved

ClaimsOK(w) ==
  /\ job[w].pc \in Asked => \A n \in Slot : SlotHas(n, Own(w)) => ~ Unclaimed(n)
  /\ job[w].pc \in Provisional => \A n \in Slot : SlotHas(n, Own(w)) => n = job[w].num
  /\ job[w].pc = "renew_put" /\ w \in holdsSlot[job[w].num] => Unclaimed(job[w].num)
  /\ w \in GuestHandlers /\ job[w].pc = "clean_claim" /\ w \in holdsSlot[job[w].num] =>
       Reclaimable(job[w].num)
  /\ w \in RecoveryWorkers /\ job[w].pc \in Scanning =>
       \A n \in Slot : w \in holdsSlot[n] => Reclaimable(n)

(* Of a slot that nobody claimed, in an event that is not being deleted.   *)
PlaceKept(n) ==
  /\ slot[n].gen \notin acked
  /\ slot[n].gen \in issued => session[slot[n].gen] = [slot |-> n, deleted |-> FALSE]

ClaimInv ==
  /\ acked \subseteq used
  /\ \A w \in Worker : ClaimsOK(w)
  /\ Live => \A n \in Slot : Unclaimed(n) => PlaceKept(n)
=============================================================================
