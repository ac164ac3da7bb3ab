------------------------------ MODULE Promises ------------------------------
(***************************************************************************)
(* Three things the README and the tests say of pausing and of deleting an *)
(* event that the code does not always do.  Each is an invariant TLC       *)
(* refutes; what it takes is told with each.                               *)
(***************************************************************************)
EXTENDS GuestAccess

(* Once a pause has reserved the slots, every guest's place is reserved    *)
(* (README:58 "Stop admission and token renewal; reserve slots", README:   *)
(* 169 "paused/reserved places are preserved"; service_test.go:94-120).    *)
(* A renewal that read the event while it was open (service.go:368) and    *)
(* the slot after the pause reserved it (:381) writes reserved = FALSE     *)
(* (:390-393): only the slot's revision is checked.                        *)
PausedPlacesReserved ==
  (EventIs("paused") /\ \A w \in PresenterHandlers : job[w].pc \notin {"reserve_list", "reserve_put"})
    => \A n \in Slot :
         (Unclaimed(n) /\ slot[n].gen \in issued) => slot[n].reserved

(* When an event is gone, the cookie of a guest of it leads to a tombstone *)
(* or nowhere, and never to an event that is not there (README:178         *)
(* "Existing cookies receive a terminal deletion code through hashed       *)
(* tombstones"; service_test.go:184-189).  An admission that passed its    *)
(* second reading of the event (service.go:318) and is then slower than    *)
(* the deletion creates its index after finalizeEvent found none to mark.  *)
TerminalAnswer ==
  event = NoEvent => \A g \in issued : session[g] # NoIndex => session[g].deleted

(* A reserved slot is somebody's: its guest can come back to it, or is     *)
(* being admitted (README:21 "pause, and reserved-session resume").  A     *)
(* pause that reserves a slot whose admission is then refused changes its  *)
(* revision; the DeleteRevision that takes it back (service.go:320) fails, *)
(* and its error is ignored.  Nobody ever had a cookie for that slot, and  *)
(* a reserved slot never expires.                                          *)
ReservedIsResumable ==
  \A n \in Slot :
    (Unclaimed(n) /\ slot[n].reserved /\ event # NoEvent /\ event.state # "deleting") =>
      \/ session[slot[n].gen] = [slot |-> n, deleted |-> FALSE]
      \/ \E w \in GuestHandlers : job[w].pc # "idle" /\ Own(w) = slot[n].gen
=============================================================================
