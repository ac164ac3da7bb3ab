----------------------------- MODULE EventAdmin -----------------------------
(***************************************************************************)
(* The presenter's operations on a live event: SetState (open, pause,      *)
(* reopen) with reserveSlots, UpdateCapacity and ReleaseSlot (access/      *)
(* service.go:143-197, 426-442, 513-534).  The principal is one that may   *)
(* operate the event; a refused one returns before anything is written.    *)
(***************************************************************************)
EXTENDS SlotCleanup

(* validTransition, or the state it has already.                           *)
MayBecome(from, to) ==
  \/ from = to
  \/ <<from, to>> \in {<<"draft", "open">>, <<"open", "paused">>, <<"paused", "open">>}

(* loadEvent: ErrNotFound and an illegal transition end the operation.     *)
Settable(target) == event # NoEvent /\ MayBecome(event.state, target)

SetState(w, target) ==
  /\ At(w, "idle")
  /\ Settable(target)
  /\ Goto(w, [Idle EXCEPT !.pc = "set_put", !.target = target], holdsEvent \cup {w}, holdsSlot)
  /\ UNCHANGED <<store, used, issued, acked, faults>>

SetReload(w) ==
  /\ At(w, "set_load")
  /\ IF Settable(job[w].target)
     THEN Goto(w, [job[w] EXCEPT !.pc = "set_put"], holdsEvent \cup {w}, holdsSlot)
     ELSE Proceed(w, Idle)
  /\ UNCHANGED <<store, used, issued, acked, faults>>

(* A refused write is tried again, up to five times in all, from a new     *)
(* read; a key that is gone is ErrNotFound in memory and ends it.          *)
RetryEvent(w, pc) ==
  /\ w \notin holdsEvent
  /\ \/ Proceed(w, [job[w] EXCEPT !.pc = pc])
     \/ Proceed(w, Idle)
  /\ UNCHANGED event

(* The new state; a pause goes on to reserve the slots.                    *)
SetPut(w) ==
  /\ At(w, "set_put")
  /\ \/ UpdateEvent(w, [event EXCEPT !.state = job[w].target],
                    IF job[w].target = "paused" THEN StartList(job[w], "reserve_list") ELSE Idle)
     \/ RetryEvent(w, "set_load")
  /\ UNCHANGED <<slot, session, receipt, invitation, used, issued, acked, faults>>

(* Reserved and claimed slots are left alone.                              *)
ReserveList(w) ==
  /\ At(w, "reserve_list")
  /\ \E n \in job[w].todo : ListOne(w, n, Unclaimed(n) /\ ~ slot[n].reserved, "reserve_put")
  /\ UNCHANGED <<store, used, issued, acked, faults>>

(* Slots are reserved one by one, in any order.  A conflict starts         *)
(* reserveSlots over; a slot that is gone may also end it (ErrNotFound).   *)
ReservePut(w) ==
  /\ At(w, "reserve_put")
  /\ \E n \in Read(job[w]) :
       \/ UpdateSlot(w, n, [slot[n] EXCEPT !.reserved = TRUE], [job[w] EXCEPT !.seen[n] = NoGen])
       \/ Refused(w, n, StartList(job[w], "reserve_list")) /\ UNCHANGED slot
       \/ slot[n] = NoSlot /\ Refused(w, n, Idle) /\ UNCHANGED slot
  /\ UNCHANGED <<event, session, receipt, invitation, used, issued, acked, faults>>

ReserveDone(w) ==
  /\ At(w, "reserve_put")
  /\ Read(job[w]) = {}
  /\ Proceed(w, Idle)
  /\ UNCHANGED <<store, used, issued, acked, faults>>

Resizable == event # NoEvent /\ event.state # "deleting"

UpdateCapacity(w, capacity) ==
  /\ At(w, "idle")
  /\ capacity \in 0 .. MaxCapacity /\ Resizable
  /\ Goto(w, [Idle EXCEPT !.pc = "capacity_put", !.cap = capacity], holdsEvent \cup {w}, holdsSlot)
  /\ UNCHANGED <<store, used, issued, acked, faults>>

CapacityReload(w) ==
  /\ At(w, "capacity_load")
  /\ IF Resizable
     THEN Goto(w, [job[w] EXCEPT !.pc = "capacity_put"], holdsEvent \cup {w}, holdsSlot)
     ELSE Proceed(w, Idle)
  /\ UNCHANGED <<store, used, issued, acked, faults>>

CapacityPut(w) ==
  /\ At(w, "capacity_put")
  /\ \/ UpdateEvent(w, [event EXCEPT !.capacity = job[w].cap], Idle)
     \/ RetryEvent(w, "capacity_load")
  /\ UNCHANGED <<slot, session, receipt, invitation, used, issued, acked, faults>>

(* ReleaseSlot reads the event, then the slot, and cleans it whatever its  *)
(* lease or reservation says.                                              *)
ReleaseSlot(w, n) ==
  /\ At(w, "idle")
  /\ event # NoEvent /\ event.state # "deleting"
  /\ Proceed(w, [Idle EXCEPT !.pc = "release_slot", !.num = n])
  /\ UNCHANGED <<store, used, issued, acked, faults>>

ReleaseRead(w) ==
  LET n == job[w].num IN
  /\ At(w, "release_slot")
  /\ IF Claimable(n)
     THEN Goto(w, [job[w] EXCEPT !.pc = "clean_claim", !.seen[n] = slot[n].gen],
               holdsEvent, SlotRead(w, n))
     ELSE Proceed(w, Idle)
  /\ UNCHANGED <<store, used, issued, acked, faults>>

ReleaseCleanup(w) == CleanSlot(w, Idle, Idle)

Administer(w) ==
  \/ SetReload(w)
  \/ SetPut(w)
  \/ ReserveList(w)
  \/ ReservePut(w)
  \/ ReserveDone(w)
  \/ CapacityReload(w)
  \/ CapacityPut(w)
  \/ ReleaseRead(w)
  \/ ReleaseCleanup(w)
=============================================================================
