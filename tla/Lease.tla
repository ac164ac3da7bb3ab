-------------------------------- MODULE Lease --------------------------------
(***************************************************************************)
(* renewLease (access/service.go:351-401), behind both the token endpoint  *)
(* and the heartbeat, and by it the resumption of a reserved slot.  Index, *)
(* event and slot are three reads; only the slot's revision is checked by  *)
(* the write.                                                              *)
(***************************************************************************)
EXTENDS SlotCleanup

(* The cookie of g is looked up: a missing or a deleted index is final.    *)
RenewSession(w, g) ==
  /\ At(w, "idle")
  /\ g \in issued
  /\ session[g] # NoIndex /\ ~ session[g].deleted
  /\ LET n == session[g].slot IN
     Proceed(w, [Idle EXCEPT !.pc = "renew_event", !.num = n, !.seen[n] = g])
  /\ UNCHANGED <<store, used, issued, acked, faults>>

(* Every state but open is answered with an error of its own.              *)
RenewEvent(w) ==
  /\ At(w, "renew_event")
  /\ Proceed(w, IF EventIs("open") THEN [job[w] EXCEPT !.pc = "renew_slot"] ELSE Idle)
  /\ UNCHANGED <<store, used, issued, acked, faults>>

(* A mutant: a slot being cleaned is renewed like any other.               *)
RenewableWhileCleaned(n, g) ==
  /\ SlotHas(n, g)
  /\ slot[n].reserved \/ ~ slot[n].expired

(* Same resume digest, no cleanup claimed, and reserved or within grace.   *)
Renewable(n, g) ==
  /\ SlotHas(n, g)
  /\ Unclaimed(n)
  /\ slot[n].reserved \/ ~ slot[n].expired

RenewSlot(w) ==
  LET n == job[w].num IN
  /\ At(w, "renew_slot")
  /\ IF Renewable(n, Own(w))
     THEN Goto(w, [job[w] EXCEPT !.pc = "renew_put"], holdsEvent, SlotRead(w, n))
     ELSE Proceed(w, Idle)
  /\ UNCHANGED <<store, used, issued, acked, faults>>

(* A new lease and grace period, no longer reserved; the token follows.    *)
RenewCommit(w) ==
  LET n == job[w].num IN
  /\ At(w, "renew_put")
  /\ UpdateSlot(w, n, [slot[n] EXCEPT !.reserved = FALSE, !.expired = FALSE], Idle)
  /\ UNCHANGED <<event, session, receipt, invitation, used, issued, acked, faults>>

(* ErrConflict: read the event and the slot again, up to five times; a key *)
(* that is gone is ErrNotFound in memory, which ends the renewal.          *)
RenewConflict(w) ==
  /\ At(w, "renew_put")
  /\ \/ Refused(w, job[w].num, [job[w] EXCEPT !.pc = "renew_event"])
     \/ Refused(w, job[w].num, Idle)
  /\ UNCHANGED <<store, used, issued, acked, faults>>

Renew(w) ==
  \/ RenewEvent(w)
  \/ RenewSlot(w)
  \/ RenewCommit(w)
  \/ RenewConflict(w)
=============================================================================
