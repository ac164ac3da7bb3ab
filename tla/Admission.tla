------------------------------ MODULE Admission ------------------------------
(***************************************************************************)
(* StartSession (access/service.go:265-333): walk the slot numbers of the  *)
(* capacity read at the start, create the first free one, clean up and     *)
(* re-create an expired one, then read the event AGAIN before the session  *)
(* index is written and the token minted.                                  *)
(***************************************************************************)
EXTENDS SlotCleanup

(* A mutant: the walk goes one number too far.                             *)
NextNumberTooFar(j) ==
  IF j.num <= j.cap
  THEN [j EXCEPT !.pc = "start_create", !.num = @ + 1, !.seen = NothingSeen]
  ELSE Idle

(* The guest's number is taken: try the next one, or ErrCapacity.          *)
NextNumber(j) ==
  IF j.num < j.cap
  THEN [j EXCEPT !.pc = "start_create", !.num = @ + 1, !.seen = NothingSeen]
  ELSE Idle

NewSlot(g) == [gen |-> g, reserved |-> FALSE, expired |-> FALSE, cleanup |-> "none"]

(* Invitation and event are read; everything but an open event with room   *)
(* is turned away at once.  The two reads are one step: an invitation that *)
(* disappears between them belongs to an event already being deleted.      *)
StartSession(w) ==
  /\ At(w, "idle")
  /\ invitation
  /\ EventIs("open") /\ event.capacity > 0
  /\ Proceed(w, [Idle EXCEPT !.pc = "start_create", !.num = 1, !.cap = event.capacity])
  /\ UNCHANGED <<store, used, issued, acked, faults>>

(* Create of the slot key succeeds; the writer knows its revision.         *)
CreateSlot(w, g) ==
  LET n == job[w].num IN
  /\ job[w].pc \in {"start_create", "start_recreate"}
  /\ slot[n] = NoSlot
  /\ slot' = [slot EXCEPT ![n] = NewSlot(g)]
  /\ used' = used \cup {g}
  /\ Goto(w, [job[w] EXCEPT !.pc = "start_recheck", !.seen[n] = g], holdsEvent, SlotWritten(w, n))
  /\ UNCHANGED <<event, session, receipt, invitation, issued, acked, faults>>

StartCreate(w) == \E g \in Gen \ used : CreateSlot(w, g)

(* randomSecret fails: the handler returns.  With a finite Gen this is     *)
(* also how the model runs out of fresh identities, at a re-creation too.  *)
StartNoSecret(w) ==
  /\ job[w].pc \in {"start_create", "start_recreate"}
  /\ Gen \subseteq used
  /\ Proceed(w, Idle)
  /\ UNCHANGED <<store, used, issued, acked, faults>>

(* ErrExists: look at the occupant, or (after a cleanup) let it be.        *)
StartOccupied(w) ==
  /\ job[w].pc \in {"start_create", "start_recreate"}
  /\ slot[job[w].num] # NoSlot
  /\ \/ At(w, "start_create") /\ Proceed(w, [job[w] EXCEPT !.pc = "start_inspect"])
     \/ At(w, "start_recreate") /\ Proceed(w, NextNumber(job[w]))
  /\ UNCHANGED <<store, used, issued, acked, faults>>

(* Skip an occupant that is gone again, still in its lease or grace, or    *)
(* reserved, and one whose claim is not due.  The comparison is with now   *)
(* of line 286, taken before the walk: a grace period that ran out since   *)
(* then still counts as running, so an unclaimed occupant may be skipped.  *)
StartSkip(w) ==
  LET n == job[w].num IN
  /\ At(w, "start_inspect")
  /\ ~ Claimable(n) \/ Unclaimed(n)
  /\ Proceed(w, NextNumber(job[w]))
  /\ UNCHANGED <<store, used, issued, acked, faults>>

(* The occupant's grace is over, or somebody's cleanup of it is due again. *)
StartTakeOver(w) ==
  LET n == job[w].num IN
  /\ At(w, "start_inspect")
  /\ Claimable(n)
  /\ Unclaimed(n) => slot[n].expired /\ ~ slot[n].reserved
  /\ Goto(w, [job[w] EXCEPT !.pc = "clean_claim", !.seen[n] = slot[n].gen],
          holdsEvent, SlotRead(w, n))
  /\ UNCHANGED <<store, used, issued, acked, faults>>

(* Mutants: only the capacity is looked at again; nothing is.              *)
StillHasRoom(n) == event # NoEvent /\ n <= event.capacity
AdmitsAsBefore(n) == TRUE

(* The event is read again: is the number still within an open event?      *)
StillAdmits(n) == EventIs("open") /\ n <= event.capacity

StartRecheck(w) ==
  /\ At(w, "start_recheck")
  /\ Proceed(w, [job[w] EXCEPT !.pc =
       IF StillAdmits(job[w].num) THEN "start_index" ELSE "start_undo"])
  /\ UNCHANGED <<store, used, issued, acked, faults>>

(* The session index is created and the token minted.                      *)
Indexed(w) == [session EXCEPT ![Own(w)] = [slot |-> job[w].num, deleted |-> FALSE]]

StartIndex(w) ==
  /\ At(w, "start_index")
  /\ session' = Indexed(w)
  /\ issued' = issued \cup {Own(w)}
  /\ Proceed(w, Idle)
  /\ UNCHANGED <<event, slot, receipt, invitation, used, acked, faults>>

(* The index write reports an error, whether or not it was applied.        *)
StartIndexFails(w) ==
  /\ At(w, "start_index")
  /\ session' \in {session, Indexed(w)}
  /\ Proceed(w, [job[w] EXCEPT !.pc = "start_undo_next"])
  /\ Fault
  /\ UNCHANGED <<event, slot, receipt, invitation, used, issued, acked>>

(* The token cannot be signed: slot and index stay, the guest has neither. *)
StartMintFails(w) ==
  /\ At(w, "start_index")
  /\ session' = Indexed(w)
  /\ Proceed(w, Idle)
  /\ Fault
  /\ UNCHANGED <<event, slot, receipt, invitation, used, issued, acked>>

(* A mutant: Delete instead of DeleteRevision.                             *)
StartUndoAnyRevision(w) ==
  LET n == job[w].num
      next == IF At(w, "start_undo") THEN Idle ELSE NextNumber(job[w])
  IN
  /\ job[w].pc \in {"start_undo", "start_undo_next"}
  /\ slot' = [slot EXCEPT ![n] = NoSlot]
  /\ Goto(w, next, holdsEvent, SlotGone(n))
  /\ UNCHANGED <<event, session, receipt, invitation, used, issued, acked, faults>>

(* DeleteRevision at the revision of the creation; its error is ignored.   *)
StartUndo(w) ==
  LET n == job[w].num
      next == IF At(w, "start_undo") THEN Idle ELSE NextNumber(job[w])
  IN
  /\ job[w].pc \in {"start_undo", "start_undo_next"}
  /\ \/ DropSlot(w, n, next)
     \/ Refused(w, n, next) /\ UNCHANGED slot
  /\ UNCHANGED <<event, session, receipt, invitation, used, issued, acked, faults>>

(* A call to the store fails where the walk goes on: the look at the       *)
(* occupant, the removal after a failed index write; or the second reading *)
(* of the event, after which the slot is taken back.                       *)
StartCallFails(w) ==
  /\ \/ job[w].pc \in {"start_inspect", "start_undo_next"} /\ Proceed(w, NextNumber(job[w]))
     \/ At(w, "start_recheck") /\ Proceed(w, [job[w] EXCEPT !.pc = "start_undo"])
  /\ Fault
  /\ UNCHANGED <<store, used, issued, acked>>

StartCleanup(w) ==
  CleanSlot(w, [job[w] EXCEPT !.pc = "start_recreate"], NextNumber(job[w]))

Admit(w) ==
  \/ StartCreate(w)
  \/ StartNoSecret(w)
  \/ StartOccupied(w)
  \/ StartSkip(w)
  \/ StartTakeOver(w)
  \/ StartRecheck(w)
  \/ StartIndex(w)
  \/ StartIndexFails(w)
  \/ StartMintFails(w)
  \/ StartUndo(w)
  \/ StartCallFails(w)
  \/ StartCleanup(w)
=============================================================================
