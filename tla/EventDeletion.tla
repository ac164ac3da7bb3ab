---------------------------- MODULE EventDeletion ----------------------------
(***************************************************************************)
(* DeleteEvent, cleanEvent and finalizeEvent (access/service.go:444-469,   *)
(* access/recovery.go:106-193).  Deletion is a durable intent: the event   *)
(* is first put in state deleting, then claimed, its identities listed and *)
(* erased by the application, the receipt saved, the slots tombstoned and  *)
(* removed, and the invitation and the event removed last.  A presenter    *)
(* starts it; presenters and recovery workers carry it on.                 *)
(***************************************************************************)
EXTENDS SlotCleanup

DeleteEvent(w) ==
  /\ At(w, "idle")
  /\ event # NoEvent
  /\ Goto(w, [Idle EXCEPT !.pc = IF EventIs("deleting") THEN "delete_receipt" ELSE "delete_begin"],
          holdsEvent \cup {w}, holdsSlot)
  /\ UNCHANGED <<store, used, issued, acked, faults>>

(* A conditional write to the event that ends the operation if refused.    *)
EventWrite(w, rec, j) ==
  /\ \/ UpdateEvent(w, rec, j)
     \/ /\ w \notin holdsEvent
        /\ Proceed(w, Idle)
        /\ UNCHANGED event
  /\ UNCHANGED <<slot, session, receipt, invitation, used, issued, acked, faults>>

(* State deleting, with a fresh CleanupProgress whose retry is due.        *)
DeleteBegin(w) ==
  /\ At(w, "delete_begin")
  /\ EventWrite(w, [event EXCEPT !.state = "deleting", !.cleanup = "due"],
                [job[w] EXCEPT !.pc = "delete_receipt"])

(* A mutant: an interrupted finalization is not done over.                 *)
DeleteReceiptSuffices(w) ==
  /\ At(w, "delete_receipt")
  /\ Proceed(w, CASE receipt # NoReceipt -> [job[w] EXCEPT !.pc = "final_event"]
                  [] receipt = NoReceipt /\ event # NoEvent /\ event.cleanup = "held" -> Idle
                  [] OTHER -> [job[w] EXCEPT !.pc = "delete_claim"])
  /\ UNCHANGED <<store, used, issued, acked, faults>>

(* With a receipt the erasure is complete: only finalization is left.      *)
(* Without one the deletion has to be claimed, and may be claimed already. *)
DeleteReceipt(w) ==
  /\ At(w, "delete_receipt")
  /\ Proceed(w, CASE receipt # NoReceipt -> StartList(job[w], "final_list")
                  [] receipt = NoReceipt /\ event # NoEvent /\ event.cleanup = "held" -> Idle
                  [] OTHER -> [job[w] EXCEPT !.pc = "delete_claim"])
  /\ UNCHANGED <<store, used, issued, acked, faults>>

DeleteClaim(w) ==
  /\ At(w, "delete_claim")
  /\ EventWrite(w, [event EXCEPT !.cleanup = "held"], StartList(job[w], "delete_list"))

(* A mutant: a slot that is being cleaned already is left to its cleaner.  *)
DeleteListUnclaimed(w) ==
  /\ At(w, "delete_list")
  /\ \E n \in job[w].todo : ListOne(w, n, Unclaimed(n), "delete_call")
  /\ UNCHANGED <<store, used, issued, acked, faults>>

DeleteList(w) ==
  /\ At(w, "delete_list")
  /\ \E n \in job[w].todo : ListOne(w, n, slot[n] # NoSlot, "delete_call")
  /\ UNCHANGED <<store, used, issued, acked, faults>>

(* Every identity of the list was erased, and the application says so.     *)
DeleteAcked(w) ==
  /\ At(w, "delete_call")
  /\ acked' = acked \cup {job[w].seen[n] : n \in Read(job[w])}
  /\ Proceed(w, [job[w] EXCEPT !.pc = "delete_record"])
  /\ UNCHANGED <<store, used, issued, faults>>

(* A mutant: the count the application acknowledged is not compared.       *)
DeletePartialAccepted(w) ==
  /\ At(w, "delete_call")
  /\ Proceed(w, [job[w] EXCEPT !.pc = "delete_record"])
  /\ UNCHANGED <<store, used, issued, acked, faults>>

DeleteUnanswered(w) ==
  /\ At(w, "delete_call")
  /\ Proceed(w, [job[w] EXCEPT !.pc = "delete_backoff"])
  /\ UNCHANGED <<store, used, issued, acked, faults>>

DeleteBackoff(w) ==
  /\ At(w, "delete_backoff")
  /\ EventWrite(w, [event EXCEPT !.cleanup = "held"], Idle)

(* Create of the receipt; an earlier one is kept, count and all.           *)
DeleteRecord(w) ==
  /\ At(w, "delete_record")
  /\ receipt' = IF receipt = NoReceipt THEN Cardinality(Read(job[w])) ELSE receipt
  /\ Proceed(w, StartList(job[w], "final_list"))
  /\ UNCHANGED <<event, slot, session, invitation, used, issued, acked, faults>>

(* finalizeEvent lists the slots anew.                                     *)
FinalList(w) ==
  /\ At(w, "final_list")
  /\ \E n \in job[w].todo : ListOne(w, n, slot[n] # NoSlot, "final_mark")
  /\ UNCHANGED <<store, used, issued, acked, faults>>

(* markSessionDeleted: an index that exists becomes a tombstone.           *)
FinalMark(w) ==
  /\ At(w, "final_mark")
  /\ \E n \in Read(job[w]) :
       LET g == job[w].seen[n] IN
       /\ session' = IF session[g] = NoIndex THEN session
                     ELSE [session EXCEPT ![g] = [slot |-> n, deleted |-> TRUE]]
       /\ Proceed(w, [job[w] EXCEPT !.pc = "final_drop", !.num = n])
  /\ UNCHANGED <<event, slot, receipt, invitation, used, issued, acked, faults>>

(* A mutant: a slot that changed since the list is passed over.            *)
FinalDropConflictIgnored(w) ==
  LET n == job[w].num
      next == [job[w] EXCEPT !.pc = "final_mark", !.num = 0, !.seen[n] = NoGen]
  IN
  /\ At(w, "final_drop")
  /\ \/ DropSlot(w, n, next)
     \/ Refused(w, n, next) /\ UNCHANGED slot
  /\ UNCHANGED <<event, session, receipt, invitation, used, issued, acked, faults>>

(* DeleteRevision of that slot; any error but ErrNotFound ends the pass.   *)
FinalDrop(w) ==
  LET n == job[w].num
      next == [job[w] EXCEPT !.pc = "final_mark", !.num = 0, !.seen[n] = NoGen]
  IN
  /\ At(w, "final_drop")
  /\ \/ DropSlot(w, n, next)
     \/ slot[n] = NoSlot /\ Refused(w, n, next) /\ UNCHANGED slot
     \/ Refused(w, n, Idle) /\ UNCHANGED slot
  /\ UNCHANGED <<event, session, receipt, invitation, used, issued, acked, faults>>

(* A mutant: an invitation that is gone already is an error.               *)
FinalInvitationOnce(w) ==
  /\ At(w, "final_mark")
  /\ Read(job[w]) = {}
  /\ invitation' = FALSE
  /\ Proceed(w, IF invitation THEN [job[w] EXCEPT !.pc = "final_event"] ELSE Idle)
  /\ UNCHANGED <<event, slot, session, receipt, used, issued, acked, faults>>

FinalInvitation(w) ==
  /\ At(w, "final_mark")
  /\ Read(job[w]) = {}
  /\ invitation' = FALSE
  /\ Proceed(w, [job[w] EXCEPT !.pc = "final_event"])
  /\ UNCHANGED <<event, slot, session, receipt, used, issued, acked, faults>>

(* DeleteRevision of the event, at the revision of the claim.              *)
FinalEvent(w) ==
  /\ At(w, "final_event")
  /\ \/ /\ w \in holdsEvent
        /\ event' = NoEvent
        /\ Goto(w, Idle, {}, holdsSlot)
     \/ /\ w \notin holdsEvent
        /\ Proceed(w, Idle)
        /\ UNCHANGED event
  /\ UNCHANGED <<slot, session, receipt, invitation, used, issued, acked, faults>>

CleanEvent(w) ==
  \/ DeleteReceipt(w)
  \/ DeleteClaim(w)
  \/ DeleteList(w)
  \/ DeleteAcked(w)
  \/ DeleteUnanswered(w)
  \/ DeleteBackoff(w)
  \/ DeleteRecord(w)
  \/ FinalList(w)
  \/ FinalMark(w)
  \/ FinalDrop(w)
  \/ FinalInvitation(w)
  \/ FinalEvent(w)
=============================================================================
