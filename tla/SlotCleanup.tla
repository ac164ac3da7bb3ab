---------------------------- MODULE SlotCleanup ----------------------------
(***************************************************************************)
(* cleanSlot (access/recovery.go:47-80): claim the slot by compare-and-    *)
(* set, ask the application to erase the identity, and only when it has    *)
(* acknowledged remove the session index and then the slot, at the         *)
(* revision of the claim.  Three callers use it (admission, release,       *)
(* recovery); each passes what it does next: done or failed.               *)
(***************************************************************************)
EXTENDS GuestState

(* claimCleanup on a slot w has read: a claim that is not due is pending.  *)
Claimable(n) == slot[n] # NoSlot /\ slot[n].cleanup # "held"

(* Mutants: a lost race for the claim is taken for a claim; the claim is   *)
(* not written into the record.                                            *)
CleanClaimUnchecked(w, failed) ==
  LET n == job[w].num
      next == [job[w] EXCEPT !.pc = "clean_call"]
  IN
  /\ At(w, "clean_claim")
  /\ \/ UpdateSlot(w, n, [slot[n] EXCEPT !.cleanup = "held"], next)
     \/ Refused(w, n, next) /\ UNCHANGED slot
  /\ UNCHANGED <<event, session, receipt, invitation, used, issued, acked, faults>>

CleanClaimInMemory(w, failed) ==
  /\ At(w, "clean_claim")
  /\ Proceed(w, [job[w] EXCEPT !.pc = "clean_call"])
  /\ UNCHANGED <<store, used, issued, acked, faults>>

(* The claim is written before the application is called.                  *)
CleanClaim(w, failed) ==
  LET n == job[w].num IN
  /\ At(w, "clean_claim")
  /\ \/ /\ UpdateSlot(w, n, [slot[n] EXCEPT !.cleanup = "held"], [job[w] EXCEPT !.pc = "clean_call"])
     \/ /\ Refused(w, n, failed)
        /\ UNCHANGED slot
  /\ UNCHANGED <<event, session, receipt, invitation, used, issued, acked, faults>>

(* The application erased the identity and the acknowledgement arrived.    *)
CleanAcked(w) ==
  /\ At(w, "clean_call")
  /\ acked' = acked \cup {Own(w)}
  /\ Proceed(w, [job[w] EXCEPT !.pc = "clean_unindex"])
  /\ UNCHANGED <<store, used, issued, faults>>

(* A mutant: cleanErr is not looked at.                                    *)
CleanErrorIgnored(w) ==
  /\ At(w, "clean_call")
  /\ Proceed(w, [job[w] EXCEPT !.pc = "clean_unindex"])
  /\ UNCHANGED <<store, used, issued, acked, faults>>

(* It failed, timed out, acknowledged too few, or its answer was lost.     *)
CleanUnanswered(w) ==
  /\ At(w, "clean_call")
  /\ Proceed(w, [job[w] EXCEPT !.pc = "clean_backoff"])
  /\ UNCHANGED <<store, used, issued, acked, faults>>

(* NextAttemptAt := now + retryDelay, unless somebody claimed meanwhile.   *)
CleanBackoff(w, failed) ==
  LET n == job[w].num IN
  /\ At(w, "clean_backoff")
  /\ \/ UpdateSlot(w, n, [slot[n] EXCEPT !.cleanup = "held"], failed)
     \/ Refused(w, n, failed) /\ UNCHANGED slot
  /\ UNCHANGED <<event, session, receipt, invitation, used, issued, acked, faults>>

(* deleteIfExists on the session index, tombstone or not.                  *)
CleanUnindex(w) ==
  /\ At(w, "clean_unindex")
  /\ session' = [session EXCEPT ![Own(w)] = NoIndex]
  /\ Proceed(w, [job[w] EXCEPT !.pc = "clean_drop"])
  /\ UNCHANGED <<event, slot, receipt, invitation, used, issued, acked, faults>>

(* A mutant: Delete instead of DeleteRevision.                             *)
CleanDropAnyRevision(w, done, failed) ==
  LET n == job[w].num IN
  /\ At(w, "clean_drop")
  /\ slot' = [slot EXCEPT ![n] = NoSlot]
  /\ Goto(w, done, holdsEvent, SlotGone(n))
  /\ UNCHANGED <<event, session, receipt, invitation, used, issued, acked, faults>>

(* DeleteRevision.  A key that is gone already is ErrNotFound in memory,   *)
(* which counts as done, and a revision mismatch in NATS.                  *)
CleanDrop(w, done, failed) ==
  LET n == job[w].num IN
  /\ At(w, "clean_drop")
  /\ \/ DropSlot(w, n, done)
     \/ slot[n] = NoSlot /\ Refused(w, n, done) /\ UNCHANGED slot
     \/ Refused(w, n, failed) /\ UNCHANGED slot
  /\ UNCHANGED <<event, session, receipt, invitation, used, issued, acked, faults>>

(* A call to the store fails: cleanSlot returns, and its caller goes on.   *)
(* What was written before, or by the very call, stays.                    *)
CleanFails(w, failed) ==
  /\ job[w].pc \in {"clean_claim", "clean_call", "clean_backoff", "clean_unindex", "clean_drop"}
  /\ Proceed(w, failed)
  /\ Fault
  /\ UNCHANGED <<store, used, issued, acked>>

CleanSlot(w, done, failed) ==
  \/ CleanClaim(w, failed)
  \/ CleanAcked(w)
  \/ CleanUnanswered(w)
  \/ CleanBackoff(w, failed)
  \/ CleanUnindex(w)
  \/ CleanDrop(w, done, failed)
  \/ CleanFails(w, failed)
=============================================================================
