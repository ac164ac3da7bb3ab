------------------------------- MODULE Recovery -------------------------------
(***************************************************************************)
(* Reconcile (access/recovery.go:213-280), as the recovery controller runs *)
(* it: scan the event and its slots, then carry on a deletion whose retry  *)
(* is due, or clean the slots that are expired or whose claim is due, at   *)
(* the revisions of the scan.                                              *)
(***************************************************************************)
EXTENDS EventDeletion

(* The event is read.  A deletion that is not due is left for later.       *)
ScanEvent(w) ==
  /\ At(w, "idle")
  /\ event # NoEvent
  /\ IF EventIs("deleting")
     THEN /\ event.cleanup # "held"
          /\ Goto(w, [Idle EXCEPT !.pc = "delete_receipt"], holdsEvent \cup {w}, holdsSlot)
     ELSE Proceed(w, StartList([Idle EXCEPT !.target = event.state], "scan_list"))
  /\ UNCHANGED <<store, used, issued, acked, faults>>

(* Mutants: reserved slots are reclaimed too; claims are retried in open   *)
(* events only; only claims are retried.                                   *)
NeedsCleanupReservedToo(n, state) ==
  /\ slot[n] # NoSlot
  /\ \/ slot[n].cleanup = "due"
     \/ slot[n].cleanup = "none" /\ state = "open" /\ slot[n].expired

NeedsCleanupWhenOpen(n, state) ==
  /\ slot[n] # NoSlot /\ state = "open"
  /\ \/ slot[n].cleanup = "due"
     \/ slot[n].cleanup = "none" /\ slot[n].expired /\ ~ slot[n].reserved

NeedsRetry(n, state) == slot[n] # NoSlot /\ slot[n].cleanup = "due"

(* A slot becomes a task if its claim is due, or if it is unclaimed, the   *)
(* event was open when it was read, and the slot is neither reserved nor   *)
(* within its grace period.                                                *)
NeedsCleanup(n, state) ==
  /\ slot[n] # NoSlot
  /\ \/ slot[n].cleanup = "due"
     \/ slot[n].cleanup = "none" /\ state = "open" /\ slot[n].expired /\ ~ slot[n].reserved

ScanList(w) ==
  /\ At(w, "scan_list")
  /\ \E n \in job[w].todo : ListOne(w, n, NeedsCleanup(n, job[w].target), "scan_pick")
  /\ UNCHANGED <<store, used, issued, acked, faults>>

(* The tasks one after the other.                                          *)
ScanPick(w) ==
  /\ At(w, "scan_pick")
  /\ \/ \E n \in Read(job[w]) : Proceed(w, [job[w] EXCEPT !.pc = "clean_claim", !.num = n])
     \/ Read(job[w]) = {} /\ Proceed(w, Idle)
  /\ UNCHANGED <<store, used, issued, acked, faults>>

NextTask(j) == [j EXCEPT !.pc = "scan_pick", !.num = 0, !.seen[j.num] = NoGen]

ScanCleanup(w) == CleanSlot(w, NextTask(job[w]), NextTask(job[w]))

Reconcile(w) ==
  \/ ScanList(w)
  \/ ScanPick(w)
  \/ ScanCleanup(w)
  \/ CleanEvent(w)
=============================================================================
