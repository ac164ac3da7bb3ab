----------------------------- MODULE GuestState -----------------------------
(***************************************************************************)
(* The state that every operation of the access service works on, and the  *)
(* reads and compare-and-set writes it does it with.                       *)
(*                                                                         *)
(* The service keeps everything in one key-value bucket.  This module      *)
(* follows ONE event: its record, its numbered slots, the hashed session   *)
(* index of every guest identity, the deletion receipt and the invitation  *)
(* index.  A guest identity is a slot generation: slot.Subject and         *)
(* slot.ResumeDigest are created with it and never shared (access/         *)
(* service.go:288-298), so one value of Gen stands for all three.          *)
(*                                                                         *)
(* Revisions.  A stored entry has a revision, a reader keeps the one it    *)
(* read and a conditional write succeeds iff it is still the current one.  *)
(* Only that test is ever made of a revision, so the model keeps its       *)
(* outcome: the workers whose remembered revision is the current one.  A   *)
(* write leaves just its writer there, a deletion leaves nobody.           *)
(*                                                                         *)
(* Time.  Instants are compared with now() and nothing else, so a slot is  *)
(* past its grace period or not, and a cleanup claim is held (its          *)
(* NextAttemptAt lies ahead) or due.  The clock may change either at any   *)
(* moment, without a write, hence without a new revision.                  *)
(***************************************************************************)
EXTENDS Naturals, FiniteSets

CONSTANTS
  MaxCapacity,        \* NGA_MAX_CAPACITY; slots are numbered 1..MaxCapacity
  Gen,                \* slot generations, i.e. guest identities
  GuestHandlers,      \* goroutines serving StartSession and RenewSession
  PresenterHandlers,  \* goroutines serving the presenter endpoints
  RecoveryWorkers,    \* recovery controllers, one for each running process
  Requests,           \* the kinds of request that arrive (see RequestKind)
  MaxFaults,          \* bound: crashes and failed or unanswered store calls
  LeaseSuffices,      \* does a cleanup always end before its claim is due again?
  NoGen, NoEvent, NoSlot, NoIndex, NoReceipt

Worker == GuestHandlers \cup PresenterHandlers \cup RecoveryWorkers
Slot   == 1 .. MaxCapacity

RequestKind == {"start", "renew", "open", "pause", "capacity", "release", "delete"}

EventState == {"draft", "open", "paused", "deleting"}
Claim      == {"none", "due", "held"}   \* CleanupProgress: nil, retry due, not due

Event == [state : EventState, capacity : 0 .. MaxCapacity, cleanup : Claim]
SlotRecord == [gen : Gen, reserved : BOOLEAN, expired : BOOLEAN, cleanup : Claim]
Index == [slot : Slot, deleted : BOOLEAN]

ASSUME BoundsAssumption ==
  /\ MaxCapacity \in Nat /\ MaxFaults \in Nat
  /\ Requests \subseteq RequestKind /\ LeaseSuffices \in BOOLEAN
ASSUME SentinelAssumption ==
  /\ NoGen \notin Gen
  /\ NoEvent \notin Event
  /\ NoSlot \notin SlotRecord
  /\ NoIndex \notin Index
  /\ NoReceipt \notin Nat
ASSUME RolesAssumption ==
  /\ GuestHandlers \cap PresenterHandlers = {}
  /\ GuestHandlers \cap RecoveryWorkers = {}
  /\ PresenterHandlers \cap RecoveryWorkers = {}

VARIABLES
  event,       \* the entry "event.<id>"
  slot,        \* the entries "slot.<id>.<number>"
  session,     \* the entries "session.<digest>", by identity
  receipt,     \* the entry "receipt.<id>": IdentitiesDeleted
  invitation,  \* does the entry "invitation.<digest>" exist?
  holdsEvent,  \* workers remembering the event's current revision
  holdsSlot,   \* the same for each slot
  used,        \* generations that were ever written
  issued,      \* history: identities whose token and cookie were handed out
  acked,       \* history: identities whose erasure was acknowledged in full
  job,         \* where each worker is in its operation, and what it has read
  faults      \* operations that died so far

store == <<event, slot, session, receipt, invitation>>
vars  == <<store, holdsEvent, holdsSlot, used, issued, acked, job, faults>>

-----------------------------------------------------------------------------
(* What a worker carries between two calls to the store.  seen[n] is the   *)
(* generation in the slot record it read (or wrote) for number n.          *)

PC == {"idle",
       "start_create", "start_inspect", "start_recreate", "start_recheck",
       "start_index", "start_undo", "start_undo_next",
       "renew_event", "renew_slot", "renew_put",
       "release_slot",
       "clean_claim", "clean_call", "clean_backoff", "clean_unindex", "clean_drop",
       "set_load", "set_put", "reserve_list", "reserve_put",
       "capacity_load", "capacity_put",
       "delete_begin", "delete_receipt", "delete_claim", "delete_list",
       "delete_call", "delete_backoff", "delete_record",
       "final_list", "final_mark", "final_drop", "final_event",
       "scan_list", "scan_pick"}

Job == [pc     : PC,
        num    : 0 .. MaxCapacity,          \* slot number being worked on
        cap    : 0 .. MaxCapacity,          \* capacity read or to be written
        target : EventState \cup {"none"},  \* state to be written, or read by a scan
        seen   : [Slot -> Gen \cup {NoGen}],
        todo   : SUBSET Slot]               \* keys a List has still to read

NothingSeen == [n \in Slot |-> NoGen]
Idle == [pc |-> "idle", num |-> 0, cap |-> 0, target |-> "none",
         seen |-> NothingSeen, todo |-> {}]

At(w, label) == job[w].pc = label
Own(w) == job[w].seen[job[w].num]   \* the identity w is working on
Read(j) == {n \in Slot : j.seen[n] # NoGen}

EventIs(state) == event # NoEvent /\ event.state = state
SlotHas(n, g) == slot[n] # NoSlot /\ slot[n].gen = g
Unclaimed(n) == slot[n] # NoSlot /\ slot[n].cleanup = "none"

-----------------------------------------------------------------------------
(* Worker w goes on as j.  he and hs are who remembers what after the call *)
(* to the store; w itself forgets the slots j no longer mentions, and      *)
(* everything when its operation returns.                                  *)
Goto(w, j, he, hs) ==
  /\ job' = [job EXCEPT ![w] = j]
  /\ holdsEvent' = IF j = Idle THEN he \ {w} ELSE he
  /\ holdsSlot' = [n \in Slot |-> IF j.seen[n] = NoGen THEN hs[n] \ {w} ELSE hs[n]]

Proceed(w, j) == Goto(w, j, holdsEvent, holdsSlot)

(* Who remembers the current revision of slot n after w has read, written  *)
(* or deleted it.                                                          *)
SlotRead(w, n)  == [holdsSlot EXCEPT ![n] = @ \cup {w}]
SlotWritten(w, n) == [holdsSlot EXCEPT ![n] = {w}]
SlotGone(n)     == [holdsSlot EXCEPT ![n] = {}]

(* Update with the revision w remembers: the record becomes rec.           *)
UpdateSlot(w, n, rec, j) ==
  /\ w \in holdsSlot[n]
  /\ slot' = [slot EXCEPT ![n] = rec]
  /\ Goto(w, j, holdsEvent, SlotWritten(w, n))

(* A mutant: Put instead of Update, whatever was written since the read.   *)
UpdateEventBlindly(w, rec, j) ==
  /\ event' = rec
  /\ Goto(w, j, {w}, holdsSlot)

UpdateEvent(w, rec, j) ==
  /\ w \in holdsEvent
  /\ event' = rec
  /\ Goto(w, j, {w}, holdsSlot)

(* DeleteRevision with the revision w remembers.                           *)
DropSlot(w, n, j) ==
  /\ w \in holdsSlot[n]
  /\ slot' = [slot EXCEPT ![n] = NoSlot]
  /\ Goto(w, j, holdsEvent, SlotGone(n))

(* The conditional write of w is refused.                                  *)
Refused(w, n, j) == w \notin holdsSlot[n] /\ Proceed(w, j)

(* One of the failures the instance allows.                                *)
Fault == faults < MaxFaults /\ faults' = faults + 1

(* One key of a List: w reads slot n, and keeps it if the caller wants it. *)
(* The NATS store enumerates keys and then gets them one by one, so other  *)
(* writes fall between (store/nats.go:69-95).                              *)
ListOne(w, n, wanted, pc) ==
  LET j == [job[w] EXCEPT !.todo = @ \ {n}, !.seen[n] = IF wanted THEN slot[n].gen ELSE NoGen]
      next == IF j.todo = {} THEN [j EXCEPT !.pc = pc] ELSE j
  IN  Goto(w, next, holdsEvent, IF wanted THEN SlotRead(w, n) ELSE holdsSlot)

StartList(j, pc) == [j EXCEPT !.pc = pc, !.todo = Slot, !.seen = NothingSeen]
=============================================================================
