---------------------------- MODULE EventRegister ----------------------------
(***************************************************************************)
(* One event as its presenters see it: who may do what to it, and which    *)
(* invitations admit to it (access/service.go:88-114, 172-263, 444-469,    *)
(* 560-576; access/recovery.go:168-193).                                   *)
(*                                                                         *)
(* The record and each invitation are entries of their own, so creation,   *)
(* rotation and deletion write several keys one after the other and clean  *)
(* up behind themselves with deletes whose errors are ignored.  Every      *)
(* write to the record is conditional on the revision that was read with   *)
(* it; as in GuestState a revision is the set of the workers that still    *)
(* remember the current one.  What is written is the copy that was read,   *)
(* with the change made to it, so the copy is kept as well.                *)
(*                                                                         *)
(* Opening and pausing write the record as UpdateCapacity does (EventAdmin *)
(* has them); the erasure of the guests between the intent to delete and   *)
(* the last two deletes is EventDeletion's.                                *)
(***************************************************************************)
EXTENDS Naturals, FiniteSets

CONSTANTS
  Owner,        \* the presenter that creates the event
  Presenter,    \* everybody else that passes presenter authentication
  Invitation,   \* digests of the secrets; each secret is drawn once
  Grants,       \* the sets of capabilities SetCohost is asked to give
  Handlers,     \* goroutines serving presenters
  MaxFaults,    \* bound: crashes and calls to the store that fail
  NoEvent, NoInvitation

Capability == {"operate", "inspect", "delete"}
Capacities == {0, 1}
Event == [deleting : BOOLEAN, capacity : Capacities, invitation : Invitation,
          cohosts : [Presenter -> SUBSET Capability]]

PC == {"idle", "create_index", "create_undo",
       "rotate_index", "rotate_put", "rotate_undo", "rotate_drop",
       "cohost_put", "capacity_put",
       "delete_begin", "delete_claim", "delete_invitation", "delete_event"}

Job == [pc    : PC,
        who   : Presenter \cup {Owner},            \* the authenticated principal
        read  : Event \cup {NoEvent},              \* the record as it was read or written
        fresh : Invitation \cup {NoInvitation},    \* the secret drawn by a rotation
        whom  : Presenter \cup {Owner},            \* SetCohost: the cohost
        grant : SUBSET Capability,                 \* SetCohost: the capabilities
        size  : Capacities]                        \* UpdateCapacity: the capacity

ASSUME RegisterAssumption ==
  /\ MaxFaults \in Nat
  /\ Owner \notin Presenter
  /\ Grants \subseteq SUBSET Capability
  /\ NoEvent \notin Event /\ NoInvitation \notin Invitation

VARIABLES
  event,    \* the entry "event.<id>"
  index,    \* digests d for which "invitation.<d>" exists
  drawn,    \* secrets drawn so far
  given,    \* history: invitations a presenter was given the link of
  early,    \* history: was the event rotated before its creation had returned?
  holds,    \* workers remembering the event's current revision
  job,      \* where each worker is, and what it carries
  faults    \* failures so far

vars == <<event, index, drawn, given, early, holds, job, faults>>

Idle == [pc |-> "idle", who |-> Owner, read |-> NoEvent, fresh |-> NoInvitation,
         whom |-> Owner, grant |-> {}, size |-> 0]

At(w, label) == job[w].pc = label
Live == event # NoEvent /\ ~ event.deleting
Fresh == Invitation \ drawn

(* can: the owner may do everything, a cohost what it was granted.         *)
Can(record, who, capability) ==
  \/ who = Owner
  \/ who \in Presenter /\ capability \in record.cohosts[who]

-----------------------------------------------------------------------------
Proceed(w, j) == job' = [job EXCEPT ![w] = j]
Fault == faults < MaxFaults /\ faults' = faults + 1

(* loadEvent: w has the record and its revision.                           *)
Load(w, j) ==
  /\ event # NoEvent
  /\ Proceed(w, [j EXCEPT !.read = event])
  /\ holds' = holds \cup {w}

(* The operation of w returns.                                             *)
Return(w) == Proceed(w, Idle) /\ holds' = holds \ {w}

(* Update at the revision w remembers.                                     *)
Put(w, record, j) ==
  /\ w \in holds
  /\ event' = record
  /\ holds' = {w}
  /\ Proceed(w, j)

(* Update that fails without an answer: done or not, w does not know.      *)
PutUnanswered(w, record, j) ==
  /\ Fault
  /\ \/ w \in holds /\ event' = record /\ holds' = {}
     \/ event' = event /\ holds' = holds \ {w}
  /\ Proceed(w, j)

-----------------------------------------------------------------------------
(* CreateEvent: the record, then its invitation; if that fails the record  *)
(* is taken back.  This event's id is new, so it is created once.          *)
CreateEvent(w) ==
  /\ At(w, "idle") /\ drawn = {}
  /\ \E d \in Invitation, size \in Capacities :
       LET record == [deleting |-> FALSE, capacity |-> size, invitation |-> d,
                      cohosts |-> [p \in Presenter |-> {}]]
       IN
       /\ drawn' = {d}
       /\ \/ /\ event' = record
             /\ Proceed(w, [Idle EXCEPT !.pc = "create_index", !.read = record, !.fresh = d])
             /\ UNCHANGED faults
          \/ /\ Fault
             /\ event' \in {event, record}
             /\ UNCHANGED job
  /\ UNCHANGED <<index, given, early, holds>>

CreateIndex(w) ==
  LET d == job[w].fresh IN
  /\ At(w, "create_index")
  /\ \/ /\ index' = index \cup {d}
        /\ given' = given \cup {d}
        /\ Return(w)
        /\ UNCHANGED faults
     \/ /\ Fault
        /\ index' \in {index, index \cup {d}}
        /\ Proceed(w, [job[w] EXCEPT !.pc = "create_undo"])
        /\ UNCHANGED <<given, holds>>
  /\ UNCHANGED <<event, drawn, early>>

(* The undo is an unconditional delete whose error is ignored.             *)
CreateUndo(w) ==
  /\ At(w, "create_undo")
  /\ \/ event' = NoEvent /\ holds' = {} /\ Proceed(w, Idle) /\ UNCHANGED faults
     \/ Fault /\ Return(w) /\ UNCHANGED event
  /\ UNCHANGED <<index, drawn, given, early>>

-----------------------------------------------------------------------------
(* RotateInvitation: the new invitation first, then the record, then away  *)
(* with the old invitation.  There is no second try.                       *)
RotateInvitation(w, who) ==
  /\ At(w, "idle")
  /\ Live /\ Can(event, who, "operate") /\ Fresh # {}
  /\ Load(w, [Idle EXCEPT !.pc = "rotate_index", !.who = who])
  /\ UNCHANGED <<event, index, drawn, given, early, faults>>

(* Mutants: the old invitation goes first; the new digest is lost on its   *)
(* way into the record.                                                    *)
RotateIndexOldFirst(w) ==
  /\ At(w, "rotate_index")
  /\ \E d \in Fresh :
       /\ drawn' = drawn \cup {d}
       /\ index' = (index \ {job[w].read.invitation}) \cup {d}
       /\ Proceed(w, [job[w] EXCEPT !.pc = "rotate_put", !.fresh = d])
  /\ UNCHANGED <<event, given, early, holds, faults>>

RotateIndexShadowed(w) ==
  /\ At(w, "rotate_index")
  /\ \E d \in Fresh :
       /\ drawn' = drawn \cup {d}
       /\ index' = index \cup {d}
       /\ Proceed(w, [job[w] EXCEPT !.pc = "rotate_put"])
  /\ UNCHANGED <<event, given, early, holds, faults>>

(* The new invitation is created; if that fails the rotation just returns. *)
RotateIndex(w) ==
  /\ At(w, "rotate_index")
  /\ \E d \in Fresh :
       /\ drawn' = drawn \cup {d}
       /\ \/ /\ index' = index \cup {d}
             /\ Proceed(w, [job[w] EXCEPT !.pc = "rotate_put", !.fresh = d])
             /\ UNCHANGED <<holds, faults>>
          \/ /\ Fault
             /\ index' \in {index, index \cup {d}}
             /\ Return(w)
  /\ UNCHANGED <<event, given, early>>

(* A mutant: a refused rotation leaves its invitation behind.              *)
RotatePutNoUndo(w) ==
  LET record == [job[w].read EXCEPT !.invitation = job[w].fresh] IN
  /\ At(w, "rotate_put")
  /\ \/ Put(w, record, [job[w] EXCEPT !.pc = "rotate_drop"])
     \/ w \notin holds /\ Return(w) /\ UNCHANGED event
  /\ UNCHANGED <<index, drawn, given, early, faults>>

(* Refused or failed, the rotation takes its own invitation back.          *)
RotatePut(w) ==
  LET record == [job[w].read EXCEPT !.invitation = job[w].fresh]
      undo   == [job[w] EXCEPT !.pc = "rotate_undo"]
  IN
  /\ At(w, "rotate_put")
  /\ \/ Put(w, record, [job[w] EXCEPT !.pc = "rotate_drop"]) /\ UNCHANGED faults
     \/ w \notin holds /\ Proceed(w, undo) /\ UNCHANGED <<event, holds, faults>>
     \/ PutUnanswered(w, record, undo)
  /\ early' = (early \/ (event' # event /\ \E v \in Handlers : At(v, "create_index")))
  /\ UNCHANGED <<index, drawn, given>>

(* Delete of an index that may be gone; whether it fails is not looked at. *)
Forget(d) ==
  \/ index' = index \ {d} /\ UNCHANGED faults
  \/ Fault /\ UNCHANGED index

(* A mutant: the undo deletes the digest of the record that was read.      *)
RotateUndoOld(w) ==
  /\ At(w, "rotate_undo")
  /\ Forget(job[w].read.invitation)
  /\ Return(w)
  /\ UNCHANGED <<event, drawn, given, early>>

RotateUndo(w) ==
  /\ At(w, "rotate_undo")
  /\ Forget(job[w].fresh)
  /\ Return(w)
  /\ UNCHANGED <<event, drawn, given, early>>

(* The old invitation is the one of the record as it was read.             *)
RotateDrop(w) ==
  /\ At(w, "rotate_drop")
  /\ Forget(job[w].read.invitation)
  /\ given' = given \cup {job[w].fresh}
  /\ Return(w)
  /\ UNCHANGED <<event, drawn, early>>

-----------------------------------------------------------------------------
(* SetCohost: the owner only, and never for itself.  An empty grant takes  *)
(* the cohost off.                                                         *)
CohostAllowed(record, who, whom) == who = Owner /\ whom # Owner /\ ~ record.deleting

SetCohost(w, who, whom, grant) ==
  /\ At(w, "idle")
  /\ event # NoEvent /\ CohostAllowed(event, who, whom)
  /\ Load(w, [Idle EXCEPT !.pc = "cohost_put", !.who = who, !.whom = whom, !.grant = grant])
  /\ UNCHANGED <<event, index, drawn, given, early, faults>>

(* A mutant: the retry takes the new revision and writes the old copy.     *)
PutOrRetryStale(w, record, allowed) ==
  /\ \/ /\ w \in holds /\ event' = record
        /\ holds' = {} /\ Proceed(w, Idle)
     \/ /\ w \notin holds /\ event # NoEvent
        /\ holds' = holds \cup {w}
        /\ UNCHANGED <<event, job>>
  /\ UNCHANGED <<index, drawn, given, early, faults>>

(* A write of the conflict loops: done and returned, or refused and tried  *)
(* again from a new read if that still allows it (five times in all, which *)
(* the model leaves open), or failed.                                      *)
PutOrRetry(w, record, allowed) ==
  /\ \/ /\ w \in holds /\ event' = record
        /\ holds' = {} /\ Proceed(w, Idle)
        /\ UNCHANGED faults
     \/ w \notin holds /\ allowed /\ Load(w, job[w]) /\ UNCHANGED <<event, faults>>
     \/ w \notin holds /\ Return(w) /\ UNCHANGED <<event, faults>>
     \/ PutUnanswered(w, record, Idle)
  /\ UNCHANGED <<index, drawn, given, early>>

CohostPut(w) ==
  LET j == job[w] IN
  /\ At(w, "cohost_put")
  /\ PutOrRetry(w, [j.read EXCEPT !.cohosts[j.whom] = j.grant],
                event # NoEvent /\ CohostAllowed(event, j.who, j.whom))

(* UpdateCapacity, and with another field SetState.                        *)
UpdateCapacity(w, who, size) ==
  /\ At(w, "idle")
  /\ Live /\ Can(event, who, "operate")
  /\ Load(w, [Idle EXCEPT !.pc = "capacity_put", !.who = who, !.size = size])
  /\ UNCHANGED <<event, index, drawn, given, early, faults>>

CapacityPut(w) ==
  LET j == job[w] IN
  /\ At(w, "capacity_put")
  /\ PutOrRetry(w, [j.read EXCEPT !.capacity = j.size],
                Live /\ Can(event, j.who, "operate"))

-----------------------------------------------------------------------------
(* DeleteEvent: the intent, the claim (another write to the record), and   *)
(* at the end of finalizeEvent the invitation the record names and the     *)
(* record.  A deletion that is under way is carried on.                    *)
DeleteEvent(w, who) ==
  /\ At(w, "idle")
  /\ event # NoEvent /\ Can(event, who, "delete")
  /\ Load(w, [Idle EXCEPT !.pc = IF event.deleting THEN "delete_claim" ELSE "delete_begin", !.who = who])
  /\ UNCHANGED <<event, index, drawn, given, early, faults>>

DeletePut(w, record, pc) ==
  /\ \/ Put(w, record, [job[w] EXCEPT !.pc = pc, !.read = record]) /\ UNCHANGED faults
     \/ w \notin holds /\ Return(w) /\ UNCHANGED <<event, faults>>
     \/ PutUnanswered(w, record, Idle)
  /\ UNCHANGED <<index, drawn, given, early>>

DeleteBegin(w) ==
  /\ At(w, "delete_begin")
  /\ DeletePut(w, [job[w].read EXCEPT !.deleting = TRUE], "delete_claim")

(* The claim; or there is a receipt, and finalization follows at once; or  *)
(* another claim is not due yet, or the erasure is not acknowledged.       *)
DeleteClaim(w) ==
  /\ At(w, "delete_claim")
  /\ \/ DeletePut(w, job[w].read, "delete_invitation")
     \/ /\ Proceed(w, [job[w] EXCEPT !.pc = "delete_invitation"])
        /\ UNCHANGED <<event, index, drawn, given, early, holds, faults>>
     \/ /\ Return(w)
        /\ UNCHANGED <<event, index, drawn, given, early, faults>>

DeleteInvitation(w) ==
  /\ At(w, "delete_invitation")
  /\ \/ /\ index' = index \ {job[w].read.invitation}
        /\ Proceed(w, [job[w] EXCEPT !.pc = "delete_event"])
        /\ UNCHANGED <<holds, faults>>
     \/ /\ Fault
        /\ index' \in {index, index \ {job[w].read.invitation}}
        /\ Return(w)
  /\ UNCHANGED <<event, drawn, given, early>>

FinishDeletion(w) ==
  /\ At(w, "delete_event")
  /\ \/ w \in holds /\ event' = NoEvent /\ holds' = {} /\ Proceed(w, Idle) /\ UNCHANGED faults
     \/ w \notin holds /\ Return(w) /\ UNCHANGED <<event, faults>>
     \/ PutUnanswered(w, NoEvent, Idle)
  /\ UNCHANGED <<index, drawn, given, early>>

(* The process dies, or the request is cancelled between two calls.        *)
Crash(w) ==
  /\ ~ At(w, "idle")
  /\ Fault
  /\ Return(w)
  /\ UNCHANGED <<event, index, drawn, given, early>>

-----------------------------------------------------------------------------
Init ==
  /\ event = NoEvent /\ index = {} /\ drawn = {} /\ given = {} /\ early = FALSE
  /\ holds = {}
  /\ job = [w \in Handlers |-> Idle]
  /\ faults = 0

Call(w, who) ==
  \/ RotateInvitation(w, who)
  \/ \E whom \in Presenter, grant \in Grants : SetCohost(w, who, whom, grant)
  \/ \E size \in Capacities : UpdateCapacity(w, who, size)
  \/ DeleteEvent(w, who)

Step(w) ==
  \/ CreateIndex(w) \/ CreateUndo(w)
  \/ RotateIndex(w) \/ RotatePut(w) \/ RotateUndo(w) \/ RotateDrop(w)
  \/ CohostPut(w) \/ CapacityPut(w)
  \/ DeleteBegin(w) \/ DeleteClaim(w) \/ DeleteInvitation(w) \/ FinishDeletion(w)
  \/ Crash(w)

Next ==
  \E w \in Handlers :
    \/ CreateEvent(w)
    \/ \E who \in Presenter \cup {Owner} : Call(w, who)
    \/ Step(w)

Spec == Init /\ [][Next]_vars

-----------------------------------------------------------------------------
(* Every variable has its type.                                            *)
TypeOK ==
  /\ event \in Event \cup {NoEvent}
  /\ index \subseteq Invitation /\ drawn \subseteq Invitation /\ given \subseteq Invitation
  /\ early \in BOOLEAN
  /\ holds \subseteq Handlers
  /\ job \in [Handlers -> Job]
  /\ faults \in 0 .. MaxFaults

(* A link a presenter was given admits until a later rotation has replaced *)
(* it in the record: neither the clean-up of a rotation that was refused   *)
(* nor that of one that succeeded removes the invitation in force          *)
(* (service.go:222, 225).                                                  *)
GivenInvitationAdmits ==
  (Live /\ event.invitation \in given) => event.invitation \in index

(* An event that was created has at every moment an invitation that        *)
(* admits, whatever rotations are under way, refused, or cut short: the    *)
(* new one is made before the old one goes (service.go:215-225).           *)
SomeInvitationAdmits == (Live /\ given # {}) => index # {}

(* When nobody is at work on a live event, the invitations that admit      *)
(* besides the one in the record are no more than the failures there were; *)
(* without a failure a rotation revokes everything before it, however many *)
(* rotate at once (service.go:219-225).  One more escapes if the event is  *)
(* rotated while CreateEvent is between its two writes (service.go:106,    *)
(* 109): the rotation deletes the first invitation before it exists.       *)
StraysAreFailures ==
  (Live /\ \A w \in Handlers : At(w, "idle"))
    => Cardinality(index \ {event.invitation}) <= faults + (IF early THEN 1 ELSE 0)

(* What a write of w may make of the record.                               *)
Lawful(j, old, new) ==
  \/ /\ j.pc = "rotate_put" /\ Can(old, j.who, "operate") /\ ~ old.deleting
     /\ new = [old EXCEPT !.invitation = new.invitation]
  \/ /\ j.pc = "capacity_put" /\ Can(old, j.who, "operate") /\ ~ old.deleting
     /\ new = [old EXCEPT !.capacity = new.capacity]
  \/ /\ j.pc = "cohost_put" /\ j.who = Owner /\ ~ old.deleting
     /\ new = [old EXCEPT !.cohosts[j.whom] = new.cohosts[j.whom]]
  \/ /\ j.pc = "delete_begin" /\ Can(old, j.who, "delete")
     /\ new = [old EXCEPT !.deleting = TRUE]

(* The record changes only in the field the request is about, and only for *)
(* somebody whom the very record that is replaced allows it: permission is *)
(* checked on a read (service.go:149, 181, 204, 240, 452) and used at the  *)
(* write, and a cohost taken off in between gets nothing written.          *)
WritesPermitted ==
  [][\A w \in Handlers :
       (event # NoEvent /\ event' # NoEvent /\ event' # event /\ job'[w] # job[w])
         => Lawful(job[w], event, event')]_vars
=============================================================================
