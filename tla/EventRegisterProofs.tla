------------------------ MODULE EventRegisterProofs ------------------------
(***************************************************************************)
(* What holds of one event's record and invitations for any number of      *)
(* handlers, cohosts, rotations and failures.                              *)
(***************************************************************************)
EXTENDS EventRegister, FiniteSetTheorems, TLAPS

-----------------------------------------------------------------------------
(* Types.                                                                  *)

LEMMA IdleJob == Idle \in Job
BY DEF Idle, Job, PC, Capacities

(* What a worker carries at each place.                                    *)
Carried ==
  \A w \in Handlers :
    /\ ~ At(w, "idle") => job[w].read \in Event
    /\ job[w].pc \in {"create_index", "rotate_put", "rotate_undo", "rotate_drop"}
         => job[w].fresh \in Invitation
    /\ At(w, "cohost_put") => job[w].whom \in Presenter

Types == TypeOK /\ Carried

LEMMA InitTypes == Init => Types
<1> SUFFICES ASSUME Init PROVE Types
  OBVIOUS
<1>1. Idle.pc = "idle"
  BY DEF Idle
<1>2. job \in [Handlers -> Job] /\ \A w \in Handlers : job[w] = Idle
  BY IdleJob DEF Init
<1>3. 0 \in 0 .. MaxFaults
  BY RegisterAssumption
<1>4. TypeOK
  BY <1>2, <1>3 DEF Init, TypeOK
<1> QED
  BY <1>1, <1>2, <1>4 DEF Types, Carried, At

(* Moving on, with a record read or a secret drawn, stays a job.           *)
LEMMA JobMoves ==
  ASSUME NEW j \in Job, NEW pc \in PC
  PROVE  /\ [j EXCEPT !.pc = pc] \in Job
         /\ \A e \in Event : [j EXCEPT !.read = e] \in Job /\ [j EXCEPT !.pc = pc, !.read = e] \in Job
         /\ \A d \in Invitation : [j EXCEPT !.pc = pc, !.fresh = d] \in Job
BY DEF Job

(* What the operations write are records.                                  *)
LEMMA RecordChanges ==
  ASSUME NEW e \in Event
  PROVE  /\ \A d \in Invitation : [e EXCEPT !.invitation = d] \in Event
         /\ \A n \in Capacities : [e EXCEPT !.capacity = n] \in Event
         /\ [e EXCEPT !.deleting = TRUE] \in Event
         /\ \A p \in Presenter, g \in SUBSET Capability : [e EXCEPT !.cohosts[p] = g] \in Event
BY DEF Event

LEMMA ProceedTypes ==
  ASSUME TypeOK, NEW w \in Handlers, NEW j \in Job, Proceed(w, j)
  PROVE  job' \in [Handlers -> Job]
BY DEF TypeOK, Proceed
(* A step of w moves its job alone.                                        *)
LEMMA OneMoves ==
  ASSUME TypeOK, NEW w \in Handlers, NEW j \in Job, Proceed(w, j)
  PROVE  job'[w] = j /\ \A v \in Handlers \ {w} : job'[v] = job[v]
BY DEF TypeOK, Proceed

(* The types after a step of w that moves it to j.                         *)
LEMMA StepTypes ==
  ASSUME Types, NEW w \in Handlers, NEW j \in Job, Proceed(w, j),
         j.pc # "idle" => j.read \in Event,
         j.pc \in {"create_index", "rotate_put", "rotate_undo", "rotate_drop"} => j.fresh \in Invitation,
         j.pc = "cohost_put" => j.whom \in Presenter,
         event' \in Event \cup {NoEvent}, holds' \subseteq Handlers,
         index' \subseteq Invitation, drawn' \subseteq Invitation, given' \subseteq Invitation,
         early' \in BOOLEAN, faults' \in 0 .. MaxFaults
  PROVE  Types'
<1>1. job' \in [Handlers -> Job] /\ job'[w] = j /\ \A v \in Handlers \ {w} : job'[v] = job[v]
  BY ProceedTypes, OneMoves DEF Types
<1> QED
  BY <1>1 DEF Types, TypeOK, Carried, At

LEMMA FaultTypes == TypeOK /\ (Fault \/ UNCHANGED faults) => faults' \in 0 .. MaxFaults
BY RegisterAssumption DEF TypeOK, Fault
LEMMA PCs ==
  /\ \A pc \in {"idle", "create_index", "create_undo", "rotate_index", "rotate_put", "rotate_undo",
                "rotate_drop", "cohost_put", "capacity_put", "delete_begin", "delete_claim",
                "delete_invitation", "delete_event"} : pc \in PC
  /\ Idle.pc = "idle"
BY DEF PC, Idle

(* The operation of w returns: types hold whatever it leaves of the rest.  *)
LEMMA ReturnTypes ==
  ASSUME Types, NEW w \in Handlers, Proceed(w, Idle),
         event' \in Event \cup {NoEvent}, holds' \subseteq Handlers,
         index' \subseteq Invitation, drawn' \subseteq Invitation, given' \subseteq Invitation,
         early' \in BOOLEAN, faults' \in 0 .. MaxFaults
  PROVE  Types'
BY StepTypes, IdleJob, PCs

(* The outcomes of a write to the record.                                  *)
LEMMA PutTypes ==
  ASSUME Types, NEW w \in Handlers, NEW record \in Event \cup {NoEvent}, NEW j \in Job,
         Put(w, record, j) \/ PutUnanswered(w, record, j)
  PROVE  event' \in Event \cup {NoEvent} /\ holds' \subseteq Handlers /\ Proceed(w, j)
BY DEF Types, TypeOK, Put, PutUnanswered

LEMMA CreateTypes ==
  ASSUME Types, NEW w \in Handlers,
         CreateEvent(w) \/ CreateIndex(w) \/ CreateUndo(w)
  PROVE  Types'
<1>0. TypeOK /\ faults' \in 0 .. MaxFaults
  BY FaultTypes DEF Types, CreateEvent, CreateIndex, CreateUndo
<1>1. CASE CreateEvent(w)
  <2>1. PICK d \in Invitation, size \in Capacities :
          LET record == [deleting |-> FALSE, capacity |-> size, invitation |-> d,
                         cohosts |-> [p \in Presenter |-> {}]]
          IN  /\ drawn' = {d}
              /\ \/ /\ event' = record
                    /\ Proceed(w, [Idle EXCEPT !.pc = "create_index", !.read = record, !.fresh = d])
                 \/ event' \in {event, record} /\ UNCHANGED job
    BY <1>1 DEF CreateEvent
  <2> DEFINE record == [deleting |-> FALSE, capacity |-> size, invitation |-> d,
                        cohosts |-> [p \in Presenter |-> {}]]
             k == [Idle EXCEPT !.pc = "create_index", !.read = record, !.fresh = d]
  <2>2. record \in Event
    BY DEF Event
  <2>3. k \in Job /\ k.read = record /\ k.fresh = d /\ k.pc = "create_index"
    BY <2>2, PCs DEF Idle, Job, Capacities
  <2>4. index' = index /\ given' = given /\ early' = early /\ holds' = holds /\ drawn' \subseteq Invitation
    BY <1>1, <2>1 DEF CreateEvent
  <2> HIDE DEF record, k
  <2>5. CASE event' = record /\ Proceed(w, k)
    BY <1>0, <2>2, <2>3, <2>4, <2>5, StepTypes DEF TypeOK
  <2>6. CASE event' \in {event, record} /\ job' = job
    BY <1>0, <2>2, <2>4, <2>6 DEF Types, TypeOK, Carried, At
  <2> QED
    BY <2>1, <2>5, <2>6 DEF record, k
<1>2. CASE CreateIndex(w)
  <2> DEFINE k == [job[w] EXCEPT !.pc = "create_undo"]
  <2>1. job[w] \in Job /\ job[w].fresh \in Invitation /\ job[w].read \in Event
    BY <1>2 DEF CreateIndex, Types, TypeOK, Carried, At
  <2>2. k \in Job /\ k.read = job[w].read /\ k.pc = "create_undo"
    BY <2>1, JobMoves, PCs DEF Job
  <2>3. /\ index' \subseteq Invitation /\ given' \subseteq Invitation /\ holds' \subseteq Handlers
        /\ event' = event /\ drawn' = drawn /\ early' = early
    BY <1>0, <1>2, <2>1 DEF CreateIndex, TypeOK, Return
  <2>4. Proceed(w, Idle) \/ Proceed(w, k)
    BY <1>2 DEF CreateIndex, Return
  <2> HIDE DEF k
  <2> QED
    BY <1>0, <2>1, <2>2, <2>3, <2>4, StepTypes, ReturnTypes DEF TypeOK
<1>3. CASE CreateUndo(w)
  BY <1>0, <1>3, ReturnTypes DEF CreateUndo, Return, TypeOK
<1> QED
  BY <1>1, <1>2, <1>3
LEMMA LoadTypes ==
  ASSUME Types, NEW w \in Handlers, NEW k \in Job, Load(w, k),
         k.pc \in PC \ {"create_index", "rotate_put", "rotate_undo", "rotate_drop"},
         k.pc = "cohost_put" => k.whom \in Presenter,
         UNCHANGED <<event, index, drawn, given, early, faults>>
  PROVE  Types'
<1> DEFINE k2 == [k EXCEPT !.read = event]
<1>1. event \in Event /\ event \in Event \cup {NoEvent}
  BY DEF Load, Types, TypeOK
<1>2. k2 \in Job /\ k2.pc = k.pc /\ k2.read = event /\ k2.whom = k.whom
  BY <1>1, JobMoves DEF Job
<1>3. Proceed(w, k2) /\ holds' \subseteq Handlers
  BY DEF Load, Types, TypeOK
<1> HIDE DEF k2
<1> QED
  BY <1>1, <1>2, <1>3, StepTypes DEF Types, TypeOK

(* A request that has been let in reads the record.                        *)
LEMMA CallTypes ==
  ASSUME Types, NEW w \in Handlers, NEW who \in Presenter \cup {Owner}, Call(w, who)
  PROVE  Types'
<1>1. CASE RotateInvitation(w, who)
  <2> DEFINE k == [Idle EXCEPT !.pc = "rotate_index", !.who = who]
  <2>1. k \in Job /\ k.pc = "rotate_index" /\ k.pc \in PC
    BY IdleJob, PCs DEF Idle, Job
  <2> QED
    BY <1>1, <2>1, LoadTypes DEF RotateInvitation
<1>2. ASSUME NEW whom \in Presenter, NEW grant \in Grants, SetCohost(w, who, whom, grant)
      PROVE  Types'
  <2> DEFINE k == [Idle EXCEPT !.pc = "cohost_put", !.who = who, !.whom = whom, !.grant = grant]
  <2>1. k \in Job /\ k.pc = "cohost_put" /\ k.pc \in PC /\ k.whom = whom
    BY IdleJob, PCs, RegisterAssumption DEF Idle, Job
  <2> QED
    BY <1>2, <2>1, LoadTypes DEF SetCohost
<1>3. ASSUME NEW size \in Capacities, UpdateCapacity(w, who, size)
      PROVE  Types'
  <2> DEFINE k == [Idle EXCEPT !.pc = "capacity_put", !.who = who, !.size = size]
  <2>1. k \in Job /\ k.pc = "capacity_put" /\ k.pc \in PC
    BY IdleJob, PCs DEF Idle, Job
  <2> QED
    BY <1>3, <2>1, LoadTypes DEF UpdateCapacity
<1>4. CASE DeleteEvent(w, who)
  <2> DEFINE k == [Idle EXCEPT !.pc = IF event.deleting THEN "delete_claim" ELSE "delete_begin", !.who = who]
  <2>1. k \in Job /\ k.pc \in {"delete_claim", "delete_begin"} /\ k.pc \in PC
    BY IdleJob, PCs DEF Idle, Job
  <2> QED
    BY <1>4, <2>1, LoadTypes DEF DeleteEvent
<1> QED
  BY <1>1, <1>2, <1>3, <1>4 DEF Call

LEMMA RotateTypes ==
  ASSUME Types, NEW w \in Handlers,
         RotateIndex(w) \/ RotatePut(w) \/ RotateUndo(w) \/ RotateDrop(w)
  PROVE  Types'
<1>0. TypeOK /\ job[w] \in Job
  BY DEF Types, TypeOK
<1>1. CASE RotateIndex(w)
  <2>1. PICK d \in Fresh :
          /\ drawn' = drawn \cup {d}
          /\ \/ /\ index' = index \cup {d}
                /\ Proceed(w, [job[w] EXCEPT !.pc = "rotate_put", !.fresh = d])
                /\ UNCHANGED <<holds, faults>>
             \/ Fault /\ index' \in {index, index \cup {d}} /\ Return(w)
    BY <1>1 DEF RotateIndex
  <2> DEFINE k == [job[w] EXCEPT !.pc = "rotate_put", !.fresh = d]
  <2>2. d \in Invitation /\ job[w].read \in Event
    BY <1>1 DEF Fresh, RotateIndex, Types, Carried, At
  <2>3. k \in Job /\ k.pc = "rotate_put" /\ k.fresh = d /\ k.read = job[w].read
    BY <1>0, <2>2, JobMoves, PCs DEF Job
  <2>4. faults' \in 0 .. MaxFaults
    BY <1>0, <2>1, FaultTypes
  <2>5. drawn' \subseteq Invitation /\ index' \subseteq Invitation /\ holds' \subseteq Handlers
    BY <1>0, <2>1, <2>2 DEF TypeOK, Return
  <2>6. event' = event /\ given' = given /\ early' = early
    BY <1>1 DEF RotateIndex
  <2>7. Proceed(w, k) \/ Proceed(w, Idle)
    BY <2>1 DEF Return
  <2> HIDE DEF k
  <2> QED
    BY <1>0, <2>2, <2>3, <2>4, <2>5, <2>6, <2>7, StepTypes, ReturnTypes DEF TypeOK
<1>2. CASE RotatePut(w)
  <2> DEFINE record == [job[w].read EXCEPT !.invitation = job[w].fresh]
             drop == [job[w] EXCEPT !.pc = "rotate_drop"]
             undo == [job[w] EXCEPT !.pc = "rotate_undo"]
  <2>1. job[w].read \in Event /\ job[w].fresh \in Invitation
    BY <1>2 DEF RotatePut, Types, Carried, At
  <2>2. /\ drop \in Job /\ drop.pc = "rotate_drop" /\ drop.read = job[w].read /\ drop.fresh = job[w].fresh
        /\ undo \in Job /\ undo.pc = "rotate_undo" /\ undo.read = job[w].read /\ undo.fresh = job[w].fresh
    BY <1>0, JobMoves, PCs DEF Job
  <2>3. record \in Event \cup {NoEvent}
    BY <2>1, RecordChanges
  <2>4. /\ index' = index /\ drawn' = drawn /\ given' = given /\ early' \in BOOLEAN
        /\ faults' \in 0 .. MaxFaults
    BY <1>0, <1>2, FaultTypes DEF RotatePut, PutUnanswered, TypeOK
  <2>5. \/ Put(w, record, drop)
        \/ Proceed(w, undo) /\ UNCHANGED <<event, holds>>
        \/ PutUnanswered(w, record, undo)
    BY <1>2 DEF RotatePut
  <2> HIDE DEF record, drop, undo
  <2>6. /\ event' \in Event \cup {NoEvent} /\ holds' \subseteq Handlers
        /\ Proceed(w, drop) \/ Proceed(w, undo)
    BY <1>0, <2>2, <2>3, <2>5, PutTypes DEF TypeOK
  <2> QED
    BY <1>0, <2>1, <2>2, <2>4, <2>6, StepTypes DEF TypeOK
<1>3. CASE RotateUndo(w) \/ RotateDrop(w)
  <2>1. job[w].fresh \in Invitation
    BY <1>3 DEF RotateUndo, RotateDrop, Types, Carried, At
  <2>2. index' \subseteq Invitation /\ given' \subseteq Invitation /\ faults' \in 0 .. MaxFaults
    BY <1>0, <1>3, <2>1, FaultTypes DEF RotateUndo, RotateDrop, Forget, TypeOK
  <2> QED
    BY <1>0, <1>3, <2>2, ReturnTypes DEF RotateUndo, RotateDrop, Return, TypeOK
<1> QED
  BY <1>1, <1>2, <1>3

(* One turn of a conflict loop.                                            *)
LEMMA RetryTypes ==
  ASSUME Types, NEW w \in Handlers, job[w].pc \in {"cohost_put", "capacity_put"},
         NEW record \in Event, NEW allowed \in BOOLEAN, PutOrRetry(w, record, allowed)
  PROVE  Types'
<1>0. TypeOK /\ job[w] \in Job /\ (job[w].pc = "cohost_put" => job[w].whom \in Presenter)
  BY DEF Types, TypeOK, Carried, At
<1>1. CASE Load(w, job[w]) /\ UNCHANGED <<event, faults>>
  BY <1>0, <1>1, LoadTypes, PCs DEF PutOrRetry
<1>2. CASE Proceed(w, Idle)
  <2>1. /\ event' \in Event \cup {NoEvent} /\ holds' \subseteq Handlers /\ faults' \in 0 .. MaxFaults
    BY <1>0, <1>2, FaultTypes DEF PutOrRetry, Load, Return, PutUnanswered, TypeOK
  <2> QED
    BY <1>0, <1>2, <2>1, ReturnTypes DEF PutOrRetry, TypeOK
<1> QED
  BY <1>1, <1>2 DEF PutOrRetry, Return, PutUnanswered

LEMMA LoopTypes ==
  ASSUME Types, NEW w \in Handlers, CohostPut(w) \/ CapacityPut(w)
  PROVE  Types'
<1>0. TypeOK /\ job[w] \in Job
  BY DEF Types, TypeOK
<1>1. CASE CohostPut(w)
  <2> DEFINE record == [job[w].read EXCEPT !.cohosts[job[w].whom] = job[w].grant]
             allowed == event # NoEvent /\ CohostAllowed(event, job[w].who, job[w].whom)
  <2>1. /\ job[w].read \in Event /\ job[w].whom \in Presenter /\ job[w].grant \in SUBSET Capability
        /\ job[w].pc = "cohost_put"
    BY <1>0, <1>1 DEF CohostPut, Types, Carried, At, Job
  <2>2. record \in Event
    BY <2>1, RecordChanges
  <2>3. PutOrRetry(w, record, allowed)
    BY <1>1 DEF CohostPut
  <2>4. allowed \in BOOLEAN
    BY DEF CohostAllowed
  <2> HIDE DEF record, allowed
  <2> QED
    BY <2>1, <2>2, <2>3, <2>4, RetryTypes
<1>2. CASE CapacityPut(w)
  <2> DEFINE record == [job[w].read EXCEPT !.capacity = job[w].size]
             allowed == Live /\ Can(event, job[w].who, "operate")
  <2>1. job[w].read \in Event /\ job[w].size \in Capacities /\ job[w].pc = "capacity_put"
    BY <1>0, <1>2 DEF CapacityPut, Types, Carried, At, Job
  <2>2. record \in Event
    BY <2>1, RecordChanges
  <2>3. PutOrRetry(w, record, allowed)
    BY <1>2 DEF CapacityPut
  <2>4. allowed \in BOOLEAN
    BY DEF Live, Can
  <2> HIDE DEF record, allowed
  <2> QED
    BY <2>1, <2>2, <2>3, <2>4, RetryTypes
<1> QED
  BY <1>1, <1>2

LEMMA DeletePutTypes ==
  ASSUME Types, NEW w \in Handlers, NEW record \in Event, DeletePut(w, record, "delete_claim")
                                                       \/ DeletePut(w, record, "delete_invitation")
  PROVE  Types'
<1> DEFINE k(pc) == [job[w] EXCEPT !.pc = pc, !.read = record]
<1>0. TypeOK /\ job[w] \in Job
  BY DEF Types, TypeOK
<1>1. ASSUME NEW pc \in {"delete_claim", "delete_invitation"}
      PROVE  k(pc) \in Job /\ k(pc).pc = pc /\ k(pc).read = record
  <2>1. pc \in PC
    BY PCs
  <2>2. k(pc) \in Job
    BY <1>0, <2>1, JobMoves
  <2> QED
    BY <1>0, <2>2 DEF Job
<1>2. PICK pc \in {"delete_claim", "delete_invitation"} :
        \/ Put(w, record, k(pc)) /\ UNCHANGED faults
        \/ Return(w) /\ UNCHANGED <<event, faults>>
        \/ PutUnanswered(w, record, Idle)
  BY DEF DeletePut
<1>3. /\ index' = index /\ drawn' = drawn /\ given' = given /\ early' = early
      /\ faults' \in 0 .. MaxFaults
  BY <1>0, <1>2, FaultTypes DEF DeletePut, PutUnanswered
<1> HIDE DEF k
<1>4. /\ event' \in Event \cup {NoEvent} /\ holds' \subseteq Handlers
      /\ Proceed(w, k(pc)) \/ Proceed(w, Idle)
  BY <1>0, <1>1, <1>2, IdleJob, PutTypes DEF TypeOK, Return
<1> QED
  BY <1>0, <1>1, <1>3, <1>4, StepTypes, ReturnTypes DEF TypeOK

LEMMA DeleteTypes ==
  ASSUME Types, NEW w \in Handlers,
         DeleteBegin(w) \/ DeleteClaim(w) \/ DeleteInvitation(w) \/ FinishDeletion(w) \/ Crash(w)
  PROVE  Types'
<1>0. TypeOK /\ job[w] \in Job /\ (~ At(w, "idle") => job[w].read \in Event)
  BY DEF Types, TypeOK, Carried
<1>1. CASE DeleteBegin(w)
  <2>1. job[w].read \in Event
    BY <1>0, <1>1 DEF DeleteBegin, At
  <2> QED
    BY <1>1, <2>1, RecordChanges, DeletePutTypes DEF DeleteBegin
<1>2. CASE DeleteClaim(w)
  <2>1. job[w].read \in Event
    BY <1>0, <1>2 DEF DeleteClaim, At
  <2>2. CASE DeletePut(w, job[w].read, "delete_invitation")
    BY <2>1, <2>2, DeletePutTypes
  <2>3. CASE /\ Proceed(w, [job[w] EXCEPT !.pc = "delete_invitation"])
             /\ UNCHANGED <<event, index, drawn, given, early, holds, faults>>
    <3> DEFINE k == [job[w] EXCEPT !.pc = "delete_invitation"]
    <3>1. k \in Job /\ k.pc = "delete_invitation" /\ k.read = job[w].read
      BY <1>0, JobMoves, PCs DEF Job
    <3> HIDE DEF k
    <3> QED
      BY <1>0, <2>1, <2>3, <3>1, StepTypes DEF TypeOK, k
  <2>4. CASE Return(w) /\ UNCHANGED <<event, index, drawn, given, early, faults>>
    BY <1>0, <2>4, ReturnTypes DEF Return, TypeOK
  <2> QED
    BY <1>2, <2>2, <2>3, <2>4 DEF DeleteClaim
<1>3. CASE DeleteInvitation(w)
  <2> DEFINE k == [job[w] EXCEPT !.pc = "delete_event"]
  <2>1. job[w].read \in Event
    BY <1>0, <1>3 DEF DeleteInvitation, At
  <2>2. k \in Job /\ k.pc = "delete_event" /\ k.read = job[w].read
    BY <1>0, JobMoves, PCs DEF Job
  <2>3. /\ index' \subseteq Invitation /\ holds' \subseteq Handlers /\ faults' \in 0 .. MaxFaults
        /\ event' = event /\ drawn' = drawn /\ given' = given /\ early' = early
        /\ Proceed(w, k) \/ Proceed(w, Idle)
    BY <1>0, <1>3, FaultTypes DEF DeleteInvitation, Return, TypeOK
  <2> HIDE DEF k
  <2> QED
    BY <1>0, <2>1, <2>2, <2>3, StepTypes, ReturnTypes DEF TypeOK
<1>4. CASE FinishDeletion(w) \/ Crash(w)
  <2>1. Proceed(w, Idle) /\ faults' \in 0 .. MaxFaults
    BY <1>0, <1>4, FaultTypes DEF FinishDeletion, Crash, Return, PutUnanswered
  <2>2. /\ event' \in Event \cup {NoEvent} /\ holds' \subseteq Handlers
        /\ index' = index /\ drawn' = drawn /\ given' = given /\ early' = early
    BY <1>0, <1>4 DEF FinishDeletion, Crash, Return, PutUnanswered, TypeOK
  <2> QED
    BY <1>0, <2>1, <2>2, ReturnTypes DEF TypeOK
<1> QED
  BY <1>1, <1>2, <1>3, <1>4

LEMMA NextTypes == Types /\ [Next]_vars => Types'
<1> SUFFICES ASSUME Types, [Next]_vars PROVE Types'
  OBVIOUS
<1>1. CASE UNCHANGED vars
  BY <1>1 DEF vars, Types, TypeOK, Carried, At
<1>2. CASE Next
  BY <1>2, CreateTypes, CallTypes, RotateTypes, LoopTypes, DeleteTypes DEF Next, Step
<1> QED
  BY <1>1, <1>2

(* Every variable has its type.                                            *)
THEOREM RegisterTypes == Spec => []TypeOK
<1>1. Types => TypeOK
  BY DEF Types
<1> QED
  BY <1>1, InitTypes, NextTypes, PTL DEF Spec
-----------------------------------------------------------------------------
(* Permission.  Whoever remembers the revision has read the record as it   *)
(* is, and what was checked on the read holds of what is carried.          *)

Readers == {"rotate_index", "rotate_put", "cohost_put", "capacity_put", "delete_begin", "delete_claim"}

Deleters == {"delete_claim", "delete_invitation", "delete_event"}

Checked(j) ==
  /\ j.pc \in {"rotate_index", "rotate_put", "capacity_put"}
       => Can(j.read, j.who, "operate") /\ ~ j.read.deleting
  /\ j.pc = "cohost_put" => j.who = Owner /\ ~ j.read.deleting
  /\ j.pc = "delete_begin" => Can(j.read, j.who, "delete")
  /\ j.pc \in Deleters => j.read.deleting

(* Before the event is created there is nothing and nobody at work.        *)
Unborn == drawn = {} => /\ event = NoEvent /\ given = {}
                        /\ \A w \in Handlers : job[w] = Idle

ReadInv ==
  /\ Types /\ Unborn
  /\ \A w \in Handlers :
       /\ (w \in holds /\ job[w].pc \in Readers) => event = job[w].read
       /\ job[w].pc \in Deleters => ~ Live
       /\ Checked(job[w])

LEMMA InitRead == Init => ReadInv
<1> SUFFICES ASSUME Init PROVE ReadInv
  OBVIOUS
<1>1. \A w \in Handlers : job[w] = Idle
  BY DEF Init
<1> QED
  BY <1>1, InitTypes, PCs DEF ReadInv, Init, Unborn, Checked, Readers, Deleters

(* A step that moves w to j: another worker keeps its revision only if the *)
(* record stays, and a deletion is never taken back.                       *)
LEMMA ReadStep ==
  ASSUME ReadInv, Types', NEW w \in Handlers, NEW j \in Job, Proceed(w, j),
         drawn' # {},
         (event' = event /\ holds' \subseteq holds \cup {w}) \/ holds' \subseteq {w},
         ~ Live => ~ Live',
         (w \in holds' /\ j.pc \in Readers) => event' = j.read,
         j.pc \in Deleters => ~ Live',
         Checked(j)
  PROVE  ReadInv'
<1>1. job'[w] = j /\ \A v \in Handlers \ {w} : job'[v] = job[v]
  BY OneMoves DEF ReadInv, Types
<1>2. ASSUME NEW v \in Handlers \ {w}
      PROVE  /\ (v \in holds' /\ job'[v].pc \in Readers) => event' = job'[v].read
             /\ job'[v].pc \in Deleters => ~ Live'
             /\ Checked(job[v])'
  BY <1>1 DEF ReadInv, Checked, Can
<1>3. Checked(job[w])'
  BY <1>1 DEF Checked, Can
<1> QED
  BY <1>1, <1>2, <1>3 DEF ReadInv, Unborn

(* Returning is such a step.                                               *)
LEMMA ReadReturn ==
  ASSUME ReadInv, Types', NEW w \in Handlers, Proceed(w, Idle),
         drawn' # {},
         (event' = event /\ holds' \subseteq holds \cup {w}) \/ holds' \subseteq {w},
         ~ Live => ~ Live'
  PROVE  ReadInv'
<1>1. Idle \in Job /\ Idle.pc = "idle"
  BY IdleJob, PCs
<1>2. Checked(Idle) /\ Idle.pc \notin Readers \cup Deleters
  BY <1>1 DEF Checked, Readers, Deleters
<1> QED
  BY <1>1, <1>2, ReadStep

(* A worker that is not idle has an event that was created.                *)
LEMMA Working == ReadInv => \A w \in Handlers : ~ At(w, "idle") => drawn # {}
BY PCs DEF ReadInv, Unborn, At
LEMMA CreateRead ==
  ASSUME ReadInv, NEW w \in Handlers,
         CreateEvent(w) \/ CreateIndex(w) \/ CreateUndo(w)
  PROVE  ReadInv'
<1>0. Types' /\ Idle.pc = "idle"
  BY CreateTypes, PCs DEF ReadInv
<1>1. CASE CreateEvent(w)
  <2>1. /\ \A v \in Handlers : job[v] = Idle
        /\ drawn' # {}
    BY <1>1 DEF CreateEvent, ReadInv, Unborn
  <2>2. \A v \in Handlers :
          \/ job'[v] = Idle
          \/ v = w /\ job'[v].pc = "create_index"
    <3> DEFINE k(record, d) == [Idle EXCEPT !.pc = "create_index", !.read = record, !.fresh = d]
    <3>1. job' = job \/ \E record, d : Proceed(w, k(record, d))
      BY <1>1 DEF CreateEvent
    <3>2. \A record, d : k(record, d).pc = "create_index"
      BY DEF Idle
    <3>3. DOMAIN job = Handlers
      BY DEF ReadInv, Types, TypeOK
    <3> HIDE DEF k
    <3> QED
      BY <2>1, <3>1, <3>2, <3>3 DEF Proceed
  <2> QED
    BY <1>0, <2>1, <2>2 DEF ReadInv, Unborn, Readers, Deleters, Checked
<1>2. CASE CreateIndex(w)
  <2> DEFINE k == [job[w] EXCEPT !.pc = "create_undo"]
  <2>1. job[w] \in Job /\ drawn # {}
    BY <1>2, Working DEF CreateIndex, ReadInv, Types, TypeOK, At
  <2>2. k \in Job /\ k.pc = "create_undo"
    BY <2>1, JobMoves, PCs DEF Job
  <2>3. Checked(k) /\ k.pc \notin Readers \cup Deleters
    BY <2>2 DEF Checked, Readers, Deleters
  <2>4. event' = event /\ drawn' = drawn /\ Live' = Live
    BY <1>2 DEF CreateIndex, Live
  <2>5. CASE Proceed(w, k) /\ holds' = holds
    BY <1>0, <2>1, <2>2, <2>3, <2>4, <2>5, ReadStep
  <2>6. CASE Return(w)
    BY <1>0, <2>1, <2>4, <2>6, ReadReturn DEF Return
  <2> QED
    BY <1>2, <2>5, <2>6 DEF CreateIndex
<1>3. CASE CreateUndo(w)
  <2>1. drawn # {} /\ drawn' = drawn /\ Proceed(w, Idle)
    BY <1>3, Working DEF CreateUndo, Return, At
  <2>2. (event' = event /\ holds' \subseteq holds \cup {w}) \/ holds' \subseteq {w}
    BY <1>3 DEF CreateUndo, Return
  <2>3. ~ Live => ~ Live'
    BY <1>3 DEF CreateUndo, Live
  <2> QED
    BY <1>0, <2>1, <2>2, <2>3, ReadReturn
<1> QED
  BY <1>1, <1>2, <1>3

(* A read with what was checked on it.                                     *)
LEMMA LoadRead ==
  ASSUME ReadInv, Types', NEW w \in Handlers, NEW k \in Job, Load(w, k), drawn' = drawn, event' = event,
         Checked([k EXCEPT !.read = event]), k.pc \in Deleters => ~ Live
  PROVE  ReadInv'
<1> DEFINE k2 == [k EXCEPT !.read = event]
<1>1. event \in Event /\ drawn # {}
  BY DEF Load, ReadInv, Types, TypeOK, Unborn
<1>2. k2 \in Job /\ k2.read = event /\ k2.pc = k.pc
  BY <1>1, JobMoves DEF Job
<1>3. Proceed(w, k2) /\ holds' = holds \cup {w} /\ Live' = Live
  BY DEF Load, Live
<1> HIDE DEF k2
<1> QED
  BY <1>1, <1>2, <1>3, ReadStep DEF k2

LEMMA CallRead ==
  ASSUME ReadInv, NEW w \in Handlers, NEW who \in Presenter \cup {Owner}, Call(w, who)
  PROVE  ReadInv'
<1>0. Types'
  BY CallTypes DEF ReadInv
<1>1. CASE RotateInvitation(w, who)
  <2> DEFINE k == [Idle EXCEPT !.pc = "rotate_index", !.who = who]
             k2 == [k EXCEPT !.read = event]
  <2>1. k \in Job /\ k.pc = "rotate_index" /\ k.who = who
    BY IdleJob, PCs DEF Idle, Job
  <2>2. k2.pc = "rotate_index" /\ k2.who = who /\ k2.read = event
    BY DEF Idle
  <2>3. Checked(k2)
    BY <1>1, <2>2 DEF Checked, Deleters, RotateInvitation, Live
  <2> QED
    BY <1>0, <1>1, <2>1, <2>3, LoadRead DEF RotateInvitation, Deleters
<1>2. ASSUME NEW whom \in Presenter, NEW grant \in Grants, SetCohost(w, who, whom, grant)
      PROVE  ReadInv'
  <2> DEFINE k == [Idle EXCEPT !.pc = "cohost_put", !.who = who, !.whom = whom, !.grant = grant]
             k2 == [k EXCEPT !.read = event]
  <2>1. k \in Job /\ k.pc = "cohost_put"
    BY IdleJob, PCs, RegisterAssumption DEF Idle, Job
  <2>2. k2.pc = "cohost_put" /\ k2.who = who /\ k2.read = event
    BY DEF Idle
  <2>3. Checked(k2)
    BY <1>2, <2>2 DEF Checked, Deleters, SetCohost, CohostAllowed
  <2> QED
    BY <1>0, <1>2, <2>1, <2>3, LoadRead DEF SetCohost, Deleters
<1>3. ASSUME NEW size \in Capacities, UpdateCapacity(w, who, size)
      PROVE  ReadInv'
  <2> DEFINE k == [Idle EXCEPT !.pc = "capacity_put", !.who = who, !.size = size]
             k2 == [k EXCEPT !.read = event]
  <2>1. k \in Job /\ k.pc = "capacity_put"
    BY IdleJob, PCs DEF Idle, Job
  <2>2. k2.pc = "capacity_put" /\ k2.who = who /\ k2.read = event
    BY DEF Idle
  <2>3. Checked(k2)
    BY <1>3, <2>2 DEF Checked, Deleters, UpdateCapacity, Live
  <2> QED
    BY <1>0, <1>3, <2>1, <2>3, LoadRead DEF UpdateCapacity, Deleters
<1>4. CASE DeleteEvent(w, who)
  <2> DEFINE k == [Idle EXCEPT !.pc = IF event.deleting THEN "delete_claim" ELSE "delete_begin", !.who = who]
             k2 == [k EXCEPT !.read = event]
  <2>1. /\ k \in Job
        /\ k.pc = IF event.deleting THEN "delete_claim" ELSE "delete_begin"
    BY IdleJob, PCs DEF Idle, Job
  <2>2. /\ k2.pc = IF event.deleting THEN "delete_claim" ELSE "delete_begin"
        /\ k2.who = who /\ k2.read = event
    BY DEF Idle
  <2>3. Checked(k2) /\ (k.pc \in Deleters => ~ Live)
    BY <1>4, <2>1, <2>2 DEF Checked, Deleters, DeleteEvent, Live
  <2> QED
    BY <1>0, <1>4, <2>1, <2>3, LoadRead DEF DeleteEvent
<1> QED
  BY <1>1, <1>2, <1>3, <1>4 DEF Call

(* A worker that moves on with what it carries, or with a secret drawn.    *)
LEMMA ReadMove ==
  ASSUME ReadInv, Types', NEW w \in Handlers, NEW j \in Job, Proceed(w, j), ~ At(w, "idle"),
         drawn \subseteq drawn',
         (event' = event /\ holds' \subseteq holds \cup {w}) \/ holds' \subseteq {w},
         ~ Live => ~ Live',
         j.pc \notin Readers \cup Deleters
  PROVE  ReadInv'
<1>1. drawn' # {}
  BY Working
<1>2. Checked(j)
  BY DEF Checked, Readers, Deleters
<1> QED
  BY <1>1, <1>2, ReadStep
(* Carrying on with the same read keeps what was checked on it.            *)
LEMMA ReadKept ==
  ASSUME ReadInv, Types', NEW w \in Handlers, NEW j \in Job, Proceed(w, j), ~ At(w, "idle"),
         drawn \subseteq drawn', event' = event, holds' \subseteq holds,
         job[w].pc \in Readers, j.pc \in Readers, j.read = job[w].read,
         j.pc \notin Deleters,
         Checked(j)
  PROVE  ReadInv'
<1>1. drawn' # {} /\ Live' = Live
  BY Working DEF Live
<1>2. (w \in holds' /\ j.pc \in Readers) => event' = j.read
  BY DEF ReadInv
<1> QED
  BY <1>1, <1>2, ReadStep

LEMMA RotateRead ==
  ASSUME ReadInv, NEW w \in Handlers,
         RotateIndex(w) \/ RotatePut(w) \/ RotateUndo(w) \/ RotateDrop(w)
  PROVE  ReadInv'
<1>0. Types' /\ ~ At(w, "idle") /\ job[w] \in Job /\ Checked(job[w]) /\ drawn # {}
  BY RotateTypes, Working DEF ReadInv, Types, TypeOK, RotateIndex, RotatePut, RotateUndo, RotateDrop, At
<1>1. CASE RotateIndex(w)
  <2>1. PICK d \in Fresh :
          /\ drawn' = drawn \cup {d}
          /\ \/ /\ Proceed(w, [job[w] EXCEPT !.pc = "rotate_put", !.fresh = d])
                /\ UNCHANGED holds
             \/ Return(w)
    BY <1>1 DEF RotateIndex
  <2> DEFINE k == [job[w] EXCEPT !.pc = "rotate_put", !.fresh = d]
  <2>2. /\ k \in Job /\ k.pc = "rotate_put" /\ k.read = job[w].read /\ k.who = job[w].who
    BY <1>0, JobMoves, PCs DEF Job, Fresh
  <2>3. Checked(k) /\ job[w].pc = "rotate_index"
    BY <1>0, <1>1, <2>2 DEF Checked, Deleters, RotateIndex, At
  <2>4. event' = event /\ Live' = Live
    BY <1>1 DEF RotateIndex, Live
  <2> HIDE DEF k
  <2>5. CASE Proceed(w, k) /\ UNCHANGED holds
    BY <1>0, <2>1, <2>2, <2>3, <2>4, <2>5, ReadKept DEF Readers, Deleters
  <2>6. CASE Return(w)
    BY <1>0, <2>1, <2>4, <2>6, ReadReturn DEF Return
  <2> QED
    BY <2>1, <2>5, <2>6 DEF k
<1>2. CASE RotatePut(w)
  <2> DEFINE record == [job[w].read EXCEPT !.invitation = job[w].fresh]
             k(label) == [job[w] EXCEPT !.pc = label]
  <2>1. ASSUME NEW label \in {"rotate_drop", "rotate_undo"}
        PROVE  k(label) \in Job /\ k(label).pc = label
    <3>1. label \in PC
      BY PCs
    <3>2. k(label) \in Job
      BY <1>0, <3>1, JobMoves
    <3> QED
      BY <1>0, <3>2 DEF Job
  <2>2. PICK label \in {"rotate_drop", "rotate_undo"} :
          \/ Put(w, record, k(label))
          \/ Proceed(w, k(label)) /\ UNCHANGED <<event, holds>>
          \/ PutUnanswered(w, record, k(label))
    BY <1>2 DEF RotatePut
  <2>3. record # NoEvent /\ record.deleting = job[w].read.deleting /\ ~ job[w].read.deleting
        /\ (w \in holds => event = job[w].read) /\ job[w].read # NoEvent
    <3>1. job[w].read \in Event /\ job[w].fresh \in Invitation /\ job[w].pc = "rotate_put"
      BY <1>2 DEF RotatePut, ReadInv, Types, Carried, At
    <3> QED
      BY <1>0, <3>1, RecordChanges, RegisterAssumption DEF Checked, ReadInv, Readers, Event
  <2>4. ~ Live => ~ Live'
    BY <2>2, <2>3 DEF Live, Put, PutUnanswered
  <2>5. /\ (event' = event /\ holds' \subseteq holds \cup {w}) \/ holds' \subseteq {w}
        /\ Proceed(w, k(label)) /\ drawn' = drawn
    BY <1>2, <2>2 DEF Put, PutUnanswered, RotatePut
  <2>6. label \notin Readers \cup Deleters
    BY DEF Readers, Deleters
  <2> HIDE DEF k, record
  <2> QED
    BY <1>0, <2>1, <2>4, <2>5, <2>6, ReadMove
<1>3. CASE RotateUndo(w) \/ RotateDrop(w)
  BY <1>0, <1>3, ReadReturn DEF RotateUndo, RotateDrop, Return, Live
<1> QED
  BY <1>1, <1>2, <1>3

(* What the holder of the revision writes in a conflict loop keeps the     *)
(* event alive, or as dead as it was.                                      *)
LEMMA RetryRead ==
  ASSUME ReadInv, Types', NEW w \in Handlers, job[w].pc \in {"cohost_put", "capacity_put"},
         NEW record \in Event, record.deleting = job[w].read.deleting,
         NEW allowed \in BOOLEAN, PutOrRetry(w, record, allowed),
         allowed => Checked([job[w] EXCEPT !.read = event])
  PROVE  ReadInv'
<1>0. /\ ~ At(w, "idle") /\ job[w] \in Job /\ drawn # {} /\ drawn' = drawn
      /\ (w \in holds => event = job[w].read)
  BY Working, PCs DEF ReadInv, Types, TypeOK, At, Readers, PutOrRetry
<1>1. CASE allowed /\ Load(w, job[w]) /\ event' = event
  BY <1>0, <1>1, LoadRead DEF Deleters
<1>2. CASE Proceed(w, Idle) /\ event' = event /\ holds' \subseteq holds
  BY <1>0, <1>2, ReadReturn DEF Live
<1>3. CASE Proceed(w, Idle) /\ w \in holds /\ event' = record /\ holds' = {}
  <2>1. ~ Live => ~ Live'
    <3>1. job[w].read \in Event
      BY <1>0 DEF ReadInv, Types, Carried
    <3> QED
      BY <1>0, <1>3, <3>1, RegisterAssumption DEF Live
  <2> QED
    BY <1>0, <1>3, <2>1, ReadReturn
<1> QED
  BY <1>1, <1>2, <1>3 DEF PutOrRetry, Return, PutUnanswered

LEMMA LoopRead ==
  ASSUME ReadInv, NEW w \in Handlers, CohostPut(w) \/ CapacityPut(w)
  PROVE  ReadInv'
<1>0. Types' /\ job[w] \in Job
  BY LoopTypes DEF ReadInv, Types, TypeOK
<1>1. CASE CohostPut(w)
  <2> DEFINE record == [job[w].read EXCEPT !.cohosts[job[w].whom] = job[w].grant]
             allowed == event # NoEvent /\ CohostAllowed(event, job[w].who, job[w].whom)
             k == [job[w] EXCEPT !.read = event]
  <2>1. /\ job[w].read \in Event /\ job[w].whom \in Presenter /\ job[w].grant \in SUBSET Capability
        /\ job[w].pc = "cohost_put"
    BY <1>0, <1>1 DEF CohostPut, ReadInv, Types, Carried, At, Job
  <2>2. record \in Event /\ record.deleting = job[w].read.deleting
    BY <2>1, RecordChanges DEF Event
  <2>3. PutOrRetry(w, record, allowed) /\ allowed \in BOOLEAN
    BY <1>1 DEF CohostPut, CohostAllowed
  <2>4. k.pc = "cohost_put" /\ k.who = job[w].who /\ k.read = event
    BY <1>0, <2>1 DEF Job
  <2>5. allowed => Checked(k)
    BY <2>4 DEF Checked, CohostAllowed, Deleters
  <2> HIDE DEF record, allowed
  <2> QED
    BY <1>0, <2>1, <2>2, <2>3, <2>5, RetryRead
<1>2. CASE CapacityPut(w)
  <2> DEFINE record == [job[w].read EXCEPT !.capacity = job[w].size]
             allowed == Live /\ Can(event, job[w].who, "operate")
             k == [job[w] EXCEPT !.read = event]
  <2>1. job[w].read \in Event /\ job[w].size \in Capacities /\ job[w].pc = "capacity_put"
    BY <1>0, <1>2 DEF CapacityPut, ReadInv, Types, Carried, At, Job
  <2>2. record \in Event /\ record.deleting = job[w].read.deleting
    BY <2>1, RecordChanges DEF Event
  <2>3. PutOrRetry(w, record, allowed) /\ allowed \in BOOLEAN
    BY <1>2 DEF CapacityPut, Live, Can
  <2>4. k.pc = "capacity_put" /\ k.who = job[w].who /\ k.read = event
    BY <1>0, <2>1 DEF Job
  <2>5. allowed => Checked(k)
    BY <2>4 DEF Checked, Live, Deleters
  <2> HIDE DEF record, allowed
  <2> QED
    BY <1>0, <2>1, <2>2, <2>3, <2>5, RetryRead
<1> QED
  BY <1>1, <1>2

LEMMA DeletePutRead ==
  ASSUME ReadInv, Types', NEW w \in Handlers, job[w].pc \in {"delete_begin", "delete_claim"},
         NEW record \in Event, record.deleting = TRUE, NEW pc \in {"delete_claim", "delete_invitation"},
         DeletePut(w, record, pc)
  PROVE  ReadInv'
<1> DEFINE k == [job[w] EXCEPT !.pc = pc, !.read = record]
<1>0. job[w] \in Job /\ drawn # {} /\ drawn' = drawn
  BY Working, PCs DEF ReadInv, Types, TypeOK, At, DeletePut
<1>1. k \in Job /\ k.pc = pc /\ k.read = record
  <2>1. pc \in PC
    BY PCs
  <2>2. k \in Job
    BY <1>0, <2>1, JobMoves
  <2> QED
    BY <1>0, <2>2 DEF Job
<1>2. Checked(k)
  BY <1>1 DEF Checked
<1>3. CASE Put(w, record, k)
  <2>1. ~ Live' /\ event' = record /\ holds' = {w} /\ Proceed(w, k)
    BY <1>3 DEF Put, Live
  <2> HIDE DEF k
  <2> QED
    BY <1>0, <1>1, <1>2, <2>1, ReadStep
<1>4. CASE Return(w) /\ event' = event
  BY <1>0, <1>4, ReadReturn DEF Return, Live
<1>5. CASE PutUnanswered(w, record, Idle)
  <2>1. /\ Proceed(w, Idle) /\ (~ Live => ~ Live')
        /\ (event' = event /\ holds' \subseteq holds \cup {w}) \/ holds' \subseteq {w}
    BY <1>5 DEF PutUnanswered, Live
  <2> QED
    BY <1>0, <2>1, ReadReturn
<1> QED
  BY <1>3, <1>4, <1>5 DEF DeletePut

LEMMA DeleteRead ==
  ASSUME ReadInv, NEW w \in Handlers,
         DeleteBegin(w) \/ DeleteClaim(w) \/ DeleteInvitation(w) \/ FinishDeletion(w) \/ Crash(w)
  PROVE  ReadInv'
<1>0. /\ Types' /\ job[w] \in Job /\ ~ At(w, "idle") /\ job[w].read \in Event /\ drawn # {}
      /\ Checked(job[w]) /\ (job[w].pc \in Deleters => ~ Live)
  BY DeleteTypes, Working DEF ReadInv, Types, TypeOK, Carried, At, DeleteBegin, DeleteClaim,
     DeleteInvitation, FinishDeletion, Crash
<1>1. CASE DeleteBegin(w)
  <2> DEFINE record == [job[w].read EXCEPT !.deleting = TRUE]
  <2>1. record \in Event /\ record.deleting = TRUE /\ job[w].pc = "delete_begin"
    BY <1>0, <1>1, RecordChanges DEF Event, DeleteBegin, At
  <2> QED
    BY <1>0, <1>1, <2>1, DeletePutRead DEF DeleteBegin
<1>2. CASE DeleteClaim(w)
  <2>1. job[w].pc = "delete_claim" /\ job[w].read.deleting = TRUE
    BY <1>0, <1>2 DEF DeleteClaim, At, Checked, Deleters, Event
  <2>2. CASE DeletePut(w, job[w].read, "delete_invitation")
    BY <1>0, <2>1, <2>2, DeletePutRead
  <2>3. CASE /\ Proceed(w, [job[w] EXCEPT !.pc = "delete_invitation"])
             /\ UNCHANGED <<event, index, drawn, given, early, holds, faults>>
    <3> DEFINE k == [job[w] EXCEPT !.pc = "delete_invitation"]
    <3>1. k \in Job /\ k.pc = "delete_invitation" /\ k.read = job[w].read
      BY <1>0, JobMoves, PCs DEF Job
    <3>2. Checked(k) /\ ~ Live /\ ~ Live' /\ k.pc \notin Readers
      BY <1>0, <2>1, <2>3, <3>1 DEF Checked, Deleters, Live, Readers
    <3> HIDE DEF k
    <3> QED
      BY <1>0, <2>3, <3>1, <3>2, ReadStep DEF k
  <2>4. CASE Return(w) /\ UNCHANGED <<event, index, drawn, given, early, faults>>
    BY <1>0, <2>4, ReadReturn DEF Return, Live
  <2> QED
    BY <1>2, <2>2, <2>3, <2>4 DEF DeleteClaim
<1>3. CASE DeleteInvitation(w)
  <2> DEFINE k == [job[w] EXCEPT !.pc = "delete_event"]
  <2>1. k \in Job /\ k.pc = "delete_event" /\ k.read = job[w].read
    BY <1>0, JobMoves, PCs DEF Job
  <2>2. /\ Checked(k) /\ ~ Live /\ ~ Live' /\ k.pc \notin Readers
        /\ event' = event /\ drawn' = drawn
    BY <1>0, <1>3, <2>1 DEF Checked, Deleters, DeleteInvitation, At, Live, Readers
  <2>3. (Proceed(w, k) /\ holds' = holds) \/ Return(w)
    BY <1>3 DEF DeleteInvitation
  <2> HIDE DEF k
  <2> QED
    BY <1>0, <2>1, <2>2, <2>3, ReadStep, ReadReturn DEF Return
<1>4. CASE FinishDeletion(w) \/ Crash(w)
  <2>1. /\ Proceed(w, Idle) /\ (~ Live => ~ Live') /\ drawn' = drawn
        /\ (event' = event /\ holds' \subseteq holds \cup {w}) \/ holds' \subseteq {w}
    BY <1>4 DEF FinishDeletion, Crash, Return, PutUnanswered, Live
  <2> QED
    BY <1>0, <2>1, ReadReturn
<1> QED
  BY <1>1, <1>2, <1>3, <1>4

LEMMA NextRead == ReadInv /\ [Next]_vars => ReadInv'
<1> SUFFICES ASSUME ReadInv, [Next]_vars PROVE ReadInv'
  OBVIOUS
<1>1. CASE UNCHANGED vars
  BY <1>1 DEF vars, ReadInv, Types, TypeOK, Carried, At, Unborn, Checked, Can, Live
<1>2. CASE Next
  BY <1>2, CreateRead, CallRead, RotateRead, LoopRead, DeleteRead DEF Next, Step
<1> QED
  BY <1>1, <1>2
(* A write of the record by w, at the revision it remembers.               *)
LEMMA LawfulWrites ==
  ASSUME ReadInv, NEW w \in Handlers, Step(w), event # NoEvent, event' # NoEvent, event' # event
  PROVE  Lawful(job[w], event, event')
<1>0. job[w] \in Job /\ Checked(job[w]) /\ (~ At(w, "idle") => job[w].read \in Event)
  BY DEF ReadInv, Types, TypeOK, Carried
<1>1. (w \in holds /\ job[w].pc \in Readers) => event = job[w].read
  BY DEF ReadInv
<1>2. CASE RotatePut(w)
  <2>1. /\ job[w].pc = "rotate_put" /\ w \in holds
        /\ event' = [job[w].read EXCEPT !.invitation = job[w].fresh]
    BY <1>2 DEF RotatePut, At, Put, PutUnanswered
  <2>2. event = job[w].read /\ event \in Event
    BY <1>0, <1>1, <2>1 DEF Readers, At
  <2>3. event' = [event EXCEPT !.invitation = event'.invitation]
    BY <2>1, <2>2 DEF Event
  <2> QED
    BY <1>0, <2>1, <2>2, <2>3 DEF Lawful, Checked
<1>3. CASE CohostPut(w)
  <2>1. /\ job[w].pc = "cohost_put" /\ w \in holds
        /\ event' = [job[w].read EXCEPT !.cohosts[job[w].whom] = job[w].grant]
    BY <1>3 DEF CohostPut, PutOrRetry, At, PutUnanswered
  <2>2. event = job[w].read /\ event \in Event /\ job[w].whom \in Presenter
    BY <1>0, <1>1, <2>1 DEF Readers, At, ReadInv, Types, Carried
  <2>3. event'.cohosts[job[w].whom] = job[w].grant
    BY <2>1, <2>2 DEF Event
  <2>4. event' = [event EXCEPT !.cohosts[job[w].whom] = event'.cohosts[job[w].whom]]
    BY <2>1, <2>2, <2>3
  <2> QED
    BY <1>0, <2>1, <2>2, <2>4 DEF Lawful, Checked
<1>4. CASE CapacityPut(w)
  <2>1. /\ job[w].pc = "capacity_put" /\ w \in holds
        /\ event' = [job[w].read EXCEPT !.capacity = job[w].size]
    BY <1>4 DEF CapacityPut, PutOrRetry, At, PutUnanswered
  <2>2. event = job[w].read /\ event \in Event
    BY <1>0, <1>1, <2>1 DEF Readers, At
  <2>3. event' = [event EXCEPT !.capacity = event'.capacity]
    BY <2>1, <2>2 DEF Event
  <2> QED
    BY <1>0, <2>1, <2>2, <2>3 DEF Lawful, Checked
<1>5. CASE DeleteBegin(w)
  <2>1. /\ job[w].pc = "delete_begin" /\ w \in holds
        /\ event' = [job[w].read EXCEPT !.deleting = TRUE]
    BY <1>5 DEF DeleteBegin, DeletePut, Put, At, PutUnanswered
  <2>2. event = job[w].read
    BY <1>1, <2>1 DEF Readers
  <2> QED
    BY <1>0, <2>1, <2>2 DEF Lawful, Checked
<1>6. CASE DeleteClaim(w)
  <2>1. job[w].pc = "delete_claim" /\ w \in holds /\ event' = job[w].read
    BY <1>6 DEF DeleteClaim, DeletePut, Put, At, PutUnanswered
  <2> QED
    BY <1>1, <2>1 DEF Readers
<1>7. CASE CreateIndex(w) \/ CreateUndo(w) \/ RotateIndex(w) \/ RotateUndo(w) \/ RotateDrop(w)
           \/ DeleteInvitation(w) \/ FinishDeletion(w) \/ Crash(w)
  BY <1>7 DEF CreateIndex, CreateUndo, RotateIndex, RotateUndo, RotateDrop, DeleteInvitation,
     FinishDeletion, Crash, PutUnanswered
<1> QED
  BY <1>2, <1>3, <1>4, <1>5, <1>6, <1>7 DEF Step

(* Only the worker that takes a step moves.                                *)
LEMMA OthersStay ==
  ASSUME Types, NEW w \in Handlers, NEW v \in Handlers \ {w},
         \/ CreateEvent(v) \/ Step(v)
         \/ \E who \in Presenter \cup {Owner} : Call(v, who)
  PROVE  job'[w] = job[w]
<1>1. job' = job \/ \E j : Proceed(v, j)
  <2>1. CASE CreateEvent(v)
    BY <2>1 DEF CreateEvent
  <2>2. CASE \E who \in Presenter \cup {Owner} : Call(v, who)
    BY <2>2 DEF Call, RotateInvitation, SetCohost, UpdateCapacity, DeleteEvent, Load
  <2>3. CASE CreateIndex(v) \/ CreateUndo(v) \/ RotateIndex(v) \/ RotatePut(v) \/ RotateUndo(v)
             \/ RotateDrop(v) \/ DeleteInvitation(v) \/ FinishDeletion(v) \/ Crash(v)
    BY <2>3 DEF CreateIndex, CreateUndo, RotateIndex, RotatePut, RotateUndo, RotateDrop,
       DeleteInvitation, FinishDeletion, Crash, Return, Put, PutUnanswered
  <2>4. CASE CohostPut(v) \/ CapacityPut(v) \/ DeleteBegin(v) \/ DeleteClaim(v)
    BY <2>4 DEF CohostPut, CapacityPut, DeleteBegin, DeleteClaim, DeletePut, PutOrRetry, Load, Return,
       Put, PutUnanswered
  <2> QED
    BY <2>1, <2>2, <2>3, <2>4 DEF Step
<1> QED
  BY <1>1 DEF Proceed, Types, TypeOK

(* The record changes only in the field the request is about, and only for *)
(* somebody whom the very record that is replaced allows it.               *)
THEOREM WritesArePermitted == Spec => WritesPermitted
<1>1. ReadInv /\ [Next]_vars =>
        [\A w \in Handlers :
           (event # NoEvent /\ event' # NoEvent /\ event' # event /\ job'[w] # job[w])
             => Lawful(job[w], event, event')]_vars
  <2> SUFFICES ASSUME ReadInv, Next, NEW w \in Handlers,
                      event # NoEvent, event' # NoEvent, event' # event, job'[w] # job[w]
               PROVE  Lawful(job[w], event, event')
    OBVIOUS
  <2>1. \/ CreateEvent(w) \/ Step(w)
        \/ \E who \in Presenter \cup {Owner} : Call(w, who)
    BY OthersStay DEF Next, ReadInv
  <2>2. ~ CreateEvent(w)
    BY DEF CreateEvent, ReadInv, Unborn
  <2>3. ~ \E who \in Presenter \cup {Owner} : Call(w, who)
    BY DEF Call, RotateInvitation, SetCohost, UpdateCapacity, DeleteEvent
  <2> QED
    BY <2>1, <2>2, <2>3, LawfulWrites
<1> QED
  BY <1>1, InitRead, NextRead, PTL DEF Spec, WritesPermitted
-----------------------------------------------------------------------------
(* Invitations.  A secret belongs to the worker that drew it until it is   *)
(* in force; what a rotation has replaced never comes back.                *)

Drawing == {"create_index", "create_undo", "rotate_put", "rotate_undo", "rotate_drop"}

Secrets ==
  /\ event # NoEvent => event.invitation \in drawn
  /\ given \subseteq drawn /\ index \subseteq drawn
  /\ \A w \in Handlers :
       /\ ~ At(w, "idle") => job[w].read.invitation \in drawn
       /\ job[w].pc \in Drawing =>
            /\ job[w].fresh \in drawn
            /\ \A v \in Handlers \ {w} : job[v].pc \in Drawing => job[v].fresh # job[w].fresh

(* The secret of a rotation that has yet to write the record is in nobody  *)
(* else's hands; that of one that was refused was never given out.         *)
Unpublished ==
  \A w \in Handlers :
    /\ job[w].pc \in {"rotate_put", "rotate_undo"} => job[w].fresh \notin given
    /\ At(w, "rotate_put") =>
         /\ job[w].fresh \in index
         /\ event # NoEvent => event.invitation # job[w].fresh
         /\ \A v \in Handlers : ~ At(v, "idle") => job[v].read.invitation # job[w].fresh

(* A rotation that has written the record has replaced what it read, and   *)
(* its own invitation admits as long as it is in force.                    *)
Replaced ==
  \A w \in Handlers :
    (At(w, "rotate_drop") /\ Live) =>
      /\ event.invitation # job[w].read.invitation
      /\ event.invitation = job[w].fresh => job[w].fresh \in index

(* d is not about to be deleted by anybody.                                *)
Safe(d) ==
  \A w \in Handlers :
    /\ job[w].pc \in {"rotate_put", "rotate_undo"} => job[w].fresh # d
    /\ At(w, "rotate_drop") => job[w].read.invitation # d

SomeSafe ==
  (Live /\ (given # {} \/ \E w \in Handlers : At(w, "rotate_drop"))) => \E d \in index : Safe(d)

InviteInv == ReadInv /\ Secrets /\ Unpublished /\ Replaced /\ GivenInvitationAdmits /\ SomeSafe

LEMMA InitInvite == Init => InviteInv
<1> SUFFICES ASSUME Init PROVE InviteInv
  OBVIOUS
<1>1. \A w \in Handlers : job[w].pc = "idle"
  BY PCs DEF Init
<1>2. event = NoEvent /\ index = {} /\ drawn = {} /\ given = {}
  BY DEF Init
<1> QED
  BY <1>1, <1>2, InitRead DEF InviteInv, Secrets, Unpublished, Replaced, GivenInvitationAdmits, SomeSafe,
     At, Live, Drawing

(* A step of w that touches no invitation and draws no secret: the record  *)
(* keeps its invitation or goes.                                           *)
LEMMA CalmStep ==
  ASSUME InviteInv, ReadInv', NEW w \in Handlers, NEW j \in Job, Proceed(w, j),
         UNCHANGED <<index, drawn, given>>,
         event' # NoEvent => event # NoEvent /\ event'.invitation = event.invitation,
         Live' => Live,
         j.pc \notin Drawing,
         j.pc # "idle" => \/ event # NoEvent /\ j.read.invitation = event.invitation
                          \/ ~ At(w, "idle") /\ j.read.invitation = job[w].read.invitation
  PROVE  InviteInv'
<1>1. job'[w] = j /\ \A v \in Handlers \ {w} : job'[v] = job[v]
  BY OneMoves DEF InviteInv, ReadInv, Types
<1>2. Secrets'
  BY <1>1 DEF InviteInv, Secrets, At
<1>3. Unpublished'
  BY <1>1 DEF InviteInv, Unpublished, At, Drawing
<1>4. Replaced'
  BY <1>1 DEF InviteInv, Replaced, At, Drawing, Live
<1>5. GivenInvitationAdmits'
  BY DEF InviteInv, GivenInvitationAdmits, Live
<1>6. SomeSafe'
  <2>1. (Live' /\ (given' # {} \/ \E v \in Handlers : At(v, "rotate_drop")')) =>
          (Live /\ (given # {} \/ \E v \in Handlers : At(v, "rotate_drop")))
    BY <1>1 DEF At, Drawing
  <2>2. \A d \in index : Safe(d) => Safe(d)'
    BY <1>1 DEF Safe, At, Drawing
  <2> QED
    BY <2>1, <2>2 DEF InviteInv, SomeSafe
<1> QED
  BY <1>2, <1>3, <1>4, <1>5, <1>6 DEF InviteInv
(* Returning, with the invitations left alone, is calm.                    *)
LEMMA CalmReturn ==
  ASSUME InviteInv, ReadInv', NEW w \in Handlers, Proceed(w, Idle),
         UNCHANGED <<index, drawn, given>>,
         event' # NoEvent => event # NoEvent /\ event'.invitation = event.invitation,
         Live' => Live
  PROVE  InviteInv'
BY CalmStep, IdleJob, PCs DEF Drawing

LEMMA CalmLoad ==
  ASSUME InviteInv, ReadInv', NEW w \in Handlers, NEW k \in Job, Load(w, k), k.pc \notin Drawing,
         UNCHANGED <<event, index, drawn, given>>
  PROVE  InviteInv'
<1> DEFINE k2 == [k EXCEPT !.read = event]
<1>1. event \in Event /\ event # NoEvent
  BY DEF Load, InviteInv, ReadInv, Types, TypeOK
<1>2. k2 \in Job /\ k2.read = event /\ k2.pc = k.pc
  BY <1>1, JobMoves DEF Job
<1>3. Proceed(w, k2) /\ Live' = Live
  BY DEF Load, Live
<1> HIDE DEF k2
<1> QED
  BY <1>1, <1>2, <1>3, CalmStep

LEMMA CalmCall ==
  ASSUME InviteInv, NEW w \in Handlers, NEW who \in Presenter \cup {Owner}, Call(w, who)
  PROVE  InviteInv'
<1>0. ReadInv'
  BY CallRead DEF InviteInv
<1>1. CASE RotateInvitation(w, who)
  <2> DEFINE k == [Idle EXCEPT !.pc = "rotate_index", !.who = who]
  <2>1. k \in Job /\ k.pc \notin Drawing
    BY IdleJob, PCs DEF Idle, Job, Drawing
  <2> QED
    BY <1>0, <1>1, <2>1, CalmLoad DEF RotateInvitation
<1>2. ASSUME NEW whom \in Presenter, NEW grant \in Grants, SetCohost(w, who, whom, grant)
      PROVE  InviteInv'
  <2> DEFINE k == [Idle EXCEPT !.pc = "cohost_put", !.who = who, !.whom = whom, !.grant = grant]
  <2>1. k \in Job /\ k.pc \notin Drawing
    BY IdleJob, PCs, RegisterAssumption DEF Idle, Job, Drawing
  <2> QED
    BY <1>0, <1>2, <2>1, CalmLoad DEF SetCohost
<1>3. ASSUME NEW size \in Capacities, UpdateCapacity(w, who, size)
      PROVE  InviteInv'
  <2> DEFINE k == [Idle EXCEPT !.pc = "capacity_put", !.who = who, !.size = size]
  <2>1. k \in Job /\ k.pc \notin Drawing
    BY IdleJob, PCs DEF Idle, Job, Drawing
  <2> QED
    BY <1>0, <1>3, <2>1, CalmLoad DEF UpdateCapacity
<1>4. CASE DeleteEvent(w, who)
  <2> DEFINE k == [Idle EXCEPT !.pc = IF event.deleting THEN "delete_claim" ELSE "delete_begin", !.who = who]
  <2>1. k \in Job /\ k.pc \notin Drawing
    BY IdleJob, PCs DEF Idle, Job, Drawing
  <2> QED
    BY <1>0, <1>4, <2>1, CalmLoad DEF DeleteEvent
<1> QED
  BY <1>1, <1>2, <1>3, <1>4 DEF Call

(* One turn of a conflict loop is calm: what it writes keeps the           *)
(* invitation of the record it has read.                                   *)
LEMMA CalmRetry ==
  ASSUME InviteInv, ReadInv', NEW w \in Handlers, job[w].pc \in {"cohost_put", "capacity_put"},
         NEW record, record # NoEvent, record.invitation = job[w].read.invitation, record.deleting = job[w].read.deleting,
         NEW allowed, PutOrRetry(w, record, allowed)
  PROVE  InviteInv'
<1>0. /\ job[w] \in Job /\ job[w].read \in Event /\ job[w].read # NoEvent
      /\ (w \in holds => event = job[w].read) /\ job[w].pc \notin Drawing
      /\ UNCHANGED <<index, drawn, given>>
  BY RegisterAssumption DEF InviteInv, ReadInv, Types, TypeOK, Carried, At, Readers, Drawing, PutOrRetry
<1>1. CASE Load(w, job[w]) /\ event' = event
  BY <1>0, <1>1, CalmLoad
<1>2. CASE Proceed(w, Idle) /\ event' = event
  BY <1>0, <1>2, CalmReturn DEF Live
<1>3. CASE Proceed(w, Idle) /\ w \in holds /\ event' = record
  BY <1>0, <1>3, CalmReturn DEF Live
<1> QED
  BY <1>1, <1>2, <1>3 DEF PutOrRetry, Return, PutUnanswered

LEMMA CalmLoop ==
  ASSUME InviteInv, NEW w \in Handlers, CohostPut(w) \/ CapacityPut(w)
  PROVE  InviteInv'
<1>0. ReadInv' /\ job[w] \in Job /\ NoEvent \notin Event
  BY LoopRead, RegisterAssumption DEF InviteInv, ReadInv, Types, TypeOK
<1>1. CASE CohostPut(w)
  <2> DEFINE record == [job[w].read EXCEPT !.cohosts[job[w].whom] = job[w].grant]
             allowed == event # NoEvent /\ CohostAllowed(event, job[w].who, job[w].whom)
  <2>1. /\ job[w].read \in Event /\ job[w].whom \in Presenter /\ job[w].grant \in SUBSET Capability
        /\ job[w].pc = "cohost_put"
    BY <1>0, <1>1 DEF CohostPut, InviteInv, ReadInv, Types, Carried, At, Job
  <2>2. record # NoEvent
    BY <1>0, <2>1, RecordChanges
  <2>3. record.invitation = job[w].read.invitation /\ record.deleting = job[w].read.deleting
    BY <2>1 DEF Event
  <2>4. PutOrRetry(w, record, allowed)
    BY <1>1 DEF CohostPut
  <2> HIDE DEF record, allowed
  <2> QED
    BY <1>0, <2>1, <2>2, <2>3, <2>4, CalmRetry
<1>2. CASE CapacityPut(w)
  <2> DEFINE record == [job[w].read EXCEPT !.capacity = job[w].size]
             allowed == Live /\ Can(event, job[w].who, "operate")
  <2>1. job[w].read \in Event /\ job[w].size \in Capacities /\ job[w].pc = "capacity_put"
    BY <1>0, <1>2 DEF CapacityPut, InviteInv, ReadInv, Types, Carried, At, Job
  <2>2. record # NoEvent
    BY <1>0, <2>1, RecordChanges
  <2>3. record.invitation = job[w].read.invitation /\ record.deleting = job[w].read.deleting
    BY <2>1 DEF Event
  <2>4. PutOrRetry(w, record, allowed)
    BY <1>2 DEF CapacityPut
  <2> HIDE DEF record, allowed
  <2> QED
    BY <1>0, <2>1, <2>2, <2>3, <2>4, CalmRetry
<1> QED
  BY <1>1, <1>2

LEMMA CalmDeletePut ==
  ASSUME InviteInv, ReadInv', NEW w \in Handlers, job[w].pc \in {"delete_begin", "delete_claim"},
         NEW record \in Event, record.invitation = job[w].read.invitation, record.deleting = TRUE,
         NEW pc \in {"delete_claim", "delete_invitation"}, DeletePut(w, record, pc)
  PROVE  InviteInv'
<1> DEFINE k == [job[w] EXCEPT !.pc = pc, !.read = record]
<1>0. /\ job[w] \in Job /\ job[w].read \in Event /\ NoEvent \notin Event
      /\ (w \in holds => event = job[w].read)
      /\ UNCHANGED <<index, drawn, given>>
  BY RegisterAssumption DEF InviteInv, ReadInv, Types, TypeOK, Carried, At, Readers, DeletePut
<1>1. k \in Job /\ k.pc = pc /\ k.read = record
  <2>1. pc \in PC
    BY PCs
  <2>2. k \in Job
    BY <1>0, <2>1, JobMoves
  <2> QED
    BY <1>0, <2>2 DEF Job
<1>2. CASE Put(w, record, k)
  <2>1. /\ event' = record /\ event = job[w].read /\ ~ Live' /\ Proceed(w, k) /\ pc \notin Drawing
        /\ ~ At(w, "idle")
    BY <1>0, <1>2 DEF Put, Live, Drawing, At
  <2> HIDE DEF k
  <2> QED
    BY <1>0, <1>1, <2>1, CalmStep
<1>3. CASE Return(w) /\ event' = event
  BY <1>0, <1>3, CalmReturn DEF Return, Live
<1>4. CASE PutUnanswered(w, record, Idle)
  <2>1. /\ Proceed(w, Idle) /\ (Live' => Live)
        /\ event' # NoEvent => event # NoEvent /\ event'.invitation = event.invitation
    BY <1>0, <1>4 DEF PutUnanswered, Live
  <2> QED
    BY <1>0, <2>1, CalmReturn
<1> QED
  BY <1>2, <1>3, <1>4 DEF DeletePut

LEMMA CalmDelete ==
  ASSUME InviteInv, NEW w \in Handlers,
         DeleteBegin(w) \/ DeleteClaim(w) \/ FinishDeletion(w) \/ Crash(w) \/ CreateUndo(w)
  PROVE  InviteInv'
<1>0. /\ ReadInv' /\ job[w] \in Job /\ ~ At(w, "idle") /\ job[w].read \in Event
      /\ Checked(job[w]) /\ (job[w].pc \in Deleters => ~ Live)
      /\ UNCHANGED <<index, drawn, given>>
  BY DeleteRead, CreateRead DEF InviteInv, ReadInv, Types, TypeOK, Carried, At, DeleteBegin, DeleteClaim,
     FinishDeletion, Crash, CreateUndo, DeletePut
<1>1. CASE DeleteBegin(w)
  <2> DEFINE record == [job[w].read EXCEPT !.deleting = TRUE]
  <2>1. /\ record \in Event /\ record.deleting = TRUE /\ record.invitation = job[w].read.invitation
        /\ job[w].pc = "delete_begin"
    BY <1>0, <1>1, RecordChanges DEF Event, DeleteBegin, At
  <2> HIDE DEF record
  <2> QED
    BY <1>0, <1>1, <2>1, CalmDeletePut DEF DeleteBegin, record
<1>2. CASE DeleteClaim(w)
  <2>1. job[w].pc = "delete_claim" /\ job[w].read.deleting = TRUE
    BY <1>0, <1>2 DEF DeleteClaim, At, Checked, Deleters, Event
  <2>2. CASE DeletePut(w, job[w].read, "delete_invitation")
    BY <1>0, <2>1, <2>2, CalmDeletePut
  <2>3. CASE Proceed(w, [job[w] EXCEPT !.pc = "delete_invitation"]) /\ event' = event
    <3> DEFINE k == [job[w] EXCEPT !.pc = "delete_invitation"]
    <3>1. k \in Job /\ k.pc = "delete_invitation" /\ k.read = job[w].read /\ k.pc \notin Drawing
      BY <1>0, JobMoves, PCs DEF Job, Drawing
    <3>2. Live' = Live
      BY <2>3 DEF Live
    <3> HIDE DEF k
    <3> QED
      BY <1>0, <2>3, <3>1, <3>2, CalmStep DEF k
  <2>4. CASE Return(w) /\ event' = event
    BY <1>0, <2>4, CalmReturn DEF Return, Live
  <2> QED
    BY <1>2, <2>2, <2>3, <2>4 DEF DeleteClaim
<1>3. CASE FinishDeletion(w) \/ Crash(w) \/ CreateUndo(w)
  BY <1>0, <1>3, CalmReturn DEF FinishDeletion, Crash, CreateUndo, Return, PutUnanswered, Live
<1> QED
  BY <1>1, <1>2, <1>3
LEMMA CreateEventInvite ==
  ASSUME InviteInv, NEW w \in Handlers, CreateEvent(w)
  PROVE  InviteInv'
<1>0. ReadInv' /\ \A v \in Handlers : job[v] = Idle
  BY CreateRead DEF InviteInv, ReadInv, Unborn, CreateEvent
<1>1. PICK d \in Invitation, size \in Capacities :
        LET record == [deleting |-> FALSE, capacity |-> size, invitation |-> d,
                       cohosts |-> [p \in Presenter |-> {}]]
        IN  /\ drawn' = {d}
            /\ \/ /\ event' = record
                  /\ Proceed(w, [Idle EXCEPT !.pc = "create_index", !.read = record, !.fresh = d])
               \/ event' \in {event, record} /\ UNCHANGED job
  BY DEF CreateEvent
<1> DEFINE record == [deleting |-> FALSE, capacity |-> size, invitation |-> d,
                      cohosts |-> [p \in Presenter |-> {}]]
           k == [Idle EXCEPT !.pc = "create_index", !.read = record, !.fresh = d]
<1>2. /\ event = NoEvent /\ given = {} /\ given' = {} /\ index = {} /\ index' = {} /\ drawn' = {d}
  BY <1>1 DEF CreateEvent, InviteInv, ReadInv, Unborn, Secrets
<1>3. event' # NoEvent => event'.invitation = d
  BY <1>1, <1>2
<1>4. k.pc = "create_index" /\ k.read.invitation = d /\ k.fresh = d
  BY DEF Idle
<1>5. DOMAIN job = Handlers
  BY DEF InviteInv, ReadInv, Types, TypeOK
<1>6. \A v \in Handlers :
        \/ job'[v] = Idle
        \/ v = w /\ job'[v].pc = "create_index" /\ job'[v].read.invitation = d /\ job'[v].fresh = d
  <2> HIDE DEF k
  <2> QED
    BY <1>0, <1>1, <1>4, <1>5 DEF Proceed, k
<1>7. Secrets'
  BY <1>2, <1>3, <1>6, PCs DEF Secrets, At, Drawing
<1>8. Unpublished' /\ Replaced' /\ GivenInvitationAdmits' /\ SomeSafe'
  BY <1>2, <1>6, PCs DEF Unpublished, Replaced, GivenInvitationAdmits, SomeSafe, At
<1> QED
  BY <1>0, <1>7, <1>8 DEF InviteInv

(* The first invitation may come late: if the event has been rotated by    *)
(* then, the rotation's invitation is the one that is safe.                *)
LEMMA CreateIndexInvite ==
  ASSUME InviteInv, NEW w \in Handlers, CreateIndex(w)
  PROVE  InviteInv'
<1> DEFINE d == job[w].fresh
           k == [job[w] EXCEPT !.pc = "create_undo"]
<1>0. /\ ReadInv' /\ job[w] \in Job /\ job[w].pc = "create_index" /\ d \in drawn
      /\ event' = event /\ drawn' = drawn /\ Live' = Live
  BY CreateRead DEF CreateIndex, InviteInv, ReadInv, Types, TypeOK, Secrets, At, Drawing, Live
<1>1. k \in Job /\ k.pc = "create_undo" /\ k.read = job[w].read
  BY <1>0, JobMoves, PCs DEF Job
<1>2. \/ index' = index \cup {d} /\ given' = given \cup {d} /\ Proceed(w, Idle)
      \/ index' \in {index, index \cup {d}} /\ given' = given /\ Proceed(w, k)
  BY DEF CreateIndex, Return
<1> HIDE DEF k
<1>3. PICK j \in {Idle, k} : Proceed(w, j)
  BY <1>2
<1>4. /\ job'[w] = j /\ \A v \in Handlers \ {w} : job'[v] = job[v]
      /\ j.pc \in {"idle", "create_undo"} /\ (j.pc # "idle" => j.read = job[w].read)
  BY <1>1, <1>3, OneMoves, IdleJob, PCs DEF InviteInv, ReadInv, Types
<1>5. /\ index \subseteq index' /\ index' \subseteq index \cup {d}
      /\ given' \subseteq given \cup {d} /\ (given' = given \/ d \in index')
  BY <1>2
<1>6. \A v \in Handlers \ {w} : job[v].pc \in Drawing => job[v].fresh # d
  BY <1>0 DEF InviteInv, Secrets, Drawing
<1>7. Secrets'
  <2>1. /\ event' # NoEvent => event'.invitation \in drawn'
        /\ given' \subseteq drawn' /\ index' \subseteq drawn'
    BY <1>0, <1>5 DEF InviteInv, Secrets
  <2>2. j.pc \in Drawing => j = k
    BY <1>4, PCs DEF Drawing
  <2>3. k.fresh = d
    BY <1>0 DEF k, Job
  <2>4. ASSUME NEW v \in Handlers
        PROVE  /\ ~ At(v, "idle")' => job'[v].read.invitation \in drawn'
               /\ job'[v].pc \in Drawing => job'[v].fresh \in drawn'
    BY <1>0, <1>1, <1>4, <2>2, <2>3 DEF InviteInv, Secrets, At, Drawing
  <2>5. ASSUME NEW v \in Handlers, NEW u \in Handlers \ {v},
               job'[v].pc \in Drawing, job'[u].pc \in Drawing
        PROVE  job'[u].fresh # job'[v].fresh
    BY <1>4, <1>6, <2>2, <2>3, <2>5 DEF InviteInv, Secrets
  <2> QED
    BY <2>1, <2>4, <2>5 DEF Secrets
<1>8. Unpublished'
  BY <1>0, <1>4, <1>5, <1>6 DEF InviteInv, Unpublished, At, Drawing
<1>9. Replaced'
  BY <1>0, <1>4, <1>5 DEF InviteInv, Replaced, At
<1>10. GivenInvitationAdmits'
  BY <1>0, <1>5 DEF InviteInv, GivenInvitationAdmits
<1>11. SomeSafe'
  <2>1. \A x : Safe(x) => Safe(x)'
    BY <1>4 DEF Safe, At
  <2>2. CASE \E v \in Handlers : At(v, "rotate_drop")
    BY <1>0, <1>5, <2>1, <2>2 DEF InviteInv, SomeSafe
  <2>3. CASE ~ \E v \in Handlers : At(v, "rotate_drop")
    <3>1. Safe(d)
      BY <1>0, <1>6, <2>3 DEF Safe, Drawing
    <3>2. ~ \E v \in Handlers : At(v, "rotate_drop")'
      BY <1>4, <2>3 DEF At
    <3> QED
      BY <1>0, <1>5, <2>1, <3>1, <3>2 DEF InviteInv, SomeSafe
  <2> QED
    BY <2>2, <2>3
<1> QED
  BY <1>0, <1>7, <1>8, <1>9, <1>10, <1>11 DEF InviteInv

LEMMA RotateIndexInvite ==
  ASSUME InviteInv, NEW w \in Handlers, RotateIndex(w)
  PROVE  InviteInv'
<1>0. /\ ReadInv' /\ job[w] \in Job /\ job[w].pc = "rotate_index"
      /\ event' = event /\ given' = given /\ Live' = Live
  BY RotateRead DEF RotateIndex, InviteInv, ReadInv, Types, TypeOK, At, Live
<1>1. PICK d \in Fresh :
        /\ drawn' = drawn \cup {d}
        /\ \/ /\ index' = index \cup {d}
              /\ Proceed(w, [job[w] EXCEPT !.pc = "rotate_put", !.fresh = d])
           \/ index' \in {index, index \cup {d}} /\ Return(w)
  BY DEF RotateIndex
<1> DEFINE k == [job[w] EXCEPT !.pc = "rotate_put", !.fresh = d]
<1>2. k \in Job /\ k.pc = "rotate_put" /\ k.read = job[w].read /\ k.fresh = d
  BY <1>0, JobMoves, PCs DEF Job, Fresh
<1> HIDE DEF k
<1>3. PICK j \in {Idle, k} : Proceed(w, j) /\ (j = k => d \in index')
  BY <1>1, <1>2, PCs DEF Return, k
<1>4. /\ job'[w] = j /\ \A v \in Handlers \ {w} : job'[v] = job[v]
      /\ j.pc \in {"idle", "rotate_put"}
      /\ (j.pc = "rotate_put" => j.read = job[w].read /\ j.fresh = d /\ d \in index')
  BY <1>2, <1>3, OneMoves, IdleJob, PCs DEF InviteInv, ReadInv, Types
<1>5. /\ index \subseteq index' /\ index' \subseteq index \cup {d} /\ drawn' = drawn \cup {d}
      /\ d \notin drawn
  BY <1>1 DEF Fresh
<1>6. ~ At(w, "idle") /\ job[w].read.invitation \in drawn
  BY <1>0 DEF InviteInv, Secrets, At
<1>7. Secrets'
  <2>1. /\ event' # NoEvent => event'.invitation \in drawn'
        /\ given' \subseteq drawn' /\ index' \subseteq drawn'
    BY <1>0, <1>5 DEF InviteInv, Secrets
  <2>2. ASSUME NEW v \in Handlers
        PROVE  /\ ~ At(v, "idle")' => job'[v].read.invitation \in drawn'
               /\ job'[v].pc \in Drawing => job'[v].fresh \in drawn'
    BY <1>4, <1>5, <1>6 DEF InviteInv, Secrets, At, Drawing
  <2>3. ASSUME NEW v \in Handlers, NEW u \in Handlers \ {v},
               job'[v].pc \in Drawing, job'[u].pc \in Drawing
        PROVE  job'[u].fresh # job'[v].fresh
    <3>1. \A x \in Handlers \ {w} : job[x].pc \in Drawing => job[x].fresh # d
      BY <1>5 DEF InviteInv, Secrets
    <3>2. CASE v = w \/ u = w
      BY <1>4, <2>3, <3>1, <3>2 DEF Drawing
    <3>3. CASE v # w /\ u # w
      BY <1>4, <2>3, <3>3 DEF InviteInv, Secrets
    <3> QED
      BY <3>2, <3>3
  <2> QED
    BY <2>1, <2>2, <2>3 DEF Secrets
<1>8. Unpublished'
  <2>1. /\ d \notin given /\ (event # NoEvent => event.invitation # d)
        /\ \A v \in Handlers : ~ At(v, "idle") => job[v].read.invitation # d
    BY <1>5 DEF InviteInv, Secrets
  <2> QED
    BY <1>0, <1>4, <1>5, <1>6, <2>1 DEF InviteInv, Unpublished, At
<1>9. Replaced'
  BY <1>0, <1>4, <1>5 DEF InviteInv, Replaced, At
<1>10. GivenInvitationAdmits'
  BY <1>0, <1>5 DEF InviteInv, GivenInvitationAdmits
<1>11. SomeSafe'
  <2>1. ASSUME NEW x \in index, Safe(x) PROVE Safe(x)'
    <3>1. x # d
      BY <1>5 DEF InviteInv, Secrets
    <3> QED
      BY <1>4, <2>1, <3>1 DEF Safe, At
  <2>2. (\E v \in Handlers : At(v, "rotate_drop")') => \E v \in Handlers : At(v, "rotate_drop")
    BY <1>4 DEF At
  <2> QED
    BY <1>0, <1>5, <2>1, <2>2 DEF InviteInv, SomeSafe
<1> QED
  BY <1>0, <1>7, <1>8, <1>9, <1>10, <1>11 DEF InviteInv
(* The write of a rotation.  Done, the new invitation is the one that is   *)
(* safe, being in nobody else's hands.                                     *)
LEMMA RotatePutInvite ==
  ASSUME InviteInv, NEW w \in Handlers, RotatePut(w)
  PROVE  InviteInv'
<1> DEFINE f == job[w].fresh
           old == job[w].read.invitation
           record == [job[w].read EXCEPT !.invitation = f]
           drop == [job[w] EXCEPT !.pc = "rotate_drop"]
           undo == [job[w] EXCEPT !.pc = "rotate_undo"]
<1>0. /\ ReadInv' /\ job[w] \in Job /\ job[w].pc = "rotate_put" /\ job[w].read \in Event
      /\ f \in Invitation /\ UNCHANGED <<index, drawn, given>>
      /\ (w \in holds => event = job[w].read) /\ NoEvent \notin Event /\ ~ job[w].read.deleting
  BY RotateRead, RegisterAssumption DEF RotatePut, InviteInv, ReadInv, Types, TypeOK, Carried, At, Readers, Checked
<1>1. /\ drop \in Job /\ drop.pc = "rotate_drop" /\ drop.read = job[w].read /\ drop.fresh = f
      /\ undo \in Job /\ undo.pc = "rotate_undo" /\ undo.read = job[w].read /\ undo.fresh = f
  BY <1>0, JobMoves, PCs DEF Job
<1>2. record # NoEvent /\ record.invitation = f /\ ~ record.deleting
  BY <1>0, RecordChanges DEF Event
<1> HIDE DEF record, drop, undo
<1>3. \/ w \in holds /\ event' = record /\ Proceed(w, drop)
      \/ w \in holds /\ event' = record /\ Proceed(w, undo)
      \/ event' = event /\ Proceed(w, undo)
  BY DEF RotatePut, Put, PutUnanswered, record, drop, undo
<1>4. PICK j \in {drop, undo} : /\ Proceed(w, j)
                                /\ \/ w \in holds /\ event' = record
                                   \/ event' = event /\ j = undo
  BY <1>3
<1>5. /\ job'[w] = j /\ \A v \in Handlers \ {w} : job'[v] = job[v]
      /\ j.pc \in {"rotate_drop", "rotate_undo"} /\ j.read = job[w].read /\ j.fresh = f
      /\ (j.pc = "rotate_drop" => w \in holds /\ event' = record)
  BY <1>1, <1>4, OneMoves DEF InviteInv, ReadInv, Types
<1>6. /\ f \in drawn /\ f \in index /\ f \notin given /\ f # old
      /\ \A v \in Handlers : ~ At(v, "idle") => job[v].read.invitation # f
      /\ \A v \in Handlers \ {w} : job[v].pc \in Drawing => job[v].fresh # f
  BY <1>0 DEF InviteInv, Secrets, Unpublished, At, Drawing
<1>7. /\ \/ event' # NoEvent /\ event'.invitation = f /\ Live /\ event.invitation = old
         \/ event' = event
      /\ j.pc = "rotate_drop" => event'.invitation = f
      /\ Live' => Live
  <2>1. CASE w \in holds /\ event' = record
    BY <1>0, <1>2, <2>1 DEF Live
  <2>2. CASE event' = event /\ j = undo
    BY <1>1, <2>2 DEF Live
  <2> QED
    BY <1>4, <2>1, <2>2
<1>8. Secrets'
  <2>1. /\ event' # NoEvent => event'.invitation \in drawn'
        /\ given' \subseteq drawn' /\ index' \subseteq drawn'
    BY <1>0, <1>6, <1>7 DEF InviteInv, Secrets
  <2>2. ASSUME NEW v \in Handlers
        PROVE  /\ ~ At(v, "idle")' => job'[v].read.invitation \in drawn'
               /\ job'[v].pc \in Drawing => job'[v].fresh \in drawn'
    BY <1>0, <1>5 DEF InviteInv, Secrets, At, Drawing
  <2>3. ASSUME NEW v \in Handlers, NEW u \in Handlers \ {v},
               job'[v].pc \in Drawing, job'[u].pc \in Drawing
        PROVE  job'[u].fresh # job'[v].fresh
    BY <1>5, <1>6, <2>3 DEF InviteInv, Secrets
  <2> QED
    BY <2>1, <2>2, <2>3 DEF Secrets
<1>9. Unpublished'
  <2>1. ASSUME NEW v \in Handlers, job'[v].pc \in {"rotate_put", "rotate_undo"}
        PROVE  job'[v].fresh \notin given'
    BY <1>0, <1>5, <1>6, <2>1 DEF InviteInv, Unpublished
  <2>2. ASSUME NEW v \in Handlers, job'[v].pc = "rotate_put"
        PROVE  /\ job'[v].fresh \in index'
               /\ event' # NoEvent => event'.invitation # job'[v].fresh
               /\ \A u \in Handlers : ~ At(u, "idle")' => job'[u].read.invitation # job'[v].fresh
    <3>1. v # w /\ job'[v] = job[v]
      BY <1>5, <2>2
    <3>2. job[v].fresh # f
      BY <1>6, <2>2, <3>1 DEF Drawing
    <3> QED
      BY <1>0, <1>5, <1>7, <2>2, <3>1, <3>2 DEF InviteInv, Unpublished, At
  <2> QED
    BY <2>1, <2>2 DEF Unpublished, At
<1>10. Replaced'
  <2> SUFFICES ASSUME NEW v \in Handlers, job'[v].pc = "rotate_drop", Live'
               PROVE  /\ event'.invitation # job'[v].read.invitation
                      /\ event'.invitation = job'[v].fresh => job'[v].fresh \in index'
    BY DEF Replaced, At
  <2>1. CASE v = w
    BY <1>0, <1>5, <1>6, <1>7, <2>1
  <2>2. CASE v # w
    <3>1. job'[v] = job[v] /\ job[v].pc = "rotate_drop"
      BY <1>5, <2>2
    <3> QED
      BY <1>0, <1>6, <1>7, <2>2, <3>1 DEF InviteInv, Replaced, At, Drawing
  <2> QED
    BY <2>1, <2>2
<1>11. GivenInvitationAdmits'
  BY <1>0, <1>6, <1>7 DEF InviteInv, GivenInvitationAdmits
<1>12. SomeSafe'
  <2>1. CASE j.pc = "rotate_drop"
    <3>1. PICK x \in index' : x = f
      BY <1>0, <1>6
    <3>2. Safe(x)'
      BY <1>5, <1>6, <2>1, <3>1 DEF Safe, At, Drawing
    <3> QED
      BY <3>2 DEF SomeSafe
  <2>2. CASE j.pc = "rotate_undo"
    <3>1. \A x : Safe(x) => Safe(x)'
      BY <1>0, <1>5, <2>2 DEF Safe, At
    <3>2. (\E v \in Handlers : At(v, "rotate_drop")') => \E v \in Handlers : At(v, "rotate_drop")
      BY <1>5, <2>2 DEF At
    <3> QED
      BY <1>0, <1>7, <3>1, <3>2 DEF InviteInv, SomeSafe
  <2> QED
    BY <1>5, <2>1, <2>2
<1> QED
  BY <1>0, <1>8, <1>9, <1>10, <1>11, <1>12 DEF InviteInv
(* An invitation x goes, when w is done with the secret it drew or has     *)
(* none.  The premises say that nobody still counts on x.                  *)
LEMMA ForgetInvite ==
  ASSUME InviteInv, ReadInv', NEW w \in Handlers, NEW j \in Job, Proceed(w, j),
         ~ At(w, "idle"), j.pc \notin Drawing, j.pc # "idle" => j.read = job[w].read,
         NEW x, index \ {x} \subseteq index', index' \subseteq index,
         event' = event, drawn' = drawn, given' \subseteq drawn,
         \A v \in Handlers \ {w} :
           /\ At(v, "rotate_put") => job[v].fresh # x
           /\ job[v].pc \in {"rotate_put", "rotate_undo"} => job[v].fresh \notin given',
         \A v \in Handlers \ {w} :
           (At(v, "rotate_drop") /\ Live /\ event.invitation = job[v].fresh) => event.invitation # x,
         (Live /\ event.invitation \in given') => event.invitation \in index',
         Live => /\ \A y : Safe(y) => y # x
                 /\ given' # {} => given # {} \/ At(w, "rotate_drop")
  PROVE  InviteInv'
<1>1. job'[w] = j /\ \A v \in Handlers \ {w} : job'[v] = job[v]
  BY OneMoves DEF InviteInv, ReadInv, Types
<1>2. Live' = Live
  BY DEF Live
<1>3. Secrets'
  BY <1>1 DEF InviteInv, Secrets, At
<1>4. Unpublished'
  <2>1. ASSUME NEW v \in Handlers, job'[v].pc \in {"rotate_put", "rotate_undo"}
        PROVE  v # w /\ job'[v] = job[v]
    BY <1>1, <2>1 DEF Drawing
  <2>2. ASSUME NEW v \in Handlers, job'[v].pc = "rotate_put"
        PROVE  /\ job'[v].fresh \in index'
               /\ event' # NoEvent => event'.invitation # job'[v].fresh
               /\ \A u \in Handlers : ~ At(u, "idle")' => job'[u].read.invitation # job'[v].fresh
    BY <1>1, <2>1, <2>2 DEF InviteInv, Unpublished, At
  <2> QED
    BY <2>1, <2>2 DEF Unpublished, At
<1>5. Replaced'
  <2> SUFFICES ASSUME NEW v \in Handlers, job'[v].pc = "rotate_drop", Live'
               PROVE  /\ event'.invitation # job'[v].read.invitation
                      /\ event'.invitation = job'[v].fresh => job'[v].fresh \in index'
    BY DEF Replaced, At
  <2>1. v # w /\ job'[v] = job[v]
    BY <1>1 DEF Drawing
  <2> QED
    BY <1>2, <2>1 DEF InviteInv, Replaced, At
<1>6. GivenInvitationAdmits'
  BY <1>2 DEF GivenInvitationAdmits
<1>7. SomeSafe'
  <2>1. \A y : Safe(y) => Safe(y)'
    BY <1>1 DEF Safe, At, Drawing
  <2>2. ASSUME NEW v \in Handlers, At(v, "rotate_drop")'
        PROVE  At(v, "rotate_drop")
    BY <1>1, <2>2 DEF At, Drawing
  <2> QED
    BY <1>2, <2>1, <2>2 DEF InviteInv, SomeSafe
<1> QED
  BY <1>3, <1>4, <1>5, <1>6, <1>7 DEF InviteInv

LEMMA RotateUndoInvite ==
  ASSUME InviteInv, NEW w \in Handlers, RotateUndo(w)
  PROVE  InviteInv'
<1>0. /\ ReadInv' /\ job[w].pc = "rotate_undo" /\ ~ At(w, "idle")
      /\ UNCHANGED <<event, drawn, given>> /\ given \subseteq drawn
      /\ Proceed(w, Idle) /\ Idle \in Job /\ Idle.pc = "idle" /\ Idle.pc \notin Drawing
  BY RotateRead, IdleJob, PCs DEF RotateUndo, InviteInv, Secrets, At, Return, Drawing
<1>1. PICK x : /\ x = job[w].fresh /\ index \ {x} \subseteq index' /\ index' \subseteq index
  BY DEF RotateUndo, Forget
<1>2. /\ x \notin given
      /\ \A v \in Handlers \ {w} : job[v].pc \in Drawing => job[v].fresh # x
  BY <1>0, <1>1 DEF InviteInv, Secrets, Unpublished, Drawing
<1>3. \A v \in Handlers \ {w} :
           /\ At(v, "rotate_put") => job[v].fresh # x
           /\ job[v].pc \in {"rotate_put", "rotate_undo"} => job[v].fresh \notin given'
           /\ At(v, "rotate_drop") => job[v].fresh # x
  BY <1>0, <1>2 DEF InviteInv, Unpublished, At, Drawing
<1>4. (Live /\ event.invitation \in given') => event.invitation \in index'
  BY <1>0, <1>1, <1>2 DEF InviteInv, GivenInvitationAdmits
<1>5. \A y : Safe(y) => y # x
  BY <1>0, <1>1 DEF Safe
<1> QED
  BY <1>0, <1>1, <1>3, <1>4, <1>5, ForgetInvite

(* The link is handed out only now; were the record's invitation gone      *)
(* again, this rotation's has been replaced as well.                       *)
LEMMA RotateDropInvite ==
  ASSUME InviteInv, NEW w \in Handlers, RotateDrop(w)
  PROVE  InviteInv'
<1>0. /\ ReadInv' /\ job[w].pc = "rotate_drop" /\ At(w, "rotate_drop") /\ ~ At(w, "idle")
      /\ UNCHANGED <<event, drawn>> /\ given' = given \cup {job[w].fresh} /\ given' \subseteq drawn
      /\ Proceed(w, Idle) /\ Idle \in Job /\ Idle.pc = "idle" /\ Idle.pc \notin Drawing
  BY RotateRead, IdleJob, PCs DEF RotateDrop, InviteInv, Secrets, At, Return, Drawing
<1>1. PICK x : /\ x = job[w].read.invitation /\ index \ {x} \subseteq index' /\ index' \subseteq index
  BY DEF RotateDrop, Forget
<1>2. Live => event.invitation # x /\ (event.invitation = job[w].fresh => job[w].fresh \in index)
  BY <1>0, <1>1 DEF InviteInv, Replaced
<1>3. \A v \in Handlers \ {w} :
           /\ At(v, "rotate_put") => job[v].fresh # x
           /\ job[v].pc \in {"rotate_put", "rotate_undo"} => job[v].fresh \notin given'
  BY <1>0, <1>1 DEF InviteInv, Secrets, Unpublished, At, Drawing
<1>4. (Live /\ event.invitation \in given') => event.invitation \in index'
  BY <1>0, <1>1, <1>2 DEF InviteInv, GivenInvitationAdmits
<1>5. \A y : Safe(y) => y # x
  BY <1>0, <1>1 DEF Safe
<1> QED
  BY <1>0, <1>1, <1>2, <1>3, <1>4, <1>5, ForgetInvite

LEMMA DeleteInvitationInvite ==
  ASSUME InviteInv, NEW w \in Handlers, DeleteInvitation(w)
  PROVE  InviteInv'
<1> DEFINE k == [job[w] EXCEPT !.pc = "delete_event"]
<1>0. /\ ReadInv' /\ job[w] \in Job /\ job[w].pc = "delete_invitation" /\ ~ At(w, "idle") /\ ~ Live
      /\ UNCHANGED <<event, drawn, given>> /\ given \subseteq drawn
      /\ Idle \in Job /\ Idle.pc = "idle" /\ Idle.pc \notin Drawing
  BY DeleteRead, IdleJob, PCs DEF DeleteInvitation, InviteInv, ReadInv, Types, TypeOK, Secrets, At,
     Drawing, Deleters
<1>1. /\ k \in Job /\ k.pc = "delete_event" /\ k.read = job[w].read /\ k.pc \notin Drawing
  BY <1>0, JobMoves, PCs DEF Job, Drawing
<1> HIDE DEF k
<1>2. PICK x : /\ x = job[w].read.invitation /\ index \ {x} \subseteq index' /\ index' \subseteq index
  BY DEF DeleteInvitation
<1>3. PICK j \in {Idle, k} : Proceed(w, j)
  BY DEF DeleteInvitation, Return, k
<1>4. j \in Job /\ j.pc \notin Drawing /\ (j.pc # "idle" => j.read = job[w].read)
  BY <1>0, <1>1, <1>3
<1>5. \A v \in Handlers \ {w} :
           /\ At(v, "rotate_put") => job[v].fresh # x
           /\ job[v].pc \in {"rotate_put", "rotate_undo"} => job[v].fresh \notin given'
  BY <1>0, <1>2 DEF InviteInv, Unpublished, At
<1> QED
  BY <1>0, <1>2, <1>3, <1>4, <1>5, ForgetInvite

LEMMA NextInvite == InviteInv /\ [Next]_vars => InviteInv'
<1> SUFFICES ASSUME InviteInv, [Next]_vars PROVE InviteInv'
  OBVIOUS
<1>1. CASE UNCHANGED vars
  <2>1. ReadInv'
    BY NextRead DEF InviteInv
  <2> QED
    BY <1>1, <2>1 DEF vars, InviteInv, Secrets, Unpublished, Replaced, GivenInvitationAdmits, SomeSafe,
       Safe, Live, At
<1>2. ASSUME NEW w \in Handlers, CreateEvent(w) PROVE InviteInv'
  BY <1>2, CreateEventInvite
<1>3. ASSUME NEW w \in Handlers, NEW who \in Presenter \cup {Owner}, Call(w, who) PROVE InviteInv'
  BY <1>3, CalmCall
<1>4. ASSUME NEW w \in Handlers, Step(w) PROVE InviteInv'
  BY <1>4, CreateIndexInvite, CalmDelete, CalmLoop, RotateIndexInvite, RotatePutInvite, RotateUndoInvite,
     RotateDropInvite, DeleteInvitationInvite DEF Step
<1> QED
  BY <1>1, <1>2, <1>3, <1>4 DEF Next

(* A link a presenter was given admits until a rotation has replaced it,   *)
(* whatever the clean-up of other rotations deletes (service.go:222, 225). *)
THEOREM GivenInvitationsAdmit == Spec => []GivenInvitationAdmits
<1>1. InviteInv => GivenInvitationAdmits
  BY DEF InviteInv
<1> QED
  BY <1>1, InitInvite, NextInvite, PTL DEF Spec

(* A live event that was handed out has an invitation that admits at every *)
(* moment, however many rotations race or break off (service.go:215-225).  *)
THEOREM SomeInvitationAlwaysAdmits == Spec => []SomeInvitationAdmits
<1>1. InviteInv => SomeInvitationAdmits
  BY DEF InviteInv, SomeSafe, SomeInvitationAdmits
<1> QED
  BY <1>1, InitInvite, NextInvite, PTL DEF Spec

-----------------------------------------------------------------------------
(* Strays.  An invitation that admits and is not in force is owed by the   *)
(* rotation that is to delete it, or one of the failures there were has    *)
(* left it behind, or it is the one whose creation came late.              *)

Owed(j) == IF j.pc \in {"rotate_put", "rotate_undo"} THEN {j.fresh}
           ELSE IF j.pc = "rotate_drop" THEN {j.read.invitation} ELSE {}
Promised == UNION {Owed(job[w]) : w \in Handlers}
Strays == (index \ {event.invitation}) \ Promised

Creators == {w \in Handlers : At(w, "create_index")}
Budget == faults + (IF early /\ Creators = {} THEN 1 ELSE 0)

DebtInv ==
  /\ InviteInv
  /\ IsFiniteSet(index)
  /\ \A v, w \in Creators : v = w
  /\ \A w \in Creators : Live => early \/ event.invitation = job[w].fresh
  /\ Live => Cardinality(Strays) <= Budget

LEMMA InitDebt == Init => DebtInv
<1> SUFFICES ASSUME Init PROVE DebtInv
  OBVIOUS
<1>1. event = NoEvent /\ index = {} /\ Creators = {}
  BY PCs DEF Init, Creators, At
<1>2. IsFiniteSet({})
  BY FS_EmptySet
<1> QED
  BY <1>1, <1>2, InitInvite DEF DebtInv, Live

(* At most one more, if there is room for one more.                        *)
LEMMA StillAffordable ==
  ASSUME NEW X, IsFiniteSet(X), NEW d, NEW Y, Y \subseteq X \cup {d}, NEW n \in Nat, NEW m \in Nat,
         Cardinality(X) <= n, n <= m, Y \subseteq X \/ n + 1 <= m
  PROVE  Cardinality(Y) <= m
<1>1. /\ IsFiniteSet(X \cup {d})
      /\ Cardinality(X \cup {d}) = IF d \in X THEN Cardinality(X) ELSE Cardinality(X) + 1
  BY FS_AddElement
<1>2. Cardinality(X) \in Nat
  BY FS_CardinalityType
<1>3. IsFiniteSet(Y) /\ Cardinality(Y) <= Cardinality(X \cup {d})
  BY <1>1, FS_Subset
<1>4. Cardinality(Y) \in Nat
  BY <1>3, FS_CardinalityType
<1>5. CASE Y \subseteq X
  <2>1. Cardinality(Y) <= Cardinality(X)
    BY <1>5, FS_Subset
  <2> QED
    BY <1>2, <1>4, <2>1
<1> QED
  BY <1>1, <1>2, <1>3, <1>4, <1>5

(* The budget grows with every failure and with the late first invitation. *)
LEMMA OneMoreForEach ==
  ASSUME NEW f \in Nat, NEW g \in Nat, g = f \/ g = f + 1, NEW p \in BOOLEAN, NEW q \in BOOLEAN, p => q,
         NEW n, n = f + (IF p THEN 1 ELSE 0), NEW m, m = g + (IF q THEN 1 ELSE 0)
  PROVE  /\ n \in Nat /\ m \in Nat /\ n <= m
         /\ g = f + 1 \/ (q /\ ~ p) => n + 1 <= m
<1>1. CASE p
  BY <1>1
<1>2. CASE ~ p /\ q
  BY <1>2
<1>3. CASE ~ p /\ ~ q
  BY <1>3
<1> QED
  BY <1>1, <1>2, <1>3

LEMMA BudgetGrows ==
  ASSUME faults \in Nat, faults' \in Nat, faults' = faults \/ faults' = faults + 1,
         early => early', Creators' \subseteq Creators
  PROVE  /\ Budget \in Nat /\ Budget' \in Nat /\ Budget <= Budget'
         /\ (faults' = faults + 1 \/ (early /\ Creators # {} /\ Creators' = {}))
              => Budget + 1 <= Budget'
<1> DEFINE p == early /\ Creators = {}
           q == early' /\ Creators' = {}
<1>1. p \in BOOLEAN /\ q \in BOOLEAN /\ (p => q) /\ (early /\ Creators # {} /\ Creators' = {} => q /\ ~ p)
  OBVIOUS
<1>2. Budget = faults + (IF p THEN 1 ELSE 0)
  BY DEF Budget
<1>3. Budget' = faults' + (IF q THEN 1 ELSE 0)
  BY DEF Budget
<1> HIDE DEF p, q
<1>4. /\ Budget \in Nat /\ Budget' \in Nat /\ Budget <= Budget'
      /\ faults' = faults + 1 \/ (q /\ ~ p) => Budget + 1 <= Budget'
  BY <1>1, <1>2, <1>3, OneMoreForEach
<1> QED
  BY <1>1, <1>4

(* What another worker owed it still owes.                                 *)
LEMMA StillPromised ==
  ASSUME TypeOK, NEW w \in Handlers, NEW j \in Job, Proceed(w, j)
  PROVE  \A d : d \in Strays' =>
           /\ d \in index' /\ d # event'.invitation /\ d \notin Owed(j)
           /\ d \in Promised => d \in Owed(job[w])
<1>1. job'[w] = j /\ \A v \in Handlers \ {w} : job'[v] = job[v]
  BY OneMoves
<1>2. Promised' = UNION {Owed(job'[v]) : v \in Handlers}
  BY DEF Promised, Owed
<1>3. Owed(j) \subseteq Promised'
  BY <1>1, <1>2
<1>4. \A v \in Handlers \ {w} : Owed(job[v]) \subseteq Promised'
  BY <1>1, <1>2
<1>5. \A d \in Promised : d \in Owed(job[w]) \/ d \in Promised'
  BY <1>4 DEF Promised
<1> QED
  BY <1>3, <1>5 DEF Strays

(* A step that leaves at most one stray more, and where it leaves one, by  *)
(* a failure or as the late first invitation of an event that was rotated. *)
LEMMA DebtStep ==
  ASSUME DebtInv, InviteInv', NEW w \in Handlers, NEW j \in Job, Proceed(w, j), j.pc # "create_index",
         IsFiniteSet(index'), Live' => Live, early => early', faults' \in {faults, faults + 1},
         Live' /\ Creators \ {w} # {} => early' \/ event'.invitation = event.invitation,
         NEW d, Live' => Strays' \subseteq Strays \cup {d},
         Live' => \/ Strays' \subseteq Strays
                  \/ faults' = faults + 1
                  \/ early /\ w \in Creators
  PROVE  DebtInv'
<1>1. /\ TypeOK /\ TypeOK' /\ faults \in Nat /\ faults' \in Nat
      /\ job'[w] = j /\ \A v \in Handlers \ {w} : job'[v] = job[v]
  BY OneMoves, RegisterAssumption DEF DebtInv, InviteInv, ReadInv, Types, TypeOK
<1>2. Creators' = Creators \ {w}
  BY <1>1 DEF Creators, At
<1>3. \A u, v \in Creators' : u = v
  BY <1>2 DEF DebtInv
<1>4. ASSUME NEW v \in Creators', Live' PROVE early' \/ event'.invitation = job'[v].fresh
  BY <1>1, <1>2, <1>4 DEF DebtInv, Creators
<1>5. ASSUME Live' PROVE Cardinality(Strays') <= Budget'
  <2>1. IsFiniteSet(Strays) /\ Cardinality(Strays) <= Budget
    BY <1>5, FS_Subset DEF DebtInv, Strays
  <2>2. w \in Creators => Creators' = {}
    BY <1>2 DEF DebtInv
  <2>3. /\ Budget \in Nat /\ Budget' \in Nat /\ Budget <= Budget'
        /\ (faults' = faults + 1 \/ (early /\ Creators # {} /\ Creators' = {}))
             => Budget + 1 <= Budget'
    BY <1>1, <1>2, BudgetGrows
  <2>4. Strays' \subseteq Strays \cup {d} /\ (Strays' \subseteq Strays \/ Budget + 1 <= Budget')
    BY <1>5, <2>2, <2>3
  <2> QED
    BY <2>1, <2>3, <2>4, StillAffordable
<1> QED
  BY <1>3, <1>4, <1>5 DEF DebtInv

(* A record that is gone or being deleted does not come back, and only a   *)
(* rotation puts another invitation in force.                              *)
LEMMA InForce ==
  ASSUME DebtInv, NEW w \in Handlers, Step(w), Live'
  PROVE  Live /\ (event'.invitation = event.invitation \/ RotatePut(w))
<1>1. /\ ReadInv /\ job[w] \in Job /\ (event # NoEvent => event \in Event)
      /\ (w \in holds /\ job[w].pc \in Readers => event = job[w].read)
      /\ (~ At(w, "idle") => job[w].read \in Event)
  BY DEF DebtInv, InviteInv, ReadInv, Types, TypeOK, Carried
<1>2. event # NoEvent
  <2>1. CASE RotatePut(w) \/ CohostPut(w) \/ CapacityPut(w) \/ DeleteBegin(w) \/ DeleteClaim(w)
    <3>1. job[w].pc \in Readers /\ ~ At(w, "idle")
      BY <2>1 DEF RotatePut, CohostPut, CapacityPut, DeleteBegin, DeleteClaim, At, Readers
    <3>2. event' = event \/ w \in holds
      BY <2>1 DEF RotatePut, CohostPut, CapacityPut, DeleteBegin, DeleteClaim, DeletePut, PutOrRetry, Put,
         PutUnanswered, Return
    <3> QED
      BY <1>1, <3>1, <3>2, RegisterAssumption DEF Live
  <2>2. CASE \/ CreateIndex(w) \/ CreateUndo(w) \/ RotateIndex(w) \/ RotateUndo(w) \/ RotateDrop(w)
             \/ DeleteInvitation(w) \/ FinishDeletion(w) \/ Crash(w)
    <3>1. event' \in {event, NoEvent}
      BY <2>2 DEF CreateIndex, CreateUndo, RotateIndex, RotateUndo, RotateDrop, DeleteInvitation, FinishDeletion,
         Crash, PutUnanswered
    <3> QED
      BY <3>1 DEF Live
  <2> QED
    BY <2>1, <2>2 DEF Step
<1>3. CASE event' = event
  BY <1>3 DEF Live
<1>4. CASE event' # event
  <2>1. Lawful(job[w], event, event')
    BY <1>1, <1>2, <1>4, LawfulWrites DEF Live
  <2>2. \/ job[w].pc = "rotate_put" /\ ~ event.deleting
        \/ event'.invitation = event.invitation /\ (~ event'.deleting => ~ event.deleting)
    BY <1>1, <1>2, <2>1 DEF Lawful, Event
  <2>3. job[w].pc = "rotate_put" => RotatePut(w)
    BY <1>4 DEF Step, CreateIndex, CreateUndo, RotateIndex, RotateUndo, RotateDrop, CohostPut, CapacityPut,
       DeleteBegin, DeleteClaim, DeleteInvitation, FinishDeletion, Crash, At
  <2> QED
    BY <1>2, <2>2, <2>3 DEF Live
<1> QED
  BY <1>3, <1>4

(* A step that creates no invitation and puts none in force: what its      *)
(* worker owed is deleted, still owed, or left behind by a failure.        *)
LEMMA DebtCalm ==
  ASSUME DebtInv, InviteInv', NEW w \in Handlers, NEW j \in Job, Proceed(w, j), j.pc # "create_index",
         index' \subseteq index, early' = early, faults' \in {faults, faults + 1},
         Live' => Live /\ event'.invitation = event.invitation,
         \/ faults' = faults + 1
         \/ \A d \in Owed(job[w]) : d \in Owed(j) \/ d \notin index'
  PROVE  DebtInv'
<1>1. TypeOK
  BY DEF DebtInv, InviteInv, ReadInv, Types
<1>2. PICK d : Owed(job[w]) \subseteq {d}
  BY DEF Owed
<1>3. IsFiniteSet(index')
  BY FS_Subset DEF DebtInv
<1>4. \A e \in Strays' : /\ e \in index' /\ e # event'.invitation /\ e \notin Owed(j)
                         /\ e \in Promised => e \in Owed(job[w])
  BY <1>1, StillPromised
<1>5. Live' => /\ Strays' \subseteq Strays \cup {d}
               /\ Strays' \subseteq Strays \/ faults' = faults + 1
  BY <1>2, <1>4 DEF Strays
<1> QED
  BY <1>2, <1>3, <1>5, DebtStep

LEMMA OwesNothing ==
  /\ \A j : j.pc \notin {"rotate_put", "rotate_undo", "rotate_drop"} => Owed(j) = {}
  /\ Idle \in Job /\ Idle.pc = "idle" /\ Owed(Idle) = {}
<1>1. \A j : j.pc \notin {"rotate_put", "rotate_undo", "rotate_drop"} => Owed(j) = {}
  BY DEF Owed
<1> QED
  BY <1>1, IdleJob, PCs

(* A request that has been let in owes nothing yet.                        *)
LEMMA CallDebt ==
  ASSUME DebtInv, NEW w \in Handlers, NEW who \in Presenter \cup {Owner}, Call(w, who)
  PROVE  DebtInv'
<1>1. InviteInv' /\ TypeOK
  BY CalmCall DEF DebtInv, InviteInv, ReadInv, Types
<1>2. /\ job[w].pc = "idle"
      /\ UNCHANGED <<event, index, drawn, given, early, faults>>
      /\ \E k : /\ Load(w, k)
                /\ k \in Job /\ k.pc \in {"rotate_index", "cohost_put", "capacity_put", "delete_claim", "delete_begin"}
  <2>1. CASE RotateInvitation(w, who)
    <3>1. [Idle EXCEPT !.pc = "rotate_index", !.who = who] \in Job
      BY IdleJob, PCs DEF Job
    <3>2. [Idle EXCEPT !.pc = "rotate_index", !.who = who].pc = "rotate_index"
      BY DEF Idle
    <3> QED
      BY <2>1, <3>1, <3>2 DEF RotateInvitation, At
  <2>2. ASSUME NEW whom \in Presenter, NEW grant \in Grants, SetCohost(w, who, whom, grant)
        PROVE  <1>2!1 /\ <1>2!2 /\ <1>2!3
    <3> DEFINE k == [Idle EXCEPT !.pc = "cohost_put", !.who = who, !.whom = whom, !.grant = grant]
    <3>1. k \in Job /\ k.pc = "cohost_put"
      BY IdleJob, PCs, RegisterAssumption DEF Idle, Job
    <3>2. Load(w, k)
      BY <2>2 DEF SetCohost
    <3> HIDE DEF k
    <3> QED
      BY <2>2, <3>1, <3>2 DEF SetCohost, At
  <2>3. ASSUME NEW size \in Capacities, UpdateCapacity(w, who, size)
        PROVE  <1>2!1 /\ <1>2!2 /\ <1>2!3
    <3> DEFINE k == [Idle EXCEPT !.pc = "capacity_put", !.who = who, !.size = size]
    <3>1. k \in Job /\ k.pc = "capacity_put"
      BY IdleJob, PCs DEF Idle, Job
    <3>2. Load(w, k)
      BY <2>3 DEF UpdateCapacity
    <3> HIDE DEF k
    <3> QED
      BY <2>3, <3>1, <3>2 DEF UpdateCapacity, At
  <2>4. CASE DeleteEvent(w, who)
    <3> DEFINE k == [Idle EXCEPT !.pc = IF event.deleting THEN "delete_claim" ELSE "delete_begin", !.who = who]
    <3>1. k \in Job /\ k.pc \in {"delete_claim", "delete_begin"}
      BY IdleJob, PCs DEF Idle, Job
    <3>2. Load(w, k)
      BY <2>4 DEF DeleteEvent
    <3> HIDE DEF k
    <3> QED
      BY <2>4, <3>1, <3>2 DEF DeleteEvent, At
  <2> QED
    BY <2>1, <2>2, <2>3, <2>4 DEF Call
<1>3. PICK k \in Job : Load(w, k) /\ k.pc \in {"rotate_index", "cohost_put", "capacity_put", "delete_claim", "delete_begin"}
  BY <1>2
<1> DEFINE j == [k EXCEPT !.read = event]
<1>4. j \in Job /\ j.pc = k.pc /\ Proceed(w, j)
  BY <1>1, <1>3, JobMoves DEF Load, TypeOK, Job
<1> HIDE DEF j
<1>5. Owed(job[w]) = {}
  BY <1>2, OwesNothing
<1>6. Live' => Live /\ event'.invitation = event.invitation
  BY <1>2 DEF Live
<1> QED
  BY <1>1, <1>2, <1>3, <1>4, <1>5, <1>6, DebtCalm

(* The steps that write no invitation but the one they owe.                *)
LEMMA CalmDebt ==
  ASSUME DebtInv, NEW w \in Handlers, Step(w),
         ~ CreateIndex(w), ~ RotateIndex(w), ~ RotatePut(w)
  PROVE  DebtInv'
<1>1. /\ InviteInv' /\ TypeOK /\ job[w] \in Job
      /\ (Live' => Live /\ event'.invitation = event.invitation)
  BY NextInvite, InForce DEF Next, DebtInv, InviteInv, ReadInv, Types, TypeOK
<1>2. index' \subseteq index /\ early' = early /\ faults' \in {faults, faults + 1}
  BY DEF Step, CreateUndo, RotateUndo, RotateDrop, Forget, CohostPut, CapacityPut, PutOrRetry, DeleteBegin,
     DeleteClaim, DeletePut, DeleteInvitation, FinishDeletion, Crash, PutUnanswered, Fault
<1>3. PICK j \in Job : Proceed(w, j) /\ j.pc # "create_index"
  <2>1. CASE \/ CreateUndo(w) \/ RotateUndo(w) \/ RotateDrop(w) \/ FinishDeletion(w) \/ Crash(w)
    BY <2>1, OwesNothing DEF CreateUndo, RotateUndo, RotateDrop, FinishDeletion, Crash, Return, PutUnanswered
  <2>2. CASE CohostPut(w) \/ CapacityPut(w)
    <3> DEFINE k == [job[w] EXCEPT !.read = event]
    <3>1. Load(w, job[w]) \/ Proceed(w, Idle)
      BY <2>2 DEF CohostPut, CapacityPut, PutOrRetry, Return, PutUnanswered
    <3>2. job[w].pc \in {"cohost_put", "capacity_put"}
      BY <2>2 DEF CohostPut, CapacityPut, At
    <3>3. (event # NoEvent => k \in Job) /\ k.pc = job[w].pc
      BY <1>1, JobMoves DEF TypeOK, Job
    <3>4. (event # NoEvent /\ Proceed(w, k)) \/ Proceed(w, Idle)
      BY <3>1 DEF Load
    <3> HIDE DEF k
    <3> QED
      BY <3>2, <3>3, <3>4, OwesNothing
  <2>3. CASE DeleteBegin(w)
    <3> DEFINE r == [job[w].read EXCEPT !.deleting = TRUE]
               k == [job[w] EXCEPT !.pc = "delete_claim", !.read = r]
    <3>1. job[w].read \in Event
      BY <2>3, PCs DEF DeleteBegin, DebtInv, InviteInv, ReadInv, Types, Carried, At
    <3>2. r \in Event
      BY <3>1, RecordChanges
    <3>3. DeletePut(w, r, "delete_claim")
      BY <2>3 DEF DeleteBegin
    <3> HIDE DEF r
    <3>4. k \in Job /\ k.pc = "delete_claim"
      BY <1>1, <3>2, PCs DEF Job
    <3>5. Proceed(w, k) \/ Proceed(w, Idle)
      BY <3>3 DEF DeletePut, Put, Return, PutUnanswered
    <3> HIDE DEF k
    <3> QED
      BY <3>4, <3>5, OwesNothing
  <2>4. CASE DeleteClaim(w)
    <3> DEFINE r == job[w].read
               k == [job[w] EXCEPT !.pc = "delete_invitation", !.read = r]
               l == [job[w] EXCEPT !.pc = "delete_invitation"]
    <3>1. r \in Event
      BY <2>4, PCs DEF DeleteClaim, DebtInv, InviteInv, ReadInv, Types, Carried, At
    <3>2. DeletePut(w, r, "delete_invitation") \/ Proceed(w, l) \/ Return(w)
      BY <2>4 DEF DeleteClaim
    <3> HIDE DEF r
    <3>3. k \in Job /\ k.pc = "delete_invitation" /\ l \in Job /\ l.pc = "delete_invitation"
      BY <1>1, <3>1, PCs DEF Job
    <3>4. Proceed(w, k) \/ Proceed(w, l) \/ Proceed(w, Idle)
      BY <3>2 DEF DeletePut, Put, Return, PutUnanswered
    <3> HIDE DEF k, l
    <3> QED
      BY <3>3, <3>4, OwesNothing
  <2>5. CASE DeleteInvitation(w)
    <3>1. [job[w] EXCEPT !.pc = "delete_event"] \in Job /\ [job[w] EXCEPT !.pc = "delete_event"].pc = "delete_event"
      BY <1>1, JobMoves, PCs DEF Job
    <3> QED
      BY <2>5, <3>1, OwesNothing DEF DeleteInvitation, Return
  <2> QED
    BY <2>1, <2>2, <2>3, <2>4, <2>5 DEF Step
<1>4. \/ faults' = faults + 1
      \/ \A d \in Owed(job[w]) : d \notin index'
  <2>1. CASE RotateUndo(w) \/ RotateDrop(w)
    BY <2>1 DEF RotateUndo, RotateDrop, Forget, Fault, At, Owed
  <2>2. CASE Crash(w)
    BY <2>2 DEF Crash, Fault
  <2>3. CASE CreateUndo(w) \/ CohostPut(w) \/ CapacityPut(w) \/ DeleteBegin(w) \/ DeleteClaim(w)
             \/ DeleteInvitation(w) \/ FinishDeletion(w)
    <3>1. job[w].pc \notin {"rotate_put", "rotate_undo", "rotate_drop"}
      BY <2>3 DEF CreateUndo, CohostPut, CapacityPut, DeleteBegin, DeleteClaim, DeleteInvitation, FinishDeletion, At
    <3> QED
      BY <3>1, OwesNothing
  <2> QED
    BY <2>1, <2>2, <2>3 DEF Step
<1> QED
  BY <1>1, <1>2, <1>3, <1>4, DebtCalm

(* At the creation nothing is owed, and nothing admits yet.                *)
LEMMA CreateEventDebt ==
  ASSUME DebtInv, NEW w \in Handlers, CreateEvent(w)
  PROVE  DebtInv'
<1>0. InviteInv' /\ faults' \in Nat /\ \A v \in Handlers : job[v] = Idle
  <2>1. InviteInv'
    BY CreateEventInvite DEF DebtInv
  <2>2. faults' \in Nat
    BY <2>1, RegisterAssumption DEF InviteInv, ReadInv, Types, TypeOK
  <2>3. drawn = {}
    BY DEF CreateEvent
  <2> QED
    BY <2>1, <2>2, <2>3 DEF DebtInv, InviteInv, ReadInv, Unborn
<1>1. PICK d \in Invitation, size \in Capacities :
        LET record == [deleting |-> FALSE, capacity |-> size, invitation |-> d,
                       cohosts |-> [p \in Presenter |-> {}]]
        IN  /\ event' \in {event, record}
            /\ \/ Proceed(w, [Idle EXCEPT !.pc = "create_index", !.read = record, !.fresh = d])
               \/ UNCHANGED job
  BY DEF CreateEvent
<1> DEFINE record == [deleting |-> FALSE, capacity |-> size, invitation |-> d,
                      cohosts |-> [p \in Presenter |-> {}]]
           k == [Idle EXCEPT !.pc = "create_index", !.read = record, !.fresh = d]
<1>2. event = NoEvent /\ index' = {} /\ (event' # NoEvent => event'.invitation = d)
  BY <1>1 DEF CreateEvent, DebtInv, InviteInv, ReadInv, Unborn, Secrets
<1>3. k.fresh = d
  BY DEF Idle
<1>4. Proceed(w, k) \/ UNCHANGED job
  BY <1>1
<1>5. DOMAIN job = Handlers
  BY DEF DebtInv, InviteInv, ReadInv, Types, TypeOK
<1> HIDE DEF record, k
<1>6. \A v \in Handlers : job'[v] = Idle \/ (v = w /\ job'[v].fresh = d)
  BY <1>0, <1>3, <1>4, <1>5 DEF Proceed
<1>7. \A v \in Creators' : v = w /\ job'[v].fresh = d
  BY <1>6, PCs DEF Creators, At
<1>8. IsFiniteSet({}) /\ Cardinality({}) = 0 /\ Strays' = {} /\ IsFiniteSet(index')
  BY <1>2, FS_EmptySet DEF Strays
<1>9. 0 <= Budget'
  <2> DEFINE q == early' /\ Creators' = {}
  <2>1. Budget' = faults' + (IF q THEN 1 ELSE 0)
    BY DEF Budget
  <2> HIDE DEF q
  <2>2. \A n \in Nat : 0 <= n + (IF q THEN 1 ELSE 0)
    BY DEF q
  <2> QED
    BY <1>0, <2>1, <2>2
<1> QED
  BY <1>0, <1>2, <1>7, <1>8, <1>9 DEF DebtInv, Live

(* The first invitation is a stray when it comes after a rotation.         *)
LEMMA CreateIndexDebt ==
  ASSUME DebtInv, NEW w \in Handlers, CreateIndex(w)
  PROVE  DebtInv'
<1> DEFINE d == job[w].fresh
           undo == [job[w] EXCEPT !.pc = "create_undo"]
<1>1. /\ InviteInv' /\ TypeOK /\ job[w] \in Job /\ w \in Creators
      /\ Owed(job[w]) = {}
  BY CreateIndexInvite, OwesNothing DEF DebtInv, InviteInv, ReadInv, Types, TypeOK, CreateIndex, Creators, At
<1>2. undo \in Job /\ undo.pc = "create_undo"
  BY <1>1, JobMoves, PCs DEF Job
<1>3. /\ index' \subseteq index \cup {d} /\ event' = event /\ early' = early
      /\ \/ Proceed(w, Idle) /\ faults' = faults
         \/ Proceed(w, undo) /\ faults' = faults + 1
  BY DEF CreateIndex, Return, Fault
<1> HIDE DEF undo
<1>4. PICK j \in Job : Proceed(w, j) /\ j.pc # "create_index" /\ (j # Idle => faults' = faults + 1)
  BY <1>2, <1>3, OwesNothing
<1>5. faults' \in {faults, faults + 1} /\ Live' = Live
  BY <1>3 DEF Live
<1>6. IsFiniteSet(index')
  <2> HIDE DEF d
  <2>1. IsFiniteSet(index \cup {d})
    BY FS_AddElement DEF DebtInv
  <2> QED
    BY <1>3, <2>1, FS_Subset
<1>7. \A e \in Strays' : e \in index' /\ e # event.invitation /\ e \notin Promised
  BY <1>1, <1>3, <1>4, StillPromised
<1>8. Strays' \subseteq Strays \cup {d}
  BY <1>3, <1>7 DEF Strays
<1>9. ASSUME Live PROVE Strays' \subseteq Strays \/ early
  BY <1>1, <1>3, <1>7, <1>9 DEF DebtInv, Strays
<1> HIDE DEF d
<1> QED
  BY <1>1, <1>3, <1>4, <1>5, <1>6, <1>8, <1>9, DebtStep

(* A rotation owes the invitation it has created; if the creation fails it *)
(* does not look back.                                                     *)
LEMMA RotateIndexDebt ==
  ASSUME DebtInv, NEW w \in Handlers, RotateIndex(w)
  PROVE  DebtInv'
<1>1. /\ InviteInv' /\ TypeOK /\ job[w] \in Job /\ job[w].pc = "rotate_index"
      /\ event' = event /\ early' = early /\ Live' = Live
  BY RotateIndexInvite DEF DebtInv, InviteInv, ReadInv, Types, TypeOK, RotateIndex, At, Live
<1>2. PICK d \in Fresh :
        /\ index' \subseteq index \cup {d}
        /\ \/ Proceed(w, [job[w] EXCEPT !.pc = "rotate_put", !.fresh = d]) /\ faults' = faults
           \/ Proceed(w, Idle) /\ faults' = faults + 1
  BY DEF RotateIndex, Return, Fault
<1> DEFINE k == [job[w] EXCEPT !.pc = "rotate_put", !.fresh = d]
<1>3. k \in Job /\ k.pc = "rotate_put" /\ k.fresh = d
  BY <1>1, JobMoves, PCs DEF Job, Fresh
<1>4. \/ Proceed(w, k) /\ faults' = faults
      \/ Proceed(w, Idle) /\ faults' = faults + 1
  BY <1>2
<1> HIDE DEF k
<1>5. PICK j \in Job : /\ Proceed(w, j) /\ j.pc # "create_index"
                       /\ faults' = faults + 1 \/ (faults' = faults /\ d \in Owed(j))
  BY <1>3, <1>4, OwesNothing DEF Owed
<1>6. IsFiniteSet(index')
  <2>1. IsFiniteSet(index \cup {d})
    BY FS_AddElement DEF DebtInv
  <2> QED
    BY <1>2, <2>1, FS_Subset
<1>7. Owed(job[w]) = {}
  BY <1>1, OwesNothing
<1>8. \A e \in Strays' : e \in index' /\ e # event.invitation /\ e \notin Promised /\ e \notin Owed(j)
  BY <1>1, <1>5, <1>7, StillPromised
<1>9. /\ Strays' \subseteq Strays \cup {d}
      /\ Strays' \subseteq Strays \/ faults' = faults + 1
  BY <1>2, <1>5, <1>8 DEF Strays
<1> QED
  BY <1>1, <1>5, <1>6, <1>9, DebtStep

(* The invitation that was in force is owed by the rotation that replaced  *)
(* it, unless that one never learns that it has.                           *)
LEMMA RotatePutDebt ==
  ASSUME DebtInv, NEW w \in Handlers, RotatePut(w)
  PROVE  DebtInv'
<1> DEFINE f == job[w].fresh
           record == [job[w].read EXCEPT !.invitation = f]
           drop == [job[w] EXCEPT !.pc = "rotate_drop"]
           undo == [job[w] EXCEPT !.pc = "rotate_undo"]
<1>1. /\ InviteInv' /\ TypeOK /\ job[w] \in Job /\ job[w].pc = "rotate_put"
      /\ (w \in holds => event = job[w].read)
      /\ job[w].read \in Event /\ f \in Invitation
      /\ (event # NoEvent => event.invitation # f)
  BY RotatePutInvite DEF DebtInv, InviteInv, ReadInv, Types, TypeOK, Carried, Unpublished, RotatePut, At, Readers
<1>2. /\ drop \in Job /\ drop.pc = "rotate_drop" /\ drop.read = job[w].read
      /\ undo \in Job /\ undo.pc = "rotate_undo" /\ undo.fresh = f
      /\ record.invitation = f
  BY <1>1, JobMoves, PCs DEF Job, Event
<1> HIDE DEF record, drop, undo
<1>3. /\ index' = index
      /\ early' = (early \/ (event' # event /\ \E v \in Handlers : At(v, "create_index")))
      /\ \/ w \in holds /\ event' = record /\ Proceed(w, drop) /\ faults' = faults
         \/ event' = event /\ Proceed(w, undo) /\ faults' = faults
         \/ /\ faults' = faults + 1 /\ Proceed(w, undo)
            /\ (w \in holds /\ event' = record) \/ event' = event
  BY DEF RotatePut, Put, PutUnanswered, Fault, record, drop, undo
<1>4. PICK j \in {drop, undo} :
        /\ Proceed(w, j)
        /\ \/ j = drop /\ w \in holds /\ event' = record /\ faults' = faults
           \/ j = undo /\ event' = event /\ faults' = faults
           \/ j = undo /\ faults' = faults + 1 /\ ((w \in holds /\ event' = record) \/ event' = event)
  BY <1>3
<1>5. j \in Job /\ j.pc # "create_index" /\ IsFiniteSet(index') /\ faults' \in {faults, faults + 1}
  BY <1>2, <1>3, <1>4 DEF DebtInv
<1>6. Owed(job[w]) = {f} /\ Owed(undo) = {f} /\ Owed(drop) = {job[w].read.invitation}
  BY <1>1, <1>2 DEF Owed
<1>7. Live' => Live
  BY InForce DEF Step
<1>8. \A e \in Strays' : e \in index /\ e # event'.invitation /\ e \notin Promised /\ e \notin Owed(j)
  <2>1. \A e \in Strays' : /\ e \in index /\ e # event'.invitation /\ e \notin Owed(j)
                           /\ e \in Promised => e = f
    BY <1>1, <1>3, <1>4, <1>5, <1>6, StillPromised
  <2>2. f \in Owed(j) \/ event'.invitation = f
    BY <1>2, <1>4, <1>6
  <2> QED
    BY <2>1, <2>2
<1>9. Strays' \subseteq Strays \cup {event.invitation}
  BY <1>8 DEF Strays
<1>10. Strays' \subseteq Strays \/ faults' = faults + 1
  BY <1>1, <1>4, <1>6, <1>8 DEF Strays
<1>11. ASSUME Live', Creators \ {w} # {} PROVE early' \/ event'.invitation = event.invitation
  BY <1>3, <1>11 DEF Creators
<1>12. early => early'
  BY <1>3
<1> HIDE DEF f
<1> QED
  BY <1>1, <1>4, <1>5, <1>7, <1>9, <1>10, <1>11, <1>12, DebtStep

LEMMA NextDebt == DebtInv /\ [Next]_vars => DebtInv'
<1> SUFFICES ASSUME DebtInv, [Next]_vars PROVE DebtInv'
  OBVIOUS
<1>1. CASE UNCHANGED vars
  <2>1. InviteInv'
    BY <1>1, NextInvite DEF DebtInv
  <2>2. Strays' = Strays /\ Creators' = Creators /\ Budget' = Budget /\ Live' = Live
    BY <1>1 DEF vars, Strays, Promised, Owed, Creators, Budget, Live, At
  <2> QED
    BY <1>1, <2>1, <2>2 DEF DebtInv, vars
<1>2. ASSUME NEW w \in Handlers, CreateEvent(w) PROVE DebtInv'
  BY <1>2, CreateEventDebt
<1>3. ASSUME NEW w \in Handlers, NEW who \in Presenter \cup {Owner}, Call(w, who) PROVE DebtInv'
  BY <1>3, CallDebt
<1>4. ASSUME NEW w \in Handlers, Step(w) PROVE DebtInv'
  BY <1>4, CreateIndexDebt, RotateIndexDebt, RotatePutDebt, CalmDebt
<1> QED
  BY <1>1, <1>2, <1>3, <1>4 DEF Next

(* When nobody is at work on a live event, the invitations that admit      *)
(* besides the one in force are no more than the failures there were, and  *)
(* one if the event was rotated before its creation had returned           *)
(* (service.go:106, 109, 219-225): every other invitation is still owed by *)
(* the rotation that made or replaced it.                                  *)
THEOREM StraysFromFailures == Spec => []StraysAreFailures
<1>1. DebtInv => StraysAreFailures
  <2> SUFFICES ASSUME DebtInv, Live, \A w \in Handlers : At(w, "idle")
               PROVE  Cardinality(index \ {event.invitation}) <= faults + (IF early THEN 1 ELSE 0)
    BY DEF StraysAreFailures
  <2>1. Creators = {} /\ \A w \in Handlers : Owed(job[w]) = {}
    BY OwesNothing DEF Creators, At
  <2>2. Promised = {}
    BY <2>1 DEF Promised
  <2> QED
    BY <2>1, <2>2 DEF DebtInv, Strays, Budget
<1> QED
  BY <1>1, InitDebt, NextDebt, PTL DEF Spec
=============================================================================
