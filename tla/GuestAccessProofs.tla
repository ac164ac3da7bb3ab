-------------------------- MODULE GuestAccessProofs --------------------------
(***************************************************************************)
(* The invariant of GuestInvariant is one, and with it the purge           *)
(* guarantees of GuestAccess, for any number of workers, slots, guests and *)
(* failures.                                                               *)
(***************************************************************************)
EXTENDS OperationProofs

(* A cookie is presented.                                                  *)
LEMMA RenewSessionInv ==
  ASSUME Inv, NEW w \in Worker, NEW g \in Gen, RenewSession(w, g)
  PROVE  Inv'
<1>1. /\ TypeOK /\ HoldsOK(w) /\ g \in used /\ session[g] \in Index
      /\ UNCHANGED <<event, slot, session, receipt, invitation, used, issued, acked, faults>>
  BY DEF Inv, TypeOK, RenewSession, store
<1>2. session[g].slot \in Slot /\ session[g].slot \in 0 .. MaxCapacity
  BY <1>1, BoundsAssumption DEF Index, Slot
<1>3. PICK n \in Slot : n = session[g].slot
  BY <1>2
<1>4. PICK j \in Job : j = [Idle EXCEPT !.pc = "renew_event", !.num = n, !.seen[n] = g]
  BY <1>2, <1>3, IdleOK DEF Job, PC
<1>5. /\ j.pc = "renew_event" /\ j.num = n /\ j.todo = {} /\ j.seen[n] = g
      /\ \A m \in Slot : m # n => j.seen[m] = NoGen
  BY <1>4 DEF Idle, NothingSeen
<1>6. JobOK(j)
  BY <1>1, <1>5 DEF JobOK, Cleanup, Provisional, Closed, Erasing, Finalizing
<1>7. Goto(w, j, holdsEvent, holdsSlot)
  BY <1>3, <1>4 DEF RenewSession, Proceed
<1>8. \A m \in Slot : w \notin holdsSlot[m]
  BY <1>1, SentinelAssumption
  DEF RenewSession, At, Inv, JobOK, Idle, NothingSeen, HoldsOK, SlotHas, TypeOK, SlotRecord
<1>9. /\ job' = [job EXCEPT ![w] = j] /\ holdsEvent' \subseteq holdsEvent
      /\ holdsSlot' \in [Slot -> SUBSET Worker]
      /\ \A m \in Slot : holdsSlot'[m] \subseteq holdsSlot[m]
  BY <1>1, <1>7 DEF Goto, TypeOK
<1>10. w \in holdsEvent' => event # NoEvent
  BY <1>1, <1>9 DEF HoldsOK
<1> QED
  BY <1>1, <1>5, <1>6, <1>8, <1>9, <1>10, Quiet DEF TypeOK, Provisional

(* The steps of a renewal.                                                 *)
LEMMA RenewInv ==
  ASSUME Inv, NEW w \in Worker, Renew(w)
  PROVE  Inv'
<1> DEFINE n == job[w].num
<1>1. TypeOK /\ JobOK(job[w]) /\ HoldsOK(w) /\ job[w] \in Job /\ job[w].pc \in Renewal
  BY DEF Inv, TypeOK, Renew, RenewEvent, RenewSlot, RenewCommit, RenewConflict, At, Renewal
<1>2. n \in Slot /\ job[w].seen[n] \in Gen /\ job[w].todo = {}
  BY <1>1 DEF JobOK, Renewal, Numbered, Identified, Listing, Job
<1>3. \A pc \in Renewal : \E j \in Job :
        /\ j = [job[w] EXCEPT !.pc = pc]
        /\ j.pc = pc /\ j.num = n /\ j.seen = job[w].seen /\ j.todo = {} /\ JobOK(j)
  <2> TAKE pc \in Renewal
  <2>1. PICK j \in Job : j = [job[w] EXCEPT !.pc = pc]
    BY <1>1 DEF Job, PC, Renewal
  <2>2. j.pc = pc /\ j.num = n /\ j.seen = job[w].seen /\ j.todo = {}
    BY <1>1, <1>2, <2>1 DEF Job
  <2>3. JobOK(j)
    BY <1>1, <1>2, <2>2 DEF JobOK, Renewal, Provisional, Closed, Erasing, Finalizing
  <2> QED
    BY <2>1, <2>2, <2>3
<1>4. ASSUME NEW pc \in Renewal, Proceed(w, [job[w] EXCEPT !.pc = pc]),
             UNCHANGED <<event, slot, session, receipt, invitation, used, issued, acked, faults>>
      PROVE  Inv'
  <2>1. PICK j \in Job :
          /\ j = [job[w] EXCEPT !.pc = pc]
          /\ j.pc = pc /\ j.num = n /\ j.seen = job[w].seen /\ j.todo = {} /\ JobOK(j)
    BY <1>3
  <2>2. Proceed(w, j)
    BY <1>4, <2>1
  <2>3. j.pc \notin Provisional \cup {"start_index", "set_put", "capacity_put"}
    BY <2>1 DEF Renewal, Provisional
  <2>4. JobOK(j) /\ \A m \in Slot : j.seen[m] = job[w].seen[m]
    BY <2>1
  <2> QED
    BY <1>1, <1>4, <2>2, <2>3, <2>4, Onward DEF Proceed, Goto, TypeOK
<1>5. ASSUME Proceed(w, Idle),
             UNCHANGED <<event, slot, session, receipt, invitation, used, issued, acked, faults>>
      PROVE  Inv'
  BY <1>1, <1>5, IdleOK, Onward DEF Proceed, Goto, TypeOK, Idle, NothingSeen, Provisional
<1>6. CASE RenewEvent(w)
  BY <1>4, <1>5, <1>6 DEF RenewEvent, store, Renewal
<1>7. CASE RenewSlot(w)
  <2>1. CASE Renewable(n, Own(w))
    <3>1. PICK j \in Job :
            /\ j = [job[w] EXCEPT !.pc = "renew_put"]
            /\ j.pc = "renew_put" /\ j.num = n /\ j.seen = job[w].seen /\ j.todo = {} /\ JobOK(j)
      BY <1>3 DEF Renewal
    <3>2. /\ Goto(w, j, holdsEvent, SlotRead(w, n)) /\ SlotHas(n, j.seen[n])
          /\ UNCHANGED <<event, slot, session, receipt, invitation, used, issued, acked, faults>>
      BY <1>7, <2>1, <3>1 DEF RenewSlot, Renewable, Own, store
    <3>3. SlotRead(w, n) = [m \in Slot |-> IF m = n THEN holdsSlot[m] \cup {w} ELSE holdsSlot[m]]
      BY <1>1, <1>2 DEF SlotRead, TypeOK
    <3>4. /\ job' = [job EXCEPT ![w] = j] /\ holdsEvent' \subseteq holdsEvent
          /\ holdsSlot' \in [Slot -> SUBSET Worker]
          /\ \A m \in Slot : holdsSlot'[m] \subseteq holdsSlot[m] \cup {w}
          /\ \A m \in Slot : m # n /\ w \in holdsSlot'[m] => w \in holdsSlot[m]
      BY <1>1, <3>2, <3>3 DEF Goto, TypeOK
    <3>5. \A m \in Slot : w \in holdsSlot'[m] => SlotHas(m, j.seen[m])
      BY <1>1, <3>1, <3>2, <3>4 DEF HoldsOK
    <3>6. w \in holdsEvent' => event # NoEvent
      BY <1>1, <3>4 DEF HoldsOK
    <3>7. j.pc \notin Provisional \cup {"start_index", "set_put", "capacity_put"}
      BY <3>1 DEF Provisional
    <3>8. JobOK(j)
      BY <3>1
    <3> QED
      BY <1>1, <3>2, <3>4, <3>5, <3>6, <3>7, <3>8, Quiet DEF TypeOK
  <2>2. CASE ~ Renewable(n, Own(w))
    BY <1>5, <1>7, <2>2 DEF RenewSlot, store
  <2> QED
    BY <2>1, <2>2
<1>8. CASE RenewCommit(w)
  <2>1. w \in holdsSlot[n] /\ UNCHANGED <<event, session, receipt, invitation, used, issued, acked, faults>>
    BY <1>8 DEF RenewCommit, UpdateSlot
  <2>2. PICK rec \in SlotRecord : rec = [slot[n] EXCEPT !.reserved = FALSE, !.expired = FALSE]
    <3>1. slot[n] \in SlotRecord
      BY <1>1, <1>2, <2>1 DEF TypeOK, HoldsOK, SlotHas
    <3> QED
      BY <3>1 DEF SlotRecord
  <2>3. PICK j \in Job : j = Idle /\ j.pc = "idle" /\ JobOK(j) /\ \A m \in Slot : j.seen[m] = NoGen
    BY IdleOK DEF Idle, NothingSeen
  <2>4. UpdateSlot(w, n, rec, j) /\ rec.gen = slot[n].gen
    <3>1. slot[n] \in SlotRecord
      BY <1>1, <1>2, <2>1 DEF TypeOK, HoldsOK, SlotHas
    <3>2. rec.gen = slot[n].gen
      BY <2>2, <3>1 DEF SlotRecord
    <3> QED
      BY <1>8, <2>2, <2>3, <3>2 DEF RenewCommit
  <2> QED
    <3>1. j.pc \notin Provisional \cup {"set_put", "capacity_put"}
      BY <2>3 DEF Provisional
    <3>2. PICK m \in Slot : m = n
      BY <1>2
    <3>3. UpdateSlot(w, m, rec, j) /\ rec.gen = slot[m].gen
      BY <2>4, <3>2
    <3>4. JobOK(j) /\ \A k \in Slot : j.seen[k] \in {job[w].seen[k], NoGen}
      BY <2>3
    <3> QED
      BY <2>1, <3>1, <3>3, <3>4, Rewrite DEF UpdateSlot, SlotWritten, Goto
<1>9. CASE RenewConflict(w)
  BY <1>4, <1>5, <1>9 DEF RenewConflict, Refused, store, Renewal
<1> QED
  BY <1>6, <1>7, <1>8, <1>9 DEF Renew

-----------------------------------------------------------------------------
(* The presenter's operations: a read of the event that comes before a     *)
(* write of it.                                                            *)
LEMMA LoadInv ==
  ASSUME Inv, NEW w \in Worker, NEW j \in Job, Goto(w, j, holdsEvent \cup {w}, holdsSlot),
         UNCHANGED <<event, slot, session, receipt, invitation, used, issued, acked, faults>>,
         event # NoEvent, j.pc \in {"set_put", "capacity_put"}, Live,
         j.pc = "set_put" => j.target \in {"open", "paused"},
         j.todo = {}, \A m \in Slot : j.seen[m] \in {job[w].seen[m], NoGen}
  PROVE  Inv'
<1>1. TypeOK /\ HoldsOK(w) /\ JobOK(job[w])
  BY DEF Inv
<1>2. \A m \in Slot : j.seen[m] \in used \cup {NoGen}
  BY <1>1 DEF JobOK
<1>3. JobOK(j)
  BY <1>2 DEF JobOK, Numbered, Identified, Cleanup, Provisional, Renewal, Closed, Erasing, Finalizing
<1>4. /\ job' = [job EXCEPT ![w] = j] /\ holdsEvent' \subseteq holdsEvent \cup {w}
      /\ holdsSlot' \in [Slot -> SUBSET Worker]
      /\ \A m \in Slot : holdsSlot'[m] \subseteq holdsSlot[m]
      /\ \A m \in Slot : w \in holdsSlot'[m] => j.seen[m] # NoGen
  BY <1>1 DEF Goto, TypeOK
<1>5. \A m \in Slot : w \in holdsSlot'[m] => SlotHas(m, j.seen[m])
  BY <1>1, <1>4 DEF HoldsOK
<1>6. j.pc \notin Provisional \cup {"start_index"}
  BY DEF Provisional
<1> QED
  BY <1>1, <1>3, <1>4, <1>5, <1>6, Quiet DEF TypeOK

(* SetState, from its first read to the write of the event.                *)
LEMMA SetInv ==
  ASSUME Inv, NEW w \in Worker,
         SetState(w, "open") \/ SetState(w, "paused") \/ SetReload(w) \/ SetPut(w)
  PROVE  Inv'
<1>1. TypeOK /\ JobOK(job[w]) /\ HoldsOK(w) /\ job[w] \in Job
  BY DEF Inv, TypeOK
<1>2. ASSUME Proceed(w, Idle),
             UNCHANGED <<event, slot, session, receipt, invitation, used, issued, acked, faults>>
      PROVE  Inv'
  BY <1>1, <1>2, IdleOK, Onward DEF Proceed, Goto, TypeOK, Idle, NothingSeen, Provisional
<1>3. ASSUME NEW target \in {"open", "paused"}, Settable(target)
      PROVE  Live
  BY <1>3 DEF Settable, MayBecome, Live
<1>4. ASSUME NEW target \in {"open", "paused"}, SetState(w, target)
      PROVE  Inv'
  <2>1. PICK j \in Job : j = [Idle EXCEPT !.pc = "set_put", !.target = target]
    BY IdleOK DEF Job, PC, EventState
  <2>2. j.pc = "set_put" /\ j.target = target /\ j.todo = {} /\ \A m \in Slot : j.seen[m] = NoGen
    BY <2>1 DEF Idle, NothingSeen
  <2>3. /\ Goto(w, j, holdsEvent \cup {w}, holdsSlot) /\ Settable(target) /\ event # NoEvent
        /\ UNCHANGED <<event, slot, session, receipt, invitation, used, issued, acked, faults>>
    BY <1>4, <2>1 DEF SetState, Settable, store
  <2> QED
    BY <1>3, <2>2, <2>3, LoadInv DEF Goto
<1>5. CASE SetReload(w)
  <2>1. /\ job[w].pc = "set_load" /\ job[w].target \in {"open", "paused"} /\ job[w].todo = {}
        /\ UNCHANGED <<event, slot, session, receipt, invitation, used, issued, acked, faults>>
    BY <1>1, <1>5 DEF SetReload, At, JobOK, Listing, Job, store
  <2>2. CASE Settable(job[w].target)
    <3>1. PICK j \in Job : j = [job[w] EXCEPT !.pc = "set_put"]
      BY <1>1 DEF Job, PC
    <3>2. j.pc = "set_put" /\ j.target = job[w].target /\ j.todo = {} /\ j.seen = job[w].seen
      BY <1>1, <2>1, <3>1 DEF Job
    <3>3. Goto(w, j, holdsEvent \cup {w}, holdsSlot) /\ event # NoEvent /\ Live
      BY <1>3, <1>5, <2>1, <2>2, <3>1 DEF SetReload, Settable
    <3> QED
      BY <2>1, <3>2, <3>3, LoadInv DEF Goto
  <2>3. CASE ~ Settable(job[w].target)
    BY <1>2, <1>5, <2>1, <2>3 DEF SetReload
  <2> QED
    BY <2>2, <2>3
<1>6. CASE SetPut(w)
  <2>1. /\ job[w].pc = "set_put" /\ job[w].target \in {"open", "paused"} /\ job[w].todo = {}
        /\ UNCHANGED <<slot, session, receipt, invitation, used, issued, acked, faults>>
    BY <1>1, <1>6 DEF SetPut, At, JobOK, Listing, Job
  <2>2. CASE w \in holdsEvent
    <3>1. Live /\ event \in Event
      BY <1>1, <2>1, <2>2 DEF HoldsOK, Live, TypeOK
    <3>2. PICK rec \in Event : rec = [event EXCEPT !.state = job[w].target]
      BY <2>1, <3>1 DEF Event, EventState
    <3>3. PICK j \in Job : j = IF job[w].target = "paused" THEN StartList(job[w], "reserve_list") ELSE Idle
      BY <1>1, IdleOK DEF StartList, NothingSeen, Job, PC
    <3>4. /\ j.pc \in {"reserve_list", "idle"} /\ (j.pc = "idle" => j = Idle)
          /\ \A m \in Slot : j.seen[m] = NoGen
      BY <1>1, <3>3 DEF StartList, NothingSeen, Job, Idle
    <3>5. UpdateEvent(w, rec, j)
      BY <1>6, <2>2, <3>2, <3>3 DEF SetPut, RetryEvent
    <3>6. Simple(w, j)
      <4>1. j.pc = "idle" => j.todo = {}
        BY <3>4 DEF Idle
      <4> QED
        BY <3>4, <4>1 DEF Simple, Parked, Numbered, Identified, Cleanup, Provisional, Renewal, Listing, Job
    <3>7. JobOK(j)'
      BY <2>1, <3>6, SimpleOK
    <3>8. j.pc \notin Provisional \cup {"set_put", "capacity_put"}
      BY <3>4 DEF Provisional
    <3>9. \A m \in Slot : j.seen[m] \in {job[w].seen[m], NoGen}
      BY <3>4
    <3> QED
      BY <2>1, <3>1, <3>5, <3>7, <3>8, <3>9, EventRewrite DEF UpdateEvent, Goto
  <2>3. CASE w \notin holdsEvent
    <3>1. RetryEvent(w, "set_load")
      BY <1>6, <2>3 DEF SetPut, UpdateEvent
    <3>2. PICK j \in Job : j = [job[w] EXCEPT !.pc = "set_load"]
      BY <1>1 DEF Job, PC
    <3>3. j.pc = "set_load" /\ j.target = job[w].target /\ j.todo = {} /\ j.seen = job[w].seen
      BY <1>1, <2>1, <3>2 DEF Job
    <3>4. JobOK(j)
      BY <1>1, <2>1, <3>3 DEF JobOK, Numbered, Identified, Cleanup, Provisional, Renewal, Closed, Erasing,
                              Finalizing
    <3>5. CASE Proceed(w, j)
      BY <1>1, <2>1, <3>1, <3>3, <3>4, <3>5, Onward DEF RetryEvent, Proceed, Goto, TypeOK, Provisional
    <3> QED
      BY <1>2, <2>1, <3>1, <3>2, <3>5 DEF RetryEvent
  <2> QED
    BY <2>2, <2>3
<1> QED
  BY <1>4, <1>5, <1>6

(* A step to a point that asks for little, with nothing new learnt.        *)
LEMMA SimpleInv ==
  ASSUME Inv, NEW w \in Worker, NEW j \in Job, Simple(w, j), Proceed(w, j),
         UNCHANGED <<event, slot, session, receipt, invitation, used, issued, acked, faults>>
  PROVE  Inv'
<1>1. TypeOK /\ JobOK(j)
  BY SimpleOK DEF Inv
<1>2. /\ j.pc \notin Provisional \cup {"start_index", "set_put", "capacity_put"}
      /\ \A m \in Slot : j.seen[m] \in {job[w].seen[m], NoGen}
  BY DEF Simple, Parked, Provisional
<1> QED
  BY <1>1, <1>2, Onward DEF Proceed, Goto, TypeOK

(* The idle job asks nothing of the state.                                 *)
LEMMA IdleSimple == ASSUME NEW w \in Worker PROVE Idle \in Job /\ Simple(w, Idle)
BY IdleOK DEF Simple, Parked, Idle, NothingSeen, Numbered, Identified, Cleanup, Provisional, Renewal

(* reserveSlots: a slot is listed, a slot is reserved, or it starts over.  *)
LEMMA ReserveInv ==
  ASSUME Inv, NEW w \in Worker, ReserveList(w) \/ ReservePut(w) \/ ReserveDone(w)
  PROVE  Inv'
<1>1. TypeOK /\ JobOK(job[w]) /\ HoldsOK(w) /\ job[w] \in Job
  BY DEF Inv, TypeOK
<1>2. CASE ReserveList(w)
  <2>1. PICK n \in job[w].todo : ListOne(w, n, Unclaimed(n) /\ ~ slot[n].reserved, "reserve_put")
    BY <1>2 DEF ReserveList
  <2>2. UNCHANGED <<store, used, issued, acked, faults>> /\ job[w].pc = "reserve_list"
    BY <1>2 DEF ReserveList, At
  <2>3. PICK j \in Job : ListsTo(w, n, "reserve_put", j) /\ (JobOK(j) => Inv')
    <3>1. CASE Unclaimed(n) /\ ~ slot[n].reserved
      <4>1. ListOne(w, n, TRUE, "reserve_put") /\ slot[n] # NoSlot
        BY <2>1, <3>1 DEF ListOne, Unclaimed
      <4> QED
        BY <2>2, <4>1, ListKept DEF AfterList
    <3>2. CASE ~ (Unclaimed(n) /\ ~ slot[n].reserved)
      <4>1. ListOne(w, n, FALSE, "reserve_put")
        BY <2>1, <3>2 DEF ListOne
      <4> QED
        BY <2>2, <4>1, ListSkipped DEF AfterList
    <3> QED
      BY <3>1, <3>2
  <2>4. JobOK(j)
    BY <2>2, <2>3 DEF ListsTo, JobOK, Numbered, Identified, Cleanup, Provisional, Renewal, Closed, Erasing,
                      Finalizing, Listing
  <2> QED
    BY <2>3, <2>4
<1>3. CASE ReservePut(w)
  <2>1. /\ job[w].pc = "reserve_put" /\ job[w].todo = {}
        /\ UNCHANGED <<event, session, receipt, invitation, used, issued, acked, faults>>
    BY <1>1, <1>3 DEF ReservePut, At, JobOK, Listing, Job
  <2>2. PICK n \in Slot :
          \/ UpdateSlot(w, n, [slot[n] EXCEPT !.reserved = TRUE], [job[w] EXCEPT !.seen[n] = NoGen])
          \/ Refused(w, n, StartList(job[w], "reserve_list")) /\ UNCHANGED slot
          \/ slot[n] = NoSlot /\ Refused(w, n, Idle) /\ UNCHANGED slot
    BY <1>3 DEF ReservePut, Read
  <2>3. CASE UpdateSlot(w, n, [slot[n] EXCEPT !.reserved = TRUE], [job[w] EXCEPT !.seen[n] = NoGen])
    <3>1. slot[n] \in SlotRecord
      BY <1>1, <2>3 DEF UpdateSlot, TypeOK, HoldsOK, SlotHas
    <3>2. PICK rec \in SlotRecord : rec = [slot[n] EXCEPT !.reserved = TRUE]
      BY <3>1 DEF SlotRecord
    <3>3. rec.gen = slot[n].gen
      BY <3>1, <3>2 DEF SlotRecord
    <3>4. PICK j \in Job : j = [job[w] EXCEPT !.seen[n] = NoGen]
      BY <1>1 DEF Job
    <3>5. /\ j.pc = "reserve_put" /\ j.todo = {}
          /\ \A m \in Slot : j.seen[m] \in {job[w].seen[m], NoGen}
      BY <1>1, <2>1, <3>4 DEF Job
    <3>6. Simple(w, j)
      BY <3>5 DEF Simple, Parked, Numbered, Identified, Cleanup, Provisional, Renewal
    <3>7. JobOK(j) /\ j.pc \notin Provisional \cup {"set_put", "capacity_put"}
      BY <3>5, <3>6, SimpleOK DEF Provisional
    <3>8. UpdateSlot(w, n, rec, j) /\ rec.gen = slot[n].gen
      BY <2>3, <3>2, <3>4, <3>3
    <3>9. \A m \in Slot : j.seen[m] \in {job[w].seen[m], NoGen}
      BY <3>5
    <3> QED
      BY <2>1, <3>7, <3>8, <3>9, Rewrite DEF UpdateSlot, SlotWritten, Goto
  <2>4. CASE Refused(w, n, StartList(job[w], "reserve_list")) /\ UNCHANGED slot
    <3>1. PICK j \in Job : j = StartList(job[w], "reserve_list")
      BY <1>1 DEF StartList, NothingSeen, Job, PC
    <3>2. j.pc = "reserve_list" /\ \A m \in Slot : j.seen[m] = NoGen
      BY <1>1, <3>1 DEF StartList, NothingSeen, Job
    <3>3. Simple(w, j)
      BY <3>2 DEF Simple, Parked, Numbered, Identified, Cleanup, Provisional, Renewal, Listing, Job
    <3>4. Proceed(w, j) /\ UNCHANGED <<event, slot, session, receipt, invitation, used, issued, acked, faults>>
      BY <2>1, <2>4, <3>1 DEF Refused
    <3> QED
      BY <3>3, <3>4, SimpleInv DEF Proceed, Goto
  <2>5. CASE Refused(w, n, Idle) /\ UNCHANGED slot
    BY <2>1, <2>5, IdleSimple, SimpleInv DEF Refused, Proceed, Goto
  <2> QED
    BY <2>2, <2>3, <2>4, <2>5
<1>4. CASE ReserveDone(w)
  BY <1>4, IdleSimple, SimpleInv DEF ReserveDone, store, Proceed, Goto
<1> QED
  BY <1>2, <1>3, <1>4

(* UpdateCapacity.                                                         *)
LEMMA CapacityInv ==
  ASSUME Inv, NEW w \in Worker,
         \/ \E capacity \in 0 .. MaxCapacity : UpdateCapacity(w, capacity)
         \/ CapacityReload(w) \/ CapacityPut(w)
  PROVE  Inv'
<1>1. TypeOK /\ JobOK(job[w]) /\ HoldsOK(w) /\ job[w] \in Job
  BY DEF Inv, TypeOK
<1>2. CASE \E capacity \in 0 .. MaxCapacity : UpdateCapacity(w, capacity)
  <2>1. PICK capacity \in 0 .. MaxCapacity : UpdateCapacity(w, capacity)
    BY <1>2
  <2>2. PICK j \in Job : j = [Idle EXCEPT !.pc = "capacity_put", !.cap = capacity]
    BY IdleOK DEF Job, PC
  <2>3. j.pc = "capacity_put" /\ j.todo = {} /\ \A m \in Slot : j.seen[m] = NoGen
    BY <2>2 DEF Idle, NothingSeen
  <2>4. /\ Goto(w, j, holdsEvent \cup {w}, holdsSlot) /\ event # NoEvent /\ Live
        /\ UNCHANGED <<event, slot, session, receipt, invitation, used, issued, acked, faults>>
    BY <2>1, <2>2 DEF UpdateCapacity, Resizable, Live, store
  <2> QED
    BY <2>3, <2>4, LoadInv DEF Goto
<1>3. CASE CapacityReload(w)
  <2>1. /\ job[w].pc = "capacity_load" /\ job[w].todo = {}
        /\ UNCHANGED <<event, slot, session, receipt, invitation, used, issued, acked, faults>>
    BY <1>1, <1>3 DEF CapacityReload, At, JobOK, Listing, Job, store
  <2>2. CASE Resizable
    <3>1. PICK j \in Job : j = [job[w] EXCEPT !.pc = "capacity_put"]
      BY <1>1 DEF Job, PC
    <3>2. j.pc = "capacity_put" /\ j.todo = {} /\ j.seen = job[w].seen
      BY <1>1, <2>1, <3>1 DEF Job
    <3>3. Goto(w, j, holdsEvent \cup {w}, holdsSlot) /\ event # NoEvent /\ Live
      BY <1>3, <2>2, <3>1 DEF CapacityReload, Resizable, Live
    <3> QED
      BY <2>1, <3>2, <3>3, LoadInv DEF Goto
  <2>3. CASE ~ Resizable
    BY <1>3, <2>1, <2>3, IdleSimple, SimpleInv DEF CapacityReload, Proceed, Goto
  <2> QED
    BY <2>2, <2>3
<1>4. CASE CapacityPut(w)
  <2>1. /\ job[w].pc = "capacity_put" /\ job[w].todo = {}
        /\ UNCHANGED <<slot, session, receipt, invitation, used, issued, acked, faults>>
    BY <1>1, <1>4 DEF CapacityPut, At, JobOK, Listing, Job
  <2>2. CASE w \in holdsEvent
    <3>1. Live /\ event \in Event
      BY <1>1, <2>1, <2>2 DEF HoldsOK, Live, TypeOK
    <3>2. PICK rec \in Event : rec = [event EXCEPT !.capacity = job[w].cap]
      BY <1>1, <3>1 DEF Event, Job
    <3>3. PICK j \in Job : j = Idle /\ j.pc = "idle" /\ Simple(w, j) /\ \A m \in Slot : j.seen[m] = NoGen
      BY IdleSimple DEF Idle, NothingSeen
    <3>4. UpdateEvent(w, rec, j)
      BY <1>4, <2>2, <3>2, <3>3 DEF CapacityPut, RetryEvent
    <3>5. JobOK(j)'
      BY <2>1, <3>3, SimpleOK
    <3>6. j.pc \notin Provisional \cup {"set_put", "capacity_put"}
      BY <3>3 DEF Provisional
    <3>7. \A m \in Slot : j.seen[m] \in {job[w].seen[m], NoGen}
      BY <3>3
    <3> QED
      BY <2>1, <3>1, <3>4, <3>5, <3>6, <3>7, EventRewrite DEF UpdateEvent, Goto
  <2>3. CASE w \notin holdsEvent
    <3>1. RetryEvent(w, "capacity_load") /\ UNCHANGED event
      BY <1>4, <2>3 DEF CapacityPut, UpdateEvent, RetryEvent
    <3>2. PICK j \in Job : j = [job[w] EXCEPT !.pc = "capacity_load"]
      BY <1>1 DEF Job, PC
    <3>3. Simple(w, j)
      BY <1>1, <2>1, <3>2 DEF Simple, Parked, Numbered, Identified, Cleanup, Provisional, Renewal, Job
    <3>4. CASE Proceed(w, j)
      BY <2>1, <3>1, <3>3, <3>4, SimpleInv DEF Proceed, Goto
    <3>5. CASE Proceed(w, Idle)
      BY <2>1, <3>1, <3>5, IdleSimple, SimpleInv DEF Proceed, Goto
    <3> QED
      BY <3>1, <3>2, <3>4, <3>5 DEF RetryEvent
  <2> QED
    BY <2>2, <2>3
<1> QED
  BY <1>2, <1>3, <1>4

(* A slot is read and its identity remembered, before a cleanup.           *)
LEMMA ReadSlotInv ==
  ASSUME Inv, NEW w \in Worker, NEW j \in Job, NEW n \in Slot, NEW g \in Gen, SlotHas(n, g),
         job[w].todo = {},
         j = [job[w] EXCEPT !.pc = "clean_claim", !.seen[n] = g], j.num = n,
         Goto(w, j, holdsEvent, SlotRead(w, n)),
         UNCHANGED <<event, slot, session, receipt, invitation, used, issued, acked, faults>>
  PROVE  Inv'
<1>1. TypeOK /\ JobOK(job[w]) /\ HoldsOK(w) /\ job[w] \in Job /\ g \in used
  BY DEF Inv, TypeOK, SlotsOK, SlotHas
<1>2. /\ j.pc = "clean_claim" /\ j.todo = {} /\ j.seen[n] = g
      /\ \A m \in Slot : m # n => j.seen[m] = job[w].seen[m]
  BY <1>1 DEF Job
<1>3. JobOK(j)
  BY <1>1, <1>2 DEF JobOK, Provisional, Closed, Erasing, Finalizing
<1>4. SlotRead(w, n) = [m \in Slot |-> IF m = n THEN holdsSlot[m] \cup {w} ELSE holdsSlot[m]]
  BY <1>1 DEF SlotRead, TypeOK
<1>5. /\ job' = [job EXCEPT ![w] = j] /\ holdsEvent' \subseteq holdsEvent
      /\ holdsSlot' \in [Slot -> SUBSET Worker]
      /\ \A m \in Slot : holdsSlot'[m] \subseteq holdsSlot[m] \cup {w}
      /\ \A m \in Slot : m # n /\ w \in holdsSlot'[m] => w \in holdsSlot[m]
  BY <1>1, <1>4 DEF Goto, TypeOK
<1>6. \A m \in Slot : w \in holdsSlot'[m] => SlotHas(m, j.seen[m])
  BY <1>1, <1>2, <1>5 DEF HoldsOK
<1>7. w \in holdsEvent' => event # NoEvent
  BY <1>1, <1>5 DEF HoldsOK
<1> QED
  BY <1>1, <1>2, <1>3, <1>5, <1>6, <1>7, Quiet DEF TypeOK, Provisional

(* ReleaseSlot.                                                            *)
LEMMA ReleaseInv ==
  ASSUME Inv, NEW w \in Worker,
         (\E n \in Slot : ReleaseSlot(w, n)) \/ ReleaseRead(w) \/ ReleaseCleanup(w)
  PROVE  Inv'
<1>1. TypeOK /\ JobOK(job[w]) /\ HoldsOK(w) /\ job[w] \in Job
  BY DEF Inv, TypeOK
<1>2. CASE \E n \in Slot : ReleaseSlot(w, n)
  <2>1. PICK n \in Slot : ReleaseSlot(w, n)
    BY <1>2
  <2>2. PICK j \in Job : j = [Idle EXCEPT !.pc = "release_slot", !.num = n]
    <3>1. n \in 0 .. MaxCapacity
      BY BoundsAssumption DEF Slot
    <3> QED
      BY <3>1, IdleOK DEF Job, PC
  <2>3. j.pc = "release_slot" /\ j.num = n /\ j.todo = {} /\ \A m \in Slot : j.seen[m] = NoGen
    BY <2>2 DEF Idle, NothingSeen
  <2>4. Simple(w, j)
    BY <2>3 DEF Simple, Parked, Identified, Cleanup, Provisional, Renewal
  <2>5. Proceed(w, j) /\ UNCHANGED <<event, slot, session, receipt, invitation, used, issued, acked, faults>>
    BY <2>1, <2>2 DEF ReleaseSlot, store
  <2> QED
    BY <2>4, <2>5, SimpleInv DEF Proceed, Goto
<1>3. CASE ReleaseRead(w)
  <2> DEFINE n == job[w].num
  <2>1. /\ job[w].pc = "release_slot" /\ n \in Slot /\ job[w].todo = {}
        /\ UNCHANGED <<event, slot, session, receipt, invitation, used, issued, acked, faults>>
    BY <1>1, <1>3 DEF ReleaseRead, At, JobOK, Numbered, Listing, Job, store
  <2>2. CASE Claimable(n)
    <3>1. PICK m \in Slot : m = n
      BY <2>1
    <3>2. slot[m] # NoSlot /\ slot[m].gen \in Gen
      BY <1>1, <2>2, <3>1 DEF Claimable, TypeOK, SlotRecord
    <3>3. PICK g \in Gen : g = slot[m].gen /\ SlotHas(m, g)
      BY <3>2 DEF SlotHas
    <3>4. PICK j \in Job : j = [job[w] EXCEPT !.pc = "clean_claim", !.seen[m] = g] /\ j.num = m
      <4>1. PICK j \in Job : j = [job[w] EXCEPT !.pc = "clean_claim", !.seen[m] = g]
        BY <1>1 DEF Job, PC
      <4>2. j.num = m
        BY <1>1, <3>1, <4>1 DEF Job
      <4> QED
        BY <4>1, <4>2
    <3>5. Goto(w, j, holdsEvent, SlotRead(w, m))
      BY <1>3, <2>2, <3>1, <3>3, <3>4 DEF ReleaseRead
    <3> QED
      BY <2>1, <3>3, <3>4, <3>5, ReadSlotInv DEF Goto, SlotRead
  <2>3. CASE ~ Claimable(n)
    BY <1>3, <2>1, <2>3, IdleSimple, SimpleInv DEF ReleaseRead, Proceed, Goto
  <2> QED
    BY <2>2, <2>3
<1>4. CASE ReleaseCleanup(w)
  BY <1>4, IdleSimple, CleanSlotInv DEF ReleaseCleanup
<1> QED
  BY <1>2, <1>3, <1>4

(* Everything a presenter's call does after it has arrived.                *)
LEMMA AdministerInv ==
  ASSUME Inv, NEW w \in Worker, Administer(w)
  PROVE  Inv'
BY SetInv, ReserveInv, CapacityInv, ReleaseInv DEF Administer

-----------------------------------------------------------------------------
(* Recovery.                                                               *)
LEMMA ScanEventInv ==
  ASSUME Inv, NEW w \in Worker, ScanEvent(w)
  PROVE  Inv'
<1>1. /\ TypeOK /\ HoldsOK(w) /\ event # NoEvent
      /\ UNCHANGED <<event, slot, session, receipt, invitation, used, issued, acked, faults>>
  BY DEF Inv, ScanEvent, store
<1>2. CASE EventIs("deleting")
  <2>1. PICK j \in Job : j = [Idle EXCEPT !.pc = "delete_receipt"]
    BY IdleOK DEF Job, PC
  <2>2. j.pc = "delete_receipt" /\ j.todo = {} /\ \A m \in Slot : j.seen[m] = NoGen
    BY <2>1 DEF Idle, NothingSeen
  <2>3. JobOK(j)
    BY <1>2, <2>2 DEF JobOK, Live, EventIs, Numbered, Identified, Cleanup, Provisional, Renewal, Closed,
                      Erasing, Finalizing
  <2>4. Goto(w, j, holdsEvent \cup {w}, holdsSlot)
    BY <1>2, <2>1 DEF ScanEvent
  <2>5. /\ job' = [job EXCEPT ![w] = j] /\ holdsEvent' \subseteq holdsEvent \cup {w}
        /\ holdsSlot' \in [Slot -> SUBSET Worker]
        /\ \A m \in Slot : holdsSlot'[m] \subseteq holdsSlot[m] /\ w \notin holdsSlot'[m]
    BY <1>1, <2>2, <2>4 DEF Goto, TypeOK
  <2> QED
    BY <1>1, <2>2, <2>3, <2>5, Quiet DEF TypeOK, Provisional
<1>3. CASE ~ EventIs("deleting")
  <2>1. event.state \in EventState
    BY <1>1 DEF TypeOK, Event
  <2>2. PICK j \in Job : j = StartList([Idle EXCEPT !.target = event.state], "scan_list")
    BY <2>1, IdleOK DEF StartList, NothingSeen, Job, PC
  <2>3. j.pc = "scan_list" /\ \A m \in Slot : j.seen[m] = NoGen
    BY <2>2 DEF StartList, Idle, NothingSeen
  <2>4. Simple(w, j)
    BY <2>3 DEF Simple, Parked, Numbered, Identified, Cleanup, Provisional, Renewal, Listing, Job
  <2>5. Proceed(w, j)
    BY <1>3, <2>2 DEF ScanEvent
  <2> QED
    BY <1>1, <2>4, <2>5, SimpleInv DEF Proceed, Goto
<1> QED
  BY <1>2, <1>3

(* Every step of a recovery pass preserves the invariant                   *)
(* (access/recovery.go:213-280).                                           *)
LEMMA ReconcileInv ==
  ASSUME Inv, NEW w \in Worker, Reconcile(w)
  PROVE  Inv'
<1>1. TypeOK /\ JobOK(job[w]) /\ job[w] \in Job
  BY DEF Inv, TypeOK
<1>2. CASE ScanList(w)
  <2>1. PICK n \in job[w].todo : ListOne(w, n, NeedsCleanup(n, job[w].target), "scan_pick")
    BY <1>2 DEF ScanList
  <2>2. UNCHANGED <<store, used, issued, acked, faults>> /\ job[w].pc = "scan_list"
    BY <1>2 DEF ScanList, At
  <2>3. PICK j \in Job : ListsTo(w, n, "scan_pick", j) /\ (JobOK(j) => Inv')
    <3>1. CASE NeedsCleanup(n, job[w].target)
      <4>1. ListOne(w, n, TRUE, "scan_pick") /\ slot[n] # NoSlot
        BY <2>1, <3>1 DEF ListOne, NeedsCleanup
      <4> QED
        BY <2>2, <4>1, ListKept DEF AfterList
    <3>2. CASE ~ NeedsCleanup(n, job[w].target)
      <4>1. ListOne(w, n, FALSE, "scan_pick")
        BY <2>1, <3>2 DEF ListOne
      <4> QED
        BY <2>2, <4>1, ListSkipped DEF AfterList
    <3> QED
      BY <3>1, <3>2
  <2>4. JobOK(j)
    BY <2>2, <2>3 DEF ListsTo, JobOK, Numbered, Identified, Cleanup, Provisional, Renewal, Closed, Erasing,
                      Finalizing, Listing
  <2> QED
    BY <2>3, <2>4
<1>3. CASE ScanPick(w)
  <2>1. /\ job[w].pc = "scan_pick" /\ job[w].todo = {}
        /\ UNCHANGED <<event, slot, session, receipt, invitation, used, issued, acked, faults>>
    BY <1>1, <1>3 DEF ScanPick, At, JobOK, Listing, Job, store
  <2>2. CASE Proceed(w, Idle)
    BY <2>1, <2>2, IdleSimple, SimpleInv DEF Proceed, Goto
  <2>3. CASE \E n \in Read(job[w]) : Proceed(w, [job[w] EXCEPT !.pc = "clean_claim", !.num = n])
    <3>1. PICK n \in Slot : /\ job[w].seen[n] # NoGen
                            /\ Proceed(w, [job[w] EXCEPT !.pc = "clean_claim", !.num = n])
      BY <2>3 DEF Read
    <3>2. n \in 0 .. MaxCapacity /\ job[w].seen[n] \in Gen
      BY <1>1, <3>1, BoundsAssumption DEF Slot, Job
    <3>3. PICK j \in Job : j = [job[w] EXCEPT !.pc = "clean_claim", !.num = n]
      BY <1>1, <3>2 DEF Job, PC
    <3>4. j.pc = "clean_claim" /\ j.num = n /\ j.seen = job[w].seen /\ j.todo = {}
      BY <1>1, <2>1, <3>3 DEF Job
    <3>5. Simple(w, j)
      BY <3>2, <3>4 DEF Simple, Parked
    <3>6. Proceed(w, j)
      BY <3>1, <3>3
    <3> QED
      BY <2>1, <3>5, <3>6, SimpleInv DEF Proceed, Goto
  <2> QED
    BY <1>3, <2>2, <2>3 DEF ScanPick
<1>4. CASE ScanCleanup(w)
  <2> DEFINE n == job[w].num
  <2>1. n \in Slot /\ job[w].todo = {}
    BY <1>1, <1>4 DEF ScanCleanup, CleanSlot, CleanClaim, CleanAcked, CleanUnanswered, CleanBackoff,
                      CleanUnindex, CleanDrop, CleanFails, At, JobOK, Cleanup, Identified, Numbered, Listing, Job
  <2>2. PICK j \in Job : j = NextTask(job[w])
    <3>1. 0 \in 0 .. MaxCapacity
      BY BoundsAssumption
    <3> QED
      BY <1>1, <2>1, <3>1 DEF NextTask, Job, PC
  <2>3. /\ j.pc = "scan_pick" /\ j.todo = {}
        /\ \A m \in Slot : j.seen[m] \in {job[w].seen[m], NoGen}
    BY <1>1, <2>1, <2>2 DEF NextTask, Job
  <2>4. Simple(w, j)
    BY <2>3 DEF Simple, Parked, Numbered, Identified, Cleanup, Provisional, Renewal
  <2> QED
    BY <1>4, <2>2, <2>4, CleanSlotInv DEF ScanCleanup
<1> QED
  BY <1>2, <1>3, <1>4, CleanEventInv DEF Reconcile

-----------------------------------------------------------------------------
(* The clock: no worker moves and no record changes its identity.          *)
LEMMA ClockInv ==
  ASSUME Inv, Clock
  PROVE  Inv'
<1>1. /\ TypeOK
      /\ UNCHANGED <<session, receipt, invitation, holdsEvent, holdsSlot, used, issued, acked, job, faults>>
  BY DEF Inv, Clock, EventClaimDue, Expire, SlotClaimDue
<1>2. /\ event' \in Event \cup {NoEvent} /\ (Live' <=> Live) /\ (event' = NoEvent <=> event = NoEvent)
      /\ slot' \in [Slot -> SlotRecord \cup {NoSlot}]
      /\ \A n \in Slot : slot'[n] # NoSlot <=> slot[n] # NoSlot
      /\ \A n \in Slot : slot[n] # NoSlot => slot'[n].gen = slot[n].gen
  <2>1. CASE EventClaimDue
    <3>1. event \in Event /\ event' = [event EXCEPT !.cleanup = "due"] /\ slot' = slot
      BY <1>1, <2>1 DEF EventClaimDue, TypeOK
    <3>2. event' \in Event /\ event'.state = event.state
      BY <3>1 DEF Event, Claim
    <3> QED
      BY <1>1, <3>1, <3>2, SentinelAssumption DEF Live, TypeOK
  <2>2. ASSUME NEW n \in Slot, Expire(n) \/ SlotClaimDue(n)
        PROVE  /\ event' = event
               /\ slot' \in [Slot -> SlotRecord \cup {NoSlot}]
               /\ \A m \in Slot : slot'[m] # NoSlot <=> slot[m] # NoSlot
               /\ \A m \in Slot : slot[m] # NoSlot => slot'[m].gen = slot[m].gen
    <3>1. slot[n] \in SlotRecord
      BY <1>1, <2>2 DEF Expire, SlotClaimDue, Unclaimed, TypeOK
    <3>2. PICK rec \in SlotRecord : rec.gen = slot[n].gen /\ slot' = [slot EXCEPT ![n] = rec]
      <4>1. CASE Expire(n)
        <5>1. PICK rec \in SlotRecord : rec = [slot[n] EXCEPT !.expired = TRUE]
          BY <3>1 DEF SlotRecord
        <5>2. rec.gen = slot[n].gen
          BY <3>1, <5>1 DEF SlotRecord
        <5>3. slot' = [slot EXCEPT ![n] = rec]
          BY <4>1, <5>1 DEF Expire
        <5> QED
          BY <5>2, <5>3
      <4>2. CASE SlotClaimDue(n)
        <5>1. PICK rec \in SlotRecord : rec = [slot[n] EXCEPT !.cleanup = "due"]
          BY <3>1 DEF SlotRecord, Claim
        <5>2. rec.gen = slot[n].gen
          BY <3>1, <5>1 DEF SlotRecord
        <5>3. slot' = [slot EXCEPT ![n] = rec]
          BY <4>2, <5>1 DEF SlotClaimDue
        <5> QED
          BY <5>2, <5>3
      <4> QED
        BY <2>2, <4>1, <4>2
    <3>3. event' = event
      BY <2>2 DEF Expire, SlotClaimDue
    <3> QED
      BY <1>1, <3>1, <3>2, <3>3, SentinelAssumption DEF TypeOK
  <2>3. CASE \E n \in Slot : Expire(n) \/ SlotClaimDue(n)
    BY <1>1, <2>2, <2>3 DEF TypeOK, Live
  <2> QED
    BY <2>1, <2>3 DEF Clock
<1>3. TypeOK'
  BY <1>1, <1>2 DEF TypeOK
<1>4. \A n \in Slot : \A g \in Gen : SlotHas(n, g)' <=> SlotHas(n, g)
  BY <1>2 DEF SlotHas
<1>5. Committed' = Committed /\ Committed \subseteq Gen
  <2>1. Committed' = Committed
    BY <1>1 DEF Committed, At, Own
  <2>2. Committed \subseteq Gen
    BY DEF Inv, TypeOK, Committed, JobOK, Own, At, Identified, Provisional
  <2> QED
    BY <2>1, <2>2
<1>6. Evolves
  BY <1>1, <1>2, <1>4, <1>5 DEF Evolves
<1>7. \A u \in Worker : JobOK(job[u])'
  BY <1>1, <1>6, BystanderOK DEF Inv, JobOK, Own
<1>8. \A u \in Worker : HoldsOK(u)'
  BY <1>1, <1>2 DEF Inv, HoldsOK, SlotHas
<1>9. SlotsOK'
  BY <1>1, <1>2 DEF Inv, SlotsOK, SlotHas
<1>10. AdmissionsDistinct' /\ issued' \subseteq used'
  BY <1>1 DEF Inv, AdmissionsDistinct, Own
<1>11. \A g \in Committed' : Accounted(g)'
  BY <1>1, <1>4, <1>5 DEF Inv, Accounted
<1>12. receipt' # NoReceipt => ~ Live' /\ Committed' \subseteq acked'
  BY <1>1, <1>2, <1>5 DEF Inv
<1>13. event' = NoEvent =>
         /\ receipt' # NoReceipt /\ ~ invitation'
         /\ \A n \in Slot : slot'[n] # NoSlot => slot'[n].gen \notin Committed'
  BY <1>1, <1>2, <1>5 DEF Inv
<1> QED
  BY <1>3, <1>7, <1>8, <1>9, <1>10, <1>11, <1>12, <1>13 DEF Inv

(* An operation ends where it stands.                                      *)
LEMMA CrashInv ==
  ASSUME Inv, NEW w \in Worker, Crash(w)
  PROVE  Inv'
<1>1. TypeOK
  BY DEF Inv
<1>2. /\ Proceed(w, Idle)
      /\ UNCHANGED <<event, slot, session, receipt, invitation, used, issued, acked>>
  BY DEF Crash, store
<1>3. faults' \in 0 .. MaxFaults
  BY <1>1, BoundsAssumption DEF Crash, Fault, TypeOK
<1> QED
  BY <1>1, <1>2, <1>3, IdleOK, Onward DEF Proceed, Goto, TypeOK, Idle, NothingSeen, Provisional

-----------------------------------------------------------------------------
(* The event as CreateEvent leaves it satisfies the invariant.             *)
LEMMA InitInv ==
  ASSUME Init
  PROVE  Inv
<1>1. \A w \in Worker : job[w] = Idle
  BY DEF Init
<1>2. TypeOK
  <2>1. event \in Event /\ slot \in [Slot -> SlotRecord \cup {NoSlot}]
    BY DEF Init, Event, EventState, Claim
  <2>2. job \in [Worker -> Job]
    BY IdleOK DEF Init
  <2>3. faults \in 0 .. MaxFaults
    BY BoundsAssumption DEF Init
  <2> QED
    BY <2>1, <2>2, <2>3 DEF Init, TypeOK
<1>3. Committed = {}
  BY <1>1, IdleOK DEF Init, Committed, At
<1>4. \A w \in Worker : JobOK(job[w]) /\ HoldsOK(w)
  BY <1>1, IdleOK DEF Init, HoldsOK
<1>5. SlotsOK /\ AdmissionsDistinct
  <2>1. SlotsOK
    BY DEF Init, SlotsOK, SlotHas
  <2>2. \A w \in Worker : job[w].pc \notin Provisional
    BY <1>1, IdleOK DEF Provisional
  <2> QED
    BY <2>1, <2>2 DEF AdmissionsDistinct
<1>6. event # NoEvent
  BY <1>2, SentinelAssumption DEF Init, Event, EventState, Claim
<1> QED
  BY <1>2, <1>3, <1>4, <1>5, <1>6 DEF Init, Inv

(* Every step preserves it.                                                *)
LEMMA NextInv ==
  ASSUME Inv, [Next]_vars
  PROVE  Inv'
<1>1. ASSUME NEW w \in GuestHandlers, GuestCall(w) \/ GuestStep(w)
      PROVE  Inv'
  <2>1. w \in Worker
    BY DEF Worker
  <2> QED
    BY <1>1, <2>1, StartSessionInv, RenewSessionInv, AdmitInv, RenewInv DEF GuestCall, GuestStep
<1>2. ASSUME NEW w \in PresenterHandlers, PresenterCall(w) \/ PresenterStep(w)
      PROVE  Inv'
  <2>1. w \in Worker
    BY DEF Worker
  <2> QED
    BY <1>2, <2>1, SetInv, CapacityInv, ReleaseInv, DeleteEventInv, AdministerInv, DeleteBeginInv,
       CleanEventInv
    DEF PresenterCall, PresenterStep
<1>3. ASSUME NEW w \in RecoveryWorkers, ScanEvent(w) \/ Reconcile(w)
      PROVE  Inv'
  <2>1. w \in Worker
    BY DEF Worker
  <2> QED
    BY <1>3, <2>1, ScanEventInv, ReconcileInv
<1>4. CASE UNCHANGED vars
  BY <1>4 DEF vars, store, Inv, TypeOK, JobOK, HoldsOK, SlotsOK, AdmissionsDistinct, Committed,
              Accounted, Own, At, Read, Live, SlotHas
<1> QED
  BY <1>1, <1>2, <1>3, <1>4, CrashInv, ClockInv DEF Next

(* The invariant holds in every reachable state.                           *)
THEOREM Invariance == Spec => []Inv
<1>1. Init => Inv
  BY InitInv
<1>2. Inv /\ [Next]_vars => Inv'
  BY NextInv
<1> QED
  BY <1>1, <1>2, PTL DEF Spec

(* Every variable keeps its type.                                          *)
THEOREM TypeCorrectness == Spec => []TypeOK
<1>1. Inv => TypeOK
  BY DEF Inv
<1> QED
  BY <1>1, Invariance, PTL

(* No slot of an identity that was handed out is released before the       *)
(* application has acknowledged its erasure (access/recovery.go:47-80,     *)
(* 106-193; service.go:318-325).                                           *)
THEOREM PurgeComesFirst == Spec => []PurgeBeforeRelease
<1>1. Inv => PurgeBeforeRelease
  BY DEF Inv, PurgeBeforeRelease, Committed, Accounted
<1> QED
  BY <1>1, Invariance, PTL

(* A receipt speaks for every identity that was ever handed out (access/   *)
(* recovery.go:131-165).                                                   *)
THEOREM ReceiptIsComplete == Spec => []ReceiptCoversEveryone
<1>1. Inv => ReceiptCoversEveryone
  BY DEF Inv, ReceiptCoversEveryone, Committed
<1> QED
  BY <1>1, Invariance, PTL

(* The event is removed last, with nobody left behind (access/recovery.go: *)
(* 168-193).                                                               *)
THEOREM EventGoesLast == Spec => []NothingLeftBehind
<1>1. Inv => NothingLeftBehind
  BY DEF Inv, NothingLeftBehind, Committed
<1> QED
  BY <1>1, Invariance, PTL

-----------------------------------------------------------------------------
(* Which steps write the event.                                            *)
EventWritten ==
  \/ \E w \in PresenterHandlers \cup RecoveryWorkers :
       SetPut(w) \/ CapacityPut(w) \/ DeleteBegin(w) \/ DeleteClaim(w) \/ DeleteBackoff(w) \/ FinalEvent(w)
  \/ EventClaimDue

(* Only an open, pause, capacity change or deletion writes the event, and  *)
(* the clock makes its claim due.                                          *)
LEMMA EventWriters ==
  ASSUME [Next]_vars
  PROVE  event' = event \/ EventWritten
<1>1. ASSUME NEW w \in Worker, NEW done, NEW failed, CleanSlot(w, done, failed)
      PROVE  event' = event
  BY <1>1 DEF CleanSlot, CleanClaim, CleanAcked, CleanUnanswered, CleanBackoff, CleanUnindex, CleanDrop, CleanFails, store
<1>2. ASSUME NEW w \in GuestHandlers, GuestCall(w) \/ Renew(w)
      PROVE  event' = event
  BY <1>2 DEF GuestCall, StartSession, RenewSession, Renew, RenewEvent, RenewSlot, RenewCommit,
              RenewConflict, store
<1>3. ASSUME NEW w \in GuestHandlers, Admit(w)
      PROVE  event' = event
  <2>1. CASE StartCleanup(w)
    BY <2>1 DEF StartCleanup, CleanSlot, CleanClaim, CleanAcked, CleanUnanswered, CleanBackoff,
                CleanUnindex, CleanDrop, CleanFails, store
  <2> QED
    BY <1>3, <2>1 DEF Admit, StartCreate, CreateSlot, StartNoSecret, StartOccupied, StartSkip,
                      StartTakeOver, StartRecheck, StartIndex, StartIndexFails, StartMintFails, StartUndo,
                      StartCallFails, store
<1>4. ASSUME NEW w \in PresenterHandlers, PresenterCall(w)
      PROVE  event' = event
  BY <1>4 DEF PresenterCall, SetState, UpdateCapacity, ReleaseSlot, DeleteEvent, store
<1>5. ASSUME NEW w \in PresenterHandlers \cup RecoveryWorkers, CleanEvent(w)
      PROVE  event' = event \/ EventWritten
  BY <1>5 DEF EventWritten, CleanEvent, DeleteReceipt, DeleteList, DeleteAcked, DeleteUnanswered,
              DeleteRecord, FinalList, FinalMark, FinalDrop, FinalInvitation, store
<1>6. ASSUME NEW w \in PresenterHandlers, Administer(w)
      PROVE  event' = event \/ EventWritten
  <2>1. CASE ReleaseCleanup(w)
    BY <2>1 DEF ReleaseCleanup, CleanSlot, CleanClaim, CleanAcked, CleanUnanswered, CleanBackoff,
                CleanUnindex, CleanDrop, CleanFails, store
  <2> QED
    BY <1>6, <2>1 DEF EventWritten, Administer, SetReload, ReserveList, ReservePut, ReserveDone,
                      CapacityReload, ReleaseRead, store
<1>7. ASSUME NEW w \in RecoveryWorkers, ScanEvent(w) \/ Reconcile(w)
      PROVE  event' = event \/ EventWritten
  <2>1. CASE ScanCleanup(w)
    BY <2>1 DEF ScanCleanup, CleanSlot, CleanClaim, CleanAcked, CleanUnanswered, CleanBackoff,
                CleanUnindex, CleanDrop, CleanFails, store
  <2> QED
    BY <1>5, <1>7, <2>1 DEF Reconcile, ScanEvent, ScanList, ScanPick, store
<1>8. CASE Clock \/ UNCHANGED vars \/ \E w \in Worker : Crash(w)
  BY <1>8 DEF Clock, Expire, SlotClaimDue, Crash, EventWritten, vars, store
<1> QED
  BY <1>2, <1>3, <1>4, <1>5, <1>6, <1>7, <1>8 DEF Next, GuestStep, PresenterStep, EventWritten

(* A deletion is never undone: a write that would put the event in another *)
(* state, or change its capacity, was prepared before the deletion began   *)
(* and is refused (access/service.go:157, 189, 464).                       *)
THEOREM DeletionStands == Spec => DeletionIsFinal
<1>1. ASSUME Inv, [Next]_vars, EventIs("deleting")
      PROVE  event' = NoEvent \/ event'.state = "deleting"
  <2>1. event \in Event /\ ~ Live /\ event.state = "deleting"
    BY <1>1 DEF Inv, TypeOK, EventIs, Live
  <2>2. ASSUME NEW w \in PresenterHandlers \cup RecoveryWorkers, SetPut(w) \/ CapacityPut(w)
        PROVE  event' = event
    <3>1. HoldsOK(w) /\ job[w].pc \in {"set_put", "capacity_put"}
      BY <1>1, <2>2 DEF Inv, Worker, SetPut, CapacityPut, At
    <3>2. w \notin holdsEvent
      BY <2>1, <3>1 DEF HoldsOK
    <3> QED
      BY <2>2, <3>2 DEF SetPut, CapacityPut, UpdateEvent, RetryEvent
  <2>3. ASSUME NEW w \in PresenterHandlers \cup RecoveryWorkers,
               DeleteBegin(w) \/ DeleteClaim(w) \/ DeleteBackoff(w) \/ FinalEvent(w)
        PROVE  event' = NoEvent \/ event'.state = "deleting"
    BY <2>1, <2>3 DEF DeleteBegin, DeleteClaim, DeleteBackoff, FinalEvent, EventWrite, UpdateEvent, Event
  <2>4. CASE EventClaimDue
    BY <2>1, <2>4 DEF EventClaimDue, Event
  <2> QED
    BY <1>1, <2>1, <2>2, <2>3, <2>4, EventWriters DEF EventWritten
<1> QED
  BY <1>1, Invariance, PTL DEF Spec, DeletionIsFinal

-----------------------------------------------------------------------------
(* The steps of GuestPlaces that the steps of the service come to.         *)
PlacesStep == [Places!Next]_Places!vars

(* Who has which place is told by the generations in the slots.            *)
LEMMA OccupantOf ==
  ASSUME TypeOK, NEW n \in Slot
  PROVE  /\ slot[n] = NoSlot => Occupant[n] = NoGen
         /\ slot[n] # NoSlot => Occupant[n] = slot[n].gen /\ Occupant[n] \in Gen
         /\ Occupant[n] # NoGen <=> slot[n] # NoSlot
BY SentinelAssumption DEF TypeOK, Occupant, SlotRecord

(* A write that leaves these alone is none of GuestPlaces' business.       *)
LEMMA Untouched ==
  ASSUME UNCHANGED <<event, slot, receipt, used, issued, acked>>
  PROVE  PlacesStep
BY DEF PlacesStep, Places!vars, Occupant, Stage

(* A record that is written over keeps its generation.                     *)
LEMMA SlotRewritten ==
  ASSUME TypeOK, NEW n \in Slot, slot[n] # NoSlot,
         NEW rec \in SlotRecord, rec.gen = slot[n].gen,
         slot' = [slot EXCEPT ![n] = rec],
         UNCHANGED <<event, receipt, used, issued, acked>>
  PROVE  PlacesStep
<1>1. ASSUME NEW m \in Slot
      PROVE  /\ (slot'[m] = NoSlot) <=> (slot[m] = NoSlot)
             /\ slot[m] # NoSlot => slot'[m].gen = slot[m].gen
  BY SentinelAssumption DEF TypeOK
<1>2. Occupant' = Occupant
  BY <1>1 DEF Occupant
<1>3. Stage' = Stage
  BY DEF Stage
<1> QED
  BY <1>2, <1>3 DEF PlacesStep, Places!vars

(* DeleteRevision frees the place of whoever the worker knows to be there: *)
(* somebody erased, or somebody who was never told.                        *)
LEMMA SlotFreed ==
  ASSUME Inv, NEW w \in Worker, NEW n \in Slot, NEW j, DropSlot(w, n, j),
         job[w].seen[n] \in acked \/ job[w].seen[n] \notin issued,
         UNCHANGED <<event, receipt, used, issued, acked>>
  PROVE  PlacesStep
<1>1. slot[n] # NoSlot /\ slot[n].gen = job[w].seen[n]
  BY DEF Inv, HoldsOK, DropSlot, SlotHas
<1>2. Occupant[n] # NoGen /\ Occupant[n] = slot[n].gen
  BY <1>1, OccupantOf DEF Inv
<1>3. Occupant' = [Occupant EXCEPT ![n] = NoGen]
  BY DEF Inv, TypeOK, DropSlot, Occupant
<1>4. Stage' = Stage
  BY DEF Stage
<1>5. Places!Leave(n)
  BY <1>1, <1>2, <1>3, <1>4 DEF Places!Leave
<1> QED
  BY <1>5 DEF PlacesStep, Places!Next

(* An erasure that the application acknowledges is one of identities that  *)
(* have had a place.                                                       *)
LEMMA Erased ==
  ASSUME Inv, NEW G \in SUBSET Gen, G \subseteq used, acked' = acked \cup G,
         UNCHANGED <<event, slot, receipt, used, issued>>
  PROVE  PlacesStep
<1>1. Occupant' = Occupant /\ Stage' = Stage
  BY DEF Occupant, Stage
<1>2. Places!Erase(G)
  BY <1>1 DEF Places!Erase
<1> QED
  BY <1>2 DEF PlacesStep, Places!Next

(* A conditional write of a record that keeps its generation.              *)
LEMMA SlotUpdated ==
  ASSUME Inv, NEW w \in Worker, NEW n \in Slot, NEW rec, NEW j, UpdateSlot(w, n, rec, j),
         slot[n] \in SlotRecord => rec \in SlotRecord /\ rec.gen = slot[n].gen,
         UNCHANGED <<event, receipt, used, issued, acked>>
  PROVE  PlacesStep
<1>1. slot[n] # NoSlot /\ slot[n] \in SlotRecord
  BY DEF Inv, TypeOK, HoldsOK, UpdateSlot, SlotHas
<1>2. slot' = [slot EXCEPT ![n] = rec]
  BY DEF UpdateSlot
<1> QED
  BY <1>1, <1>2, SlotRewritten DEF Inv

(* What cleanSlot does to the places: the application erases the guest,    *)
(* and then the place becomes free.                                        *)
LEMMA CleanSlotPlaces ==
  ASSUME Inv, NEW w \in Worker, NEW done, NEW failed, CleanSlot(w, done, failed)
  PROVE  PlacesStep
<1>1. job[w].pc \in Cleanup
  BY DEF CleanSlot, CleanClaim, CleanAcked, CleanUnanswered, CleanBackoff, CleanUnindex, CleanDrop,
         CleanFails, At, Cleanup
<1>2. /\ job[w].num \in Slot /\ Own(w) \in used
      /\ job[w].pc = "clean_drop" => Own(w) \in acked
  BY <1>1, SentinelAssumption DEF Inv, JobOK, Identified, Numbered, Own
<1>3. CASE CleanClaim(w, failed) \/ CleanBackoff(w, failed)
  <2> DEFINE n == job[w].num
             rec == [slot[n] EXCEPT !.cleanup = "held"]
  <2>1. slot[n] \in SlotRecord => rec \in SlotRecord /\ rec.gen = slot[n].gen
    BY DEF SlotRecord, Claim
  <2>2. UNCHANGED <<event, receipt, used, issued, acked>>
    BY <1>3 DEF CleanClaim, CleanBackoff
  <2>3. (\E j : UpdateSlot(w, n, rec, j)) \/ UNCHANGED slot
    BY <1>3 DEF CleanClaim, CleanBackoff
  <2> HIDE DEF rec
  <2> QED
    BY <1>2, <2>1, <2>2, <2>3, SlotUpdated, Untouched
<1>4. CASE CleanAcked(w)
  <2>1. {Own(w)} \in SUBSET Gen /\ {Own(w)} \subseteq used
    BY <1>2 DEF Inv, TypeOK
  <2> QED
    BY <1>4, <2>1, Erased DEF CleanAcked, store
<1>5. CASE CleanUnanswered(w) \/ CleanUnindex(w) \/ CleanFails(w, failed)
  BY <1>5, Untouched DEF CleanUnanswered, CleanUnindex, CleanFails, store
<1>6. CASE CleanDrop(w, done, failed)
  <2>1. UNCHANGED <<event, receipt, used, issued, acked>> /\ Own(w) \in acked
    BY <1>2, <1>6 DEF CleanDrop, At
  <2>2. DropSlot(w, job[w].num, done) \/ UNCHANGED slot
    BY <1>6 DEF CleanDrop
  <2> QED
    BY <1>2, <2>1, <2>2, SlotFreed, Untouched DEF Own
<1> QED
  BY <1>3, <1>4, <1>5, <1>6 DEF CleanSlot

(* What an admission does to the places.  A fresh identity takes a free    *)
(* one; it is handed out after the second reading of the event, when it is *)
(* still there or was erased meanwhile, and no deletion has missed it; or  *)
(* it is taken back before anybody was told.                               *)
LEMMA AdmitPlaces ==
  ASSUME Inv, NEW w \in Worker, Admit(w)
  PROVE  PlacesStep
<1>1. CASE StartCreate(w)
  <2>1. PICK g \in Gen \ used : CreateSlot(w, g)
    BY <1>1 DEF StartCreate
  <2>2. PICK n \in Slot : n = job[w].num
    BY <2>1 DEF CreateSlot, Inv, JobOK, Numbered
  <2>3. /\ slot[n] = NoSlot /\ slot' = [slot EXCEPT ![n] = NewSlot(g)]
        /\ used' = used \cup {g} /\ UNCHANGED <<event, receipt, issued, acked>>
    BY <2>1, <2>2 DEF CreateSlot
  <2>4. NewSlot(g).gen = g /\ NewSlot(g) # NoSlot
    <3>1. NewSlot(g) \in SlotRecord
      BY DEF NewSlot, SlotRecord, Claim
    <3> QED
      BY <3>1, SentinelAssumption DEF NewSlot
  <2>5. Occupant[n] = NoGen /\ Occupant' = [Occupant EXCEPT ![n] = g]
    BY <2>3, <2>4 DEF Inv, TypeOK, Occupant
  <2>6. Stage' = Stage
    BY <2>3 DEF Stage
  <2>7. Places!Take(n, g)
    BY <2>3, <2>5, <2>6 DEF Places!Take
  <2> QED
    BY <2>7 DEF PlacesStep, Places!Next
<1>2. CASE StartIndex(w)
  <2>1. At(w, "start_index") /\ issued' = issued \cup {Own(w)}
        /\ UNCHANGED <<event, slot, receipt, used, acked>>
    BY <1>2 DEF StartIndex
  <2>2. PICK g \in Gen : g = Own(w)
    BY <2>1 DEF Inv, JobOK, Identified, Provisional, At, Own
  <2>3. g \in used /\ g \notin issued /\ g \in Committed
    BY <2>1, <2>2, SentinelAssumption
    DEF Inv, JobOK, Identified, Numbered, Provisional, At, Own, Committed
  <2>4. Occupant' = Occupant /\ Stage' = Stage
    BY <2>1 DEF Occupant, Stage
  <2>5. g \in acked \/ \E n \in Slot : Occupant[n] = g
    BY <2>3, OccupantOf DEF Inv, Accounted, SlotHas
  <2>6. event = NoEvent \/ receipt # NoReceipt => g \in acked
    BY <2>3 DEF Inv
  <2>7. event = NoEvent => \A n \in Slot : Occupant[n] # g
    BY <2>3, OccupantOf, SentinelAssumption DEF Inv
  <2>8. Places!Admit(g)
    BY <2>1, <2>2, <2>3, <2>4, <2>5, <2>6, <2>7 DEF Places!Admit, Stage
  <2> QED
    BY <2>8 DEF PlacesStep, Places!Next
<1>3. CASE StartUndo(w)
  <2>1. UNCHANGED <<event, receipt, used, issued, acked>> /\ job[w].pc \in Provisional
    BY <1>3 DEF StartUndo, Provisional
  <2>2. job[w].num \in Slot /\ job[w].seen[job[w].num] \notin issued
    BY <2>1 DEF Inv, JobOK, Identified, Numbered
  <2>3. (\E j : DropSlot(w, job[w].num, j)) \/ UNCHANGED slot
    BY <1>3 DEF StartUndo
  <2> QED
    BY <2>1, <2>2, <2>3, SlotFreed, Untouched
<1>4. CASE StartCleanup(w)
  BY <1>4, CleanSlotPlaces DEF StartCleanup
<1>5. CASE \/ StartNoSecret(w) \/ StartOccupied(w) \/ StartSkip(w) \/ StartTakeOver(w) \/ StartRecheck(w)
           \/ StartIndexFails(w) \/ StartMintFails(w) \/ StartCallFails(w)
  BY <1>5, Untouched
  DEF StartNoSecret, StartOccupied, StartSkip, StartTakeOver, StartRecheck, StartIndexFails,
      StartMintFails, StartCallFails, store
<1> QED
  BY <1>1, <1>2, <1>3, <1>4, <1>5 DEF Admit

(* What the lease, pausing, resizing and releasing do to the places: only  *)
(* a release can free one, by its cleanup.                                 *)
LEMMA RenewPlaces ==
  ASSUME Inv, NEW w \in Worker, Renew(w)
  PROVE  PlacesStep
<1>1. CASE RenewCommit(w)
  <2> DEFINE n == job[w].num
             rec == [slot[n] EXCEPT !.reserved = FALSE, !.expired = FALSE]
  <2>1. slot[n] \in SlotRecord => rec \in SlotRecord /\ rec.gen = slot[n].gen
    BY DEF SlotRecord
  <2>2. UpdateSlot(w, n, rec, Idle) /\ UNCHANGED <<event, receipt, used, issued, acked>>
    BY <1>1 DEF RenewCommit
  <2>3. n \in Slot
    BY <1>1 DEF RenewCommit, At, Inv, JobOK, Renewal, Identified, Numbered
  <2> HIDE DEF rec
  <2> QED
    BY <2>1, <2>2, <2>3, SlotUpdated
<1>2. CASE RenewEvent(w) \/ RenewSlot(w) \/ RenewConflict(w)
  BY <1>2, Untouched DEF RenewEvent, RenewSlot, RenewConflict, store
<1> QED
  BY <1>1, <1>2 DEF Renew

(* A write of the event that neither begins its deletion nor ends it.      *)
LEMMA EventRewritten ==
  ASSUME TypeOK, event # NoEvent, NEW rec \in Event, event' = rec,
         rec.state = "deleting" <=> event.state = "deleting",
         UNCHANGED <<slot, receipt, used, issued, acked>>
  PROVE  PlacesStep
<1>1. event' # NoEvent
  BY SentinelAssumption
<1>2. Occupant' = Occupant
  BY DEF Occupant
<1>3. Stage' = Stage
  BY <1>1 DEF Stage
<1> QED
  BY <1>2, <1>3 DEF PlacesStep, Places!vars

LEMMA AdministerPlaces ==
  ASSUME Inv, NEW w \in Worker, Administer(w)
  PROVE  PlacesStep
<1>1. /\ TypeOK /\ job[w] \in Job
      /\ w \in holdsEvent => event \in Event /\ event # NoEvent
  BY DEF Inv, TypeOK, HoldsOK
<1>2. CASE SetPut(w) /\ event' # event
  <2> DEFINE rec == [event EXCEPT !.state = job[w].target]
  <2>1. /\ w \in holdsEvent /\ event' = rec /\ job[w].pc = "set_put"
        /\ UNCHANGED <<slot, receipt, used, issued, acked>>
    BY <1>2 DEF SetPut, At, UpdateEvent, RetryEvent
  <2>2. event.state # "deleting" /\ job[w].target \in {"open", "paused"}
    BY <2>1 DEF Inv, HoldsOK, JobOK, Live
  <2>3. rec \in Event /\ rec.state = job[w].target
    BY <1>1, <2>1, <2>2 DEF Event, EventState
  <2> HIDE DEF rec
  <2> QED
    BY <1>1, <2>1, <2>2, <2>3, EventRewritten
<1>3. CASE CapacityPut(w) /\ event' # event
  <2> DEFINE rec == [event EXCEPT !.capacity = job[w].cap]
  <2>1. w \in holdsEvent /\ event' = rec /\ UNCHANGED <<slot, receipt, used, issued, acked>>
    BY <1>3 DEF CapacityPut, UpdateEvent, RetryEvent
  <2>2. rec \in Event /\ rec.state = event.state
    BY <1>1, <2>1 DEF Event, Job
  <2> HIDE DEF rec
  <2> QED
    BY <1>1, <2>1, <2>2, EventRewritten
<1>4. CASE ReservePut(w)
  <2>1. PICK n \in Slot :
          \/ \E j : UpdateSlot(w, n, [slot[n] EXCEPT !.reserved = TRUE], j)
          \/ UNCHANGED slot
    BY <1>4 DEF ReservePut, Read
  <2> DEFINE rec == [slot[n] EXCEPT !.reserved = TRUE]
  <2>2. slot[n] \in SlotRecord => rec \in SlotRecord /\ rec.gen = slot[n].gen
    BY DEF SlotRecord
  <2>3. UNCHANGED <<event, receipt, used, issued, acked>>
    BY <1>4 DEF ReservePut
  <2>4. (\E j : UpdateSlot(w, n, rec, j)) \/ UNCHANGED slot
    BY <2>1
  <2> HIDE DEF rec
  <2> QED
    BY <2>2, <2>3, <2>4, SlotUpdated, Untouched
<1>5. CASE ReleaseCleanup(w)
  BY <1>5, CleanSlotPlaces DEF ReleaseCleanup
<1>6. CASE \/ SetPut(w) /\ event' = event
           \/ CapacityPut(w) /\ event' = event
           \/ SetReload(w) \/ ReserveList(w) \/ ReserveDone(w) \/ CapacityReload(w) \/ ReleaseRead(w)
  BY <1>6, Untouched
  DEF SetPut, CapacityPut, SetReload, ReserveList, ReserveDone, CapacityReload, ReleaseRead, store
<1> QED
  BY <1>2, <1>3, <1>4, <1>5, <1>6 DEF Administer

(* What a deletion does to the places, from the intent to the last delete. *)
LEMMA DeleteBeginPlaces ==
  ASSUME Inv, NEW w \in Worker, DeleteBegin(w)
  PROVE  PlacesStep
<1> DEFINE rec == [event EXCEPT !.state = "deleting", !.cleanup = "due"]
<1>1. UNCHANGED <<slot, receipt, used, issued, acked>>
      /\ (event' = event \/ (w \in holdsEvent /\ event' = rec))
  BY DEF DeleteBegin, EventWrite, UpdateEvent
<1>2. CASE event' = event
  BY <1>1, <1>2, Untouched
<1>3. CASE w \in holdsEvent /\ event' = rec
  <2>1. event # NoEvent /\ event \in Event
    BY <1>3 DEF Inv, TypeOK, HoldsOK
  <2>2. rec \in Event /\ rec.state = "deleting" /\ rec # NoEvent
    BY <2>1, SentinelAssumption DEF Event, EventState, Claim
  <2>3. CASE event.state = "deleting"
    BY <1>1, <1>3, <2>1, <2>2, <2>3, EventRewritten DEF Inv
  <2>4. CASE event.state # "deleting"
    <3>1. receipt = NoReceipt
      BY <2>1, <2>4 DEF Inv, Live
    <3>2. Occupant' = Occupant
      BY <1>1 DEF Occupant
    <3>3. Stage = "serving" /\ Stage' = "ending"
      BY <1>1, <1>3, <2>1, <2>2, <2>4, <3>1 DEF Stage
    <3>4. Places!DeleteBegin
      BY <1>1, <3>2, <3>3 DEF Places!DeleteBegin, Places!Onwards
    <3> QED
      BY <3>4 DEF PlacesStep, Places!Next
  <2> QED
    BY <2>3, <2>4
<1> QED
  BY <1>1, <1>2, <1>3

LEMMA CleanEventPlaces ==
  ASSUME Inv, Inv', NEW w \in Worker, CleanEvent(w)
  PROVE  PlacesStep
<1>1. CASE DeleteClaim(w) \/ DeleteBackoff(w)
  <2> DEFINE rec == [event EXCEPT !.cleanup = "held"]
  <2>1. UNCHANGED <<slot, receipt, used, issued, acked>>
        /\ (event' = event \/ (w \in holdsEvent /\ event' = rec))
    BY <1>1 DEF DeleteClaim, DeleteBackoff, EventWrite, UpdateEvent
  <2>2. CASE w \in holdsEvent /\ event' = rec
    <3>1. event # NoEvent /\ event \in Event
      BY <2>2 DEF Inv, TypeOK, HoldsOK
    <3>2. rec \in Event /\ rec.state = event.state
      BY <3>1 DEF Event, Claim
    <3> HIDE DEF rec
    <3> QED
      BY <2>1, <2>2, <3>1, <3>2, EventRewritten DEF Inv
  <2> QED
    BY <2>1, <2>2, Untouched
<1>2. CASE DeleteAcked(w)
  <2> DEFINE G == {job[w].seen[n] : n \in Read(job[w])}
  <2>1. G \in SUBSET Gen /\ G \subseteq used
    BY DEF Inv, TypeOK, JobOK, Read
  <2>2. acked' = acked \cup G /\ UNCHANGED <<event, slot, receipt, used, issued>>
    BY <1>2 DEF DeleteAcked, store
  <2> HIDE DEF G
  <2> QED
    BY <2>1, <2>2, Erased
<1>3. CASE DeleteRecord(w)
  <2>1. /\ UNCHANGED <<event, slot, used, issued, acked>> /\ At(w, "delete_record")
        /\ receipt # NoReceipt => receipt' = receipt
        /\ receipt = NoReceipt => receipt' = Cardinality(Read(job[w]))
    BY <1>3 DEF DeleteRecord
  <2>2. CASE receipt # NoReceipt
    BY <2>1, <2>2, Untouched
  <2>3. CASE receipt = NoReceipt /\ receipt' # NoReceipt
    <3>1. event # NoEvent /\ event.state = "deleting"
      BY <2>1, <2>3 DEF Inv, JobOK, Closed, Erasing, Live, At
    <3>2. issued \subseteq acked
      BY <2>1 DEF Inv, JobOK, At, Committed
    <3>3. Occupant' = Occupant
      BY <2>1 DEF Occupant
    <3>4. Stage = "ending" /\ Stage' = "recorded"
      BY <2>1, <2>3, <3>1 DEF Stage
    <3>5. Places!DeleteRecord
      BY <2>1, <3>2, <3>3, <3>4 DEF Places!DeleteRecord, Places!Onwards
    <3> QED
      BY <3>5 DEF PlacesStep, Places!Next
  <2>4. CASE receipt = NoReceipt /\ receipt' = NoReceipt
    BY <2>1, <2>4, Untouched
  <2> QED
    BY <2>2, <2>3, <2>4
<1>4. CASE FinalDrop(w)
  <2>1. UNCHANGED <<event, receipt, used, issued, acked>> /\ At(w, "final_drop")
    BY <1>4 DEF FinalDrop
  <2>2. job[w].num \in Slot /\ receipt # NoReceipt
    BY <2>1 DEF Inv, JobOK, At, Identified, Numbered, Finalizing
  <2>3. issued \subseteq acked
    BY <2>2 DEF Inv, Committed
  <2>4. (\E j : DropSlot(w, job[w].num, j)) \/ UNCHANGED slot
    BY <1>4 DEF FinalDrop
  <2> QED
    BY <2>1, <2>2, <2>3, <2>4, SlotFreed, Untouched
<1>5. CASE FinalEvent(w)
  <2>1. /\ UNCHANGED <<slot, receipt, used, issued, acked>> /\ At(w, "final_event")
        /\ event' = event \/ (w \in holdsEvent /\ event' = NoEvent)
    BY <1>5 DEF FinalEvent
  <2>2. CASE w \in holdsEvent /\ event' = NoEvent
    <3>1. event # NoEvent /\ receipt # NoReceipt
      BY <2>1, <2>2 DEF Inv, HoldsOK, JobOK, At, Finalizing
    <3>2. \A n \in Slot : slot[n] # NoSlot => slot[n].gen \notin issued
      BY <2>1, <2>2 DEF Inv, Committed
    <3>3. \A n \in Slot : Occupant[n] \notin issued
      BY <3>2, OccupantOf, SentinelAssumption DEF Inv, TypeOK
    <3>4. Occupant' = Occupant
      BY <2>1 DEF Occupant
    <3>5. Stage = "recorded" /\ Stage' = "over"
      BY <2>1, <2>2, <3>1 DEF Stage
    <3>6. Places!FinalEvent
      BY <2>1, <3>3, <3>4, <3>5 DEF Places!FinalEvent, Places!Onwards
    <3> QED
      BY <3>6 DEF PlacesStep, Places!Next
  <2> QED
    BY <2>1, <2>2, Untouched
<1>6. CASE \/ DeleteReceipt(w) \/ DeleteList(w) \/ DeleteUnanswered(w) \/ FinalList(w) \/ FinalMark(w)
           \/ FinalInvitation(w)
  BY <1>6, Untouched
  DEF DeleteReceipt, DeleteList, DeleteUnanswered, FinalList, FinalMark, FinalInvitation, store
<1> QED
  BY <1>1, <1>2, <1>3, <1>4, <1>5, <1>6 DEF CleanEvent

LEMMA ClockPlaces ==
  ASSUME Inv, Clock
  PROVE  PlacesStep
<1>1. CASE EventClaimDue
  <2> DEFINE rec == [event EXCEPT !.cleanup = "due"]
  <2>1. /\ event # NoEvent /\ event' = rec /\ event \in Event
        /\ UNCHANGED <<slot, receipt, used, issued, acked>>
    BY <1>1 DEF EventClaimDue, Inv, TypeOK
  <2>2. rec \in Event /\ rec.state = event.state
    BY <2>1 DEF Event, Claim
  <2> HIDE DEF rec
  <2> QED
    BY <2>1, <2>2, EventRewritten DEF Inv
<1>2. ASSUME NEW n \in Slot, Expire(n)
      PROVE  PlacesStep
  <2> DEFINE rec == [slot[n] EXCEPT !.expired = TRUE]
  <2>1. /\ slot[n] # NoSlot /\ slot[n] \in SlotRecord /\ slot' = [slot EXCEPT ![n] = rec]
        /\ UNCHANGED <<event, receipt, used, issued, acked>>
    BY <1>2 DEF Expire, Unclaimed, Inv, TypeOK
  <2>2. rec \in SlotRecord /\ rec.gen = slot[n].gen
    BY <2>1 DEF SlotRecord
  <2> HIDE DEF rec
  <2> QED
    BY <2>1, <2>2, SlotRewritten DEF Inv
<1>3. ASSUME NEW n \in Slot, SlotClaimDue(n)
      PROVE  PlacesStep
  <2> DEFINE rec == [slot[n] EXCEPT !.cleanup = "due"]
  <2>1. /\ slot[n] # NoSlot /\ slot[n] \in SlotRecord /\ slot' = [slot EXCEPT ![n] = rec]
        /\ UNCHANGED <<event, receipt, used, issued, acked>>
    BY <1>3 DEF SlotClaimDue, Inv, TypeOK
  <2>2. rec \in SlotRecord /\ rec.gen = slot[n].gen
    BY <2>1 DEF SlotRecord, Claim
  <2> HIDE DEF rec
  <2> QED
    BY <2>1, <2>2, SlotRewritten DEF Inv
<1> QED
  BY <1>1, <1>2, <1>3 DEF Clock

(* The service keeps the promise about its places: it starts as            *)
(* GuestPlaces does, and each of its steps, whatever the others do in      *)
(* between, is a step of GuestPlaces or does not concern the places        *)
(* (access/service.go:265-333, access/recovery.go:34-193).                 *)
THEOREM PlacesKept == Spec => KeepsPlaces
<1>1. Init => Places!Init
  <2> SUFFICES ASSUME Init PROVE Places!Init
    OBVIOUS
  <2>1. Occupant = [n \in Slot |-> NoGen] /\ used = {} /\ issued = {} /\ acked = {}
    BY DEF Init, Occupant
  <2>2. event \in Event /\ event.state = "draft" /\ receipt = NoReceipt
    BY DEF Init, Event, EventState, Claim
  <2>3. Stage = "serving"
    BY <2>2, SentinelAssumption DEF Stage
  <2> QED
    BY <2>1, <2>3 DEF Places!Init
<1>2. ASSUME Inv, Inv', [Next]_vars
      PROVE  [Places!Next]_Places!vars
  <2>1. ASSUME NEW w \in GuestHandlers, GuestCall(w) \/ GuestStep(w)
        PROVE  PlacesStep
    <3>1. CASE GuestCall(w)
      BY <3>1, Untouched DEF GuestCall, StartSession, RenewSession, store
    <3>2. CASE GuestStep(w)
      BY <1>2, <3>2, AdmitPlaces, RenewPlaces DEF GuestStep, Worker
    <3> QED
      BY <2>1, <3>1, <3>2
  <2>2. ASSUME NEW w \in PresenterHandlers, PresenterCall(w) \/ PresenterStep(w)
        PROVE  PlacesStep
    <3>1. CASE PresenterCall(w)
      BY <3>1, Untouched DEF PresenterCall, SetState, UpdateCapacity, ReleaseSlot, DeleteEvent, store
    <3> QED
      BY <1>2, <2>2, <3>1, AdministerPlaces, DeleteBeginPlaces, CleanEventPlaces
      DEF PresenterStep, Worker
  <2>3. ASSUME NEW w \in RecoveryWorkers, ScanEvent(w) \/ Reconcile(w)
        PROVE  PlacesStep
    <3>1. CASE ScanEvent(w) \/ ScanList(w) \/ ScanPick(w)
      BY <3>1, Untouched DEF ScanEvent, ScanList, ScanPick, store
    <3> QED
      BY <1>2, <2>3, <3>1, CleanSlotPlaces, CleanEventPlaces DEF Reconcile, ScanCleanup, Worker
  <2>4. ASSUME UNCHANGED vars \/ \E w \in Worker : Crash(w)
        PROVE  PlacesStep
    BY <2>4, Untouched DEF vars, store, Crash
  <2> QED
    BY <1>2, <2>1, <2>2, <2>3, <2>4, ClockPlaces DEF Next, PlacesStep
<1> QED
  BY <1>1, <1>2, Invariance, PTL DEF Spec, KeepsPlaces, Places!Spec
=============================================================================
