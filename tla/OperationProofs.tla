--------------------------- MODULE OperationProofs ---------------------------
(***************************************************************************)
(* The two operations with most steps preserve the invariant: StartSession *)
(* and, in the second half, DeleteEvent with cleanEvent and finalizeEvent. *)
(***************************************************************************)
EXTENDS GuestFrames, FiniteSetTheorems

(* Create of a free slot number (access/service.go:300, 311): the identity *)
(* is new, so nothing was promised of it yet.                              *)
LEMMA CreateSlotInv ==
  ASSUME Inv, NEW w \in Worker, NEW g \in Gen \ used, CreateSlot(w, g)
  PROVE  Inv'
<1> DEFINE n == job[w].num
<1>1. TypeOK /\ JobOK(job[w]) /\ HoldsOK(w) /\ job[w] \in Job
  BY DEF Inv, TypeOK
<1>2. n \in Slot /\ job[w].pc \notin {"start_index", "start_recheck"}
  BY <1>1 DEF CreateSlot, JobOK, Numbered
<1>3. PICK j \in Job : j = [job[w] EXCEPT !.pc = "start_recheck", !.seen[n] = g]
  BY <1>1, <1>2 DEF Job, PC
<1>4. /\ j.pc = "start_recheck" /\ j.num = n /\ j.seen[n] = g /\ j.todo = job[w].todo
      /\ \A m \in Slot : m # n => j.seen[m] = job[w].seen[m]
  BY <1>1, <1>2, <1>3 DEF Job
<1>5. PICK rec \in SlotRecord : rec = NewSlot(g) /\ rec.gen = g
  <2>1. NewSlot(g) \in SlotRecord /\ NewSlot(g).gen = g
    BY DEF NewSlot, SlotRecord, Claim
  <2> QED
    BY <2>1
<1>6. /\ job' = [job EXCEPT ![w] = j]
      /\ holdsEvent' \subseteq holdsEvent
      /\ holdsSlot' \in [Slot -> SUBSET Worker]
      /\ \A m \in Slot : m # n => holdsSlot'[m] \subseteq holdsSlot[m]
      /\ holdsSlot'[n] \subseteq {w}
      /\ \A m \in Slot : w \in holdsSlot'[m] => j.seen[m] # NoGen
  <2>1. Goto(w, j, holdsEvent, SlotWritten(w, n))
    BY <1>3 DEF CreateSlot
  <2>2. SlotWritten(w, n) = [m \in Slot |-> IF m = n THEN {w} ELSE holdsSlot[m]]
    BY <1>1, <1>2 DEF SlotWritten, TypeOK
  <2> QED
    BY <1>1, <1>2, <2>1, <2>2 DEF Goto, TypeOK
<1>7. /\ job' \in [Worker -> Job] /\ job'[w] = j
      /\ \A u \in Worker : u # w => job'[u] = job[u]
  BY <1>1, <1>6 DEF TypeOK
<1>8. /\ slot[n] = NoSlot /\ slot'[n] = rec /\ rec # NoSlot
      /\ \A m \in Slot : m # n => slot'[m] = slot[m]
      /\ slot' \in [Slot -> SlotRecord \cup {NoSlot}]
  BY <1>1, <1>2, <1>5, SentinelAssumption DEF CreateSlot, TypeOK
<1>9. used' = used \cup {g} /\ UNCHANGED <<event, session, receipt, invitation, issued, acked, faults>>
  BY DEF CreateSlot
<1>10. TypeOK'
  BY <1>1, <1>6, <1>7, <1>8, <1>9 DEF TypeOK
<1>11. Committed \subseteq used /\ Committed' \subseteq Committed
  <2>1. Committed \subseteq used
    <3>1. ASSUME NEW u \in Worker, job[u].pc = "start_index"
          PROVE  Own(u) \in used
      <4>1. JobOK(job[u])
        BY DEF Inv
      <4> QED
        BY <3>1, <4>1, SentinelAssumption DEF JobOK, Own, Numbered, Identified, Provisional
    <3> QED
      BY <3>1 DEF Committed, At, Inv
  <2>2. Committed' \subseteq Committed
    BY <1>4, <1>7, <1>9 DEF Committed, At, Own
  <2> QED
    BY <2>1, <2>2
<1>12. Live' <=> Live
  BY <1>9 DEF Live
<1>13. \A m \in Slot : \A k \in Gen : SlotHas(m, k)' <=> SlotHas(m, k) \/ (m = n /\ k = g)
  BY <1>5, <1>8 DEF SlotHas
<1>14. Evolves
  BY <1>1, <1>9, <1>11, <1>12, <1>13 DEF Evolves, TypeOK
<1>15. JobOK(j)'
  <2>1. Accounted(g)'
    BY <1>2, <1>13 DEF Accounted
  <2>2. \A m \in Slot : j.seen[m] \in used' \cup {NoGen}
    BY <1>1, <1>4, <1>9 DEF JobOK
  <2>3. g \notin issued'
    BY <1>9 DEF Inv
  <2>4. job[w].todo = {}
    BY <1>1 DEF CreateSlot, JobOK, Listing, Job
  <2> QED
    BY <1>1, <1>2, <1>4, <2>1, <2>2, <2>3, <2>4 DEF JobOK, Job, Closed, Erasing, Finalizing
<1>16. \A u \in Worker : HoldsOK(u)'
  <2> TAKE u \in Worker
  <2>1. ASSUME NEW m \in Slot, u \in holdsSlot'[m]
        PROVE  slot'[m] # NoSlot /\ slot'[m].gen = job'[u].seen[m]
    <3>1. CASE m = n
      BY <1>4, <1>5, <1>6, <1>7, <1>8, <2>1, <3>1
    <3>2. CASE m # n
      <4>1. slot[m] # NoSlot /\ slot[m].gen = job[u].seen[m]
        BY <1>6, <2>1, <3>2 DEF Inv, HoldsOK, SlotHas
      <4> QED
        BY <1>4, <1>7, <1>8, <2>1, <3>2, <4>1
    <3> QED
      BY <3>1, <3>2
  <2>2. u \in holdsEvent' => event' # NoEvent
    BY <1>6, <1>9 DEF Inv, HoldsOK
  <2>3. u \in holdsEvent' /\ job'[u].pc \in {"set_put", "capacity_put"} => Live'
    BY <1>4, <1>6, <1>7, <1>12 DEF Inv, HoldsOK
  <2> QED
    BY <2>1, <2>2, <2>3 DEF HoldsOK, SlotHas
<1>17. SlotsOK'
  <2>1. \A m \in Slot : slot'[m] # NoSlot => slot'[m].gen \in used'
    BY <1>5, <1>8, <1>9 DEF Inv, SlotsOK
  <2>2. ASSUME NEW l \in Slot, NEW m \in Slot, slot'[l] # NoSlot, slot'[m] # NoSlot,
               slot'[m].gen = slot'[l].gen
        PROVE  l = m
    BY <1>5, <1>8, <2>2 DEF Inv, SlotsOK, SlotHas
  <2> QED
    BY <2>1, <2>2 DEF SlotsOK, SlotHas
<1>18. ASSUME NEW u \in Worker, u # w, job[u].pc \in Provisional
       PROVE  Own(u) \notin issued' /\ Own(u) # j.seen[j.num]
  <2>1. JobOK(job[u])
    BY DEF Inv
  <2>2. Own(u) \notin issued /\ Own(u) \in used
    BY <1>18, <2>1, SentinelAssumption DEF JobOK, Own, Identified, Numbered
  <2> QED
    BY <1>4, <1>9, <2>2
<1>19. receipt' # NoReceipt => ~ Live' /\ receipt # NoReceipt
  BY <1>9, <1>12 DEF Inv
<1>20. issued' \subseteq used'
  BY <1>9 DEF Inv
<1>21. event' = NoEvent => event = NoEvent
  BY <1>9
<1> QED
  BY <1>7, <1>10, <1>11, <1>14, <1>15, <1>16, <1>17, <1>18, <1>19, <1>20, <1>21, Assemble

(* The second reading of the event (access/service.go:318-325): an         *)
(* identity that passes it is promised from then on, and it holds its slot *)
(* or is erased already.                                                   *)
LEMMA StartRecheckInv ==
  ASSUME Inv, NEW w \in Worker, StartRecheck(w)
  PROVE  Inv'
<1> DEFINE n == job[w].num
<1>1. TypeOK /\ JobOK(job[w]) /\ HoldsOK(w) /\ job[w] \in Job /\ job[w].pc = "start_recheck"
  BY DEF Inv, TypeOK, StartRecheck, At
<1>2. PICK j \in Job : j = [job[w] EXCEPT !.pc = IF StillAdmits(n) THEN "start_index" ELSE "start_undo"]
  BY <1>1 DEF Job, PC
<1>3. /\ j.num = n /\ j.seen = job[w].seen /\ j.todo = job[w].todo
      /\ j.pc = IF StillAdmits(n) THEN "start_index" ELSE "start_undo"
  BY <1>1, <1>2 DEF Job
<1>4. /\ n \in Slot /\ j.seen[n] \in Gen /\ j.seen[n] \notin issued /\ j.todo = {}
      /\ ~ Live \/ Accounted(j.seen[n])
  BY <1>1, <1>3 DEF JobOK, Numbered, Identified, Provisional, Listing, Job
<1>5. JobOK(j)
  BY <1>1, <1>3, <1>4 DEF JobOK, Closed, Erasing, Finalizing, Listing
<1>6. Proceed(w, j) /\ UNCHANGED <<event, slot, session, receipt, invitation, used, issued, acked, faults>>
  BY <1>2 DEF StartRecheck, store
<1>7. CASE ~ StillAdmits(n)
  BY <1>1, <1>3, <1>5, <1>6, <1>7, Onward DEF Proceed, Goto, TypeOK, Own, Provisional
<1>8. CASE StillAdmits(n)
  <2>1. Live /\ Live' /\ Accounted(j.seen[n])
    BY <1>4, <1>6, <1>8 DEF StillAdmits, EventIs, Live
  <2>2. /\ job' \in [Worker -> Job] /\ job'[w] = j
        /\ \A u \in Worker : u # w => job'[u] = job[u]
        /\ holdsEvent' \subseteq holdsEvent
        /\ holdsSlot' \in [Slot -> SUBSET Worker]
        /\ \A m \in Slot : holdsSlot'[m] \subseteq holdsSlot[m]
    BY <1>1, <1>6 DEF Proceed, Goto, TypeOK
  <2>3. TypeOK'
    BY <1>1, <1>6, <2>2 DEF TypeOK
  <2>4. Committed' \subseteq Committed \cup {j.seen[n]}
    BY <1>3, <1>6, <2>2 DEF Committed, At, Own
  <2>5. Evolves
    BY <1>6, <2>1 DEF Evolves, SlotHas
  <2>6. JobOK(j)'
    <3>1. j.pc = "start_index"
      BY <1>3, <1>8
    <3> QED
      BY <1>5, <1>6, <3>1 DEF JobOK, Closed, Erasing, Finalizing
  <2>7. \A u \in Worker : HoldsOK(u)'
    BY <1>3, <1>6, <1>8, <2>1, <2>2 DEF Inv, HoldsOK, SlotHas
  <2>8. SlotsOK' /\ issued' \subseteq used' /\ receipt' = NoReceipt
    BY <1>6, <2>1 DEF Inv, SlotsOK, SlotHas
  <2>9. ASSUME NEW u \in Worker, u # w, job[u].pc \in Provisional
        PROVE  Own(u) \notin issued' /\ Own(u) # j.seen[j.num]
    <3>1. Own(u) # Own(w)
      BY <1>1, <2>9 DEF Inv, AdmissionsDistinct, Provisional
    <3>2. Own(w) = j.seen[j.num]
      BY <1>3 DEF Own
    <3> QED
      BY <1>6, <2>9, <3>1, <3>2 DEF Inv, JobOK, Own
  <2>10. Accounted(j.seen[j.num])'
    BY <1>3, <1>6, <2>1 DEF Accounted, SlotHas
  <2>11. event' = NoEvent => event = NoEvent
    BY <1>6
  <2>12. \A g \in Committed' : g \in Committed \/ (Live' /\ Accounted(g)')
    BY <1>3, <2>1, <2>4, <2>10
  <2> QED
    BY <2>1, <2>2, <2>3, <2>5, <2>6, <2>7, <2>8, <2>9, <2>11, <2>12, Assemble
<1> QED
  BY <1>7, <1>8

(* The index is created and the token minted (access/service.go:326-330):  *)
(* the promise was made at the second reading.                             *)
LEMMA StartIndexInv ==
  ASSUME Inv, NEW w \in Worker, StartIndex(w)
  PROVE  Inv'
<1> DEFINE g == Own(w)
<1>1. TypeOK /\ JobOK(job[w]) /\ job[w] \in Job /\ job[w].pc = "start_index"
  BY DEF Inv, TypeOK, StartIndex, At
<1>2. g \in Gen /\ g \in used /\ g \in Committed /\ job[w].num \in Slot
  BY <1>1, SentinelAssumption DEF JobOK, Numbered, Identified, Provisional, Own, Committed, At
<1>3. PICK j \in Job : j = Idle /\ JobOK(j) /\ j.pc = "idle"
  BY IdleOK
<1>4. /\ Proceed(w, j) /\ issued' = issued \cup {g} /\ session' = Indexed(w)
      /\ UNCHANGED <<event, slot, receipt, invitation, used, acked, faults>>
  BY <1>3 DEF StartIndex
<1>5. /\ job' \in [Worker -> Job] /\ job'[w] = j
      /\ \A u \in Worker : u # w => job'[u] = job[u]
      /\ holdsEvent' \subseteq holdsEvent
      /\ holdsSlot' \in [Slot -> SUBSET Worker]
      /\ \A m \in Slot : holdsSlot'[m] \subseteq holdsSlot[m]
      /\ \A m \in Slot : w \notin holdsSlot'[m]
  BY <1>1, <1>3, <1>4 DEF Proceed, Goto, TypeOK, Idle, NothingSeen
<1>6. session' \in [Gen -> Index \cup {NoIndex}]
  BY <1>1, <1>2, <1>4 DEF Indexed, Index, TypeOK
<1>7. TypeOK'
  BY <1>1, <1>2, <1>4, <1>5, <1>6 DEF TypeOK
<1>8. Committed' \subseteq Committed
  BY <1>2, <1>3, <1>4, <1>5 DEF Committed, At, Own
<1>9. Live' <=> Live
  BY <1>4 DEF Live
<1>10. Evolves
  BY <1>4, <1>8, <1>9 DEF Evolves, SlotHas
<1>11. JobOK(j)'
  <2>1. \A m \in Slot : j.seen[m] = NoGen
    BY <1>3 DEF Idle, NothingSeen
  <2> QED
    BY <1>3, <2>1 DEF JobOK, Idle, Numbered, Identified, Cleanup, Provisional, Renewal, Closed, Erasing, Finalizing
<1>12. \A u \in Worker : HoldsOK(u)'
  BY <1>3, <1>4, <1>5, <1>9 DEF Inv, HoldsOK, SlotHas
<1>13. SlotsOK' /\ issued' \subseteq used'
  BY <1>2, <1>4 DEF Inv, SlotsOK, SlotHas
<1>14. ASSUME NEW u \in Worker, u # w, job[u].pc \in Provisional
       PROVE  Own(u) \notin issued'
  <2>1. Own(u) # g
    BY <1>1, <1>14 DEF Inv, AdmissionsDistinct, Provisional
  <2> QED
    BY <1>4, <1>14, <2>1 DEF Inv, JobOK, Own
<1>15. receipt' # NoReceipt => ~ Live' /\ receipt # NoReceipt
  BY <1>4, <1>9 DEF Inv
<1>16. (event' = NoEvent => event = NoEvent) /\ j.pc \notin Provisional
  BY <1>3, <1>4 DEF Provisional
<1> QED
  BY <1>5, <1>7, <1>8, <1>10, <1>11, <1>12, <1>13, <1>14, <1>15, <1>16, Assemble

(* A join begins with nothing but the capacity it read                     *)
(* (access/service.go:265-287).                                            *)
LEMMA StartSessionInv ==
  ASSUME Inv, NEW w \in Worker, StartSession(w)
  PROVE  Inv'
<1>1. TypeOK
  BY DEF Inv
<1>2. event.capacity \in Slot /\ 1 \in Slot /\ 1 \in 0 .. MaxCapacity
  BY <1>1, BoundsAssumption DEF StartSession, EventIs, TypeOK, Event, Slot
<1>3. PICK j \in Job : j = [Idle EXCEPT !.pc = "start_create", !.num = 1, !.cap = event.capacity]
  <2>1. event.capacity \in 0 .. MaxCapacity
    BY <1>2 DEF Slot
  <2> QED
    BY <1>2, <2>1, IdleOK DEF Job, PC
<1>4. j.pc = "start_create" /\ j.num = 1 /\ j.seen = NothingSeen /\ j.todo = {}
  BY <1>3 DEF Idle
<1>5. Simple(w, j)
  BY <1>2, <1>4 DEF Simple, Parked, NothingSeen, Identified, Cleanup, Provisional, Renewal
<1>6. JobOK(j)
  BY <1>5, SimpleOK
<1> QED
  BY <1>1, <1>3, <1>4, <1>5, <1>6, Onward DEF StartSession, store, Proceed, Goto, TypeOK, Provisional, Simple

(* Every step of StartSession preserves the invariant (access/service.go:  *)
(* 287-332).                                                               *)
LEMMA AdmitInv ==
  ASSUME Inv, NEW w \in Worker, Admit(w)
  PROVE  Inv'
<1> DEFINE n == job[w].num
<1>1. TypeOK /\ JobOK(job[w]) /\ HoldsOK(w) /\ job[w] \in Job
  BY DEF Inv, TypeOK
<1>2. /\ Idle \in Job /\ Simple(w, Idle) /\ JobOK(Idle)
      /\ \A m \in Slot : Idle.seen[m] = NoGen
      /\ Idle.pc = "idle"
  BY IdleOK DEF Simple, Parked, Idle, NothingSeen, Numbered, Identified, Cleanup, Provisional, Renewal
<1>3. ASSUME job[w].pc \in Numbered
      PROVE  /\ NextNumber(job[w]) \in Job /\ JobOK(NextNumber(job[w])) /\ Simple(w, NextNumber(job[w]))
             /\ NextNumber(job[w]).pc \notin Provisional \cup {"start_index", "set_put", "capacity_put"}
             /\ \A m \in Slot : NextNumber(job[w]).seen[m] \in {job[w].seen[m], NoGen}
  BY <1>3, NextNumberOK, SimpleOK DEF Simple, Parked, Provisional
<1>4. CASE StartCreate(w)
  BY <1>4, CreateSlotInv DEF StartCreate
<1>5. CASE StartNoSecret(w)
  BY <1>1, <1>2, <1>5, Onward DEF StartNoSecret, store, Proceed, Goto, TypeOK, Provisional
<1>6. CASE StartOccupied(w)
  <2>1. CASE At(w, "start_create") /\ Proceed(w, [job[w] EXCEPT !.pc = "start_inspect"])
    <3>1. PICK j \in Job : j = [job[w] EXCEPT !.pc = "start_inspect"]
      BY <1>1 DEF Job, PC
    <3>2. Simple(w, j) /\ j.pc = "start_inspect"
      BY <1>1, <2>1, <3>1 DEF At, JobOK, Job, Simple, Parked, Listing, Numbered, Identified, Cleanup,
                              Provisional, Renewal
    <3>3. JobOK(j)
      BY <3>2, SimpleOK
    <3> QED
      BY <1>1, <1>6, <2>1, <3>1, <3>2, <3>3, Onward
      DEF StartOccupied, store, Proceed, Goto, TypeOK, Provisional, Simple
  <2>2. CASE At(w, "start_recreate") /\ Proceed(w, NextNumber(job[w]))
    <3>1. job[w].pc \in Numbered
      BY <2>2 DEF At, Numbered
    <3> QED
      BY <1>1, <1>3, <1>6, <2>2, <3>1, Onward DEF StartOccupied, store, Proceed, Goto, TypeOK
  <2> QED
    BY <1>6, <2>1, <2>2 DEF StartOccupied
<1>7. CASE StartSkip(w)
  <2>1. job[w].pc \in Numbered
    BY <1>7 DEF StartSkip, At, Numbered
  <2> QED
    BY <1>1, <1>3, <1>7, <2>1, Onward DEF StartSkip, store, Proceed, Goto, TypeOK
<1>8. CASE StartTakeOver(w)
  <2>1. n \in Slot /\ job[w].todo = {} /\ job[w].pc = "start_inspect"
    BY <1>1, <1>8 DEF StartTakeOver, At, JobOK, Numbered, Listing, Job
  <2>2. slot[n] # NoSlot /\ slot[n].gen \in Gen /\ slot[n].gen \in used
    BY <1>1, <1>8, <2>1 DEF StartTakeOver, Claimable, TypeOK, SlotRecord, Inv, SlotsOK
  <2>3. PICK j \in Job : j = [job[w] EXCEPT !.pc = "clean_claim", !.seen[n] = slot[n].gen]
    BY <1>1, <2>1, <2>2 DEF Job, PC
  <2>4. /\ j.pc = "clean_claim" /\ j.num = n /\ j.todo = {} /\ j.seen[n] = slot[n].gen
        /\ \A m \in Slot : m # n => j.seen[m] = job[w].seen[m]
    BY <1>1, <2>1, <2>3 DEF Job
  <2>5. JobOK(j)
    BY <1>1, <2>1, <2>2, <2>4 DEF JobOK, Provisional, Closed, Erasing, Finalizing
  <2>6. Goto(w, j, holdsEvent, SlotRead(w, n))
        /\ UNCHANGED <<event, slot, session, receipt, invitation, used, issued, acked, faults>>
    BY <1>8, <2>3 DEF StartTakeOver, store
  <2>7. SlotRead(w, n) = [m \in Slot |-> IF m = n THEN holdsSlot[m] \cup {w} ELSE holdsSlot[m]]
    BY <1>1, <2>1 DEF SlotRead, TypeOK
  <2>8. /\ job' = [job EXCEPT ![w] = j] /\ holdsEvent' \subseteq holdsEvent
        /\ holdsSlot' \in [Slot -> SUBSET Worker]
        /\ \A m \in Slot : holdsSlot'[m] \subseteq holdsSlot[m] \cup {w}
        /\ \A m \in Slot : m # n /\ w \in holdsSlot'[m] => w \in holdsSlot[m]
    BY <1>1, <2>6, <2>7 DEF Goto, TypeOK
  <2>9. \A m \in Slot : w \in holdsSlot'[m] => SlotHas(m, j.seen[m])
    BY <1>1, <2>2, <2>4, <2>8 DEF HoldsOK, SlotHas
  <2>10. w \in holdsEvent' => event # NoEvent
    BY <1>1, <2>8 DEF HoldsOK
  <2> QED
    BY <1>1, <2>4, <2>5, <2>6, <2>8, <2>9, <2>10, Quiet DEF TypeOK, Provisional
<1>9. CASE StartRecheck(w)
  BY <1>9, StartRecheckInv
<1>10. CASE StartIndex(w)
  BY <1>10, StartIndexInv
<1>11. CASE StartIndexFails(w) \/ StartMintFails(w)
  <2>1. /\ job[w].pc = "start_index" /\ Own(w) \in Gen /\ n \in Slot
        /\ job[w].todo = {} /\ job[w].seen[n] \notin issued
    BY <1>1, <1>11 DEF StartIndexFails, StartMintFails, At, JobOK, Numbered, Identified, Provisional,
                       Listing, Own, Job
  <2>2. session' \in [Gen -> Index \cup {NoIndex}] /\ faults' \in 0 .. MaxFaults
    <3>1. Indexed(w) \in [Gen -> Index \cup {NoIndex}]
      BY <1>1, <2>1 DEF Indexed, Index, TypeOK
    <3>2. session \in [Gen -> Index \cup {NoIndex}] /\ session' \in {session, Indexed(w)}
      BY <1>1, <1>11 DEF StartIndexFails, StartMintFails, TypeOK
    <3>3. faults' \in 0 .. MaxFaults
      BY <1>1, <1>11, BoundsAssumption DEF StartIndexFails, StartMintFails, Fault, TypeOK
    <3> QED
      BY <3>1, <3>2, <3>3
  <2>3. CASE StartIndexFails(w)
    <3>1. PICK j \in Job : j = [job[w] EXCEPT !.pc = "start_undo_next"]
      BY <1>1 DEF Job, PC
    <3>2. j.pc = "start_undo_next" /\ j.num = n /\ j.todo = {} /\ j.seen = job[w].seen
      BY <1>1, <2>1, <3>1 DEF Job
    <3>3. JobOK(j)
      BY <1>1, <2>1, <3>2 DEF JobOK, Own, Numbered, Identified, Provisional, Closed, Erasing, Finalizing
    <3> QED
      BY <1>1, <2>1, <2>2, <2>3, <3>1, <3>2, <3>3, Onward
      DEF StartIndexFails, Proceed, Goto, Own, Provisional
  <2>4. CASE StartMintFails(w)
    BY <1>1, <1>2, <2>2, <2>4, Onward DEF StartMintFails, Proceed, Goto, Provisional
  <2> QED
    BY <1>11, <2>3, <2>4
<1>12. CASE StartUndo(w)
  <2>1. /\ job[w].pc \in {"start_undo", "start_undo_next"} /\ n \in Slot
        /\ job[w].seen[n] \in Gen /\ job[w].seen[n] \notin issued
    BY <1>1, <1>12 DEF StartUndo, JobOK, Numbered, Identified, Provisional
  <2>2. PICK j \in Job : j = IF At(w, "start_undo") THEN Idle ELSE NextNumber(job[w])
    BY <1>2, <1>3, <2>1 DEF Numbered, Identified, Provisional
  <2>3. /\ Simple(w, j) /\ JobOK(j) /\ (used \subseteq used' => JobOK(j)')
        /\ j.pc \notin Provisional \cup {"start_index", "set_put", "capacity_put"}
        /\ \A m \in Slot : j.seen[m] \in {job[w].seen[m], NoGen}
    BY <1>2, <1>3, <2>1, <2>2, SimpleOK DEF Numbered, Identified, Provisional
  <2>4. UNCHANGED <<event, session, receipt, invitation, used, issued, acked, faults>>
    BY <1>12 DEF StartUndo
  <2>5. CASE DropSlot(w, n, j)
    <3>1. slot[n].gen = Own(w)
      BY <1>1, <2>1, <2>5 DEF DropSlot, HoldsOK, SlotHas, Own
    <3>2. ASSUME NEW v \in Worker, job[v].pc \in {"start_index", "start_recheck"}
          PROVE  Own(v) # Own(w)
      BY <2>1, <3>2 DEF Inv, AdmissionsDistinct, Provisional
    <3>3. slot[n].gen \notin Committed /\ slot[n].gen \notin Rechecking
      BY <2>1, <3>1, <3>2 DEF Committed, Rechecking, At, Own
    <3>4. JobOK(j)'
      BY <2>3, <2>4
    <3>5. PICK m \in Slot : m = n
      BY <2>1
    <3>6. DropSlot(w, m, j) /\ slot[m].gen \notin Committed /\ slot[m].gen \notin Rechecking
      BY <2>5, <3>3, <3>5
    <3> QED
      BY <2>3, <2>4, <3>4, <3>6, Drop DEF DropSlot, SlotGone, Goto
  <2>6. CASE ~ DropSlot(w, n, j)
    <3>1. Proceed(w, j) /\ UNCHANGED slot
      BY <1>12, <2>2, <2>6 DEF StartUndo, Refused
    <3> QED
      BY <1>1, <2>3, <2>4, <3>1, Onward DEF Proceed, Goto, TypeOK
  <2> QED
    BY <2>5, <2>6
<1>13. CASE StartCleanup(w)
  <2>1. job[w].pc \in Cleanup /\ job[w].pc \in Numbered /\ n \in Slot /\ job[w].todo = {}
    BY <1>1, <1>13 DEF StartCleanup, CleanSlot, CleanClaim, CleanAcked, CleanUnanswered, CleanBackoff,
                       CleanUnindex, CleanDrop, CleanFails, At, JobOK, Cleanup, Identified, Numbered, Listing, Job
  <2>2. PICK j \in Job : j = [job[w] EXCEPT !.pc = "start_recreate"]
    BY <1>1 DEF Job, PC
  <2>3. Simple(w, j)
    BY <1>1, <2>1, <2>2 DEF Simple, Parked, Identified, Cleanup, Provisional, Renewal, Job
  <2> QED
    BY <1>3, <1>13, <2>1, <2>2, <2>3, CleanSlotInv DEF StartCleanup
<1>14. CASE StartCallFails(w)
  <2>1. faults' \in 0 .. MaxFaults
    BY <1>1, <1>14, BoundsAssumption DEF StartCallFails, Fault, TypeOK
  <2>2. UNCHANGED <<event, slot, session, receipt, invitation, used, issued, acked>>
    BY <1>14 DEF StartCallFails, store
  <2>3. CASE job[w].pc \in {"start_inspect", "start_undo_next"} /\ Proceed(w, NextNumber(job[w]))
    <3>1. PICK j \in Job : j = NextNumber(job[w])
      BY <1>2, <1>3, <2>3 DEF Numbered, Identified, Provisional
    <3>2. /\ JobOK(j) /\ j.pc \notin Provisional \cup {"start_index", "set_put", "capacity_put"}
          /\ \A m \in Slot : j.seen[m] \in {job[w].seen[m], NoGen}
      BY <1>2, <1>3, <2>3, <3>1, SimpleOK DEF Numbered, Identified, Provisional
    <3> QED
      BY <1>1, <2>1, <2>2, <2>3, <3>1, <3>2, Onward DEF TypeOK
  <2>4. CASE At(w, "start_recheck") /\ Proceed(w, [job[w] EXCEPT !.pc = "start_undo"])
    <3>1. PICK j \in Job : j = [job[w] EXCEPT !.pc = "start_undo"]
      BY <1>1 DEF Job, PC
    <3>2. j.pc = "start_undo" /\ j.num = n /\ j.seen = job[w].seen /\ j.todo = job[w].todo
      BY <1>1, <3>1 DEF Job
    <3>3. JobOK(j)
      BY <1>1, <2>4, <3>2 DEF At, JobOK, Numbered, Identified, Provisional, Closed, Erasing, Finalizing, Listing
    <3> QED
      BY <1>1, <2>1, <2>2, <2>4, <3>1, <3>2, <3>3, Onward DEF At, TypeOK, Own, Provisional
  <2> QED
    BY <1>14, <2>3, <2>4 DEF StartCallFails
<1> QED
  BY <1>4, <1>5, <1>6, <1>7, <1>8, <1>9, <1>10, <1>11, <1>12, <1>13, <1>14 DEF Admit

-----------------------------------------------------------------------------
(* A deletion request arrives.                                             *)
LEMMA DeleteEventInv ==
  ASSUME Inv, NEW w \in Worker, DeleteEvent(w)
  PROVE  Inv'
<1>1. TypeOK /\ HoldsOK(w)
  BY DEF Inv
<1>2. PICK j \in Job : j = [Idle EXCEPT !.pc = IF EventIs("deleting") THEN "delete_receipt" ELSE "delete_begin"]
  BY IdleOK DEF Job, PC
<1>3. /\ j.pc = IF EventIs("deleting") THEN "delete_receipt" ELSE "delete_begin"
      /\ j.todo = {} /\ \A m \in Slot : j.seen[m] = NoGen
  BY <1>2 DEF Idle, NothingSeen
<1>4. JobOK(j)
  BY <1>3 DEF JobOK, Live, EventIs, Numbered, Identified, Cleanup, Provisional, Renewal, Closed,
              Erasing, Finalizing
<1>5. /\ event # NoEvent /\ Goto(w, j, holdsEvent \cup {w}, holdsSlot)
      /\ UNCHANGED <<event, slot, session, receipt, invitation, used, issued, acked, faults>>
  BY <1>2 DEF DeleteEvent, store
<1>6. /\ job' = [job EXCEPT ![w] = j] /\ holdsEvent' \subseteq holdsEvent \cup {w}
      /\ holdsSlot' \in [Slot -> SUBSET Worker]
      /\ \A m \in Slot : holdsSlot'[m] \subseteq holdsSlot[m] /\ w \notin holdsSlot'[m]
  BY <1>1, <1>3, <1>5 DEF Goto, TypeOK
<1> QED
  BY <1>1, <1>3, <1>4, <1>5, <1>6, Quiet DEF TypeOK, Provisional

(* The event is put in state deleting.                                     *)
LEMMA DeleteBeginInv ==
  ASSUME Inv, NEW w \in Worker, DeleteBegin(w)
  PROVE  Inv'
<1>1. TypeOK /\ JobOK(job[w]) /\ HoldsOK(w) /\ job[w] \in Job /\ job[w].pc = "delete_begin"
  BY DEF Inv, TypeOK, DeleteBegin, At
<1>2. UNCHANGED <<slot, session, receipt, invitation, used, issued, acked, faults>>
  BY DEF DeleteBegin, EventWrite
<1>3. CASE w \in holdsEvent
  <2>1. event \in Event
    BY <1>1, <1>3 DEF TypeOK, HoldsOK
  <2>2. PICK rec \in Event : rec = [event EXCEPT !.state = "deleting", !.cleanup = "due"]
    BY <2>1 DEF Event, EventState, Claim
  <2>3. PICK j \in Job : j = [job[w] EXCEPT !.pc = "delete_receipt"]
    BY <1>1 DEF Job, PC
  <2>4. rec.state = "deleting" /\ UpdateEvent(w, rec, j)
    BY <1>3, <2>1, <2>2, <2>3 DEF DeleteBegin, EventWrite, Event
  <2>5. j.pc = "delete_receipt" /\ j.seen = job[w].seen /\ j.todo = {}
    BY <1>1, <2>3 DEF Job, JobOK, Listing
  <2>6. event' = rec
    BY <2>4 DEF UpdateEvent
  <2>7. JobOK(j)'
    BY <1>1, <1>2, <2>4, <2>5, <2>6
    DEF JobOK, Live, Numbered, Identified, Cleanup, Provisional, Renewal, Closed, Erasing, Finalizing
  <2>8. j.pc \notin Provisional \cup {"set_put", "capacity_put"}
    BY <2>5 DEF Provisional
  <2> QED
    BY <1>2, <2>4, <2>5, <2>7, <2>8, EventRewrite DEF UpdateEvent, Goto
<1>4. CASE w \notin holdsEvent
  BY <1>1, <1>2, <1>4, IdleOK, Onward
  DEF DeleteBegin, EventWrite, UpdateEvent, Proceed, Goto, TypeOK, Idle, NothingSeen, Provisional
<1> QED
  BY <1>3, <1>4

(* Finalization if there is a receipt, a claim if there is none.           *)
LEMMA DeleteReceiptInv ==
  ASSUME Inv, NEW w \in Worker, DeleteReceipt(w)
  PROVE  Inv'
<1>1. /\ TypeOK /\ JobOK(job[w]) /\ job[w] \in Job /\ job[w].pc = "delete_receipt"
      /\ UNCHANGED <<event, slot, session, receipt, invitation, used, issued, acked, faults>>
  BY DEF Inv, TypeOK, DeleteReceipt, At, store
<1>2. ~ Live /\ job[w].todo = {}
  BY <1>1 DEF JobOK, Closed, Listing, Job
<1>3. CASE receipt # NoReceipt
  <2>1. PICK j \in Job : j = StartList(job[w], "final_list")
    BY <1>1 DEF StartList, NothingSeen, Job, PC
  <2>2. j.pc = "final_list" /\ j.todo = Slot /\ \A m \in Slot : j.seen[m] = NoGen
    BY <1>1, <2>1 DEF StartList, NothingSeen, Job
  <2>3. JobOK(j)
    BY <1>2, <1>3, <2>2 DEF JobOK, Numbered, Identified, Cleanup, Provisional, Renewal, Closed, Erasing,
                            Finalizing, Listing
  <2> QED
    BY <1>1, <1>3, <2>1, <2>2, <2>3, Onward DEF DeleteReceipt, Proceed, Goto, TypeOK, Provisional
<1>4. CASE receipt = NoReceipt
  <2>1. PICK j \in Job : j = [job[w] EXCEPT !.pc = "delete_claim"]
    BY <1>1 DEF Job, PC
  <2>2. j.pc = "delete_claim" /\ j.todo = {} /\ j.seen = job[w].seen
    BY <1>1, <1>2, <2>1 DEF Job
  <2>3. JobOK(j)
    BY <1>1, <1>2, <2>2 DEF JobOK, Numbered, Identified, Cleanup, Provisional, Renewal, Closed, Erasing,
                            Finalizing
  <2>4. Proceed(w, Idle) \/ Proceed(w, j)
    BY <1>4, <2>1 DEF DeleteReceipt
  <2>5. CASE Proceed(w, Idle)
    BY <1>1, <2>5, IdleOK, Onward DEF Proceed, Goto, TypeOK, Idle, NothingSeen, Provisional
  <2>6. CASE Proceed(w, j)
    BY <1>1, <2>2, <2>3, <2>6, Onward DEF Proceed, Goto, TypeOK, Provisional
  <2> QED
    BY <2>4, <2>5, <2>6
<1> QED
  BY <1>3, <1>4

(* The claim: nobody who was committed is without a slot now, so the list  *)
(* that begins will find everyone who is not erased.                       *)
LEMMA DeleteClaimInv ==
  ASSUME Inv, NEW w \in Worker, DeleteClaim(w)
  PROVE  Inv'
<1>1. TypeOK /\ JobOK(job[w]) /\ HoldsOK(w) /\ job[w] \in Job /\ job[w].pc = "delete_claim"
  BY DEF Inv, TypeOK, DeleteClaim, At
<1>2. /\ UNCHANGED <<slot, session, receipt, invitation, used, issued, acked, faults>>
      /\ ~ Live
  BY <1>1 DEF DeleteClaim, EventWrite, JobOK, Closed
<1>3. CASE w \in holdsEvent
  <2>1. event \in Event /\ event.state = "deleting"
    BY <1>1, <1>2, <1>3 DEF TypeOK, HoldsOK, Live
  <2>2. PICK rec \in Event : rec = [event EXCEPT !.cleanup = "held"]
    BY <2>1 DEF Event, Claim
  <2>3. PICK j \in Job : j = StartList(job[w], "delete_list")
    BY <1>1 DEF StartList, NothingSeen, Job, PC
  <2>4. j.pc = "delete_list" /\ j.todo = Slot /\ \A m \in Slot : j.seen[m] = NoGen
    BY <1>1, <2>3 DEF StartList, NothingSeen, Job
  <2>5. rec.state = "deleting" /\ UpdateEvent(w, rec, j)
    BY <1>3, <2>1, <2>2, <2>3 DEF DeleteClaim, EventWrite, Event
  <2>6. event' = rec /\ job' = [job EXCEPT ![w] = j]
    BY <2>5 DEF UpdateEvent, Goto
  <2>7. Committed' \subseteq Committed
    BY <1>1, <1>2, <2>4, <2>6, CommittedShrinks DEF TypeOK
  <2>8. \A g \in Committed' : g \in acked' \/ \E m \in Slot : SlotHas(m, g)'
    BY <1>2, <2>7 DEF Inv, Accounted, SlotHas
  <2>9. JobOK(j)'
    BY <1>2, <2>4, <2>5, <2>6, <2>8
    DEF JobOK, Live, Numbered, Identified, Cleanup, Provisional, Renewal, Closed, Erasing, Finalizing,
        Listing
  <2>10. j.pc \notin Provisional \cup {"set_put", "capacity_put"}
    BY <2>4 DEF Provisional
  <2> QED
    BY <1>2, <2>4, <2>5, <2>9, <2>10, EventRewrite DEF UpdateEvent, Goto
<1>4. CASE w \notin holdsEvent
  BY <1>1, <1>2, <1>4, IdleOK, Onward
  DEF DeleteClaim, EventWrite, UpdateEvent, Proceed, Goto, TypeOK, Idle, NothingSeen, Provisional
<1> QED
  BY <1>3, <1>4

(* One slot is listed for erasure: an identity still to be found is in the *)
(* list now, or in a slot the list has yet to read.                        *)
LEMMA DeleteListInv ==
  ASSUME Inv, NEW w \in Worker, DeleteList(w)
  PROVE  Inv'
<1>1. TypeOK /\ JobOK(job[w]) /\ job[w] \in Job /\ job[w].pc = "delete_list"
  BY DEF Inv, TypeOK, DeleteList, At
<1>2. PICK n \in job[w].todo : ListOne(w, n, slot[n] # NoSlot, "delete_call")
  BY DEF DeleteList
<1>3. UNCHANGED <<store, used, issued, acked, faults>>
  BY DEF DeleteList
<1>5. PICK j \in Job : /\ ListsTo(w, n, "delete_call", j)
                       /\ j.seen[n] = IF slot[n] = NoSlot THEN NoGen ELSE slot[n].gen
                       /\ JobOK(j) => Inv'
  <2>1. CASE slot[n] # NoSlot
    <3>1. ListOne(w, n, TRUE, "delete_call")
      BY <1>2, <2>1 DEF ListOne
    <3> QED
      BY <1>3, <2>1, <3>1, ListKept DEF AfterList
  <2>2. CASE slot[n] = NoSlot
    <3>1. ListOne(w, n, FALSE, "delete_call")
      BY <1>2, <2>2 DEF ListOne
    <3> QED
      BY <1>3, <2>2, <3>1, ListSkipped DEF AfterList
  <2> QED
    BY <2>1, <2>2
<1>6. ~ Live /\ n \in Slot /\ job[w].seen[n] = NoGen /\ j.todo \subseteq Slot
  BY <1>1, <1>5 DEF JobOK, Closed, Erasing, Job, ListsTo
<1>7. ASSUME NEW g \in Committed, g \notin acked
      PROVE  (\E m \in Slot : j.seen[m] = g) \/ (\E m \in j.todo : SlotHas(m, g))
  <2>1. g # NoGen
    BY SentinelAssumption DEF Inv, TypeOK, Committed, JobOK, Own, At, Identified, Provisional
  <2>2. (\E m \in Slot : job[w].seen[m] = g) \/ (\E m \in job[w].todo : SlotHas(m, g))
    BY <1>1, <1>7 DEF JobOK
  <2>3. ASSUME NEW m \in Slot, job[w].seen[m] = g
        PROVE  j.seen[m] = g
    BY <1>5, <1>6, <2>1, <2>3 DEF ListsTo
  <2>4. SlotHas(n, g) => j.seen[n] = g
    BY <1>5 DEF SlotHas
  <2> QED
    BY <1>5, <1>6, <2>2, <2>3, <2>4 DEF ListsTo
<1>8. JobOK(j)
  BY <1>1, <1>5, <1>6, <1>7 DEF ListsTo, JobOK, Numbered, Identified, Cleanup, Provisional, Renewal, Closed, Erasing,
                          Finalizing, Listing
<1> QED
  BY <1>5, <1>8

(* The application acknowledges the whole list: everyone committed is      *)
(* erased.                                                                 *)
LEMMA DeleteAckedInv ==
  ASSUME Inv, NEW w \in Worker, DeleteAcked(w)
  PROVE  Inv'
<1>1. TypeOK /\ JobOK(job[w]) /\ job[w] \in Job /\ job[w].pc = "delete_call"
  BY DEF Inv, TypeOK, DeleteAcked, At
<1>2. PICK j \in Job : j = [job[w] EXCEPT !.pc = "delete_record"]
  BY <1>1 DEF Job, PC
<1>3. j.pc = "delete_record" /\ j.seen = job[w].seen /\ j.todo = {}
  BY <1>1, <1>2 DEF Job, JobOK, Listing
<1>4. PICK erased \in SUBSET Gen : erased = {job[w].seen[n] : n \in Read(job[w])}
  BY <1>1 DEF Read, Job
<1>5. /\ Proceed(w, j) /\ acked' = acked \cup erased
      /\ UNCHANGED <<event, slot, session, receipt, invitation, used, issued, faults>>
  BY <1>2, <1>4 DEF DeleteAcked, store
<1>6. Committed' \subseteq Committed
  BY <1>1, <1>3, <1>5, CommittedShrinks DEF Proceed, Goto, TypeOK
<1>7. Committed \subseteq acked'
  <2> SUFFICES ASSUME NEW g \in Committed, g \notin acked
               PROVE  g \in erased
    BY <1>5
  <2>1. g # NoGen
    BY SentinelAssumption DEF Inv, TypeOK, Committed, JobOK, Own, At, Identified, Provisional
  <2>2. PICK n \in Slot : job[w].seen[n] = g
    BY <1>1 DEF JobOK
  <2> QED
    BY <1>4, <2>1, <2>2 DEF Read
<1>8. JobOK(j)'
  BY <1>1, <1>3, <1>5, <1>6, <1>7
  DEF JobOK, Live, Numbered, Identified, Cleanup, Provisional, Renewal, Closed, Erasing, Finalizing
<1>9. j.pc \notin Provisional \cup {"set_put", "capacity_put"}
  BY <1>3 DEF Provisional
<1> QED
  BY <1>3, <1>5, <1>8, <1>9, Erase DEF Proceed, Goto

(* The application did not answer, or its retry time is put off.           *)
LEMMA DeleteUnansweredInv ==
  ASSUME Inv, NEW w \in Worker, DeleteUnanswered(w)
  PROVE  Inv'
<1>1. /\ TypeOK /\ JobOK(job[w]) /\ job[w] \in Job /\ job[w].pc = "delete_call"
      /\ UNCHANGED <<event, slot, session, receipt, invitation, used, issued, acked, faults>>
  BY DEF Inv, TypeOK, DeleteUnanswered, At, store
<1>2. PICK j \in Job : j = [job[w] EXCEPT !.pc = "delete_backoff"]
  BY <1>1 DEF Job, PC
<1>3. j.pc = "delete_backoff" /\ j.seen = job[w].seen /\ j.todo = {}
  BY <1>1, <1>2 DEF Job, JobOK, Listing
<1>4. JobOK(j)
  BY <1>1, <1>3 DEF JobOK, Numbered, Identified, Cleanup, Provisional, Renewal, Closed, Erasing, Finalizing
<1> QED
  BY <1>1, <1>2, <1>3, <1>4, Onward DEF DeleteUnanswered, Proceed, Goto, TypeOK, Provisional

(* The retry time of the deletion is put off, unless somebody claimed it   *)
(* meanwhile (access/recovery.go:148-153).                                 *)
LEMMA DeleteBackoffInv ==
  ASSUME Inv, NEW w \in Worker, DeleteBackoff(w)
  PROVE  Inv'
<1>1. TypeOK /\ JobOK(job[w]) /\ HoldsOK(w) /\ job[w] \in Job /\ job[w].pc = "delete_backoff"
  BY DEF Inv, TypeOK, DeleteBackoff, At
<1>2. /\ UNCHANGED <<slot, session, receipt, invitation, used, issued, acked, faults>>
      /\ ~ Live
  BY <1>1 DEF DeleteBackoff, EventWrite, JobOK, Closed, Erasing
<1>3. PICK j \in Job : j = Idle /\ j.pc = "idle" /\ JobOK(j) /\ j.todo = {} /\ \A m \in Slot : j.seen[m] = NoGen
  BY IdleOK DEF Idle, NothingSeen
<1>4. CASE w \in holdsEvent
  <2>1. event \in Event /\ event.state = "deleting"
    BY <1>1, <1>2, <1>4 DEF TypeOK, HoldsOK, Live
  <2>2. PICK rec \in Event : rec = [event EXCEPT !.cleanup = "held"]
    BY <2>1 DEF Event, Claim
  <2>3. rec.state = "deleting" /\ UpdateEvent(w, rec, j)
    BY <1>3, <1>4, <2>1, <2>2 DEF DeleteBackoff, EventWrite, Event
  <2>4. JobOK(j)'
    BY <1>3 DEF JobOK, Numbered, Identified, Cleanup, Provisional, Renewal, Closed, Erasing, Finalizing
  <2>5. j.pc \notin Provisional \cup {"set_put", "capacity_put"}
    BY <1>3 DEF Provisional
  <2> QED
    BY <1>2, <1>3, <2>3, <2>4, <2>5, EventRewrite DEF UpdateEvent, Goto
<1>5. CASE w \notin holdsEvent
  BY <1>1, <1>2, <1>5, IdleOK, Onward
  DEF DeleteBackoff, EventWrite, UpdateEvent, Proceed, Goto, TypeOK, Idle, NothingSeen, Provisional
<1> QED
  BY <1>4, <1>5

(* The receipt is written: the erasure is complete.                        *)
LEMMA DeleteRecordInv ==
  ASSUME Inv, NEW w \in Worker, DeleteRecord(w)
  PROVE  Inv'
<1>1. TypeOK /\ JobOK(job[w]) /\ job[w] \in Job /\ job[w].pc = "delete_record"
  BY DEF Inv, TypeOK, DeleteRecord, At
<1>2. ~ Live /\ Committed \subseteq acked
  BY <1>1 DEF JobOK, Closed, Erasing
<1>3. PICK j \in Job : j = StartList(job[w], "final_list")
  BY <1>1 DEF StartList, NothingSeen, Job, PC
<1>4. j.pc = "final_list" /\ j.todo = Slot /\ \A m \in Slot : j.seen[m] = NoGen
  BY <1>1, <1>3 DEF StartList, NothingSeen, Job
<1>5. /\ Proceed(w, j)
      /\ receipt' = IF receipt = NoReceipt THEN Cardinality(Read(job[w])) ELSE receipt
      /\ UNCHANGED <<event, slot, session, invitation, used, issued, acked, faults>>
  BY <1>3 DEF DeleteRecord
<1>6. Cardinality(Read(job[w])) \in Nat
  <2>1. IsFiniteSet(Slot)
    BY FS_Interval, BoundsAssumption DEF Slot
  <2>2. Read(job[w]) \subseteq Slot
    BY DEF Read
  <2>3. IsFiniteSet(Read(job[w]))
    BY <2>1, <2>2, FS_Subset
  <2> QED
    BY <2>3, FS_CardinalityType
<1>7. receipt' \in Nat /\ receipt' # NoReceipt
  BY <1>1, <1>5, <1>6, SentinelAssumption DEF TypeOK
<1>8. /\ job' = [job EXCEPT ![w] = j] /\ job' \in [Worker -> Job] /\ job'[w] = j
      /\ \A u \in Worker : u # w => job'[u] = job[u]
      /\ holdsEvent' \subseteq holdsEvent
      /\ holdsSlot' \in [Slot -> SUBSET Worker]
      /\ \A m \in Slot : holdsSlot'[m] \subseteq holdsSlot[m] /\ w \notin holdsSlot'[m]
  BY <1>1, <1>4, <1>5 DEF Proceed, Goto, TypeOK
<1>9. TypeOK'
  BY <1>1, <1>5, <1>7, <1>8 DEF TypeOK
<1>10. Committed' \subseteq Committed
  BY <1>1, <1>4, <1>5, <1>8, CommittedShrinks DEF TypeOK
<1>11. Live' <=> Live
  BY <1>5 DEF Live
<1>12. Evolves
  BY <1>5, <1>7, <1>10, <1>11 DEF Evolves, SlotHas
<1>13. JobOK(j)'
  BY <1>2, <1>4, <1>7, <1>11
  DEF JobOK, Numbered, Identified, Cleanup, Provisional, Renewal, Closed, Erasing, Finalizing, Listing
<1>14. \A u \in Worker : HoldsOK(u)'
  BY <1>4, <1>5, <1>8, <1>11 DEF Inv, HoldsOK, SlotHas
<1>15. SlotsOK' /\ issued' \subseteq used'
  BY <1>5 DEF Inv, SlotsOK, SlotHas
<1>16. \A u \in Worker : u # w /\ job[u].pc \in Provisional => Own(u) \notin issued'
  BY <1>5 DEF Inv, JobOK, Own
<1>17. ~ Live' /\ Committed' \subseteq acked' /\ (event' = NoEvent => event = NoEvent) /\ j.pc \notin Provisional
  BY <1>2, <1>4, <1>5, <1>10, <1>11 DEF Provisional
<1> QED
  BY <1>8, <1>9, <1>10, <1>12, <1>13, <1>14, <1>15, <1>16, <1>17, Assemble

(* One slot is listed for removal.                                         *)
LEMMA FinalListInv ==
  ASSUME Inv, NEW w \in Worker, FinalList(w)
  PROVE  Inv'
<1>1. TypeOK /\ JobOK(job[w]) /\ job[w] \in Job /\ job[w].pc = "final_list"
  BY DEF Inv, TypeOK, FinalList, At
<1>2. PICK n \in job[w].todo : ListOne(w, n, slot[n] # NoSlot, "final_mark")
  BY DEF FinalList
<1>3. UNCHANGED <<store, used, issued, acked, faults>>
  BY DEF FinalList
<1>4. PICK j \in Job : /\ ListsTo(w, n, "final_mark", j)
                       /\ j.seen[n] = IF slot[n] = NoSlot THEN NoGen ELSE slot[n].gen
                       /\ JobOK(j) => Inv'
  <2>1. CASE slot[n] # NoSlot
    <3>1. ListOne(w, n, TRUE, "final_mark")
      BY <1>2, <2>1 DEF ListOne
    <3> QED
      BY <1>3, <2>1, <3>1, ListKept DEF AfterList
  <2>2. CASE slot[n] = NoSlot
    <3>1. ListOne(w, n, FALSE, "final_mark")
      BY <1>2, <2>2 DEF ListOne
    <3> QED
      BY <1>3, <2>2, <3>1, ListSkipped DEF AfterList
  <2> QED
    BY <2>1, <2>2
<1>5. ~ Live /\ receipt # NoReceipt
  BY <1>1 DEF JobOK, Closed, Finalizing
<1>6. ASSUME NEW m \in Slot, NEW g \in Committed, SlotHas(m, g)
      PROVE  m \in j.todo \/ j.seen[m] = g
  <2>1. m \in job[w].todo \/ job[w].seen[m] = g
    BY <1>1, <1>6 DEF JobOK, Finalizing
  <2>2. CASE m = n
    BY <1>4, <1>6, <2>2 DEF SlotHas
  <2>3. CASE m # n
    BY <1>4, <2>1, <2>3 DEF ListsTo
  <2> QED
    BY <2>2, <2>3
<1>7. JobOK(j)
  BY <1>1, <1>4, <1>5, <1>6
  DEF ListsTo, JobOK, Numbered, Identified, Cleanup, Provisional, Renewal, Closed, Erasing, Finalizing, Listing
<1> QED
  BY <1>4, <1>7

(* One listed identity gets its tombstone, and its slot is next.           *)
LEMMA FinalMarkInv ==
  ASSUME Inv, NEW w \in Worker, FinalMark(w)
  PROVE  Inv'
<1>1. TypeOK /\ JobOK(job[w]) /\ job[w] \in Job /\ job[w].pc = "final_mark"
  BY DEF Inv, TypeOK, FinalMark, At
<1>2. /\ UNCHANGED <<event, slot, receipt, invitation, used, issued, acked, faults>>
      /\ job[w].todo = {}
  BY <1>1 DEF FinalMark, JobOK, Listing, Job
<1>3. PICK n \in Slot :
        /\ job[w].seen[n] # NoGen
        /\ session' = IF session[job[w].seen[n]] = NoIndex THEN session
                      ELSE [session EXCEPT ![job[w].seen[n]] = [slot |-> n, deleted |-> TRUE]]
        /\ Proceed(w, [job[w] EXCEPT !.pc = "final_drop", !.num = n])
  BY DEF FinalMark, Read
<1>4. job[w].seen[n] \in Gen
  BY <1>1, <1>3 DEF Job
<1>5. session' \in [Gen -> Index \cup {NoIndex}]
  BY <1>1, <1>3, <1>4 DEF TypeOK, Index
<1>6. PICK j \in Job : j = [job[w] EXCEPT !.pc = "final_drop", !.num = n]
  <2>1. n \in 0 .. MaxCapacity
    BY <1>3, BoundsAssumption DEF Slot
  <2> QED
    BY <1>1, <2>1 DEF Job, PC
<1>7. j.pc = "final_drop" /\ j.num = n /\ j.seen = job[w].seen /\ j.todo = {}
  BY <1>1, <1>2, <1>6 DEF Job
<1>8. JobOK(j)
  <2>1. /\ ~ Live /\ receipt # NoReceipt
        /\ \A m \in Slot : j.seen[m] \in used \cup {NoGen}
        /\ \A m \in Slot : \A g \in Committed : SlotHas(m, g) => j.seen[m] = g
    BY <1>1, <1>2, <1>7 DEF JobOK, Closed, Finalizing
  <2>2. j.num \in Slot /\ j.seen[j.num] \in Gen
    BY <1>4, <1>7
  <2> QED
    BY <1>7, <2>1, <2>2 DEF JobOK, Provisional, Closed, Erasing, Finalizing, Cleanup
<1>9. Proceed(w, j)
  BY <1>3, <1>6
<1> QED
  BY <1>1, <1>2, <1>5, <1>7, <1>8, <1>9, Onward DEF Proceed, Goto, TypeOK, Provisional

(* Its slot is removed, if the slot is still the one listed.               *)
LEMMA FinalDropInv ==
  ASSUME Inv, NEW w \in Worker, FinalDrop(w)
  PROVE  Inv'
<1> DEFINE n == job[w].num
<1>1. TypeOK /\ JobOK(job[w]) /\ HoldsOK(w) /\ job[w] \in Job /\ job[w].pc = "final_drop"
  BY DEF Inv, TypeOK, FinalDrop, At
<1>2. /\ UNCHANGED <<event, session, receipt, invitation, used, issued, acked, faults>>
      /\ n \in Slot /\ job[w].seen[n] \in Gen /\ job[w].todo = {}
      /\ ~ Live /\ receipt # NoReceipt
  BY <1>1 DEF FinalDrop, JobOK, Numbered, Identified, Closed, Finalizing, Listing, Job
<1>3. PICK j \in Job : j = [job[w] EXCEPT !.pc = "final_mark", !.num = 0, !.seen[n] = NoGen]
  <2>1. 0 \in 0 .. MaxCapacity
    BY BoundsAssumption
  <2> QED
    BY <1>1, <1>2, <2>1 DEF Job, PC
<1>4. /\ j.pc = "final_mark" /\ j.todo = {} /\ j.seen[n] = NoGen
      /\ \A m \in Slot : m # n => j.seen[m] = job[w].seen[m]
  BY <1>1, <1>2, <1>3 DEF Job
<1>5. j.pc \notin Provisional \cup {"start_index", "set_put", "capacity_put"}
  BY <1>4 DEF Provisional
<1>6. \A m \in Slot : j.seen[m] \in {job[w].seen[m], NoGen} /\ j.seen[m] \in used \cup {NoGen}
  BY <1>1, <1>4 DEF JobOK
<1>7. \A m \in Slot : \A g \in Committed : m # n /\ SlotHas(m, g) => j.seen[m] = g
  BY <1>1, <1>2, <1>4 DEF JobOK, Finalizing
<1>8. CASE DropSlot(w, n, j)
  <2>1. job' = [job EXCEPT ![w] = j] /\ slot' = [slot EXCEPT ![n] = NoSlot]
    BY <1>8 DEF DropSlot, Goto
  <2>2. Committed' \subseteq Committed
    BY <1>1, <1>2, <1>5, <2>1, CommittedShrinks DEF TypeOK
  <2>3. \A m \in Slot : \A g \in Committed' : SlotHas(m, g)' => j.seen[m] = g
    BY <1>1, <1>2, <1>7, <2>1, <2>2 DEF SlotHas, TypeOK
  <2>4. JobOK(j)'
    BY <1>2, <1>4, <1>6, <2>3
    DEF JobOK, Live, Numbered, Identified, Cleanup, Provisional, Renewal, Closed, Erasing, Finalizing
  <2>5. slot[n].gen \in acked \/ slot[n].gen \notin Committed
    BY <1>2 DEF Inv
  <2>6. PICK m \in Slot : m = n
    BY <1>2
  <2>7. DropSlot(w, m, j) /\ (slot[m].gen \in acked \/ slot[m].gen \notin Committed)
    BY <1>8, <2>5, <2>6
  <2> QED
    BY <1>2, <1>5, <1>6, <2>4, <2>7, Drop DEF DropSlot, SlotGone, Goto
<1>9. CASE slot[n] = NoSlot /\ Proceed(w, j) /\ UNCHANGED slot
  <2>1. JobOK(j)
    BY <1>2, <1>4, <1>6, <1>7, <1>9
    DEF JobOK, SlotHas, Numbered, Identified, Cleanup, Provisional, Renewal, Closed, Erasing, Finalizing
  <2> QED
    BY <1>1, <1>2, <1>5, <1>6, <1>9, <2>1, Onward DEF Proceed, Goto, TypeOK
<1>10. CASE Proceed(w, Idle) /\ UNCHANGED slot
  BY <1>1, <1>2, <1>10, IdleOK, Onward DEF Proceed, Goto, TypeOK, Idle, NothingSeen, Provisional
<1> QED
  BY <1>3, <1>8, <1>9, <1>10 DEF FinalDrop, Refused

(* Nothing is listed any more: the invitation goes.                        *)
LEMMA FinalInvitationInv ==
  ASSUME Inv, NEW w \in Worker, FinalInvitation(w)
  PROVE  Inv'
<1>1. /\ TypeOK /\ JobOK(job[w]) /\ HoldsOK(w) /\ job[w] \in Job /\ job[w].pc = "final_mark"
      /\ UNCHANGED <<event, slot, session, receipt, used, issued, acked, faults>>
      /\ ~ invitation' /\ invitation' \in BOOLEAN
  BY DEF Inv, TypeOK, FinalInvitation, At
<1>2. job[w].todo = {} /\ \A m \in Slot : job[w].seen[m] = NoGen
  BY <1>1 DEF JobOK, Listing, Job, FinalInvitation, Read
<1>3. PICK j \in Job : j = [job[w] EXCEPT !.pc = "final_event"]
  BY <1>1 DEF Job, PC
<1>4. j.pc = "final_event" /\ j.todo = {} /\ \A m \in Slot : j.seen[m] = NoGen
  BY <1>1, <1>2, <1>3 DEF Job
<1>5. Proceed(w, j)
  BY <1>3 DEF FinalInvitation
<1>6. /\ job' = [job EXCEPT ![w] = j] /\ holdsEvent' \subseteq holdsEvent
      /\ holdsSlot' \in [Slot -> SUBSET Worker]
      /\ \A m \in Slot : holdsSlot'[m] \subseteq holdsSlot[m] /\ w \notin holdsSlot'[m]
  BY <1>1, <1>4, <1>5 DEF Proceed, Goto, TypeOK
<1>7. Committed' \subseteq Committed
  BY <1>1, <1>4, <1>6, CommittedShrinks DEF TypeOK
<1>8. /\ ~ Live' /\ receipt' # NoReceipt
      /\ \A m \in Slot : \A g \in Committed' : ~ SlotHas(m, g)'
  <2>1. ~ Live /\ receipt # NoReceipt
    BY <1>1 DEF JobOK, Closed, Finalizing
  <2>2. \A g \in Committed : g # NoGen
    BY SentinelAssumption DEF Inv, TypeOK, Committed, JobOK, Own, At, Identified, Provisional
  <2>3. \A m \in Slot : \A g \in Committed : ~ SlotHas(m, g)
    BY <1>1, <1>2, <2>2 DEF JobOK, Finalizing
  <2> QED
    BY <1>1, <1>7, <2>1, <2>3 DEF Live, SlotHas
<1>9. JobOK(j)'
  BY <1>1, <1>4, <1>8
  DEF JobOK, Read, Numbered, Identified, Cleanup, Provisional, Renewal, Closed, Erasing, Finalizing
<1>10. w \in holdsEvent' => event # NoEvent
  BY <1>1, <1>6 DEF HoldsOK
<1>11. j.pc \notin Provisional \cup {"start_index", "set_put", "capacity_put"}
  BY <1>4 DEF Provisional
<1> QED
  BY <1>1, <1>6, <1>9, <1>10, <1>11, Settle DEF TypeOK

(* The event goes: there is a receipt and nobody committed is in a slot.   *)
LEMMA FinalEventInv ==
  ASSUME Inv, NEW w \in Worker, FinalEvent(w)
  PROVE  Inv'
<1>1. /\ TypeOK /\ JobOK(job[w]) /\ HoldsOK(w) /\ job[w] \in Job /\ job[w].pc = "final_event"
      /\ UNCHANGED <<slot, session, receipt, invitation, used, issued, acked, faults>>
  BY DEF Inv, TypeOK, FinalEvent, At
<1>2. PICK j \in Job : j = Idle /\ j.pc = "idle" /\ JobOK(j) /\ j.todo = {} /\ \A m \in Slot : j.seen[m] = NoGen
  BY IdleOK DEF Idle, NothingSeen
<1>3. CASE w \in holdsEvent
  <2>1. event' = NoEvent /\ Goto(w, j, {}, holdsSlot)
    BY <1>2, <1>3 DEF FinalEvent
  <2>2. /\ job' = [job EXCEPT ![w] = j] /\ job' \in [Worker -> Job] /\ job'[w] = j
        /\ \A u \in Worker : u # w => job'[u] = job[u]
        /\ holdsEvent' = {}
        /\ holdsSlot' \in [Slot -> SUBSET Worker]
        /\ \A m \in Slot : holdsSlot'[m] \subseteq holdsSlot[m] /\ w \notin holdsSlot'[m]
    BY <1>1, <1>2, <2>1 DEF Goto, TypeOK
  <2>3. TypeOK'
    BY <1>1, <2>1, <2>2 DEF TypeOK
  <2>4. Committed' \subseteq Committed
    BY <1>1, <1>2, <2>2, CommittedShrinks DEF TypeOK
  <2>5. ~ Live' /\ receipt' # NoReceipt /\ ~ invitation'
    BY <1>1, <2>1 DEF Live, JobOK, Finalizing
  <2>6. \A n \in Slot : slot'[n] # NoSlot => slot'[n].gen \notin Committed'
    <3>1. \A n \in Slot : job[w].seen[n] = NoGen
      BY <1>1 DEF JobOK, Read
    <3>2. job[w].todo = {}
      BY <1>1 DEF JobOK, Listing, Job
    <3>3. \A g \in Committed : g # NoGen
      BY SentinelAssumption DEF Inv, TypeOK, Committed, JobOK, Own, At, Identified, Provisional
    <3>4. \A n \in Slot : \A g \in Committed : ~ SlotHas(n, g)
      BY <1>1, <3>1, <3>2, <3>3 DEF JobOK, Finalizing
    <3> QED
      BY <1>1, <2>4, <3>4 DEF SlotHas
  <2>7. Evolves
    BY <1>1, <2>4, <2>5 DEF Evolves, SlotHas
  <2>8. JobOK(j)'
    BY <1>2 DEF JobOK, Numbered, Identified, Cleanup, Provisional, Renewal, Closed, Erasing, Finalizing
  <2>9. \A u \in Worker : HoldsOK(u)'
    BY <1>1, <2>2 DEF Inv, HoldsOK, SlotHas
  <2>10. SlotsOK' /\ issued' \subseteq used'
    BY <1>1 DEF Inv, SlotsOK, SlotHas
  <2>11. \A u \in Worker : u # w /\ job[u].pc \in Provisional => Own(u) \notin issued'
    BY <1>1 DEF Inv, JobOK, Own
  <2>12. receipt # NoReceipt /\ j.pc \notin Provisional
    BY <1>1, <1>2, <2>5 DEF Provisional
  <2> QED
    BY <2>2, <2>3, <2>4, <2>5, <2>6, <2>7, <2>8, <2>9, <2>10, <2>11, <2>12, Assemble
<1>4. CASE w \notin holdsEvent
  BY <1>1, <1>4, IdleOK, Onward DEF FinalEvent, Proceed, Goto, TypeOK, Idle, NothingSeen, Provisional
<1> QED
  BY <1>3, <1>4

(* Every step of cleanEvent.                                               *)
LEMMA CleanEventInv ==
  ASSUME Inv, NEW w \in Worker, CleanEvent(w)
  PROVE  Inv'
BY DeleteReceiptInv, DeleteClaimInv, DeleteListInv, DeleteAckedInv, DeleteUnansweredInv,
   DeleteBackoffInv, DeleteRecordInv, FinalListInv, FinalMarkInv, FinalDropInv, FinalInvitationInv,
   FinalEventInv
DEF CleanEvent
=============================================================================
