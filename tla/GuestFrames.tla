----------------------------- MODULE GuestFrames -----------------------------
(***************************************************************************)
(* What a step has to guarantee for the invariant of GuestInvariant to     *)
(* survive it, stated once for each SHAPE of step: a worker moves on, a    *)
(* slot is rewritten or removed, the event is rewritten, erasures are      *)
(* acknowledged.  The lemmas about the actions cite these.                 *)
(***************************************************************************)
EXTENDS GuestInvariant, TLAPS

(* A worker without work satisfies everything that is asked of a worker.   *)
LEMMA IdleOK == Idle \in Job /\ JobOK(Idle) /\ Idle.pc = "idle"
<1>1. 0 \in 0 .. MaxCapacity
  BY BoundsAssumption
<1>2. Idle \in Job
  BY <1>1 DEF Idle, Job, PC, NothingSeen
<1> QED
  BY <1>2 DEF JobOK, Idle, NothingSeen, Numbered, Identified, Cleanup, Provisional, Renewal,
              Closed, Erasing, Finalizing

-----------------------------------------------------------------------------
(* What every step may do to the state shared with the other workers.      *)
Rechecking == {Own(w) : w \in {v \in Worker : At(v, "start_recheck")}}

Evolves ==
  /\ used \subseteq used' /\ acked \subseteq acked'
  /\ Live' => Live
  /\ receipt # NoReceipt => receipt' # NoReceipt
  /\ invitation' => invitation
  /\ Live \/ Committed' \subseteq Committed
  /\ \A g \in Gen : \A n \in Slot :
       SlotHas(n, g) /\ ~ SlotHas(n, g)' =>
         \/ g \in acked'
         \/ g \notin Committed /\ (~ Live' \/ g \notin Rechecking)
  /\ \A g \in Committed' : \A n \in Slot : SlotHas(n, g)' => SlotHas(n, g)

(* Then a worker that did not move still satisfies JobOK.                  *)
LEMMA BystanderOK ==
  ASSUME Inv, Evolves, NEW u \in Worker, job'[u] = job[u],
         job[u].pc \in Provisional => Own(u) \notin issued'
  PROVE  JobOK(job[u])'
<1> DEFINE j == job[u]
<1>0. JobOK(j) /\ j \in Job
  BY DEF Inv, TypeOK
<1>1. /\ j.pc = "idle" => j = Idle
      /\ j.pc \in Numbered => j.num \in Slot
      /\ j.pc \in Identified => j.seen[j.num] \in Gen
      /\ \A n \in Slot : j.seen[n] \in used' \cup {NoGen}
      /\ j.pc \in {"clean_unindex", "clean_drop"} => j.seen[j.num] \in acked'
      /\ \A n \in j.todo : j.seen[n] = NoGen /\ j.pc \in Listing
      /\ j.pc \in Provisional => j.seen[j.num] \notin issued'
      /\ j.pc \in {"set_put", "set_load"} => j.target \in {"open", "paused"}
  BY <1>0 DEF JobOK, Evolves, Own
<1>2. j.pc \in Closed => ~ Live'
  BY <1>0 DEF JobOK, Evolves
<1>3. j.pc \in Finalizing => receipt' # NoReceipt
  BY <1>0 DEF JobOK, Evolves
<1>4. j.pc = "start_recheck" => ~ Live' \/ Accounted(j.seen[j.num])'
  <2> SUFFICES ASSUME j.pc = "start_recheck", Live'
               PROVE  Accounted(j.seen[j.num])'
    OBVIOUS
  <2> DEFINE g == j.seen[j.num]
  <2>1. g \in Gen /\ g \in Rechecking
    BY <1>0 DEF JobOK, Identified, Provisional, Rechecking, At, Own
  <2>2. Live /\ Accounted(g)
    BY <1>0 DEF JobOK, Evolves
  <2> QED
    BY <2>1, <2>2 DEF Accounted, Evolves
<1>5. j.pc \in Closed => Committed' \subseteq Committed
  BY <1>0 DEF JobOK, Evolves
<1>6. Committed \subseteq Gen
  BY DEF Inv, TypeOK, Committed, JobOK, Own, At, Identified, Provisional
<1>7. j.pc = "delete_list" => \A g \in Committed' :
        \/ g \in acked'
        \/ \E n \in Slot : j.seen[n] = g
        \/ \E n \in j.todo : SlotHas(n, g)'
  <2> SUFFICES ASSUME j.pc = "delete_list", NEW g \in Committed', g \notin acked'
               PROVE  (\E n \in Slot : j.seen[n] = g) \/ (\E n \in j.todo : SlotHas(n, g)')
    OBVIOUS
  <2>1. g \in Committed
    BY <1>5 DEF Closed, Erasing
  <2>2. g \notin acked /\ j.todo \subseteq Slot
    BY <1>0 DEF Evolves, Job
  <2>3. (\E n \in Slot : j.seen[n] = g) \/ (\E n \in j.todo : SlotHas(n, g))
    BY <1>0, <2>1, <2>2 DEF JobOK
  <2> QED
    BY <1>6, <2>1, <2>2, <2>3 DEF Evolves
<1>8. j.pc = "delete_call" => \A g \in Committed' : g \in acked' \/ \E n \in Slot : j.seen[n] = g
  BY <1>0, <1>5 DEF JobOK, Evolves, Closed, Erasing
<1>9. j.pc = "delete_record" => Committed' \subseteq acked'
  BY <1>0, <1>5 DEF JobOK, Evolves, Closed, Erasing
<1>10. j.pc \in Finalizing => \A n \in Slot : \A g \in Committed' :
         SlotHas(n, g)' => (n \in j.todo \/ j.seen[n] = g)
  BY <1>0, <1>5 DEF JobOK, Evolves, Closed
<1>11. j.pc = "final_event" => ~ invitation' /\ Read(j) = {}
  BY <1>0 DEF JobOK, Evolves
<1>12. j' = j
  OBVIOUS
<1> HIDE DEF j
<1>13. JobOK(j)'
  BY <1>12, <1>1, <1>2, <1>3, <1>4, <1>7, <1>8, <1>9, <1>10, <1>11 DEF JobOK
<1> QED
  BY <1>13 DEF j

(* The invariant is preserved if the worker that moved is fine, the holds  *)
(* are, and whatever is newly committed is accounted for.                  *)
LEMMA Assemble ==
  ASSUME Inv, TypeOK', Evolves, NEW w \in Worker, NEW j \in Job,
         job'[w] = j, \A u \in Worker : u # w => job'[u] = job[u],
         JobOK(j)',
         \A u \in Worker : HoldsOK(u)',
         SlotsOK', issued' \subseteq used',
         \A u \in Worker : u # w /\ job[u].pc \in Provisional =>
           Own(u) \notin issued' /\ (j.pc \in Provisional => Own(u) # j.seen[j.num]),
         \A g \in Committed' : g \in Committed \/ (Live' /\ Accounted(g)'),
         receipt' # NoReceipt => ~ Live' /\ (receipt # NoReceipt \/ Committed' \subseteq acked'),
         event' = NoEvent => event = NoEvent \/
           /\ receipt' # NoReceipt /\ ~ invitation'
           /\ \A n \in Slot : slot'[n] # NoSlot => slot'[n].gen \notin Committed'
  PROVE  Inv'
<1>1. \A u \in Worker : JobOK(job[u])'
  <2> TAKE u \in Worker
  <2>1. CASE u = w
    BY <2>1
  <2>2. CASE u # w
    BY <2>2, BystanderOK
  <2> QED
    BY <2>1, <2>2
<1>2. AdmissionsDistinct'
  <2> SUFFICES ASSUME NEW u \in Worker, NEW v \in Worker,
                      job'[u].pc \in Provisional, job'[v].pc \in Provisional, Own(u)' = Own(v)'
               PROVE  u = v
    BY DEF AdmissionsDistinct
  <2>1. CASE u # w /\ v # w
    BY <2>1 DEF Inv, AdmissionsDistinct, Own
  <2>2. CASE u = w \/ v = w
    BY <2>2 DEF Own
  <2> QED
    BY <2>1, <2>2
<1>3. Committed \subseteq Gen
  BY DEF Inv, TypeOK, Committed, JobOK, Own, At, Identified, Provisional
<1>4. \A g \in Committed' : Accounted(g)'
  <2> SUFFICES ASSUME NEW g \in Committed', g \in Committed
               PROVE  Accounted(g)'
    OBVIOUS
  <2>1. Accounted(g)
    BY DEF Inv
  <2> QED
    BY <1>3, <2>1 DEF Accounted, Evolves
<1>5. receipt' # NoReceipt => ~ Live' /\ Committed' \subseteq acked'
  <2> SUFFICES ASSUME receipt # NoReceipt
               PROVE  Committed' \subseteq acked'
    OBVIOUS
  <2> QED
    BY DEF Inv, Evolves
<1>6. event' = NoEvent =>
        /\ receipt' # NoReceipt /\ ~ invitation'
        /\ \A n \in Slot : slot'[n] # NoSlot => slot'[n].gen \notin Committed'
  <2> SUFFICES ASSUME event' = NoEvent, event = NoEvent
               PROVE  /\ receipt' # NoReceipt /\ ~ invitation'
                      /\ \A n \in Slot : slot'[n] # NoSlot => slot'[n].gen \notin Committed'
    OBVIOUS
  <2>1. receipt' # NoReceipt /\ ~ invitation'
    BY DEF Inv, Evolves, TypeOK
  <2>2. ASSUME NEW n \in Slot, slot'[n] # NoSlot, slot'[n].gen \in Committed'
        PROVE  FALSE
    <3>1. slot'[n].gen \in Committed
      BY <2>2 DEF Evolves, Live
    <3>2. SlotHas(n, slot'[n].gen)
      BY <2>2 DEF Evolves, SlotHas
    <3> QED
      BY <3>1, <3>2 DEF Inv, SlotHas
  <2> QED
    BY <2>1, <2>2
<1> QED
  BY <1>1, <1>2, <1>4, <1>5, <1>6 DEF Inv

(* Nobody is newly committed unless its admission passes the second look   *)
(* at the event.                                                           *)
LEMMA CommittedShrinks ==
  ASSUME job \in [Worker -> Job], NEW w \in Worker, NEW j \in Job,
         job' = [job EXCEPT ![w] = j], issued' = issued, j.pc # "start_index"
  PROVE  Committed' \subseteq Committed
  BY DEF Committed, At, Own

(* A step that writes neither the event nor a slot, hands nothing out and  *)
(* erases nothing.                                                         *)
LEMMA Settle ==
  ASSUME Inv, NEW w \in Worker, NEW j \in Job,
         job' = [job EXCEPT ![w] = j],
         UNCHANGED <<event, slot, receipt, used, issued, acked>>,
         session' \in [Gen -> Index \cup {NoIndex}],
         invitation' \in BOOLEAN, invitation' => invitation,
         faults' \in 0 .. MaxFaults,
         holdsEvent' \subseteq holdsEvent \cup {w},
         holdsSlot' \in [Slot -> SUBSET Worker],
         \A n \in Slot : holdsSlot'[n] \subseteq holdsSlot[n] \cup {w},
         JobOK(j)', j.pc # "start_index",
         j.pc \in Provisional => job[w].pc \in Provisional /\ Own(w) = j.seen[j.num],
         \A n \in Slot : w \in holdsSlot'[n] => SlotHas(n, j.seen[n]),
         w \in holdsEvent' => event # NoEvent /\ (j.pc \in {"set_put", "capacity_put"} => Live)
  PROVE  Inv'
<1>1. TypeOK
  BY DEF Inv
<1>2. /\ job' \in [Worker -> Job]
      /\ job'[w] = j
      /\ \A u \in Worker : u # w => job'[u] = job[u]
      /\ holdsEvent' \subseteq Worker
  BY <1>1 DEF TypeOK
<1>3. TypeOK'
  BY <1>1, <1>2 DEF TypeOK
<1>4. Committed' \subseteq Committed
  BY <1>2 DEF Committed, At, Own
<1>5. (Live' <=> Live) /\ \A n \in Slot : \A g : SlotHas(n, g)' <=> SlotHas(n, g)
  BY DEF Live, SlotHas
<1>6. Evolves
  BY <1>4, <1>5 DEF Evolves
<1>7. \A u \in Worker : HoldsOK(u)'
  <2> TAKE u \in Worker
  <2>1. CASE u = w
    BY <1>2, <1>5, <2>1 DEF HoldsOK
  <2>2. CASE u # w
    BY <1>2, <1>5, <2>2 DEF HoldsOK, Inv
  <2> QED
    BY <2>1, <2>2
<1>8. SlotsOK' /\ issued' \subseteq used'
  BY <1>5 DEF Inv, SlotsOK
<1>9. \A u \in Worker : u # w /\ job[u].pc \in Provisional =>
         Own(u) \notin issued' /\ (j.pc \in Provisional => Own(u) # j.seen[j.num])
  BY DEF Inv, JobOK, Own, AdmissionsDistinct
<1>10. receipt' # NoReceipt => ~ Live' /\ receipt # NoReceipt
  BY <1>5 DEF Inv
<1> QED
  BY <1>2, <1>3, <1>4, <1>6, <1>7, <1>8, <1>9, <1>10, Assemble

(* The same where JobOK holds already before the step: a read, a return,   *)
(* a crash.                                                                *)
LEMMA Quiet ==
  ASSUME Inv, NEW w \in Worker, NEW j \in Job,
         job' = [job EXCEPT ![w] = j],
         UNCHANGED <<event, slot, receipt, used, issued, acked>>,
         session' \in [Gen -> Index \cup {NoIndex}], invitation' = invitation,
         faults' \in 0 .. MaxFaults,
         holdsEvent' \subseteq holdsEvent \cup {w},
         holdsSlot' \in [Slot -> SUBSET Worker],
         \A n \in Slot : holdsSlot'[n] \subseteq holdsSlot[n] \cup {w},
         JobOK(j), j.pc # "start_index",
         j.pc \in Provisional => job[w].pc \in Provisional /\ Own(w) = j.seen[j.num],
         \A n \in Slot : w \in holdsSlot'[n] => SlotHas(n, j.seen[n]),
         w \in holdsEvent' => event # NoEvent /\ (j.pc \in {"set_put", "capacity_put"} => Live)
  PROVE  Inv'
<1>1. Committed' \subseteq Committed
  BY CommittedShrinks DEF Inv, TypeOK
<1>2. JobOK(j)'
  BY <1>1 DEF JobOK, Read, Accounted, SlotHas, Live
<1>3. invitation' \in BOOLEAN /\ (invitation' => invitation)
  BY DEF Inv, TypeOK
<1> QED
  BY <1>2, <1>3, Settle

(* A slot is written again under the same generation: a claim, a retry     *)
(* time, a new lease, a reservation.                                       *)
LEMMA Rewrite ==
  ASSUME Inv, NEW w \in Worker, NEW n \in Slot, NEW rec \in SlotRecord, NEW j \in Job,
         UpdateSlot(w, n, rec, j), rec.gen = slot[n].gen,
         UNCHANGED <<event, session, receipt, invitation, used, issued, acked, faults>>,
         JobOK(j), j.pc \notin Provisional \cup {"set_put", "capacity_put"},
         \A m \in Slot : j.seen[m] \in {job[w].seen[m], NoGen}
  PROVE  Inv'
<1>1. TypeOK
  BY DEF Inv
<1>2. /\ job' \in [Worker -> Job]
      /\ job'[w] = j
      /\ \A u \in Worker : u # w => job'[u] = job[u]
      /\ holdsEvent' \subseteq holdsEvent
      /\ holdsSlot' \in [Slot -> SUBSET Worker]
      /\ \A m \in Slot : holdsSlot'[m] \subseteq holdsSlot[m]
      /\ \A m \in Slot : w \in holdsSlot'[m] => j.seen[m] # NoGen
      /\ w \in holdsSlot[n]
      /\ slot' = [slot EXCEPT ![n] = rec]
  BY <1>1 DEF UpdateSlot, SlotWritten, Goto, TypeOK
<1>3. TypeOK'
  BY <1>1, <1>2 DEF TypeOK
<1>4. slot[n] # NoSlot /\ slot'[n] # NoSlot
  BY <1>1, <1>2, SentinelAssumption DEF Inv, HoldsOK, SlotHas, TypeOK
<1>5. \A m \in Slot : \A g \in Gen : SlotHas(m, g)' <=> SlotHas(m, g)
  BY <1>1, <1>2, <1>4 DEF SlotHas, TypeOK
<1>6. Committed' \subseteq Committed
  BY <1>2 DEF Committed, At, Own, Provisional
<1>7. Committed \subseteq Gen
  BY DEF Inv, TypeOK, Committed, JobOK, Own, At, Identified, Provisional
<1>8. Live' <=> Live
  BY DEF Live
<1>9. Evolves
  BY <1>5, <1>6, <1>7, <1>8 DEF Evolves
<1>10. JobOK(j)'
  <2>1. j.pc # "start_recheck"
    BY DEF Provisional
  <2>2. j.todo \subseteq Slot
    BY DEF Job
  <2> QED
    BY <1>5, <1>6, <1>7, <1>8, <2>1, <2>2 DEF JobOK, Read
<1>11. \A u \in Worker : HoldsOK(u)'
  <2> TAKE u \in Worker
  <2>1. \A m \in Slot : u \in holdsSlot'[m] => job'[u].seen[m] = job[u].seen[m]
    BY <1>2
  <2>2. ASSUME NEW m \in Slot, u \in holdsSlot'[m]
        PROVE  slot'[m] # NoSlot /\ slot'[m].gen = job'[u].seen[m]
    <3>1. slot[m] # NoSlot /\ slot[m].gen = job[u].seen[m]
      BY <1>2, <2>2 DEF Inv, HoldsOK, SlotHas
    <3> QED
      BY <3>1, <1>1, <1>2, <1>4, <2>1, <2>2 DEF TypeOK
  <2>3. u \in holdsEvent' => event' # NoEvent
    BY <1>2 DEF Inv, HoldsOK
  <2>4. u \in holdsEvent' /\ job'[u].pc \in {"set_put", "capacity_put"} => Live'
    BY <1>2, <1>8 DEF Inv, HoldsOK
  <2> QED
    BY <2>2, <2>3, <2>4 DEF HoldsOK, SlotHas
<1>12. SlotsOK'
  BY <1>1, <1>2, <1>4 DEF Inv, SlotsOK, SlotHas, TypeOK
<1>13. \A u \in Worker : u # w /\ job[u].pc \in Provisional => Own(u) \notin issued'
  BY DEF Inv, JobOK, Own
<1>14. receipt' # NoReceipt => ~ Live' /\ receipt # NoReceipt
  BY <1>8 DEF Inv
<1>15. issued' \subseteq used'
  BY DEF Inv
<1> QED
  BY <1>2, <1>3, <1>6, <1>9, <1>10, <1>11, <1>12, <1>13, <1>14, <1>15, Assemble

(* A slot is removed at the revision its remover knows: allowed when its   *)
(* identity is erased, or was never committed and no longer will be.       *)
LEMMA Drop ==
  ASSUME Inv, NEW w \in Worker, NEW n \in Slot, NEW j \in Job, DropSlot(w, n, j),
         UNCHANGED <<event, session, receipt, invitation, used, issued, acked, faults>>,
         \/ slot[n].gen \in acked
         \/ slot[n].gen \notin Committed /\ (~ Live \/ slot[n].gen \notin Rechecking),
         JobOK(j)', j.pc \notin Provisional \cup {"set_put", "capacity_put"},
         \A m \in Slot : j.seen[m] \in {job[w].seen[m], NoGen}
  PROVE  Inv'
<1>1. TypeOK
  BY DEF Inv
<1>2. /\ job' \in [Worker -> Job]
      /\ job'[w] = j
      /\ \A u \in Worker : u # w => job'[u] = job[u]
      /\ holdsEvent' \subseteq holdsEvent
      /\ holdsSlot' \in [Slot -> SUBSET Worker]
      /\ \A m \in Slot : holdsSlot'[m] \subseteq holdsSlot[m]
      /\ \A m \in Slot : w \in holdsSlot'[m] => j.seen[m] # NoGen
      /\ holdsSlot'[n] = {}
      /\ slot' = [slot EXCEPT ![n] = NoSlot]
  BY <1>1 DEF DropSlot, SlotGone, Goto, TypeOK
<1>3. TypeOK'
  BY <1>1, <1>2 DEF TypeOK
<1>4. \A m \in Slot : slot'[m] = IF m = n THEN NoSlot ELSE slot[m]
  BY <1>1, <1>2 DEF TypeOK
<1>5. Committed' \subseteq Committed
  BY <1>2 DEF Committed, At, Own, Provisional
<1>6. Live' <=> Live
  BY DEF Live
<1>7. Evolves
  BY <1>4, <1>5, <1>6 DEF Evolves, SlotHas
<1>8. \A u \in Worker : HoldsOK(u)'
  <2> TAKE u \in Worker
  <2>1. ASSUME NEW m \in Slot, u \in holdsSlot'[m]
        PROVE  slot'[m] # NoSlot /\ slot'[m].gen = job'[u].seen[m]
    <3>1. m # n /\ u \in holdsSlot[m]
      BY <1>2, <2>1
    <3>2. slot[m] # NoSlot /\ slot[m].gen = job[u].seen[m]
      BY <3>1 DEF Inv, HoldsOK, SlotHas
    <3> QED
      BY <3>1, <3>2, <1>2, <1>4, <2>1
  <2>2. u \in holdsEvent' => event' # NoEvent
    BY <1>2 DEF Inv, HoldsOK
  <2>3. u \in holdsEvent' /\ job'[u].pc \in {"set_put", "capacity_put"} => Live'
    BY <1>2, <1>6 DEF Inv, HoldsOK
  <2> QED
    BY <2>1, <2>2, <2>3 DEF HoldsOK, SlotHas
<1>9. SlotsOK'
  BY <1>4 DEF Inv, SlotsOK, SlotHas
<1>10. \A u \in Worker : u # w /\ job[u].pc \in Provisional => Own(u) \notin issued'
  BY DEF Inv, JobOK, Own
<1>11. receipt' # NoReceipt => ~ Live' /\ receipt # NoReceipt
  BY <1>6 DEF Inv
<1>12. issued' \subseteq used'
  BY DEF Inv
<1> QED
  BY <1>2, <1>3, <1>5, <1>7, <1>8, <1>9, <1>10, <1>11, <1>12, Assemble

(* The event is written by a worker that holds its revision, never from    *)
(* deleting back to another state.                                         *)
LEMMA EventRewrite ==
  ASSUME Inv, NEW w \in Worker, NEW rec \in Event, NEW j \in Job, UpdateEvent(w, rec, j),
         UNCHANGED <<slot, session, receipt, invitation, used, issued, acked, faults>>,
         rec.state # "deleting" => Live,
         JobOK(j)', j.pc \notin Provisional \cup {"set_put", "capacity_put"},
         \A m \in Slot : j.seen[m] \in {job[w].seen[m], NoGen}
  PROVE  Inv'
<1>1. TypeOK
  BY DEF Inv
<1>2. /\ job' \in [Worker -> Job]
      /\ job'[w] = j
      /\ \A u \in Worker : u # w => job'[u] = job[u]
      /\ holdsEvent' \subseteq {w}
      /\ holdsSlot' \in [Slot -> SUBSET Worker]
      /\ \A m \in Slot : holdsSlot'[m] \subseteq holdsSlot[m]
      /\ \A m \in Slot : w \in holdsSlot'[m] => j.seen[m] # NoGen
      /\ event' = rec
  BY <1>1 DEF UpdateEvent, Goto, TypeOK
<1>3. TypeOK'
  BY <1>1, <1>2 DEF TypeOK
<1>4. event' # NoEvent
  BY <1>2, SentinelAssumption
<1>5. Committed' \subseteq Committed
  BY <1>2 DEF Committed, At, Own, Provisional
<1>6. Live' => Live
  BY <1>2 DEF Live
<1>7. Evolves
  BY <1>5, <1>6 DEF Evolves, SlotHas
<1>8. \A u \in Worker : HoldsOK(u)'
  <2> TAKE u \in Worker
  <2>1. ASSUME NEW m \in Slot, u \in holdsSlot'[m]
        PROVE  slot'[m] # NoSlot /\ slot'[m].gen = job'[u].seen[m]
    <3>1. slot[m] # NoSlot /\ slot[m].gen = job[u].seen[m]
      BY <1>2, <2>1 DEF Inv, HoldsOK, SlotHas
    <3> QED
      BY <3>1, <1>2, <2>1
  <2>2. u \in holdsEvent' /\ job'[u].pc \in {"set_put", "capacity_put"} => Live'
    BY <1>2
  <2> QED
    BY <1>4, <2>1, <2>2 DEF HoldsOK, SlotHas
<1>9. SlotsOK'
  BY DEF Inv, SlotsOK, SlotHas
<1>10. \A u \in Worker : u # w /\ job[u].pc \in Provisional => Own(u) \notin issued'
  BY DEF Inv, JobOK, Own
<1>11. receipt' # NoReceipt => ~ Live' /\ receipt # NoReceipt
  BY <1>6 DEF Inv
<1>12. issued' \subseteq used'
  BY DEF Inv
<1> QED
  BY <1>2, <1>3, <1>4, <1>5, <1>7, <1>8, <1>9, <1>10, <1>11, <1>12, Assemble

(* Quiet, for a worker that only goes on: it learns nothing new about the  *)
(* event or the slots.                                                     *)
LEMMA Onward ==
  ASSUME Inv, NEW w \in Worker, NEW j \in Job, Proceed(w, j),
         UNCHANGED <<event, slot, receipt, used, issued, acked>>,
         session' \in [Gen -> Index \cup {NoIndex}], invitation' = invitation,
         faults' \in 0 .. MaxFaults,
         JobOK(j), j.pc \notin {"start_index", "set_put", "capacity_put"},
         j.pc \in Provisional => job[w].pc \in Provisional /\ Own(w) = j.seen[j.num],
         \A m \in Slot : j.seen[m] \in {job[w].seen[m], NoGen}
  PROVE  Inv'
<1>1. TypeOK
  BY DEF Inv
<1>2. /\ job' = [job EXCEPT ![w] = j]
      /\ holdsEvent' \subseteq holdsEvent
      /\ holdsSlot' \in [Slot -> SUBSET Worker]
      /\ \A m \in Slot : holdsSlot'[m] \subseteq holdsSlot[m]
      /\ \A m \in Slot : w \in holdsSlot'[m] => j.seen[m] # NoGen
  BY <1>1 DEF Proceed, Goto, TypeOK
<1>3. HoldsOK(w)
  BY DEF Inv
<1>4. \A m \in Slot : w \in holdsSlot'[m] => SlotHas(m, j.seen[m])
  BY <1>2, <1>3 DEF HoldsOK
<1>5. w \in holdsEvent' => event # NoEvent
  BY <1>2, <1>3 DEF HoldsOK
<1> QED
  BY <1>2, <1>4, <1>5, Quiet

(* Erasures are acknowledged.                                              *)
LEMMA Erase ==
  ASSUME Inv, NEW w \in Worker, NEW j \in Job, NEW erased \in SUBSET Gen, Proceed(w, j),
         acked' = acked \cup erased,
         UNCHANGED <<event, slot, session, receipt, invitation, used, issued, faults>>,
         JobOK(j)', j.pc \notin Provisional \cup {"set_put", "capacity_put"},
         \A m \in Slot : j.seen[m] \in {job[w].seen[m], NoGen}
  PROVE  Inv'
<1>1. TypeOK
  BY DEF Inv
<1>2. /\ job' \in [Worker -> Job]
      /\ job'[w] = j
      /\ \A u \in Worker : u # w => job'[u] = job[u]
      /\ holdsEvent' \subseteq holdsEvent
      /\ holdsSlot' \in [Slot -> SUBSET Worker]
      /\ \A m \in Slot : holdsSlot'[m] \subseteq holdsSlot[m]
      /\ \A m \in Slot : w \in holdsSlot'[m] => j.seen[m] # NoGen
  BY <1>1 DEF Proceed, Goto, TypeOK
<1>3. TypeOK'
  BY <1>1, <1>2 DEF TypeOK
<1>4. Committed' \subseteq Committed
  BY <1>2 DEF Committed, At, Own, Provisional
<1>5. Live' <=> Live
  BY DEF Live
<1>6. Evolves
  BY <1>4, <1>5 DEF Evolves, SlotHas
<1>7. \A u \in Worker : HoldsOK(u)'
  <2> TAKE u \in Worker
  <2>1. ASSUME NEW m \in Slot, u \in holdsSlot'[m]
        PROVE  slot'[m] # NoSlot /\ slot'[m].gen = job'[u].seen[m]
    <3>1. slot[m] # NoSlot /\ slot[m].gen = job[u].seen[m]
      BY <1>2, <2>1 DEF Inv, HoldsOK, SlotHas
    <3> QED
      BY <3>1, <1>2, <2>1
  <2>2. u \in holdsEvent' => event' # NoEvent
    BY <1>2 DEF Inv, HoldsOK
  <2>3. u \in holdsEvent' /\ job'[u].pc \in {"set_put", "capacity_put"} => Live'
    BY <1>2, <1>5 DEF Inv, HoldsOK
  <2> QED
    BY <2>1, <2>2, <2>3 DEF HoldsOK, SlotHas
<1>8. SlotsOK'
  BY DEF Inv, SlotsOK, SlotHas
<1>9. \A u \in Worker : u # w /\ job[u].pc \in Provisional => Own(u) \notin issued'
  BY DEF Inv, JobOK, Own
<1>10. receipt' # NoReceipt => ~ Live' /\ receipt # NoReceipt
  BY <1>5 DEF Inv
<1>11. issued' \subseteq used'
  BY DEF Inv
<1> QED
  BY <1>2, <1>3, <1>4, <1>6, <1>7, <1>8, <1>9, <1>10, <1>11, Assemble

(* Where a worker is asked for next to nothing.                            *)
Parked == {"idle", "start_create", "start_inspect", "start_recreate", "release_slot",
           "clean_claim", "clean_call", "clean_backoff", "capacity_load",
           "reserve_list", "reserve_put", "scan_list", "scan_pick"}

Simple(w, j) ==
  /\ j.pc \in Parked /\ (j.pc = "idle" => j = Idle)
  /\ j.pc \in Numbered => j.num \in Slot
  /\ j.pc \in Identified => j.seen[j.num] \in Gen
  /\ \A m \in Slot : j.seen[m] \in {job[w].seen[m], NoGen}
  /\ \A m \in j.todo : j.seen[m] = NoGen /\ j.pc \in Listing

(* A worker may stand at a parked point in every state in which it may     *)
(* stand at all: nothing is asked of it there but that its job is well     *)
(* formed.                                                                 *)
LEMMA SimpleOK ==
  ASSUME Inv, NEW w \in Worker, NEW j \in Job, Simple(w, j)
  PROVE  /\ JobOK(j)
         /\ used \subseteq used' => JobOK(j)'
<1>1. \A m \in Slot : j.seen[m] \in used \cup {NoGen}
  BY DEF Simple, Inv, JobOK
<1>2. j.pc \notin Provisional \cup Closed \cup {"clean_unindex", "clean_drop", "set_put", "set_load"}
  BY DEF Simple, Parked, Provisional, Closed, Erasing, Finalizing
<1>3. /\ j.pc = "idle" => j = Idle
      /\ j.pc \in Numbered => j.num \in Slot
      /\ j.pc \in Identified => j.seen[j.num] \in Gen
      /\ \A m \in j.todo : j.seen[m] = NoGen /\ j.pc \in Listing
  BY DEF Simple
<1> QED
  BY <1>1, <1>2, <1>3 DEF JobOK, Provisional, Closed, Erasing, Finalizing

(* The next number of the walk, or the end of it.                          *)
LEMMA NextNumberOK ==
  ASSUME Inv, NEW w \in Worker, job[w].pc \in Numbered
  PROVE  /\ NextNumber(job[w]) \in Job
         /\ Simple(w, NextNumber(job[w]))
         /\ NextNumber(job[w]).pc \notin Identified
<1> DEFINE j == job[w]
<1>1. j \in Job /\ j.num \in Slot
  BY DEF Inv, TypeOK, JobOK
<1>2. CASE j.num < j.cap
  <2>1. j.num + 1 \in Slot /\ j.num + 1 \in 0 .. MaxCapacity
    BY <1>1, <1>2, BoundsAssumption DEF Slot, Job
  <2>2. NothingSeen \in [Slot -> Gen \cup {NoGen}]
    BY DEF NothingSeen
  <2>3. NextNumber(j) = [pc |-> "start_create", num |-> j.num + 1, cap |-> j.cap,
                         target |-> j.target, seen |-> NothingSeen, todo |-> j.todo]
    BY <1>1, <1>2 DEF NextNumber, Job
  <2>4. NextNumber(j) \in Job
    BY <1>1, <2>1, <2>2, <2>3 DEF Job, PC
  <2>5. j.todo = {}
    BY <1>1 DEF Job, Inv, JobOK, Listing, Numbered, Identified, Cleanup, Provisional, Renewal
  <2> QED
    BY <2>1, <2>3, <2>4, <2>5 DEF Simple, Parked, NothingSeen, Identified, Cleanup, Provisional, Renewal
<1>3. CASE ~ (j.num < j.cap)
  BY <1>3, IdleOK DEF NextNumber, Simple, Parked, Idle, NothingSeen, Numbered, Identified, Cleanup,
                      Provisional, Renewal
<1> QED
  BY <1>2, <1>3

-----------------------------------------------------------------------------
(* cleanSlot, for a caller that goes on at a point that asks for little.   *)
LEMMA CleanSlotInv ==
  ASSUME Inv, NEW w \in Worker, NEW done \in Job, NEW failed \in Job,
         Simple(w, done), Simple(w, failed), CleanSlot(w, done, failed)
  PROVE  Inv'
<1> DEFINE n == job[w].num
<1>1. /\ JobOK(done) /\ (used' = used => JobOK(done)')
      /\ JobOK(failed) /\ (used' = used => JobOK(failed)')
      /\ done.pc \notin Provisional \cup {"start_index", "set_put", "capacity_put"}
      /\ failed.pc \notin Provisional \cup {"start_index", "set_put", "capacity_put"}
      /\ \A m \in Slot : done.seen[m] \in {job[w].seen[m], NoGen}
      /\ \A m \in Slot : failed.seen[m] \in {job[w].seen[m], NoGen}
  BY SimpleOK DEF Simple, Parked, Provisional
<1>2. TypeOK /\ JobOK(job[w]) /\ HoldsOK(w) /\ job[w] \in Job
  BY DEF Inv, TypeOK
<1>3. CASE CleanClaim(w, failed)
  <2>1. PICK j \in Job : j = [job[w] EXCEPT !.pc = "clean_call"]
    BY <1>2 DEF Job, PC
  <2>2. n \in Slot /\ Simple(w, j) /\ j.pc = "clean_call"
    BY <1>2, <1>3, <2>1 DEF CleanClaim, At, JobOK, Job, Simple, Parked, Listing,
             Numbered, Identified, Cleanup
  <2>3. JobOK(j) /\ j.pc \notin Provisional \cup {"set_put", "capacity_put"}
    BY <2>2, SimpleOK DEF Provisional
  <2>4. CASE w \in holdsSlot[n]
    <3>1. PICK rec \in SlotRecord : rec = [slot[n] EXCEPT !.cleanup = "held"]
      BY <1>2, <2>2, <2>4 DEF TypeOK, SlotRecord, HoldsOK, SlotHas, Claim
    <3>2. UpdateSlot(w, n, rec, j) /\ rec.gen = slot[n].gen
      BY <1>2, <1>3, <2>1, <2>2, <2>4, <3>1 DEF CleanClaim, Refused, HoldsOK, SlotHas, TypeOK, SlotRecord
    <3>3. UNCHANGED <<event, session, receipt, invitation, used, issued, acked, faults>>
      BY <1>3 DEF CleanClaim
    <3>4. \A m \in Slot : j.seen[m] \in {job[w].seen[m], NoGen}
      BY <2>2 DEF Simple
    <3> QED
      BY <2>2, <2>3, <3>2, <3>3, <3>4, Rewrite DEF UpdateSlot, SlotWritten, Goto
  <2>5. CASE w \notin holdsSlot[n]
    BY <1>1, <1>2, <1>3, <2>5, Onward DEF CleanClaim, UpdateSlot, Refused, Proceed, Goto, TypeOK
  <2> QED
    BY <2>4, <2>5
<1>4. CASE CleanAcked(w)
  <2>1. PICK j \in Job : j = [job[w] EXCEPT !.pc = "clean_unindex"]
    BY <1>2 DEF Job, PC
  <2>2. n \in Slot /\ job[w].seen[n] \in Gen /\ job[w].todo = {}
    BY <1>2, <1>4 DEF CleanAcked, At, JobOK, Numbered, Identified, Cleanup, Listing, Job
  <2>3. /\ acked' = acked \cup {j.seen[j.num]}
        /\ Proceed(w, j)
        /\ UNCHANGED <<event, slot, session, receipt, invitation, used, issued, faults>>
    BY <1>2, <1>4, <2>1 DEF CleanAcked, Own, store, Job
  <2>4. \A m \in Slot : j.seen[m] = job[w].seen[m] /\ j.seen[m] \in used' \cup {NoGen}
    BY <1>2, <2>1, <2>3 DEF JobOK, Job
  <2>5. j.num = n /\ j.seen[n] \in Gen /\ j.todo = job[w].todo /\ j.pc = "clean_unindex"
    BY <1>2, <2>1, <2>2 DEF Job
  <2>6. JobOK(j)'
    <3>1. j.pc \notin Provisional \cup Closed
      BY <2>5 DEF Provisional, Closed, Erasing, Finalizing
    <3> QED
      BY <1>2, <2>2, <2>3, <2>4, <2>5, <3>1 DEF JobOK, Provisional, Closed, Erasing, Finalizing, Job
  <2>7. j.pc \notin Provisional \cup {"set_put", "capacity_put"}
    BY <2>5 DEF Provisional
  <2>8. {j.seen[j.num]} \in SUBSET Gen
    BY <2>5
  <2> QED
    BY <2>3, <2>4, <2>6, <2>7, <2>8, Erase DEF Proceed, Goto
<1>5. CASE CleanUnanswered(w)
  <2>1. PICK j \in Job : j = [job[w] EXCEPT !.pc = "clean_backoff"]
    BY <1>2 DEF Job, PC
  <2>2. Simple(w, j) /\ j.pc = "clean_backoff"
    BY <1>2, <1>5, <2>1 DEF CleanUnanswered, At, JobOK, Job, Simple, Parked, Listing,
             Numbered, Identified, Cleanup
  <2>3. JobOK(j) /\ j.pc \notin Provisional
    BY <2>2, SimpleOK DEF Provisional
  <2> QED
    BY <1>2, <1>5, <2>1, <2>2, <2>3, Onward DEF CleanUnanswered, store, Proceed, Goto, TypeOK, Simple
<1>6. CASE CleanBackoff(w, failed)
  <2>1. n \in Slot
    BY <1>2, <1>6 DEF CleanBackoff, At, JobOK, Numbered, Identified, Cleanup
  <2>2. CASE w \in holdsSlot[n]
    <3>1. PICK rec \in SlotRecord : rec = [slot[n] EXCEPT !.cleanup = "held"]
      BY <1>2, <2>1, <2>2 DEF TypeOK, SlotRecord, HoldsOK, SlotHas, Claim
    <3>2. UpdateSlot(w, n, rec, failed) /\ rec.gen = slot[n].gen
      BY <1>2, <1>6, <2>1, <2>2, <3>1 DEF CleanBackoff, Refused, HoldsOK, SlotHas, TypeOK, SlotRecord
    <3>3. UNCHANGED <<event, session, receipt, invitation, used, issued, acked, faults>>
      BY <1>6 DEF CleanBackoff
    <3> QED
      BY <1>1, <2>1, <3>2, <3>3, Rewrite DEF UpdateSlot, SlotWritten, Goto
  <2>3. CASE w \notin holdsSlot[n]
    BY <1>1, <1>2, <1>6, <2>3, Onward DEF CleanBackoff, UpdateSlot, Refused, Proceed, Goto, TypeOK
  <2> QED
    BY <2>2, <2>3
<1>7. CASE CleanUnindex(w)
  <2>1. PICK j \in Job : j = [job[w] EXCEPT !.pc = "clean_drop"]
    BY <1>2 DEF Job, PC
  <2>2. job[w].pc = "clean_unindex" /\ j.pc = "clean_drop" /\ j.num = n /\ j.seen = job[w].seen
        /\ j.todo = job[w].todo
    BY <1>2, <1>7, <2>1 DEF CleanUnindex, At, Job
  <2>3. JobOK(j) /\ j.pc \notin Provisional
    <3>1. j.pc \notin Provisional \cup Closed
      BY <2>2 DEF Provisional, Closed, Erasing, Finalizing
    <3> QED
      BY <1>2, <2>2, <3>1 DEF JobOK, Numbered, Identified, Cleanup, Provisional, Listing, Closed,
                              Erasing, Finalizing
  <2>4. session' \in [Gen -> Index \cup {NoIndex}]
    BY <1>2, <1>7 DEF CleanUnindex, TypeOK
  <2> QED
    BY <1>2, <1>7, <2>1, <2>2, <2>3, <2>4, Onward DEF CleanUnindex, Proceed, Goto, TypeOK
<1>8. CASE CleanDrop(w, done, failed)
  <2>1. n \in Slot /\ job[w].seen[n] \in acked
    BY <1>2, <1>8 DEF CleanDrop, At, JobOK, Numbered, Identified, Cleanup
  <2>2. CASE DropSlot(w, n, done)
    <3>1. slot[n].gen \in acked
      BY <1>2, <2>1, <2>2 DEF DropSlot, HoldsOK, SlotHas
    <3>2. UNCHANGED <<event, session, receipt, invitation, used, issued, acked, faults>>
      BY <1>8 DEF CleanDrop
    <3>3. JobOK(done)'
      BY <1>1, <3>2
    <3>4. PICK j \in Job : j = done
      OBVIOUS
    <3>5. PICK m \in Slot : m = n
      BY <2>1
    <3>6. JobOK(j)' /\ DropSlot(w, m, j) /\ slot[m].gen \in acked
      BY <2>2, <3>1, <3>3, <3>4, <3>5
    <3>7. j.pc \notin Provisional \cup {"set_put", "capacity_put"}
          /\ \A k \in Slot : j.seen[k] \in {job[w].seen[k], NoGen}
      BY <1>1, <3>4
    <3> QED
      BY <3>2, <3>6, <3>7, Drop DEF DropSlot, SlotGone, Goto
  <2>3. CASE ~ DropSlot(w, n, done)
    BY <1>1, <1>2, <1>8, <2>3, Onward DEF CleanDrop, Refused, Proceed, Goto, TypeOK
  <2> QED
    BY <2>2, <2>3
<1>9. CASE CleanFails(w, failed)
  <2>1. faults' \in 0 .. MaxFaults
    BY <1>2, <1>9, BoundsAssumption DEF CleanFails, Fault, TypeOK
  <2> QED
    BY <1>1, <1>2, <1>9, <2>1, Onward DEF CleanFails, store, TypeOK
<1> QED
  BY <1>3, <1>4, <1>5, <1>6, <1>7, <1>8, <1>9 DEF CleanSlot

-----------------------------------------------------------------------------
(* One key of a List is read.  Whether the record is kept or not, the      *)
(* invariant survives if the worker may be where it gets to.               *)
ListsTo(w, n, pc, j) ==
  /\ j.num = job[w].num /\ j.cap = job[w].cap /\ j.target = job[w].target
  /\ j.todo = job[w].todo \ {n}
  /\ j.pc = IF j.todo = {} THEN pc ELSE job[w].pc
  /\ \A m \in Slot : m # n => j.seen[m] = job[w].seen[m]
  /\ \A m \in Slot : j.seen[m] \in used \cup {NoGen}
  /\ \A m \in j.todo : j.seen[m] = NoGen

AfterList == {"scan_pick", "reserve_put", "delete_call", "final_mark"}

(* Reading one key of a List preserves the invariant, provided the worker  *)
(* may stand where the reading takes it.                                   *)
LEMMA ListStep ==
  ASSUME Inv, NEW w \in Worker, NEW n \in job[w].todo, NEW pc \in AfterList, NEW j \in Job,
         ListsTo(w, n, pc, j), j.seen[n] = NoGen \/ SlotHas(n, j.seen[n]),
         job' = [job EXCEPT ![w] = j], holdsEvent' \subseteq holdsEvent,
         holdsSlot' \in [Slot -> SUBSET Worker],
         \A m \in Slot : holdsSlot'[m] \subseteq holdsSlot[m] \cup {w},
         \A m \in Slot : w \in holdsSlot'[m] => j.seen[m] # NoGen /\ (m # n => w \in holdsSlot[m]),
         UNCHANGED <<event, slot, session, receipt, invitation, used, issued, acked, faults>>,
         JobOK(j)
  PROVE  Inv'
<1>1. TypeOK /\ JobOK(job[w]) /\ HoldsOK(w) /\ job[w] \in Job /\ job[w].pc \in Listing
  BY DEF Inv, TypeOK, JobOK
<1>2. \A m \in Slot : w \in holdsSlot'[m] => SlotHas(m, j.seen[m])
  BY <1>1 DEF HoldsOK, SlotHas, ListsTo
<1>3. w \in holdsEvent' => event # NoEvent
  BY <1>1 DEF HoldsOK
<1>4. j.pc \notin Provisional \cup {"start_index", "set_put", "capacity_put"}
  BY <1>1 DEF Provisional, Listing, ListsTo, AfterList
<1> QED
  BY <1>1, <1>2, <1>3, <1>4, Quiet DEF TypeOK

(* The record is not one the caller wants, or there is none.               *)
LEMMA ListSkipped ==
  ASSUME Inv, NEW w \in Worker, NEW n \in job[w].todo, NEW pc \in AfterList,
         ListOne(w, n, FALSE, pc), UNCHANGED <<store, used, issued, acked, faults>>
  PROVE  \E j \in Job : ListsTo(w, n, pc, j) /\ j.seen[n] = NoGen /\ (JobOK(j) => Inv')
<1>1. TypeOK /\ JobOK(job[w]) /\ job[w] \in Job /\ n \in Slot
  BY DEF Inv, TypeOK, Job
<1>2. PICK j \in Job : j = [job[w] EXCEPT !.todo = @ \ {n}, !.seen[n] = NoGen,
                                          !.pc = IF job[w].todo \ {n} = {} THEN pc ELSE @]
  BY <1>1 DEF Job, PC, AfterList
<1>3. ListsTo(w, n, pc, j) /\ j.seen[n] = NoGen
  <2>1. /\ j.num = job[w].num /\ j.cap = job[w].cap /\ j.target = job[w].target
        /\ j.todo = job[w].todo \ {n}
        /\ j.pc = IF j.todo = {} THEN pc ELSE job[w].pc
        /\ j.seen[n] = NoGen
        /\ \A m \in Slot : m # n => j.seen[m] = job[w].seen[m]
    BY <1>1, <1>2 DEF Job
  <2> QED
    BY <1>1, <2>1 DEF ListsTo, JobOK, Job
<1>4. Goto(w, j, holdsEvent, holdsSlot)
  BY <1>1, <1>2 DEF ListOne, Job
<1>5. /\ job' = [job EXCEPT ![w] = j] /\ holdsEvent' \subseteq holdsEvent
      /\ holdsSlot' \in [Slot -> SUBSET Worker]
      /\ \A m \in Slot : holdsSlot'[m] \subseteq holdsSlot[m] \cup {w}
      /\ \A m \in Slot : w \in holdsSlot'[m] => j.seen[m] # NoGen /\ (m # n => w \in holdsSlot[m])
  BY <1>1, <1>4 DEF Goto, TypeOK
<1>6. UNCHANGED <<event, slot, session, receipt, invitation, used, issued, acked, faults>>
  BY DEF store
<1>7. JobOK(j) => Inv'
  BY <1>3, <1>5, <1>6, ListStep
<1> QED
  BY <1>3, <1>7

(* The record is kept: its identity, and its revision.                     *)
LEMMA ListKept ==
  ASSUME Inv, NEW w \in Worker, NEW n \in job[w].todo, NEW pc \in AfterList, slot[n] # NoSlot,
         ListOne(w, n, TRUE, pc), UNCHANGED <<store, used, issued, acked, faults>>
  PROVE  \E j \in Job : ListsTo(w, n, pc, j) /\ j.seen[n] = slot[n].gen /\ (JobOK(j) => Inv')
<1>1. TypeOK /\ JobOK(job[w]) /\ job[w] \in Job /\ n \in Slot
  BY DEF Inv, TypeOK, Job
<1>2. PICK g \in used : g = slot[n].gen
  BY <1>1 DEF Inv, SlotsOK
<1>3. PICK j \in Job : j = [job[w] EXCEPT !.todo = @ \ {n}, !.seen[n] = g,
                                          !.pc = IF job[w].todo \ {n} = {} THEN pc ELSE @]
  BY <1>1 DEF Job, PC, AfterList, TypeOK
<1>4. ListsTo(w, n, pc, j) /\ j.seen[n] = g
  <2>1. /\ j.num = job[w].num /\ j.cap = job[w].cap /\ j.target = job[w].target
        /\ j.todo = job[w].todo \ {n}
        /\ j.pc = IF j.todo = {} THEN pc ELSE job[w].pc
        /\ j.seen[n] = g
        /\ \A m \in Slot : m # n => j.seen[m] = job[w].seen[m]
    BY <1>1, <1>2, <1>3 DEF Job, TypeOK
  <2> QED
    BY <1>1, <2>1 DEF ListsTo, JobOK, Job
<1>5. Goto(w, j, holdsEvent, SlotRead(w, n))
  BY <1>1, <1>2, <1>3 DEF ListOne, Job
<1>6. /\ job' = [job EXCEPT ![w] = j] /\ holdsEvent' \subseteq holdsEvent
      /\ holdsSlot' \in [Slot -> SUBSET Worker]
      /\ \A m \in Slot : holdsSlot'[m] \subseteq holdsSlot[m] \cup {w}
      /\ \A m \in Slot : w \in holdsSlot'[m] => j.seen[m] # NoGen /\ (m # n => w \in holdsSlot[m])
  BY <1>1, <1>5 DEF Goto, SlotRead, TypeOK
<1>7. UNCHANGED <<event, slot, session, receipt, invitation, used, issued, acked, faults>>
  BY DEF store
<1>8. SlotHas(n, j.seen[n])
  BY <1>2, <1>4 DEF SlotHas
<1>9. JobOK(j) => Inv'
  BY <1>4, <1>6, <1>7, <1>8, ListStep
<1> QED
  BY <1>2, <1>4, <1>9
=============================================================================
