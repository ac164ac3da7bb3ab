----------------------------- MODULE PlaceProofs -----------------------------
(***************************************************************************)
(* Why a guest keeps its place until it is claimed, and what a claim then  *)
(* forbids: every step of the service preserves ClaimInv.  Inv is known by *)
(* then, so each lemma has it as a hypothesis.                             *)
(***************************************************************************)
EXTENDS GuestAccessProofs

(* The points of which ClaimsOK says something.                            *)
Watched == Provisional \cup {"renew_put"} \cup Scanning

(* What a step in which only the workers of W move does to the slots: a    *)
(* generation that appears is new, a claim is not taken out of a record,   *)
(* and whoever still knows the current revision of a record may go on      *)
(* believing what it read there.                                           *)
Orderly(W) ==
  \A n \in Slot :
    /\ slot'[n] # NoSlot =>
         slot'[n].gen \notin used \/ (slot[n] # NoSlot /\ slot'[n].gen = slot[n].gen)
    /\ slot[n] # NoSlot /\ Unclaimed(n)' => Unclaimed(n)
    /\ \A u \in Worker \ W : u \in holdsSlot'[n] =>
         /\ u \in holdsSlot[n]
         /\ Unclaimed(n) => Unclaimed(n)'
         /\ Reclaimable(n) => Reclaimable(n)'

(* What a step does to the promises: nobody who holds an unclaimed place   *)
(* is erased, or loses the index that leads to it.                         *)
Recorded ==
  /\ acked' \subseteq used /\ issued' \subseteq used /\ used \subseteq used'
  /\ Live =>
       /\ \A g \in acked' \ acked : \A n \in Slot : SlotHas(n, g) => ~ Unclaimed(n)
       /\ \A g \in issued : session'[g] = session[g] \/ \A n \in Slot : SlotHas(n, g) => ~ Unclaimed(n)
       /\ \A g \in issued' \ issued : \A n \in Slot :
            SlotHas(n, g) => session'[g] = [slot |-> n, deleted |-> FALSE]

(* The identity of a worker at these points is one that was written.       *)
LEMMA OwnUsed ==
  ASSUME Inv, NEW w \in Worker, job[w].pc \in Identified
  PROVE  job[w].num \in Slot /\ Own(w) \in used /\ Own(w) \in Gen
BY SentinelAssumption DEF Inv, JobOK, Own, Numbered

(* A worker that did not move may go on believing what it did.             *)
LEMMA BystanderClaims ==
  ASSUME Inv, ClaimInv, NEW W, Orderly(W), NEW u \in Worker \ W, job'[u] = job[u]
  PROVE  ClaimsOK(u)'
<1>1. ClaimsOK(u) /\ Own(u)' = Own(u)
  BY DEF ClaimInv, Own
<1>2. ASSUME job[u].pc \in Asked, NEW n \in Slot, SlotHas(n, Own(u))'
      PROVE  ~ Unclaimed(n)'
  <2>1. SlotHas(n, Own(u))
    BY <1>1, <1>2, OwnUsed DEF Orderly, SlotHas, Asked, Identified, Cleanup
  <2> QED
    BY <1>1, <1>2, <2>1 DEF ClaimsOK, Orderly, SlotHas
<1>3. ASSUME job[u].pc \in Provisional, NEW n \in Slot, SlotHas(n, Own(u))'
      PROVE  n = job[u].num
  <2>1. SlotHas(n, Own(u))
    BY <1>1, <1>3, OwnUsed DEF Orderly, SlotHas, Identified
  <2> QED
    BY <1>1, <1>3, <2>1 DEF ClaimsOK
<1>4. job[u].pc \in {"renew_put", "clean_claim"} => job[u].num \in Slot
  BY OwnUsed DEF Identified, Renewal, Cleanup
<1> QED
  BY <1>1, <1>2, <1>3, <1>4 DEF ClaimsOK, Orderly

(* An unclaimed place of a live event keeps its guest.                     *)
LEMMA PlacesStayKept ==
  ASSUME Inv, ClaimInv, NEW W, Orderly(W), Recorded, Live, NEW n \in Slot, Unclaimed(n)'
  PROVE  PlaceKept(n)'
<1>1. CASE slot'[n].gen \notin used
  BY <1>1 DEF Recorded, PlaceKept
<1>2. CASE slot[n] # NoSlot /\ slot'[n].gen = slot[n].gen
  <2> DEFINE g == slot[n].gen
  <2>1. Unclaimed(n) /\ SlotHas(n, g)
    BY <1>2 DEF Orderly, SlotHas
  <2>2. PlaceKept(n)
    BY <2>1 DEF ClaimInv
  <2>3. g \notin acked'
    BY <2>1, <2>2 DEF Recorded, PlaceKept
  <2>4. ASSUME g \in issued'
        PROVE  session'[g] = [slot |-> n, deleted |-> FALSE]
    BY <2>1, <2>2, <2>4 DEF Recorded, PlaceKept
  <2> QED
    BY <1>2, <2>3, <2>4 DEF PlaceKept
<1> QED
  BY <1>1, <1>2 DEF Orderly, Unclaimed

(* ClaimInv survives a step of w that is orderly, keeps the promises and   *)
(* leaves w where it may be.                                               *)
LEMMA ClaimStep ==
  ASSUME Inv, ClaimInv, Live' => Live, NEW w \in Worker,
         \A u \in Worker \ {w} : job'[u] = job[u],
         Orderly({w}), Recorded, ClaimsOK(w)'
  PROVE  ClaimInv'
<1>1. \A u \in Worker : ClaimsOK(u)'
  BY BystanderClaims
<1>2. Live' => \A n \in Slot : Unclaimed(n)' => PlaceKept(n)'
  BY PlacesStayKept
<1>3. acked' \subseteq used'
  BY DEF Recorded
<1> QED
  BY <1>1, <1>2, <1>3 DEF ClaimInv

-----------------------------------------------------------------------------
(* The shapes of a step.                                                   *)

(* Where w is afterwards, and who remembers what.                          *)
LEMMA Moved ==
  ASSUME TypeOK, NEW w \in Worker, NEW j, NEW he, NEW hs, Goto(w, j, he, hs)
  PROVE  /\ job' = [job EXCEPT ![w] = j] /\ job'[w] = j
         /\ \A u \in Worker \ {w} : job'[u] = job[u]
         /\ \A n \in Slot : holdsSlot'[n] \subseteq hs[n] /\ (j.seen[n] = NoGen => w \notin holdsSlot'[n])
BY DEF Goto, TypeOK

(* Nobody but w is promised anything, and no identity is erased.           *)
LEMMA NothingRecorded ==
  ASSUME Inv, ClaimInv, UNCHANGED <<session, issued, acked>>, used \subseteq used'
  PROVE  Recorded
BY DEF Recorded, Inv, ClaimInv

(* At a point of which ClaimsOK says nothing.                              *)
LEMMA Unwatched ==
  ASSUME NEW w \in Worker, job'[w].pc \notin Watched
  PROVE  ClaimsOK(w)'
BY DEF ClaimsOK, Watched, Scanning, Asked, Cleanup

(* A step that writes no slot.                                             *)
LEMMA OrderlyRead ==
  ASSUME NEW w \in Worker, UNCHANGED slot, \A n \in Slot : holdsSlot'[n] \subseteq holdsSlot[n] \cup {w}
  PROVE  Orderly({w})
BY DEF Orderly, Unclaimed, Reclaimable

(* A slot that is written over keeps its generation, and its claim.        *)
LEMMA OrderlyUpdate ==
  ASSUME TypeOK, NEW w \in Worker, NEW n \in Slot, NEW rec, NEW j, UpdateSlot(w, n, rec, j),
         slot[n] # NoSlot, rec # NoSlot, rec.gen = slot[n].gen, rec.cleanup = "none" => Unclaimed(n)
  PROVE  Orderly({w})
<1>1. slot' = [slot EXCEPT ![n] = rec] /\ \A m \in Slot : holdsSlot'[m] \subseteq SlotWritten(w, n)[m]
  BY Moved DEF UpdateSlot
<1>2. \A m \in Slot : m # n => slot'[m] = slot[m] /\ holdsSlot'[m] \subseteq holdsSlot[m]
  BY <1>1 DEF TypeOK, SlotWritten
<1>3. slot'[n] = rec /\ holdsSlot'[n] \subseteq {w}
  BY <1>1 DEF TypeOK, SlotWritten
<1> QED
  BY <1>2, <1>3 DEF Orderly, Unclaimed, Reclaimable

(* A slot that is removed is remembered by nobody.                         *)
LEMMA OrderlyDrop ==
  ASSUME TypeOK, NEW w \in Worker, NEW n \in Slot, NEW j, DropSlot(w, n, j)
  PROVE  Orderly({w})
<1>1. slot' = [slot EXCEPT ![n] = NoSlot] /\ \A m \in Slot : holdsSlot'[m] \subseteq SlotGone(n)[m]
  BY Moved DEF DropSlot
<1>2. \A m \in Slot : m # n => slot'[m] = slot[m] /\ holdsSlot'[m] \subseteq holdsSlot[m]
  BY <1>1 DEF TypeOK, SlotGone
<1>3. slot'[n] = NoSlot /\ holdsSlot'[n] = {}
  BY <1>1 DEF TypeOK, SlotGone
<1> QED
  BY <1>2, <1>3 DEF Orderly, Unclaimed, Reclaimable

(* A step of w that writes neither a slot nor an index, and leads to where *)
(* nothing is asked of it.                                                 *)
LEMMA Passing ==
  ASSUME Inv, ClaimInv, Live' => Live, NEW w \in Worker, NEW j, NEW he, NEW hs, Goto(w, j, he, hs),
         \A n \in Slot : hs[n] \subseteq holdsSlot[n] \cup {w},
         UNCHANGED <<slot, session, used, issued, acked>>, j.pc \notin Watched
  PROVE  ClaimInv'
<1>1. /\ job'[w] = j
      /\ \A u \in Worker \ {w} : job'[u] = job[u]
      /\ \A n \in Slot : holdsSlot'[n] \subseteq holdsSlot[n] \cup {w}
  BY Moved DEF Inv
<1>2. Orderly({w})
  BY <1>1, OrderlyRead
<1>3. Recorded
  BY NothingRecorded
<1>4. ClaimsOK(w)'
  BY <1>1, Unwatched
<1> QED
  BY <1>1, <1>2, <1>3, <1>4, ClaimStep

(* At the end of a task of a scan, as at every point of it, the records    *)
(* that are still remembered are reclaimable.                              *)
LEMMA TaskEnds ==
  ASSUME NEW w \in Worker, job'[w].pc \notin Watched \ {"scan_pick"},
         w \in RecoveryWorkers => \A n \in Slot : w \in holdsSlot'[n] => Reclaimable(n)'
  PROVE  ClaimsOK(w)'
BY DEF ClaimsOK, Watched, Scanning, Asked, Cleanup, Provisional

-----------------------------------------------------------------------------
(* cleanSlot (access/recovery.go:47-80): once the claim is in the record   *)
(* no unclaimed slot has the identity any more, until the end.             *)
LEMMA CleanSlotClaims ==
  ASSUME Inv, ClaimInv, Live' => Live, NEW w \in Worker, NEW done, NEW failed,
         done.pc \notin Watched \ {"scan_pick"}, failed.pc \notin Watched \ {"scan_pick"},
         CleanSlot(w, done, failed)
  PROVE  ClaimInv'
<1> DEFINE n == job[w].num
<1>1. job[w].pc \in Cleanup
  BY DEF CleanSlot, CleanClaim, CleanAcked, CleanUnanswered, CleanBackoff, CleanUnindex, CleanDrop,
         CleanFails, At, Cleanup
<1>2. TypeOK /\ job[w] \in Job /\ ClaimsOK(w) /\ n \in Slot /\ Own(w) \in used /\ Own(w) \in Gen
  BY <1>1, OwnUsed DEF Inv, TypeOK, ClaimInv, Identified
<1>3. w \in RecoveryWorkers => \A m \in Slot : w \in holdsSlot[m] => Reclaimable(m)
  BY <1>1, <1>2 DEF ClaimsOK, Scanning
<1>4. ASSUME NEW j, j.pc \notin Watched \ {"scan_pick"}, Proceed(w, j),
             UNCHANGED <<slot, session, used, issued, acked>>
      PROVE  ClaimInv'
  <2>1. /\ job'[w] = j
        /\ \A u \in Worker \ {w} : job'[u] = job[u]
        /\ \A m \in Slot : holdsSlot'[m] \subseteq holdsSlot[m]
    BY <1>2, <1>4, Moved DEF Proceed
  <2>2. Orderly({w})
    BY <1>4, <2>1, OrderlyRead
  <2>3. ClaimsOK(w)'
    BY <1>3, <1>4, <2>1, TaskEnds DEF Reclaimable, Unclaimed
  <2> QED
    BY <1>4, <2>1, <2>2, <2>3, NothingRecorded, ClaimStep
<1>5. ASSUME NEW j, UpdateSlot(w, n, [slot[n] EXCEPT !.cleanup = "held"], j),
             j.pc \in Asked => j = [job[w] EXCEPT !.pc = "clean_call"],
             j.pc \notin Watched \ {"scan_pick"} \/ j.pc \in Asked,
             UNCHANGED <<session, used, issued, acked>>
      PROVE  ClaimInv'
  <2> DEFINE rec == [slot[n] EXCEPT !.cleanup = "held"]
  <2>1. slot[n] # NoSlot /\ slot[n] \in SlotRecord /\ slot[n].gen = Own(w)
    BY <1>2, <1>5 DEF Inv, TypeOK, HoldsOK, UpdateSlot, SlotHas, Own
  <2>2. rec \in SlotRecord /\ rec.gen = slot[n].gen /\ rec.cleanup = "held"
    BY <2>1 DEF SlotRecord, Claim
  <2>3. rec # NoSlot
    BY <2>2, SentinelAssumption
  <2> HIDE DEF rec
  <2>4. UpdateSlot(w, n, rec, j)
    BY <1>5 DEF rec
  <2>5. Orderly({w})
    BY <1>2, <2>1, <2>2, <2>3, <2>4, OrderlyUpdate
  <2>6. /\ job'[w] = j
        /\ \A u \in Worker \ {w} : job'[u] = job[u]
        /\ slot' = [slot EXCEPT ![n] = rec]
        /\ \A m \in Slot : m # n => holdsSlot'[m] \subseteq holdsSlot[m]
    <3>1. /\ Goto(w, j, holdsEvent, SlotWritten(w, n))
          /\ slot' = [slot EXCEPT ![n] = rec]
      BY <2>4 DEF UpdateSlot
    <3>2. \A m \in Slot : m # n => SlotWritten(w, n)[m] = holdsSlot[m]
      BY <1>2 DEF SlotWritten, TypeOK
    <3> QED
      BY <1>2, <3>1, <3>2, Moved
  <2>7. slot'[n] = rec /\ \A m \in Slot : m # n => slot'[m] = slot[m]
    BY <1>2, <2>6 DEF TypeOK
  <2>8. w \in RecoveryWorkers => \A m \in Slot : w \in holdsSlot'[m] => Reclaimable(m)'
    BY <1>3, <2>2, <2>6, <2>7 DEF Reclaimable, Unclaimed
  <2>9. ClaimsOK(w)'
    <3>1. CASE j.pc \in Asked
      <4>1. j.pc = "clean_call" /\ j.num = n /\ j.seen = job[w].seen
        BY <1>2, <1>5, <3>1 DEF Job
      <4>2. Own(w)' = Own(w)
        BY <2>6, <4>1 DEF Own
      <4>3. ASSUME NEW m \in Slot, SlotHas(m, Own(w))'
            PROVE  ~ Unclaimed(m)'
        <5>1. m = n
          BY <1>2, <2>1, <2>2, <2>3, <2>7, <4>2, <4>3 DEF Inv, SlotsOK, SlotHas
        <5> QED
          BY <2>2, <2>7, <5>1 DEF Unclaimed
      <4> QED
        BY <2>6, <2>8, <4>1, <4>3 DEF ClaimsOK, Provisional
    <3>2. CASE j.pc \notin Watched \ {"scan_pick"}
      BY <2>6, <2>8, <3>2, TaskEnds
    <3> QED
      BY <1>5, <3>1, <3>2
  <2> QED
    BY <1>5, <2>5, <2>6, <2>9, NothingRecorded, ClaimStep
<1>6. ASSUME NEW pc \in Asked, job[w].pc \in Asked, Proceed(w, [job[w] EXCEPT !.pc = pc]),
             UNCHANGED <<slot, used, issued>>, Recorded
      PROVE  ClaimInv'
  <2> DEFINE j == [job[w] EXCEPT !.pc = pc]
  <2>1. /\ job'[w] = j
        /\ \A u \in Worker \ {w} : job'[u] = job[u]
        /\ \A m \in Slot : holdsSlot'[m] \subseteq holdsSlot[m]
    BY <1>2, <1>6, Moved DEF Proceed
  <2>2. j.pc = pc /\ j.num = n /\ j.seen = job[w].seen
    BY <1>2 DEF Job
  <2>3. Orderly({w})
    BY <1>6, <2>1, OrderlyRead
  <2>4. ClaimsOK(w)'
    <3>1. Own(w)' = Own(w)
      BY <2>1, <2>2 DEF Own
    <3>2. \A m \in Slot : SlotHas(m, Own(w))' => ~ Unclaimed(m)'
      BY <1>2, <1>6, <3>1 DEF ClaimsOK, SlotHas, Unclaimed
    <3>3. w \in RecoveryWorkers => \A m \in Slot : w \in holdsSlot'[m] => Reclaimable(m)'
      BY <1>3, <1>6, <2>1 DEF Reclaimable, Unclaimed
    <3> QED
      BY <2>1, <2>2, <3>2, <3>3 DEF ClaimsOK, Asked, Provisional
  <2> QED
    BY <1>6, <2>1, <2>3, <2>4, ClaimStep
<1>7. \A m \in Slot : job[w].pc \in Asked /\ SlotHas(m, Own(w)) => ~ Unclaimed(m)
  BY <1>2 DEF ClaimsOK
<1>8. CASE CleanClaim(w, failed)
  <2>1. [job[w] EXCEPT !.pc = "clean_call"].pc = "clean_call"
    BY <1>2 DEF Job
  <2> QED
    BY <1>4, <1>5, <1>8, <2>1 DEF CleanClaim, Refused, Asked, Watched, Scanning, Cleanup
<1>9. CASE CleanAcked(w)
  <2>1. Recorded
    BY <1>2, <1>7, <1>9 DEF CleanAcked, At, Asked, Recorded, store, ClaimInv, Inv
  <2> QED
    BY <1>6, <1>9, <2>1 DEF CleanAcked, At, Asked, store
<1>10. CASE CleanUnanswered(w)
  BY <1>6, <1>10, NothingRecorded DEF CleanUnanswered, At, Asked, store
<1>11. CASE CleanBackoff(w, failed)
  BY <1>4, <1>5, <1>11 DEF CleanBackoff, Refused, Asked, Watched, Scanning, Cleanup
<1>12. CASE CleanUnindex(w)
  <2>1. \A g \in Gen : g # Own(w) => session'[g] = session[g]
    BY <1>2, <1>12 DEF CleanUnindex, TypeOK
  <2>2. Recorded
    BY <1>2, <1>7, <1>12, <2>1 DEF CleanUnindex, At, Asked, Recorded, ClaimInv, Inv, TypeOK
  <2> QED
    BY <1>6, <1>12, <2>2 DEF CleanUnindex, At, Asked
<1>13. CASE CleanDrop(w, done, failed)
  <2>1. UNCHANGED <<session, used, issued, acked>>
    BY <1>13 DEF CleanDrop
  <2>2. CASE DropSlot(w, n, done)
    <3>1. /\ job'[w] = done
          /\ \A u \in Worker \ {w} : job'[u] = job[u]
          /\ \A m \in Slot : m # n => slot'[m] = slot[m] /\ holdsSlot'[m] \subseteq holdsSlot[m]
          /\ holdsSlot'[n] = {}
      <4>1. /\ Goto(w, done, holdsEvent, SlotGone(n))
            /\ slot' = [slot EXCEPT ![n] = NoSlot]
        BY <2>2 DEF DropSlot
      <4>2. SlotGone(n)[n] = {} /\ \A m \in Slot : m # n => SlotGone(n)[m] = holdsSlot[m]
        BY <1>2 DEF SlotGone, TypeOK
      <4>3. \A m \in Slot : m # n => slot'[m] = slot[m]
        BY <1>2, <4>1 DEF TypeOK
      <4> QED
        BY <1>2, <4>1, <4>2, <4>3, Moved
    <3>2. w \in RecoveryWorkers => \A m \in Slot : w \in holdsSlot'[m] => Reclaimable(m)'
      BY <1>3, <3>1 DEF Reclaimable, Unclaimed
    <3> QED
      BY <1>2, <2>1, <2>2, <3>1, <3>2, OrderlyDrop, TaskEnds, NothingRecorded, ClaimStep
  <2>3. CASE UNCHANGED slot /\ (Proceed(w, done) \/ Proceed(w, failed))
    BY <1>4, <2>1, <2>3
  <2> QED
    BY <1>13, <2>2, <2>3 DEF CleanDrop, Refused
<1>14. CASE CleanFails(w, failed)
  BY <1>4, <1>14 DEF CleanFails, store, Watched, Scanning, Cleanup
<1> QED
  BY <1>8, <1>9, <1>10, <1>11, <1>12, <1>13, <1>14 DEF CleanSlot

(* The walk goes on or ends where nothing is asked.                        *)
LEMMA NextNumberUnwatched ==
  ASSUME Inv, NEW w \in Worker
  PROVE  NextNumber(job[w]).pc \notin Watched /\ Idle.pc \notin Watched
BY DEF Inv, TypeOK, Job, NextNumber, Idle, Watched, Provisional, Scanning, Cleanup

-----------------------------------------------------------------------------
(* StartSession (access/service.go:265-333): the identity of an admission  *)
(* under way is in no other slot than its own, so the index it is given    *)
(* leads there; and a slot is taken over only past its grace period.       *)
LEMMA AdmitClaims ==
  ASSUME Inv, ClaimInv, Live' => Live, NEW w \in GuestHandlers, Admit(w)
  PROVE  ClaimInv'
<1> DEFINE n == job[w].num
<1>1. /\ TypeOK /\ w \in Worker /\ w \notin RecoveryWorkers /\ job[w] \in Job
      /\ ClaimsOK(w)
      /\ NextNumber(job[w]).pc \notin Watched /\ Idle.pc \notin Watched
  BY RolesAssumption, NextNumberUnwatched DEF Inv, TypeOK, Worker, ClaimInv
<1>2. ASSUME job[w].pc \in Provisional
      PROVE  /\ n \in Slot /\ Own(w) \in used /\ Own(w) \in Gen /\ Own(w) \notin issued
             /\ \A m \in Slot : SlotHas(m, Own(w)) => m = n
  BY <1>1, <1>2, OwnUsed DEF Identified, ClaimsOK, Inv, JobOK, Own
<1>3. ASSUME NEW pc \in Provisional, job[w].pc \in Provisional, Proceed(w, [job[w] EXCEPT !.pc = pc]),
             UNCHANGED slot, Recorded
      PROVE  ClaimInv'
  <2> DEFINE j == [job[w] EXCEPT !.pc = pc]
  <2>1. /\ job'[w] = j
        /\ \A u \in Worker \ {w} : job'[u] = job[u]
        /\ \A m \in Slot : holdsSlot'[m] \subseteq holdsSlot[m]
    BY <1>1, <1>3, Moved DEF Proceed
  <2>2. j.pc = pc /\ j.num = n /\ j.seen = job[w].seen
    BY <1>1 DEF Job
  <2>3. Orderly({w})
    BY <1>1, <1>3, <2>1, OrderlyRead
  <2>4. \A m \in Slot : SlotHas(m, Own(w))' => m = job'[w].num
    BY <1>2, <1>3, <2>1, <2>2 DEF Own, SlotHas
  <2>5. ClaimsOK(w)'
    BY <1>1, <2>1, <2>2, <2>4 DEF ClaimsOK, Provisional, Asked
  <2> QED
    BY <1>1, <1>3, <2>1, <2>3, <2>5, ClaimStep
<1>4. ASSUME Recorded, UNCHANGED slot, Proceed(w, Idle)
      PROVE  ClaimInv'
  <2>1. /\ job'[w] = Idle
        /\ \A u \in Worker \ {w} : job'[u] = job[u]
        /\ \A m \in Slot : holdsSlot'[m] \subseteq holdsSlot[m]
    BY <1>1, <1>4, Moved DEF Proceed
  <2> QED
    BY <1>1, <1>4, <2>1, OrderlyRead, Unwatched, ClaimStep
<1>5. CASE StartCreate(w)
  <2>1. PICK g \in Gen \ used : CreateSlot(w, g)
    BY <1>5 DEF StartCreate
  <2> DEFINE j == [job[w] EXCEPT !.pc = "start_recheck", !.seen[n] = g]
  <2>2. n \in Slot
    BY <1>1, <2>1 DEF CreateSlot, Inv, JobOK, Numbered
  <2>3. NewSlot(g).gen = g /\ NewSlot(g) # NoSlot
    <3>1. NewSlot(g) \in SlotRecord
      BY DEF NewSlot, SlotRecord, Claim
    <3> QED
      BY <3>1, SentinelAssumption DEF NewSlot
  <2>4. /\ slot[n] = NoSlot /\ slot' = [slot EXCEPT ![n] = NewSlot(g)]
        /\ Goto(w, j, holdsEvent, SlotWritten(w, n))
        /\ used' = used \cup {g} /\ UNCHANGED <<session, issued, acked>>
    BY <2>1 DEF CreateSlot
  <2>5. /\ slot'[n] = NewSlot(g)
        /\ \A m \in Slot : m # n => slot'[m] = slot[m]
    BY <1>1, <2>2, <2>4 DEF TypeOK
  <2>6. SlotWritten(w, n)[n] = {w} /\ \A m \in Slot : m # n => SlotWritten(w, n)[m] = holdsSlot[m]
    BY <1>1, <2>2 DEF SlotWritten, TypeOK
  <2>7. /\ job'[w] = j
        /\ \A u \in Worker \ {w} : job'[u] = job[u]
        /\ holdsSlot'[n] \subseteq {w}
        /\ \A m \in Slot : m # n => holdsSlot'[m] \subseteq holdsSlot[m]
    BY <1>1, <2>2, <2>4, <2>6, Moved
  <2>8. j.pc = "start_recheck" /\ j.num = n /\ j.seen[n] = g
    BY <1>1, <2>2 DEF Job
  <2>9. Orderly({w})
    BY <2>3, <2>4, <2>5, <2>7 DEF Orderly, Unclaimed, Reclaimable
  <2>10. \A m \in Slot : SlotHas(m, g)' => m = n
    BY <2>5 DEF SlotHas, Inv, SlotsOK
  <2>11. ClaimsOK(w)'
    BY <1>1, <2>7, <2>8, <2>10 DEF ClaimsOK, Asked, Own
  <2>12. Recorded
    BY <2>4, NothingRecorded
  <2> QED
    BY <1>1, <2>7, <2>9, <2>11, <2>12, ClaimStep
<1>6. CASE StartTakeOver(w)
  <2> DEFINE j == [job[w] EXCEPT !.pc = "clean_claim", !.seen[n] = slot[n].gen]
  <2>1. n \in Slot
    BY <1>1, <1>6 DEF StartTakeOver, At, Inv, JobOK, Numbered
  <2>2. Goto(w, j, holdsEvent, SlotRead(w, n)) /\ Reclaimable(n)
        /\ UNCHANGED <<slot, session, used, issued, acked>>
    BY <1>6 DEF StartTakeOver, Reclaimable, store
  <2>3. /\ job'[w] = j
        /\ \A u \in Worker \ {w} : job'[u] = job[u]
        /\ \A m \in Slot : holdsSlot'[m] \subseteq SlotRead(w, n)[m]
    BY <1>1, <2>2, Moved
  <2>4. \A m \in Slot : SlotRead(w, n)[m] \subseteq holdsSlot[m] \cup {w}
    BY <1>1, <2>1 DEF SlotRead, TypeOK
  <2>5. j.pc = "clean_claim" /\ j.num = n
    BY <1>1 DEF Job
  <2>6. Orderly({w})
    BY <1>1, <2>2, <2>3, <2>4, OrderlyRead
  <2>7. ClaimsOK(w)'
    BY <1>1, <2>2, <2>3, <2>5 DEF ClaimsOK, Asked, Provisional, Reclaimable, Unclaimed
  <2> QED
    BY <1>1, <2>2, <2>3, <2>6, <2>7, NothingRecorded, ClaimStep
<1>7. CASE StartRecheck(w)
  BY <1>3, <1>7, NothingRecorded DEF StartRecheck, At, Provisional, store
<1>8. ASSUME At(w, "start_index"), session' \in {session, Indexed(w)}, UNCHANGED <<used, acked>>,
             issued' = issued \/ (issued' = issued \cup {Own(w)} /\ session' = Indexed(w))
      PROVE  Recorded
  <2>1. /\ Own(w) \in used /\ Own(w) \in Gen /\ Own(w) \notin issued
        /\ \A m \in Slot : SlotHas(m, Own(w)) => m = n
    BY <1>2, <1>8 DEF At, Provisional
  <2>2. \A g \in Gen : g # Own(w) => session'[g] = session[g]
    BY <1>1, <1>8, <2>1 DEF Indexed, TypeOK
  <2>3. session' = Indexed(w) => session'[Own(w)] = [slot |-> n, deleted |-> FALSE]
    BY <1>1, <2>1 DEF Indexed, TypeOK
  <2> QED
    BY <1>1, <1>8, <2>1, <2>2, <2>3 DEF Recorded, Inv, TypeOK, ClaimInv
<1>9. CASE StartIndex(w) \/ StartMintFails(w)
  BY <1>4, <1>8, <1>9 DEF StartIndex, StartMintFails
<1>10. CASE StartIndexFails(w)
  BY <1>3, <1>8, <1>10 DEF StartIndexFails, At, Provisional
<1>11. CASE StartUndo(w)
  <2>1. n \in Slot /\ UNCHANGED <<session, used, issued, acked>>
    BY <1>2, <1>11 DEF StartUndo, Provisional
  <2>2. PICK j : j.pc \notin Watched /\ (DropSlot(w, n, j) \/ (UNCHANGED slot /\ Proceed(w, j)))
    BY <1>1, <1>11 DEF StartUndo, Refused
  <2>3. CASE DropSlot(w, n, j)
    <3>1. job'[w] = j /\ \A u \in Worker \ {w} : job'[u] = job[u]
      BY <1>1, <2>3, Moved DEF DropSlot
    <3> QED
      BY <1>1, <2>1, <2>2, <2>3, <3>1, OrderlyDrop, Unwatched, NothingRecorded, ClaimStep
  <2>4. CASE UNCHANGED slot /\ Proceed(w, j)
    BY <1>1, <2>1, <2>2, <2>4, Passing DEF Proceed
  <2> QED
    BY <2>2, <2>3, <2>4
<1>12. CASE StartNoSecret(w) \/ StartSkip(w) \/ StartOccupied(w)
  <2>1. [job[w] EXCEPT !.pc = "start_inspect"].pc \notin Watched
    BY <1>1 DEF Job, Watched, Provisional, Scanning, Cleanup
  <2>2. PICK j : j.pc \notin Watched /\ Proceed(w, j)
    BY <1>1, <1>12, <2>1 DEF StartNoSecret, StartSkip, StartOccupied
  <2> QED
    BY <1>1, <1>12, <2>2, Passing DEF StartNoSecret, StartSkip, StartOccupied, store, Proceed
<1>13. CASE StartCallFails(w)
  <2>1. CASE Proceed(w, NextNumber(job[w]))
    BY <1>1, <1>13, <2>1, Passing DEF StartCallFails, store, Proceed
  <2>2. CASE At(w, "start_recheck") /\ Proceed(w, [job[w] EXCEPT !.pc = "start_undo"])
    BY <1>3, <1>13, <2>2, NothingRecorded DEF StartCallFails, store, At, Provisional
  <2> QED
    BY <1>13, <2>1, <2>2 DEF StartCallFails
<1>14. CASE StartCleanup(w)
  <2>1. [job[w] EXCEPT !.pc = "start_recreate"].pc \notin Watched
    BY <1>1 DEF Job, Watched, Provisional, Scanning, Cleanup
  <2> QED
    BY <1>1, <1>14, <2>1, CleanSlotClaims DEF StartCleanup
<1> QED
  BY <1>5, <1>6, <1>7, <1>9, <1>10, <1>11, <1>12, <1>13, <1>14 DEF Admit

-----------------------------------------------------------------------------
(* renewLease (access/service.go:351-401) renews a slot that has no claim, *)
(* at the revision it was read at.                                         *)
LEMMA RenewClaims ==
  ASSUME Inv, ClaimInv, Live' => Live, NEW w \in GuestHandlers, Renew(w)
  PROVE  ClaimInv'
<1> DEFINE n == job[w].num
<1>1. TypeOK /\ w \in Worker /\ w \notin RecoveryWorkers /\ job[w] \in Job /\ Idle.pc \notin Watched
  BY RolesAssumption, NextNumberUnwatched DEF Inv, TypeOK, Worker
<1>2. n \in Slot
  BY <1>1, OwnUsed DEF Renew, RenewEvent, RenewSlot, RenewCommit, RenewConflict, At, Identified, Renewal
<1>3. CASE RenewEvent(w) \/ RenewConflict(w)
  <2>1. /\ [job[w] EXCEPT !.pc = "renew_slot"].pc \notin Watched
        /\ [job[w] EXCEPT !.pc = "renew_event"].pc \notin Watched
    BY <1>1 DEF Job, Watched, Provisional, Scanning, Cleanup
  <2>2. PICK j : j.pc \notin Watched /\ Proceed(w, j)
    BY <1>1, <1>3, <2>1 DEF RenewEvent, RenewConflict, Refused
  <2> QED
    BY <1>1, <1>3, <2>2, Passing DEF RenewEvent, RenewConflict, store, Proceed
<1>4. CASE RenewSlot(w)
  <2>1. CASE Renewable(n, Own(w))
    <3> DEFINE j == [job[w] EXCEPT !.pc = "renew_put"]
    <3>1. Goto(w, j, holdsEvent, SlotRead(w, n)) /\ Unclaimed(n) /\ UNCHANGED <<slot, session, used, issued, acked>>
      BY <1>4, <2>1 DEF RenewSlot, Renewable, store
    <3>2. /\ job'[w] = j
          /\ \A u \in Worker \ {w} : job'[u] = job[u]
          /\ \A m \in Slot : holdsSlot'[m] \subseteq SlotRead(w, n)[m]
      BY <1>1, <3>1, Moved
    <3>3. \A m \in Slot : SlotRead(w, n)[m] \subseteq holdsSlot[m] \cup {w}
      BY <1>1, <1>2 DEF SlotRead, TypeOK
    <3>4. j.pc = "renew_put" /\ j.num = n
      BY <1>1 DEF Job
    <3>5. ClaimsOK(w)'
      BY <1>1, <3>1, <3>2, <3>4 DEF ClaimsOK, Asked, Provisional, Unclaimed
    <3> QED
      BY <1>1, <3>1, <3>2, <3>3, <3>5, OrderlyRead, NothingRecorded, ClaimStep
  <2>2. CASE ~ Renewable(n, Own(w))
    BY <1>1, <1>4, <2>2, Passing DEF RenewSlot, store, Proceed
  <2> QED
    BY <2>1, <2>2
<1>5. CASE RenewCommit(w)
  <2> DEFINE rec == [slot[n] EXCEPT !.reserved = FALSE, !.expired = FALSE]
  <2>1. UpdateSlot(w, n, rec, Idle) /\ UNCHANGED <<session, used, issued, acked>>
    BY <1>5 DEF RenewCommit
  <2>2. slot[n] # NoSlot /\ slot[n] \in SlotRecord
    BY <1>1, <1>2, <2>1 DEF Inv, TypeOK, HoldsOK, UpdateSlot, SlotHas
  <2>3. rec \in SlotRecord /\ rec.gen = slot[n].gen /\ rec.cleanup = slot[n].cleanup
    BY <2>2 DEF SlotRecord
  <2>4. rec # NoSlot /\ (rec.cleanup = "none" => Unclaimed(n))
    BY <2>2, <2>3, SentinelAssumption DEF Unclaimed
  <2> HIDE DEF rec
  <2>5. Orderly({w})
    BY <1>1, <1>2, <2>1, <2>2, <2>3, <2>4, OrderlyUpdate
  <2>6. job'[w] = Idle /\ \A u \in Worker \ {w} : job'[u] = job[u]
    BY <1>1, <2>1, Moved DEF UpdateSlot
  <2> QED
    BY <1>1, <2>1, <2>5, <2>6, Unwatched, NothingRecorded, ClaimStep
<1> QED
  BY <1>3, <1>4, <1>5 DEF Renew

(* A call of a guest starts where nothing is asked.                        *)
LEMMA GuestCallClaims ==
  ASSUME Inv, ClaimInv, Live' => Live, NEW w \in GuestHandlers, GuestCall(w)
  PROVE  ClaimInv'
<1>1. PICK j : j.pc \notin Watched /\ Proceed(w, j) /\ UNCHANGED <<store, used, issued, acked, faults>>
  <2>1. ASSUME NEW g
        PROVE  [Idle EXCEPT !.pc = "renew_event", !.num = session[g].slot, !.seen[session[g].slot] = g].pc
                 \notin Watched
    BY DEF Idle, Watched, Provisional, Scanning, Cleanup
  <2>2. [Idle EXCEPT !.pc = "start_create", !.num = 1, !.cap = event.capacity].pc \notin Watched
    BY DEF Idle, Watched, Provisional, Scanning, Cleanup
  <2> QED
    BY <2>1, <2>2 DEF GuestCall, StartSession, RenewSession
<1>2. w \in Worker
  BY DEF Worker
<1> QED
  BY <1>1, <1>2, Passing DEF Proceed, store

-----------------------------------------------------------------------------
(* One key of a List: w may remember that slot from then on, if its record *)
(* is wanted.                                                              *)
LEMMA Listed ==
  ASSUME TypeOK, NEW w \in Worker, NEW n \in Slot, NEW wanted \in BOOLEAN, NEW pc, ListOne(w, n, wanted, pc)
  PROVE  /\ job'[w].pc \in {pc, job[w].pc}
         /\ \A u \in Worker \ {w} : job'[u] = job[u]
         /\ \A m \in Slot : holdsSlot'[m] \subseteq holdsSlot[m] \cup {w}
         /\ \A m \in Slot : w \in holdsSlot'[m] => w \in holdsSlot[m] \/ (m = n /\ wanted)
<1> DEFINE g == IF wanted THEN slot[n].gen ELSE NoGen
           j == [job[w] EXCEPT !.todo = @ \ {n}, !.seen[n] = g]
           next == IF j.todo = {} THEN [j EXCEPT !.pc = pc] ELSE j
           hs == IF wanted THEN SlotRead(w, n) ELSE holdsSlot
<1>1. Goto(w, next, holdsEvent, hs)
  BY DEF ListOne
<1>2. next.pc \in {pc, job[w].pc}
  BY DEF TypeOK, Job
<1>3. \A m \in Slot : hs[m] = IF m = n /\ wanted THEN holdsSlot[m] \cup {w} ELSE holdsSlot[m]
  BY DEF SlotRead, TypeOK
<1> HIDE DEF next, hs
<1>4. /\ job'[w] = next
      /\ \A u \in Worker \ {w} : job'[u] = job[u]
      /\ \A m \in Slot : holdsSlot'[m] \subseteq hs[m]
  BY <1>1, Moved
<1> QED
  BY <1>2, <1>3, <1>4

(* A List at whose end, and on the way, nothing is asked.                  *)
LEMMA ListPassing ==
  ASSUME Inv, ClaimInv, Live' => Live, NEW w \in Worker, NEW n \in job[w].todo,
         NEW wanted \in BOOLEAN, NEW pc, ListOne(w, n, wanted, pc),
         pc \notin Watched, job[w].pc \notin Watched,
         UNCHANGED <<slot, session, used, issued, acked>>
  PROVE  ClaimInv'
<1>1. TypeOK /\ n \in Slot
  BY DEF Inv, TypeOK, Job
<1>2. /\ job'[w].pc \notin Watched
      /\ \A u \in Worker \ {w} : job'[u] = job[u]
      /\ \A m \in Slot : holdsSlot'[m] \subseteq holdsSlot[m] \cup {w}
  BY <1>1, Listed
<1> QED
  BY <1>2, OrderlyRead, Unwatched, NothingRecorded, ClaimStep

(* The presenter's operations on a live event (access/service.go:143-197,  *)
(* 426-442, 513-534): a pause writes no claim, and a release claims what   *)
(* it likes.                                                               *)
LEMMA AdministerClaims ==
  ASSUME Inv, ClaimInv, Live' => Live, NEW w \in PresenterHandlers, Administer(w)
  PROVE  ClaimInv'
<1>1. /\ TypeOK /\ w \in Worker /\ w \notin RecoveryWorkers /\ w \notin GuestHandlers
      /\ job[w] \in Job /\ Idle.pc \notin Watched
  BY RolesAssumption, NextNumberUnwatched DEF Inv, TypeOK, Worker
<1>2. ASSUME NEW j, NEW pc \in {"set_put", "set_load", "capacity_put", "capacity_load"},
             j = [job[w] EXCEPT !.pc = pc]
      PROVE  j.pc \notin Watched
  BY <1>1, <1>2 DEF Job, Watched, Provisional, Scanning, Cleanup
<1>3. StartList(job[w], "reserve_list").pc \notin Watched
  BY <1>1 DEF StartList, Job, Watched, Provisional, Scanning, Cleanup
<1>4. CASE SetReload(w) \/ CapacityReload(w) \/ ReserveDone(w)
  <2>1. PICK j, he : j.pc \notin Watched /\ Goto(w, j, he, holdsSlot)
    BY <1>1, <1>2, <1>4 DEF SetReload, CapacityReload, ReserveDone, Proceed
  <2> QED
    BY <1>1, <1>4, <2>1, Passing DEF SetReload, CapacityReload, ReserveDone, store
<1>5. CASE SetPut(w) \/ CapacityPut(w)
  <2>1. PICK j, he : j.pc \notin Watched /\ Goto(w, j, he, holdsSlot)
    BY <1>1, <1>2, <1>3, <1>5 DEF SetPut, CapacityPut, UpdateEvent, RetryEvent, Proceed
  <2> QED
    BY <1>1, <1>5, <2>1, Passing DEF SetPut, CapacityPut
<1>6. CASE ReserveList(w)
  <2>1. PICK n \in job[w].todo : ListOne(w, n, Unclaimed(n) /\ ~ slot[n].reserved, "reserve_put")
    BY <1>6 DEF ReserveList
  <2>2. UNCHANGED <<slot, session, used, issued, acked>> /\ job[w].pc = "reserve_list"
    BY <1>6 DEF ReserveList, store, At
  <2>3. (Unclaimed(n) /\ ~ slot[n].reserved) \in BOOLEAN
    OBVIOUS
  <2>4. "reserve_list" \notin Watched /\ "reserve_put" \notin Watched
    BY DEF Watched, Provisional, Scanning, Cleanup
  <2> QED
    BY <1>1, <2>1, <2>2, <2>3, <2>4, ListPassing
<1>7. CASE ReservePut(w)
  <2>1. PICK n \in Slot :
          \/ UpdateSlot(w, n, [slot[n] EXCEPT !.reserved = TRUE], [job[w] EXCEPT !.seen[n] = NoGen])
          \/ UNCHANGED slot /\ Proceed(w, StartList(job[w], "reserve_list"))
          \/ UNCHANGED slot /\ Proceed(w, Idle)
    BY <1>1, <1>7 DEF ReservePut, Refused, Read
  <2>2. UNCHANGED <<session, used, issued, acked>> /\ job[w].pc = "reserve_put"
    BY <1>7 DEF ReservePut, At
  <2>3. CASE UNCHANGED slot /\ (Proceed(w, StartList(job[w], "reserve_list")) \/ Proceed(w, Idle))
    BY <1>1, <1>3, <2>2, <2>3, Passing DEF Proceed
  <2>4. CASE UpdateSlot(w, n, [slot[n] EXCEPT !.reserved = TRUE], [job[w] EXCEPT !.seen[n] = NoGen])
    <3> DEFINE rec == [slot[n] EXCEPT !.reserved = TRUE]
               j == [job[w] EXCEPT !.seen[n] = NoGen]
    <3>1. slot[n] # NoSlot /\ slot[n] \in SlotRecord
      BY <1>1, <2>4 DEF Inv, TypeOK, HoldsOK, UpdateSlot, SlotHas
    <3>2. rec \in SlotRecord /\ rec.gen = slot[n].gen /\ rec.cleanup = slot[n].cleanup
      BY <3>1 DEF SlotRecord
    <3>3. rec # NoSlot /\ (rec.cleanup = "none" => Unclaimed(n))
      BY <3>1, <3>2, SentinelAssumption DEF Unclaimed
    <3>4. j.pc \notin Watched
      BY <1>1, <2>2 DEF Job, Watched, Provisional, Scanning, Cleanup
    <3> HIDE DEF rec, j
    <3>5. UpdateSlot(w, n, rec, j)
      BY <2>4 DEF rec, j
    <3>6. Orderly({w})
      BY <1>1, <3>1, <3>2, <3>3, <3>5, OrderlyUpdate
    <3>7. job'[w] = j /\ \A u \in Worker \ {w} : job'[u] = job[u]
      BY <1>1, <3>5, Moved DEF UpdateSlot
    <3> QED
      BY <1>1, <2>2, <3>4, <3>6, <3>7, Unwatched, NothingRecorded, ClaimStep
  <2> QED
    BY <2>1, <2>3, <2>4
<1>8. CASE ReleaseRead(w)
  <2> DEFINE n == job[w].num
             j == [job[w] EXCEPT !.pc = "clean_claim", !.seen[n] = slot[n].gen]
  <2>1. CASE Claimable(n)
    <3>1. Goto(w, j, holdsEvent, SlotRead(w, n)) /\ UNCHANGED <<slot, session, used, issued, acked>>
      BY <1>8, <2>1 DEF ReleaseRead, store
    <3>2. n \in Slot /\ j.pc = "clean_claim"
      BY <1>1, <1>8 DEF ReleaseRead, At, Inv, JobOK, Numbered, Job
    <3>3. \A m \in Slot : SlotRead(w, n)[m] \subseteq holdsSlot[m] \cup {w}
      BY <1>1, <3>2 DEF SlotRead, TypeOK
    <3>4. /\ job'[w] = j
          /\ \A u \in Worker \ {w} : job'[u] = job[u]
          /\ \A m \in Slot : holdsSlot'[m] \subseteq SlotRead(w, n)[m]
      BY <1>1, <3>1, Moved
    <3>5. ClaimsOK(w)'
      BY <1>1, <3>2, <3>4 DEF ClaimsOK, Asked, Provisional
    <3> QED
      BY <1>1, <3>1, <3>3, <3>4, <3>5, OrderlyRead, NothingRecorded, ClaimStep
  <2>2. CASE ~ Claimable(n)
    BY <1>1, <1>8, <2>2, Passing DEF ReleaseRead, store, Proceed
  <2> QED
    BY <2>1, <2>2
<1>9. CASE ReleaseCleanup(w)
  BY <1>1, <1>9, CleanSlotClaims DEF ReleaseCleanup
<1> QED
  BY <1>4, <1>5, <1>6, <1>7, <1>8, <1>9 DEF Administer

(* A call of a presenter.                                                  *)
LEMMA PresenterCallClaims ==
  ASSUME Inv, ClaimInv, Live' => Live, NEW w \in PresenterHandlers, PresenterCall(w)
  PROVE  ClaimInv'
<1>1. PICK j, he : j.pc \notin Watched /\ Goto(w, j, he, holdsSlot)
                   /\ UNCHANGED <<store, used, issued, acked, faults>>
  <2>1. \A target : [Idle EXCEPT !.pc = "set_put", !.target = target].pc \notin Watched
    BY DEF Idle, Watched, Provisional, Scanning, Cleanup
  <2>2. \A capacity : [Idle EXCEPT !.pc = "capacity_put", !.cap = capacity].pc \notin Watched
    BY DEF Idle, Watched, Provisional, Scanning, Cleanup
  <2>3. \A n : [Idle EXCEPT !.pc = "release_slot", !.num = n].pc \notin Watched
    BY DEF Idle, Watched, Provisional, Scanning, Cleanup
  <2>4. [Idle EXCEPT !.pc = IF EventIs("deleting") THEN "delete_receipt" ELSE "delete_begin"].pc \notin Watched
    BY DEF Idle, Watched, Provisional, Scanning, Cleanup
  <2> QED
    BY <2>1, <2>2, <2>3, <2>4 DEF PresenterCall, SetState, UpdateCapacity, ReleaseSlot, DeleteEvent, Proceed
<1>2. w \in Worker
  BY DEF Worker
<1> QED
  BY <1>1, <1>2, Passing DEF store

-----------------------------------------------------------------------------
(* cleanEvent and finalizeEvent (access/recovery.go:106-193): the event is *)
(* not live any more, and nothing is promised of its places.               *)
LEMMA CleanEventClaims ==
  ASSUME Inv, ClaimInv, Live' => Live, NEW w \in Worker, CleanEvent(w)
  PROVE  ClaimInv'
<1>1. TypeOK /\ job[w] \in Job /\ JobOK(job[w]) /\ Idle.pc \notin Watched
  BY NextNumberUnwatched DEF Inv, TypeOK
<1>2. job[w].pc \in Closed /\ ~ Live
  BY <1>1 DEF JobOK, CleanEvent, DeleteReceipt, DeleteClaim, DeleteList, DeleteAcked, DeleteUnanswered,
              DeleteBackoff, DeleteRecord, FinalList, FinalMark, FinalDrop, FinalInvitation, FinalEvent, At,
              Closed, Erasing, Finalizing
<1>3. ASSUME NEW pc \in Closed
      PROVE  pc \notin Watched
  BY DEF Closed, Erasing, Finalizing, Watched, Provisional, Scanning, Cleanup
<1>4. \A pc : [job[w] EXCEPT !.pc = pc].pc = pc /\ StartList(job[w], pc).pc = pc
  BY <1>1 DEF Job, StartList
<1>5. ASSUME acked' \subseteq used, UNCHANGED <<used, issued>>
      PROVE  Recorded
  BY <1>2, <1>5 DEF Recorded, Inv
<1>6. UNCHANGED acked => acked' \subseteq used
  BY DEF ClaimInv
<1>7. ASSUME NEW j, NEW he, Goto(w, j, he, holdsSlot), j.pc \notin Watched, UNCHANGED <<slot, used, issued>>,
             acked' \subseteq used
      PROVE  ClaimInv'
  <2>1. /\ job'[w] = j
        /\ \A u \in Worker \ {w} : job'[u] = job[u]
        /\ \A m \in Slot : holdsSlot'[m] \subseteq holdsSlot[m]
    BY <1>1, <1>7, Moved
  <2> QED
    BY <1>5, <1>7, <2>1, OrderlyRead, Unwatched, ClaimStep
<1>8. CASE DeleteReceipt(w) \/ DeleteUnanswered(w) \/ FinalInvitation(w)
  <2>1. PICK j : j.pc \notin Watched /\ Proceed(w, j)
    <3>1. \A pc \in {"final_list", "delete_claim", "delete_backoff", "final_event"} : pc \notin Watched
      BY <1>3 DEF Closed, Erasing, Finalizing
    <3>2. CASE DeleteReceipt(w)
      BY <1>1, <1>4, <3>1, <3>2 DEF DeleteReceipt
    <3> QED
      BY <1>4, <1>8, <3>1, <3>2 DEF DeleteUnanswered, FinalInvitation
  <2> QED
    BY <1>6, <1>7, <1>8, <2>1 DEF DeleteReceipt, DeleteUnanswered, FinalInvitation, store, Proceed
<1>9. CASE DeleteClaim(w) \/ DeleteBackoff(w) \/ FinalEvent(w)
  <2>1. "delete_list" \notin Watched
    BY <1>3 DEF Closed, Erasing
  <2>2. CASE FinalEvent(w)
    BY <1>1, <1>6, <1>7, <2>2 DEF FinalEvent, Proceed
  <2>3. CASE DeleteClaim(w) \/ DeleteBackoff(w)
    <3>1. PICK j, he : j.pc \notin Watched /\ Goto(w, j, he, holdsSlot)
      BY <1>1, <1>4, <2>1, <2>3 DEF DeleteClaim, DeleteBackoff, EventWrite, UpdateEvent, Proceed
    <3> QED
      BY <1>6, <1>7, <2>3, <3>1 DEF DeleteClaim, DeleteBackoff, EventWrite
  <2> QED
    BY <1>9, <2>2, <2>3
<1>10. CASE DeleteAcked(w)
  <2>1. {job[w].seen[n] : n \in Read(job[w])} \subseteq used
    BY <1>1 DEF JobOK, Read
  <2>2. acked' \subseteq used
    BY <1>10, <2>1 DEF DeleteAcked, ClaimInv
  <2>3. "delete_record" \notin Watched
    BY <1>3 DEF Closed, Erasing
  <2> QED
    BY <1>4, <1>7, <1>10, <2>2, <2>3 DEF DeleteAcked, store, Proceed
<1>11. CASE DeleteRecord(w)
  <2>1. "final_list" \notin Watched
    BY <1>3 DEF Closed, Finalizing
  <2> QED
    BY <1>4, <1>6, <1>7, <1>11, <2>1 DEF DeleteRecord, Proceed
<1>12. CASE FinalMark(w)
  <2>1. PICK n \in Slot : Proceed(w, [job[w] EXCEPT !.pc = "final_drop", !.num = n])
    BY <1>12 DEF FinalMark, Read
  <2>2. [job[w] EXCEPT !.pc = "final_drop", !.num = n].pc \notin Watched
    BY <1>1, <1>3 DEF Job, Closed, Finalizing
  <2> QED
    BY <1>6, <1>7, <1>12, <2>1, <2>2 DEF FinalMark, Proceed
<1>13. CASE DeleteList(w) \/ FinalList(w)
  <2>1. PICK n \in job[w].todo, pc \in {"delete_call", "final_mark"} : ListOne(w, n, slot[n] # NoSlot, pc)
    BY <1>13 DEF DeleteList, FinalList
  <2>2. pc \notin Watched /\ job[w].pc \notin Watched
    BY <1>2, <1>3 DEF Closed, Erasing, Finalizing
  <2>3. UNCHANGED <<slot, session, used, issued, acked>>
    BY <1>13 DEF DeleteList, FinalList, store
  <2>4. (slot[n] # NoSlot) \in BOOLEAN
    OBVIOUS
  <2> QED
    BY <2>1, <2>2, <2>3, <2>4, ListPassing
<1>14. CASE FinalDrop(w)
  <2> DEFINE n == job[w].num
             next == [job[w] EXCEPT !.pc = "final_mark", !.num = 0, !.seen[n] = NoGen]
  <2>1. n \in Slot /\ next.pc \notin Watched
    BY <1>1, <1>3, <1>14, OwnUsed DEF FinalDrop, At, Identified, Job, Closed, Finalizing
  <2>2. UNCHANGED <<session, used, issued, acked>>
    BY <1>14 DEF FinalDrop
  <2>3. DropSlot(w, n, next) \/ (UNCHANGED slot /\ (Proceed(w, next) \/ Proceed(w, Idle)))
    BY <1>14 DEF FinalDrop, Refused
  <2>4. CASE DropSlot(w, n, next)
    <3> HIDE DEF next
    <3>1. job'[w] = next /\ \A u \in Worker \ {w} : job'[u] = job[u]
      BY <1>1, <2>4, Moved DEF DropSlot
    <3> QED
      BY <1>1, <2>1, <2>2, <2>4, <3>1, OrderlyDrop, Unwatched, NothingRecorded, ClaimStep
  <2>5. CASE UNCHANGED slot /\ (Proceed(w, next) \/ Proceed(w, Idle))
    BY <1>1, <1>6, <1>7, <2>1, <2>2, <2>5 DEF Proceed
  <2> QED
    BY <2>3, <2>4, <2>5
<1> QED
  BY <1>8, <1>9, <1>10, <1>11, <1>12, <1>13, <1>14 DEF CleanEvent

(* The event is put in state deleting (access/service.go:459-465).         *)
LEMMA DeleteBeginClaims ==
  ASSUME Inv, ClaimInv, Live' => Live, NEW w \in Worker, DeleteBegin(w)
  PROVE  ClaimInv'
<1>1. job[w] \in Job /\ Idle.pc \notin Watched
  BY NextNumberUnwatched DEF Inv, TypeOK
<1>2. [job[w] EXCEPT !.pc = "delete_receipt"].pc \notin Watched
  BY <1>1 DEF Job, Watched, Provisional, Scanning, Cleanup
<1>3. PICK j, he : j.pc \notin Watched /\ Goto(w, j, he, holdsSlot)
  BY <1>1, <1>2 DEF DeleteBegin, EventWrite, UpdateEvent, Proceed
<1> QED
  BY <1>3, Passing DEF DeleteBegin, EventWrite

-----------------------------------------------------------------------------
(* Reconcile (access/recovery.go:213-280): an unclaimed slot that the scan *)
(* took for expired is expired for as long as the scan's revision of it is *)
(* current, whatever happens before its turn comes.                        *)
LEMMA ReconcileClaims ==
  ASSUME Inv, ClaimInv, Live' => Live, NEW w \in RecoveryWorkers, ScanEvent(w) \/ Reconcile(w)
  PROVE  ClaimInv'
<1>1. /\ TypeOK /\ w \in Worker /\ w \notin GuestHandlers /\ job[w] \in Job /\ ClaimsOK(w)
      /\ Idle.pc \notin Watched
  BY RolesAssumption, NextNumberUnwatched DEF Inv, TypeOK, Worker, ClaimInv
<1>2. ASSUME job[w].pc \in {"scan_list", "scan_pick"}
      PROVE  \A n \in Slot : w \in holdsSlot[n] => Reclaimable(n)
  BY <1>1, <1>2 DEF ClaimsOK, Scanning
<1>3. ASSUME job'[w].pc \in {"scan_list", "scan_pick", "clean_claim"},
             \A n \in Slot : w \in holdsSlot'[n] => Reclaimable(n)'
      PROVE  ClaimsOK(w)'
  BY <1>1, <1>3 DEF ClaimsOK, Asked, Provisional
<1>4. CASE ScanEvent(w)
  <2>1. CASE EventIs("deleting")
    <3>1. [Idle EXCEPT !.pc = "delete_receipt"].pc \notin Watched
      BY DEF Idle, Watched, Provisional, Scanning, Cleanup
    <3> QED
      BY <1>1, <1>4, <2>1, <3>1, Passing DEF ScanEvent, store
  <2>2. CASE ~ EventIs("deleting")
    <3> DEFINE j == StartList([Idle EXCEPT !.target = event.state], "scan_list")
    <3>1. Proceed(w, j) /\ UNCHANGED <<slot, session, used, issued, acked>>
      BY <1>4, <2>2 DEF ScanEvent, store
    <3>2. j.pc = "scan_list" /\ \A n \in Slot : j.seen[n] = NoGen
      BY DEF StartList, Idle, NothingSeen
    <3> HIDE DEF j
    <3>3. /\ job'[w] = j
          /\ \A u \in Worker \ {w} : job'[u] = job[u]
          /\ \A m \in Slot : holdsSlot'[m] \subseteq holdsSlot[m] /\ w \notin holdsSlot'[m]
      BY <1>1, <3>1, <3>2, Moved DEF Proceed
    <3> QED
      BY <1>1, <1>3, <3>1, <3>2, <3>3, OrderlyRead, NothingRecorded, ClaimStep
  <2> QED
    BY <2>1, <2>2
<1>5. CASE ScanList(w)
  <2>1. PICK n \in job[w].todo : ListOne(w, n, NeedsCleanup(n, job[w].target), "scan_pick")
    BY <1>5 DEF ScanList
  <2>2. UNCHANGED <<slot, session, used, issued, acked>> /\ job[w].pc = "scan_list" /\ n \in Slot
    BY <1>1, <1>5 DEF ScanList, store, At, Job
  <2>3. NeedsCleanup(n, job[w].target) \in BOOLEAN /\ (NeedsCleanup(n, job[w].target) => Reclaimable(n))
    BY DEF NeedsCleanup, Reclaimable, Unclaimed
  <2>4. /\ job'[w].pc \in {"scan_pick", "scan_list"}
        /\ \A u \in Worker \ {w} : job'[u] = job[u]
        /\ \A m \in Slot : holdsSlot'[m] \subseteq holdsSlot[m] \cup {w}
        /\ \A m \in Slot : w \in holdsSlot'[m] => w \in holdsSlot[m] \/ (m = n /\ NeedsCleanup(n, job[w].target))
    BY <1>1, <2>1, <2>2, <2>3, Listed
  <2>5. \A m \in Slot : w \in holdsSlot'[m] => Reclaimable(m)'
    BY <1>2, <2>2, <2>3, <2>4 DEF Reclaimable, Unclaimed
  <2> QED
    BY <1>1, <1>3, <2>2, <2>4, <2>5, OrderlyRead, NothingRecorded, ClaimStep
<1>6. CASE ScanPick(w)
  <2>1. UNCHANGED <<slot, session, used, issued, acked>> /\ job[w].pc = "scan_pick"
    BY <1>6 DEF ScanPick, store, At
  <2>2. CASE Proceed(w, Idle)
    BY <1>1, <2>1, <2>2, Passing DEF Proceed
  <2>3. ASSUME NEW n, Proceed(w, [job[w] EXCEPT !.pc = "clean_claim", !.num = n])
        PROVE  ClaimInv'
    <3> DEFINE j == [job[w] EXCEPT !.pc = "clean_claim", !.num = n]
    <3>1. j.pc = "clean_claim" /\ Proceed(w, j)
      BY <1>1, <2>3 DEF Job
    <3> HIDE DEF j
    <3>2. /\ job'[w].pc = "clean_claim"
          /\ \A u \in Worker \ {w} : job'[u] = job[u]
          /\ \A m \in Slot : holdsSlot'[m] \subseteq holdsSlot[m]
      BY <1>1, <3>1, Moved DEF Proceed
    <3>3. \A m \in Slot : w \in holdsSlot'[m] => Reclaimable(m)'
      BY <1>2, <2>1, <3>2 DEF Reclaimable, Unclaimed
    <3> QED
      BY <1>1, <1>3, <2>1, <3>2, <3>3, OrderlyRead, NothingRecorded, ClaimStep
  <2> QED
    BY <1>6, <2>2, <2>3 DEF ScanPick
<1>7. CASE ScanCleanup(w)
  <2>1. NextTask(job[w]).pc \notin Watched \ {"scan_pick"}
    BY <1>1 DEF NextTask, Job
  <2> QED
    BY <1>1, <1>7, <2>1, CleanSlotClaims DEF ScanCleanup
<1>8. CASE CleanEvent(w)
  BY <1>1, <1>8, CleanEventClaims
<1> QED
  BY <1>4, <1>5, <1>6, <1>7, <1>8 DEF Reconcile

(* The clock only makes places expire and claims lapse; a crash forgets.   *)
LEMMA ClockClaims ==
  ASSUME Inv, ClaimInv, Live' => Live, Clock
  PROVE  ClaimInv'
<1>1. TypeOK
  BY DEF Inv
<1>2. UNCHANGED <<session, holdsSlot, used, issued, acked, job>>
  BY DEF Clock, Expire, SlotClaimDue, EventClaimDue
<1>3. ASSUME NEW n \in Slot
      PROVE  /\ slot'[n] # NoSlot => slot[n] # NoSlot /\ slot'[n].gen = slot[n].gen
             /\ slot[n] # NoSlot => slot'[n] # NoSlot /\ (slot'[n].cleanup = "none" <=> slot[n].cleanup = "none")
                                    /\ slot'[n].reserved = slot[n].reserved
                                    /\ (slot[n].expired => slot'[n].expired)
  <2>1. ASSUME NEW m \in Slot, Expire(m) \/ SlotClaimDue(m)
        PROVE  /\ slot[m] \in SlotRecord /\ slot[m] # NoSlot
               /\ \/ slot' = [slot EXCEPT ![m] = [slot[m] EXCEPT !.expired = TRUE]]
                  \/ slot[m].cleanup = "held" /\ slot' = [slot EXCEPT ![m] = [slot[m] EXCEPT !.cleanup = "due"]]
    BY <1>1, <2>1 DEF TypeOK, Expire, SlotClaimDue, Unclaimed
  <2>2. ASSUME NEW m \in Slot, slot[m] \in SlotRecord, slot[m] # NoSlot,
               \/ slot' = [slot EXCEPT ![m] = [slot[m] EXCEPT !.expired = TRUE]]
               \/ slot[m].cleanup = "held" /\ slot' = [slot EXCEPT ![m] = [slot[m] EXCEPT !.cleanup = "due"]]
        PROVE  /\ \A l \in Slot : l # m => slot'[l] = slot[l]
               /\ slot'[m].gen = slot[m].gen /\ (slot'[m].cleanup = "none" <=> slot[m].cleanup = "none")
               /\ slot'[m].reserved = slot[m].reserved /\ (slot[m].expired => slot'[m].expired)
               /\ slot'[m] # NoSlot
    <3>1. \A l \in Slot : l # m => slot'[l] = slot[l]
      BY <1>1, <2>2 DEF TypeOK
    <3>2. PICK rec : /\ slot'[m] = rec
                     /\ \/ rec = [slot[m] EXCEPT !.expired = TRUE]
                        \/ slot[m].cleanup = "held" /\ rec = [slot[m] EXCEPT !.cleanup = "due"]
      BY <1>1, <2>2 DEF TypeOK
    <3>3. rec \in SlotRecord /\ rec.gen = slot[m].gen /\ rec.reserved = slot[m].reserved
          /\ (rec.cleanup = "none" <=> slot[m].cleanup = "none") /\ (slot[m].expired => rec.expired)
      <4>1. CASE rec = [slot[m] EXCEPT !.expired = TRUE]
        BY <2>2, <4>1 DEF SlotRecord
      <4>2. CASE slot[m].cleanup = "held" /\ rec = [slot[m] EXCEPT !.cleanup = "due"]
        BY <2>2, <4>2 DEF SlotRecord, Claim
      <4> QED
        BY <3>2, <4>1, <4>2
    <3> QED
      BY <3>1, <3>2, <3>3, SentinelAssumption
  <2>3. CASE EventClaimDue
    BY <2>3 DEF EventClaimDue
  <2> QED
    BY <2>1, <2>2, <2>3 DEF Clock
<1>4. Orderly({})
  BY <1>2, <1>3 DEF Orderly, Unclaimed, Reclaimable
<1>5. Recorded
  BY <1>2, NothingRecorded
<1>6. \A u \in Worker : ClaimsOK(u)'
  BY <1>2, <1>4, BystanderClaims
<1>7. Live' => \A n \in Slot : Unclaimed(n)' => PlaceKept(n)'
  BY <1>4, <1>5, PlacesStayKept
<1> QED
  BY <1>2, <1>6, <1>7 DEF ClaimInv

-----------------------------------------------------------------------------
(* A live event was live before: what writes the event does not bring it   *)
(* back (access/service.go:157, 189, 464).                                 *)
LEMMA LiveEnds ==
  ASSUME Inv, [Next]_vars, Live'
  PROVE  Live
<1>1. CASE event' = event
  BY <1>1 DEF Live
<1>2. ASSUME NEW w \in PresenterHandlers \cup RecoveryWorkers, SetPut(w) \/ CapacityPut(w)
      PROVE  Live
  <2>1. HoldsOK(w) /\ job[w].pc \in {"set_put", "capacity_put"}
    BY <1>2 DEF Inv, Worker, SetPut, CapacityPut, At
  <2>2. w \in holdsEvent \/ event' = event
    BY <1>2 DEF SetPut, CapacityPut, UpdateEvent, RetryEvent
  <2> QED
    BY <1>1, <2>1, <2>2 DEF HoldsOK
<1>3. ASSUME NEW w \in PresenterHandlers \cup RecoveryWorkers,
             DeleteBegin(w) \/ DeleteClaim(w) \/ DeleteBackoff(w) \/ FinalEvent(w)
      PROVE  Live
  <2>1. event # NoEvent => event \in Event
    BY DEF Inv, TypeOK
  <2>2. w \in holdsEvent => event # NoEvent
    BY DEF Inv, HoldsOK, Worker
  <2> QED
    BY <1>1, <1>3, <2>1, <2>2
    DEF DeleteBegin, DeleteClaim, DeleteBackoff, FinalEvent, EventWrite, UpdateEvent, Event, Live
<1>4. CASE EventClaimDue
  BY <1>4 DEF EventClaimDue, Inv, TypeOK, Event, Live
<1> QED
  BY <1>1, <1>2, <1>3, <1>4, EventWriters DEF EventWritten

(* Nothing is claimed, handed out or erased at the start.                  *)
LEMMA InitClaims ==
  ASSUME Init
  PROVE  ClaimInv
<1>1. \A w \in Worker : job[w] = Idle /\ Idle.pc = "idle"
  BY DEF Init, Idle
<1>2. \A w \in Worker : ClaimsOK(w)
  BY <1>1 DEF ClaimsOK, Asked, Provisional, Scanning, Cleanup
<1> QED
  BY <1>2 DEF ClaimInv, Init, Unclaimed

(* Every step preserves it.                                                *)
LEMMA NextClaims ==
  ASSUME Inv, ClaimInv, [Next]_vars
  PROVE  ClaimInv'
<1>1. Live' => Live
  BY LiveEnds
<1>2. ASSUME NEW w \in GuestHandlers, GuestCall(w) \/ GuestStep(w)
      PROVE  ClaimInv'
  BY <1>1, <1>2, GuestCallClaims, AdmitClaims, RenewClaims DEF GuestStep
<1>3. ASSUME NEW w \in PresenterHandlers, PresenterCall(w) \/ PresenterStep(w)
      PROVE  ClaimInv'
  <2>1. w \in Worker
    BY DEF Worker
  <2> QED
    BY <1>1, <1>3, <2>1, PresenterCallClaims, AdministerClaims, DeleteBeginClaims, CleanEventClaims
    DEF PresenterStep
<1>4. ASSUME NEW w \in RecoveryWorkers, ScanEvent(w) \/ Reconcile(w)
      PROVE  ClaimInv'
  BY <1>1, <1>4, ReconcileClaims
<1>5. ASSUME NEW w \in Worker, Crash(w)
      PROVE  ClaimInv'
  <2>1. Idle.pc \notin Watched
    BY NextNumberUnwatched, <1>5
  <2> QED
    BY <1>1, <1>5, <2>1, Passing DEF Crash, store, Proceed
<1>6. CASE UNCHANGED vars
  BY <1>6 DEF vars, store, ClaimInv, ClaimsOK, PlaceKept, Reclaimable, Unclaimed, SlotHas, Own, Live
<1> QED
  BY <1>1, <1>2, <1>3, <1>4, <1>5, <1>6, ClockClaims DEF Next

(* The claims mean what they should in every reachable state.              *)
THEOREM ClaimsStand == Spec => []ClaimInv
<1>1. Init => ClaimInv
  BY InitClaims
<1>2. Inv /\ ClaimInv /\ [Next]_vars => ClaimInv'
  BY NextClaims
<1> QED
  BY <1>1, <1>2, Invariance, PTL DEF Spec

(* The cookie of a guest whose place nobody has claimed leads to it, as    *)
(* long as the event is not being deleted (access/recovery.go:71, 178).    *)
THEOREM HoldersResume == Spec => []HolderCanResume
<1>1. ClaimInv => HolderCanResume
  BY DEF ClaimInv, HolderCanResume, PlaceKept, Live
<1> QED
  BY <1>1, ClaimsStand, PTL

-----------------------------------------------------------------------------
(* Which steps put a claim into a record that had none: only the claim of  *)
(* a cleanup does.                                                         *)
LEMMA ClaimWriters ==
  ASSUME Inv, ClaimInv, [Next]_vars, NEW n \in Slot,
         Unclaimed(n), slot'[n] # NoSlot, slot'[n].cleanup # "none"
  PROVE  \E w \in Worker : job[w].pc = "clean_claim" /\ job[w].num = n /\ w \in holdsSlot[n]
<1>1. TypeOK /\ slot[n] # NoSlot /\ slot[n] \in SlotRecord /\ slot[n].cleanup = "none"
  BY DEF Inv, TypeOK, Unclaimed
<1>2. slot' # slot
  BY <1>1
<1>3. ASSUME NEW w \in Worker, NEW m \in Slot, NEW rec, NEW j, UpdateSlot(w, m, rec, j),
             rec.cleanup = slot[m].cleanup
      PROVE  FALSE
  <2>1. slot' = [slot EXCEPT ![m] = rec]
    BY <1>3 DEF UpdateSlot
  <2> QED
    BY <1>1, <1>3, <2>1 DEF TypeOK
<1>4. ASSUME NEW w \in Worker, NEW m \in Slot, NEW j, DropSlot(w, m, j)
      PROVE  FALSE
  <2>1. slot' = [slot EXCEPT ![m] = NoSlot]
    BY <1>4 DEF DropSlot
  <2> QED
    BY <1>1, <2>1 DEF TypeOK
<1>5. ASSUME NEW w \in Worker, NEW done, NEW failed, CleanSlot(w, done, failed)
      PROVE  job[w].pc = "clean_claim" /\ job[w].num = n /\ w \in holdsSlot[n]
  <2>1. job[w].num \in Slot /\ ClaimsOK(w)
    <3>1. job[w].pc \in Cleanup
      BY <1>5 DEF CleanSlot, CleanClaim, CleanAcked, CleanUnanswered, CleanBackoff, CleanUnindex, CleanDrop,
                  CleanFails, At, Cleanup
    <3> QED
      BY <3>1, OwnUsed DEF ClaimInv, Identified
  <2>2. ASSUME NEW j, UpdateSlot(w, job[w].num, [slot[job[w].num] EXCEPT !.cleanup = "held"], j)
        PROVE  job[w].num = n /\ w \in holdsSlot[n] /\ SlotHas(n, Own(w))
    <3>1. job[w].num = n /\ w \in holdsSlot[n]
      BY <1>1, <2>1, <2>2 DEF UpdateSlot, TypeOK
    <3> QED
      BY <3>1 DEF Inv, HoldsOK, Own
  <2>3. CASE CleanClaim(w, failed)
    BY <1>2, <2>2, <2>3 DEF CleanClaim, At
  <2>4. CASE CleanBackoff(w, failed)
    <3>1. job[w].pc \in Asked /\ job[w].num = n /\ SlotHas(n, Own(w))
      BY <1>2, <2>2, <2>4 DEF CleanBackoff, At, Asked
    <3> QED
      BY <2>1, <3>1 DEF ClaimsOK
  <2>5. CASE CleanDrop(w, done, failed)
    BY <1>2, <1>4, <2>1, <2>5 DEF CleanDrop
  <2> QED
    BY <1>2, <1>5, <2>3, <2>4, <2>5 DEF CleanSlot, CleanAcked, CleanUnanswered, CleanUnindex, CleanFails, store
<1>6. ASSUME NEW w \in GuestHandlers, GuestCall(w) \/ GuestStep(w)
      PROVE  w \in Worker /\ job[w].pc = "clean_claim" /\ job[w].num = n /\ w \in holdsSlot[n]
  <2>1. w \in Worker
    BY DEF Worker
  <2>2. CASE StartCreate(w)
    <3>1. PICK g \in Gen : CreateSlot(w, g)
      BY <2>2 DEF StartCreate
    <3>2. slot[job[w].num] = NoSlot /\ slot' = [slot EXCEPT ![job[w].num] = NewSlot(g)]
      BY <3>1 DEF CreateSlot
    <3> QED
      BY <1>1, <3>2 DEF TypeOK
  <2>3. CASE StartUndo(w)
    <3>1. job[w].num \in Slot
      BY <2>1, <2>3, OwnUsed DEF StartUndo, Identified, Provisional
    <3> QED
      BY <1>2, <1>4, <2>1, <2>3, <3>1 DEF StartUndo
  <2>4. CASE StartCleanup(w)
    BY <1>5, <2>1, <2>4 DEF StartCleanup
  <2>5. CASE RenewCommit(w)
    <3>1. job[w].num \in Slot
      BY <2>1, <2>5, OwnUsed DEF RenewCommit, At, Identified, Renewal
    <3>2. slot[job[w].num] # NoSlot /\ slot[job[w].num] \in SlotRecord
      BY <1>1, <2>1, <2>5, <3>1 DEF Inv, TypeOK, HoldsOK, RenewCommit, UpdateSlot, SlotHas
    <3>3. [slot[job[w].num] EXCEPT !.reserved = FALSE, !.expired = FALSE].cleanup = slot[job[w].num].cleanup
      BY <3>2 DEF SlotRecord
    <3> QED
      BY <1>3, <2>1, <2>5, <3>1, <3>3 DEF RenewCommit
  <2> QED
    BY <1>2, <1>6, <2>1, <2>2, <2>3, <2>4, <2>5
    DEF GuestCall, GuestStep, StartSession, RenewSession, Admit, StartNoSecret, StartOccupied, StartSkip,
        StartTakeOver, StartRecheck, StartIndex, StartIndexFails, StartMintFails, StartCallFails,
        Renew, RenewEvent, RenewSlot, RenewConflict, store
<1>7. ASSUME NEW w \in Worker, CleanEvent(w)
      PROVE  FALSE
  <2>1. CASE FinalDrop(w)
    <3>1. job[w].num \in Slot
      BY <2>1, OwnUsed DEF FinalDrop, At, Identified
    <3> QED
      BY <1>2, <1>4, <2>1, <3>1 DEF FinalDrop
  <2> QED
    BY <1>2, <1>7, <2>1
    DEF CleanEvent, DeleteReceipt, DeleteClaim, DeleteList, DeleteAcked, DeleteUnanswered, DeleteBackoff,
        DeleteRecord, FinalList, FinalMark, FinalInvitation, FinalEvent, EventWrite, store
<1>8. ASSUME NEW w \in PresenterHandlers, PresenterCall(w) \/ PresenterStep(w)
      PROVE  w \in Worker /\ job[w].pc = "clean_claim" /\ job[w].num = n /\ w \in holdsSlot[n]
  <2>1. w \in Worker
    BY DEF Worker
  <2>2. CASE ReservePut(w)
    <3>1. PICK m \in Slot : UpdateSlot(w, m, [slot[m] EXCEPT !.reserved = TRUE], [job[w] EXCEPT !.seen[m] = NoGen])
      BY <1>2, <2>2 DEF ReservePut, Read
    <3>2. slot[m] # NoSlot /\ slot[m] \in SlotRecord
      BY <1>1, <2>1, <3>1 DEF Inv, TypeOK, HoldsOK, UpdateSlot, SlotHas
    <3>3. [slot[m] EXCEPT !.reserved = TRUE].cleanup = slot[m].cleanup
      BY <3>2 DEF SlotRecord
    <3> QED
      BY <1>3, <2>1, <3>1, <3>3
  <2>3. CASE ReleaseCleanup(w)
    BY <1>5, <2>1, <2>3 DEF ReleaseCleanup
  <2> QED
    BY <1>2, <1>7, <1>8, <2>1, <2>2, <2>3
    DEF PresenterCall, PresenterStep, SetState, UpdateCapacity, ReleaseSlot, DeleteEvent, Administer, SetReload,
        SetPut, ReserveList, ReserveDone, CapacityReload, CapacityPut, ReleaseRead, DeleteBegin, EventWrite, store
<1>9. ASSUME NEW w \in RecoveryWorkers, ScanEvent(w) \/ Reconcile(w)
      PROVE  w \in Worker /\ job[w].pc = "clean_claim" /\ job[w].num = n /\ w \in holdsSlot[n]
  <2>1. w \in Worker
    BY DEF Worker
  <2>2. CASE ScanCleanup(w)
    BY <1>5, <2>1, <2>2 DEF ScanCleanup
  <2> QED
    BY <1>2, <1>7, <1>9, <2>1, <2>2 DEF ScanEvent, Reconcile, ScanList, ScanPick, store
<1>10. CASE Clock
  <2>1. ASSUME NEW m \in Slot, Expire(m) \/ SlotClaimDue(m)
        PROVE  FALSE
    <3>1. slot[m] \in SlotRecord
      BY <1>1, <2>1 DEF TypeOK, Expire, SlotClaimDue, Unclaimed
    <3>2. CASE Expire(m)
      <4>1. slot' = [slot EXCEPT ![m] = [slot[m] EXCEPT !.expired = TRUE]]
        BY <3>2 DEF Expire
      <4>2. [slot[m] EXCEPT !.expired = TRUE].cleanup = slot[m].cleanup
        BY <3>1 DEF SlotRecord
      <4> QED
        BY <1>1, <4>1, <4>2 DEF TypeOK
    <3>3. CASE SlotClaimDue(m)
      <4>1. m # n
        BY <1>1, <3>3 DEF SlotClaimDue
      <4> QED
        BY <1>1, <3>3, <4>1 DEF SlotClaimDue, TypeOK
    <3> QED
      BY <2>1, <3>2, <3>3
  <2> QED
    BY <1>2, <1>10, <2>1 DEF Clock, EventClaimDue
<1> QED
  BY <1>2, <1>6, <1>8, <1>9, <1>10 DEF Next, Crash, vars, store

(* However long ago a guest handler or a recovery pass judged a place to   *)
(* be expired, it is expired and not reserved when they claim it; only a   *)
(* presenter takes another (README:168-169, access/service.go:303-309,     *)
(* access/recovery.go:47-63).                                              *)
THEOREM OnlyExpiredAreReclaimed == Spec => OnlyExpiredReclaimed
<1>1. ASSUME Inv, ClaimInv, [Next]_vars, NEW n \in Slot,
             Unclaimed(n), slot'[n] # NoSlot, slot'[n].cleanup # "none"
      PROVE  \/ slot[n].expired /\ ~ slot[n].reserved
             \/ \E w \in PresenterHandlers : At(w, "clean_claim") /\ job[w].num = n
  <2>1. PICK w \in Worker : job[w].pc = "clean_claim" /\ job[w].num = n /\ w \in holdsSlot[n]
    BY <1>1, ClaimWriters
  <2>2. CASE w \in PresenterHandlers
    BY <2>1, <2>2 DEF At
  <2>3. CASE w \in GuestHandlers \cup RecoveryWorkers
    <3>1. Reclaimable(n)
      BY <1>1, <2>1, <2>3 DEF ClaimInv, ClaimsOK, Scanning, Cleanup
    <3> QED
      BY <1>1, <3>1 DEF Reclaimable
  <2> QED
    BY <2>2, <2>3 DEF Worker
<1>2. ASSUME Inv, ClaimInv, [Next]_vars
      PROVE  [\A n \in Slot :
                (Unclaimed(n) /\ slot'[n] # NoSlot /\ slot'[n].cleanup # "none") =>
                  \/ slot[n].expired /\ ~ slot[n].reserved
                  \/ \E w \in PresenterHandlers : At(w, "clean_claim") /\ job[w].num = n]_vars
  BY <1>1, <1>2
<1> QED
  BY <1>2, Invariance, ClaimsStand, PTL DEF Spec, OnlyExpiredReclaimed

-----------------------------------------------------------------------------
(* A worker's step moves nobody else on.                                   *)
Moves(w) == \A u \in Worker \ {w} : job'[u] = job[u]

LEMMA CleanSlotMoves ==
  ASSUME TypeOK, NEW w \in Worker, NEW done, NEW failed, CleanSlot(w, done, failed)
  PROVE  Moves(w)
BY DEF Moves, TypeOK, CleanSlot, CleanClaim, CleanAcked, CleanUnanswered, CleanBackoff, CleanUnindex, CleanDrop,
       CleanFails, UpdateSlot, DropSlot, Refused, Proceed, Goto

LEMMA CleanEventMoves ==
  ASSUME TypeOK, NEW w \in Worker, CleanEvent(w)
  PROVE  Moves(w)
BY DEF Moves, TypeOK, CleanEvent, DeleteReceipt, DeleteClaim, DeleteList, DeleteAcked, DeleteUnanswered,
       DeleteBackoff, DeleteRecord, FinalList, FinalMark, FinalDrop, FinalInvitation, FinalEvent, EventWrite,
       ListOne, UpdateEvent, DropSlot, Refused, Proceed, Goto

LEMMA PresenterMoves ==
  ASSUME TypeOK, NEW w \in PresenterHandlers, PresenterCall(w) \/ PresenterStep(w)
  PROVE  Moves(w)
<1>1. w \in Worker
  BY DEF Worker
<1>2. CASE PresenterCall(w)
  BY <1>1, <1>2 DEF Moves, TypeOK, PresenterCall, SetState, UpdateCapacity, ReleaseSlot, DeleteEvent, Proceed, Goto
<1>3. CASE Administer(w) /\ ~ ReleaseCleanup(w)
  BY <1>1, <1>3 DEF Moves, TypeOK, Administer, SetReload, SetPut, RetryEvent, ReserveList, ReservePut, ReserveDone,
     CapacityReload, CapacityPut, ReleaseRead, ListOne, UpdateSlot, UpdateEvent, Refused, Proceed, Goto
<1>4. CASE DeleteBegin(w)
  BY <1>1, <1>4 DEF Moves, TypeOK, DeleteBegin, EventWrite, UpdateEvent, Proceed, Goto
<1> QED
  BY <1>1, <1>2, <1>3, <1>4, CleanSlotMoves, CleanEventMoves DEF PresenterStep, ReleaseCleanup

LEMMA RecoveryMoves ==
  ASSUME TypeOK, NEW w \in RecoveryWorkers, ScanEvent(w) \/ Reconcile(w)
  PROVE  Moves(w)
<1>1. w \in Worker
  BY DEF Worker
<1>2. CASE ScanEvent(w) \/ ScanList(w) \/ ScanPick(w)
  BY <1>1, <1>2 DEF Moves, TypeOK, ScanEvent, ScanList, ScanPick, ListOne, Proceed, Goto
<1> QED
  BY <1>1, <1>2, CleanSlotMoves, CleanEventMoves DEF Reconcile, ScanCleanup

LEMMA GuestMoves ==
  ASSUME TypeOK, NEW w \in GuestHandlers, GuestCall(w) \/ GuestStep(w)
  PROVE  Moves(w)
<1>1. w \in Worker
  BY DEF Worker
<1>2. CASE GuestCall(w)
  BY <1>1, <1>2 DEF Moves, TypeOK, GuestCall, StartSession, RenewSession, Proceed, Goto
<1>3. CASE Renew(w)
  BY <1>1, <1>3 DEF Moves, TypeOK, Renew, RenewEvent, RenewSlot, RenewCommit, RenewConflict, UpdateSlot, Refused,
     Proceed, Goto
<1>4. CASE Admit(w) /\ ~ StartCleanup(w)
  BY <1>1, <1>4 DEF Moves, TypeOK, Admit, StartCreate, CreateSlot, StartNoSecret, StartOccupied, StartSkip,
     StartTakeOver, StartRecheck, StartIndex, StartIndexFails, StartMintFails, StartUndo, StartCallFails,
     UpdateSlot, DropSlot, Refused, Proceed, Goto
<1> QED
  BY <1>1, <1>2, <1>3, <1>4, CleanSlotMoves DEF GuestStep, StartCleanup

(* A renewal that reaches its write under the revision it read renews a    *)
(* place that nobody claimed, and no such place of a live event is erased: *)
(* no identity whose erasure was acknowledged gets a new lease             *)
(* (access/service.go:385-393).                                            *)
THEOREM ErasedAreNotRenewed == Spec => ErasedNotRenewed
<1>1. ASSUME Inv, ClaimInv, [Next]_vars, NEW w \in GuestHandlers,
             At(w, "renew_put"), slot' # slot, job'[w] # job[w], Live
      PROVE  Own(w) \notin acked
  <2>1. /\ TypeOK /\ w \in Worker /\ w \notin PresenterHandlers \cup RecoveryWorkers
        /\ job[w].num \in Slot /\ HoldsOK(w) /\ ClaimsOK(w)
    BY <1>1, OwnUsed, RolesAssumption DEF Inv, Worker, At, Identified, Renewal, ClaimInv
  <2>2. GuestCall(w) \/ GuestStep(w)
    <3>1. \A v \in Worker : Moves(v) => v = w
      BY <1>1, <2>1 DEF Moves
    <3>2. ~ UNCHANGED vars /\ ~ Clock /\ \A v \in Worker : ~ Crash(v)
      BY <1>1 DEF vars, store, Clock, Expire, SlotClaimDue, EventClaimDue, Crash
    <3>3. \A v \in GuestHandlers : GuestCall(v) \/ GuestStep(v) => v = w
      BY <2>1, <3>1, GuestMoves DEF Worker
    <3>4. \A v \in PresenterHandlers : ~ (PresenterCall(v) \/ PresenterStep(v))
      BY <2>1, <3>1, PresenterMoves DEF Worker
    <3>5. \A v \in RecoveryWorkers : ~ (ScanEvent(v) \/ Reconcile(v))
      BY <2>1, <3>1, RecoveryMoves DEF Worker
    <3> QED
      BY <1>1, <3>2, <3>3, <3>4, <3>5 DEF Next
  <2>3. RenewCommit(w)
    <3>1. job[w].pc = "renew_put"
      BY <1>1 DEF At
    <3> QED
      BY <1>1, <2>2, <3>1 DEF GuestCall, StartSession, RenewSession, GuestStep, Renew, RenewEvent, RenewSlot,
         RenewConflict, Admit, StartCreate, CreateSlot, StartNoSecret, StartOccupied, StartSkip, StartTakeOver,
         StartRecheck, StartIndex, StartIndexFails, StartMintFails, StartUndo, StartCallFails, StartCleanup,
         CleanSlot, CleanClaim, CleanAcked, CleanUnanswered, CleanBackoff, CleanUnindex, CleanDrop, CleanFails,
         At, store
  <2>4. w \in holdsSlot[job[w].num]
    BY <2>3 DEF RenewCommit, UpdateSlot
  <2>5. SlotHas(job[w].num, Own(w)) /\ Unclaimed(job[w].num)
    BY <1>1, <2>1, <2>4 DEF HoldsOK, Own, ClaimsOK, At
  <2> QED
    BY <1>1, <2>1, <2>5 DEF ClaimInv, PlaceKept, SlotHas
<1>2. ASSUME Inv, ClaimInv, [Next]_vars
      PROVE  [\A w \in GuestHandlers :
                (At(w, "renew_put") /\ slot' # slot /\ job'[w] # job[w] /\ event # NoEvent /\ event.state # "deleting")
                  => Own(w) \notin acked]_vars
  BY <1>1, <1>2 DEF Live
<1> QED
  BY <1>2, Invariance, ClaimsStand, PTL DEF Spec, ErasedNotRenewed
=============================================================================
