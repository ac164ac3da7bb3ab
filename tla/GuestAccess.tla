----------------------------- MODULE GuestAccess -----------------------------
(***************************************************************************)
(* The access service as a whole: guests, presenters and recovery workers, *)
(* in any number of processes, operating on one event through one store.   *)
(***************************************************************************)
EXTENDS Admission, Lease, EventAdmin, Recovery

(* The event as CreateEvent leaves it.                                     *)
Init ==
  /\ event \in {[state |-> "draft", capacity |-> c, cleanup |-> "none"] : c \in 0 .. MaxCapacity}
  /\ slot = [n \in Slot |-> NoSlot]
  /\ session = [g \in Gen |-> NoIndex]
  /\ receipt = NoReceipt
  /\ invitation = TRUE
  /\ holdsEvent = {}
  /\ holdsSlot = [n \in Slot |-> {}]
  /\ used = {} /\ issued = {} /\ acked = {}
  /\ job = [w \in Worker |-> Idle]
  /\ faults = 0

-----------------------------------------------------------------------------
(* The clock: a grace period ends, a claim's NextAttemptAt is reached.  No *)
(* operation asks for the grace period of a slot with a claim.             *)

Expire(n) ==
  /\ Unclaimed(n) /\ ~ slot[n].expired
  /\ slot' = [slot EXCEPT ![n].expired = TRUE]
  /\ UNCHANGED <<event, session, receipt, invitation, holdsEvent, holdsSlot,
                 used, issued, acked, job, faults>>

(* The claim's NextAttemptAt is set ConfigureCleanupLease ahead, longer    *)
(* than the request to the application may take (access/recovery.go:18-22, *)
(* README:172).  With LeaseSuffices the whole cleanup fits as well.        *)
Cleaning(w, n) ==
  /\ job[w].pc \in {"clean_call", "clean_backoff", "clean_unindex", "clean_drop"}
  /\ job[w].num = n /\ w \in holdsSlot[n]

Deleting(w) ==
  /\ job[w].pc \in {"delete_list", "delete_call", "delete_backoff", "delete_record",
                    "final_list", "final_mark", "final_drop", "final_event"}
  /\ w \in holdsEvent

SlotClaimDue(n) ==
  /\ slot[n] # NoSlot /\ slot[n].cleanup = "held"
  /\ LeaseSuffices => \A w \in Worker : ~ Cleaning(w, n)
  /\ slot' = [slot EXCEPT ![n].cleanup = "due"]
  /\ UNCHANGED <<event, session, receipt, invitation, holdsEvent, holdsSlot,
                 used, issued, acked, job, faults>>

EventClaimDue ==
  /\ event # NoEvent /\ event.cleanup = "held"
  /\ LeaseSuffices => \A w \in Worker : ~ Deleting(w)
  /\ event' = [event EXCEPT !.cleanup = "due"]
  /\ UNCHANGED <<slot, session, receipt, invitation, holdsEvent, holdsSlot,
                 used, issued, acked, job, faults>>

Clock == EventClaimDue \/ \E n \in Slot : Expire(n) \/ SlotClaimDue(n)

(* An operation ends where it stands: its process died, its context was    *)
(* cancelled, or a call to the store failed and the handler returned.      *)
Crash(w) ==
  /\ ~ At(w, "idle")
  /\ Fault
  /\ Proceed(w, Idle)
  /\ UNCHANGED <<store, used, issued, acked>>

-----------------------------------------------------------------------------
(* A call arrives; a worker goes on with what it is doing.                 *)

GuestCall(w) ==
  \/ "start" \in Requests /\ StartSession(w)
  \/ "renew" \in Requests /\ \E g \in Gen : RenewSession(w, g)

PresenterCall(w) ==
  \/ "open" \in Requests /\ SetState(w, "open")
  \/ "pause" \in Requests /\ SetState(w, "paused")
  \/ "capacity" \in Requests /\ \E capacity \in 0 .. MaxCapacity : UpdateCapacity(w, capacity)
  \/ "release" \in Requests /\ \E n \in Slot : ReleaseSlot(w, n)
  \/ "delete" \in Requests /\ DeleteEvent(w)

GuestStep(w) == Admit(w) \/ Renew(w)
PresenterStep(w) == Administer(w) \/ DeleteBegin(w) \/ CleanEvent(w)

Next ==
  \/ \E w \in GuestHandlers : GuestCall(w) \/ GuestStep(w)
  \/ \E w \in PresenterHandlers : PresenterCall(w) \/ PresenterStep(w)
  \/ \E w \in RecoveryWorkers : ScanEvent(w) \/ Reconcile(w)
  \/ \E w \in Worker : Crash(w)
  \/ Clock

Spec == Init /\ [][Next]_vars

-----------------------------------------------------------------------------
(* Every variable has its type.                                            *)
TypeOK ==
  /\ event \in Event \cup {NoEvent}
  /\ slot \in [Slot -> SlotRecord \cup {NoSlot}]
  /\ session \in [Gen -> Index \cup {NoIndex}]
  /\ receipt \in Nat \cup {NoReceipt}
  /\ invitation \in BOOLEAN
  /\ holdsEvent \subseteq Worker
  /\ holdsSlot \in [Slot -> SUBSET Worker]
  /\ used \subseteq Gen /\ issued \subseteq Gen /\ acked \subseteq Gen
  /\ job \in [Worker -> Job]
  /\ faults \in 0 .. MaxFaults

(* An identity that was ever handed out keeps its slot until the           *)
(* application has acknowledged its erasure, whatever admission, release,  *)
(* recovery and event deletion do to the slot at the same time (README:129 *)
(* "The service does not release or reuse a slot until cleanup succeeds"). *)
PurgeBeforeRelease ==
  \A g \in issued : g \in acked \/ \E n \in Slot : SlotHas(n, g)

(* Once there is a receipt every identity ever handed out is erased, those *)
(* whose admission was still under way when the deletion listed the slots  *)
(* included (access/recovery.go:131-165, access/service.go:318-325).       *)
ReceiptCoversEveryone == receipt # NoReceipt => issued \subseteq acked

(* When the event is gone there is a receipt, the invitation is gone, and  *)
(* no guest is left behind in a slot nobody scans any more (access/        *)
(* recovery.go:168-193).                                                   *)
NothingLeftBehind ==
  event = NoEvent =>
    /\ receipt # NoReceipt
    /\ ~ invitation
    /\ \A n \in Slot : slot[n] # NoSlot => slot[n].gen \notin issued

(* A guest whose slot nobody is cleaning finds it through its cookie: the  *)
(* index is removed only under a claim (access/recovery.go:71) or by the   *)
(* deletion of the event (:178).                                           *)
HolderCanResume ==
  \A n \in Slot :
    (Unclaimed(n) /\ slot[n].gen \in issued /\ event # NoEvent /\ event.state # "deleting")
      => session[slot[n].gen] = [slot |-> n, deleted |-> FALSE]

-----------------------------------------------------------------------------
(* The places as GuestPlaces has them: the event is over when its record   *)
(* is gone, and recorded from the creation of the receipt.                 *)
Occupant == [n \in Slot |-> IF slot[n] = NoSlot THEN NoGen ELSE slot[n].gen]

Stage ==
  CASE event = NoEvent -> "over"
    [] event # NoEvent /\ receipt # NoReceipt -> "recorded"
    [] event # NoEvent /\ receipt = NoReceipt ->
         IF event.state = "deleting" THEN "ending" ELSE "serving"

Places == INSTANCE GuestPlaces WITH place <- Occupant, stage <- Stage

(* All the reads, conditional writes, claims, retries and failures of the  *)
(* service come to the steps of GuestPlaces: no place passes from guest to *)
(* guest without an erasure between them, nobody is handed a place that is *)
(* another's or is gone unerased, no receipt is written or survives with a *)
(* guest it does not cover (access/service.go:265-333, access/recovery.go: *)
(* 34-193).                                                                *)
KeepsPlaces == Places!Spec

-----------------------------------------------------------------------------
(* A deletion that began is never undone by a slower open, pause, reopen   *)
(* or capacity change that had read the event before (access/service.go:   *)
(* 157, 189, 464).                                                         *)
DeletionIsFinal ==
  [][EventIs("deleting") => event' = NoEvent \/ event'.state = "deleting"]_vars

(* A presenter may release any slot.  Otherwise a cleanup is claimed only  *)
(* on a slot that, at the moment of the claim, is unreserved and past its  *)
(* grace period, however long ago it was judged so (README:168-169).       *)
OnlyExpiredReclaimed ==
  [][\A n \in Slot :
       (Unclaimed(n) /\ slot'[n] # NoSlot /\ slot'[n].cleanup # "none") =>
         \/ slot[n].expired /\ ~ slot[n].reserved
         \/ \E w \in PresenterHandlers : At(w, "clean_claim") /\ job[w].num = n]_vars

(* While the event is not being deleted, an identity whose erasure was     *)
(* acknowledged gets no new lease (access/service.go:385-393).             *)
ErasedNotRenewed ==
  [][\A w \in GuestHandlers :
       (At(w, "renew_put") /\ slot' # slot /\ job'[w] # job[w] /\ event # NoEvent /\ event.state # "deleting")
         => Own(w) \notin acked]_vars

-----------------------------------------------------------------------------
(* Fairness.  A goroutine that has work to do runs; the controller ticks   *)
(* for ever (recovery/controller.go:34-49); the clock advances; and an     *)
(* application that is asked again and again to erase answers in the end.  *)

Step(w) ==
  \/ w \in GuestHandlers /\ GuestStep(w)
  \/ w \in PresenterHandlers /\ PresenterStep(w)
  \/ w \in RecoveryWorkers /\ Reconcile(w)

Acked(w) == CleanAcked(w) \/ DeleteAcked(w)

Fairness ==
  /\ \A w \in Worker : WF_vars(Step(w)) /\ SF_vars(Acked(w))
  /\ \A w \in RecoveryWorkers : WF_vars(ScanEvent(w))
  /\ \A n \in Slot : WF_vars(Expire(n)) /\ WF_vars(SlotClaimDue(n))
  /\ WF_vars(EventClaimDue)

FairSpec == Spec /\ Fairness

(* A deletion that was begun completes, through faults, failed erasures   *)
(* and interrupted finalizations.                                          *)
DeletionCompletes == EventIs("deleting") ~> event = NoEvent

(* A slot whose cleanup was claimed is in the end free of that identity,   *)
(* whichever claimant dies or is refused.  (Slots of an event that is gone *)
(* are scanned no more; NothingLeftBehind says that no guest is in one.)   *)
ErasureCompletes ==
  \A n \in Slot : \A g \in Gen :
    (SlotHas(n, g) /\ ~ Unclaimed(n)) ~> (~ SlotHas(n, g) \/ event = NoEvent)

(* An expired, unreserved slot of an open event is reclaimed, unless its   *)
(* guest comes back or the event closes first.                             *)
ExpiredReclaimed ==
  \A n \in Slot : \A g \in Gen :
    (SlotHas(n, g) /\ slot[n].expired /\ ~ slot[n].reserved /\ EventIs("open"))
      ~> (~ SlotHas(n, g) \/ ~ slot[n].expired \/ slot[n].reserved \/ ~ EventIs("open"))
=============================================================================
