---------------------------- MODULE GuestSession ----------------------------
(***************************************************************************)
(* What one guest is told, and for how long it holds: the guest endpoints  *)
(* (api/api.go:78-138, 314-349), admission and renewal with their readings *)
(* of the clock (access/service.go:265-401), the token (issuer/issuer.go:  *)
(* 92-110) and the write timeout of the server (main.go:97-101).           *)
(*                                                                         *)
(* GuestAccess has the interleavings of the writes and no clock.  This     *)
(* module has the clock and the answers, and follows ONE identity from the *)
(* request that draws it to its last answer.  Every answer is a promise    *)
(* about times: the lease and grace period of the place, computed from a   *)
(* reading of the clock before the place was written, and the expiry of a  *)
(* token, computed from another one after it.  Between them an admission   *)
(* may have waited for the clean-up of other places, and an answer that is *)
(* not written WriteTimeout after its request was read reaches nobody.     *)
(*                                                                         *)
(* All processes are taken to read one clock.  What presenters, recovery   *)
(* and other guests do to the place is reduced to the writes GuestAccess   *)
(* has them make; a revision is, as there, who still remembers it.         *)
(***************************************************************************)
EXTENDS Naturals

CONSTANTS
  Handlers,      \* goroutines serving requests of this guest
  LeaseTTL, GracePeriod, TokenTTL,    \* NGA_LEASE_TTL, NGA_GRACE_PERIOD, NGA_TOKEN_TTL
  WriteTimeout,  \* of the HTTP server, from the reading of the request
  Horizon,       \* bound: the clock stops there
  MaxFaults,     \* bound: crashes and failed calls
  NoPlace, Never

(* What start-up insists on: a grace period may be zero, lease and token   *)
(* may not.                                                                *)
Loads == LeaseTTL \in Nat \ {0} /\ GracePeriod \in Nat /\ TokenTTL \in Nat \ {0}

ASSUME ConfigAssumption ==
  /\ Loads
  /\ WriteTimeout \in Nat /\ Horizon \in Nat /\ MaxFaults \in Nat
  /\ Never \notin Nat

Place == [grace : Nat, reserved : BOOLEAN, claim : {"none", "expiry", "release"}]
ASSUME PlaceAssumption == NoPlace \notin Place

Kind == {"start", "token", "heartbeat"}
PC == {"idle", "create", "recheck", "index", "undo",
       "event", "slot", "write", "answer"}

Job == [pc    : PC,
        kind  : Kind,
        at    : Nat,      \* when the request was read
        late  : BOOLEAN,  \* did it come after an answer that the event is deleted?
        clock : Nat,      \* now, as the operation read it
        grace : Nat]      \* GraceExpiresAt of what it wrote

Idle == [pc |-> "idle", kind |-> "start", at |-> 0, late |-> FALSE,
         clock |-> 0, grace |-> 0]

VARIABLES
  now,
  event,       \* open, paused, deleting, or gone
  place,       \* the guest's slot record
  index,       \* its session index: none, live, or tombstone
  drawn,       \* was the identity drawn?
  holds,       \* handlers remembering the place's current revision
  judged,      \* does a reclaimer remember it, having found the place expired?
  marked,      \* does a finalization remember it, having marked the index?
  unindexed,   \* has a cleaner of the place removed the index?
  reserving,   \* is a pause about to reserve the places?
  job,
  cookie,      \* does the browser have the cookie?
  promised,    \* history: latest time a delivered answer said the place is kept
  token,       \* history: latest expiry of a delivered token
  told,        \* history: was a request answered with event_deleted?
  misled,      \* history: was one answered with session_expired, without need?
  lost,        \* history: when the place was claimed as expired
  faults

others  == <<event, reserving, judged, marked, unindexed>>
history == <<promised, token, told, misled, lost>>
vars == <<now, others, place, index, drawn, holds, job, cookie, history, faults>>

At(h, label) == job[h].pc = label
Proceed(h, j) == job' = [job EXCEPT ![h] = j]
Fault == faults < MaxFaults /\ faults' = faults + 1

Unclaimed == place # NoPlace /\ place.claim = "none"
Alive == Unclaimed /\ (place.reserved \/ now < place.grace)
Kept(clock) == clock + LeaseTTL + GracePeriod

(* A write to the place: of those who knew its revision hs still do.       *)
WritePlace(p, hs) ==
  /\ place' = p /\ holds' = hs
  /\ judged' = FALSE /\ marked' = FALSE
  /\ unindexed' = (unindexed /\ p # NoPlace)
  /\ UNCHANGED <<event, reserving>>

Done(h) == Proceed(h, Idle) /\ holds' = holds \ {h}

(* How the errors of the access service are answered; any other error, of  *)
(* the store or of the issuer, is an internal one.                         *)
Code == {"event_paused", "event_deleted", "session_expired", "not_found",
         "conflict", "capacity_reached", "admission_closed", "internal_error"}

(* The operation of h ends with an error, which is answered whether or not *)
(* the answer arrives.                                                     *)
Refuse(h, code) ==
  /\ code \in Code
  /\ Done(h)
  /\ told' = (told \/ code = "event_deleted")
  /\ misled' = (misled \/ (code = "session_expired" /\ Alive /\ UNCHANGED faults))
  /\ UNCHANGED <<promised, token, lost>>

-----------------------------------------------------------------------------
(* A request is read, and the operation makes its first look at the store. *)
Request(kind) == [Idle EXCEPT !.kind = kind, !.at = now, !.late = told]

(* StartSession: invitation and event, which may have no room at all, then *)
(* the one reading of the clock for the whole walk over the numbers.       *)
StartSession(h) ==
  /\ At(h, "idle") /\ ~ drawn
  /\ \/ /\ event = "open"
        /\ Proceed(h, [Request("start") EXCEPT !.pc = "create", !.clock = now])
        /\ UNCHANGED <<holds, history>>
     \/ event = "paused" /\ Refuse(h, "event_paused")
     \/ event \in {"open", "deleting"} /\ Refuse(h, "admission_closed")
     \/ event \in {"deleting", "gone"} /\ Refuse(h, "not_found")
  /\ UNCHANGED <<now, others, place, index, drawn, cookie, faults>>

(* After as many clean-ups of other places as it takes, the walk finds a   *)
(* free number, or none.                                                   *)
StartCreate(h) ==
  LET grace == Kept(job[h].clock) IN
  /\ At(h, "create")
  /\ \/ /\ ~ drawn /\ drawn' = TRUE
        /\ WritePlace([grace |-> grace, reserved |-> FALSE, claim |-> "none"], {h})
        /\ Proceed(h, [job[h] EXCEPT !.pc = "recheck", !.grace = grace])
        /\ UNCHANGED <<history, faults>>
     \/ /\ \/ Refuse(h, "capacity_reached") /\ UNCHANGED faults
           \/ Fault /\ Refuse(h, "internal_error")
        /\ UNCHANGED <<others, place, drawn>>
  /\ UNCHANGED <<now, index, cookie>>

(* The event is read again: it must be open with room for this number, or  *)
(* the place is taken back and admission refused (StartUndo).              *)
StartRecheck(h) ==
  /\ At(h, "recheck")
  /\ \/ event = "open" /\ Proceed(h, [job[h] EXCEPT !.pc = "index"])
     \/ Proceed(h, [job[h] EXCEPT !.pc = "undo"])
  /\ UNCHANGED <<now, others, place, index, drawn, holds, cookie, history, faults>>

StartIndex(h) ==
  /\ At(h, "index")
  /\ \/ index' = "live" /\ Proceed(h, [job[h] EXCEPT !.pc = "answer"]) /\ UNCHANGED faults
     \/ /\ Fault /\ index' \in {index, "live"}
        /\ Proceed(h, [job[h] EXCEPT !.pc = "undo"])
  /\ UNCHANGED <<now, others, place, drawn, holds, cookie, history>>

StartUndo(h) ==
  /\ At(h, "undo")
  /\ \/ h \in holds /\ WritePlace(NoPlace, {})
     \/ h \notin holds /\ UNCHANGED <<others, place, holds>>
  /\ Proceed(h, Idle)
  /\ UNCHANGED <<now, index, drawn, cookie, history, faults>>

-----------------------------------------------------------------------------
(* renewLease, with the cookie: the index, then the event, then the slot.  *)
(* Admission with a cookie and no invitation is a renewal as well; a       *)
(* renewal without the cookie is refused before anything is looked at.     *)
RenewSession(h, kind) ==
  /\ At(h, "idle") /\ cookie /\ UNCHANGED faults
  /\ \/ index = "none" /\ Refuse(h, "session_expired")
     \/ index = "tombstone" /\ Refuse(h, "event_deleted")
     \/ /\ index = "live" /\ Proceed(h, [Request(kind) EXCEPT !.pc = "event"])
        /\ UNCHANGED <<holds, history>>
  /\ UNCHANGED <<now, others, place, index, drawn, cookie>>

RenewEvent(h) ==
  /\ At(h, "event")
  /\ \/ /\ event = "open" /\ Proceed(h, [job[h] EXCEPT !.pc = "slot"])
        /\ UNCHANGED <<holds, history>>
     \/ event = "paused" /\ Refuse(h, "event_paused")
     \/ event = "deleting" /\ Refuse(h, "event_deleted")
     \/ event = "gone" /\ Refuse(h, "not_found")
  /\ UNCHANGED <<now, others, place, index, drawn, cookie, faults>>

(* A mutant: the clock is read once, when the request comes in.            *)
RenewSlotOldClock(h) ==
  /\ At(h, "slot") /\ Alive
  /\ Proceed(h, [job[h] EXCEPT !.pc = "write", !.clock = job[h].at])
  /\ holds' = holds \cup {h}
  /\ UNCHANGED <<now, others, place, index, drawn, cookie, history, faults>>

(* The slot, and the clock read again for every attempt.  A slot that      *)
(* cannot be read is answered like one that is gone.                       *)
RenewSlot(h) ==
  /\ At(h, "slot")
  /\ \/ /\ Alive
        /\ Proceed(h, [job[h] EXCEPT !.pc = "write", !.clock = now])
        /\ holds' = holds \cup {h}
        /\ UNCHANGED <<history, faults>>
     \/ /\ (~ Alive /\ UNCHANGED faults) \/ Fault
        /\ Refuse(h, "session_expired")
  /\ UNCHANGED <<now, others, place, index, drawn, cookie>>

(* A mutant: the grace period is extended from where it ended.             *)
RenewedFromGrace(h) == [place EXCEPT !.reserved = FALSE, !.grace = Kept(@)]

Renewed(h) == [place EXCEPT !.reserved = FALSE, !.grace = Kept(job[h].clock)]

(* Written at the revision that was read; refused, begin again from the    *)
(* event, up to five times; or no answer from the store.                   *)
RenewWrite(h) ==
  /\ At(h, "write")
  /\ \/ /\ h \in holds /\ WritePlace(Renewed(h), {})
        /\ Proceed(h, [job[h] EXCEPT !.pc = "answer", !.grace = Kept(job[h].clock)])
        /\ UNCHANGED <<history, faults>>
     \/ /\ h \notin holds
        /\ \/ Refuse(h, "conflict")
           \/ /\ Proceed(h, [job[h] EXCEPT !.pc = "event", !.clock = 0])
              /\ UNCHANGED <<holds, history>>
        /\ UNCHANGED <<others, place, faults>>
     \/ /\ Fault
        /\ \/ h \in holds /\ WritePlace(Renewed(h), {}) /\ Proceed(h, Idle) /\ UNCHANGED history
           \/ Refuse(h, "internal_error") /\ UNCHANGED <<others, place>>
  /\ UNCHANGED <<now, index, drawn, cookie>>

-----------------------------------------------------------------------------
Later(a, b) == IF a < b THEN b ELSE a

(* Issuer.Mint reads the clock once more.                                  *)
Minted == now + TokenTTL

(* What the guest has from an answer: the cookie and a token (or, from a   *)
(* heartbeat, neither), and the time it may count on its place.            *)
Received(j) ==
  \/ /\ j.kind # "heartbeat"
     /\ cookie' = TRUE /\ token' = Later(token, Minted)
     /\ promised' = Later(promised, j.grace)
  \/ /\ j.kind = "heartbeat"
     /\ promised' = Later(promised, j.grace - GracePeriod)
     /\ UNCHANGED <<cookie, token>>

(* A mutant: an answer is delivered however long the operation took.       *)
AnswerAnyTime(h) ==
  /\ At(h, "answer")
  /\ Received(job[h]) /\ Done(h)
  /\ UNCHANGED <<now, others, place, index, drawn, told, misled, lost, faults>>

(* The token is minted and the answer written in time, or it reaches       *)
(* nobody; or minting fails, which is an internal error.                   *)
Answer(h) ==
  /\ At(h, "answer")
  /\ \/ now <= job[h].at + WriteTimeout /\ Received(job[h]) /\ UNCHANGED faults
     \/ UNCHANGED <<cookie, promised, token, faults>>
     \/ job[h].kind # "heartbeat" /\ Fault /\ UNCHANGED <<cookie, promised, token>>
  /\ Done(h)
  /\ UNCHANGED <<now, others, place, index, drawn, told, misled, lost>>

(* endSession takes the cookie from the browser, and nothing else.         *)
EndSession ==
  /\ cookie /\ cookie' = FALSE
  /\ UNCHANGED <<now, others, place, index, drawn, holds, job, history, faults>>

(* The process dies, the request is cancelled, or a read fails.            *)
Crash(h) ==
  /\ ~ At(h, "idle") /\ Fault
  /\ Done(h)
  /\ UNCHANGED <<now, others, place, index, drawn, cookie, history>>

-----------------------------------------------------------------------------
(* Presenters.  A pause writes the event and reserves the places later, or *)
(* dies before that; a release claims the place whatever its times.        *)

(* A mutant: an event is opened from any state.                            *)
SetOpenAny ==
  /\ event # "open" /\ event' = "open"
  /\ UNCHANGED <<now, place, index, drawn, holds, job, cookie, history, faults,
                 reserving, judged, marked, unindexed>>

SetOpen ==
  /\ event = "paused" /\ event' = "open"
  /\ UNCHANGED <<now, place, index, drawn, holds, job, cookie, history, faults,
                 reserving, judged, marked, unindexed>>

SetPaused ==
  /\ event \in {"open", "paused"} /\ event' = "paused"
  /\ reserving' = TRUE
  /\ UNCHANGED <<now, place, index, drawn, holds, job, cookie, history, faults,
                 judged, marked, unindexed>>

ReserveSlot ==
  /\ reserving /\ Unclaimed /\ ~ place.reserved
  /\ WritePlace([place EXCEPT !.reserved = TRUE], {})
  /\ UNCHANGED <<now, index, drawn, job, cookie, history, faults>>

Reserved ==
  /\ reserving /\ reserving' = FALSE
  /\ UNCHANGED <<now, event, place, index, drawn, holds, job, cookie, history, faults,
                 judged, marked, unindexed>>

ReleaseSlot ==
  /\ event \in {"open", "paused"} /\ Unclaimed
  /\ WritePlace([place EXCEPT !.claim = "release"], {})
  /\ UNCHANGED <<now, index, drawn, job, cookie, history, faults>>

(* Recovery passes and admissions of others find the place unreserved and  *)
(* past its grace period, and claim it at the revision they judged.        *)
Judge ==
  /\ event = "open" /\ Unclaimed /\ ~ Alive
  /\ judged' = TRUE
  /\ UNCHANGED <<now, place, index, drawn, holds, job, cookie, history, faults,
                 event, reserving, marked, unindexed>>

Claim ==
  /\ WritePlace([place EXCEPT !.claim = "expiry"], {})
  /\ lost' = now
  /\ UNCHANGED <<now, index, drawn, job, cookie, promised, token, told, misled, faults>>

(* A mutant: the lease is the end of the place, the grace period is not    *)
(* waited for.                                                             *)
ClaimInGrace ==
  /\ event = "open" /\ Unclaimed /\ ~ place.reserved
  /\ now + GracePeriod >= place.grace
  /\ Claim

ClaimExpired == judged /\ Claim

(* A mutant: the index goes before the claim is written.                   *)
UnindexJudged ==
  /\ judged \/ (place # NoPlace /\ ~ Unclaimed)
  /\ index' = "none" /\ unindexed' = TRUE
  /\ UNCHANGED <<now, place, drawn, holds, job, cookie, history, faults,
                 event, reserving, judged, marked>>

(* After the acknowledgement the index goes, then the place.               *)
Unindex ==
  /\ place # NoPlace /\ ~ Unclaimed
  /\ index' = "none" /\ unindexed' = TRUE
  /\ UNCHANGED <<now, place, drawn, holds, job, cookie, history, faults,
                 event, reserving, judged, marked>>

DropSlot ==
  /\ unindexed /\ WritePlace(NoPlace, {})
  /\ UNCHANGED <<now, index, drawn, job, cookie, history, faults>>

-----------------------------------------------------------------------------
(* The deletion of the event: the index becomes a tombstone, the place     *)
(* goes at the revision listed, and the event when no place is left but    *)
(* one whose admission will be, or was, refused.                           *)
DeleteBegin ==
  /\ event \in {"open", "paused"} /\ event' = "deleting"
  /\ UNCHANGED <<now, place, index, drawn, holds, job, cookie, history, faults,
                 reserving, judged, marked, unindexed>>

MarkSession ==
  /\ event = "deleting" /\ place # NoPlace
  /\ index' = IF index = "live" THEN "tombstone" ELSE index
  /\ marked' = TRUE
  /\ UNCHANGED <<now, place, drawn, holds, job, cookie, history, faults,
                 event, reserving, judged, unindexed>>

FinalizeSlot ==
  /\ marked /\ WritePlace(NoPlace, {})
  /\ UNCHANGED <<now, index, drawn, job, cookie, history, faults>>

FinalizeEvent ==
  /\ event = "deleting" /\ (place = NoPlace \/ index = "none")
  /\ event' = "gone"
  /\ UNCHANGED <<now, place, index, drawn, holds, job, cookie, history, faults,
                 reserving, judged, marked, unindexed>>

Tick ==
  /\ now < Horizon /\ now' = now + 1
  /\ UNCHANGED <<others, place, index, drawn, holds, job, cookie, history, faults>>

-----------------------------------------------------------------------------
Init ==
  /\ now = 0 /\ event = "open" /\ place = NoPlace /\ index = "none"
  /\ drawn = FALSE /\ holds = {}
  /\ judged = FALSE /\ marked = FALSE /\ unindexed = FALSE /\ reserving = FALSE
  /\ job = [h \in Handlers |-> Idle]
  /\ cookie = FALSE /\ promised = 0 /\ token = 0 /\ told = FALSE /\ misled = FALSE /\ lost = Never
  /\ faults = 0

Start(h) ==
  StartSession(h) \/ StartCreate(h) \/ StartRecheck(h) \/ StartIndex(h) \/ StartUndo(h)
Renew(h) ==
  \/ \E kind \in {"token", "heartbeat"} : RenewSession(h, kind)
  \/ RenewEvent(h) \/ RenewSlot(h) \/ RenewWrite(h)

Guest ==
  \/ \E h \in Handlers :
       \/ Start(h) \/ Renew(h) \/ Answer(h) \/ Crash(h)
  \/ EndSession

Presenters == SetOpen \/ SetPaused \/ ReserveSlot \/ Reserved \/ ReleaseSlot
Cleaners == Judge \/ ClaimExpired \/ Unindex \/ DropSlot
Deletion == DeleteBegin \/ MarkSession \/ FinalizeSlot \/ FinalizeEvent

Next == Guest \/ Presenters \/ Cleaners \/ Deletion \/ Tick

Spec == Init /\ [][Next]_vars

-----------------------------------------------------------------------------
(* Every variable has its type.                                            *)
TypeOK ==
  /\ now \in 0 .. Horizon
  /\ event \in {"open", "paused", "deleting", "gone"}
  /\ place \in Place \cup {NoPlace} /\ (place # NoPlace => place.grace <= Kept(now))
  /\ index \in {"none", "live", "tombstone"}
  /\ drawn \in BOOLEAN /\ judged \in BOOLEAN /\ marked \in BOOLEAN
  /\ unindexed \in BOOLEAN /\ reserving \in BOOLEAN /\ cookie \in BOOLEAN
  /\ told \in BOOLEAN /\ misled \in BOOLEAN
  /\ holds \subseteq Handlers
  /\ job \in [Handlers -> Job]
  /\ promised \in Nat /\ token \in Nat /\ lost \in Nat \cup {Never}
  /\ faults \in 0 .. MaxFaults

(* A place is claimed as expired only when every time a guest was told     *)
(* that it would be kept is over: not while an answer to a slow admission  *)
(* or renewal still speaks of the future (service.go:297-298, 391-394;     *)
(* recovery.go:250; presenters may release it, and delete the event).      *)
PromiseKept == lost # Never => promised <= lost

(* Tokens are minted after the place was written, from a later clock, so   *)
(* one may outlive the place; by how much is bounded by the time an answer *)
(* may take.  With the defaults (service.go:298, issuer.go:94, main.go:    *)
(* 100) it is five seconds; with five more of lease or grace it is none.   *)
TokenRunsOut ==
  (lost # Never /\ token # 0)
    => token + LeaseTTL + GracePeriod <= lost + WriteTimeout + TokenTTL

(* A renewal never takes away from what another one gave: the clock is     *)
(* read after the slot, in every attempt (service.go:381-394).             *)
LeaseNeverShortened ==
  [][(place # NoPlace /\ place' # NoPlace) => place'.grace >= place.grace]_vars

(* A request the guest sends after one was answered that the event is      *)
(* deleted never gets a session, however old the reads are that others     *)
(* work with (service.go:363, 375; api.go:326).                            *)
DeletedIsFinal == \A h \in Handlers : job[h].late => ~ At(h, "answer")

(* Unless a call failed, a guest that is told its session has expired has  *)
(* no place any more: it is claimed, gone, or past its grace period        *)
(* (service.go:353-355, 381-388).                                          *)
ExpiredMeansGone == ~ misled
=============================================================================
