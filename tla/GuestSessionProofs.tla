------------------------- MODULE GuestSessionProofs -------------------------
(***************************************************************************)
(* What GuestSession promises a guest, proved for any number of handlers   *)
(* and any times.  SessionInv relates the times a request has read to the  *)
(* time up to which the place is kept, and is inductive.                   *)
(***************************************************************************)
EXTENDS GuestSession, TLAPS

Ended == event \in {"deleting", "gone"}

(* A guest may be told that its place is kept until g.                     *)
Covered(g) ==
  /\ lost # Never => g <= lost
  /\ (lost = Never /\ place # NoPlace) => g <= place.grace

Indexed == Unclaimed => index # "none"

JobInv(h) ==
  /\ job[h].at <= now
  /\ job[h].late => told /\ At(h, "event")
  /\ job[h].pc \in {"create", "write"} => job[h].at <= job[h].clock /\ job[h].clock <= now
  /\ (h \in holds /\ At(h, "write")) => Unclaimed /\ place.grace <= Kept(job[h].clock)
  /\ job[h].pc \in {"recheck", "index", "answer"} =>
       Kept(job[h].at) <= job[h].grace /\ Covered(job[h].grace)
  /\ job[h].pc \in {"event", "slot", "write", "answer"} => Indexed
  /\ ~ drawn => job[h].pc \in {"idle", "create"}

PlaceInv ==
  /\ ~ drawn => place = NoPlace /\ lost = Never /\ promised = 0 /\ ~ cookie
  /\ judged => Unclaimed /\ place.grace <= now
  /\ lost # Never => ~ Unclaimed

AnswerInv ==
  /\ Covered(promised)
  /\ token # 0 => token + LeaseTTL + GracePeriod <= promised + WriteTimeout + TokenTTL
  /\ cookie => Indexed
  /\ ~ misled

EndInv ==
  /\ told => Ended
  /\ index = "tombstone" => Ended

SessionInv == TypeOK /\ PlaceInv /\ AnswerInv /\ EndInv /\ \A h \in Handlers : JobInv(h)

-----------------------------------------------------------------------------
(* A goroutine's next step leaves the others where they are.               *)
LEMMA Proceeded ==
  ASSUME NEW h \in Handlers, NEW j \in Job, job \in [Handlers -> Job], Proceed(h, j)
  PROVE  /\ job' \in [Handlers -> Job] /\ job'[h] = j
         /\ \A k \in Handlers \ {h} : job'[k] = job[k]
BY DEF Proceed

(* Idle is a job.                                                          *)
LEMMA IdleJob == Idle \in Job
BY DEF Idle, Job, Kind, PC

(* A request that was read is a job, and remains one as it proceeds.       *)
LEMMA RequestJob ==
  ASSUME TypeOK, NEW kind \in Kind
  PROVE  Request(kind) \in Job
<1>1. Idle \in Job /\ now \in Nat /\ told \in BOOLEAN
  BY IdleJob DEF TypeOK
<1>2. \A j \in Job : [j EXCEPT !.kind = kind, !.at = now, !.late = told] \in Job
  BY <1>1 DEF Job
<1> QED BY <1>1, <1>2 DEF Request

LEMMA NextJob ==
  ASSUME NEW j \in Job, NEW pc \in PC, NEW n \in Nat
  PROVE  /\ [j EXCEPT !.pc = pc] \in Job
         /\ [j EXCEPT !.pc = pc, !.clock = n] \in Job
         /\ [j EXCEPT !.pc = pc, !.grace = n] \in Job
BY DEF Job

(* What such a step leaves alone.                                          *)
LEMMA NextParts ==
  ASSUME NEW j \in Job, NEW pc \in PC, NEW n \in Nat
  PROVE  LET moved == [j EXCEPT !.pc = pc]
             timed == [j EXCEPT !.pc = pc, !.clock = n]
             wrote == [j EXCEPT !.pc = pc, !.grace = n]
         IN /\ moved.pc = pc /\ moved.at = j.at /\ moved.late = j.late
            /\ moved.clock = j.clock /\ moved.grace = j.grace
            /\ timed.pc = pc /\ timed.at = j.at /\ timed.late = j.late
            /\ timed.clock = n /\ timed.grace = j.grace
            /\ wrote.pc = pc /\ wrote.at = j.at /\ wrote.late = j.late
            /\ wrote.clock = j.clock /\ wrote.grace = n
BY DEF Job

LEMMA RequestParts ==
  ASSUME TypeOK, NEW kind \in Kind
  PROVE  Request(kind).at = now /\ Request(kind).late = told
<1>1. Idle \in Job /\ now \in Nat /\ told \in BOOLEAN
  BY IdleJob DEF TypeOK
<1>2. \A j \in Job : /\ [j EXCEPT !.kind = kind, !.at = now, !.late = told].at = now
                     /\ [j EXCEPT !.kind = kind, !.at = now, !.late = told].late = told
  BY <1>1 DEF Job
<1> QED BY <1>1, <1>2 DEF Request

(* An operation that ends with an error keeps the types.                   *)
LEMMA RefusedTypes ==
  ASSUME TypeOK, NEW h \in Handlers, NEW code, Refuse(h, code)
  PROVE  /\ job' \in [Handlers -> Job] /\ holds' \subseteq Handlers
         /\ told' \in BOOLEAN /\ misled' \in BOOLEAN
         /\ promised' = promised /\ token' = token /\ lost' = lost
BY IdleJob, Proceeded DEF Refuse, Done, TypeOK

(* A write to the place keeps the types of what it touches.                *)
LEMMA WrittenTypes ==
  ASSUME TypeOK, NEW p \in Place \cup {NoPlace}, NEW hs \in SUBSET Handlers,
         p # NoPlace => p.grace <= Kept(now), now' = now, WritePlace(p, hs)
  PROVE  /\ event' \in {"open", "paused", "deleting", "gone"}
         /\ place' \in Place \cup {NoPlace} /\ (place' # NoPlace => place'.grace <= Kept(now'))
         /\ judged' \in BOOLEAN /\ marked' \in BOOLEAN
         /\ unindexed' \in BOOLEAN /\ reserving' \in BOOLEAN
         /\ holds' \subseteq Handlers
BY DEF WritePlace, TypeOK, Kept

(* The records that are written are places.                                *)
LEMMA PlaceParts ==
  /\ \A g \in Nat : [grace |-> g, reserved |-> FALSE, claim |-> "none"] \in Place
  /\ \A p \in Place, g \in Nat : [p EXCEPT !.reserved = FALSE, !.grace = g] \in Place
  /\ \A p \in Place : [p EXCEPT !.reserved = TRUE] \in Place
  /\ \A p \in Place : [p EXCEPT !.claim = "release"] \in Place
  /\ \A p \in Place : [p EXCEPT !.claim = "expiry"] \in Place
BY DEF Place

(* So are the types of the steps that only move a request on.              *)
LEMMA MovedTypes ==
  ASSUME TypeOK, NEW h \in Handlers, NEW pc \in PC, Proceed(h, [job[h] EXCEPT !.pc = pc])
  PROVE  job' \in [Handlers -> Job]
<1> DEFINE j == [job[h] EXCEPT !.pc = pc]
<1>1. j \in Job
  BY NextJob DEF TypeOK, Job
<1> HIDE DEF j
<1> QED BY <1>1, Proceeded DEF TypeOK, j

(* Every step of an admission keeps the types.                             *)
LEMMA StartTypes ==
  ASSUME TypeOK, NEW h \in Handlers, JobInv(h), Start(h)
  PROVE  TypeOK'
<1> USE ConfigAssumption DEF Loads
<1>1. CASE StartSession(h)
  <2>1. CASE event = "open" /\ Proceed(h, [Request("start") EXCEPT !.pc = "create", !.clock = now])
             /\ UNCHANGED <<holds, history>>
    <3>1. Request("start") \in Job
      BY RequestJob DEF Kind
    <3>2. [Request("start") EXCEPT !.pc = "create", !.clock = now] \in Job
      <4> DEFINE j == Request("start")
      <4> HIDE DEF j
      <4>1. j \in Job /\ now \in Nat /\ "create" \in PC
        BY <3>1 DEF j, TypeOK, PC
      <4>2. [j EXCEPT !.pc = "create", !.clock = now] \in Job
        BY <4>1, NextJob
      <4> QED BY <4>2 DEF j
    <3>3. job' \in [Handlers -> Job]
      BY <2>1, <3>2, Proceeded DEF TypeOK
    <3> QED BY <1>1, <2>1, <3>3 DEF StartSession, TypeOK, history, others, Kept
  <2>2. CASE \E code \in Code : Refuse(h, code)
    BY <1>1, <2>2, RefusedTypes DEF StartSession, TypeOK, others
  <2> QED BY <1>1, <2>1, <2>2 DEF StartSession, Code
<1>2. CASE StartCreate(h)
  <2> DEFINE grace == Kept(job[h].clock)
             p == [grace |-> grace, reserved |-> FALSE, claim |-> "none"]
             j == [job[h] EXCEPT !.pc = "recheck", !.grace = grace]
  <2>0. grace \in Nat /\ job[h] \in Job /\ job[h].clock \in Nat
    BY DEF TypeOK, Job, Kept
  <2>1. CASE drawn' = TRUE /\ WritePlace(p, {h}) /\ Proceed(h, j) /\ UNCHANGED <<history, faults>>
    <3>1. p \in Place
      BY <2>0, PlaceParts
    <3>2. j \in Job
      BY <2>0, NextJob DEF PC
    <3>3. p.grace <= Kept(now)
      BY <1>2, <2>0 DEF StartCreate, JobInv, At, Kept, TypeOK
    <3> HIDE DEF p, j, grace
    <3>4. job' \in [Handlers -> Job]
      BY <2>1, <3>2, Proceeded DEF TypeOK
    <3> QED
      BY <1>2, <2>1, <3>1, <3>3, <3>4, WrittenTypes DEF StartCreate, TypeOK, history
  <2>2. CASE /\ \E code \in Code : Refuse(h, code)
             /\ UNCHANGED <<others, place, drawn>> /\ (UNCHANGED faults \/ Fault)
    BY <1>2, <2>2, RefusedTypes DEF StartCreate, TypeOK, others, Fault
  <2> QED BY <1>2, <2>1, <2>2 DEF StartCreate, Code
<1>3. CASE StartRecheck(h)
  <2>1. job' \in [Handlers -> Job]
    BY <1>3, MovedTypes DEF StartRecheck, PC
  <2> QED BY <1>3, <2>1 DEF StartRecheck, TypeOK, history, others
<1>4. CASE StartIndex(h)
  <2>1. job' \in [Handlers -> Job]
    BY <1>4, MovedTypes DEF StartIndex, PC
  <2> QED BY <1>4, <2>1 DEF StartIndex, TypeOK, history, others, Fault
<1>5. CASE StartUndo(h)
  <2>1. job' \in [Handlers -> Job]
    BY <1>5, IdleJob, Proceeded DEF StartUndo, TypeOK
  <2>2. CASE WritePlace(NoPlace, {})
    BY <1>5, <2>1, <2>2, WrittenTypes DEF StartUndo, TypeOK, history
  <2>3. CASE UNCHANGED <<others, place, holds>>
    BY <1>5, <2>1, <2>3 DEF StartUndo, TypeOK, history, others
  <2> QED BY <1>5, <2>2, <2>3 DEF StartUndo
<1> QED BY <1>1, <1>2, <1>3, <1>4, <1>5 DEF Start

(* So does every step of a renewal.                                        *)
LEMMA RenewTypes ==
  ASSUME TypeOK, NEW h \in Handlers, JobInv(h), Renew(h)
  PROVE  TypeOK'
<1> USE ConfigAssumption DEF Loads
<1>1. ASSUME NEW kind \in {"token", "heartbeat"}, RenewSession(h, kind)
      PROVE  TypeOK'
  <2>1. CASE Proceed(h, [Request(kind) EXCEPT !.pc = "event"]) /\ UNCHANGED <<holds, history>>
    <3> DEFINE j == Request(kind)
    <3>1. j \in Job /\ "event" \in PC
      BY RequestJob DEF Kind, PC
    <3> HIDE DEF j
    <3>2. [j EXCEPT !.pc = "event"] \in Job
      BY <3>1, NextJob
    <3>3. job' \in [Handlers -> Job]
      BY <2>1, <3>2, Proceeded DEF TypeOK, j
    <3> QED BY <1>1, <2>1, <3>3 DEF RenewSession, TypeOK, history, others
  <2>2. CASE \E code \in Code : Refuse(h, code)
    BY <1>1, <2>2, RefusedTypes DEF RenewSession, TypeOK, others
  <2> QED BY <1>1, <2>1, <2>2 DEF RenewSession, Code
<1>2. CASE RenewEvent(h)
  <2>1. CASE Proceed(h, [job[h] EXCEPT !.pc = "slot"]) /\ UNCHANGED <<holds, history>>
    <3>1. job' \in [Handlers -> Job]
      BY <2>1, MovedTypes DEF PC
    <3> QED BY <1>2, <2>1, <3>1 DEF RenewEvent, TypeOK, history, others
  <2>2. CASE \E code \in Code : Refuse(h, code)
    BY <1>2, <2>2, RefusedTypes DEF RenewEvent, TypeOK, others
  <2> QED BY <1>2, <2>1, <2>2 DEF RenewEvent, Code
<1>3. CASE RenewSlot(h)
  <2>1. CASE /\ Proceed(h, [job[h] EXCEPT !.pc = "write", !.clock = now])
             /\ holds' = holds \cup {h} /\ UNCHANGED <<history, faults>>
    <3>0. job[h] \in Job /\ now \in Nat
      BY DEF TypeOK
    <3>1. [job[h] EXCEPT !.pc = "write", !.clock = now] \in Job
      BY <3>0, NextJob DEF PC
    <3>2. job' \in [Handlers -> Job]
      BY <2>1, <3>1, Proceeded DEF TypeOK
    <3> QED BY <1>3, <2>1, <3>2 DEF RenewSlot, TypeOK, history, others
  <2>2. CASE (\E code \in Code : Refuse(h, code)) /\ (UNCHANGED faults \/ Fault)
    BY <1>3, <2>2, RefusedTypes DEF RenewSlot, TypeOK, others, Fault
  <2> QED BY <1>3, <2>1, <2>2 DEF RenewSlot, Code
<1>4. CASE RenewWrite(h)
  <2>0. /\ job[h] \in Job /\ job[h].clock \in Nat /\ Kept(job[h].clock) \in Nat
        /\ Kept(job[h].clock) <= Kept(now)
    BY <1>4 DEF RenewWrite, TypeOK, Job, Kept, JobInv, At
  <2>1. ASSUME h \in holds, WritePlace(Renewed(h), {}), now' = now
        PROVE  /\ event' \in {"open", "paused", "deleting", "gone"}
               /\ place' \in Place \cup {NoPlace} /\ (place' # NoPlace => place'.grace <= Kept(now'))
               /\ judged' \in BOOLEAN /\ marked' \in BOOLEAN
               /\ unindexed' \in BOOLEAN /\ reserving' \in BOOLEAN
               /\ holds' \subseteq Handlers
    <3>1. place \in Place
      BY <1>4, <2>1 DEF JobInv, RenewWrite, Unclaimed, TypeOK
    <3>2. Renewed(h) \in Place /\ Renewed(h).grace = Kept(job[h].clock)
      BY <2>0, <3>1, PlaceParts DEF Renewed, Place
    <3> QED BY <2>0, <2>1, <3>2, WrittenTypes
  <2>2. CASE /\ h \in holds /\ WritePlace(Renewed(h), {})
             /\ Proceed(h, [job[h] EXCEPT !.pc = "answer", !.grace = Kept(job[h].clock)])
             /\ UNCHANGED <<history, faults>>
    <3>1. [job[h] EXCEPT !.pc = "answer", !.grace = Kept(job[h].clock)] \in Job
      BY <2>0, NextJob DEF PC
    <3>2. job' \in [Handlers -> Job]
      BY <2>2, <3>1, Proceeded DEF TypeOK
    <3> QED BY <1>4, <2>1, <2>2, <3>2 DEF RenewWrite, TypeOK, history
  <2>3. CASE /\ \E code \in Code : Refuse(h, code)
             /\ UNCHANGED <<others, place>> /\ (UNCHANGED faults \/ Fault)
    BY <1>4, <2>3, RefusedTypes DEF RenewWrite, TypeOK, others, Fault
  <2>4. CASE /\ Proceed(h, [job[h] EXCEPT !.pc = "event", !.clock = 0])
             /\ UNCHANGED <<holds, history>> /\ UNCHANGED <<others, place, faults>>
    <3>1. [job[h] EXCEPT !.pc = "event", !.clock = 0] \in Job
      BY <2>0, NextJob DEF PC
    <3>2. job' \in [Handlers -> Job]
      BY <2>4, <3>1, Proceeded DEF TypeOK
    <3> QED BY <1>4, <2>4, <3>2 DEF RenewWrite, TypeOK, others, history
  <2>5. CASE /\ h \in holds /\ WritePlace(Renewed(h), {})
             /\ Proceed(h, Idle) /\ Fault /\ UNCHANGED history
    <3>1. job' \in [Handlers -> Job]
      BY <2>5, IdleJob, Proceeded DEF TypeOK
    <3> QED BY <1>4, <2>1, <2>5, <3>1 DEF RenewWrite, TypeOK, history, Fault
  <2> QED BY <1>4, <2>2, <2>3, <2>4, <2>5 DEF RenewWrite, Code
<1> QED BY <1>1, <1>2, <1>3, <1>4 DEF Renew

(* And every other step: answers, presenters, cleaners, deletion, time.    *)
LEMMA OtherTypes ==
  ASSUME TypeOK, PlaceInv, \A h \in Handlers : JobInv(h),
         \/ \E h \in Handlers : Answer(h) \/ Crash(h)
         \/ EndSession \/ Presenters \/ Cleaners \/ Deletion \/ Tick
  PROVE  TypeOK'
<1> USE ConfigAssumption, PlaceAssumption DEF Loads
<1>1. ASSUME NEW h \in Handlers, Answer(h)
      PROVE  TypeOK'
  <2>1. job' \in [Handlers -> Job] /\ holds' \subseteq Handlers
    BY <1>1, IdleJob, Proceeded DEF Answer, Done, TypeOK
  <2>2. job[h].grace \in Nat /\ job[h].at \in Nat
    BY DEF TypeOK, Job
  <2>3. job[h].grace - GracePeriod \in Nat
    BY <1>1, <2>2 DEF Answer, At, JobInv, Kept
  <2>4. cookie' \in BOOLEAN /\ token' \in Nat /\ promised' \in Nat /\ faults' \in 0 .. MaxFaults
    <3>1. now + TokenTTL \in Nat
      BY DEF TypeOK
    <3>2. CASE Received(job[h]) /\ UNCHANGED faults
      BY <2>2, <2>3, <3>1, <3>2 DEF TypeOK, Received, Later, Minted
    <3>3. CASE UNCHANGED <<cookie, promised, token>> /\ (UNCHANGED faults \/ Fault)
      BY <3>3 DEF TypeOK, Fault
    <3> QED BY <1>1, <3>2, <3>3 DEF Answer
  <2> QED BY <1>1, <2>1, <2>4 DEF Answer, TypeOK, others
<1>2. ASSUME NEW h \in Handlers, Crash(h)
      PROVE  TypeOK'
  <2>1. job' \in [Handlers -> Job] /\ holds' \subseteq Handlers
    BY <1>2, IdleJob, Proceeded DEF Crash, Done, TypeOK
  <2> QED BY <1>2, <2>1 DEF Crash, TypeOK, others, history, Fault
<1>3. CASE EndSession
  BY <1>3 DEF EndSession, TypeOK, others, history
<1>4. CASE SetOpen \/ SetPaused \/ Reserved \/ Judge \/ Unindex \/ DeleteBegin \/ MarkSession \/ FinalizeEvent
  <2>1. CASE SetOpen
    BY <2>1 DEF SetOpen, TypeOK, history
  <2>2. CASE SetPaused
    BY <2>2 DEF SetPaused, TypeOK, history
  <2>3. CASE Reserved
    BY <2>3 DEF Reserved, TypeOK, history
  <2>4. CASE Judge
    BY <2>4 DEF Judge, TypeOK, history
  <2>5. CASE Unindex
    BY <2>5 DEF Unindex, TypeOK, history
  <2>6. CASE DeleteBegin
    BY <2>6 DEF DeleteBegin, TypeOK, history
  <2>7. CASE MarkSession
    BY <2>7 DEF MarkSession, TypeOK, history
  <2>8. CASE FinalizeEvent
    BY <2>8 DEF FinalizeEvent, TypeOK, history
  <2> QED BY <1>4, <2>1, <2>2, <2>3, <2>4, <2>5, <2>6, <2>7, <2>8
<1>5. CASE ReserveSlot
  <2>1. place \in Place
    BY <1>5 DEF ReserveSlot, Unclaimed, TypeOK
  <2> DEFINE p == [place EXCEPT !.reserved = TRUE]
  <2>2. p \in Place /\ p.grace = place.grace
    BY <2>1, PlaceParts DEF Place
  <2>3. WritePlace(p, {}) /\ now' = now
    BY <1>5 DEF ReserveSlot
  <2> HIDE DEF p
  <2>4. p \in Place /\ p.grace <= Kept(now)
    BY <2>1, <2>2, PlaceAssumption DEF TypeOK
  <2> QED BY <1>5, <2>3, <2>4, WrittenTypes DEF ReserveSlot, TypeOK, history
<1>6. CASE ReleaseSlot
  <2>1. place \in Place
    BY <1>6 DEF ReleaseSlot, Unclaimed, TypeOK
  <2> DEFINE p == [place EXCEPT !.claim = "release"]
  <2>2. p \in Place /\ p.grace = place.grace
    BY <2>1, PlaceParts DEF Place
  <2>3. WritePlace(p, {}) /\ now' = now
    BY <1>6 DEF ReleaseSlot
  <2> HIDE DEF p
  <2>4. p \in Place /\ p.grace <= Kept(now)
    BY <2>1, <2>2, PlaceAssumption DEF TypeOK
  <2> QED BY <1>6, <2>3, <2>4, WrittenTypes DEF ReleaseSlot, TypeOK, history
<1>7. CASE ClaimExpired
  <2>1. place \in Place
    BY <1>7 DEF ClaimExpired, PlaceInv, Unclaimed, TypeOK
  <2> DEFINE p == [place EXCEPT !.claim = "expiry"]
  <2>2. p \in Place /\ p.grace = place.grace
    BY <2>1, PlaceParts DEF Place
  <2>3. WritePlace(p, {}) /\ now' = now
    BY <1>7 DEF ClaimExpired, Claim
  <2> HIDE DEF p
  <2>4. p \in Place /\ p.grace <= Kept(now)
    BY <2>1, <2>2, PlaceAssumption DEF TypeOK
  <2> QED BY <1>7, <2>3, <2>4, WrittenTypes DEF ClaimExpired, Claim, TypeOK
<1>8. CASE DropSlot \/ FinalizeSlot
  BY <1>8, WrittenTypes DEF DropSlot, FinalizeSlot, TypeOK, history
<1>9. CASE Tick
  BY <1>9 DEF Tick, TypeOK, others, history, Kept, Place
<1> QED BY <1>1, <1>2, <1>3, <1>4, <1>5, <1>6, <1>7, <1>8, <1>9 DEF Presenters, Cleaners, Deletion

-----------------------------------------------------------------------------
(* What a step may do without disturbing a request it is not about.        *)
Keeps ==
  /\ now \in Nat /\ now' \in Nat /\ now <= now'
  /\ told => told'
  /\ ~ drawn' => ~ drawn
  /\ \A g \in Nat : Covered(g) => Covered(g)'
  /\ Indexed => Indexed'

LEMMA Bystander ==
  ASSUME TypeOK, NEW k \in Handlers, JobInv(k), job'[k] = job[k], Keeps,
         k \in holds' => k \in holds /\ place' = place
  PROVE  JobInv(k)'
<1>1. job[k].at \in Nat /\ job[k].clock \in Nat /\ job[k].grace \in Nat
  BY DEF TypeOK, Job
<1>2. /\ job'[k].at <= now'
      /\ job'[k].late => told' /\ At(k, "event")'
      /\ job'[k].pc \in {"create", "write"} => job'[k].at <= job'[k].clock /\ job'[k].clock <= now'
  BY <1>1 DEF JobInv, Keeps, At
<1>3. (k \in holds' /\ At(k, "write")') => Unclaimed' /\ place'.grace <= Kept(job'[k].clock)
  BY <1>1 DEF JobInv, At, Unclaimed
<1>4. job'[k].pc \in {"recheck", "index", "answer"} =>
        Kept(job'[k].at) <= job'[k].grace /\ Covered(job[k].grace)'
  BY <1>1 DEF JobInv, Keeps, Covered, Kept
<1>5. /\ job'[k].pc \in {"event", "slot", "write", "answer"} => Indexed'
      /\ ~ drawn' => job'[k].pc \in {"idle", "create"}
  BY DEF JobInv, Keeps
<1> QED BY <1>2, <1>3, <1>4, <1>5 DEF JobInv, Kept, Covered

(* A step that leaves the place, the history and the identity alone, and   *)
(* of the index takes nothing but the identity's own entry while cleaning, *)
(* keeps what others were told.                                            *)
LEMMA SamePlaceKeeps ==
  ASSUME TypeOK, UNCHANGED <<now, place, lost, drawn>>, told => told', Indexed => Indexed'
  PROVE  Keeps
BY DEF Keeps, Covered, TypeOK

(* An idle goroutine, and one that ended with an error.                    *)
LEMMA IdleInv ==
  ASSUME TypeOK, NEW h \in Handlers, job'[h] = Idle, now' = now
  PROVE  JobInv(h)'
BY DEF JobInv, Idle, At, TypeOK

LEMMA RefusedInv ==
  ASSUME SessionInv, NEW h \in Handlers, NEW code, Refuse(h, code),
         code = "event_deleted" => Ended,
         code = "session_expired" => ~ Alive \/ Fault,
         UNCHANGED <<now, others, place, index, drawn, cookie>>
  PROVE  PlaceInv' /\ AnswerInv' /\ EndInv' /\ \A k \in Handlers : JobInv(k)'
<1>1. job'[h] = Idle /\ \A k \in Handlers \ {h} : job'[k] = job[k]
  BY IdleJob, Proceeded DEF Refuse, Done, SessionInv, TypeOK
<1>2. Keeps
  BY SamePlaceKeeps DEF SessionInv, Refuse, Indexed, Unclaimed
<1>3. \A k \in Handlers : JobInv(k)'
  <2>1. JobInv(h)'
    BY <1>1, IdleInv DEF SessionInv
  <2>2. ASSUME NEW k \in Handlers \ {h}
        PROVE  JobInv(k)'
    BY <1>1, <1>2, Bystander DEF SessionInv, Refuse, Done
  <2> QED BY <2>1, <2>2
<1>4. misled' = FALSE
  BY DEF Refuse, SessionInv, AnswerInv, TypeOK, Fault
<1>5. PlaceInv' /\ AnswerInv'
  BY <1>4 DEF SessionInv, PlaceInv, AnswerInv, Refuse, Covered, Indexed, Unclaimed, others
<1>6. EndInv'
  BY DEF SessionInv, EndInv, Refuse, Ended, others
<1> QED BY <1>3, <1>5, <1>6

Preserved == PlaceInv' /\ AnswerInv' /\ EndInv' /\ \A k \in Handlers : JobInv(k)'

(* A step that only moves a request on, without touching the place.        *)
LEMMA MovedInv ==
  ASSUME SessionInv, NEW h \in Handlers, NEW j \in Job, Proceed(h, j), JobInv(h)',
         UNCHANGED <<now, others, place, drawn, cookie, history>>,
         Indexed => Indexed', index' = "tombstone" => index = "tombstone",
         holds' \subseteq holds \cup {h}
  PROVE  Preserved
<1>1. \A k \in Handlers \ {h} : job'[k] = job[k]
  BY Proceeded DEF SessionInv, TypeOK
<1>2. Keeps
  BY SamePlaceKeeps DEF SessionInv, history
<1>3. \A k \in Handlers : JobInv(k)'
  <2>1. ASSUME NEW k \in Handlers \ {h}
        PROVE  JobInv(k)'
    BY <1>1, <1>2, Bystander DEF SessionInv
  <2> QED BY <2>1
<1>4. PlaceInv' /\ AnswerInv' /\ EndInv'
  BY DEF SessionInv, PlaceInv, AnswerInv, EndInv, Ended, Covered, Indexed, Unclaimed, others, history
<1> QED BY <1>3, <1>4 DEF Preserved

(* Every step of an admission preserves the invariant.  The walk creates   *)
(* the place with times from its one reading of the clock; the answer is   *)
(* to speak of the same times.                                             *)
LEMMA StartPreserves ==
  ASSUME SessionInv, NEW h \in Handlers, Start(h)
  PROVE  Preserved
<1> USE ConfigAssumption, PlaceAssumption DEF Loads
<1>0. TypeOK /\ JobInv(h) /\ job[h] \in Job /\ now \in Nat
  BY DEF SessionInv, TypeOK
<1>1. CASE StartSession(h)
  <2>1. CASE event = "open" /\ Proceed(h, [Request("start") EXCEPT !.pc = "create", !.clock = now])
             /\ UNCHANGED <<holds, history>>
    <3> DEFINE j == [Request("start") EXCEPT !.pc = "create", !.clock = now]
    <3>1. /\ j \in Job /\ j.pc = "create" /\ j.at = now /\ j.clock = now /\ j.late = told
      <4> DEFINE r == Request("start")
      <4>1. r \in Job /\ r.at = now /\ r.late = told /\ "create" \in PC
        BY <1>0, RequestJob, RequestParts DEF Kind, PC
      <4> HIDE DEF r
      <4>2. [r EXCEPT !.pc = "create", !.clock = now] \in Job
        BY <1>0, <4>1, NextJob
      <4>3. LET t == [r EXCEPT !.pc = "create", !.clock = now]
            IN  t.pc = "create" /\ t.at = now /\ t.clock = now /\ t.late = told
        BY <1>0, <4>1, NextParts
      <4> QED BY <4>2, <4>3 DEF j, r
    <3>3. told = FALSE
      BY <2>1 DEF SessionInv, EndInv, Ended, TypeOK
    <3> HIDE DEF j
    <3>4. job'[h] = j
      BY <1>0, <2>1, <3>1, Proceeded DEF TypeOK, j
    <3>5. JobInv(h)'
      BY <1>0, <1>1, <3>1, <3>3, <3>4 DEF StartSession, JobInv, At
    <3> QED BY <1>1, <2>1, <3>1, <3>5, MovedInv DEF StartSession, j, Indexed, Unclaimed
  <2>2. CASE \/ event = "paused" /\ Refuse(h, "event_paused")
             \/ event \in {"open", "deleting"} /\ Refuse(h, "admission_closed")
             \/ event \in {"deleting", "gone"} /\ Refuse(h, "not_found")
    BY <1>1, <2>2, RefusedInv DEF StartSession, Preserved
  <2> QED BY <1>1, <2>1, <2>2 DEF StartSession
<1>3. CASE StartRecheck(h)
  <2>1. PICK pc \in {"index", "undo"} : Proceed(h, [job[h] EXCEPT !.pc = pc])
    BY <1>3 DEF StartRecheck
  <2>2. [job[h] EXCEPT !.pc = pc] \in Job
    BY <1>0, NextJob DEF PC
  <2>3. job'[h] = [job[h] EXCEPT !.pc = pc]
    BY <1>0, <2>1, <2>2, Proceeded DEF TypeOK
  <2>4. JobInv(h)'
    BY <1>0, <1>3, <2>3 DEF StartRecheck, JobInv, At, Covered, history, Job
  <2> QED BY <1>3, <2>1, <2>2, <2>4, MovedInv DEF StartRecheck, Indexed, Unclaimed
<1>4. CASE StartIndex(h)
  <2>1. PICK pc \in {"answer", "undo"} :
          /\ Proceed(h, [job[h] EXCEPT !.pc = pc])
          /\ pc = "answer" => index' = "live"
    BY <1>4 DEF StartIndex
  <2>2. [job[h] EXCEPT !.pc = pc] \in Job
    BY <1>0, NextJob DEF PC
  <2>3. job'[h] = [job[h] EXCEPT !.pc = pc]
    BY <1>0, <2>1, <2>2, Proceeded DEF TypeOK
  <2>4. JobInv(h)'
    BY <1>0, <1>4, <2>1, <2>3 DEF StartIndex, JobInv, At, Covered, history, Job, Indexed
  <2> QED BY <1>4, <2>1, <2>2, <2>4, MovedInv DEF StartIndex, Indexed, Unclaimed
<1>2. CASE StartCreate(h)
  <2> DEFINE grace == Kept(job[h].clock)
             p == [grace |-> grace, reserved |-> FALSE, claim |-> "none"]
             j == [job[h] EXCEPT !.pc = "recheck", !.grace = grace]
  <2>0. grace \in Nat /\ job[h].clock \in Nat /\ job[h].at \in Nat
        /\ At(h, "create") /\ job[h].at <= job[h].clock
        /\ UNCHANGED <<now, index, cookie>>
    BY <1>0, <1>2 DEF StartCreate, Job, Kept, At, JobInv
  <2>1. CASE /\ ~ drawn /\ drawn' = TRUE /\ WritePlace(p, {h}) /\ Proceed(h, j)
             /\ UNCHANGED <<history, faults>>
    <3>1. /\ place' = p /\ p # NoPlace /\ p.grace = grace
          /\ holds' = {h} /\ judged' = FALSE /\ event' = event
      BY <2>0, <2>1, PlaceParts DEF WritePlace
    <3>2. place = NoPlace /\ lost = Never /\ promised = 0 /\ cookie = FALSE
      BY <2>1 DEF SessionInv, PlaceInv, TypeOK
    <3>3. j \in Job /\ j.pc = "recheck" /\ j.at = job[h].at /\ j.late = job[h].late /\ j.grace = grace
      <4> HIDE DEF grace
      <4>1. "recheck" \in PC /\ job[h] \in Job /\ grace \in Nat
        BY <1>0, <2>0 DEF PC
      <4>2. [job[h] EXCEPT !.pc = "recheck", !.grace = grace] \in Job
        BY <4>1, NextJob
      <4>3. LET t == [job[h] EXCEPT !.pc = "recheck", !.grace = grace]
            IN  t.pc = "recheck" /\ t.at = job[h].at /\ t.late = job[h].late /\ t.grace = grace
        BY <4>1, NextParts
      <4> QED BY <4>2, <4>3
    <3> HIDE DEF p, j
    <3>4. job'[h] = j /\ \A k \in Handlers \ {h} : job'[k] = job[k]
      BY <1>0, <2>1, <3>3, Proceeded DEF TypeOK
    <3>5. JobInv(h)'
      <4>1. job[h].at <= now /\ job[h].late = FALSE
        BY <1>0, <2>0 DEF JobInv, At, Job
      <4>2. Kept(job[h].at) <= grace
        BY <2>0 DEF Kept
      <4>3. Covered(job[h].grace)' /\ job'[h].grace = grace
        BY <2>0, <2>1, <3>1, <3>2, <3>3, <3>4 DEF Covered, history
      <4> QED BY <2>0, <2>1, <3>3, <3>4, <4>1, <4>2, <4>3 DEF JobInv, At, Kept, Covered
    <3>6. ASSUME NEW k \in Handlers \ {h}
          PROVE  JobInv(k)'
      <4>1. JobInv(k) /\ job'[k] = job[k] /\ job[k].pc \in {"idle", "create"} /\ k \notin holds'
        BY <2>1, <3>1, <3>4 DEF SessionInv, JobInv
      <4>2. told' = told /\ now' = now
        BY <2>0, <2>1 DEF history
      <4> QED BY <2>1, <4>1, <4>2 DEF JobInv, At
    <3>7. PlaceInv'
      BY <2>0, <2>1, <3>1, <3>2 DEF PlaceInv, history
    <3>8. AnswerInv' /\ EndInv'
      BY <2>0, <2>1, <3>1, <3>2 DEF SessionInv, AnswerInv, EndInv, Ended, Covered, history
    <3> QED BY <3>5, <3>6, <3>7, <3>8 DEF Preserved
  <2>2. CASE /\ Refuse(h, "capacity_reached") \/ Refuse(h, "internal_error")
             /\ UNCHANGED <<others, place, drawn>>
    BY <2>0, <2>2, RefusedInv DEF Preserved
  <2> QED BY <1>2, <2>1, <2>2 DEF StartCreate
<1>5. CASE StartUndo(h)
  <2>1. job'[h] = Idle /\ \A k \in Handlers \ {h} : job'[k] = job[k]
    BY <1>0, <1>5, IdleJob, Proceeded DEF StartUndo, TypeOK
  <2>2. CASE WritePlace(NoPlace, {})
    <3>1. place' = NoPlace /\ holds' = {} /\ judged' = FALSE /\ event' = event
      BY <2>2 DEF WritePlace
    <3>2. Keeps
      BY <1>0, <1>5, <3>1 DEF Keeps, StartUndo, history, Covered, Indexed, Unclaimed
    <3>3. ASSUME NEW k \in Handlers \ {h}
          PROVE  JobInv(k)'
      BY <1>0, <2>1, <3>1, <3>2, Bystander DEF SessionInv
    <3>4. JobInv(h)'
      BY <1>0, <1>5, <2>1, IdleInv DEF StartUndo
    <3>5. PlaceInv' /\ AnswerInv' /\ EndInv'
      BY <1>5, <3>1 DEF StartUndo, SessionInv, PlaceInv, AnswerInv, EndInv, Ended, history,
                        Covered, Indexed, Unclaimed
    <3> QED BY <3>3, <3>4, <3>5 DEF Preserved
  <2>3. CASE UNCHANGED <<others, place, holds>>
    <3>1. JobInv(h)'
      BY <1>0, <1>5, <2>1, IdleInv DEF StartUndo
    <3> QED BY <1>0, <1>5, <2>3, <3>1, IdleJob, MovedInv DEF StartUndo, Indexed, Unclaimed
  <2> QED BY <1>5, <2>2, <2>3 DEF StartUndo
<1> QED BY <1>1, <1>2, <1>3, <1>4, <1>5 DEF Start

(* A renewed place is kept longer than before, and covers everything the   *)
(* guest was told; the guest can find it if it could.                      *)
LEMMA RenewedKeeps ==
  ASSUME SessionInv, NEW h \in Handlers, At(h, "write"), h \in holds,
         WritePlace(Renewed(h), {}), UNCHANGED <<now, index, drawn, lost>>, told => told'
  PROVE  /\ Keeps /\ holds' = {} /\ judged' = FALSE /\ event' = event
         /\ drawn /\ lost = Never /\ Unclaimed' /\ Indexed
         /\ Kept(job[h].clock) \in Nat /\ place' # NoPlace
         /\ place'.grace = Kept(job[h].clock) /\ place'.grace >= place.grace
<1> USE ConfigAssumption, PlaceAssumption DEF Loads
<1>1. /\ Unclaimed /\ place.grace <= Kept(job[h].clock) /\ drawn /\ lost = Never /\ Indexed
      /\ place \in Place
  BY DEF SessionInv, JobInv, PlaceInv, Unclaimed, TypeOK, At
<1>2. job[h].clock \in Nat /\ Kept(job[h].clock) \in Nat /\ now \in Nat
  BY DEF SessionInv, TypeOK, Job, Kept
<1>3. /\ Renewed(h) \in Place /\ Renewed(h).grace = Kept(job[h].clock)
      /\ Renewed(h).claim = "none"
  BY <1>1, <1>2, PlaceParts DEF Renewed, Place, Unclaimed
<1>4. /\ place' = Renewed(h) /\ holds' = {} /\ judged' = FALSE /\ event' = event
  BY DEF WritePlace
<1>5. place' # NoPlace /\ Unclaimed'
  BY <1>3, <1>4 DEF Unclaimed
<1>6. Keeps
  BY <1>1, <1>2, <1>3, <1>4, <1>5 DEF Keeps, Covered, Indexed, Place
<1> QED BY <1>1, <1>2, <1>3, <1>4, <1>5, <1>6, <1>1 DEF Place

(* Every step of a renewal preserves the invariant.                        *)
LEMMA RenewPreserves ==
  ASSUME SessionInv, NEW h \in Handlers, Renew(h)
  PROVE  Preserved
<1> USE ConfigAssumption, PlaceAssumption DEF Loads
<1>0. TypeOK /\ JobInv(h) /\ job[h] \in Job /\ now \in Nat
  BY DEF SessionInv, TypeOK
<1>1. ASSUME NEW kind \in {"token", "heartbeat"}, RenewSession(h, kind)
      PROVE  Preserved
  <2>1. CASE index = "live" /\ Proceed(h, [Request(kind) EXCEPT !.pc = "event"]) /\ UNCHANGED <<holds, history>>
    <3> DEFINE r == Request(kind)
               j == [r EXCEPT !.pc = "event"]
    <3>1. r \in Job /\ r.at = now /\ r.late = told /\ "event" \in PC
      BY <1>0, RequestJob, RequestParts DEF Kind, PC
    <3> HIDE DEF r
    <3>2. j \in Job /\ j.pc = "event" /\ j.at = now /\ j.late = told
      BY <3>1, NextJob, NextParts, 0 \in Nat
    <3> HIDE DEF j
    <3>3. job'[h] = j
      BY <1>0, <2>1, <3>2, Proceeded DEF TypeOK, j, r
    <3>4. drawn
      BY <1>1 DEF SessionInv, PlaceInv, RenewSession, TypeOK
    <3>5. JobInv(h)'
      BY <1>0, <1>1, <2>1, <3>2, <3>3, <3>4 DEF RenewSession, JobInv, At, Indexed, history
    <3> QED BY <1>1, <2>1, <3>2, <3>5, MovedInv DEF RenewSession, j, r, Indexed, Unclaimed
  <2>2. CASE index = "none" /\ Refuse(h, "session_expired")
    <3>1. ~ Alive
      BY <1>1, <2>2 DEF SessionInv, AnswerInv, RenewSession, Alive, Indexed
    <3> QED BY <1>1, <2>2, <3>1, RefusedInv DEF RenewSession, Preserved
  <2>3. CASE index = "tombstone" /\ Refuse(h, "event_deleted")
    BY <1>1, <2>3, RefusedInv DEF RenewSession, Preserved, SessionInv, EndInv
  <2> QED BY <1>1, <2>1, <2>2, <2>3 DEF RenewSession
<1>2. CASE RenewEvent(h)
  <2>1. CASE event = "open" /\ Proceed(h, [job[h] EXCEPT !.pc = "slot"]) /\ UNCHANGED <<holds, history>>
    <3>1. [job[h] EXCEPT !.pc = "slot"] \in Job
      BY <1>0, NextJob DEF PC
    <3>2. job'[h] = [job[h] EXCEPT !.pc = "slot"]
      BY <1>0, <2>1, <3>1, Proceeded DEF TypeOK
    <3>3. told = FALSE
      BY <2>1 DEF SessionInv, EndInv, Ended, TypeOK
    <3>4. JobInv(h)'
      BY <1>0, <1>2, <2>1, <3>2, <3>3 DEF RenewEvent, JobInv, At, Indexed, Unclaimed, history, Job
    <3> QED BY <1>2, <2>1, <3>1, <3>4, MovedInv DEF RenewEvent, Indexed, Unclaimed
  <2>2. CASE \/ event = "paused" /\ Refuse(h, "event_paused")
             \/ event = "deleting" /\ Refuse(h, "event_deleted")
             \/ event = "gone" /\ Refuse(h, "not_found")
    BY <1>2, <2>2, RefusedInv DEF RenewEvent, Preserved, Ended
  <2> QED BY <1>2, <2>1, <2>2 DEF RenewEvent
<1>3. CASE RenewSlot(h)
  <2>1. CASE /\ Alive /\ Proceed(h, [job[h] EXCEPT !.pc = "write", !.clock = now])
             /\ holds' = holds \cup {h} /\ UNCHANGED <<history, faults>>
    <3>1. [job[h] EXCEPT !.pc = "write", !.clock = now] \in Job
      BY <1>0, NextJob DEF PC
    <3>2. job'[h] = [job[h] EXCEPT !.pc = "write", !.clock = now]
      BY <1>0, <2>1, <3>1, Proceeded DEF TypeOK
    <3>3. JobInv(h)'
      BY <1>0, <1>3, <2>1, <3>2 DEF RenewSlot, JobInv, At, Indexed, Unclaimed, Alive, TypeOK, Job, history
    <3> QED BY <1>3, <2>1, <3>1, <3>3, MovedInv DEF RenewSlot, Indexed, Unclaimed
  <2>2. CASE Refuse(h, "session_expired") /\ (~ Alive \/ Fault)
    BY <1>3, <2>2, RefusedInv DEF RenewSlot, Preserved
  <2> QED BY <1>3, <2>1, <2>2 DEF RenewSlot
<1>4. CASE RenewWrite(h)
  <2>1. CASE h \in holds /\ WritePlace(Renewed(h), {}) /\ UNCHANGED history
             /\ \/ Proceed(h, [job[h] EXCEPT !.pc = "answer", !.grace = Kept(job[h].clock)])
                \/ Proceed(h, Idle)
    <3>1. /\ Keeps /\ holds' = {} /\ judged' = FALSE /\ event' = event
          /\ drawn /\ lost = Never /\ Unclaimed' /\ Indexed
          /\ Kept(job[h].clock) \in Nat /\ place' # NoPlace
          /\ place'.grace = Kept(job[h].clock)
      BY <1>4, <2>1, RenewedKeeps DEF RenewWrite, history
    <3>2. /\ job[h].at \in Nat /\ job[h].clock \in Nat /\ job[h].at <= job[h].clock
          /\ job[h].at <= now /\ job[h].late = FALSE
      BY <1>0, <1>4 DEF Job, JobInv, At, RenewWrite
    <3>3. JobInv(h)' /\ \A k \in Handlers \ {h} : job'[k] = job[k]
      <4>1. CASE Proceed(h, Idle)
        BY <1>0, <1>4, <4>1, IdleJob, Proceeded, IdleInv DEF RenewWrite, TypeOK
      <4>2. CASE Proceed(h, [job[h] EXCEPT !.pc = "answer", !.grace = Kept(job[h].clock)])
        <5> DEFINE g == Kept(job[h].clock)
                   j == [job[h] EXCEPT !.pc = "answer", !.grace = g]
        <5>0. g \in Nat /\ "answer" \in PC
          BY <3>1 DEF PC
        <5>3. Kept(job[h].at) <= g
          BY <3>2 DEF Kept
        <5>4. place'.grace = g
          BY <3>1
        <5> HIDE DEF g
        <5>1. /\ j \in Job /\ j.pc = "answer" /\ j.at = job[h].at
              /\ j.late = job[h].late /\ j.grace = g
          <6>1. [job[h] EXCEPT !.pc = "answer", !.grace = g] \in Job
            BY <1>0, <5>0, NextJob
          <6>2. LET t == [job[h] EXCEPT !.pc = "answer", !.grace = g]
                IN  t.pc = "answer" /\ t.at = job[h].at /\ t.late = job[h].late /\ t.grace = g
            BY <1>0, <5>0, NextParts
          <6> QED BY <6>1, <6>2
        <5> HIDE DEF j
        <5>2. job'[h] = j /\ \A k \in Handlers \ {h} : job'[k] = job[k]
          BY <1>0, <4>2, <5>1, Proceeded DEF TypeOK, j, g
        <5>5. lost' = Never /\ now' = now /\ index' = index /\ drawn' = drawn
          BY <1>4, <2>1, <3>1 DEF RenewWrite, history
        <5>6. Covered(job[h].grace)'
          BY <5>0, <5>1, <5>2, <5>4, <5>5 DEF Covered
        <5>7. Indexed'
          BY <3>1, <5>5 DEF Keeps
        <5> QED BY <3>1, <3>2, <5>1, <5>2, <5>3, <5>5, <5>6, <5>7 DEF JobInv, At, Kept, Covered
      <4> QED BY <2>1, <4>1, <4>2
    <3>4. ASSUME NEW k \in Handlers \ {h}
          PROVE  JobInv(k)'
      BY <1>0, <3>1, <3>3, Bystander DEF SessionInv
    <3>5. PlaceInv' /\ EndInv'
      BY <1>4, <2>1, <3>1 DEF RenewWrite, SessionInv, PlaceInv, EndInv, Ended, history
    <3>6. AnswerInv'
      <4>1. promised \in Nat /\ Covered(promised) /\ Covered(promised)'
        BY <1>0, <2>1, <3>1 DEF SessionInv, AnswerInv, Keeps, TypeOK, Covered, history
      <4> QED BY <1>4, <2>1, <3>1, <4>1 DEF RenewWrite, SessionInv, AnswerInv, Keeps, history
    <3> QED BY <3>3, <3>4, <3>5, <3>6 DEF Preserved
  <2>2. CASE /\ Refuse(h, "conflict") \/ Refuse(h, "internal_error")
             /\ UNCHANGED <<others, place>>
    BY <1>4, <2>2, RefusedInv DEF RenewWrite, Preserved
  <2>3. CASE /\ Proceed(h, [job[h] EXCEPT !.pc = "event", !.clock = 0])
             /\ UNCHANGED <<holds, history>> /\ UNCHANGED <<others, place, faults>>
    <3>1. [job[h] EXCEPT !.pc = "event", !.clock = 0] \in Job
      BY <1>0, NextJob DEF PC
    <3>2. job'[h] = [job[h] EXCEPT !.pc = "event", !.clock = 0]
      BY <1>0, <2>3, <3>1, Proceeded DEF TypeOK
    <3>3. JobInv(h)'
      BY <1>0, <1>4, <2>3, <3>2 DEF RenewWrite, JobInv, At, Indexed, Unclaimed, history, others, Job
    <3> QED BY <1>4, <2>3, <3>1, <3>3, MovedInv DEF RenewWrite, Indexed, Unclaimed
  <2> QED BY <1>4, <2>1, <2>2, <2>3 DEF RenewWrite
<1> QED BY <1>1, <1>2, <1>3, <1>4 DEF Renew

(* A step of someone who serves no request keeps what requests were told.  *)
LEMMA OutsideInv ==
  ASSUME SessionInv, job' = job, Keeps,
         \A k \in holds' : k \in holds /\ place' = place
  PROVE  \A k \in Handlers : JobInv(k)'
<1>1. ASSUME NEW k \in Handlers
      PROVE  JobInv(k)'
  BY Bystander DEF SessionInv
<1> QED BY <1>1

(* A place that is claimed, or gone, was one a guest may lose: no time it  *)
(* was told is later.                                                      *)
LEMMA LostKeeps ==
  ASSUME TypeOK, now' = now, drawn' = drawn, told => told',
         lost' = lost, Indexed => Indexed',
         place' = NoPlace \/ (place # NoPlace /\ place'.grace = place.grace)
  PROVE  Keeps
BY DEF Keeps, Covered, TypeOK

(* An answer that arrives in time is about times that are covered, and its *)
(* token is minted before the write timeout is over.                       *)
LEMMA AnswerPreserves ==
  ASSUME SessionInv, NEW h \in Handlers, Answer(h)
  PROVE  Preserved
<1> USE ConfigAssumption DEF Loads
<1>1. TypeOK /\ JobInv(h) /\ job'[h] = Idle /\ \A k \in Handlers \ {h} : job'[k] = job[k]
  BY IdleJob, Proceeded DEF SessionInv, TypeOK, Answer, Done
<1>2. Keeps
  BY SamePlaceKeeps DEF SessionInv, Answer, Indexed, Unclaimed
<1>3. \A k \in Handlers : JobInv(k)'
  <2>1. ASSUME NEW k \in Handlers \ {h}
        PROVE  JobInv(k)'
    BY <1>1, <1>2, Bystander DEF SessionInv, Answer, Done
  <2> QED BY <1>1, <2>1, IdleInv DEF Answer
<1>4. EndInv'
  BY DEF SessionInv, EndInv, Ended, Answer, others
<1>5. /\ job[h].grace \in Nat /\ job[h].at \in Nat /\ promised \in Nat /\ token \in Nat /\ now \in Nat
      /\ Kept(job[h].at) <= job[h].grace /\ Covered(job[h].grace) /\ Covered(promised)
      /\ Indexed /\ drawn /\ misled = FALSE
  BY <1>1 DEF SessionInv, TypeOK, Job, JobInv, At, Answer, AnswerInv
<1>6. CASE UNCHANGED <<cookie, promised, token>>
  BY <1>3, <1>4, <1>5, <1>6 DEF Answer, Preserved, SessionInv, PlaceInv, AnswerInv, Covered,
                          Indexed, Unclaimed, others
<1>7. CASE now <= job[h].at + WriteTimeout /\ Received(job[h])
  <2>1. PlaceInv' /\ ~ misled' /\ (cookie' => Indexed')
    BY <1>5 DEF Answer, SessionInv, PlaceInv, Indexed, Unclaimed, others
  <2>2. CASE /\ token' = Later(token, Minted) /\ promised' = Later(promised, job[h].grace)
    <3>1. Covered(promised)'
      BY <1>5, <2>2 DEF Answer, Covered, Later
    <3>2. now + TokenTTL + LeaseTTL + GracePeriod <= job[h].grace + WriteTimeout + TokenTTL
      BY <1>5, <1>7 DEF Kept
    <3>3. token' # 0 => token' + LeaseTTL + GracePeriod <= promised' + WriteTimeout + TokenTTL
      BY <1>5, <2>2, <3>2 DEF Later, Minted, SessionInv, AnswerInv
    <3> QED BY <1>3, <1>4, <2>1, <3>1, <3>3 DEF Preserved, AnswerInv
  <2>3. CASE promised' = Later(promised, job[h].grace - GracePeriod) /\ token' = token
    <3>1. Covered(promised)' /\ promised' >= promised
      <4>1. promised' = promised \/ (promised' = job[h].grace - GracePeriod /\ promised < promised')
        BY <2>3 DEF Later
      <4>2. UNCHANGED <<lost, place>> /\ (place # NoPlace => place.grace \in Nat)
            /\ lost \in Nat \cup {Never}
        BY <1>1 DEF Answer, TypeOK, Place
      <4> QED BY <1>5, <4>1, <4>2 DEF Covered
    <3>2. token' # 0 => token' + LeaseTTL + GracePeriod <= promised' + WriteTimeout + TokenTTL
      BY <1>5, <2>3, <3>1 DEF SessionInv, AnswerInv, Later
    <3> QED BY <1>3, <1>4, <2>1, <3>1, <3>2 DEF Preserved, AnswerInv
  <2> QED BY <1>7, <2>2, <2>3 DEF Received
<1> QED BY <1>6, <1>7 DEF Answer

(* The steps of the others.  A claim as expired is the one that ends a     *)
(* place a guest may count on: it was judged at the same revision, when    *)
(* its grace period was over.                                              *)
LEMMA OtherPreserves ==
  ASSUME SessionInv,
         \/ \E h \in Handlers : Crash(h)
         \/ EndSession \/ Presenters \/ Cleaners \/ Deletion \/ Tick
  PROVE  Preserved
<1> USE ConfigAssumption, PlaceAssumption DEF Loads
<1>0. TypeOK /\ now \in Nat /\ promised \in Nat
  BY DEF SessionInv, TypeOK
<1>1. ASSUME NEW h \in Handlers, Crash(h)
      PROVE  Preserved
  <2>1. JobInv(h)'
    BY <1>0, <1>1, IdleJob, Proceeded, IdleInv DEF Crash, Done, TypeOK
  <2> QED BY <1>1, <2>1, IdleJob, MovedInv DEF Crash, Done, Indexed, Unclaimed
<1>2. CASE EndSession
  <2>1. Keeps
    BY <1>0, <1>2, SamePlaceKeeps DEF EndSession, Indexed, Unclaimed, history
  <2>2. \A k \in Handlers : JobInv(k)'
    BY <1>2, <2>1, OutsideInv DEF EndSession
  <2> QED BY <1>2, <2>2 DEF Preserved, EndSession, SessionInv, PlaceInv, AnswerInv, EndInv, Ended,
                            Covered, Indexed, Unclaimed, others, history
<1>3. CASE SetOpen \/ SetPaused \/ Reserved \/ DeleteBegin \/ FinalizeEvent
  <2>1. /\ UNCHANGED <<now, place, index, drawn, holds, job, cookie, history, judged>>
        /\ Ended => Ended'
    BY <1>3 DEF SetOpen, SetPaused, Reserved, DeleteBegin, FinalizeEvent, Ended
  <2>2. Keeps
    BY <1>0, <2>1, SamePlaceKeeps DEF Indexed, Unclaimed, history
  <2>3. \A k \in Handlers : JobInv(k)'
    BY <2>1, <2>2, OutsideInv
  <2> QED BY <2>1, <2>3 DEF Preserved, SessionInv, PlaceInv, AnswerInv, EndInv,
                            Covered, Indexed, Unclaimed, history
<1>4. CASE Judge
  <2>1. Keeps
    BY <1>0, <1>4, SamePlaceKeeps DEF Judge, Indexed, Unclaimed, history
  <2>2. \A k \in Handlers : JobInv(k)'
    BY <1>4, <2>1, OutsideInv DEF Judge
  <2>3. Unclaimed /\ place.grace <= now
    BY <1>0, <1>4 DEF Judge, Alive, Unclaimed, TypeOK, Place
  <2> QED BY <1>4, <2>2, <2>3 DEF Judge, Preserved, SessionInv, PlaceInv, AnswerInv, EndInv, Ended,
                            Covered, Indexed, Unclaimed, history
<1>5. CASE Unindex \/ MarkSession
  <2>1. /\ UNCHANGED <<now, place, drawn, holds, job, cookie, history, judged, event>>
        /\ Indexed => Indexed'
        /\ index' = "tombstone" => Ended \/ index = "tombstone"
    BY <1>5 DEF Unindex, MarkSession, Indexed, Unclaimed, Ended
  <2>2. Keeps
    BY <1>0, <2>1, SamePlaceKeeps DEF history
  <2>3. \A k \in Handlers : JobInv(k)'
    BY <2>1, <2>2, OutsideInv
  <2> QED BY <2>1, <2>3 DEF Preserved, SessionInv, PlaceInv, AnswerInv, EndInv, Ended,
                            Covered, Unclaimed, history
<1>6. CASE ReserveSlot \/ ReleaseSlot
  <2>1. /\ UNCHANGED <<now, index, drawn, job, cookie, history, event>>
        /\ holds' = {} /\ judged' = FALSE /\ Unclaimed /\ place # NoPlace
    BY <1>6 DEF ReserveSlot, ReleaseSlot, WritePlace, Unclaimed
  <2>2. place \in Place
    BY <1>0, <2>1 DEF TypeOK
  <2>3. place'.grace = place.grace /\ place' # NoPlace /\ (Unclaimed' => Unclaimed)
    <3>1. CASE ReserveSlot
      <4> DEFINE p == [place EXCEPT !.reserved = TRUE]
      <4>1. p \in Place /\ p.grace = place.grace
        BY <2>2, PlaceParts DEF Place
      <4>2. place' = p
        BY <3>1 DEF ReserveSlot, WritePlace
      <4> HIDE DEF p
      <4> QED BY <2>1, <4>1, <4>2
    <3>2. CASE ReleaseSlot
      <4> DEFINE p == [place EXCEPT !.claim = "release"]
      <4>1. p \in Place /\ p.grace = place.grace
        BY <2>2, PlaceParts DEF Place
      <4>2. place' = p
        BY <3>2 DEF ReleaseSlot, WritePlace
      <4> HIDE DEF p
      <4> QED BY <2>1, <4>1, <4>2
    <3> QED BY <1>6, <3>1, <3>2
  <2>4. Keeps
    BY <1>0, <2>1, <2>3, LostKeeps DEF Indexed, history
  <2>5. \A k \in Handlers : JobInv(k)'
    BY <2>1, <2>4, OutsideInv
  <2> QED BY <2>1, <2>3, <2>5 DEF Preserved, SessionInv, PlaceInv, AnswerInv, EndInv, Ended,
                            Covered, Indexed, history
<1>7. CASE ClaimExpired
  <2>1. /\ UNCHANGED <<now, index, drawn, job, cookie, promised, token, told, misled, event>>
        /\ holds' = {} /\ judged' = FALSE /\ lost' = now
        /\ Unclaimed /\ place.grace <= now /\ lost = Never /\ drawn
    BY <1>7 DEF ClaimExpired, Claim, WritePlace, SessionInv, PlaceInv, Unclaimed
  <2>2. place \in Place /\ place.grace \in Nat
    BY <1>0, <2>1 DEF TypeOK, Unclaimed, Place
  <2>3. place' # NoPlace /\ ~ Unclaimed'
    <3> DEFINE p == [place EXCEPT !.claim = "expiry"]
    <3>1. p \in Place /\ p.claim = "expiry"
      BY <2>2, PlaceParts DEF Place
    <3>2. place' = p
      BY <1>7 DEF ClaimExpired, Claim, WritePlace
    <3> HIDE DEF p
    <3> QED BY <3>1, <3>2 DEF Unclaimed
  <2>4. \A g \in Nat : Covered(g) => Covered(g)'
    BY <1>0, <2>1, <2>2 DEF Covered, Unclaimed
  <2>5. Keeps
    BY <1>0, <2>1, <2>3, <2>4 DEF Keeps, Indexed
  <2>6. \A k \in Handlers : JobInv(k)'
    BY <2>1, <2>5, OutsideInv
  <2>7. Covered(promised)'
    BY <1>0, <2>1, <2>4 DEF SessionInv, AnswerInv, Covered
  <2> QED BY <2>1, <2>3, <2>6, <2>7 DEF Preserved, SessionInv, PlaceInv, AnswerInv, EndInv, Ended, Indexed
<1>8. CASE DropSlot \/ FinalizeSlot
  <2>1. /\ UNCHANGED <<now, index, drawn, job, cookie, history, event>>
        /\ holds' = {} /\ judged' = FALSE /\ place' = NoPlace
    BY <1>8 DEF DropSlot, FinalizeSlot, WritePlace
  <2>2. Keeps
    BY <1>0, <2>1, LostKeeps DEF Indexed, Unclaimed, history
  <2>3. \A k \in Handlers : JobInv(k)'
    BY <2>1, <2>2, OutsideInv
  <2> QED BY <2>1, <2>3 DEF Preserved, SessionInv, PlaceInv, AnswerInv, EndInv, Ended,
                            Covered, Indexed, Unclaimed, history
<1>9. CASE Tick
  <2>1. /\ UNCHANGED <<others, place, index, drawn, holds, job, cookie, history>>
        /\ now' = now + 1
    BY <1>9 DEF Tick
  <2>2. Keeps
    BY <1>0, <2>1 DEF Keeps, Covered, Indexed, Unclaimed, history
  <2>3. \A k \in Handlers : JobInv(k)'
    BY <2>1, <2>2, OutsideInv
  <2>4. judged => place.grace <= now'
    BY <1>0, <2>1 DEF SessionInv, PlaceInv, TypeOK, Unclaimed, Place
  <2> QED BY <2>1, <2>3, <2>4 DEF Preserved, SessionInv, PlaceInv, AnswerInv, EndInv, Ended,
                            Covered, Indexed, Unclaimed, others, history
<1> QED BY <1>1, <1>2, <1>3, <1>4, <1>5, <1>6, <1>7, <1>8, <1>9 DEF Presenters, Cleaners, Deletion

-----------------------------------------------------------------------------
(* Before the first request nothing was promised.                          *)
LEMMA SessionInit == Init => SessionInv
<1> SUFFICES ASSUME Init PROVE SessionInv
  OBVIOUS
<1> USE ConfigAssumption DEF Loads
<1>1. TypeOK
  <2>1. job \in [Handlers -> Job]
    BY IdleJob DEF Init
  <2>2. now \in 0 .. Horizon /\ faults \in 0 .. MaxFaults
    BY DEF Init
  <2> QED BY <2>1, <2>2 DEF Init, TypeOK
<1>2. ASSUME NEW h \in Handlers
      PROVE  JobInv(h)
  <2>1. job[h] = Idle /\ now = 0
    BY DEF Init
  <2>2. /\ job[h].at = 0 /\ job[h].late = FALSE /\ job[h].pc = "idle"
    BY <2>1 DEF Idle
  <2> QED BY <2>1, <2>2 DEF JobInv, At
<1>3. PlaceInv /\ AnswerInv /\ EndInv
  BY DEF Init, PlaceInv, AnswerInv, EndInv, Covered, Unclaimed, Indexed
<1> QED BY <1>1, <1>2, <1>3 DEF SessionInv

(* A step that changes nothing keeps everything.                           *)
LEMMA StutterPreserves == SessionInv /\ UNCHANGED vars => SessionInv'
<1> SUFFICES ASSUME SessionInv, UNCHANGED vars PROVE SessionInv'
  OBVIOUS
<1>1. TypeOK'
  BY DEF SessionInv, TypeOK, vars, others, history
<1>2. \A h \in Handlers : JobInv(h)'
  <2>1. Keeps
    BY SamePlaceKeeps DEF SessionInv, vars, others, history, Indexed, Unclaimed
  <2> QED BY <2>1, OutsideInv DEF vars
<1>3. PlaceInv' /\ AnswerInv' /\ EndInv'
  BY DEF SessionInv, PlaceInv, AnswerInv, EndInv, Ended, Covered, Unclaimed, Indexed,
         vars, others, history
<1> QED BY <1>1, <1>2, <1>3 DEF SessionInv

(* The invariant is inductive.                                             *)
LEMMA SessionStep == SessionInv /\ [Next]_vars => SessionInv'
<1> SUFFICES ASSUME SessionInv, Next PROVE SessionInv'
  BY StutterPreserves
<1>0. TypeOK /\ PlaceInv /\ \A h \in Handlers : JobInv(h)
  BY DEF SessionInv
<1>1. ASSUME NEW h \in Handlers, Start(h)
      PROVE  SessionInv'
  BY <1>0, <1>1, StartTypes, StartPreserves DEF Preserved, SessionInv
<1>2. ASSUME NEW h \in Handlers, Renew(h)
      PROVE  SessionInv'
  BY <1>0, <1>2, RenewTypes, RenewPreserves DEF Preserved, SessionInv
<1>3. ASSUME NEW h \in Handlers, Answer(h)
      PROVE  SessionInv'
  BY <1>0, <1>3, OtherTypes, AnswerPreserves DEF Preserved, SessionInv
<1>4. CASE \/ \E h \in Handlers : Crash(h)
           \/ EndSession \/ Presenters \/ Cleaners \/ Deletion \/ Tick
  BY <1>0, <1>4, OtherTypes, OtherPreserves DEF Preserved, SessionInv
<1> QED BY <1>1, <1>2, <1>3, <1>4 DEF Next, Guest

(* The types of GuestSession, and everything its invariant says, hold in   *)
(* every run of the program it models.                                     *)
THEOREM SessionInvariant == Spec => []SessionInv
<1> QED BY SessionInit, SessionStep, PTL DEF Spec

THEOREM SessionTypes == Spec => []TypeOK
<1>1. SessionInv => TypeOK
  BY DEF SessionInv
<1> QED BY <1>1, SessionInvariant, PTL

(* A place is never claimed as expired before the last moment up to which  *)
(* a delivered answer said it would be kept, whatever the configured times *)
(* and however long the answer was on its way.                             *)
THEOREM PromisesAreKept == Spec => []PromiseKept
<1>1. SessionInv => PromiseKept
  BY DEF SessionInv, AnswerInv, Covered, PromiseKept
<1> QED BY <1>1, SessionInvariant, PTL

(* A delivered token outlives the claim of the place by no more than the   *)
(* write timeout and the token's life exceed lease and grace period.       *)
THEOREM TokensRunOut == Spec => []TokenRunsOut
<1>1. SessionInv => TokenRunsOut
  <2> SUFFICES ASSUME SessionInv, lost # Never, token # 0
               PROVE  token + LeaseTTL + GracePeriod <= lost + WriteTimeout + TokenTTL
    BY DEF TokenRunsOut
  <2>1. promised <= lost /\ promised \in Nat /\ lost \in Nat /\ token \in Nat
    BY DEF SessionInv, AnswerInv, Covered, TypeOK
  <2>2. token + LeaseTTL + GracePeriod <= promised + WriteTimeout + TokenTTL
    BY DEF SessionInv, AnswerInv
  <2> QED BY <2>1, <2>2, ConfigAssumption DEF Loads
<1> QED BY <1>1, SessionInvariant, PTL

(* With a configuration whose place lasts as long as its tokens and the    *)
(* slowest answer together, no token outlives the place of its guest.      *)
COROLLARY NoTokenOutlivesItsPlace ==
  ASSUME WriteTimeout + TokenTTL <= LeaseTTL + GracePeriod
  PROVE  Spec => [](lost # Never => token <= lost)
<1>1. SessionInv /\ TokenRunsOut => (lost # Never => token <= lost)
  <2> SUFFICES ASSUME SessionInv, TokenRunsOut, lost # Never
               PROVE  token <= lost
    OBVIOUS
  <2>1. token \in Nat /\ lost \in Nat
    BY DEF SessionInv, TypeOK
  <2> QED BY <2>1, ConfigAssumption DEF Loads, TokenRunsOut
<1> QED BY <1>1, SessionInvariant, TokensRunOut, PTL

(* After one answer that the event is deleted, no later request of the     *)
(* guest is given a session.                                               *)
THEOREM DeletionIsTold == Spec => []DeletedIsFinal
<1>1. SessionInv => DeletedIsFinal
  BY DEF SessionInv, JobInv, DeletedIsFinal, At
<1> QED BY <1>1, SessionInvariant, PTL

(* But for a failed call, a guest whose session is answered as expired has *)
(* no place any more.                                                      *)
THEOREM ExpiryIsTold == Spec => []ExpiredMeansGone
<1>1. SessionInv => ExpiredMeansGone
  BY DEF SessionInv, AnswerInv, ExpiredMeansGone
<1> QED BY <1>1, SessionInvariant, PTL

(* No write to the place, by whichever request, shortens its lease.        *)
THEOREM LeasesGrow == Spec => LeaseNeverShortened
<1>1. SessionInv /\ [Next]_vars =>
        [(place # NoPlace /\ place' # NoPlace) => place'.grace >= place.grace]_vars
  <2> SUFFICES ASSUME SessionInv, Next, place # NoPlace, place' # NoPlace
               PROVE  place'.grace >= place.grace
    OBVIOUS
  <2> USE ConfigAssumption, PlaceAssumption DEF Loads
  <2>0. place \in Place /\ place.grace \in Nat /\ drawn
    BY DEF SessionInv, TypeOK, PlaceInv, Place
  <2>1. CASE place' = place
    BY <2>0, <2>1
  <2>2. CASE ReserveSlot
    <3>1. place' = [place EXCEPT !.reserved = TRUE]
      BY <2>2 DEF ReserveSlot, WritePlace
    <3> QED BY <2>0, <3>1 DEF Place
  <2>3. CASE ReleaseSlot
    <3>1. place' = [place EXCEPT !.claim = "release"]
      BY <2>3 DEF ReleaseSlot, WritePlace
    <3> QED BY <2>0, <3>1 DEF Place
  <2>4. CASE ClaimExpired
    <3>1. place' = [place EXCEPT !.claim = "expiry"]
      BY <2>4 DEF ClaimExpired, Claim, WritePlace
    <3> QED BY <2>0, <3>1 DEF Place
  <2>5. ASSUME NEW h \in Handlers, RenewWrite(h), place' # place
        PROVE  place'.grace >= place.grace
    <3>1. h \in holds /\ WritePlace(Renewed(h), {}) /\ UNCHANGED history
      BY <2>5 DEF RenewWrite, history
    <3> QED BY <2>5, <3>1, RenewedKeeps DEF RenewWrite, history
  <2>6. ASSUME NEW h \in Handlers, Start(h) \/ RenewEvent(h) \/ RenewSlot(h) \/ Answer(h) \/ Crash(h)
                                  \/ \E kind \in {"token", "heartbeat"} : RenewSession(h, kind)
        PROVE  place' = place
    <3>1. CASE Start(h)
      BY <2>0, <3>1 DEF Start, StartSession, StartCreate, StartRecheck, StartIndex, StartUndo, WritePlace
    <3> QED BY <2>6, <3>1 DEF RenewEvent, RenewSlot, Answer, Crash, RenewSession
  <2>7. CASE EndSession \/ SetOpen \/ SetPaused \/ Reserved \/ Judge \/ Unindex
             \/ DeleteBegin \/ MarkSession \/ FinalizeEvent \/ Tick
    BY <2>1, <2>7 DEF EndSession, SetOpen, SetPaused, Reserved, Judge, Unindex, DeleteBegin,
                MarkSession, FinalizeEvent, Tick
  <2>8. ~ DropSlot /\ ~ FinalizeSlot
    BY DEF DropSlot, FinalizeSlot, WritePlace
  <2> QED BY <2>1, <2>2, <2>3, <2>4, <2>5, <2>6, <2>7, <2>8
          DEF Next, Guest, Renew, Presenters, Cleaners, Deletion
<1> QED BY <1>1, SessionInvariant, PTL DEF Spec, LeaseNeverShortened
=============================================================================
