-------------------------- MODULE RecoverySchedule --------------------------
(***************************************************************************)
(* When recovery gets round to a task: the controller's ticks and the time *)
(* limit of a pass (recovery/controller.go:34-69), the oldest-due-first    *)
(* batch of Reconcile (access/recovery.go:211-280), claims that lapse and  *)
(* back-offs that grow (access/recovery.go:18-45), and the time limit of   *)
(* the request to the application (cleanup/nats.go:56).                    *)
(*                                                                         *)
(* A task is a cleanup that recovery found in a record: of a slot, or of   *)
(* an event being deleted.  What a cleanup does to the records is          *)
(* SlotCleanup's and EventDeletion's; here it is claimed, the application  *)
(* is asked, and it is put off or done.  What matters is when.             *)
(*                                                                         *)
(* Time is counted in units of RetryBase, five seconds, and relative to    *)
(* now: due is how far NextAttemptAt lies ahead, and negative when it has  *)
(* passed.  As in GuestState a revision is the set of the controllers that *)
(* remember the current one.                                               *)
(***************************************************************************)
EXTENDS Integers, Sequences, FiniteSets

CONSTANTS
  Task,          \* cleanups that come up; each once
  Controller,    \* recovery controllers, one for each running process
  Interval,      \* NGA_CLEANUP_INTERVAL
  Batch,         \* NGA_CLEANUP_BATCH_SIZE
  Timeout,       \* NGA_CLEANUP_TIMEOUT
  Slack,         \* how long a claim outlives Timeout: fifteen seconds
  PassLimit,     \* the time limit of a pass: a minute
  MaxAttempts,   \* more attempts than these count as these: six
  StoreDelay,    \* bound: how long a call to the store takes at most
  Horizon,       \* bound: how far back a due time is told apart
  MaxFaults,     \* bound: crashes and failed calls to the store
  NoTask

CeilDiv(a, b) == (a + b - 1) \div b

(* Mutant of Lease: a claim as long as the request.                        *)
LeaseTight == Timeout

Lease == Timeout + Slack      \* ConfigureCleanupLease

(* retryDelay: 5 s, doubled with every attempt after the first, at most    *)
(* 160 s.                                                                  *)
RetryDelay(attempts) == <<1, 2, 4, 8, 16, 32>>[IF attempts < 1 THEN 1 ELSE attempts]

(* Mutant of OneMore: the count that retryDelay shifts by is not capped.   *)
OneMoreUncapped(attempts) == attempts + 1

OneMore(attempts) == IF attempts < MaxAttempts THEN attempts + 1 ELSE attempts

Record == [due : Int, attempts : 0 .. MaxAttempts]

(* What start-up insists on.                                               *)
Loads ==
  /\ Interval \in Nat /\ Interval > 0
  /\ Batch \in 1 .. 1000
  /\ Timeout \in Nat /\ Timeout > 0

ASSUME ConfigAssumption == Loads
ASSUME TimeAssumption ==
  /\ MaxAttempts \in 1 .. 6
  /\ Slack \in Nat /\ PassLimit \in Nat
  /\ StoreDelay \in Nat /\ Horizon \in Nat /\ MaxFaults \in Nat
(* What the fifteen seconds are for.                                       *)
ASSUME SlackAssumption == StoreDelay < Slack
(* A pass has a minute, a call to the store less than the fifteen seconds. *)
ASSUME PassAssumption == 2 * StoreDelay < PassLimit
(* There is a process, and recovery runs with it.                          *)
ASSUME ControllerAssumption == Controller # {}
ASSUME TaskAssumption == IsFiniteSet(Task) /\ NoTask \notin Record \cup Task

VARIABLES
  task,     \* the cleanup recorded with each task; NoTask before and after
  come,     \* tasks that have come up
  holds,    \* controllers remembering the current revision of each record
  job,      \* where each controller is in its pass
  gauge,    \* nga_cleanup_pending of each controller
  faults    \* failures so far

vars == <<task, come, holds, job, gauge, faults>>

Job == [pc      : {"wait", "scan", "pick", "claim", "call", "save", "drop"},
        queue   : Seq(Task),               \* due tasks of the scan not yet attempted
        now     : Task \cup {NoTask},      \* the one being attempted
        tries   : 0 .. Batch,              \* report.Attempted
        found   : SUBSET Task,             \* every task of the scan
        pending : 0 .. Cardinality(Task),  \* report.Pending
        left    : 0 .. PassLimit,          \* until the context of the pass ends
        timer   : 0 .. Timeout,            \* until the request's own time limit
        slow    : 0 .. StoreDelay,         \* how long the present store call has taken
        ticker  : 0 .. Interval,           \* until the ticker fires
        fired   : BOOLEAN]                 \* a tick waits in the ticker's channel

(* Run starts with a pass.                                                 *)
Started == [pc |-> "wait", queue |-> <<>>, now |-> NoTask, tries |-> 0, found |-> {},
            pending |-> 0, left |-> 0, timer |-> 0, slow |-> 0, ticker |-> 0, fired |-> TRUE]

At(c, label) == job[c].pc = label
Proceed(c, j) == job' = [job EXCEPT ![c] = j]
Present == {t \in Task : task[t] # NoTask}
IsDue(t) == task[t] # NoTask /\ task[t].due <= 0
Fault == faults < MaxFaults /\ faults' = faults + 1

-----------------------------------------------------------------------------
(* A place expires, or its cleanup was left to recovery: due now.          *)
Arise(t) ==
  /\ t \notin come
  /\ come' = come \cup {t}
  /\ task' = [task EXCEPT ![t] = [due |-> 0, attempts |-> 0]]
  /\ UNCHANGED <<holds, job, gauge, faults>>

(* A tick is taken from the channel; the first pass starts the ticker.     *)
StartPass(c) ==
  /\ At(c, "wait") /\ job[c].fired
  /\ Proceed(c, [job[c] EXCEPT !.pc = "scan", !.fired = FALSE, !.left = PassLimit, !.slow = 0, !.tries = 0])
  /\ UNCHANGED <<task, come, holds, gauge, faults>>

(* Back in Run.  The ticker is created after the first pass.               *)
Rest(j) == [j EXCEPT !.pc = "wait", !.queue = <<>>, !.now = NoTask, !.tries = 0, !.found = {},
                     !.left = 0, !.timer = 0, !.slow = 0,
                     !.ticker = IF @ = 0 THEN Interval ELSE @]

(* Mutant of Orders: the last to fall due first.                           *)
OrdersNewestFirst(S) ==
  {q \in [1 .. Cardinality(S) -> S] :
     \A i, k \in 1 .. Cardinality(S) : i < k => q[i] # q[k] /\ task[q[i]].due >= task[q[k]].due}

(* Oldest due first; equals in any order.                                  *)
Orders(S) ==
  {q \in [1 .. Cardinality(S) -> S] :
     \A i, k \in 1 .. Cardinality(S) : i < k => q[i] # q[k] /\ task[q[i]].due <= task[q[k]].due}

(* The scan.  Tasks that are not due count as pending and are passed over. *)
Scan(c) ==
  LET due == {t \in Present : IsDue(t)} IN
  /\ At(c, "scan")
  /\ \E q \in Orders(due) :
       Proceed(c, [job[c] EXCEPT !.pc = "pick", !.queue = q, !.found = Present,
                                 !.pending = Cardinality(Present), !.slow = 0])
  /\ holds' = [t \in Task |-> IF t \in due THEN holds[t] \cup {c} ELSE holds[t] \ {c}]
  /\ UNCHANGED <<task, come, gauge, faults>>

(* Reconcile returns an error: the report is dropped and the gauge kept.   *)
ScanFails(c) ==
  /\ At(c, "scan")
  /\ Fault \/ (job[c].left = 0 /\ UNCHANGED faults)
  /\ Proceed(c, Rest(job[c]))
  /\ UNCHANGED <<task, come, holds, gauge>>

More(j) == j.queue # <<>> /\ j.tries < Batch

(* ctx.Err is asked before every attempt.                                  *)
Pick(c) ==
  LET j == job[c] IN
  /\ At(c, "pick") /\ More(j) /\ j.left > 0
  /\ Proceed(c, [j EXCEPT !.pc = "claim", !.now = Head(j.queue), !.queue = Tail(j.queue),
                          !.tries = @ + 1, !.slow = 0])
  /\ UNCHANGED <<task, come, holds, gauge, faults>>

(* The pass has run out of time: an error, as if the scan had failed.      *)
PassCut(c) ==
  /\ At(c, "pick") /\ More(job[c]) /\ job[c].left = 0
  /\ Proceed(c, Rest(job[c]))
  /\ UNCHANGED <<task, come, holds, gauge, faults>>

(* The report of the pass becomes the gauge.                               *)
PassDone(c) ==
  /\ At(c, "pick") /\ ~ More(job[c])
  /\ Proceed(c, Rest(job[c]))
  /\ gauge' = [gauge EXCEPT ![c] = job[c].pending]
  /\ UNCHANGED <<task, come, holds, faults>>

-----------------------------------------------------------------------------
(* A call to the store that fails; once the pass has run out of time any   *)
(* call may (NATS looks at the context, memory does not).                  *)
StoreFails(c) == Fault \/ (job[c].left = 0 /\ UNCHANGED faults)

NextTask(j) == [j EXCEPT !.pc = "pick", !.now = NoTask, !.timer = 0, !.slow = 0]

Write(c, t, record) ==
  /\ task' = [task EXCEPT ![t] = record]
  /\ holds' = [holds EXCEPT ![t] = {c}]

(* claimCleanup: NextAttemptAt was reckoned when the call to the store was *)
(* made, so what the call took is gone from it.                            *)
Claimed(t, slow) == [due |-> Lease - slow, attempts |-> OneMore(task[t].attempts)]

Claim(c) ==
  LET j == job[c] IN
  /\ At(c, "claim")
  /\ \/ /\ c \in holds[j.now]
        /\ Write(c, j.now, Claimed(j.now, j.slow))
        /\ Proceed(c, [j EXCEPT !.pc = "call", !.timer = Timeout, !.slow = 0])
        /\ UNCHANGED faults
     \/ /\ c \notin holds[j.now]
        /\ Proceed(c, NextTask(j))
        /\ UNCHANGED <<task, holds, faults>>
     \/ /\ StoreFails(c)
        /\ Proceed(c, NextTask(j))
        /\ \/ UNCHANGED <<task, holds>>
           \/ /\ c \in holds[j.now]
              /\ task' = [task EXCEPT ![j.now] = Claimed(j.now, j.slow)]
              /\ holds' = [holds EXCEPT ![j.now] = {}]
  /\ UNCHANGED <<come, gauge>>

(* The application acknowledges, at any moment before the time limits.     *)
Answered(c) ==
  /\ At(c, "call")
  /\ Proceed(c, [job[c] EXCEPT !.pc = "drop", !.timer = 0, !.slow = 0])
  /\ UNCHANGED <<task, come, holds, gauge, faults>>

(* It fails at once, or nothing is heard until the time is up.             *)
Unanswered(c) ==
  /\ At(c, "call")
  /\ job[c].timer \in {0, Timeout} \/ job[c].left = 0
  /\ Proceed(c, [job[c] EXCEPT !.pc = "save", !.timer = 0, !.slow = 0])
  /\ UNCHANGED <<task, come, holds, gauge, faults>>

(* The back-off; a claim of another controller, or a failure, leaves the   *)
(* record as it is.                                                        *)
Save(c) ==
  LET j == job[c] IN
  /\ At(c, "save")
  /\ Proceed(c, NextTask(j))
  /\ \/ /\ c \in holds[j.now]
        /\ Write(c, j.now, [task[j.now] EXCEPT !.due = RetryDelay(task[j.now].attempts) - j.slow])
        /\ UNCHANGED faults
     \/ c \notin holds[j.now] /\ UNCHANGED <<task, holds, faults>>
     \/ StoreFails(c) /\ UNCHANGED <<task, holds>>
  /\ UNCHANGED <<come, gauge>>

(* Mutant of Drop: a conflict is counted as completed.                     *)
DropCounted(c) ==
  LET j == job[c] IN
  /\ At(c, "drop")
  /\ \/ /\ c \in holds[j.now]
        /\ task' = [task EXCEPT ![j.now] = NoTask]
        /\ holds' = [holds EXCEPT ![j.now] = {}]
        /\ Proceed(c, [NextTask(j) EXCEPT !.pending = @ - 1])
        /\ UNCHANGED faults
     \/ /\ c \notin holds[j.now]
        /\ Proceed(c, [NextTask(j) EXCEPT !.pending = @ - 1])
        /\ UNCHANGED <<task, holds, faults>>
     \/ /\ StoreFails(c)
        /\ Proceed(c, NextTask(j))
        /\ UNCHANGED <<task, holds>>
  /\ UNCHANGED <<come, gauge>>

(* The record goes, at the revision of the claim, and the task is done; as *)
(* it is when the store says that the record is gone (memory does, NATS    *)
(* has a conflict then).                                                   *)
Drop(c) ==
  LET j == job[c] IN
  /\ At(c, "drop")
  /\ \/ /\ c \in holds[j.now]
        /\ task' = [task EXCEPT ![j.now] = NoTask]
        /\ holds' = [holds EXCEPT ![j.now] = {}]
        /\ Proceed(c, [NextTask(j) EXCEPT !.pending = @ - 1])
        /\ UNCHANGED faults
     \/ /\ task[j.now] = NoTask
        /\ Proceed(c, [NextTask(j) EXCEPT !.pending = @ - 1])
        /\ UNCHANGED <<task, holds, faults>>
     \/ /\ c \notin holds[j.now]
        /\ Proceed(c, NextTask(j))
        /\ UNCHANGED <<task, holds, faults>>
     \/ /\ StoreFails(c)
        /\ Proceed(c, NextTask(j))
        /\ UNCHANGED <<task, holds>>
  /\ UNCHANGED <<come, gauge>>

(* The process dies and is started again.                                  *)
Crash(c) ==
  /\ Fault
  /\ Proceed(c, Started)
  /\ gauge' = [gauge EXCEPT ![c] = 0]
  /\ holds' = [t \in Task |-> holds[t] \ {c}]
  /\ UNCHANGED <<task, come>>

-----------------------------------------------------------------------------
(* A unit of time passes, unless a controller has something to do at once: *)
(* its own code takes no time, a store call at most StoreDelay, a request  *)
(* ends with its own time limit or with that of the pass.                  *)
MayWait(j) ==
  \/ j.pc = "wait" /\ ~ j.fired
  \/ j.pc \in {"scan", "claim", "save", "drop"} /\ j.slow < StoreDelay
  \/ j.pc = "call" /\ j.timer > 0 /\ j.left > 0

Minus(n) == IF n = 0 THEN 0 ELSE n - 1

Later(j) ==
  [j EXCEPT !.left = Minus(@), !.timer = Minus(@),
            !.slow = IF j.pc \in {"scan", "claim", "save", "drop"} THEN @ + 1 ELSE 0,
            !.ticker = IF @ = 1 THEN Interval ELSE Minus(@),
            !.fired = @ \/ j.ticker = 1]

Tick ==
  /\ \A c \in Controller : MayWait(job[c])
  /\ job' = [c \in Controller |-> Later(job[c])]
  /\ task' = [t \in Task |-> IF task[t] # NoTask /\ task[t].due > -Horizon
                             THEN [task[t] EXCEPT !.due = @ - 1] ELSE task[t]]
  /\ UNCHANGED <<come, holds, gauge, faults>>

Init ==
  /\ task = [t \in Task |-> NoTask] /\ come = {}
  /\ holds = [t \in Task |-> {}]
  /\ job = [c \in Controller |-> Started]
  /\ gauge = [c \in Controller |-> 0]
  /\ faults = 0

Pass(c) ==
  \/ StartPass(c) \/ Scan(c) \/ ScanFails(c) \/ Pick(c) \/ PassCut(c) \/ PassDone(c)
  \/ Claim(c) \/ Answered(c) \/ Unanswered(c) \/ Save(c) \/ Drop(c)

Next ==
  \/ \E t \in Task : Arise(t)
  \/ \E c \in Controller : Pass(c) \/ Crash(c)
  \/ Tick

Spec == Init /\ [][Next]_vars

-----------------------------------------------------------------------------
(* Every variable has its type.                                            *)
TypeOK ==
  /\ task \in [Task -> Record \cup {NoTask}]
  /\ come \subseteq Task
  /\ holds \in [Task -> SUBSET Controller]
  /\ job \in [Controller -> Job]
  /\ gauge \in [Controller -> 0 .. Cardinality(Task)]
  /\ faults \in 0 .. MaxFaults

(* While one controller waits for the application no other asks it for the *)
(* same cleanup: the claim outlives the request, by more than the claim    *)
(* itself takes to be written (access/recovery.go:18-22, README:173).      *)
ClaimExclusive ==
  \A c, d \in Controller :
    (At(c, "call") /\ At(d, "call") /\ job[c].now = job[d].now) => c = d

(* A task that is due is attempted before long, however many others fail   *)
(* again and again: they go to the back of the queue (access/recovery.go:  *)
(* 211-212).  A pass has time for PerPass attempts: the scan takes up to   *)
(* StoreDelay, and so does a last claim that fails because the time is up. *)
(* A task may wait for the pass that was under way, for those that attempt *)
(* the tasks before it, and for one more with every failure; and what a    *)
(* back-off is counted from lies up to StoreDelay before it is written.    *)
PerAttempt == Timeout + 2 * StoreDelay
PerPass == CHOOSE n \in {Batch, CeilDiv(PassLimit - 2 * StoreDelay, PerAttempt)} :
             n <= Batch /\ n <= CeilDiv(PassLimit - 2 * StoreDelay, PerAttempt)
PassLength == PassLimit + 2 * StoreDelay + Interval
MaxWait == StoreDelay + PassLength * (1 + CeilDiv(Cardinality(Task), PerPass) + MaxFaults)
NoStarvation == \A t \in Present : -(task[t].due) <= MaxWait

(* The backlog that a pass reports is never less than what is left of it   *)
(* (README:194-195, "instead of reporting a misleading zero").             *)
BacklogNotUnderstated ==
  [][\A c \in Controller :
       PassDone(c) => gauge'[c] >= Cardinality(job[c].found \cap Present)]_vars
=============================================================================
