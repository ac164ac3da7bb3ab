----------------------- MODULE RecoveryScheduleProofs -----------------------
(***************************************************************************)
(* That a claim is exclusive, that the backlog is not understated, that    *)
(* every counter keeps its range, and that no task waits for longer than   *)
(* MaxWait, for every number of controllers and tasks, every time limit    *)
(* and every batch, as long as a call to the store takes less than the     *)
(* fifteen seconds by which a claim outlives the request.                  *)
(***************************************************************************)
EXTENDS RecoverySchedule, FiniteSetTheorems, TLAPS

LEMMA ConstantTypes ==
  /\ Timeout \in Nat /\ Slack \in Nat /\ StoreDelay \in Nat
  /\ Lease \in Int /\ Lease = Timeout + Slack /\ Slack > StoreDelay
BY ConfigAssumption, TimeAssumption, SlackAssumption DEF Loads, Lease

(* What a job has, and the ranges of what time runs over.    *)
JobShape(j) ==
  /\ DOMAIN j = {"pc", "queue", "now", "tries", "found", "pending", "left", "timer", "slow",
                 "ticker", "fired"}
  /\ j.timer \in Nat
  /\ j.slow \in 0 .. StoreDelay

JobShapes == DOMAIN job = Controller /\ \A c \in Controller : JobShape(job[c])
TaskShapes == task \in [Task -> Record \cup {NoTask}] /\ DOMAIN holds = Task

(* A task is there only once it has come up, nobody remembers a record     *)
(* that is gone, and a controller attempts tasks only.                     *)
Comings ==
  /\ \A t \in Task : task[t] # NoTask => t \in come
  /\ \A t \in Task : holds[t] # {} => task[t] # NoTask
  /\ \A c \in Controller :
       /\ job[c].queue \in Seq(Task)
       /\ job[c].pc \in {"claim", "call", "save", "drop"} => job[c].now \in Task

(* While a controller waits for the application nobody else remembers the  *)
(* revision of its claim, and the claim lapses after the request ends.     *)
ClaimHeld(c) ==
  LET j == job[c] IN
  At(c, "call") => /\ j.now \in Task
                   /\ task[j.now] # NoTask
                   /\ holds[j.now] = {c}
                   /\ task[j.now].due > j.timer

ClaimInv == JobShapes /\ TaskShapes /\ Comings /\ \A c \in Controller : ClaimHeld(c)

-----------------------------------------------------------------------------
LEMMA InitClaim == Init => ClaimInv
<1> SUFFICES ASSUME Init PROVE ClaimInv
  OBVIOUS
<1>1. JobShapes
  BY ConstantTypes DEF Init, JobShapes, Started, JobShape
<1>2. TaskShapes
  BY DEF Init, TaskShapes
<1>3. Comings
  <2>1. \A c \in Controller : job[c].queue = <<>> /\ job[c].pc = "wait"
    BY DEF Init, Started
  <2>2. \A t \in Task : task[t] = NoTask /\ holds[t] = {}
    BY DEF Init
  <2>3. <<>> \in Seq(Task)
    OBVIOUS
  <2> QED
    BY <2>1, <2>2, <2>3, Zenon DEF Comings
<1>4. \A c \in Controller : ClaimHeld(c)
  BY DEF Init, ClaimHeld, Started, At
<1> QED
  BY <1>1, <1>2, <1>3, <1>4 DEF ClaimInv

(* An order of the due tasks is a sequence of tasks.                       *)
LEMMA OrdersAreSequences ==
  ASSUME NEW S \in SUBSET Task, NEW q \in Orders(S)
  PROVE  q \in Seq(Task)
<1>1. IsFiniteSet(S)
  BY TaskAssumption, FS_Subset
<1>2. Cardinality(S) \in Nat
  BY <1>1, FS_CardinalityType
<1>3. q \in [1 .. Cardinality(S) -> Task]
  BY DEF Orders
<1> QED
  BY <1>2, <1>3

(* The ends of an attempt and of a pass keep the shape of the job.         *)
LEMMA EndsShape ==
  ASSUME NEW j, JobShape(j)
  PROVE  /\ JobShape(NextTask(j)) /\ NextTask(j).pc = "pick" /\ NextTask(j).queue = j.queue
         /\ JobShape(Rest(j)) /\ Rest(j).pc = "wait" /\ Rest(j).queue = <<>>
<1>1. JobShape(NextTask(j)) /\ NextTask(j).pc = "pick" /\ NextTask(j).queue = j.queue
  BY ConstantTypes DEF JobShape, NextTask
<1>2. DOMAIN Rest(j) = DOMAIN j /\ Rest(j).timer = 0 /\ Rest(j).slow = 0
  BY DEF JobShape, Rest
<1>3. Rest(j).pc = "wait" /\ Rest(j).queue = <<>>
  BY DEF JobShape, Rest
<1> QED
  BY <1>1, <1>2, <1>3, ConstantTypes DEF JobShape

LEMMA ProceedShape ==
  ASSUME JobShapes, NEW c \in Controller, NEW j, JobShape(j), Proceed(c, j)
  PROVE  JobShapes' /\ job'[c] = j /\ \A d \in Controller \ {c} : job'[d] = job[d]
BY DEF JobShapes, JobShape, Proceed

(* What a claim and a back-off write are records.                          *)
LEMMA WritesShape ==
  ASSUME TaskShapes, NEW t \in Task, task[t] # NoTask, NEW slow \in 0 .. StoreDelay
  PROVE  /\ Claimed(t, slow) \in Record /\ Claimed(t, slow).due = Lease - slow
         /\ [task[t] EXCEPT !.due = RetryDelay(task[t].attempts) - slow] \in Record
         /\ NoTask \notin Record
<1>1. task[t] \in Record
  BY DEF TaskShapes
<1>2. OneMore(task[t].attempts) \in 0 .. MaxAttempts
  BY <1>1, TimeAssumption DEF Record, OneMore
<1>3. RetryDelay(task[t].attempts) \in Int
  BY <1>1, TimeAssumption DEF Record, RetryDelay
<1> QED
  BY <1>1, <1>2, <1>3, ConstantTypes, TaskAssumption DEF Record, Claimed

-----------------------------------------------------------------------------
(* A step of a pass that writes nothing and sends no request.              *)
LEMMA QuietStep ==
  ASSUME ClaimInv, NEW c \in Controller, NEW j, JobShape(j), Proceed(c, j),
         j.queue \in Seq(Task), j.pc # "call",
         j.pc \in {"claim", "save", "drop"} => j.now \in Task,
         UNCHANGED <<task, come, holds>>
  PROVE  ClaimInv'
<1>1. JobShapes' /\ job'[c] = j /\ \A d \in Controller \ {c} : job'[d] = job[d]
  BY ProceedShape DEF ClaimInv
<1>2. TaskShapes'
  BY DEF ClaimInv, TaskShapes
<1>3. Comings'
  BY <1>1 DEF ClaimInv, Comings
<1>4. \A d \in Controller : ClaimHeld(d)'
  BY <1>1 DEF ClaimInv, ClaimHeld, At
<1> QED
  BY <1>1, <1>2, <1>3, <1>4 DEF ClaimInv

(* A step that writes or deletes the record at a revision the controller   *)
(* remembers: no other controller's claim is on it.                        *)
LEMMA WriteStep ==
  ASSUME ClaimInv, NEW c \in Controller, NEW j, JobShape(j), Proceed(c, j),
         j.queue \in Seq(Task), j.pc = "pick",
         job[c].pc # "call",
         NEW t \in Task, c \in holds[t], NEW r \in Record \cup {NoTask}, NEW H \in SUBSET {c},
         H # {} => r # NoTask,
         task' = [task EXCEPT ![t] = r], holds' = [holds EXCEPT ![t] = H], come' = come
  PROVE  ClaimInv'
<1>1. JobShapes' /\ job'[c] = j /\ \A d \in Controller \ {c} : job'[d] = job[d]
  BY ProceedShape DEF ClaimInv
<1>2. TaskShapes'
  BY DEF ClaimInv, TaskShapes
<1>3. Comings'
  <2>1. task[t] # NoTask /\ t \in come
    BY DEF ClaimInv, Comings
  <2> QED
    BY <1>1, <2>1 DEF ClaimInv, Comings, TaskShapes
<1>4. ASSUME NEW d \in Controller PROVE ClaimHeld(d)'
  <2>1. CASE d = c
    BY <1>1, <2>1 DEF ClaimHeld, At
  <2>2. CASE d # c
    <3>1. At(d, "call") => job[d].now # t
      BY <2>2 DEF ClaimInv, ClaimHeld
    <3> QED
      BY <1>1, <2>2, <3>1 DEF ClaimInv, ClaimHeld, At, TaskShapes
  <2> QED
    BY <2>1, <2>2
<1> QED
  BY <1>1, <1>2, <1>3, <1>4 DEF ClaimInv
LEMMA QuietPass ==
  ASSUME ClaimInv, NEW c \in Controller,
         \/ StartPass(c) \/ ScanFails(c) \/ Pick(c) \/ PassCut(c) \/ PassDone(c)
         \/ Answered(c) \/ Unanswered(c)
  PROVE  ClaimInv'
<1> DEFINE j == job[c]
<1>1. JobShape(j) /\ j.queue \in Seq(Task)
  BY DEF ClaimInv, JobShapes, Comings
<1>2. j.pc \in {"claim", "call", "save", "drop"} => j.now \in Task
  BY DEF ClaimInv, Comings
<1>3. <<>> \in Seq(Task)
  OBVIOUS
<1>4. CASE ScanFails(c) \/ PassCut(c) \/ PassDone(c)
  <2>1. JobShape(Rest(j)) /\ Rest(j).pc = "wait" /\ Rest(j).queue \in Seq(Task)
    BY <1>1, <1>3, EndsShape
  <2> QED
    BY <1>4, <2>1, QuietStep DEF ScanFails, PassCut, PassDone
<1>5. CASE StartPass(c)
  <2> DEFINE k == [j EXCEPT !.pc = "scan", !.fired = FALSE, !.left = PassLimit, !.slow = 0, !.tries = 0]
  <2>1. JobShape(k) /\ k.pc = "scan" /\ k.queue \in Seq(Task)
    BY <1>1, ConstantTypes DEF JobShape
  <2> QED
    BY <1>5, <2>1, QuietStep DEF StartPass
<1>6. CASE Pick(c)
  <2> DEFINE k == [j EXCEPT !.pc = "claim", !.now = Head(j.queue), !.queue = Tail(j.queue),
                            !.tries = @ + 1, !.slow = 0]
  <2>1. Head(j.queue) \in Task /\ Tail(j.queue) \in Seq(Task)
    BY <1>1, <1>6 DEF Pick, More
  <2>2. JobShape(k) /\ k.pc = "claim" /\ k.now = Head(j.queue) /\ k.queue = Tail(j.queue)
    BY <1>1, ConstantTypes DEF JobShape
  <2> QED
    BY <1>6, <2>1, <2>2, QuietStep DEF Pick
<1>7. CASE Answered(c) \/ Unanswered(c)
  <2> DEFINE k(label) == [j EXCEPT !.pc = label, !.timer = 0, !.slow = 0]
  <2>1. ASSUME NEW label \in {"save", "drop"}
        PROVE  JobShape(k(label)) /\ k(label).pc = label /\ k(label).queue = j.queue
               /\ k(label).now = j.now
    BY <1>1, ConstantTypes DEF JobShape
  <2>2. PICK label \in {"save", "drop"} : Proceed(c, k(label))
    BY <1>7 DEF Answered, Unanswered
  <2>3. j.now \in Task
    BY <1>2, <1>7 DEF Answered, Unanswered, At
  <2> QED
    BY <1>1, <1>7, <2>1, <2>2, <2>3, QuietStep DEF Answered, Unanswered
<1> QED
  BY <1>4, <1>5, <1>6, <1>7

(* A scan remembers the revisions of the tasks that are due; those of the  *)
(* claims that are being waited on are not among them.                     *)
LEMMA ScanStep ==
  ASSUME ClaimInv, NEW c \in Controller, Scan(c)
  PROVE  ClaimInv'
<1> DEFINE due == {t \in Present : IsDue(t)}
<1>1. PICK q \in Orders(due) :
        Proceed(c, [job[c] EXCEPT !.pc = "pick", !.queue = q, !.found = Present,
                                  !.pending = Cardinality(Present), !.slow = 0])
  BY DEF Scan
<1> DEFINE j == [job[c] EXCEPT !.pc = "pick", !.queue = q, !.found = Present,
                               !.pending = Cardinality(Present), !.slow = 0]
<1>2. JobShape(job[c])
  BY DEF ClaimInv, JobShapes
<1>3. JobShape(j) /\ j.pc = "pick" /\ j.queue = q
  BY <1>2, ConstantTypes DEF JobShape
<1>4. q \in Seq(Task)
  <2>1. due \in SUBSET Task
    BY DEF Present
  <2> QED
    BY <2>1, OrdersAreSequences
<1>5. JobShapes' /\ job'[c] = j /\ \A d \in Controller \ {c} : job'[d] = job[d]
  BY <1>1, <1>3, ProceedShape DEF ClaimInv
<1>6. /\ task' = task /\ come' = come
      /\ holds' = [t \in Task |-> IF t \in due THEN holds[t] \cup {c} ELSE holds[t] \ {c}]
  BY DEF Scan
<1>7. TaskShapes'
  BY <1>6 DEF ClaimInv, TaskShapes
<1>8. Comings'
  <2>1. \A t \in due : task[t] # NoTask
    BY DEF Present
  <2> QED
    BY <1>3, <1>4, <1>5, <1>6, <2>1 DEF ClaimInv, Comings
<1>9. ASSUME NEW d \in Controller PROVE ClaimHeld(d)'
  <2>1. CASE d = c
    BY <1>3, <1>5, <2>1 DEF ClaimHeld, At
  <2>2. CASE d # c
    <3> SUFFICES ASSUME job[d].pc = "call" PROVE ClaimHeld(d)'
      BY <1>5, <2>2 DEF ClaimHeld, At
    <3> DEFINE t == job[d].now
    <3>1. /\ t \in Task /\ task[t] # NoTask /\ holds[t] = {d} /\ task[t].due > job[d].timer
      BY DEF ClaimInv, ClaimHeld, At
    <3>2. task[t] \in Record /\ job[d].timer \in Nat
      BY <3>1 DEF ClaimInv, TaskShapes, JobShapes, JobShape
    <3>3. t \notin due
      BY <3>1, <3>2 DEF IsDue, Record
    <3>4. holds'[t] = {d}
      BY <1>6, <2>2, <3>1, <3>3
    <3> QED
      BY <1>5, <1>6, <2>2, <3>1, <3>4 DEF ClaimHeld, At
  <2> QED
    BY <2>1, <2>2
<1> QED
  BY <1>5, <1>7, <1>8, <1>9 DEF ClaimInv
(* The claim is the only step that begins a request: it is written with    *)
(* more than the time limit of the request left on it.                     *)
LEMMA ClaimStep ==
  ASSUME ClaimInv, NEW c \in Controller, Claim(c)
  PROVE  ClaimInv'
<1> DEFINE j == job[c]
           t == j.now
<1>1. JobShape(j) /\ j.queue \in Seq(Task) /\ t \in Task /\ j.pc = "claim"
  BY DEF ClaimInv, JobShapes, Comings, Claim, At
<1>2. JobShape(NextTask(j)) /\ NextTask(j).pc = "pick" /\ NextTask(j).queue = j.queue
  BY <1>1, EndsShape
<1>3. c \in holds[t] => /\ task[t] # NoTask /\ t \in come
                        /\ Claimed(t, j.slow) \in Record
                        /\ Claimed(t, j.slow).due = Lease - j.slow
  BY <1>1, WritesShape DEF ClaimInv, Comings, JobShape
<1>4. come' = come
  BY DEF Claim
<1>5. CASE /\ c \in holds[t]
           /\ Write(c, t, Claimed(t, j.slow))
           /\ Proceed(c, [j EXCEPT !.pc = "call", !.timer = Timeout, !.slow = 0])
  <2> DEFINE k == [j EXCEPT !.pc = "call", !.timer = Timeout, !.slow = 0]
             r == Claimed(t, j.slow)
  <2>1. JobShape(k) /\ k.pc = "call" /\ k.timer = Timeout /\ k.now = t /\ k.queue = j.queue
    BY <1>1, ConstantTypes DEF JobShape
  <2>2. JobShapes' /\ job'[c] = k /\ \A d \in Controller \ {c} : job'[d] = job[d]
    BY <1>5, <2>1, ProceedShape DEF ClaimInv
  <2>3. /\ task' = [task EXCEPT ![t] = r] /\ holds' = [holds EXCEPT ![t] = {c}]
        /\ r \in Record /\ r # NoTask
    BY <1>3, <1>5, TaskAssumption DEF Write
  <2>4. TaskShapes'
    BY <1>1, <2>3 DEF ClaimInv, TaskShapes
  <2>5. Comings'
    BY <1>1, <1>3, <1>4, <1>5, <2>1, <2>2, <2>3 DEF ClaimInv, Comings, TaskShapes
  <2>6. ClaimHeld(c)'
    <3>1. task'[t] = r /\ holds'[t] = {c}
      BY <1>1, <2>3 DEF ClaimInv, TaskShapes
    <3>2. r.due > Timeout
      BY <1>1, <1>3, <1>5, ConstantTypes DEF JobShape
    <3> QED
      BY <1>1, <2>1, <2>2, <2>3, <3>1, <3>2 DEF ClaimHeld, At
  <2>7. ASSUME NEW d \in Controller \ {c} PROVE ClaimHeld(d)'
    <3>1. At(d, "call") => job[d].now # t
      BY <1>5 DEF ClaimInv, ClaimHeld
    <3> QED
      BY <2>2, <2>3, <2>7, <3>1 DEF ClaimInv, ClaimHeld, At, TaskShapes
  <2> QED
    BY <2>2, <2>4, <2>5, <2>6, <2>7 DEF ClaimInv
<1>6. CASE Proceed(c, NextTask(j)) /\ UNCHANGED <<task, holds>>
  BY <1>1, <1>2, <1>4, <1>6, QuietStep
<1>7. CASE /\ Proceed(c, NextTask(j)) /\ c \in holds[t]
           /\ task' = [task EXCEPT ![t] = Claimed(t, j.slow)]
           /\ holds' = [holds EXCEPT ![t] = {}]
  <2> DEFINE r == Claimed(t, j.slow)
             k == NextTask(j)
  <2>1. r \in Record \cup {NoTask} /\ {} \in SUBSET {c} /\ job[c].pc # "call" /\ k.queue \in Seq(Task)
    BY <1>1, <1>2, <1>3, <1>7
  <2>2. JobShape(k) /\ Proceed(c, k) /\ k.pc = "pick" /\ c \in holds[t]
    BY <1>2, <1>7
  <2>3. task' = [task EXCEPT ![t] = r] /\ holds' = [holds EXCEPT ![t] = {}]
    BY <1>7
  <2> HIDE DEF r, k
  <2> QED
    BY <1>1, <1>4, <2>1, <2>2, <2>3, WriteStep
<1> QED
  BY <1>5, <1>6, <1>7 DEF Claim

LEMMA SaveStep ==
  ASSUME ClaimInv, NEW c \in Controller, Save(c)
  PROVE  ClaimInv'
<1> DEFINE j == job[c]
           t == j.now
           r == [task[t] EXCEPT !.due = RetryDelay(task[t].attempts) - j.slow]
<1>1. JobShape(j) /\ j.queue \in Seq(Task) /\ t \in Task /\ j.pc = "save"
  BY DEF ClaimInv, JobShapes, Comings, Save, At
<1>2. JobShape(NextTask(j)) /\ NextTask(j).pc = "pick" /\ NextTask(j).queue = j.queue
  BY <1>1, EndsShape
<1>3. Proceed(c, NextTask(j)) /\ come' = come
  BY DEF Save
<1>4. CASE c \in holds[t] /\ Write(c, t, r)
  <2>1. r \in Record /\ r # NoTask
    <3>1. task[t] # NoTask
      BY <1>1, <1>4 DEF ClaimInv, Comings
    <3> QED
      BY <1>1, <3>1, WritesShape DEF ClaimInv, JobShape
  <2> DEFINE k == NextTask(j)
  <2>2. {c} \in SUBSET {c} /\ job[c].pc # "call" /\ k.queue \in Seq(Task)
    BY <1>1, <1>2
  <2>3. JobShape(k) /\ Proceed(c, k) /\ k.pc = "pick" /\ c \in holds[t]
    BY <1>2, <1>3, <1>4
  <2>4. task' = [task EXCEPT ![t] = r] /\ holds' = [holds EXCEPT ![t] = {c}]
    BY <1>4 DEF Write
  <2> HIDE DEF r, k
  <2> QED
    BY <1>1, <1>3, <2>1, <2>2, <2>3, <2>4, WriteStep
<1>5. CASE UNCHANGED <<task, holds>>
  BY <1>1, <1>2, <1>3, <1>5, QuietStep
<1> QED
  BY <1>4, <1>5 DEF Save

LEMMA DropStep ==
  ASSUME ClaimInv, NEW c \in Controller, Drop(c)
  PROVE  ClaimInv'
<1> DEFINE j == job[c]
           t == j.now
           k == [NextTask(j) EXCEPT !.pending = @ - 1]
<1>1. JobShape(j) /\ j.queue \in Seq(Task) /\ t \in Task /\ j.pc = "drop"
  BY DEF ClaimInv, JobShapes, Comings, Drop, At
<1>2. JobShape(NextTask(j)) /\ NextTask(j).pc = "pick" /\ NextTask(j).queue = j.queue
  BY <1>1, EndsShape
<1>3. JobShape(k) /\ k.pc = "pick" /\ k.queue = j.queue
  BY <1>2 DEF JobShape
<1>4. come' = come
  BY DEF Drop
<1>5. CASE /\ c \in holds[t] /\ Proceed(c, k)
           /\ task' = [task EXCEPT ![t] = NoTask] /\ holds' = [holds EXCEPT ![t] = {}]
  <2>1. {} \in SUBSET {c} /\ job[c].pc # "call" /\ k.queue \in Seq(Task)
    BY <1>1, <1>3
  <2> HIDE DEF k
  <2> QED
    BY <1>1, <1>3, <1>4, <1>5, <2>1, WriteStep
<1>6. CASE Proceed(c, NextTask(j)) /\ UNCHANGED <<task, holds>>
  BY <1>1, <1>2, <1>4, <1>6, QuietStep
<1>7. CASE Proceed(c, k) /\ UNCHANGED <<task, holds>>
  <2> HIDE DEF k
  <2> QED
    BY <1>1, <1>3, <1>4, <1>7, QuietStep
<1> QED
  BY <1>5, <1>6, <1>7 DEF Drop

LEMMA CrashStep ==
  ASSUME ClaimInv, NEW c \in Controller, Crash(c)
  PROVE  ClaimInv'
<1>1. JobShape(Started) /\ Started.pc = "wait" /\ Started.queue = <<>>
  BY ConstantTypes DEF Started, JobShape
<1>2. <<>> \in Seq(Task)
  OBVIOUS
<1>3. JobShapes' /\ job'[c] = Started /\ \A d \in Controller \ {c} : job'[d] = job[d]
  BY <1>1, ProceedShape DEF ClaimInv, Crash
<1>4. task' = task /\ come' = come /\ holds' = [t \in Task |-> holds[t] \ {c}]
  BY DEF Crash
<1>5. TaskShapes'
  BY <1>4 DEF ClaimInv, TaskShapes
<1>6. Comings'
  BY <1>1, <1>2, <1>3, <1>4 DEF ClaimInv, Comings
<1>7. \A d \in Controller : ClaimHeld(d)'
  BY <1>1, <1>3, <1>4 DEF ClaimInv, ClaimHeld, At
<1> QED
  BY <1>3, <1>5, <1>6, <1>7 DEF ClaimInv

LEMMA AriseStep ==
  ASSUME ClaimInv, NEW t \in Task, Arise(t)
  PROVE  ClaimInv'
<1> DEFINE r == [due |-> 0, attempts |-> 0]
<1>1. r \in Record /\ r # NoTask
  BY TaskAssumption, TimeAssumption DEF Record
<1>2. /\ task' = [task EXCEPT ![t] = r] /\ come' = come \cup {t} /\ holds' = holds /\ job' = job
      /\ task[t] = NoTask
  BY DEF Arise, ClaimInv, Comings
<1>3. JobShapes' /\ TaskShapes'
  BY <1>1, <1>2 DEF ClaimInv, JobShapes, TaskShapes
<1>4. Comings'
  BY <1>1, <1>2 DEF ClaimInv, Comings, TaskShapes
<1>5. \A d \in Controller : ClaimHeld(d)'
  BY <1>2 DEF ClaimInv, ClaimHeld, At, TaskShapes
<1> QED
  BY <1>3, <1>4, <1>5 DEF ClaimInv

(* Time runs alike for a claim and for the request made under it.          *)
LEMMA TickStep ==
  ASSUME ClaimInv, Tick
  PROVE  ClaimInv'
<1>1. ASSUME NEW c \in Controller
      PROVE  /\ JobShape(Later(job[c])) /\ job'[c] = Later(job[c])
             /\ Later(job[c]).pc = job[c].pc /\ Later(job[c]).queue = job[c].queue
             /\ Later(job[c]).now = job[c].now /\ Later(job[c]).timer = Minus(job[c].timer)
  <2>1. JobShape(job[c]) /\ MayWait(job[c]) /\ job'[c] = Later(job[c])
    BY DEF ClaimInv, JobShapes, Tick
  <2>2. DOMAIN Later(job[c]) = DOMAIN job[c] /\ Later(job[c]).timer = Minus(job[c].timer)
    BY <2>1 DEF JobShape, Later
  <2>3. /\ Later(job[c]).pc = job[c].pc /\ Later(job[c]).queue = job[c].queue
        /\ Later(job[c]).now = job[c].now
    BY <2>1 DEF JobShape, Later
  <2>4. Later(job[c]).slow \in 0 .. StoreDelay
    <3>1. Later(job[c]).slow = IF job[c].pc \in {"scan", "claim", "save", "drop"} THEN job[c].slow + 1 ELSE 0
      BY <2>1 DEF JobShape, Later
    <3> QED
      BY <2>1, <3>1, ConstantTypes DEF JobShape, MayWait
  <2>5. Minus(job[c].timer) \in Nat
    BY <2>1 DEF JobShape, Minus
  <2> QED
    BY <2>1, <2>2, <2>3, <2>4, <2>5 DEF JobShape
<1>2. JobShapes'
  BY <1>1 DEF Tick, JobShapes
<1>3. /\ come' = come /\ holds' = holds
      /\ task' = [t \in Task |-> IF task[t] # NoTask /\ task[t].due > -Horizon
                                 THEN [task[t] EXCEPT !.due = @ - 1] ELSE task[t]]
  BY DEF Tick
<1>4. ASSUME NEW t \in Task
      PROVE  /\ task'[t] \in Record \cup {NoTask}
             /\ task'[t] # NoTask <=> task[t] # NoTask
             /\ task[t] # NoTask => task'[t].due >= task[t].due - 1
  <2>1. task[t] \in Record \cup {NoTask}
    BY DEF ClaimInv, TaskShapes
  <2> QED
    BY <1>3, <2>1, TaskAssumption DEF Record
<1>5. TaskShapes'
  BY <1>3, <1>4 DEF ClaimInv, TaskShapes
<1>6. Comings'
  BY <1>1, <1>3, <1>4 DEF ClaimInv, Comings
<1>7. ASSUME NEW c \in Controller PROVE ClaimHeld(c)'
  <2> SUFFICES ASSUME job[c].pc = "call" PROVE ClaimHeld(c)'
    BY <1>1 DEF ClaimHeld, At
  <2> DEFINE t == job[c].now
  <2>1. t \in Task /\ task[t] # NoTask /\ holds[t] = {c} /\ task[t].due > job[c].timer
    BY DEF ClaimInv, ClaimHeld, At
  <2>2. MayWait(job[c]) /\ job[c].timer > 0 /\ Minus(job[c].timer) = job[c].timer - 1
    BY DEF ClaimInv, JobShapes, JobShape, Tick, MayWait, Minus
  <2>3. task[t].due \in Int /\ task'[t].due \in Int /\ job[c].timer \in Nat
    BY <1>4, <2>1, TaskAssumption DEF ClaimInv, TaskShapes, JobShapes, JobShape, Record
  <2>4. task'[t].due > job[c].timer - 1
    BY <1>4, <2>1, <2>3
  <2> QED
    BY <1>1, <1>3, <1>4, <2>1, <2>2, <2>4 DEF ClaimHeld, At
<1> QED
  BY <1>2, <1>5, <1>6, <1>7 DEF ClaimInv

LEMMA NextClaim == ClaimInv /\ [Next]_vars => ClaimInv'
<1> SUFFICES ASSUME ClaimInv, [Next]_vars PROVE ClaimInv'
  OBVIOUS
<1>1. CASE UNCHANGED vars
  BY <1>1 DEF ClaimInv, JobShapes, TaskShapes, Comings, ClaimHeld, At, vars
<1>2. ASSUME NEW c \in Controller, Pass(c) PROVE ClaimInv'
  BY <1>2, QuietPass, ScanStep, ClaimStep, SaveStep, DropStep DEF Pass
<1> QED
  BY <1>1, <1>2, CrashStep, AriseStep, TickStep DEF Next

(* While one controller waits for the application no other asks it for the *)
(* same cleanup, for every number of controllers and every time limit, if  *)
(* a call to the store takes less than fifteen seconds.                    *)
THEOREM ClaimsAreExclusive == Spec => []ClaimExclusive
<1>1. ClaimInv => ClaimExclusive
  BY DEF ClaimInv, ClaimHeld, ClaimExclusive
<1> QED
  BY <1>1, InitClaim, NextClaim, PTL DEF Spec

-----------------------------------------------------------------------------
(* What is left of the tasks of a scan is counted in the report, and so    *)
(* are those not attempted yet, each of them once: a task that turns out   *)
(* to be gone may be taken off the count.                                  *)
Waiting(j) == {j.queue[i] : i \in 1 .. Len(j.queue)}
Trying(j) == IF j.pc \in {"claim", "call", "save", "drop"} THEN {j.now} ELSE {}
Open(j) == Waiting(j) \cup Trying(j)
Once(j) == /\ \A i, k \in 1 .. Len(j.queue) : i < k => j.queue[i] # j.queue[k]
           /\ \A i \in 1 .. Len(j.queue) : j.queue[i] \notin Trying(j)

Counted(c) ==
  LET j == job[c] IN
  /\ j.found \subseteq come /\ Open(j) \subseteq j.found
  /\ Once(j)
  /\ j.pending \in Int /\ j.pending >= Cardinality((j.found \cap Present) \cup Open(j))

BacklogInv == ClaimInv /\ come \subseteq Task /\ DOMAIN gauge = Controller /\ \A c \in Controller : Counted(c)

(* A count holds while what it counts only goes, one more going for every  *)
(* one that is taken off the count.                                        *)
LEMMA StillCounted ==
  ASSUME NEW X, X \subseteq Task, NEW Y, Y \subseteq X, NEW n \in Int, n >= Cardinality(X)
  PROVE  /\ n >= Cardinality(Y)
         /\ \A t \in X \ Y : n - 1 >= Cardinality(Y)
<1>1. IsFiniteSet(X) /\ IsFiniteSet(Y)
  BY TaskAssumption, FS_Subset
<1>2. /\ Cardinality(X) \in Nat /\ Cardinality(Y) \in Nat
      /\ Cardinality(Y) <= Cardinality(X)
  BY <1>1, FS_CardinalityType, FS_Subset
<1>3. ASSUME NEW t \in X \ Y PROVE n - 1 >= Cardinality(Y)
  <2>1. IsFiniteSet(X \ {t}) /\ Cardinality(X \ {t}) = Cardinality(X) - 1
    BY <1>1, FS_RemoveElement
  <2>2. Y \subseteq X \ {t}
    OBVIOUS
  <2>3. Cardinality(Y) <= Cardinality(X \ {t})
    BY <2>1, <2>2, FS_Subset
  <2> QED
    BY <1>2, <2>1, <2>3
<1> QED
  BY <1>2, <1>3

(* Nothing that a controller has found comes up again.                     *)
LEMMA FoundOnlyGo ==
  ASSUME BacklogInv, [Next]_vars, NEW c \in Controller
  PROVE  /\ job[c].found \cap Present' \subseteq job[c].found \cap Present
         /\ come \subseteq come' /\ come' \subseteq Task
<1>1. job[c].found \subseteq come /\ \A t \in Task : holds[t] # {} => task[t] # NoTask
  BY DEF BacklogInv, Counted, ClaimInv, Comings
<1>2. DOMAIN task = Task
  BY DEF BacklogInv, ClaimInv, TaskShapes
<1>3. CASE UNCHANGED vars
  BY <1>3 DEF vars, Present, BacklogInv
<1>4. CASE \E t \in Task : Arise(t)
  BY <1>1, <1>2, <1>4 DEF Arise, Present, BacklogInv
<1>5. CASE Tick
  BY <1>5, TaskAssumption DEF Tick, Present, BacklogInv
<1>6. CASE \E d \in Controller : Crash(d)
  BY <1>6 DEF Crash, Present, BacklogInv
<1>7. ASSUME NEW d \in Controller, Pass(d)
      PROVE  /\ come' = come
             /\ \A t \in Task : task[t] = NoTask => task'[t] = NoTask
  <2>1. CASE StartPass(d) \/ Scan(d) \/ ScanFails(d) \/ Pick(d) \/ PassCut(d) \/ PassDone(d)
             \/ Answered(d) \/ Unanswered(d)
    BY <2>1 DEF StartPass, Scan, ScanFails, Pick, PassCut, PassDone, Answered, Unanswered
  <2>2. CASE Claim(d) \/ Save(d) \/ Drop(d)
    BY <1>1, <1>2, <2>2 DEF Claim, Save, Drop, Write
  <2> QED
    BY <1>7, <2>1, <2>2 DEF Pass
<1>8. CASE \E d \in Controller : Pass(d)
  BY <1>7, <1>8 DEF Present, BacklogInv
<1> QED
  BY <1>3, <1>4, <1>5, <1>6, <1>8 DEF Next

(* A job that keeps to the tasks it has found stays counted.               *)
LEMMA CountedJob ==
  ASSUME BacklogInv, [Next]_vars, NEW c \in Controller,
         job'[c].found = job[c].found, Open(job'[c]) \subseteq Open(job[c]), Once(job'[c]),
         \/ job'[c].pending = job[c].pending
         \/ /\ job'[c].pending = job[c].pending - 1
            /\ \E t \in Open(job[c]) : t \notin Present' /\ t \notin Open(job'[c])
  PROVE  Counted(c)'
<1> DEFINE F == job[c].found
           X == (F \cap Present) \cup Open(job[c])
           Y == (F \cap Present') \cup Open(job'[c])
           n == job[c].pending
<1>1. /\ F \cap Present' \subseteq F \cap Present /\ come \subseteq come' /\ come' \subseteq Task
      /\ F \subseteq come /\ Open(job[c]) \subseteq F
  BY FoundOnlyGo DEF BacklogInv, Counted
<1>2. F \subseteq Task /\ X \subseteq Task /\ Y \subseteq X /\ n \in Int /\ n >= Cardinality(X)
  BY <1>1 DEF BacklogInv, Counted
<1>3. /\ n >= Cardinality(Y)
      /\ \A t \in X \ Y : n - 1 >= Cardinality(Y)
  <2> HIDE DEF X, Y, n
  <2> QED
    BY <1>2, StillCounted
<1>4. job'[c].pending \in Int /\ job'[c].pending >= Cardinality(Y)
  <2>1. CASE job'[c].pending = n
    BY <1>2, <1>3, <2>1
  <2>2. CASE /\ job'[c].pending = n - 1
             /\ \E t \in Open(job[c]) : t \notin Present' /\ t \notin Open(job'[c])
    <3>1. n - 1 >= Cardinality(Y)
      BY <1>3, <2>2
    <3> QED
      BY <1>2, <2>2, <3>1
  <2> QED
    BY <2>1, <2>2
<1> QED
  BY <1>1, <1>4 DEF Counted

(* What the ends of an attempt and of a pass leave of a job.               *)
LEMMA EndsCounted ==
  ASSUME NEW j, JobShape(j)
  PROVE  /\ NextTask(j).found = j.found /\ NextTask(j).pending = j.pending
         /\ Rest(j).found = {} /\ Rest(j).pending = j.pending
BY DEF JobShape, NextTask, Rest

(* Nothing is open in a job that waits with an empty queue.                *)
LEMMA NothingOpen ==
  ASSUME NEW j, j.queue = <<>>, j.pc \notin {"claim", "call", "save", "drop"}
  PROVE  Open(j) = {} /\ Once(j)
<1>1. Len(j.queue) = 0
  OBVIOUS
<1>2. Waiting(j) = {} /\ Trying(j) = {}
  BY <1>1 DEF Waiting, Trying
<1> QED
  BY <1>1, <1>2 DEF Open, Once

(* What is open in a job that has its queue from another one.              *)
LEMMA SameQueueOpen ==
  ASSUME NEW j, Once(j), NEW k, k.queue = j.queue,
         \/ k.pc \notin {"claim", "call", "save", "drop"}
         \/ /\ k.now = j.now /\ j.pc \in {"claim", "call", "save", "drop"}
            /\ k.pc \in {"claim", "call", "save", "drop"}
  PROVE  Open(k) \subseteq Open(j) /\ Once(k)
BY DEF Open, Once, Waiting, Trying

LEMMA PassCounted ==
  ASSUME BacklogInv, NEW c \in Controller, Pass(c)
  PROVE  Counted(c)'
<1> DEFINE j == job[c]
<1>0. [Next]_vars
  BY DEF Next
<1>1. JobShape(j) /\ j.queue \in Seq(Task) /\ JobShapes /\ DOMAIN task = Task
      /\ (j.pc \in {"claim", "call", "save", "drop"} => j.now \in Task)
  BY DEF BacklogInv, ClaimInv, JobShapes, Comings, TaskShapes
<1>2. /\ j.found \subseteq come /\ j.found \subseteq Task
      /\ Open(j) \subseteq j.found /\ Once(j)
      /\ j.pending \in Int /\ j.pending >= Cardinality((j.found \cap Present) \cup Open(j))
  BY DEF BacklogInv, Counted
<1>3. ASSUME NEW k, Proceed(c, k) PROVE job'[c] = k
  BY <1>1, <1>3 DEF Proceed, JobShapes
<1>4. NextTask(j).found = j.found /\ NextTask(j).pending = j.pending
      /\ NextTask(j).queue = j.queue /\ NextTask(j).pc = "pick"
  BY <1>1, EndsCounted, EndsShape
<1>5. ASSUME NEW k, Proceed(c, k), k.found = j.found, k.queue = j.queue, k.pending = j.pending,
             \/ k.pc \notin {"claim", "call", "save", "drop"}
             \/ /\ k.now = j.now /\ j.pc \in {"claim", "call", "save", "drop"}
                /\ k.pc \in {"claim", "call", "save", "drop"}
      PROVE  Counted(c)'
  <2>1. job'[c] = k
    BY <1>3, <1>5
  <2>2. Open(k) \subseteq Open(j) /\ Once(k)
    BY <1>2, <1>5, SameQueueOpen
  <2> QED
    BY <1>0, <1>5, <2>1, <2>2, CountedJob
<1>6. CASE StartPass(c)
  <2> DEFINE k == [j EXCEPT !.pc = "scan", !.fired = FALSE, !.left = PassLimit, !.slow = 0, !.tries = 0]
  <2>1. k.pc = "scan" /\ k.found = j.found /\ k.queue = j.queue /\ k.pending = j.pending
    BY <1>1 DEF JobShape
  <2> QED
    BY <1>5, <1>6, <2>1 DEF StartPass
<1>7. CASE Scan(c)
  <2> DEFINE due == {t \in Present : IsDue(t)}
  <2>1. PICK q \in Orders(due) :
          Proceed(c, [j EXCEPT !.pc = "pick", !.queue = q, !.found = Present,
                               !.pending = Cardinality(Present), !.slow = 0])
    BY <1>7 DEF Scan
  <2> DEFINE k == [j EXCEPT !.pc = "pick", !.queue = q, !.found = Present,
                            !.pending = Cardinality(Present), !.slow = 0]
  <2>2. /\ k.pc = "pick" /\ k.found = Present /\ k.queue = q /\ k.pending = Cardinality(Present)
        /\ job'[c] = k
    BY <1>1, <1>3, <2>1 DEF JobShape
  <2>3. Present' = Present /\ come' = come /\ Present \subseteq come /\ Present \subseteq Task
    BY <1>7 DEF Scan, Present, BacklogInv, ClaimInv, Comings
  <2>4. Cardinality(Present) \in Nat /\ Cardinality(due) \in Nat
    BY <2>3, TaskAssumption, FS_Subset, FS_CardinalityType
  <2>5. /\ \A i \in 1 .. Len(q) : q[i] \in Present
        /\ \A i, m \in 1 .. Len(q) : i < m => q[i] # q[m]
    <3>1. due \subseteq Present
      OBVIOUS
    <3> HIDE DEF due
    <3>2. /\ q \in [1 .. Cardinality(due) -> due]
          /\ \A i, m \in 1 .. Cardinality(due) : i < m => q[i] # q[m]
      BY DEF Orders
    <3>3. Len(q) = Cardinality(due)
      BY <2>4, <3>2
    <3> QED
      BY <3>1, <3>2, <3>3
  <2>6. Open(k) \subseteq Present /\ Once(k)
    BY <2>2, <2>5 DEF Open, Once, Waiting, Trying
  <2>7. (Present \cap Present) \cup Open(k) = Present
    BY <2>6
  <2> QED
    BY <2>2, <2>3, <2>4, <2>6, <2>7 DEF Counted
<1>8. CASE ScanFails(c) \/ PassCut(c) \/ PassDone(c)
  <2>1. job'[c] = Rest(j)
    BY <1>3, <1>8 DEF ScanFails, PassCut, PassDone
  <2>2. /\ Rest(j).pc = "wait" /\ Rest(j).queue = <<>> /\ Rest(j).found = {}
        /\ Rest(j).pending = j.pending
    BY <1>1, EndsCounted, EndsShape
  <2>3. Open(Rest(j)) = {} /\ Once(Rest(j))
    BY <2>2, NothingOpen
  <2>4. Cardinality({}) = 0 /\ ({} \cap Present') \cup {} = {}
    BY FS_EmptySet
  <2>5. Cardinality((j.found \cap Present) \cup Open(j)) \in Nat
    BY <1>2, TaskAssumption, FS_Subset, FS_CardinalityType
  <2> QED
    BY <1>2, <2>1, <2>2, <2>3, <2>4, <2>5 DEF Counted
<1>9. CASE Pick(c)
  <2> DEFINE k == [j EXCEPT !.pc = "claim", !.now = Head(j.queue), !.queue = Tail(j.queue),
                            !.tries = @ + 1, !.slow = 0]
  <2>1. /\ k.pc = "claim" /\ k.found = j.found /\ k.now = Head(j.queue) /\ k.queue = Tail(j.queue)
        /\ k.pending = j.pending /\ job'[c] = k
    BY <1>1, <1>3, <1>9 DEF JobShape, Pick
  <2>2. /\ Len(j.queue) \in Nat \ {0} /\ Head(j.queue) = j.queue[1]
        /\ Len(Tail(j.queue)) = Len(j.queue) - 1
        /\ \A i \in 1 .. Len(Tail(j.queue)) : Tail(j.queue)[i] = j.queue[i + 1]
    BY <1>1, <1>9 DEF Pick, More
  <2>3. Open(k) \subseteq Open(j)
    BY <2>1, <2>2 DEF Open, Waiting, Trying
  <2>4. Once(k)
    <3> DEFINE q == j.queue
               r == Tail(q)
    <3>1. \A i, m \in 1 .. Len(q) : i < m => q[i] # q[m]
      BY <1>2 DEF Once
    <3>2. /\ Len(q) \in Nat \ {0} /\ Head(q) = q[1] /\ Len(r) = Len(q) - 1
          /\ \A i \in 1 .. Len(r) : r[i] = q[i + 1]
      BY <2>2
    <3> HIDE DEF q, r
    <3>3. /\ \A i, m \in 1 .. Len(r) : i < m => r[i] # r[m]
          /\ \A i \in 1 .. Len(r) : r[i] # Head(q)
      BY <3>1, <3>2
    <3>4. Trying(k) = {Head(q)} /\ k.queue = r
      BY <2>1 DEF Trying, q, r
    <3> HIDE DEF k
    <3> QED
      BY <3>3, <3>4 DEF Once
  <2> QED
    BY <1>0, <2>1, <2>3, <2>4, CountedJob
<1>10. CASE Proceed(c, [j EXCEPT !.pc = "call", !.timer = Timeout, !.slow = 0]) /\ j.pc = "claim"
  <2> DEFINE k == [j EXCEPT !.pc = "call", !.timer = Timeout, !.slow = 0]
  <2>1. /\ k.found = j.found /\ k.now = j.now /\ k.queue = j.queue /\ k.pending = j.pending
        /\ k.pc = "call"
    BY <1>1 DEF JobShape
  <2> QED
    BY <1>5, <1>10, <2>1
<1>11. CASE Answered(c) \/ Unanswered(c)
  <2> DEFINE k(label) == [j EXCEPT !.pc = label, !.timer = 0, !.slow = 0]
  <2>1. ASSUME NEW label \in {"save", "drop"}
        PROVE  /\ k(label).found = j.found /\ k(label).now = j.now /\ k(label).queue = j.queue
               /\ k(label).pending = j.pending /\ k(label).pc = label
    BY <1>1 DEF JobShape
  <2>2. PICK label \in {"save", "drop"} : Proceed(c, k(label))
    BY <1>11 DEF Answered, Unanswered
  <2>3. j.pc = "call"
    BY <1>11 DEF Answered, Unanswered, At
  <2> QED
    BY <1>5, <2>1, <2>2, <2>3
<1>12. CASE /\ Drop(c) /\ task'[j.now] = NoTask
            /\ Proceed(c, [NextTask(j) EXCEPT !.pending = @ - 1])
  <2> DEFINE k == [NextTask(j) EXCEPT !.pending = @ - 1]
  <2>1. k.found = j.found /\ k.queue = j.queue /\ k.pending = j.pending - 1 /\ k.pc = "pick"
        /\ job'[c] = k
    BY <1>1, <1>3, <1>4, <1>12, EndsShape DEF JobShape
  <2>2. j.pc = "drop"
    BY <1>12 DEF Drop, At
  <2>3. j.now \in Open(j) /\ j.now \notin Present' /\ j.now \notin Open(k)
    BY <1>2, <1>12, <2>1, <2>2 DEF Open, Once, Waiting, Trying, Present
  <2>4. Open(k) \subseteq Open(j) /\ Once(k)
    BY <1>2, <2>1, SameQueueOpen
  <2> QED
    BY <1>0, <2>1, <2>3, <2>4, CountedJob
<1>13. CASE Claim(c)
  BY <1>4, <1>5, <1>10, <1>13 DEF Claim, At
<1>14. CASE Save(c)
  BY <1>4, <1>5, <1>14 DEF Save
<1>15. CASE Drop(c)
  <2>1. j.now \in Task
    BY <1>1, <1>15 DEF Drop, At
  <2>2. CASE Proceed(c, NextTask(j))
    BY <1>4, <1>5, <2>2
  <2>3. CASE /\ Proceed(c, [NextTask(j) EXCEPT !.pending = @ - 1])
             /\ \/ task' = [task EXCEPT ![j.now] = NoTask]
                \/ task[j.now] = NoTask /\ task' = task
    BY <1>1, <1>12, <1>15, <2>1, <2>3
  <2> QED
    BY <1>15, <2>2, <2>3 DEF Drop
<1> QED
  BY <1>6, <1>7, <1>8, <1>9, <1>11, <1>13, <1>14, <1>15 DEF Pass

LEMMA NextBacklog == BacklogInv /\ [Next]_vars => BacklogInv'
<1> SUFFICES ASSUME BacklogInv, [Next]_vars PROVE BacklogInv'
  OBVIOUS
<1>1. ClaimInv'
  BY NextClaim DEF BacklogInv
<1>2. ASSUME NEW c \in Controller PROVE come' \subseteq Task
  BY FoundOnlyGo
<1>3. come' \subseteq Task
  BY <1>2 DEF Next, Arise, Tick, vars, BacklogInv
<1>4. ASSUME NEW c \in Controller, job'[c] = job[c] PROVE Counted(c)'
  <2>1. Once(job[c])
    BY DEF BacklogInv, Counted
  <2> QED
    BY <1>4, <2>1, CountedJob
<1>5. ASSUME NEW c \in Controller PROVE Counted(c)'
  <2>1. JobShapes /\ JobShape(job[c])
    BY DEF BacklogInv, ClaimInv, JobShapes
  <2>2. CASE UNCHANGED vars \/ \E t \in Task : Arise(t)
    BY <1>4, <2>2 DEF vars, Arise
  <2>3. CASE \E d \in Controller : Pass(d)
    <3>1. PICK d \in Controller : Pass(d)
      BY <2>3
    <3>2. CASE d = c
      BY <3>1, <3>2, PassCounted
    <3>3. CASE d # c
      <4>1. \E j : Proceed(d, j)
        BY <3>1 DEF Pass, StartPass, Scan, ScanFails, Pick, PassCut, PassDone, Claim, Answered,
                    Unanswered, Save, Drop
      <4>2. job'[c] = job[c]
        BY <2>1, <3>3, <4>1 DEF Proceed, JobShapes
      <4> QED
        BY <1>4, <4>2
    <3> QED
      BY <3>2, <3>3
  <2>4. CASE \E d \in Controller : Crash(d)
    <3>1. PICK d \in Controller : Crash(d)
      BY <2>4
    <3>2. CASE d = c
      <4>1. job'[c] = Started
        BY <2>1, <3>1, <3>2 DEF Crash, Proceed, JobShapes
      <4>2. /\ Started.found = {} /\ Started.queue = <<>> /\ Started.pc = "wait"
            /\ Started.pending = 0
        BY DEF Started
      <4>3. Open(Started) = {} /\ Once(Started)
        BY <4>2, NothingOpen
      <4>4. Cardinality(({} \cap Present') \cup {}) = 0
        BY FS_EmptySet
      <4> QED
        BY <4>1, <4>2, <4>3, <4>4 DEF Counted
    <3>3. CASE d # c
      <4>1. job'[c] = job[c]
        BY <2>1, <3>1, <3>3 DEF Crash, Proceed, JobShapes
      <4> QED
        BY <1>4, <4>1
    <3> QED
      BY <3>2, <3>3
  <2>5. CASE Tick
    <3>1. job'[c] = Later(job[c])
      BY <2>5 DEF Tick
    <3>2. /\ Later(job[c]).pc = job[c].pc /\ Later(job[c]).queue = job[c].queue
          /\ Later(job[c]).now = job[c].now /\ Later(job[c]).found = job[c].found
          /\ Later(job[c]).pending = job[c].pending
      BY <2>1 DEF Later, JobShape
    <3>3. Open(Later(job[c])) \subseteq Open(job[c]) /\ Once(Later(job[c]))
      BY <3>2, SameQueueOpen DEF BacklogInv, Counted
    <3> QED
      BY <3>1, <3>2, <3>3, CountedJob
  <2> QED
    BY <2>2, <2>3, <2>4, <2>5 DEF Next
<1>6. DOMAIN gauge' = Controller
  BY DEF BacklogInv, Next, Pass, StartPass, Scan, ScanFails, Pick, PassCut, PassDone, Claim, Answered,
         Unanswered, Save, Drop, Crash, Arise, Tick, vars
<1> QED
  BY <1>1, <1>3, <1>5, <1>6 DEF BacklogInv

LEMMA InitBacklog == Init => BacklogInv
<1> SUFFICES ASSUME Init PROVE BacklogInv
  OBVIOUS
<1>1. ASSUME NEW c \in Controller PROVE Counted(c)
  <2>1. /\ job[c].found = {} /\ job[c].queue = <<>> /\ job[c].pc = "wait" /\ job[c].pending = 0
    BY DEF Init, Started
  <2>2. Open(job[c]) = {} /\ Once(job[c])
    BY <2>1, NothingOpen
  <2>3. Cardinality(({} \cap Present) \cup {}) = 0
    BY FS_EmptySet
  <2> QED
    BY <2>1, <2>2, <2>3 DEF Counted
<1> QED
  BY <1>1, InitClaim DEF BacklogInv, Init

(* The backlog that a pass reports is never less than what is left of the  *)
(* cleanups it has found, whoever completed the others.                    *)
THEOREM BacklogIsNotUnderstated == Spec => BacklogNotUnderstated
<1>1. BacklogInv /\ [Next]_vars =>
        [\A c \in Controller :
           PassDone(c) => gauge'[c] >= Cardinality(job[c].found \cap Present)]_vars
  <2> SUFFICES ASSUME BacklogInv, Next, NEW c \in Controller, PassDone(c)
               PROVE  gauge'[c] >= Cardinality(job[c].found \cap Present)
    OBVIOUS
  <2>1. gauge'[c] = job[c].pending
    BY DEF PassDone, BacklogInv
  <2>2. /\ job[c].found \subseteq Task /\ Open(job[c]) \subseteq job[c].found
        /\ job[c].pending \in Int
        /\ job[c].pending >= Cardinality((job[c].found \cap Present) \cup Open(job[c]))
    BY DEF BacklogInv, Counted
  <2>3. job[c].pending >= Cardinality(job[c].found \cap Present)
    BY <2>2, StillCounted
  <2> QED
    BY <2>1, <2>3
<1> QED
  BY <1>1, InitBacklog, NextBacklog, PTL DEF Spec, BacklogNotUnderstated

-----------------------------------------------------------------------------
(* The ends of an attempt and of a pass, and the first pass of a process.  *)
LEMMA EndsTyped ==
  ASSUME NEW j \in Job
  PROVE  /\ NextTask(j) \in Job /\ Rest(j) \in Job /\ Started \in Job
         /\ j.pending - 1 \in Nat => [NextTask(j) EXCEPT !.pending = @ - 1] \in Job
<1>1. 0 \in 0 .. Batch /\ 0 \in 0 .. PassLimit /\ 0 \in 0 .. Timeout /\ 0 \in 0 .. StoreDelay
      /\ 0 \in 0 .. Interval /\ Interval \in 0 .. Interval
  BY ConfigAssumption, TimeAssumption DEF Loads
<1>2. Cardinality(Task) \in Nat
  BY TaskAssumption, FS_CardinalityType
<1>3. <<>> \in Seq(Task)
  OBVIOUS
<1>4. NextTask(j) \in Job
  BY <1>1 DEF NextTask, Job
<1>5. Rest(j) \in Job
  <2> DEFINE k == [j EXCEPT !.pc = "wait", !.queue = <<>>, !.now = NoTask, !.tries = 0, !.found = {}]
             n == IF j.ticker = 0 THEN Interval ELSE j.ticker
  <2>1. k \in Job /\ n \in 0 .. Interval
    BY <1>1, <1>3 DEF Job
  <2>2. Rest(j) = [k EXCEPT !.left = 0, !.timer = 0, !.slow = 0, !.ticker = n]
    BY Zenon DEF Rest
  <2> HIDE DEF k, n
  <2> QED
    BY <1>1, <2>1, <2>2 DEF Job
<1>6. Started \in Job
  BY <1>1, <1>2, <1>3 DEF Started, Job
<1>7. ASSUME j.pending - 1 \in Nat PROVE [NextTask(j) EXCEPT !.pending = @ - 1] \in Job
  <2>1. NextTask(j).pending = j.pending /\ j.pending - 1 \in 0 .. Cardinality(Task)
    BY <1>2, <1>7 DEF NextTask, Job
  <2> HIDE DEF NextTask
  <2> QED
    BY <1>4, <2>1 DEF Job
<1> QED
  BY <1>4, <1>5, <1>6, <1>7

(* Time leaves every counter of a job in its range: a store call ends      *)
(* before it can take longer than StoreDelay.                              *)
LEMMA LaterTyped ==
  ASSUME NEW j \in Job, MayWait(j)
  PROVE  Later(j) \in Job
<1>1. /\ Interval \in 0 .. Interval /\ 0 \in 0 .. StoreDelay
      /\ StoreDelay \in Nat /\ PassLimit \in Nat /\ Timeout \in Nat /\ Interval \in Nat
  BY ConfigAssumption, TimeAssumption DEF Loads
<1>2. /\ Minus(j.left) \in 0 .. PassLimit /\ Minus(j.timer) \in 0 .. Timeout
      /\ Minus(j.ticker) \in 0 .. Interval
  BY <1>1 DEF Minus, Job
<1>3. j.pc \in {"scan", "claim", "save", "drop"} => j.slow + 1 \in 0 .. StoreDelay
  BY <1>1 DEF MayWait, Job
<1>4. (j.fired \/ j.ticker = 1) \in BOOLEAN
  OBVIOUS
<1> HIDE DEF Minus
<1> QED
  BY <1>1, <1>2, <1>3, <1>4 DEF Later, Job

(* What a pass makes of a job.  An attempt that ends takes at most one off *)
(* the count of what is left, and the count never falls below what it      *)
(* counts.                                                                 *)
LEMMA PassTyped ==
  ASSUME BacklogInv, BacklogInv', TypeOK, NEW c \in Controller, Pass(c)
  PROVE  job' \in [Controller -> Job]
<1> DEFINE j == job[c]
<1>0. j \in Job /\ job \in [Controller -> Job]
  BY DEF TypeOK
<1>1. /\ j \in Job /\ job \in [Controller -> Job]
      /\ NextTask(j) \in Job /\ Rest(j) \in Job
      /\ PassLimit \in 0 .. PassLimit /\ 0 \in 0 .. StoreDelay /\ 0 \in 0 .. Timeout /\ Timeout \in 0 .. Timeout
      /\ 0 \in 0 .. Batch
  <2>1. NextTask(j) \in Job /\ Rest(j) \in Job
    BY <1>0, EndsTyped
  <2> QED
    BY <1>0, <2>1, ConfigAssumption, TimeAssumption DEF Loads
<1> SUFFICES \E k \in Job : Proceed(c, k)
  BY <1>1 DEF Proceed
<1>2. CASE StartPass(c)
  <2>1. [j EXCEPT !.pc = "scan", !.fired = FALSE, !.left = PassLimit, !.slow = 0, !.tries = 0] \in Job
    BY <1>1 DEF Job
  <2> QED
    BY <1>2, <2>1 DEF StartPass
<1>3. CASE Scan(c)
  <2> DEFINE due == {t \in Present : IsDue(t)}
  <2>1. PICK q \in Orders(due) :
          Proceed(c, [job[c] EXCEPT !.pc = "pick", !.queue = q, !.found = Present,
                                    !.pending = Cardinality(Present), !.slow = 0])
    BY <1>3 DEF Scan
  <2>2. q \in Seq(Task) /\ Present \subseteq Task
    BY OrdersAreSequences DEF Present
  <2>3. Cardinality(Present) \in 0 .. Cardinality(Task)
    BY <2>2, TaskAssumption, FS_Subset, FS_CardinalityType
  <2>4. [j EXCEPT !.pc = "pick", !.queue = q, !.found = Present, !.pending = Cardinality(Present), !.slow = 0] \in Job
    BY <1>1, <2>2, <2>3 DEF Job
  <2> QED
    BY <2>1, <2>4
<1>4. CASE ScanFails(c) \/ PassCut(c) \/ PassDone(c)
  BY <1>1, <1>4 DEF ScanFails, PassCut, PassDone
<1>5. CASE Pick(c)
  <2>1. j.queue \in Seq(Task) /\ j.queue # <<>> /\ j.tries + 1 \in 0 .. Batch
    <3>1. j.queue \in Seq(Task) /\ j.tries \in 0 .. Batch
      BY <1>1 DEF Job
    <3>2. j.queue # <<>> /\ j.tries < Batch
      BY <1>5 DEF Pick, More
    <3> QED
      BY <3>1, <3>2, ConfigAssumption DEF Loads
  <2>2. Head(j.queue) \in Task /\ Tail(j.queue) \in Seq(Task)
    BY <2>1
  <2>3. [j EXCEPT !.pc = "claim", !.now = Head(j.queue), !.queue = Tail(j.queue), !.tries = @ + 1, !.slow = 0] \in Job
    BY <1>1, <2>1, <2>2 DEF Job
  <2> QED
    BY <1>5, <2>3 DEF Pick
<1>6. CASE Claim(c)
  <2>1. [j EXCEPT !.pc = "call", !.timer = Timeout, !.slow = 0] \in Job
    BY <1>1 DEF Job
  <2> QED
    BY <1>1, <1>6, <2>1 DEF Claim
<1>7. CASE Answered(c) \/ Unanswered(c)
  <2>1. /\ [j EXCEPT !.pc = "drop", !.timer = 0, !.slow = 0] \in Job
        /\ [j EXCEPT !.pc = "save", !.timer = 0, !.slow = 0] \in Job
    BY <1>1 DEF Job
  <2> QED
    BY <1>7, <2>1 DEF Answered, Unanswered
<1>8. CASE Save(c)
  BY <1>1, <1>8 DEF Save
<1>9. CASE Drop(c)
  <2> DEFINE k == [NextTask(j) EXCEPT !.pending = @ - 1]
  <2>1. CASE Proceed(c, k)
    <3>1. k.pending = j.pending - 1 /\ job'[c] = k
      BY <1>1, <2>1 DEF Job, NextTask, Proceed
    <3>2. k.pending \in Int /\ k.pending >= 0
      <4>1. /\ job'[c].pending \in Int
            /\ job'[c].pending >= Cardinality((job'[c].found \cap Present') \cup Open(job'[c]))
            /\ Open(job'[c]) \subseteq job'[c].found /\ job'[c].found \subseteq come' /\ come' \subseteq Task
        BY DEF BacklogInv, Counted
      <4> DEFINE X == (job'[c].found \cap Present') \cup Open(job'[c])
      <4>2. X \subseteq Task
        BY <4>1
      <4>3. Cardinality(X) \in Nat
        BY <4>2, TaskAssumption, FS_Subset, FS_CardinalityType
      <4> HIDE DEF X
      <4>4. job'[c].pending >= Cardinality(X)
        BY <4>1 DEF X
      <4> QED
        BY <3>1, <4>1, <4>3, <4>4
    <3> HIDE DEF k
    <3>3. k \in Job
      BY <1>1, <3>1, <3>2, EndsTyped DEF k
    <3> QED
      BY <2>1, <3>3
  <2>2. CASE Proceed(c, NextTask(j))
    BY <1>1, <2>2
  <2> QED
    BY <1>9, <2>1, <2>2 DEF Drop
<1> QED
  BY <1>2, <1>3, <1>4, <1>5, <1>6, <1>7, <1>8, <1>9 DEF Pass

(* The other variables.  What a claim may hold are the controllers, and a  *)
(* gauge is the count of a pass.                                           *)
LEMMA PassLeaves ==
  ASSUME TypeOK, NEW c \in Controller, Pass(c)
  PROVE  /\ holds' \in [Task -> SUBSET Controller]
         /\ gauge' \in [Controller -> 0 .. Cardinality(Task)]
         /\ faults' \in 0 .. MaxFaults
<1>1. faults' \in 0 .. MaxFaults
  <2>1. faults' = faults \/ Fault
    BY DEF Pass, StartPass, Scan, ScanFails, Pick, PassCut, PassDone, Claim, Answered, Unanswered, Save, Drop, StoreFails
  <2> QED
    BY <2>1, TimeAssumption DEF TypeOK, Fault
<1>2. gauge' \in [Controller -> 0 .. Cardinality(Task)]
  BY DEF TypeOK, Pass, StartPass, Scan, ScanFails, Pick, PassCut, PassDone, Claim, Answered, Unanswered, Save, Drop, Job
<1>3. holds' \in [Task -> SUBSET Controller]
  <2>1. \/ holds' = holds
        \/ Scan(c)
        \/ \E H \in SUBSET {c} : holds' = [holds EXCEPT ![job[c].now] = H]
    <3>1. CASE Claim(c) \/ Save(c)
      BY <3>1 DEF Claim, Save, Write
    <3>2. CASE Drop(c)
      BY <3>2 DEF Drop
    <3> QED
      BY <3>1, <3>2 DEF Pass, StartPass, ScanFails, Pick, PassCut, PassDone, Answered, Unanswered
  <2>2. CASE Scan(c)
    <3>1. PICK due : holds' = [t \in Task |-> IF t \in due THEN holds[t] \cup {c} ELSE holds[t] \ {c}]
      BY <2>2 DEF Scan
    <3> QED
      BY <3>1 DEF TypeOK
  <2>3. ASSUME NEW H \in SUBSET {c}, holds' = [holds EXCEPT ![job[c].now] = H]
        PROVE  holds' \in [Task -> SUBSET Controller]
    BY <2>3 DEF TypeOK
  <2> QED
    BY <2>1, <2>2, <2>3 DEF TypeOK
<1> QED
  BY <1>1, <1>2, <1>3

LEMMA NextTypes == BacklogInv /\ TypeOK /\ [Next]_vars => TypeOK'
<1> SUFFICES ASSUME BacklogInv, TypeOK, [Next]_vars PROVE TypeOK'
  OBVIOUS
<1>1. BacklogInv'
  BY NextBacklog
<1>2. task' \in [Task -> Record \cup {NoTask}] /\ come' \subseteq Task
  BY <1>1 DEF BacklogInv, ClaimInv, TaskShapes
<1>3. CASE UNCHANGED vars
  BY <1>2, <1>3 DEF vars, TypeOK
<1>4. ASSUME NEW c \in Controller, Pass(c)
      PROVE  TypeOK'
  BY <1>1, <1>2, <1>4, PassTyped, PassLeaves DEF TypeOK
<1>5. ASSUME NEW c \in Controller, Crash(c)
      PROVE  TypeOK'
  <2>1. Started \in Job /\ 0 \in 0 .. Cardinality(Task)
    <3>1. job[c] \in Job
      BY DEF TypeOK
    <3>2. Cardinality(Task) \in Nat
      BY TaskAssumption, FS_CardinalityType
    <3>3. Started \in Job
      BY <3>1, EndsTyped
    <3> QED
      BY <3>2, <3>3
  <2>2. job' \in [Controller -> Job] /\ gauge' \in [Controller -> 0 .. Cardinality(Task)]
    BY <1>5, <2>1 DEF Crash, Proceed, TypeOK
  <2>3. faults' \in 0 .. MaxFaults /\ holds' \in [Task -> SUBSET Controller]
    BY <1>5, TimeAssumption DEF Crash, Fault, TypeOK
  <2> QED
    BY <1>2, <2>2, <2>3 DEF TypeOK
<1>6. ASSUME NEW t \in Task, Arise(t)
      PROVE  TypeOK'
  BY <1>2, <1>6 DEF Arise, TypeOK
<1>7. CASE Tick
  <2>1. \A c \in Controller : Later(job[c]) \in Job
    BY <1>7, LaterTyped DEF Tick, TypeOK
  <2> QED
    BY <1>2, <1>7, <2>1 DEF Tick, TypeOK
<1> QED
  BY <1>3, <1>4, <1>5, <1>6, <1>7 DEF Next

LEMMA InitTypes == Init => TypeOK
<1> SUFFICES ASSUME Init PROVE TypeOK
  OBVIOUS
<1>1. 0 \in 0 .. Cardinality(Task) /\ 0 \in 0 .. MaxFaults /\ Cardinality(Task) \in Nat
  BY TaskAssumption, TimeAssumption, FS_CardinalityType
<1>2. Started \in Job
  BY <1>1, ConfigAssumption, TimeAssumption DEF Started, Job, Loads
<1> QED
  BY <1>1, <1>2 DEF Init, TypeOK

(* Every variable keeps its type, for any durations, numbers of tasks and  *)
(* controllers: no counter of a pass leaves its range, the backlog does    *)
(* not become negative, and an attempt count stays within what the shift   *)
(* of the back-off is defined for (access/recovery.go:24-34, 211-280).     *)
THEOREM ScheduleTypes == Spec => []TypeOK
BY InitTypes, InitBacklog, NextBacklog, NextTypes, PTL DEF Spec

-----------------------------------------------------------------------------
(* Rounding up.                                                            *)
LEMMA RoundingUp ==
  ASSUME NEW a \in Nat, NEW b \in Nat \ {0}
  PROVE  /\ CeilDiv(a, b) \in Nat /\ a <= CeilDiv(a, b) * b
         /\ (CeilDiv(a, b) - 1) * b < a
<1> DEFINE q == (a + b - 1) \div b
<1>1. q \in Nat /\ q * b <= a + b - 1 /\ a + b - 1 < (q + 1) * b
  OBVIOUS
<1>2. (q + 1) * b = q * b + b /\ (q - 1) * b = q * b - b /\ q * b \in Int
  BY <1>1
<1> HIDE DEF q
<1>3. a <= q * b /\ (q - 1) * b < a
  BY <1>1, <1>2
<1> QED
  BY <1>1, <1>3 DEF CeilDiv, q

(* A product grows with its factor.                                        *)
LEMMA Products ==
  /\ \A n, p \in Int : n * p \in Int /\ (n + 1) * p = n * p + p /\ (n - 1) * p = n * p - p
  /\ \A n, p \in Nat : n * p >= 0
<1>1. \A n, p \in Int : n * p \in Int /\ (n + 1) * p = n * p + p /\ (n - 1) * p = n * p - p
  OBVIOUS
<1>2. \A n, p \in Nat : n * p >= 0
  OBVIOUS
<1> QED
  BY <1>1, <1>2

LEMMA SmallerFactor ==
  ASSUME NEW a \in Int, NEW b \in Int, NEW p \in Nat, a * p < b * p
  PROVE  a < b
<1> SUFFICES ASSUME b <= a PROVE FALSE
  OBVIOUS
<1>1. (a - b) * p >= 0
  OBVIOUS
<1>2. (a - b) * p = a * p - b * p
  OBVIOUS
<1> QED
  BY <1>1, <1>2

LEMMA WaitConstants ==
  /\ Interval \in Nat /\ Timeout \in Nat \ {0} /\ StoreDelay \in Nat /\ PassLimit \in Nat
  /\ PassLimit > 2 * StoreDelay /\ MaxFaults \in Nat /\ Cardinality(Task) \in Nat
  /\ PerAttempt \in Nat \ {0} /\ PerAttempt = Timeout + 2 * StoreDelay
  /\ PassLength \in Nat /\ PassLength = PassLimit + 2 * StoreDelay + Interval
  /\ PerPass \in Nat \ {0} /\ PerPass <= Batch
  /\ (PerPass - 1) * PerAttempt < PassLimit - 2 * StoreDelay
<1>1. /\ Interval \in Nat /\ Timeout \in Nat \ {0} /\ StoreDelay \in Nat /\ PassLimit \in Nat
      /\ PassLimit > 2 * StoreDelay /\ MaxFaults \in Nat /\ Cardinality(Task) \in Nat
      /\ Batch \in Nat \ {0}
  BY ConfigAssumption, TimeAssumption, PassAssumption, TaskAssumption, FS_CardinalityType DEF Loads
<1>2. /\ PerAttempt \in Nat \ {0} /\ PerAttempt = Timeout + 2 * StoreDelay
      /\ PassLength \in Nat /\ PassLength = PassLimit + 2 * StoreDelay + Interval
  BY <1>1 DEF PerAttempt, PassLength
<1> DEFINE a == PassLimit - 2 * StoreDelay
           m == CeilDiv(a, PerAttempt)
<1>3. a \in Nat \ {0}
  BY <1>1
<1> HIDE DEF a
<1>4. m \in Nat /\ a <= m * PerAttempt /\ (m - 1) * PerAttempt < a
  BY <1>2, <1>3, RoundingUp
<1> HIDE DEF m
<1>5. m # 0
  BY <1>2, <1>3, <1>4
<1>6. PerPass \in {Batch, m} /\ PerPass <= Batch /\ PerPass <= m
  <2>1. \E n \in {Batch, m} : n <= Batch /\ n <= m
    BY <1>1, <1>4
  <2> QED
    BY <2>1 DEF PerPass, m, a
<1>7. PerPass \in Nat \ {0}
  BY <1>1, <1>4, <1>5, <1>6
<1>8. (PerPass - 1) * PerAttempt < a
  <2>1. (m - PerPass) * PerAttempt >= 0
    BY <1>2, <1>4, <1>6, <1>7
  <2>2. (PerPass - 1) * PerAttempt = (m - 1) * PerAttempt - (m - PerPass) * PerAttempt
    BY <1>2, <1>4, <1>7
  <2>3. (m - 1) * PerAttempt \in Int /\ (m - PerPass) * PerAttempt \in Int
    BY <1>2, <1>4, <1>7
  <2> QED
    BY <1>3, <1>4, <2>1, <2>2, <2>3
<1> QED
  BY <1>1, <1>2, <1>6, <1>7, <1>8 DEF a

-----------------------------------------------------------------------------
(* How long a task waits.  It is overdue when it has waited for longer     *)
(* than a call to the store takes: a back-off that is written then is due  *)
(* later, whoever writes it.                                               *)
Wait(t) == -(task[t].due)
Overdue(t) == task[t] # NoTask /\ Wait(t) > StoreDelay

(* The tasks that come before t, and t.                                    *)
Ahead(t) == {u \in Present : task[u].due <= task[t].due}

(* What a pass has still to attempt of the PerPass tasks that it has time  *)
(* for.                                                                    *)
Upcoming(j) == {j.queue[i] : i \in {i \in 1 .. Len(j.queue) : i + j.tries <= PerPass}}
               \cup (IF j.pc = "claim" /\ j.tries <= PerPass THEN {j.now} ELSE {})

(* How long a pass may still take, and how long it may be to the next.     *)
Residual(j) ==
  IF j.left > 0 THEN j.left + 2 * StoreDelay
  ELSE IF j.pc = "pick" THEN 0
  ELSE IF j.pc = "claim" THEN 2 * StoreDelay - j.slow
  ELSE IF j.pc = "call" THEN StoreDelay
  ELSE StoreDelay - j.slow

TimeLeft(j) == IF j.pc = "wait" THEN IF j.fired THEN 0 ELSE j.ticker ELSE Residual(j) + Interval

(* A pass that began when t was overdue already; what of the tasks up to t *)
(* will be left after it; and a pass that has not scanned yet will take    *)
(* PerPass off.                                                            *)
Reaches(j, t) == j.pc # "wait" /\ Wait(t) > StoreDelay + PassLimit - j.left
Remaining(j, t) == IF Reaches(j, t) THEN Ahead(t) \ Upcoming(j) ELSE Ahead(t)
Credit(j, t) == IF Reaches(j, t) /\ j.pc = "scan" THEN 1 ELSE 0

(* What the time that a pass has taken has been spent on.                  *)
Elapsed(j) ==
  /\ j.pc = "wait" /\ ~ j.fired => j.ticker > 0
  /\ j.pc \in {"wait", "scan"} => j.queue = <<>>
  /\ j.pc = "scan" => j.tries = 0 /\ PassLimit - j.left <= j.slow
  /\ j.pc = "pick" => PassLimit - j.left <= StoreDelay + j.tries * PerAttempt
  /\ j.pc = "claim" =>
       /\ j.tries >= 1
       /\ PassLimit - j.left + PerAttempt <= StoreDelay + j.tries * PerAttempt + j.slow
  /\ j.pc = "call" =>
       PassLimit - j.left + PerAttempt <= 2 * StoreDelay + j.tries * PerAttempt + Timeout - j.timer
  /\ j.pc \in {"save", "drop"} =>
       PassLimit - j.left + PerAttempt <= 2 * StoreDelay + j.tries * PerAttempt + Timeout + j.slow

(* A record that is no longer the one of the scan is not in the way of a   *)
(* task that was overdue when the pass began.                              *)
Known(c) ==
  \A u \in Upcoming(job[c]) :
    c \in holds[u] \/ task[u] = NoTask \/ Wait(u) <= StoreDelay + PassLimit - job[c].left

(* t is attempted within n passes after this one, and one for every        *)
(* failure still to come; each takes PassLength at most.                   *)
Within(X, credit, spent, n) ==
  /\ Cardinality(X) <= (n + credit) * PerPass
  /\ spent + PassLength * (n + (MaxFaults - faults)) <= MaxWait

Patient(c, t) ==
  Overdue(t) => \E n \in Nat : Within(Remaining(job[c], t), Credit(job[c], t), Wait(t) + TimeLeft(job[c]), n)

AllPatient ==
  TypeOK /\ \A c \in Controller : Elapsed(job[c]) /\ Known(c) /\ \A t \in Task : Patient(c, t)

WaitInv ==
  /\ BacklogInv /\ TypeOK /\ NoStarvation
  /\ Horizon > MaxWait => AllPatient

-----------------------------------------------------------------------------
LEMMA JobFields ==
  ASSUME NEW j \in Job
  PROVE  /\ j.queue \in Seq(Task) /\ Len(j.queue) \in Nat /\ j.tries \in Nat
         /\ j.left \in Nat /\ j.left <= PassLimit /\ j.timer \in Nat /\ j.timer <= Timeout
         /\ j.slow \in Nat /\ j.slow <= StoreDelay /\ j.ticker \in Nat /\ j.ticker <= Interval
         /\ j.fired \in BOOLEAN
         /\ j.pc \in {"wait", "scan", "pick", "claim", "call", "save", "drop"}
         /\ j.tries * PerAttempt \in Nat
<1>1. /\ j.queue \in Seq(Task) /\ j.tries \in 0 .. Batch /\ j.left \in 0 .. PassLimit
      /\ j.timer \in 0 .. Timeout /\ j.slow \in 0 .. StoreDelay /\ j.ticker \in 0 .. Interval
      /\ j.fired \in BOOLEAN
      /\ j.pc \in {"wait", "scan", "pick", "claim", "call", "save", "drop"}
  BY DEF Job
<1>2. Len(j.queue) \in Nat
  BY <1>1
<1>3. Batch \in Nat
  BY ConfigAssumption DEF Loads
<1>4. j.tries \in Nat
  BY <1>1, <1>3
<1>5. j.tries * PerAttempt \in Nat
  BY <1>4, WaitConstants, Products
<1> QED
  BY <1>1, <1>2, <1>4, <1>5, WaitConstants

(* When the time of a pass is over, it has made PerPass attempts.          *)
LEMMA TimeSuffices ==
  ASSUME NEW j \in Job, Elapsed(j), j.left = 0
  PROVE  Upcoming(j) = {} /\ j.pc # "scan"
<1> DEFINE s == j.tries * PerAttempt
           b == (PerPass - 1) * PerAttempt
<1>1. /\ s \in Nat /\ j.tries \in Nat /\ j.slow \in Nat /\ j.slow <= StoreDelay /\ j.timer \in Nat
      /\ j.pc \in {"wait", "scan", "pick", "claim", "call", "save", "drop"}
  BY JobFields
<1>2. /\ PerPass * PerAttempt = b + PerAttempt /\ (j.tries + 1) * PerAttempt = s + PerAttempt
      /\ b \in Int
  BY <1>1, WaitConstants, Products
<1>3. /\ b < PassLimit - 2 * StoreDelay /\ PerAttempt = Timeout + 2 * StoreDelay
      /\ PassLimit > 2 * StoreDelay /\ StoreDelay \in Nat /\ PassLimit \in Nat /\ Timeout \in Nat
      /\ PerAttempt \in Nat /\ PerPass \in Nat
  BY WaitConstants
<1> HIDE DEF s, b
<1>4. j.pc # "scan"
  BY <1>1, <1>3 DEF Elapsed
<1>5. CASE j.pc = "wait"
  <2>1. j.queue = <<>>
    BY <1>5 DEF Elapsed
  <2>2. Len(j.queue) = 0
    BY <2>1
  <2>3. \A i \in 1 .. Len(j.queue) : FALSE
    BY <2>2
  <2>4. {i \in 1 .. Len(j.queue) : i + j.tries <= PerPass} = {}
    BY <2>3
  <2> QED
    BY <1>5, <2>4 DEF Upcoming
<1>6. CASE j.pc = "claim"
  <2>1. PassLimit - j.left + PerAttempt <= StoreDelay + s + j.slow
    BY <1>6 DEF Elapsed, s
  <2>2. b + PerAttempt < s
    BY <1>1, <1>2, <1>3, <2>1
  <2>3. PerPass * PerAttempt < j.tries * PerAttempt
    BY <1>2, <2>2 DEF s
  <2>4. PerPass < j.tries
    BY <1>1, <1>3, <2>3, SmallerFactor
  <2>5. {i \in 1 .. Len(j.queue) : i + j.tries <= PerPass} = {}
    BY <1>1, <1>3, <2>4, JobFields
  <2> QED
    BY <1>1, <1>3, <1>4, <2>4, <2>5 DEF Upcoming
<1>7. CASE j.pc \in {"pick", "call", "save", "drop"}
  <2>1. \/ PassLimit - j.left <= StoreDelay + s
        \/ PassLimit - j.left + PerAttempt <= 2 * StoreDelay + s + Timeout - j.timer
        \/ PassLimit - j.left + PerAttempt <= 2 * StoreDelay + s + Timeout + j.slow
    BY <1>7 DEF Elapsed, s
  <2>2. b < s
    BY <1>1, <1>2, <1>3, <2>1
  <2>3. (PerPass - 1) * PerAttempt < j.tries * PerAttempt
    BY <1>2, <2>2 DEF s, b
  <2>4. PerPass - 1 < j.tries
    BY <1>1, <1>3, <2>3, SmallerFactor
  <2>5. {i \in 1 .. Len(j.queue) : i + j.tries <= PerPass} = {}
    BY <1>1, <1>3, <2>4, JobFields
  <2> QED
    BY <1>7, <2>5 DEF Upcoming
<1> QED
  BY <1>1, <1>4, <1>5, <1>6, <1>7

(* A pass, and the time to the next, is no longer than PassLength.         *)
LEMMA TimeBounded ==
  ASSUME NEW j \in Job, Elapsed(j)
  PROVE  /\ TimeLeft(j) \in Nat /\ TimeLeft(j) <= PassLength
         /\ j.pc # "wait" => TimeLeft(j) >= Interval
<1>1. /\ j.left \in Nat /\ j.left <= PassLimit
      /\ j.slow \in Nat /\ j.slow <= StoreDelay /\ j.ticker \in Nat /\ j.ticker <= Interval
  BY JobFields
<1>2. Residual(j) \in Nat /\ Residual(j) <= PassLimit + 2 * StoreDelay
  BY <1>1, WaitConstants DEF Residual
<1> QED
  BY <1>1, <1>2, WaitConstants DEF TimeLeft

-----------------------------------------------------------------------------
(* There are at most PerPass tasks that a pass has time for.               *)
LEMMA FewUpcoming ==
  ASSUME NEW j \in Job, Elapsed(j)
  PROVE  IsFiniteSet(Upcoming(j)) /\ Cardinality(Upcoming(j)) <= PerPass
<1> DEFINE I == {i \in 1 .. Len(j.queue) : i + j.tries <= PerPass}
           tried == j.pc = "claim" /\ j.tries <= PerPass
           D == I \cup (IF tried THEN {0} ELSE {})
           f == [i \in D |-> IF i = 0 THEN j.now ELSE j.queue[i]]
<1>1. Len(j.queue) \in Nat /\ j.tries \in Nat /\ PerPass \in Nat \ {0}
  BY JobFields, WaitConstants
<1>2. tried => j.tries >= 1
  BY DEF Elapsed
<1>3. I \subseteq 1 .. PerPass /\ 0 \notin I /\ (j.tries >= 1 => I \subseteq 1 .. PerPass - 1)
  BY <1>1
<1> HIDE DEF I, tried
<1>4. Upcoming(j) = {j.queue[i] : i \in I} \cup (IF tried THEN {j.now} ELSE {})
  BY DEF Upcoming, I, tried
<1>5. f \in Surjection(D, Upcoming(j))
  <2>1. \A i \in D : f[i] \in Upcoming(j)
    BY <1>3, <1>4
  <2>2. \A u \in Upcoming(j) : \E i \in D : f[i] = u
    BY <1>3, <1>4
  <2> QED
    BY <2>1, <2>2 DEF Surjection
<1> HIDE DEF D, f
<1>6. IsFiniteSet(D) /\ Cardinality(D) <= PerPass
  <2>1. CASE tried
    <3>1. D \subseteq 0 .. PerPass - 1
      BY <1>1, <1>2, <1>3, <2>1 DEF D
    <3>2. IsFiniteSet(0 .. PerPass - 1) /\ Cardinality(0 .. PerPass - 1) = PerPass
      BY <1>1, FS_Interval
    <3> QED
      BY <3>1, <3>2, FS_Subset
  <2>2. CASE ~ tried
    <3>1. D \subseteq 1 .. PerPass
      BY <1>3, <2>2 DEF D
    <3>2. IsFiniteSet(1 .. PerPass) /\ Cardinality(1 .. PerPass) = PerPass
      BY <1>1, FS_Interval
    <3> QED
      BY <3>1, <3>2, FS_Subset
  <2> QED
    BY <2>1, <2>2
<1>7. IsFiniteSet(Upcoming(j)) /\ Cardinality(Upcoming(j)) <= Cardinality(D)
  BY <1>5, <1>6, FS_Surjection
<1>8. Cardinality(D) \in Nat /\ Cardinality(Upcoming(j)) \in Nat
  BY <1>6, <1>7, FS_CardinalityType
<1> QED
  BY <1>1, <1>6, <1>7, <1>8

(* A queue in the order of due times takes the PerPass oldest tasks first: *)
(* off those that are no later than b it takes as many, or all.            *)
UpTo(S, b) == {u \in S : task[u].due <= b}
First(q, n) == {q[i] : i \in {i \in 1 .. n : i <= PerPass}}

LEMMA OldestFirst ==
  ASSUME NEW S \in SUBSET Task, NEW q \in Orders(S), NEW b \in Int, S \subseteq Present,
         task \in [Task -> Record \cup {NoTask}]
  PROVE  \/ UpTo(S, b) \subseteq First(q, Cardinality(S))
         \/ /\ First(q, Cardinality(S)) \subseteq UpTo(S, b)
            /\ IsFiniteSet(First(q, Cardinality(S))) /\ Cardinality(First(q, Cardinality(S))) = PerPass
<1> DEFINE n == Cardinality(S)
           I == {i \in 1 .. n : i <= PerPass}
           A == UpTo(S, b)
           U == First(q, n)
<1>0. A = {u \in S : task[u].due <= b} /\ U = {q[i] : i \in I}
  BY DEF UpTo, First
<1> SUFFICES A \subseteq U \/ (U \subseteq A /\ IsFiniteSet(U) /\ Cardinality(U) = PerPass)
  OBVIOUS
<1> HIDE DEF A, U
<1>1. IsFiniteSet(S) /\ n \in Nat /\ PerPass \in Nat \ {0}
  BY TaskAssumption, FS_Subset, FS_CardinalityType, WaitConstants
<1>2. /\ q \in [1 .. n -> S]
      /\ \A i, k \in 1 .. n : i < k => q[i] # q[k] /\ task[q[i]].due <= task[q[k]].due
  BY DEF Orders
<1>3. \A u \in S : task[u].due \in Int
  BY DEF Present, Record
<1> HIDE DEF n
<1>4. \A i, k \in 1 .. n : q[i] = q[k] => i = k
  <2>1. \A i, k \in 1 .. n : i < k \/ i = k \/ k < i
    BY <1>1
  <2> QED
    BY <1>2, <2>1
<1>5. \A u \in S : \E i \in 1 .. n : q[i] = u
  <2>1. q \in Injection(1 .. n, S)
    BY <1>2, <1>4 DEF Injection, IsInjective
  <2>2. IsFiniteSet(1 .. n) /\ Cardinality(1 .. n) = n
    BY <1>1, FS_Interval
  <2>3. q \in Surjection(1 .. n, S)
    BY <1>1, <2>1, <2>2, FS_Injection DEF n
  <2> QED
    BY <2>3 DEF Surjection
<1>6. CASE U \subseteq A
  <2>1. CASE n <= PerPass
    <3>1. I = 1 .. n
      BY <1>1, <2>1
    <3> QED
      BY <1>0, <1>5, <3>1
  <2>2. CASE PerPass < n
    <3>1. I = 1 .. PerPass
      BY <1>1, <2>2
    <3> DEFINE g == [i \in I |-> q[i]]
    <3>2. g \in Surjection(I, U)
      BY <1>0 DEF Surjection
    <3>3. g \in Injection(I, U)
      BY <1>0, <1>4 DEF Injection, IsInjective
    <3> HIDE DEF g, I
    <3>4. IsFiniteSet(1 .. PerPass) /\ Cardinality(1 .. PerPass) = PerPass
      BY <1>1, FS_Interval
    <3>5. IsFiniteSet(I) /\ Cardinality(I) = PerPass
      BY <3>1, <3>4, Zenon
    <3>6. IsFiniteSet(U) /\ Cardinality(U) = PerPass
      BY <3>2, <3>3, <3>5, FS_Surjection
    <3> QED
      BY <1>6, <3>6
  <2> QED
    BY <1>1, <2>1, <2>2
<1>7. ASSUME NEW i \in I, q[i] \notin A
      PROVE  A \subseteq U
  <2>1. i \in 1 .. n /\ i <= PerPass /\ q[i] \in S
    BY <1>2, <1>7
  <2>2. task[q[i]].due > b
    BY <1>0, <1>3, <1>7, <2>1
  <2>3. SUFFICES ASSUME NEW u \in A PROVE u \in U
    OBVIOUS
  <2>4. PICK k \in 1 .. n : q[k] = u
    BY <1>0, <1>5
  <2>5. ~ (i < k)
    BY <1>0, <1>2, <1>3, <2>1, <2>2, <2>4
  <2>6. k <= PerPass
    BY <1>1, <2>1, <2>5
  <2> QED
    BY <1>0, <2>4, <2>6
<1> QED
  BY <1>0, <1>6, <1>7

-----------------------------------------------------------------------------
(* What a step of a pass does to the fields that time is reckoned with.    *)
Same(j, k) == k.queue = j.queue /\ k.tries = j.tries /\ k.left = j.left

LEMMA EndsMove ==
  ASSUME NEW j \in Job
  PROVE  /\ Same(j, NextTask(j)) /\ NextTask(j).pc = "pick"
         /\ Same(j, [NextTask(j) EXCEPT !.pending = @ - 1])
         /\ [NextTask(j) EXCEPT !.pending = @ - 1].pc = "pick"
         /\ Rest(j).pc = "wait" /\ Rest(j).queue = <<>> /\ Rest(j).left = 0 /\ Rest(j).fired = j.fired
         /\ Rest(j).ticker = IF j.ticker = 0 THEN Interval ELSE j.ticker
<1>1. Same(j, NextTask(j)) /\ NextTask(j).pc = "pick"
  BY DEF Same, NextTask, Job
<1>2. /\ Same(j, [NextTask(j) EXCEPT !.pending = @ - 1])
      /\ [NextTask(j) EXCEPT !.pending = @ - 1].pc = "pick"
  BY DEF Same, NextTask, Job
<1>3. /\ Rest(j).pc = "wait" /\ Rest(j).queue = <<>> /\ Rest(j).left = 0 /\ Rest(j).fired = j.fired
      /\ Rest(j).ticker = IF j.ticker = 0 THEN Interval ELSE j.ticker
  BY DEF Rest, Job
<1> QED
  BY <1>1, <1>2, <1>3

LEMMA Proceeds ==
  ASSUME TypeOK, NEW c \in Controller, NEW k, Proceed(c, k)
  PROVE  job'[c] = k /\ \A d \in Controller \ {c} : job'[d] = job[d]
BY DEF TypeOK, Proceed

LEMMA StartMoves ==
  ASSUME TypeOK, NEW c \in Controller, StartPass(c)
  PROVE  /\ job[c].pc = "wait" /\ job[c].fired
         /\ job'[c].pc = "scan" /\ job'[c].left = PassLimit /\ job'[c].slow = 0 /\ job'[c].tries = 0
         /\ job'[c].queue = job[c].queue
<1> DEFINE j == job[c]
           k == [j EXCEPT !.pc = "scan", !.fired = FALSE, !.left = PassLimit, !.slow = 0, !.tries = 0]
<1>1. j \in Job
  BY DEF TypeOK
<1>2. /\ k.pc = "scan" /\ k.left = PassLimit /\ k.slow = 0 /\ k.tries = 0
      /\ k.queue = j.queue
  BY <1>1 DEF Job
<1> HIDE DEF k
<1>3. job'[c] = k /\ j.pc = "wait" /\ j.fired
  BY Proceeds DEF StartPass, At, k
<1> QED
  BY <1>2, <1>3

LEMMA ScanMoves ==
  ASSUME TypeOK, NEW c \in Controller, Scan(c)
  PROVE  /\ job[c].pc = "scan"
         /\ \E q \in Orders({t \in Present : IsDue(t)}) : job'[c].queue = q
         /\ job'[c].pc = "pick" /\ job'[c].tries = job[c].tries /\ job'[c].left = job[c].left
<1> DEFINE j == job[c]
           k(q) == [j EXCEPT !.pc = "pick", !.queue = q, !.found = Present,
                             !.pending = Cardinality(Present), !.slow = 0]
<1>1. j \in Job
  BY DEF TypeOK
<1>2. \A q : k(q).pc = "pick" /\ k(q).queue = q /\ k(q).tries = j.tries /\ k(q).left = j.left
  BY <1>1 DEF Job
<1> HIDE DEF k
<1>3. PICK q \in Orders({t \in Present : IsDue(t)}) : Proceed(c, k(q))
  BY DEF Scan, k
<1>4. job'[c] = k(q) /\ j.pc = "scan"
  BY <1>3, Proceeds DEF Scan, At
<1> QED
  BY <1>2, <1>3, <1>4

LEMMA EndMoves ==
  ASSUME TypeOK, NEW c \in Controller, ScanFails(c) \/ PassCut(c) \/ PassDone(c)
  PROVE  /\ ScanFails(c) => job[c].pc = "scan" /\ (job[c].left = 0 \/ faults' = faults + 1)
         /\ PassCut(c) => job[c].pc = "pick" /\ job[c].left = 0
         /\ PassDone(c) => job[c].pc = "pick" /\ (job[c].queue = <<>> \/ job[c].tries >= Batch)
         /\ job'[c].pc = "wait" /\ job'[c].queue = <<>> /\ job'[c].left = 0 /\ job'[c].fired = job[c].fired
         /\ job'[c].ticker = IF job[c].ticker = 0 THEN Interval ELSE job[c].ticker
<1> DEFINE j == job[c]
<1>1. j \in Job /\ Batch \in Nat /\ j.tries \in Nat
  BY ConfigAssumption, JobFields DEF TypeOK, Loads
<1>2. Proceed(c, Rest(j))
  BY DEF ScanFails, PassCut, PassDone
<1>3. job'[c] = Rest(j)
  BY <1>2, Proceeds
<1>4. /\ ScanFails(c) => j.pc = "scan" /\ (j.left = 0 \/ faults' = faults + 1)
      /\ PassCut(c) => j.pc = "pick" /\ j.left = 0
      /\ PassDone(c) => j.pc = "pick" /\ (j.queue = <<>> \/ j.tries >= Batch)
  BY <1>1 DEF ScanFails, PassCut, PassDone, At, More, Fault
<1> QED
  BY <1>1, <1>3, <1>4, EndsMove

LEMMA PickMoves ==
  ASSUME TypeOK, NEW c \in Controller, Pick(c)
  PROVE  /\ job[c].pc = "pick" /\ job[c].left > 0 /\ job[c].queue # <<>>
         /\ job'[c].pc = "claim" /\ job'[c].now = Head(job[c].queue) /\ job'[c].queue = Tail(job[c].queue)
         /\ job'[c].tries = job[c].tries + 1 /\ job'[c].slow = 0 /\ job'[c].left = job[c].left
<1> DEFINE j == job[c]
           k == [j EXCEPT !.pc = "claim", !.now = Head(j.queue), !.queue = Tail(j.queue),
                          !.tries = @ + 1, !.slow = 0]
<1>1. j \in Job
  BY DEF TypeOK
<1>2. /\ k.pc = "claim" /\ k.now = Head(j.queue) /\ k.queue = Tail(j.queue)
      /\ k.tries = j.tries + 1 /\ k.slow = 0 /\ k.left = j.left
  BY <1>1 DEF Job
<1> HIDE DEF k
<1>3. job'[c] = k /\ j.pc = "pick" /\ j.left > 0 /\ j.queue # <<>>
  BY Proceeds DEF Pick, At, More, k
<1> QED
  BY <1>2, <1>3

LEMMA AttemptMoves ==
  ASSUME TypeOK, NEW c \in Controller,
         Claim(c) \/ Answered(c) \/ Unanswered(c) \/ Save(c) \/ Drop(c)
  PROVE  /\ Same(job[c], job'[c])
         /\ Claim(c) => /\ job[c].pc = "claim"
                        /\ job'[c].pc = "pick" \/ (job'[c].pc = "call" /\ job'[c].timer = Timeout)
         /\ Answered(c) \/ Unanswered(c) => /\ job[c].pc = "call"
                                            /\ job'[c].pc \in {"save", "drop"} /\ job'[c].slow = 0
         /\ Save(c) \/ Drop(c) => job[c].pc \in {"save", "drop"} /\ job'[c].pc = "pick"
<1> DEFINE j == job[c]
           k == [j EXCEPT !.pc = "call", !.timer = Timeout, !.slow = 0]
           l(label) == [j EXCEPT !.pc = label, !.timer = 0, !.slow = 0]
           m == [NextTask(j) EXCEPT !.pending = @ - 1]
<1>1. j \in Job
  BY DEF TypeOK
<1>2. Same(j, k) /\ k.pc = "call" /\ k.timer = Timeout
  BY <1>1 DEF Job, Same
<1>3. \A label : Same(j, l(label)) /\ l(label).pc = label /\ l(label).slow = 0
  BY <1>1 DEF Job, Same
<1>4. /\ Same(j, NextTask(j)) /\ NextTask(j).pc = "pick"
      /\ Same(j, m) /\ m.pc = "pick"
  BY <1>1, EndsMove
<1> HIDE DEF k, l, m
<1>5. Claim(c) => j.pc = "claim" /\ job'[c] \in {k, NextTask(j)}
  BY Proceeds DEF Claim, At, k
<1>6. Answered(c) \/ Unanswered(c) => j.pc = "call" /\ job'[c] \in {l("save"), l("drop")}
  BY Proceeds DEF Answered, Unanswered, At, l
<1>7. Save(c) \/ Drop(c) => j.pc \in {"save", "drop"} /\ job'[c] \in {m, NextTask(j)}
  BY Proceeds DEF Save, Drop, At, m
<1> QED
  BY <1>2, <1>3, <1>4, <1>5, <1>6, <1>7

LEMMA CrashMoves ==
  ASSUME TypeOK, NEW c \in Controller, Crash(c)
  PROVE  /\ job'[c].pc = "wait" /\ job'[c].queue = <<>> /\ job'[c].fired /\ job'[c].ticker = 0
         /\ job'[c].left = 0 /\ faults' = faults + 1
<1>1. job'[c] = Started
  BY Proceeds DEF Crash
<1> QED
  BY <1>1 DEF Started, Crash, Fault

LEMMA OthersStay ==
  ASSUME TypeOK, NEW d \in Controller, Pass(d) \/ Crash(d)
  PROVE  /\ \A c \in Controller \ {d} : job'[c] = job[c]
         /\ faults' = faults \/ faults' = faults + 1
<1>1. \E k : Proceed(d, k)
  BY DEF Pass, StartPass, Scan, ScanFails, Pick, PassCut, PassDone, Claim, Answered, Unanswered, Save, Drop, Crash
<1>2. faults' = faults \/ Fault
  BY DEF Pass, StartPass, Scan, ScanFails, Pick, PassCut, PassDone, Claim, Answered, Unanswered, Save, Drop, StoreFails, Crash
<1> QED
  BY <1>1, <1>2, Proceeds DEF Fault

-----------------------------------------------------------------------------
(* What anybody writes is due later than any overdue task, and a           *)
(* controller loses the revision of a record to such a write only.         *)
Fresh == \A u \in Task : task'[u] = task[u] \/ task'[u] = NoTask \/ Wait(u)' <= StoreDelay
KeepsHold(c) ==
  \A u \in Task : c \in holds[u] =>
    c \in holds'[u] \/ task'[u] = NoTask \/ Wait(u)' <= StoreDelay

LEMMA WritesFresh ==
  ASSUME TypeOK, NEW t \in Task, task[t] # NoTask, NEW slow \in 0 .. StoreDelay
  PROVE  /\ -(Claimed(t, slow).due) <= StoreDelay
         /\ -([task[t] EXCEPT !.due = RetryDelay(task[t].attempts) - slow].due) <= StoreDelay
<1>1. task[t] \in Record
  BY DEF TypeOK
<1>2. RetryDelay(task[t].attempts) \in Nat
  BY <1>1, TimeAssumption DEF Record, RetryDelay
<1>3. [task[t] EXCEPT !.due = RetryDelay(task[t].attempts) - slow].due = RetryDelay(task[t].attempts) - slow
  BY <1>1 DEF Record
<1>4. Claimed(t, slow).due = Lease - slow
  BY DEF Claimed
<1> QED
  BY <1>2, <1>3, <1>4, ConstantTypes

LEMMA PassWrites ==
  ASSUME BacklogInv, TypeOK, NEW d \in Controller, Pass(d)
  PROVE  \/ task' = task /\ (holds' = holds \/ Scan(d))
         \/ \E r, H : /\ r = NoTask \/ -(r.due) <= StoreDelay
                      /\ task' = [task EXCEPT ![job[d].now] = r]
                      /\ holds' = [holds EXCEPT ![job[d].now] = H]
<1> DEFINE j == job[d]
<1>1. /\ j.slow \in 0 .. StoreDelay
      /\ j.pc \in {"claim", "save", "drop"} => j.now \in Task /\ (d \in holds[j.now] => task[j.now] # NoTask)
  BY DEF BacklogInv, ClaimInv, JobShapes, JobShape, Comings
<1>2. CASE Claim(d)
  <2>1. j.pc = "claim"
    BY <1>2 DEF Claim, At
  <2>2. CASE task' = task /\ holds' = holds
    BY <2>2
  <2>3. CASE d \in holds[j.now] /\ task' = [task EXCEPT ![j.now] = Claimed(j.now, j.slow)]
             /\ \E H : holds' = [holds EXCEPT ![j.now] = H]
    <3>1. -(Claimed(j.now, j.slow).due) <= StoreDelay
      BY <1>1, <2>1, <2>3, WritesFresh
    <3> QED
      BY <2>3, <3>1
  <2> QED
    BY <1>2, <2>2, <2>3 DEF Claim, Write
<1>3. CASE Save(d)
  <2>1. j.pc = "save"
    BY <1>3 DEF Save, At
  <2> DEFINE r == [task[j.now] EXCEPT !.due = RetryDelay(task[j.now].attempts) - j.slow]
  <2>2. d \in holds[j.now] => -(r.due) <= StoreDelay
    BY <1>1, <2>1, WritesFresh
  <2>3. \/ task' = task /\ holds' = holds
        \/ d \in holds[j.now] /\ task' = [task EXCEPT ![j.now] = r] /\ \E H : holds' = [holds EXCEPT ![j.now] = H]
    BY <1>3 DEF Save, Write
  <2> HIDE DEF r
  <2> QED
    BY <2>2, <2>3
<1>4. CASE Drop(d)
  BY <1>4 DEF Drop
<1> QED
  BY <1>2, <1>3, <1>4 DEF Pass, StartPass, Scan, ScanFails, Pick, PassCut, PassDone, Answered, Unanswered

LEMMA RecordsMove ==
  ASSUME BacklogInv, TypeOK,
         (\E t \in Task : Arise(t)) \/ (\E d \in Controller : Pass(d) \/ Crash(d))
  PROVE  Fresh
<1>1. ASSUME NEW t \in Task, Arise(t)
      PROVE  Fresh
  <2>1. [due |-> 0, attempts |-> 0].due = 0
    OBVIOUS
  <2> QED
    BY <1>1, <2>1, TimeAssumption DEF Arise, Fresh, Wait, TypeOK
<1>2. ASSUME NEW d \in Controller, Pass(d)
      PROVE  Fresh
  BY <1>2, PassWrites DEF Fresh, Wait, TypeOK
<1>3. ASSUME NEW d \in Controller, Crash(d)
      PROVE  Fresh
  BY <1>3 DEF Fresh, Crash
<1> QED
  BY <1>1, <1>2, <1>3

LEMMA HoldsMove ==
  ASSUME BacklogInv, TypeOK, NEW c \in Controller,
         \/ \E t \in Task : Arise(t)
         \/ \E d \in Controller : Pass(d) /\ (d = c => ~ Scan(d))
         \/ \E d \in Controller \ {c} : Crash(d)
  PROVE  KeepsHold(c)
<1>1. ASSUME NEW t \in Task, Arise(t)
      PROVE  KeepsHold(c)
  BY <1>1 DEF Arise, KeepsHold
<1>2. ASSUME NEW d \in Controller, Pass(d), ~ Scan(d)
      PROVE  KeepsHold(c)
  BY <1>2, PassWrites DEF KeepsHold, Wait, TypeOK
<1>3. ASSUME NEW d \in Controller \ {c}, Scan(d)
      PROVE  KeepsHold(c)
  <2>1. PICK due : holds' = [t \in Task |-> IF t \in due THEN holds[t] \cup {d} ELSE holds[t] \ {d}]
    BY <1>3 DEF Scan
  <2> QED
    BY <2>1 DEF KeepsHold
<1>4. ASSUME NEW d \in Controller \ {c}, Crash(d)
      PROVE  KeepsHold(c)
  BY <1>4 DEF Crash, KeepsHold
<1> QED
  BY <1>1, <1>2, <1>3, <1>4

-----------------------------------------------------------------------------
(* A task that is overdue after such a step was so before, and nothing has *)
(* come before it.                                                         *)
LEMMA AheadShrinks ==
  ASSUME TypeOK, TypeOK', Fresh, NEW t \in Task, Overdue(t)'
  PROVE  Overdue(t) /\ Wait(t)' = Wait(t) /\ Ahead(t)' \subseteq Ahead(t)
<1>1. StoreDelay \in Nat
  BY WaitConstants
<1>2. task'[t] = task[t]
  <2>1. task'[t] \in Record /\ -(task'[t].due) > StoreDelay
    BY DEF Overdue, Wait, TypeOK
  <2>2. task'[t].due \in Int
    BY <2>1 DEF Record
  <2> QED
    BY <1>1, <2>1, <2>2 DEF Fresh, Wait, Overdue
<1>3. Overdue(t) /\ Wait(t)' = Wait(t)
  BY <1>2 DEF Overdue, Wait
<1>4. ASSUME NEW u \in Ahead(t)'
      PROVE  u \in Ahead(t)
  <2>1. u \in Task /\ task'[u] # NoTask /\ task'[u].due <= task'[t].due
    BY <1>4 DEF Ahead, Present
  <2>2. task'[u] \in Record /\ task'[t] \in Record
    BY <1>2, <1>3, <2>1 DEF TypeOK, Overdue
  <2>3. Wait(u)' > StoreDelay
    BY <1>1, <2>1, <2>2 DEF Overdue, Wait, Record
  <2>4. task'[u] = task[u]
    BY <1>1, <2>1, <2>2, <2>3 DEF Fresh, Wait, Record
  <2> QED
    BY <1>2, <2>1, <2>4 DEF Ahead, Present
<1> QED
  BY <1>3, <1>4

(* Numbers and sets of a patient wait.                                     *)
LEMMA PatientTypes ==
  ASSUME TypeOK, NEW c \in Controller, NEW t \in Task, Elapsed(job[c]), task[t] # NoTask
  PROVE  /\ IsFiniteSet(Ahead(t)) /\ IsFiniteSet(Remaining(job[c], t))
         /\ Remaining(job[c], t) \subseteq Ahead(t)
         /\ Cardinality(Ahead(t)) \in Nat /\ Cardinality(Remaining(job[c], t)) \in Nat
         /\ Credit(job[c], t) \in {0, 1} /\ Wait(t) \in Int /\ TimeLeft(job[c]) \in Nat
         /\ Cardinality(Ahead(t)) <= Cardinality(Task)
<1>1. Remaining(job[c], t) \subseteq Ahead(t) /\ Ahead(t) \subseteq Task
  BY DEF Remaining, Ahead, Present
<1>2. Credit(job[c], t) \in {0, 1} /\ Wait(t) \in Int
  BY DEF Credit, Wait, TypeOK, Record
<1>3. TimeLeft(job[c]) \in Nat
  BY TimeBounded DEF TypeOK
<1>4. IsFiniteSet(Ahead(t)) /\ Cardinality(Ahead(t)) <= Cardinality(Task)
  BY <1>1, TaskAssumption, FS_Subset
<1>5. IsFiniteSet(Remaining(job[c], t))
  BY <1>1, <1>4, FS_Subset
<1> QED
  BY <1>1, <1>2, <1>3, <1>4, <1>5, FS_CardinalityType

LEMMA MaxWaitTyped ==
  MaxWait \in Nat /\ MaxWait = StoreDelay + PassLength * (1 + CeilDiv(Cardinality(Task), PerPass) + MaxFaults)
<1>1. /\ StoreDelay \in Nat /\ PassLength \in Nat /\ MaxFaults \in Nat /\ Cardinality(Task) \in Nat
      /\ PerPass \in Nat \ {0}
  BY WaitConstants
<1>2. CeilDiv(Cardinality(Task), PerPass) \in Nat
  BY <1>1, RoundingUp
<1> DEFINE n == 1 + CeilDiv(Cardinality(Task), PerPass) + MaxFaults
<1>3. n \in Nat
  BY <1>1, <1>2
<1> HIDE DEF n
<1>4. PassLength * n \in Nat
  BY <1>1, <1>3, Products
<1> QED
  BY <1>1, <1>4 DEF MaxWait, n

LEMMA DelayBelowWait == StoreDelay <= MaxWait
<1>1. /\ StoreDelay \in Nat /\ PassLength \in Nat /\ MaxFaults \in Nat /\ Cardinality(Task) \in Nat
      /\ PerPass \in Nat \ {0}
  BY WaitConstants
<1> DEFINE m == CeilDiv(Cardinality(Task), PerPass)
<1>2. m \in Nat
  BY <1>1, RoundingUp
<1>3. 1 + m + MaxFaults \in Nat /\ MaxWait = StoreDelay + PassLength * (1 + m + MaxFaults)
  BY <1>1, <1>2, MaxWaitTyped
<1> DEFINE p == PassLength * (1 + m + MaxFaults)
<1>4. p \in Nat
  BY <1>1, <1>3, Products
<1> HIDE DEF p
<1> QED
  BY <1>1, <1>3, <1>4 DEF p

(* A step without a failure that puts nothing before t and takes no longer *)
(* than the time it uses up.                                               *)
LEMMA StaysPatient ==
  ASSUME TypeOK, TypeOK', NEW c \in Controller, NEW t \in Task, Elapsed(job[c]), Elapsed(job[c])',
         Patient(c, t), faults' = faults,
         Overdue(t)' => /\ Overdue(t)
                        /\ Wait(t)' + TimeLeft(job'[c]) <= Wait(t) + TimeLeft(job[c])
                        /\ Remaining(job[c], t)' \subseteq Remaining(job[c], t)
                        /\ Credit(job[c], t)' = Credit(job[c], t)
  PROVE  Patient(c, t)'
<1> SUFFICES ASSUME Overdue(t)'
             PROVE  \E n \in Nat : Within(Remaining(job[c], t), Credit(job[c], t), Wait(t) + TimeLeft(job[c]), n)'
  BY DEF Patient
<1>1. PICK n \in Nat : Within(Remaining(job[c], t), Credit(job[c], t), Wait(t) + TimeLeft(job[c]), n)
  BY DEF Patient
<1> DEFINE X == Remaining(job[c], t)
           e == Credit(job[c], t)
           s == Wait(t) + TimeLeft(job[c])
<1>2. /\ IsFiniteSet(X) /\ Cardinality(X) \in Nat /\ e \in {0, 1} /\ s \in Int
  BY PatientTypes DEF Overdue
<1>3. s' \in Int
  BY TimeBounded DEF Overdue, Wait, TypeOK, Record
<1>4. X' \subseteq X /\ e' = e /\ s' <= s
  OBVIOUS
<1> HIDE DEF X, e, s
<1>5. Cardinality(X') <= Cardinality(X) /\ Cardinality(X') \in Nat
  BY <1>2, <1>4, FS_Subset, FS_CardinalityType
<1>6. /\ (n + e) * PerPass \in Int /\ PassLength * (n + (MaxFaults - faults)) \in Int /\ MaxWait \in Int
  <2>1. n + e \in Int /\ PerPass \in Int /\ MaxFaults - faults \in Int
    BY <1>2, WaitConstants DEF TypeOK
  <2>2. PassLength \in Int /\ n + (MaxFaults - faults) \in Int
    BY <2>1, WaitConstants
  <2> QED
    BY <2>1, <2>2, Products, MaxWaitTyped
<1> QED
  BY <1>1, <1>2, <1>3, <1>4, <1>5, <1>6 DEF Within, X, e, s

(* A failure: the pass may leave all of its tasks untried, and the bound   *)
(* allows for one more.                                                    *)
LEMMA FailsPatient ==
  ASSUME TypeOK, TypeOK', Fresh, NEW c \in Controller, NEW t \in Task, Elapsed(job[c]), Elapsed(job[c])',
         Patient(c, t), faults' = faults + 1, TimeLeft(job'[c]) <= TimeLeft(job[c])
  PROVE  Patient(c, t)'
<1> DEFINE X == Remaining(job[c], t)
           A == Ahead(t)
           U == Upcoming(job[c])
           e == Credit(job[c], t)
           s == Wait(t) + TimeLeft(job[c])
<1> SUFFICES ASSUME Overdue(t)'
             PROVE  \E n \in Nat : Within(X, e, s, n)'
  BY DEF Patient
<1>1. Overdue(t) /\ Wait(t)' = Wait(t) /\ A' \subseteq A
  BY AheadShrinks
<1>2. PICK n \in Nat : Within(X, e, s, n)
  BY <1>1 DEF Patient
<1>3. /\ IsFiniteSet(X) /\ Cardinality(X) \in Nat /\ e \in {0, 1} /\ s \in Int
      /\ IsFiniteSet(A) /\ Cardinality(A) \in Nat
  BY <1>1, PatientTypes DEF Overdue
<1>4. s' \in Int /\ s' <= s /\ e' \in {0, 1}
  BY <1>1, <1>3, TimeBounded DEF Overdue, Wait, TypeOK, Record, Credit
<1>5. IsFiniteSet(U) /\ Cardinality(U) <= PerPass /\ Cardinality(U) \in Nat
  BY FewUpcoming, FS_CardinalityType DEF TypeOK
<1>6. A \subseteq X \cup U /\ X' \subseteq A'
  BY DEF Remaining
<1>7. e = 1 => U = {}
  BY DEF Credit, Elapsed, Upcoming, TypeOK, Job
<1>8. /\ faults \in Int /\ MaxFaults \in Int /\ PassLength \in Int /\ PerPass \in Nat /\ MaxWait \in Int
  BY WaitConstants, MaxWaitTyped DEF TypeOK
<1> HIDE DEF X, A, U, e, s
<1>9. /\ Cardinality(X) <= (n + e) * PerPass
      /\ s + PassLength * (n + (MaxFaults - faults)) <= MaxWait
  BY <1>2 DEF Within
<1>10. Cardinality(A) <= Cardinality(X) + Cardinality(U) /\ (U = {} => Cardinality(A) <= Cardinality(X))
  <2>1. /\ IsFiniteSet(X \cup U) /\ Cardinality(X \cup U) <= Cardinality(X) + Cardinality(U)
        /\ Cardinality(X \cup U) \in Nat
    <3>1. /\ IsFiniteSet(X \cup U)
          /\ Cardinality(X \cup U) = Cardinality(X) + Cardinality(U) - Cardinality(X \cap U)
      BY <1>3, <1>5, FS_Union
    <3>2. IsFiniteSet(X \cap U) /\ Cardinality(X \cap U) \in Nat /\ Cardinality(X \cup U) \in Nat
      BY <1>3, <3>1, FS_Intersection, FS_CardinalityType
    <3> QED
      BY <1>3, <1>5, <3>1, <3>2
  <2>2. Cardinality(A) <= Cardinality(X \cup U)
    BY <1>6, <2>1, FS_Subset
  <2>3. U = {} => Cardinality(A) <= Cardinality(X)
    BY <1>3, <1>6, FS_Subset
  <2> QED
    BY <1>3, <1>5, <2>1, <2>2, <2>3
<1>11. IsFiniteSet(X') /\ Cardinality(X') <= Cardinality(A) /\ Cardinality(X') \in Nat
  BY <1>1, <1>3, <1>6, FS_Subset, FS_CardinalityType
<1>12. Cardinality(A) <= n * PerPass + PerPass
  <2>1. (n + 1) * PerPass = n * PerPass + PerPass /\ n * PerPass \in Int
    BY <1>8, Products
  <2>2. CASE e = 1
    <3>1. Cardinality(X) <= (n + 1) * PerPass
      BY <1>9, <2>2
    <3> QED
      BY <1>3, <1>7, <1>8, <1>10, <2>1, <2>2, <3>1
  <2>3. CASE e = 0
    <3>1. Cardinality(X) <= n * PerPass
      BY <1>9, <2>3
    <3> QED
      BY <1>3, <1>5, <1>8, <1>10, <2>1, <3>1
  <2> QED
    BY <1>3, <2>2, <2>3
<1>13. Cardinality(X') <= ((n + 1) + e') * PerPass
  <2>1. (n + 1) * PerPass = n * PerPass + PerPass /\ n * PerPass \in Int
    BY <1>8, Products
  <2>2. ((n + 1) + 1) * PerPass = (n + 1) * PerPass + PerPass
    BY <1>8, Products
  <2>3. Cardinality(X') <= (n + 1) * PerPass
    BY <1>3, <1>8, <1>11, <1>12, <2>1
  <2>4. CASE e' = 1
    <3>1. Cardinality(X') <= ((n + 1) + 1) * PerPass
      BY <1>8, <1>11, <2>1, <2>2, <2>3
    <3> QED
      BY <2>4, <3>1
  <2>5. CASE e' = 0
    <3>1. (n + 1) + e' = n + 1
      BY <2>5
    <3> QED
      BY <2>3, <3>1
  <2> QED
    BY <1>4, <2>4, <2>5
<1>14. s' + PassLength * ((n + 1) + (MaxFaults - faults')) <= MaxWait
  <2>1. (n + 1) + (MaxFaults - faults') = n + (MaxFaults - faults)
    BY <1>8
  <2> DEFINE p == PassLength * (n + (MaxFaults - faults))
  <2>2. p \in Int /\ s + p <= MaxWait
    BY <1>8, <1>9, Products
  <2> HIDE DEF p
  <2>3. s \in Int /\ s' \in Int /\ s' <= s /\ MaxWait \in Int
    BY <1>3, <1>4, <1>8
  <2>4. s' + p <= MaxWait
    <3>1. \A x, y \in Int : x <= y /\ y + p <= MaxWait => x + p <= MaxWait
      BY <2>2, <2>3
    <3> QED
      BY <2>2, <2>3, <3>1
  <2> QED
    BY <2>1, <2>4 DEF p
<1>15. Within(X, e, s, n + 1)'
  BY <1>13, <1>14 DEF Within
<1> QED
  BY <1>15

(* A pass begins: it is one of those that t waits for.                     *)
LEMMA StartPatient ==
  ASSUME TypeOK, TypeOK', Fresh, NEW c \in Controller, NEW t \in Task, Elapsed(job[c]), Elapsed(job[c])',
         Patient(c, t), StartPass(c)
  PROVE  Patient(c, t)'
<1> DEFINE X == Remaining(job[c], t)
           A == Ahead(t)
           e == Credit(job[c], t)
           s == Wait(t) + TimeLeft(job[c])
           w == Wait(t)
<1> SUFFICES ASSUME Overdue(t)'
             PROVE  \E n \in Nat : Within(X, e, s, n)'
  BY DEF Patient
<1>1. Overdue(t) /\ w' = w /\ A' \subseteq A
  BY AheadShrinks
<1>2. PICK n \in Nat : Within(X, e, s, n)
  BY <1>1 DEF Patient
<1>3. /\ job[c].pc = "wait" /\ job[c].fired /\ job'[c].pc = "scan" /\ job'[c].left = PassLimit
      /\ faults' = faults
  BY StartMoves DEF StartPass
<1>4. w \in Int /\ w > StoreDelay
  BY <1>1 DEF Overdue, Wait, TypeOK, Record
<1>5. e = 0 /\ X = A /\ s = w
  <2>1. TimeLeft(job[c]) = 0
    BY <1>3 DEF TimeLeft
  <2> QED
    BY <1>3, <1>4, <2>1 DEF Credit, Remaining, Reaches
<1>6. e' = 1 /\ X' \subseteq A'
  <2>1. Reaches(job[c], t)'
    BY <1>1, <1>3, <1>4, WaitConstants DEF Reaches
  <2> QED
    BY <1>3, <2>1 DEF Credit, Remaining
<1>7. s' \in Int /\ s' <= w + PassLength
  BY <1>1, <1>4, TimeBounded, WaitConstants DEF TypeOK
<1>8. IsFiniteSet(A) /\ Cardinality(A) \in Nat /\ t \in A
  BY <1>1, PatientTypes DEF Overdue, Ahead, Present, TypeOK, Record
<1>9. /\ faults \in Int /\ MaxFaults \in Int /\ PassLength \in Int /\ PerPass \in Nat /\ MaxWait \in Int
  BY WaitConstants, MaxWaitTyped DEF TypeOK
<1> HIDE DEF X, A, e, s, w
<1> DEFINE k == n + (MaxFaults - faults)
<1>10. /\ Cardinality(A) <= n * PerPass
       /\ w + PassLength * k <= MaxWait
  BY <1>2, <1>5 DEF Within
<1>11. n >= 1
  <2>1. Cardinality(A) # 0
    BY <1>8, FS_EmptySet
  <2>2. n # 0
    BY <1>8, <1>9, <1>10, <2>1
  <2> QED
    BY <2>2
<1>12. IsFiniteSet(X') /\ Cardinality(X') <= Cardinality(A) /\ Cardinality(X') \in Nat
  BY <1>1, <1>6, <1>8, FS_Subset, FS_CardinalityType
<1>13. Cardinality(X') <= ((n - 1) + e') * PerPass
  <2>1. (n - 1) + e' = n /\ n * PerPass \in Int
    BY <1>6, <1>9, Products
  <2> QED
    BY <1>8, <1>10, <1>12, <2>1
<1>14. s' + PassLength * ((n - 1) + (MaxFaults - faults')) <= MaxWait
  <2>1. (n - 1) + (MaxFaults - faults') = k - 1 /\ k \in Int
    BY <1>3, <1>9
  <2> HIDE DEF k
  <2>2. (k - 1) * PassLength = k * PassLength - PassLength /\ k * PassLength \in Int
    BY <1>9, <2>1, Products
  <2>3. (k - 1) * PassLength = PassLength * (k - 1) /\ k * PassLength = PassLength * k
    BY <1>9, <2>1
  <2> DEFINE p == PassLength * k
             o == PassLength * (k - 1)
  <2>4. p \in Int /\ o \in Int /\ o = p - PassLength /\ w + p <= MaxWait
    BY <1>9, <1>10, <2>2, <2>3
  <2> HIDE DEF p, o
  <2>5. s' + o <= MaxWait
    <3>1. \A x, y \in Int : x <= y + PassLength /\ y + p <= MaxWait => x + o <= MaxWait
      BY <1>9, <2>4
    <3> QED
      BY <1>4, <1>7, <2>4, <3>1
  <2> QED
    BY <2>1, <2>5 DEF o
<1>15. Within(X, e, s, n - 1)'
  BY <1>13, <1>14 DEF Within
<1> QED
  BY <1>11, <1>15

(* The scan puts PerPass of the tasks up to t among those that the pass    *)
(* has time for, or all of them.                                           *)
LEMMA ScanPatient ==
  ASSUME TypeOK, TypeOK', Fresh, NEW c \in Controller, NEW t \in Task, Elapsed(job[c]), Elapsed(job[c])',
         Patient(c, t), Scan(c)
  PROVE  Patient(c, t)'
<1> DEFINE X == Remaining(job[c], t)
           A == Ahead(t)
           e == Credit(job[c], t)
           s == Wait(t) + TimeLeft(job[c])
           due == {u \in Present : IsDue(u)}
<1> SUFFICES ASSUME Overdue(t)'
             PROVE  \E n \in Nat : Within(X, e, s, n)'
  BY DEF Patient
<1>1. Overdue(t) /\ Wait(t)' = Wait(t) /\ A' \subseteq A
  BY AheadShrinks
<1>2. PICK n \in Nat : Within(X, e, s, n)
  BY <1>1 DEF Patient
<1>3. PICK q \in Orders(due) : job'[c].queue = q
  BY ScanMoves
<1>4. /\ job[c].pc = "scan" /\ job[c].queue = <<>> /\ job[c].tries = 0 /\ job[c].left # 0
      /\ job'[c].pc = "pick" /\ job'[c].tries = 0 /\ job'[c].left = job[c].left
      /\ faults' = faults
  <2>1. job[c].left # 0
    BY ScanMoves, TimeSuffices DEF TypeOK
  <2> QED
    BY <2>1, ScanMoves DEF Elapsed, Scan
<1>5. s' = s
  <2>1. TimeLeft(job[c])' = TimeLeft(job[c])
    BY <1>4, JobFields DEF TimeLeft, Residual, TypeOK
  <2> QED
    BY <1>1, <2>1
<1>6. Reaches(job[c], t)' <=> Reaches(job[c], t)
  BY <1>1, <1>4 DEF Reaches
<1>7. X = A
  <2>1. Upcoming(job[c]) = {}
    BY <1>4 DEF Upcoming
  <2> QED
    BY <2>1 DEF Remaining
<1>8. e' = 0
  BY <1>4 DEF Credit
<1>9. IsFiniteSet(A) /\ Cardinality(A) \in Nat
  BY <1>1, PatientTypes DEF Overdue
<1>10. /\ Cardinality(X) <= (n + e) * PerPass
       /\ s + PassLength * (n + (MaxFaults - faults)) <= MaxWait
  BY <1>2 DEF Within
<1>11. Cardinality(X') <= n * PerPass
  <2>1. CASE ~ Reaches(job[c], t)
    <3>1. e = 0 /\ X' \subseteq A
      BY <1>1, <1>6, <2>1 DEF Credit, Remaining
    <3> HIDE DEF X, A, e
    <3>2. Cardinality(X') \in Nat /\ Cardinality(X') <= Cardinality(A)
      BY <1>9, <3>1, FS_Subset, FS_CardinalityType
    <3>3. n + e = n /\ n * PerPass \in Int
      BY <3>1, WaitConstants, Products
    <3> QED
      BY <1>7, <1>9, <1>10, <3>2, <3>3
  <2>2. CASE Reaches(job[c], t)
    <3> DEFINE U == First(q, Cardinality(due))
    <3>1. A = UpTo(due, task[t].due)
      BY <1>1, WaitConstants DEF UpTo, Ahead, Present, IsDue, Overdue, Wait, TypeOK, Record
    <3>2. A \subseteq U \/ (U \subseteq A /\ IsFiniteSet(U) /\ Cardinality(U) = PerPass)
      <4>1. due \in SUBSET Task /\ due \subseteq Present /\ task[t].due \in Int
            /\ task \in [Task -> Record \cup {NoTask}]
        BY <1>1 DEF Present, Overdue, TypeOK, Record
      <4> HIDE DEF due, A
      <4> QED
        BY <3>1, <4>1, OldestFirst
    <3>3. X' \subseteq A \ U
      <4>1. DOMAIN q = 1 .. Cardinality(due) /\ q \in Seq(Task)
        <5>1. due \in SUBSET Task
          BY DEF Present
        <5> HIDE DEF due
        <5>2. q \in Seq(Task) /\ q \in [1 .. Cardinality(due) -> due]
          BY <5>1, OrdersAreSequences DEF Orders
        <5> QED
          BY <5>2
      <4>2. Len(q) \in Nat /\ 1 .. Len(q) = 1 .. Cardinality(due)
        BY <4>1
      <4> HIDE DEF due
      <4>3. U \subseteq Upcoming(job[c])'
        <5>1. ASSUME NEW i \in 1 .. Cardinality(due), i <= PerPass
              PROVE  q[i] \in Upcoming(job[c])'
          <6>1. i \in 1 .. Len(q) /\ i \in Nat /\ i + 0 = i
            <7>1. i \in 1 .. Len(q)
              BY <4>2, Zenon
            <7>2. Len(q) \in Nat
              BY <4>2
            <7> QED
              BY <7>1, <7>2
          <6> DEFINE j == job'[c]
          <6>2. j.queue = q /\ j.tries = 0
            BY <1>3, <1>4
          <6> HIDE DEF j
          <6>3. i \in 1 .. Len(j.queue) /\ j.queue[i] = q[i]
            BY <6>1, <6>2
          <6>4. i + j.tries <= PerPass
            BY <5>1, <6>1, <6>2
          <6> QED
            BY <6>3, <6>4 DEF Upcoming, j
        <5> QED
          BY <5>1 DEF First
      <4> QED
        BY <1>1, <1>6, <2>2, <4>3 DEF Remaining
    <3>4. e = 1
      BY <1>4, <2>2 DEF Credit
    <3> HIDE DEF X, A, e, U
    <3>5. n * PerPass \in Nat /\ (n + 1) * PerPass = n * PerPass + PerPass /\ PerPass \in Nat
      BY WaitConstants, Products
    <3>6. Cardinality(A) <= n * PerPass + PerPass
      <4>1. n + e = n + 1
        BY <3>4
      <4> QED
        BY <1>7, <1>10, <3>5, <4>1
    <3>7. CASE A \subseteq U
      <4>1. X' = {}
        BY <3>3, <3>7
      <4>2. Cardinality(X') = 0
        BY <4>1, FS_EmptySet
      <4> QED
        BY <3>5, <4>2
    <3>8. CASE U \subseteq A /\ IsFiniteSet(U) /\ Cardinality(U) = PerPass
      <4>1. IsFiniteSet(A \ U) /\ Cardinality(A \ U) = Cardinality(A) - PerPass
        <5>1. A \cap U = U
          BY <3>8
        <5> QED
          BY <1>9, <3>8, <5>1, FS_Difference
      <4>2. Cardinality(X') \in Nat /\ Cardinality(X') <= Cardinality(A \ U)
        BY <3>3, <4>1, FS_Subset, FS_CardinalityType
      <4> QED
        BY <1>9, <3>5, <3>6, <4>1, <4>2
    <3> QED
      BY <3>2, <3>7, <3>8
  <2> QED
    BY <2>1, <2>2
<1> HIDE DEF X, A, e, s
<1>12. n + e' = n
  BY <1>8
<1>13. Within(X, e, s, n)'
  BY <1>4, <1>5, <1>10, <1>11, <1>12 DEF Within
<1> QED
  BY <1>13

-----------------------------------------------------------------------------
(* A step of a pass accounts for the time, and takes none itself.          *)
LEMMA PassElapses ==
  ASSUME TypeOK, TypeOK', NEW c \in Controller, Elapsed(job[c]), Pass(c)
  PROVE  Elapsed(job[c])' /\ (~ StartPass(c) => TimeLeft(job'[c]) <= TimeLeft(job[c]))
<1> DEFINE j == job[c]
           k == job'[c]
           s == j.tries * PerAttempt
<1>1. j \in Job /\ k \in Job
  BY DEF TypeOK
<1>2. /\ j.left \in Nat /\ j.left <= PassLimit /\ j.slow \in Nat /\ j.slow <= StoreDelay
      /\ j.timer \in Nat /\ j.ticker \in Nat /\ j.ticker <= Interval /\ j.tries \in Nat /\ s \in Nat
      /\ k.left \in Nat /\ k.slow \in Nat /\ k.slow <= StoreDelay /\ k.fired \in BOOLEAN
  BY <1>1, JobFields
<1>3. /\ StoreDelay \in Nat /\ PassLimit \in Nat /\ Timeout \in Nat /\ PerAttempt = Timeout + 2 * StoreDelay
      /\ Interval \in Nat \ {0}
  BY WaitConstants, ConfigAssumption DEF Loads
<1>4. 0 * PerAttempt = 0 /\ (j.tries + 1) * PerAttempt = s + PerAttempt
  BY <1>2, WaitConstants, Products
<1>5. CASE StartPass(c)
  <2>1. j.pc = "wait" /\ k.pc = "scan" /\ k.left = PassLimit /\ k.slow = 0 /\ k.tries = 0 /\ k.queue = j.queue
    BY <1>5, StartMoves
  <2>2. k.queue = <<>>
    BY <2>1 DEF Elapsed
  <2> HIDE DEF j, k
  <2>3. Elapsed(k)
    BY <1>3, <2>1, <2>2 DEF Elapsed
  <2> QED
    BY <1>5, <2>3 DEF k
<1>6. CASE Scan(c)
  <2>1. j.pc = "scan" /\ k.pc = "pick" /\ k.tries = j.tries /\ k.left = j.left
    BY <1>6, ScanMoves
  <2>2. j.tries = 0 /\ PassLimit - j.left <= j.slow /\ j.left # 0
    BY <1>1, <2>1, TimeSuffices DEF Elapsed
  <2> HIDE DEF j, k, s
  <2>3. Elapsed(k)
    <3>1. PassLimit - k.left <= StoreDelay + k.tries * PerAttempt
      BY <1>2, <1>3, <1>4, <2>1, <2>2
    <3> QED
      BY <2>1, <3>1 DEF Elapsed
  <2>4. TimeLeft(k) = TimeLeft(j) /\ TimeLeft(j) \in Int
    BY <1>2, <1>3, <2>1, <2>2 DEF TimeLeft, Residual
  <2> QED
    BY <2>3, <2>4 DEF j, k
<1>7. CASE ScanFails(c) \/ PassCut(c) \/ PassDone(c)
  <2>1. /\ j.pc # "wait" /\ k.pc = "wait" /\ k.queue = <<>> /\ k.fired = j.fired
        /\ k.ticker = IF j.ticker = 0 THEN Interval ELSE j.ticker
    BY <1>7, EndMoves
  <2>2. TimeLeft(j) >= Interval /\ TimeLeft(j) \in Nat
    BY <1>1, <2>1, TimeBounded
  <2> HIDE DEF j, k, s
  <2>3. k.ticker \in Nat /\ k.ticker > 0 /\ k.ticker <= Interval
    BY <1>2, <1>3, <2>1
  <2>4. Elapsed(k)
    BY <2>1, <2>3 DEF Elapsed
  <2>5. TimeLeft(k) <= TimeLeft(j)
    BY <1>3, <2>1, <2>2, <2>3 DEF TimeLeft
  <2> QED
    BY <2>4, <2>5 DEF j, k
<1>8. CASE Pick(c)
  <2>1. /\ j.pc = "pick" /\ j.left > 0 /\ k.pc = "claim" /\ k.tries = j.tries + 1
        /\ k.slow = 0 /\ k.left = j.left
    BY <1>8, PickMoves
  <2>2. PassLimit - j.left <= StoreDelay + s
    BY <2>1 DEF Elapsed
  <2> HIDE DEF j, k, s
  <2>3. Elapsed(k)
    <3>1. k.tries >= 1 /\ PassLimit - k.left + PerAttempt <= StoreDelay + (s + PerAttempt) + k.slow
      BY <1>2, <1>3, <2>1, <2>2
    <3>2. k.tries * PerAttempt = s + PerAttempt
      BY <1>4, <2>1
    <3> QED
      BY <2>1, <3>1, <3>2 DEF Elapsed
  <2>4. TimeLeft(k) = TimeLeft(j) /\ TimeLeft(j) \in Int
    BY <1>2, <1>3, <2>1 DEF TimeLeft, Residual
  <2> QED
    BY <2>3, <2>4 DEF j, k
<1>9. CASE Claim(c) \/ Answered(c) \/ Unanswered(c) \/ Save(c) \/ Drop(c)
  <2>1. /\ k.queue = j.queue /\ k.tries = j.tries /\ k.left = j.left
        /\ \/ j.pc = "claim" /\ (k.pc = "pick" \/ (k.pc = "call" /\ k.timer = Timeout))
           \/ j.pc = "call" /\ k.pc \in {"save", "drop"} /\ k.slow = 0
           \/ j.pc \in {"save", "drop"} /\ k.pc = "pick"
    BY <1>9, AttemptMoves DEF Same
  <2>2. /\ j.pc = "claim" => PassLimit - j.left + PerAttempt <= StoreDelay + s + j.slow
        /\ j.pc = "call" => PassLimit - j.left + PerAttempt <= 2 * StoreDelay + s + Timeout - j.timer
        /\ j.pc \in {"save", "drop"} =>
             PassLimit - j.left + PerAttempt <= 2 * StoreDelay + s + Timeout + j.slow
    BY DEF Elapsed
  <2>3. k.tries * PerAttempt = s
    BY <2>1
  <2> HIDE DEF j, k, s
  <2>4. /\ k.pc = "pick" => PassLimit - k.left <= StoreDelay + s
        /\ k.pc = "call" => PassLimit - k.left + PerAttempt <= 2 * StoreDelay + s + Timeout - k.timer
        /\ k.pc \in {"save", "drop"} =>
             PassLimit - k.left + PerAttempt <= 2 * StoreDelay + s + Timeout + k.slow
    BY <1>2, <1>3, <2>1, <2>2
  <2>5. Elapsed(k)
    BY <2>1, <2>3, <2>4 DEF Elapsed
  <2>6. Residual(k) <= Residual(j) /\ Residual(k) \in Int /\ Residual(j) \in Int
    BY <1>2, <1>3, <2>1 DEF Residual
  <2>7. TimeLeft(k) <= TimeLeft(j)
    BY <1>3, <2>1, <2>6 DEF TimeLeft
  <2> QED
    BY <2>5, <2>7 DEF j, k
<1> QED
  BY <1>5, <1>6, <1>7, <1>8, <1>9 DEF Pass

(* What a pass still has to attempt changes with the scan and the claims   *)
(* only; it ends when there is nothing left that it had time for, or fails.*)
LEMMA PickKeeps ==
  ASSUME TypeOK, NEW c \in Controller, Pick(c)
  PROVE  Upcoming(job'[c]) = Upcoming(job[c])
<1> DEFINE j == job[c]
           k == job'[c]
           q == j.queue
           I == {i \in 1 .. Len(q) : i + j.tries <= PerPass}
           K == {i \in 1 .. Len(k.queue) : i + k.tries <= PerPass}
<1>1. /\ j.pc = "pick" /\ q # <<>> /\ k.pc = "claim" /\ k.now = Head(q) /\ k.queue = Tail(q)
      /\ k.tries = j.tries + 1
  BY PickMoves
<1>2. q \in Seq(Task) /\ Len(q) \in Nat /\ j.tries \in Nat /\ PerPass \in Nat
  BY JobFields, WaitConstants DEF TypeOK
<1> HIDE DEF j, k, q
<1>3. /\ Len(q) >= 1 /\ Head(q) = q[1] /\ Len(Tail(q)) = Len(q) - 1
      /\ \A i \in 1 .. Len(q) - 1 : Tail(q)[i] = q[i + 1]
  BY <1>1, <1>2
<1>4. Upcoming(j) = {q[i] : i \in I}
  BY <1>1 DEF Upcoming, q
<1>5. Upcoming(k) = {Tail(q)[i] : i \in K} \cup (IF k.tries <= PerPass THEN {q[1]} ELSE {})
  BY <1>1, <1>3 DEF Upcoming
<1>6. ASSUME NEW i \in I
      PROVE  q[i] \in Upcoming(k)
  <2>1. i \in 1 .. Len(q) /\ i + j.tries <= PerPass
    OBVIOUS
  <2>2. CASE i = 1
    BY <1>1, <1>2, <1>5, <2>1, <2>2
  <2>3. CASE i # 1
    <3>1. i - 1 \in 1 .. Len(q) - 1 /\ (i - 1) + (j.tries + 1) <= PerPass /\ (i - 1) + 1 = i
      BY <1>2, <2>1, <2>3
    <3>2. i - 1 \in K /\ Tail(q)[i - 1] = q[i]
      BY <1>1, <1>3, <3>1
    <3> HIDE DEF K
    <3> QED
      BY <1>5, <3>2
  <2> QED
    BY <2>2, <2>3
<1>7. ASSUME NEW i \in K
      PROVE  Tail(q)[i] \in Upcoming(j)
  <2>1. i \in 1 .. Len(q) - 1 /\ i + (j.tries + 1) <= PerPass
    BY <1>1, <1>3
  <2>2. i + 1 \in 1 .. Len(q) /\ (i + 1) + j.tries <= PerPass
    BY <1>2, <2>1
  <2>3. Tail(q)[i] = q[i + 1] /\ i + 1 \in I
    BY <1>3, <2>1, <2>2
  <2> HIDE DEF I
  <2> QED
    BY <1>4, <2>3
<1>8. k.tries <= PerPass => q[1] \in Upcoming(j)
  <2>1. k.tries <= PerPass => 1 \in I
    BY <1>1, <1>2, <1>3
  <2> HIDE DEF I
  <2> QED
    BY <1>4, <2>1
<1> HIDE DEF I, K
<1>9. Upcoming(j) \subseteq Upcoming(k)
  BY <1>4, <1>6
<1>10. Upcoming(k) \subseteq Upcoming(j)
  BY <1>5, <1>7, <1>8
<1> QED
  BY <1>9, <1>10 DEF j, k

LEMMA PassPlans ==
  ASSUME TypeOK, NEW c \in Controller, Elapsed(job[c]), Pass(c), ~ Scan(c)
  PROVE  /\ Upcoming(job'[c]) \subseteq Upcoming(job[c])
         /\ Upcoming(job'[c]) = {} \/ job'[c].left = job[c].left
         /\ Claim(c) => Upcoming(job[c]) \subseteq Upcoming(job'[c]) \cup {job[c].now}
         /\ ~ Claim(c) /\ ~ ScanFails(c) => Upcoming(job[c]) = Upcoming(job'[c])
<1> DEFINE j == job[c]
           k == job'[c]
<1>0. j \in Job
  BY DEF TypeOK
<1>1. CASE Pick(c)
  <2>1. Upcoming(k) = Upcoming(j) /\ k.left = j.left
    BY <1>1, PickKeeps, PickMoves
  <2> QED
    BY <1>1, <2>1 DEF Pick, Claim, At
<1>2. CASE Claim(c) \/ Answered(c) \/ Unanswered(c) \/ Save(c) \/ Drop(c)
  <2>1. /\ k.queue = j.queue /\ k.tries = j.tries /\ k.left = j.left /\ k.pc # "claim"
        /\ j.pc = "claim" <=> Claim(c)
    BY <1>2, AttemptMoves DEF Same, Claim, At
  <2> HIDE DEF j, k
  <2>2. /\ Upcoming(k) \subseteq Upcoming(j) /\ Upcoming(j) \subseteq Upcoming(k) \cup {j.now}
        /\ j.pc # "claim" => Upcoming(j) = Upcoming(k)
    BY <2>1 DEF Upcoming
  <2> QED
    BY <2>1, <2>2 DEF j, k
<1>3. CASE StartPass(c)
  <2>1. j.pc = "wait" /\ k.pc = "scan" /\ k.queue = j.queue /\ j.queue = <<>>
    BY <1>3, StartMoves DEF Elapsed
  <2>2. Upcoming(j) = {} /\ Upcoming(k) = {}
    BY <2>1 DEF Upcoming
  <2> QED
    BY <2>1, <2>2 DEF Claim, At
<1>4. CASE ScanFails(c) \/ PassCut(c) \/ PassDone(c)
  <2>1. /\ k.pc = "wait" /\ k.queue = <<>> /\ j.pc # "claim"
        /\ PassCut(c) => j.left = 0
        /\ PassDone(c) => j.pc = "pick" /\ (j.queue = <<>> \/ j.tries >= Batch)
    BY <1>4, EndMoves
  <2>2. Upcoming(k) = {}
    BY <2>1 DEF Upcoming
  <2>3. PassCut(c) => Upcoming(j) = {}
    BY <1>0, <2>1, TimeSuffices
  <2>4. PassDone(c) => Upcoming(j) = {}
    <3>1. /\ Len(j.queue) \in Nat /\ j.tries \in Nat /\ PerPass \in Nat /\ PerPass <= Batch /\ Batch \in Nat
      BY <1>0, JobFields, WaitConstants, ConfigAssumption DEF Loads
    <3> HIDE DEF j
    <3>2. j.queue = <<>> \/ j.tries >= Batch => {i \in 1 .. Len(j.queue) : i + j.tries <= PerPass} = {}
      BY <3>1
    <3> QED
      BY <2>1, <3>2 DEF Upcoming
  <2> QED
    BY <1>4, <2>1, <2>2, <2>3, <2>4 DEF Claim, At
<1> QED
  BY <1>1, <1>2, <1>3, <1>4 DEF Pass

-----------------------------------------------------------------------------
LEMMA UpcomingTasks ==
  ASSUME BacklogInv, NEW c \in Controller
  PROVE  Upcoming(job[c]) \subseteq Task
<1>1. /\ job[c].queue \in Seq(Task)
      /\ job[c].pc = "claim" => job[c].now \in Task
  BY DEF BacklogInv, ClaimInv, Comings
<1> QED
  BY <1>1 DEF Upcoming

(* What a pass knew of the records it still has to attempt, it knows after *)
(* a step that does not add to them.                                       *)
LEMMA StaysKnown ==
  ASSUME BacklogInv, BacklogInv', TypeOK, TypeOK', Fresh, NEW c \in Controller, Known(c), KeepsHold(c),
         Upcoming(job'[c]) \subseteq Upcoming(job[c]),
         Upcoming(job'[c]) = {} \/ job'[c].left = job[c].left
  PROVE  Known(c)'
<1> SUFFICES ASSUME NEW u \in Upcoming(job'[c])
             PROVE  c \in holds'[u] \/ task'[u] = NoTask \/ Wait(u)' <= StoreDelay + PassLimit - job'[c].left
  BY DEF Known
<1>1. u \in Upcoming(job[c]) /\ job'[c].left = job[c].left /\ u \in Task
  BY UpcomingTasks
<1>2. c \in holds[u] \/ task[u] = NoTask \/ Wait(u) <= StoreDelay + PassLimit - job[c].left
  BY <1>1 DEF Known
<1>3. /\ StoreDelay \in Nat /\ PassLimit \in Nat /\ job[c].left \in Nat /\ job[c].left <= PassLimit
      /\ task'[u] # NoTask => Wait(u)' \in Int
  BY <1>1, WaitConstants, JobFields DEF TypeOK, Wait, Record
<1>4. c \in holds[u] => c \in holds'[u] \/ task'[u] = NoTask \/ Wait(u)' <= StoreDelay
  BY <1>1 DEF KeepsHold
<1>5. task'[u] = task[u] \/ task'[u] = NoTask \/ Wait(u)' <= StoreDelay
  BY <1>1 DEF Fresh
<1>6. task'[u] = task[u] => Wait(u)' = Wait(u)
  BY DEF Wait
<1> QED
  BY <1>1, <1>2, <1>3, <1>4, <1>5, <1>6

LEMMA ScanKnows ==
  ASSUME TypeOK, NEW c \in Controller, Scan(c)
  PROVE  Known(c)'
<1> DEFINE due == {t \in Present : IsDue(t)}
<1>1. PICK q \in Orders(due) : job'[c].queue = q
  BY ScanMoves
<1>2. job'[c].pc = "pick"
  BY ScanMoves
<1>3. due \in SUBSET Task
  BY DEF Present
<1>4. holds' = [t \in Task |-> IF t \in due THEN holds[t] \cup {c} ELSE holds[t] \ {c}]
  BY DEF Scan
<1> HIDE DEF due
<1>5. q \in Seq(Task) /\ q \in [1 .. Cardinality(due) -> due]
  BY <1>3, OrdersAreSequences DEF Orders
<1>6. \A i \in 1 .. Len(q) : q[i] \in due
  <2>1. DOMAIN q = 1 .. Len(q)
    BY <1>5
  <2>2. \A i \in DOMAIN q : q[i] \in due
    BY <1>5
  <2> QED
    BY <2>1, <2>2
<1>7. Upcoming(job'[c]) \subseteq due
  BY <1>1, <1>2, <1>6 DEF Upcoming
<1> QED
  BY <1>3, <1>4, <1>7 DEF Known

(* A claim that does not fail leaves a record that is not in the way.      *)
LEMMA ClaimTakes ==
  ASSUME BacklogInv, TypeOK, TypeOK', NEW c \in Controller, Claim(c), faults' = faults,
         Elapsed(job[c]), Known(c), NEW u \in Upcoming(job[c]), u = job[c].now
  PROVE  task'[u] = NoTask \/ Wait(u)' <= StoreDelay + PassLimit - job[c].left
<1> DEFINE j == job[c]
<1>1. /\ j.slow \in 0 .. StoreDelay /\ u \in Task /\ (c \in holds[u] => task[u] # NoTask)
      /\ task \in [Task -> Record \cup {NoTask}]
  BY DEF BacklogInv, ClaimInv, JobShapes, JobShape, Comings, TaskShapes, Claim, At
<1>2. j.left # 0 /\ j.left \in Nat /\ j.left <= PassLimit /\ PassLimit \in Nat /\ StoreDelay \in Nat
  BY TimeSuffices, JobFields, WaitConstants DEF TypeOK
<1>3. c \notin holds[u] => task[u] = NoTask \/ Wait(u) <= StoreDelay + PassLimit - j.left
  BY DEF Known
<1>4. \/ c \in holds[u] /\ task' = [task EXCEPT ![u] = Claimed(u, j.slow)]
      \/ c \notin holds[u] /\ task' = task
  <2>1. ~ StoreFails(c)
    BY <1>2 DEF StoreFails, Fault, TypeOK
  <2> QED
    BY <2>1 DEF Claim, Write, At
<1>5. CASE c \in holds[u] /\ task' = [task EXCEPT ![u] = Claimed(u, j.slow)]
  <2>1. -(Claimed(u, j.slow).due) <= StoreDelay /\ Claimed(u, j.slow).due \in Int
    BY <1>1, <1>5, WritesFresh, WritesShape DEF BacklogInv, ClaimInv, Record
  <2>2. task'[u] = Claimed(u, j.slow)
    BY <1>1, <1>5
  <2>3. Wait(u)' = -(Claimed(u, j.slow).due)
    BY <2>2 DEF Wait
  <2> QED
    BY <1>2, <2>1, <2>3
<1>6. CASE c \notin holds[u] /\ task' = task
  BY <1>3, <1>6 DEF Wait
<1> QED
  BY <1>4, <1>5, <1>6

-----------------------------------------------------------------------------
(* No step of its own keeps a pass from getting to t.                      *)
LEMMA PassPatient ==
  ASSUME BacklogInv, TypeOK, TypeOK', Fresh, NEW c \in Controller, NEW t \in Task,
         Elapsed(job[c]), Known(c), Patient(c, t), Pass(c)
  PROVE  Patient(c, t)'
<1>1. Elapsed(job[c])' /\ (~ StartPass(c) => TimeLeft(job'[c]) <= TimeLeft(job[c]))
  BY PassElapses
<1>2. CASE StartPass(c)
  BY <1>1, <1>2, StartPatient
<1>3. CASE Scan(c)
  BY <1>1, <1>3, ScanPatient
<1>4. CASE ~ StartPass(c) /\ faults' # faults
  BY <1>1, <1>4, OthersStay, FailsPatient
<1>5. CASE ~ StartPass(c) /\ ~ Scan(c) /\ faults' = faults
  <2> DEFINE j == job[c]
             k == job'[c]
  <2>1. ~ ScanFails(c)
    <3>1. ScanFails(c) => j.pc = "scan" /\ j.left = 0
      BY <1>5, EndMoves DEF TypeOK
    <3> QED
      BY <3>1, TimeSuffices DEF TypeOK
  <2>2. /\ Upcoming(k) \subseteq Upcoming(j)
        /\ Claim(c) => Upcoming(j) \subseteq Upcoming(k) \cup {j.now}
        /\ ~ Claim(c) => Upcoming(j) = Upcoming(k)
    BY <1>5, <2>1, PassPlans
  <2>3. /\ j.pc \notin {"wait", "scan"} /\ k.pc # "scan"
        /\ \/ PassCut(c) \/ PassDone(c)
           \/ k.left = j.left /\ k.pc # "wait"
    <3>1. CASE PassCut(c) \/ PassDone(c)
      BY <3>1, EndMoves
    <3>2. CASE Pick(c)
      BY <3>2, PickMoves
    <3>3. CASE Claim(c) \/ Answered(c) \/ Unanswered(c) \/ Save(c) \/ Drop(c)
      BY <3>3, AttemptMoves DEF Same
    <3> QED
      BY <1>5, <2>1, <3>1, <3>2, <3>3 DEF Pass
  <2>4. ASSUME Overdue(t)'
        PROVE  /\ Overdue(t) /\ Wait(t)' + TimeLeft(job'[c]) <= Wait(t) + TimeLeft(job[c])
               /\ Remaining(job[c], t)' \subseteq Remaining(job[c], t)
               /\ Credit(job[c], t)' = Credit(job[c], t)
    <3>1. Overdue(t) /\ Wait(t)' = Wait(t) /\ Ahead(t)' \subseteq Ahead(t)
      BY <2>4, AheadShrinks
    <3>2. Wait(t) \in Int /\ TimeLeft(job[c]) \in Int /\ TimeLeft(job'[c]) \in Int
      BY <1>1, <3>1, TimeBounded DEF TypeOK, Overdue, Wait, Record
    <3>3. Credit(job[c], t)' = Credit(job[c], t)
      BY <2>3 DEF Credit
    <3>4. CASE PassCut(c) \/ PassDone(c)
      <4>1. Upcoming(k) = {} /\ Upcoming(j) = Upcoming(k)
        <5>1. k.pc = "wait" /\ k.queue = <<>> /\ ~ Claim(c)
          BY <2>3, <3>4, EndMoves DEF Claim, At, PassCut, PassDone
        <5>2. Upcoming(k) = {}
          BY <5>1 DEF Upcoming
        <5> QED
          BY <2>2, <5>1, <5>2
      <4>2. Remaining(job[c], t) = Ahead(t)
        BY <4>1 DEF Remaining
      <4>3. Remaining(job[c], t)' \subseteq Ahead(t)'
        BY DEF Remaining
      <4> QED
        BY <1>1, <1>5, <3>1, <3>2, <3>3, <4>2, <4>3
    <3>5. CASE k.left = j.left /\ k.pc # "wait"
      <4>1. Reaches(job[c], t)' <=> Reaches(job[c], t)
        BY <2>3, <3>1, <3>5 DEF Reaches
      <4>2. CASE ~ Reaches(job[c], t)
        <5>1. Remaining(job[c], t)' = Ahead(t)' /\ Remaining(job[c], t) = Ahead(t)
          BY <4>1, <4>2 DEF Remaining
        <5> QED
          BY <1>1, <1>5, <3>1, <3>2, <3>3, <5>1
      <4>3. CASE Reaches(job[c], t)
        <5>1. Remaining(job[c], t)' = Ahead(t)' \ Upcoming(k) /\ Remaining(job[c], t) = Ahead(t) \ Upcoming(j)
          BY <4>1, <4>3 DEF Remaining
        <5>2. ASSUME NEW u \in Ahead(t)', u \notin Upcoming(k), u \in Upcoming(j)
              PROVE  FALSE
          <6>1. Claim(c) /\ u = j.now
            BY <2>2, <5>2
          <6>2. task'[u] = NoTask \/ Wait(u)' <= StoreDelay + PassLimit - j.left
            BY <1>5, <5>2, <6>1, ClaimTakes
          <6>3. u \in Task /\ task'[u] # NoTask /\ task'[u].due <= task'[t].due
            BY <5>2 DEF Ahead, Present
          <6>4. Wait(u)' >= Wait(t)' /\ Wait(u)' \in Int
            BY <2>4, <6>3 DEF Wait, TypeOK, Record, Overdue
          <6>5. Wait(t) > StoreDelay + PassLimit - j.left
            BY <4>3 DEF Reaches
          <6>6. StoreDelay \in Nat /\ PassLimit \in Nat /\ j.left \in Nat
            BY JobFields, WaitConstants DEF TypeOK
          <6> QED
            BY <3>1, <3>2, <6>2, <6>3, <6>4, <6>5, <6>6
        <5>3. Remaining(job[c], t)' \subseteq Remaining(job[c], t)
          BY <3>1, <5>1, <5>2
        <5> QED
          BY <1>1, <1>5, <3>1, <3>2, <3>3, <5>3
      <4> QED
        BY <4>2, <4>3
    <3> QED
      BY <2>3, <3>4, <3>5
  <2> QED
    BY <1>1, <1>5, <2>4, StaysPatient
<1> QED
  BY <1>2, <1>3, <1>4, <1>5 DEF StartPass

LEMMA OtherPatient ==
  ASSUME TypeOK, TypeOK', Fresh, NEW c \in Controller, NEW t \in Task, Elapsed(job[c]),
         Patient(c, t), job'[c] = job[c], faults' = faults \/ faults' = faults + 1
  PROVE  Patient(c, t)'
<1>1. Elapsed(job[c])'
  BY DEF Elapsed
<1>2. TimeLeft(job'[c]) = TimeLeft(job[c]) /\ TimeLeft(job[c]) \in Int
  BY TimeBounded DEF TypeOK
<1>3. CASE faults' = faults
  <2>1. ASSUME Overdue(t)'
        PROVE  /\ Overdue(t) /\ Wait(t)' + TimeLeft(job'[c]) <= Wait(t) + TimeLeft(job[c])
               /\ Remaining(job[c], t)' \subseteq Remaining(job[c], t)
               /\ Credit(job[c], t)' = Credit(job[c], t)
    <3>1. Overdue(t) /\ Wait(t)' = Wait(t) /\ Ahead(t)' \subseteq Ahead(t)
      BY <2>1, AheadShrinks
    <3>2. Wait(t) \in Int
      BY <3>1 DEF TypeOK, Overdue, Wait, Record
    <3>3. Reaches(job[c], t)' <=> Reaches(job[c], t)
      BY <3>1 DEF Reaches
    <3>4. Upcoming(job[c])' = Upcoming(job[c])
      BY DEF Upcoming
    <3>5. Credit(job[c], t)' = Credit(job[c], t) /\ Remaining(job[c], t)' \subseteq Remaining(job[c], t)
      BY <3>1, <3>3, <3>4 DEF Credit, Remaining
    <3> QED
      BY <1>2, <3>1, <3>2, <3>5
  <2> QED
    BY <1>1, <1>3, <2>1, StaysPatient
<1>4. CASE faults' = faults + 1
  BY <1>1, <1>2, <1>4, FailsPatient
<1> QED
  BY <1>3, <1>4

LEMMA CrashPatient ==
  ASSUME TypeOK, TypeOK', Fresh, NEW c \in Controller, NEW t \in Task, Elapsed(job[c]),
         Patient(c, t), Crash(c)
  PROVE  Patient(c, t)' /\ Elapsed(job[c])' /\ Upcoming(job'[c]) = {}
<1>1. /\ job'[c].pc = "wait" /\ job'[c].queue = <<>> /\ job'[c].fired /\ faults' = faults + 1
  BY CrashMoves
<1>2. Elapsed(job[c])' /\ Upcoming(job'[c]) = {} /\ TimeLeft(job'[c]) = 0
  BY <1>1 DEF Elapsed, Upcoming, TimeLeft
<1>3. TimeLeft(job[c]) \in Nat
  BY TimeBounded DEF TypeOK
<1> QED
  BY <1>1, <1>2, <1>3, FailsPatient

-----------------------------------------------------------------------------
(* A unit of time brings every pass, and the next tick, nearer by one.     *)
LEMMA TickElapses ==
  ASSUME NEW j \in Job, Elapsed(j), MayWait(j)
  PROVE  /\ Elapsed(Later(j)) /\ TimeLeft(Later(j)) <= TimeLeft(j) - 1
         /\ Later(j).pc = j.pc /\ Upcoming(Later(j)) = Upcoming(j)
         /\ Later(j).left = IF j.left = 0 THEN 0 ELSE j.left - 1
<1> DEFINE k == Later(j)
           s == j.tries * PerAttempt
<1>1. /\ k.pc = j.pc /\ k.queue = j.queue /\ k.tries = j.tries /\ k.now = j.now
      /\ k.left = Minus(j.left) /\ k.timer = Minus(j.timer)
      /\ k.slow = IF j.pc \in {"scan", "claim", "save", "drop"} THEN j.slow + 1 ELSE 0
      /\ k.ticker = IF j.ticker = 1 THEN Interval ELSE Minus(j.ticker)
      /\ k.fired = (j.fired \/ j.ticker = 1)
  BY DEF Later, Job
<1>2. /\ j.left \in Nat /\ j.left <= PassLimit /\ j.slow \in Nat /\ j.slow <= StoreDelay
      /\ j.timer \in Nat /\ j.ticker \in Nat /\ j.ticker <= Interval /\ s \in Nat /\ j.fired \in BOOLEAN
  BY JobFields
<1>3. /\ StoreDelay \in Nat /\ PassLimit \in Nat /\ Timeout \in Nat /\ PerAttempt \in Nat
      /\ Interval \in Nat \ {0}
  BY WaitConstants, ConfigAssumption DEF Loads
<1>4. \/ j.pc = "wait" /\ ~ j.fired
      \/ j.pc \in {"scan", "claim", "save", "drop"} /\ j.slow < StoreDelay
      \/ j.pc = "call" /\ j.timer > 0 /\ j.left > 0
  BY DEF MayWait
<1>5. Upcoming(k) = Upcoming(j)
  <2> HIDE DEF k
  <2> QED
    BY <1>1 DEF Upcoming
<1>6. k.tries * PerAttempt = s
  BY <1>1
<1>7. /\ j.pc = "wait" /\ ~ j.fired => j.ticker > 0
      /\ j.pc \in {"wait", "scan"} => j.queue = <<>>
      /\ j.pc = "scan" => j.tries = 0 /\ PassLimit - j.left <= j.slow
      /\ j.pc = "claim" => j.tries >= 1 /\ PassLimit - j.left + PerAttempt <= StoreDelay + s + j.slow
      /\ j.pc = "call" => PassLimit - j.left + PerAttempt <= 2 * StoreDelay + s + Timeout - j.timer
      /\ j.pc \in {"save", "drop"} =>
           PassLimit - j.left + PerAttempt <= 2 * StoreDelay + s + Timeout + j.slow
  BY DEF Elapsed
<1> HIDE DEF k, s
<1>8. k.left = IF j.left = 0 THEN 0 ELSE j.left - 1
  BY <1>1 DEF Minus
<1>9. CASE j.pc = "wait"
  <2>1. j.fired = FALSE /\ j.ticker > 0
    BY <1>4, <1>7, <1>9
  <2>2. /\ j.ticker = 1 => k.fired
        /\ j.ticker # 1 => ~ k.fired /\ k.ticker = j.ticker - 1 /\ k.ticker > 0
    <3>1. k.fired <=> j.ticker = 1
      <4>1. k.fired = (j.fired \/ j.ticker = 1)
        BY <1>1
      <4> QED
        BY <2>1, <4>1, Zenon
    <3>2. j.ticker # 1 => k.ticker = j.ticker - 1 /\ k.ticker > 0
      <4>1. k.ticker = IF j.ticker = 1 THEN Interval ELSE Minus(j.ticker)
        BY <1>1
      <4> QED
        BY <1>2, <2>1, <4>1 DEF Minus
    <3> QED
      BY <3>1, <3>2
  <2>3. Elapsed(k)
    BY <1>1, <1>7, <1>9, <2>2 DEF Elapsed
  <2>4. TimeLeft(j) = j.ticker
    BY <1>9, <2>1 DEF TimeLeft
  <2>5. TimeLeft(k) = j.ticker - 1
    BY <1>1, <1>2, <1>9, <2>1, <2>2 DEF TimeLeft
  <2> QED
    BY <1>1, <1>2, <1>5, <1>8, <2>3, <2>4, <2>5 DEF k
<1>10. CASE j.pc \in {"scan", "claim", "save", "drop"}
  <2>1. j.slow < StoreDelay /\ k.slow = j.slow + 1
    BY <1>1, <1>4, <1>10
  <2>2. PassLimit - k.left <= PassLimit - j.left + 1 /\ k.left \in Int
    BY <1>2, <1>3, <1>8
  <2>3. /\ j.pc = "scan" => PassLimit - k.left <= k.slow
        /\ j.pc = "claim" => PassLimit - k.left + PerAttempt <= StoreDelay + s + k.slow
        /\ j.pc \in {"save", "drop"} =>
             PassLimit - k.left + PerAttempt <= 2 * StoreDelay + s + Timeout + k.slow
    <3>1. j.pc = "scan" => PassLimit - k.left <= k.slow
      BY <1>2, <1>3, <1>7, <2>1, <2>2
    <3>2. j.pc = "claim" => PassLimit - k.left + PerAttempt <= StoreDelay + s + k.slow
      BY <1>2, <1>3, <1>7, <2>1, <2>2
    <3>3. j.pc \in {"save", "drop"} =>
            PassLimit - k.left + PerAttempt <= 2 * StoreDelay + s + Timeout + k.slow
      BY <1>2, <1>3, <1>7, <2>1, <2>2
    <3> QED
      BY <3>1, <3>2, <3>3
  <2>4. Elapsed(k)
    BY <1>1, <1>6, <1>7, <1>10, <2>3 DEF Elapsed
  <2>5. Residual(k) <= Residual(j) - 1 /\ Residual(k) \in Int /\ Residual(j) \in Int
    BY <1>1, <1>2, <1>3, <1>8, <1>10, <2>1 DEF Residual
  <2>6. TimeLeft(k) <= TimeLeft(j) - 1
    BY <1>1, <1>3, <1>10, <2>5 DEF TimeLeft
  <2> QED
    BY <1>1, <1>5, <1>8, <2>4, <2>6 DEF k
<1>11. CASE j.pc = "call"
  <2>1. j.timer > 0 /\ j.left > 0 /\ k.timer = j.timer - 1 /\ k.left = j.left - 1
    BY <1>1, <1>2, <1>4, <1>8, <1>11 DEF Minus
  <2>2. PassLimit - k.left + PerAttempt <= 2 * StoreDelay + s + Timeout - k.timer
    BY <1>2, <1>3, <1>7, <1>11, <2>1
  <2>3. Elapsed(k)
    BY <1>1, <1>6, <1>11, <2>2 DEF Elapsed
  <2>4. Residual(k) <= Residual(j) - 1 /\ Residual(k) \in Int /\ Residual(j) \in Int
    BY <1>1, <1>2, <1>3, <1>11, <2>1 DEF Residual
  <2>5. TimeLeft(k) <= TimeLeft(j) - 1
    BY <1>1, <1>3, <1>11, <2>4 DEF TimeLeft
  <2> QED
    BY <1>1, <1>5, <1>8, <2>3, <2>5 DEF k
<1> QED
  BY <1>4, <1>9, <1>10, <1>11

LEMMA TickRecords ==
  ASSUME TypeOK, Tick, NEW u \in Task
  PROVE  /\ task'[u] = NoTask <=> task[u] = NoTask
         /\ task[u] # NoTask => /\ Wait(u) \in Int
                                /\ Wait(u)' = IF Wait(u) < Horizon THEN Wait(u) + 1 ELSE Wait(u)
<1>1. Horizon \in Nat
  BY TimeAssumption
<1>2. task'[u] = IF task[u] # NoTask /\ task[u].due > -Horizon
                 THEN [task[u] EXCEPT !.due = @ - 1] ELSE task[u]
  BY DEF Tick
<1>3. task[u] # NoTask => task[u] \in Record /\ task[u].due \in Int /\ NoTask \notin Record
  BY TaskAssumption DEF TypeOK, Record
<1>4. task[u] \in Record => /\ [task[u] EXCEPT !.due = @ - 1].due = task[u].due - 1
                            /\ [task[u] EXCEPT !.due = @ - 1] \in Record
  BY DEF Record
<1>5. CASE task[u] # NoTask /\ task[u].due > -Horizon
  <2>1. task'[u] \in Record /\ task'[u].due = task[u].due - 1
    BY <1>2, <1>3, <1>4, <1>5
  <2> QED
    BY <1>1, <1>3, <1>5, <2>1 DEF Wait
<1>6. CASE task[u] = NoTask
  BY <1>2, <1>6
<1>7. CASE task[u] # NoTask /\ ~ (task[u].due > -Horizon)
  <2>1. task'[u] = task[u]
    BY <1>2, <1>7
  <2> QED
    BY <1>1, <1>3, <1>7, <2>1 DEF Wait
<1> QED
  BY <1>5, <1>6, <1>7

(* As long as the bound is not reached, no two due times become one.       *)
LEMMA TickPatient ==
  ASSUME TypeOK, TypeOK', Tick, NEW c \in Controller, NEW t \in Task, Elapsed(job[c]), Patient(c, t),
         Horizon > MaxWait
  PROVE  Patient(c, t)' /\ Elapsed(job[c])'
<1> DEFINE j == job[c]
           k == job'[c]
           A == Ahead(t)
<1>1. k = Later(j) /\ MayWait(j) /\ j \in Job /\ faults' = faults /\ faults \in Nat /\ faults <= MaxFaults
  BY TimeAssumption DEF Tick, TypeOK
<1>2. /\ Elapsed(k) /\ TimeLeft(k) <= TimeLeft(j) - 1 /\ k.pc = j.pc /\ Upcoming(k) = Upcoming(j)
      /\ k.left = IF j.left = 0 THEN 0 ELSE j.left - 1
  BY <1>1, TickElapses
<1>3. /\ TimeLeft(j) \in Nat /\ TimeLeft(j) <= PassLength /\ TimeLeft(k) \in Nat
      /\ j.left \in Nat /\ j.left <= PassLimit
  BY <1>1, <1>2, TimeBounded, JobFields DEF TypeOK
<1>4. /\ StoreDelay \in Nat /\ PassLimit \in Nat /\ PassLength \in Nat /\ MaxFaults \in Nat
      /\ PerPass \in Nat \ {0} /\ Cardinality(Task) \in Nat /\ Horizon \in Nat
      /\ MaxWait \in Nat
  BY WaitConstants, MaxWaitTyped, TimeAssumption
<1>5. StoreDelay <= MaxWait
  BY DelayBelowWait
<1> SUFFICES ASSUME Overdue(t)' PROVE Patient(c, t)'
  BY <1>2 DEF Patient
<1>6. /\ task[t] # NoTask /\ Wait(t) \in Int
      /\ Wait(t)' = IF Wait(t) < Horizon THEN Wait(t) + 1 ELSE Wait(t)
      /\ Wait(t)' > StoreDelay
  BY TickRecords DEF Overdue
<1>7. CASE Overdue(t)
  <2>1. PICK n \in Nat : Within(Remaining(j, t), Credit(j, t), Wait(t) + TimeLeft(j), n)
    BY <1>7 DEF Patient
  <2>2. Wait(t) <= MaxWait
    <3> DEFINE p == PassLength * (n + (MaxFaults - faults))
    <3>1. (Wait(t) + TimeLeft(j)) + p <= MaxWait
      BY <2>1 DEF Within
    <3>2. n + (MaxFaults - faults) \in Nat
      BY <1>1, <1>4
    <3>3. p \in Nat
      BY <1>4, <3>2, Products
    <3> HIDE DEF p
    <3> QED
      BY <1>3, <1>4, <1>6, <3>1, <3>3
  <2>3. Wait(t)' = Wait(t) + 1
    BY <1>4, <1>6, <2>2
  <2>4. Ahead(t)' \subseteq Ahead(t)
    <3> SUFFICES ASSUME NEW u \in Ahead(t)' PROVE u \in Ahead(t)
      OBVIOUS
    <3>1. u \in Task /\ task'[u] # NoTask /\ task'[u].due <= task'[t].due /\ task'[t] # NoTask
      BY DEF Ahead, Present, Overdue
    <3>2. Wait(u)' >= Wait(t)'
      BY <3>1 DEF Wait, TypeOK, Record
    <3>3. /\ task[u] # NoTask /\ Wait(u) \in Int
          /\ Wait(u)' = IF Wait(u) < Horizon THEN Wait(u) + 1 ELSE Wait(u)
      BY <3>1, TickRecords
    <3>4. Wait(u) >= Wait(t)
      BY <1>6, <2>3, <3>2, <3>3
    <3>5. task[u].due \in Int /\ task[t].due \in Int
      BY <1>6, <3>1, <3>3 DEF TypeOK, Record
    <3> QED
      BY <3>1, <3>3, <3>4, <3>5 DEF Ahead, Present, Wait
  <2>5. CASE j.left = 0
    <3>1. Upcoming(j) = {} /\ j.pc # "scan"
      BY <1>1, <2>5, TimeSuffices
    <3>2. Remaining(j, t) = Ahead(t) /\ Remaining(job[c], t)' \subseteq Ahead(t)'
      BY <3>1 DEF Remaining
    <3>3. Credit(job[c], t)' = Credit(j, t)
      BY <1>2, <3>1 DEF Credit
    <3>4. Wait(t)' + TimeLeft(k) <= Wait(t) + TimeLeft(j)
      BY <1>2, <1>3, <1>6, <2>3
    <3> QED
      BY <1>1, <1>2, <1>7, <2>4, <3>2, <3>3, <3>4, StaysPatient
  <2>6. CASE j.left # 0
    <3>1. Reaches(job[c], t)' <=> Reaches(j, t)
      BY <1>2, <1>3, <1>4, <1>6, <2>3, <2>6 DEF Reaches
    <3>2. Remaining(job[c], t)' \subseteq Remaining(j, t)
      BY <1>2, <2>4, <3>1 DEF Remaining
    <3>3. Credit(job[c], t)' = Credit(j, t)
      BY <1>2, <3>1 DEF Credit
    <3>4. Wait(t)' + TimeLeft(k) <= Wait(t) + TimeLeft(j)
      BY <1>2, <1>3, <1>6, <2>3
    <3> QED
      BY <1>1, <1>2, <1>7, <3>2, <3>3, <3>4, StaysPatient
  <2> QED
    BY <2>5, <2>6
<1>8. CASE ~ Overdue(t)
  <2> DEFINE n == CeilDiv(Cardinality(Task), PerPass)
  <2>1. n \in Nat /\ Cardinality(Task) <= n * PerPass
    BY <1>4, RoundingUp
  <2>2. Wait(t)' <= StoreDelay + 1 /\ Wait(t)' \in Int
    BY <1>4, <1>5, <1>6, <1>8 DEF Overdue
  <2>3. /\ Cardinality(Remaining(job[c], t)') \in Nat /\ Credit(job[c], t)' \in {0, 1}
        /\ Cardinality(Remaining(job[c], t)') <= Cardinality(Task)
    <3>1. Remaining(job[c], t)' \subseteq Task
      BY DEF Remaining, Ahead, Present
    <3>2. /\ IsFiniteSet(Remaining(job[c], t)')
          /\ Cardinality(Remaining(job[c], t)') <= Cardinality(Task)
      BY <3>1, TaskAssumption, FS_Subset
    <3> QED
      BY <3>2, FS_CardinalityType DEF Credit
  <2> HIDE DEF n
  <2>4. Cardinality(Remaining(job[c], t)') <= (n + Credit(job[c], t)') * PerPass
    <3>1. n * PerPass \in Nat /\ (n + 1) * PerPass = n * PerPass + PerPass /\ n + 0 = n
      BY <1>4, <2>1, Products
    <3>2. Cardinality(Remaining(job[c], t)') <= n * PerPass
      BY <1>4, <2>1, <2>3, <3>1
    <3>3. Cardinality(Remaining(job[c], t)') <= (n + 1) * PerPass
      BY <1>4, <2>3, <3>1, <3>2
    <3> QED
      BY <2>3, <3>1, <3>2, <3>3
  <2>5. (Wait(t)' + TimeLeft(k)) + PassLength * (n + (MaxFaults - faults')) <= MaxWait
    <3> DEFINE p == PassLength * (n + (MaxFaults - faults'))
               q == PassLength * (n + MaxFaults)
    <3>1. MaxWait = StoreDelay + PassLength * (1 + n + MaxFaults)
      BY MaxWaitTyped DEF n
    <3>2. PassLength * (1 + n + MaxFaults) = PassLength + q /\ q \in Nat
      <4> DEFINE m == n + MaxFaults
      <4>1. m \in Nat /\ 1 + n + MaxFaults = m + 1
        BY <1>4, <2>1
      <4> HIDE DEF m
      <4>2. (m + 1) * PassLength = m * PassLength + PassLength /\ m * PassLength \in Nat
        BY <1>4, <4>1, Products
      <4>3. PassLength * (m + 1) = (m + 1) * PassLength /\ PassLength * m = m * PassLength
        BY <1>4, <4>1
      <4> QED
        BY <1>4, <4>1, <4>2, <4>3 DEF m
    <3>3. p \in Nat /\ p <= q
      <4>1. n + (MaxFaults - faults') \in Nat /\ n + MaxFaults \in Nat
        BY <1>1, <1>4, <2>1
      <4>2. p \in Nat /\ PassLength * faults \in Nat
        BY <1>1, <1>4, <4>1, Products
      <4>3. PassLength * (n + (MaxFaults - faults)) = PassLength * (n + MaxFaults) - PassLength * faults
        BY <1>1, <1>4, <2>1
      <4> DEFINE r == PassLength * faults
      <4>4. r \in Nat /\ p = q - r /\ q \in Nat
        BY <1>1, <3>2, <4>2, <4>3
      <4> HIDE DEF p, q, r
      <4> QED
        BY <4>2, <4>4
    <3> HIDE DEF p, q
    <3>4. (Wait(t)' + TimeLeft(k)) + p <= StoreDelay + (PassLength + q)
      BY <1>2, <1>3, <1>4, <2>2, <3>2, <3>3
    <3> QED
      BY <3>1, <3>2, <3>4 DEF p
  <2>6. Within(Remaining(job[c], t), Credit(job[c], t), Wait(t) + TimeLeft(job[c]), n)'
    BY <2>4, <2>5 DEF Within
  <2> QED
    BY <2>1, <2>6 DEF Patient
<1> QED
  BY <1>7, <1>8

LEMMA TickKnows ==
  ASSUME BacklogInv, TypeOK, Tick, NEW c \in Controller, Elapsed(job[c]), Known(c)
  PROVE  Known(c)'
<1> DEFINE j == job[c]
           k == job'[c]
<1>1. k = Later(j) /\ MayWait(j) /\ j \in Job /\ holds' = holds
  BY DEF Tick, TypeOK
<1>2. Upcoming(k) = Upcoming(j) /\ k.left = IF j.left = 0 THEN 0 ELSE j.left - 1
  BY <1>1, TickElapses
<1>3. j.left \in Nat /\ PassLimit \in Nat /\ StoreDelay \in Nat
  BY <1>1, JobFields, WaitConstants
<1>4. j.left = 0 => Upcoming(j) = {}
  BY <1>1, TimeSuffices
<1> SUFFICES ASSUME NEW u \in Upcoming(k)
             PROVE  c \in holds'[u] \/ task'[u] = NoTask \/ Wait(u)' <= StoreDelay + PassLimit - k.left
  BY DEF Known
<1>5. u \in Task /\ u \in Upcoming(j) /\ j.left # 0 /\ k.left = j.left - 1
  BY <1>2, <1>4, UpcomingTasks
<1>6. c \in holds[u] \/ task[u] = NoTask \/ Wait(u) <= StoreDelay + PassLimit - j.left
  BY <1>5 DEF Known
<1>7. /\ task'[u] = NoTask <=> task[u] = NoTask
      /\ task[u] # NoTask => Wait(u) \in Int /\ Wait(u)' = IF Wait(u) < Horizon THEN Wait(u) + 1 ELSE Wait(u)
  BY <1>5, TickRecords
<1> HIDE DEF j, k
<1> QED
  BY <1>1, <1>3, <1>5, <1>6, <1>7

-----------------------------------------------------------------------------
(* The bound holds where the invariant does; and where due times are told  *)
(* apart no further than that, by this alone.                              *)
LEMMA WaitsEnd ==
  ASSUME TypeOK, NEW t \in Task, task[t] # NoTask, NEW c \in Controller, Elapsed(job[c]), Patient(c, t)
  PROVE  -(task[t].due) <= MaxWait
<1>1. /\ StoreDelay \in Nat /\ PassLength \in Nat /\ MaxWait \in Nat /\ PerPass \in Nat \ {0}
      /\ MaxFaults \in Nat /\ Cardinality(Task) \in Nat
  BY WaitConstants, MaxWaitTyped
<1>2. Wait(t) \in Int /\ TimeLeft(job[c]) \in Nat
  BY PatientTypes
<1>3. CASE Overdue(t)
  <2>1. PICK n \in Nat : Within(Remaining(job[c], t), Credit(job[c], t), Wait(t) + TimeLeft(job[c]), n)
    BY <1>3 DEF Patient
  <2> DEFINE p == PassLength * (n + (MaxFaults - faults))
  <2>2. (Wait(t) + TimeLeft(job[c])) + p <= MaxWait
    BY <2>1 DEF Within
  <2>3. n + (MaxFaults - faults) \in Nat
    BY <1>1 DEF TypeOK
  <2>4. p \in Nat
    BY <1>1, <2>3, Products
  <2> HIDE DEF p
  <2>5. Wait(t) <= MaxWait
    BY <1>1, <1>2, <2>2, <2>4
  <2> QED
    BY <2>5 DEF Wait
<1>4. CASE ~ Overdue(t)
  <2>1. Wait(t) <= StoreDelay
    BY <1>1, <1>2, <1>4 DEF Overdue
  <2> QED
    BY <1>1, <1>2, <2>1, DelayBelowWait DEF Wait
<1> QED
  BY <1>3, <1>4

LEMMA PatienceSuffices == AllPatient => NoStarvation
<1> SUFFICES ASSUME AllPatient, NEW t \in Task, task[t] # NoTask
             PROVE  -(task[t].due) <= MaxWait
  BY DEF NoStarvation, Present
<1>1. PICK c \in Controller : TRUE
  BY ControllerAssumption
<1> QED
  BY <1>1, WaitsEnd DEF AllPatient

LEMMA CappedWaits ==
  ASSUME BacklogInv, TypeOK, TypeOK', NoStarvation, [Next]_vars, ~ (Horizon > MaxWait)
  PROVE  NoStarvation'
<1>1. StoreDelay \in Nat /\ MaxWait \in Nat /\ StoreDelay <= MaxWait /\ Horizon \in Nat
  BY WaitConstants, MaxWaitTyped, DelayBelowWait, TimeAssumption
<1> SUFFICES ASSUME NEW t \in Task, task'[t] # NoTask PROVE -(task'[t].due) <= MaxWait
  BY DEF NoStarvation, Present
<1>2. task[t] # NoTask => -(task[t].due) <= MaxWait
  BY DEF NoStarvation, Present
<1>3. task'[t].due \in Int /\ (task[t] # NoTask => task[t].due \in Int)
  BY DEF TypeOK, Record
<1>4. CASE UNCHANGED vars
  BY <1>2, <1>4 DEF vars
<1>5. CASE Fresh
  BY <1>1, <1>2, <1>3, <1>5 DEF Fresh, Wait
<1>6. CASE Tick
  <2>1. task[t] # NoTask /\ Wait(t)' = IF Wait(t) < Horizon THEN Wait(t) + 1 ELSE Wait(t)
    BY <1>6, TickRecords
  <2> QED
    BY <1>1, <1>2, <1>3, <2>1 DEF Wait
<1> QED
  BY <1>4, <1>5, <1>6, RecordsMove DEF Next

LEMMA NextWait == WaitInv /\ [Next]_vars => WaitInv'
<1> SUFFICES ASSUME WaitInv, [Next]_vars PROVE WaitInv'
  OBVIOUS
<1>1. BacklogInv /\ BacklogInv' /\ TypeOK /\ TypeOK' /\ NoStarvation
  BY NextBacklog, NextTypes DEF WaitInv
<1>2. CASE ~ (Horizon > MaxWait)
  BY <1>1, <1>2, CappedWaits DEF WaitInv
<1>3. CASE Horizon > MaxWait
  <2>1. \A c \in Controller : Elapsed(job[c]) /\ Known(c) /\ \A t \in Task : Patient(c, t)
    BY <1>3 DEF WaitInv, AllPatient
  <2>2. ASSUME NEW c \in Controller
        PROVE  Elapsed(job[c])' /\ Known(c)' /\ \A t \in Task : Patient(c, t)'
    <3>1. Elapsed(job[c]) /\ Known(c) /\ \A t \in Task : Patient(c, t)
      BY <2>1
    <3>2. CASE Tick
      <4>1. Known(c)'
        BY <1>1, <3>1, <3>2, TickKnows
      <4>2. \A t \in Task : Patient(c, t)'
        BY <1>1, <1>3, <3>1, <3>2, TickPatient
      <4>3. job'[c] = Later(job[c]) /\ MayWait(job[c]) /\ job[c] \in Job
        BY <1>1, <3>2 DEF Tick, TypeOK
      <4>4. Elapsed(job[c])'
        BY <3>1, <4>3, TickElapses
      <4> QED
        BY <4>1, <4>2, <4>4
    <3>3. ASSUME job'[c] = job[c], faults' = faults \/ faults' = faults + 1, Fresh, KeepsHold(c)
          PROVE  Elapsed(job[c])' /\ Known(c)' /\ \A t \in Task : Patient(c, t)'
      <4>1. Elapsed(job[c])'
        BY <3>1, <3>3 DEF Elapsed
      <4>2. Known(c)'
        BY <1>1, <3>1, <3>3, StaysKnown
      <4>3. \A t \in Task : Patient(c, t)'
        BY <1>1, <3>1, <3>3, OtherPatient
      <4> QED
        BY <4>1, <4>2, <4>3
    <3>4. CASE UNCHANGED vars
      <4>1. job'[c] = job[c] /\ faults' = faults /\ Fresh /\ KeepsHold(c)
        BY <3>4 DEF vars, Fresh, KeepsHold
      <4> QED
        BY <3>3, <4>1
    <3>5. ASSUME NEW t \in Task, Arise(t)
          PROVE  Elapsed(job[c])' /\ Known(c)' /\ \A u \in Task : Patient(c, u)'
      <4>1. job'[c] = job[c] /\ faults' = faults
        BY <3>5 DEF Arise
      <4>2. Fresh /\ KeepsHold(c)
        BY <1>1, <3>5, RecordsMove, HoldsMove
      <4> QED
        BY <3>3, <4>1, <4>2
    <3>6. ASSUME NEW d \in Controller \ {c}, Pass(d) \/ Crash(d)
          PROVE  Elapsed(job[c])' /\ Known(c)' /\ \A u \in Task : Patient(c, u)'
      <4>1. job'[c] = job[c] /\ (faults' = faults \/ faults' = faults + 1)
        BY <1>1, <3>6, OthersStay
      <4>2. Fresh /\ KeepsHold(c)
        BY <1>1, <3>6, RecordsMove, HoldsMove
      <4> QED
        BY <3>3, <4>1, <4>2
    <3>7. CASE Crash(c)
      <4>1. Fresh
        BY <1>1, <3>7, RecordsMove
      <4>2. \A t \in Task : Patient(c, t)'
        BY <1>1, <3>1, <3>7, <4>1, CrashPatient
      <4>3. job'[c].pc = "wait" /\ job'[c].queue = <<>> /\ job'[c].fired
        BY <1>1, <3>7, CrashMoves
      <4>4. Elapsed(job[c])' /\ Upcoming(job'[c]) = {}
        BY <4>3 DEF Elapsed, Upcoming
      <4> QED
        BY <4>2, <4>4 DEF Known
    <3>8. CASE Pass(c)
      <4>1. Fresh
        BY <1>1, <3>8, RecordsMove
      <4>2. Elapsed(job[c])' /\ \A t \in Task : Patient(c, t)'
        BY <1>1, <3>1, <3>8, <4>1, PassElapses, PassPatient
      <4>3. CASE Scan(c)
        BY <1>1, <4>2, <4>3, ScanKnows
      <4>4. CASE ~ Scan(c)
        <5>1. /\ Upcoming(job'[c]) \subseteq Upcoming(job[c])
              /\ Upcoming(job'[c]) = {} \/ job'[c].left = job[c].left
          BY <1>1, <3>1, <3>8, <4>4, PassPlans
        <5>2. KeepsHold(c)
          BY <1>1, <3>8, <4>4, HoldsMove
        <5> QED
          BY <1>1, <3>1, <4>1, <4>2, <5>1, <5>2, StaysKnown
      <4> QED
        BY <4>3, <4>4
    <3> QED
      BY <3>4, <3>2, <3>5, <3>6, <3>7, <3>8 DEF Next
  <2>3. AllPatient'
    BY <1>1, <2>2 DEF AllPatient
  <2>4. NoStarvation'
    BY <2>3, PatienceSuffices, PTL
  <2> QED
    BY <1>1, <2>3, <2>4 DEF WaitInv
<1> QED
  BY <1>2, <1>3

LEMMA InitWait == Init => WaitInv
<1> SUFFICES ASSUME Init PROVE WaitInv
  OBVIOUS
<1>1. BacklogInv /\ TypeOK
  BY InitBacklog, InitTypes
<1>2. \A t \in Task : task[t] = NoTask
  BY DEF Init
<1>3. NoStarvation
  BY <1>2 DEF NoStarvation, Present
<1>4. \A c \in Controller : job[c].pc = "wait" /\ job[c].fired /\ job[c].queue = <<>>
  BY DEF Init, Started
<1>5. \A c \in Controller : Elapsed(job[c]) /\ Known(c)
  BY <1>4 DEF Elapsed, Known, Upcoming
<1>6. \A c \in Controller, t \in Task : Patient(c, t)
  BY <1>2 DEF Patient, Overdue
<1> QED
  BY <1>1, <1>3, <1>5, <1>6 DEF WaitInv, AllPatient

(* A task that is due is attempted within MaxWait, for any number of tasks *)
(* and of controllers, at least one; any batch, interval and time limits,  *)
(* provided that a pass is longer than two calls to the store; any number  *)
(* of cleanups that fail again and again; and with MaxWait counting the    *)
(* failures of the store and of the process (access/recovery.go:211-212).  *)
THEOREM NobodyStarves == Spec => []NoStarvation
<1>1. WaitInv => NoStarvation
  BY DEF WaitInv
<1> QED
  BY <1>1, InitWait, NextWait, PTL DEF Spec
=============================================================================
