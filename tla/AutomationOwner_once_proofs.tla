--------------------- MODULE AutomationOwner_once_proofs ---------------------
(***************************************************************************)
(* What holds under every fault: a tick works on its own clock unless the  *)
(* session that locks its fence row has died, and a run is operated on and *)
(* reported once unless Hatchet had two tasks of that very run at once.    *)
(***************************************************************************)
EXTENDS AutomationOwner_proofs

USE ConstantsAssumption DEF ConstantsAssumption, RowFree, MayTick, Ended,
    AfterOperation, StatusOf, Finished

-----------------------------------------------------------------------------
(* The fence.  A tick past its lease holds the row, unless it lost it, so  *)
(* no fence can be granted, and without the fence's receipt no cutover     *)
(* happens.                                                                *)

Leased(t) == t.kind = "legacy" /\ t.pc \in {"clock", "start", "operate"}

FenceHeld ==
  /\ \A s \in Slot : Leased(task[s]) => LostRow(s) \/ (rowLock = s /\ ~fenced)
  /\ \A s \in Slot : At(s, "legacy", "start") => LostRow(s) \/ clock = "legacy"
  /\ clock = "central" => fenced
  /\ fenceKnown => fenced

(* A lost row stays lost until its slot locks it again.                    *)
LEMMA LostStays ==
  ASSUME Typed, [Next]_vars, NEW s \in Slot, LostRow(s), rowLock' # s
  PROVE  LostRow(s)'
<1> USE DEF ownerVars, hubVars
<1>1. faults \in Nat
  BY DEF Typed, TypeOK
<1>2. faults' = faults \/ faults' = faults + 1
  <2>1. CASE Fence \/ Cutover \/ Crash \/ UNCHANGED vars
    BY <2>1 DEF Fence, Cutover, Crash, Fault, vars
  <2>2. CASE \E q \in Request : \/ Serve(q) \/ LoseRequest(q)
                               \/ \E r \in Run : Send(q, r)
    BY <2>2 DEF Serve, Reserve, Launch, Confirm, Answer, LoseRequest, Send, Fault
  <2>3. CASE \E v \in Slot : StartTick(v) \/ Work(v) \/ \E r \in Run : StartRun(v, r)
    BY <2>3 DEF StartTick, StartRun, Work, OpenLease, CloseLease, ReadClock,
       ReadReceipt, StartOperation, EndOperation, EndOrphan, Finish, Report
  <2>4. CASE \E v \in Slot : Disturb(v)
    BY <2>4 DEF Disturb, Cancel, Timeout, LoseContact, LoseSession, LoseDatabase,
       Fault
  <2> QED BY <2>1, <2>2, <2>3, <2>4 DEF Next
<1> QED BY <1>1, <1>2 DEF LostRow

LEMMA FenceNext == Typed /\ FenceHeld /\ [Next]_vars => FenceHeld'
<1> SUFFICES ASSUME Typed, FenceHeld, [Next]_vars PROVE FenceHeld'
  OBVIOUS
<1> USE DEF ownerVars, hubVars
<1>a. task \in [Slot -> TaskType] /\ rowLock \in Slot \cup {NoSlot}
  BY Shapes
<1>c. \A v \in Slot : LostRow(v) /\ rowLock' # v => LostRow(v)'
  BY LostStays
(* A step that leaves the clocks and the row alone and starts no tick.     *)
<1>b. ASSUME UNCHANGED <<fenced, rowLock, clock, fenceKnown>>,
             \A v \in Slot : /\ Leased(task'[v]) => Leased(task[v])
                             /\ task'[v].kind = "legacy" /\ task'[v].pc = "start"
                                => At(v, "legacy", "start")
      PROVE  FenceHeld'
  <2>1. \A v \in Slot : LostRow(v) => LostRow(v)'
    BY <1>b, <1>c DEF LostRow
  <2> QED BY <2>1, <1>b DEF FenceHeld, At, Leased
<1>1. CASE Fence
  <2>1. \A s \in Slot : Leased(task[s]) => LostRow(s)
    BY <1>1 DEF Fence, FenceHeld
  <2>2. fenced' = TRUE /\ UNCHANGED <<rowLock, task, clock, faults>>
    BY <1>1 DEF Fence
  <2> QED BY <2>1, <2>2 DEF FenceHeld, At, Leased, LostRow
<1>2. CASE Cutover
  <2>1. UNCHANGED <<fenced, rowLock, fenceKnown, task, faults>> /\ clock' = "central" /\ fenceKnown
    BY <1>2 DEF Cutover
  <2> QED BY <2>1 DEF FenceHeld, At, Leased, LostRow
<1>3. CASE \/ UNCHANGED vars
           \/ \E q \in Request : \/ Serve(q) \/ LoseRequest(q)
                                 \/ \E r \in Run : Send(q, r)
  <2>1. UNCHANGED <<fenced, rowLock, clock, fenceKnown, task>>
    BY <1>3 DEF vars, Serve, Reserve, Launch, Confirm, Answer, LoseRequest, Send
  <2> QED BY <2>1, <1>b DEF At
<1>4. CASE Crash
  BY <1>4 DEF Crash, FenceHeld, NoTask, Leased, At
<1>5. ASSUME NEW s \in Slot,
             \/ StartTick(s) \/ Cancel(s) \/ Timeout(s)
             \/ \E r \in Run : StartRun(s, r)
      PROVE  FenceHeld'
  <2>1. UNCHANGED <<fenced, rowLock, clock, fenceKnown>>
    BY <1>5 DEF StartTick, StartRun, Cancel, Timeout, Stop
  <2>2. ASSUME NEW v \in Slot
        PROVE  \/ task'[v] = Cancelled(task[v]) \/ task'[v] = task[v]
               \/ task'[v].pc \in {"open", "read"}
    BY <1>5, <1>a DEF StartTick, StartRun, StartTask, NewTask, Cancel, Timeout,
       Stop
  <2>3. ASSUME NEW t \in TaskType
        PROVE  /\ Leased(Cancelled(t)) => Leased(t)
               /\ Cancelled(t).kind = "legacy" /\ Cancelled(t).pc = "start"
                  => t.kind = "legacy" /\ t.pc = "start"
    BY <2>3, CancelledKeeps DEF Leased
  <2> QED BY <2>1, <2>2, <2>3, <1>a, <1>b DEF Leased, At
<1>6. ASSUME NEW s \in Slot, OpenLease(s)
      PROVE  FenceHeld'
  <2>1. \A v \in Slot : v # s => task'[v] = task[v]
    BY <1>6, <1>a, WorkKeeps DEF Work
  <2>2. UNCHANGED <<fenced, clock, fenceKnown>>
    BY <1>6 DEF OpenLease
  <2>3. \A v \in Slot : v # s /\ LostRow(v) => LostRow(v)'
    BY <1>6, <1>c DEF OpenLease, LostRow
  <2>4. CASE rowLock = NoSlot
    <3>1. \A v \in Slot : Leased(task[v]) => LostRow(v)
      BY <2>4 DEF FenceHeld
    <3>2. task'[s].pc = (IF ~fenced THEN "clock" ELSE "close") /\ rowLock' = s
      BY <1>6, <2>4, <1>a DEF OpenLease, Step, TaskType
    <3>3. \A v \in Slot : v # s /\ Leased(task'[v]) => LostRow(v)'
      BY <2>1, <2>3, <3>1
    <3>4. Leased(task'[s]) => rowLock' = s /\ ~fenced'
      BY <2>2, <3>2 DEF Leased
    <3>5. ~At(s, "legacy", "start")'
      BY <3>2 DEF At
    <3>6. \A v \in Slot : At(v, "legacy", "start")' => Leased(task'[v])
      BY DEF At, Leased
    <3> QED BY <2>2, <3>3, <3>4, <3>5, <3>6 DEF FenceHeld
  <2>5. CASE rowLock # NoSlot
    <3>1. task'[s] = NoTask /\ UNCHANGED rowLock
      BY <1>6, <2>5, <1>a DEF OpenLease
    <3>2. ~Leased(NoTask) /\ NoTask.kind # "legacy"
      BY DEF Leased, NoTask
    <3>3. \A v \in Slot : v # s =>
            /\ Leased(task'[v]) => LostRow(v)' \/ (rowLock' = v /\ ~fenced')
            /\ At(v, "legacy", "start")' => LostRow(v)' \/ clock' = "legacy"
      BY <2>1, <2>2, <2>3, <3>1 DEF FenceHeld, At
    <3> QED BY <2>2, <3>1, <3>2, <3>3 DEF FenceHeld, At
  <2> QED BY <2>4, <2>5
<1>7. ASSUME NEW s \in Slot, NEW reachable \in BOOLEAN, ReadClock(s, reachable)
      PROVE  FenceHeld'
  <2>1. UNCHANGED <<fenced, rowLock, clock, fenceKnown, faults>>
    BY <1>7 DEF ReadClock
  <2>2. \A v \in Slot : v # s => task'[v] = task[v]
    BY <1>7, <1>a DEF ReadClock, Step
  <2>3. /\ Leased(task[s])
        /\ task'[s].pc = "start" => clock = "legacy"
    BY <1>7, <1>a DEF ReadClock, Step, At, Leased, TaskType
  <2> QED BY <2>1, <2>2, <2>3 DEF FenceHeld, At, Leased, LostRow
<1>8. ASSUME NEW s \in Slot, CloseLease(s)
      PROVE  FenceHeld'
  <2>1. /\ UNCHANGED <<fenced, clock, fenceKnown, faults>>
        /\ rowLock' = rowLock \/ (rowLock = s /\ rowLock' = NoSlot)
    BY <1>8 DEF CloseLease
  <2>2. task'[s] = NoTask /\ \A v \in Slot : v # s => task'[v] = task[v]
    BY <1>8, <1>a DEF CloseLease
  <2>3. ~Leased(NoTask) /\ NoTask.kind # "legacy"
    BY DEF Leased, NoTask
  <2> QED BY <2>1, <2>2, <2>3 DEF FenceHeld, At, LostRow
<1>9. ASSUME NEW s \in Slot, StartOperation(s)
      PROVE  FenceHeld'
  <2>1. UNCHANGED <<fenced, rowLock, clock, fenceKnown, faults>>
    BY <1>9 DEF StartOperation
  <2>2. \A v \in Slot : v # s => task'[v] = task[v]
    BY <1>9, <1>a DEF StartOperation, Step
  <2>3. /\ task'[s].kind = task[s].kind /\ task'[s].pc = "operate"
        /\ Leased(task'[s]) => Leased(task[s])
    BY <1>9, <1>a DEF StartOperation, Step, Leased, TaskType
  <2> QED BY <2>1, <2>2, <2>3 DEF FenceHeld, At, LostRow
<1>10. ASSUME NEW s \in Slot,
              \/ ReadReceipt(s) \/ EndOrphan(s) \/ Finish(s) \/ LoseContact(s)
              \/ \E result \in Outcome : EndOperation(s, result)
              \/ \E a, b \in BOOLEAN : Report(s, a, b)
              \/ \E retry \in BOOLEAN : LoseDatabase(s, retry)
       PROVE  FenceHeld'
  <2>1. UNCHANGED <<fenced, rowLock, clock, fenceKnown>>
    BY <1>10 DEF ReadReceipt, EndOrphan, Finish, EndOperation, Report,
       LoseContact, LoseDatabase
  <2>2. ASSUME NEW v \in Slot
        PROVE  /\ Leased(task'[v]) => Leased(task[v])
               /\ task'[v].kind = "legacy" /\ task'[v].pc = "start"
                  => At(v, "legacy", "start")
    <3>1. CASE v # s
      BY <1>10, <3>1, <1>a, WorkKeeps DEF Work, At
    <3>2. CASE v = s
      <4>1. CASE EndOrphan(s)
        BY <4>1, <3>2, <1>a DEF EndOrphan, At
      <4>2. CASE \E result \in Outcome : EndOperation(s, result)
        BY <4>2, <3>2, <1>a DEF EndOperation, Leased, At
      <4>3. CASE ReadReceipt(s) \/ Finish(s) \/ LoseContact(s)
        BY <4>3, <3>2, <1>a, WorkKeeps DEF ReadReceipt, Finish, LoseContact, Leave,
           NoTask, Leased, At, Step, Work
      <4>4. CASE \/ \E a, b \in BOOLEAN : Report(s, a, b)
                 \/ \E retry \in BOOLEAN : LoseDatabase(s, retry)
        BY <4>4, <3>2, <1>a DEF Report, LoseDatabase, Leave, NoTask, Leased, At
      <4> QED BY <1>10, <4>1, <4>2, <4>3, <4>4
    <3> QED BY <3>1, <3>2
  <2> QED BY <2>1, <2>2, <1>b
<1>11. ASSUME NEW s \in Slot, LoseSession(s)
       PROVE  FenceHeld'
  <2>1. UNCHANGED <<fenced, clock, fenceKnown, task>>
    BY <1>11 DEF LoseSession
  <2>2. \A v \in Slot : LostRow(v)' \/ (rowLock # v /\ ~LostRow(v))
    BY <1>11, <1>c, Shapes DEF LoseSession, Fault, LostRow
  <2> QED BY <2>1, <2>2 DEF FenceHeld, At
<1> QED
  BY <1>1, <1>2, <1>3, <1>4, <1>5, <1>6, <1>7, <1>8, <1>9, <1>10, <1>11
  DEF Next, Work, Disturb

(* A thread starts to work in one place only.                              *)
LEMMA OnlyStarts ==
  ASSUME Typed, [Next]_vars, NEW s \in Slot,
         thread[s] = "none", thread'[s] # "none"
  PROVE  StartOperation(s)
<1>1. ASSUME NEW v \in Slot, v # s
      PROVE  ~StartOperation(v)
  BY <1>1, Shapes DEF StartOperation
<1>2. ASSUME NEW v \in Slot,
             EndOrphan(v) \/ \E result \in Outcome : EndOperation(v, result)
      PROVE  FALSE
  BY <1>2, Shapes DEF EndOrphan, EndOperation
<1>3. thread' # thread /\ ~Crash
  BY DEF Crash
<1> QED
  BY <1>1, <1>2, <1>3 DEF Next, vars, ownerVars, hubVars, Fence, Cutover, Serve,
     Reserve, Launch, Confirm, Answer, LoseRequest, Send, StartTick, StartRun,
     Work, OpenLease, CloseLease, ReadClock, ReadReceipt, Finish, Report,
     Disturb, Cancel, Timeout, Stop, LoseContact, LoseSession, LoseDatabase

(* A tick starts to work only while the old cron owns the clock and is not *)
(* fenced, unless the session that locks its row has died.                 *)
THEOREM TickHasClock == Spec => TicksOnOwnClock
<1>1. Init => FenceHeld
  BY DEF Init, FenceHeld, NoTask, Leased, At
<1>2. ASSUME Typed, FenceHeld, [Next]_vars, NEW s \in Slot,
             thread[s] = "none", thread'[s] = "legacy"
      PROVE  (~fenced /\ clock = "legacy") \/ LostRow(s)
  <2>1. StartOperation(s)
    BY <1>2, OnlyStarts
  <2>2. At(s, "legacy", "start")
    BY <1>2, <2>1, Shapes DEF StartOperation, At
  <2> QED BY <1>2, <2>2 DEF FenceHeld, Leased, At
<1>3. Typed /\ FenceHeld /\ [Next]_vars =>
        [\A s \in Slot : thread[s] = "none" /\ thread'[s] = "legacy"
                         => (~fenced /\ clock = "legacy") \/ LostRow(s)]_vars
  BY <1>2
<1> QED
  BY <1>1, <1>3, TypedInit, TypedNext, FenceNext, PTL DEF Spec, TicksOnOwnClock

-----------------------------------------------------------------------------
(* One task at a time.  A run of which Hatchet never had two tasks at once *)
(* has an open receipt until its task closes it, and whoever is about to   *)
(* tell the Agent Hub how the run ended says what the receipt says.  Of    *)
(* the others this much stays: nobody tells an end before there is one.    *)

Central(s) == task[s].kind = "central"

OneTask ==
  \A s, v \in Slot :
    /\ Central(s) /\ Central(v)
    /\ task[s].run = task[v].run /\ task[s].run \notin overlapped
    => s = v

ReceiptOpen(r) == receipt[r] \notin Terminal

TaskTruth(t) ==
  t.kind = "central" =>
    /\ t.pc = "report" => receipt[t.run] \in Terminal
    /\ t.run \notin overlapped =>
         /\ t.pc \in {"start", "operate", "finish"} => ReceiptOpen(t.run)
         /\ t.pc = "report" => receipt[t.run] = StatusOf(t.result)

AnswerTruth(j) ==
  j.pc = "answer" /\ j.answer \in Terminal => receipt[j.run] = j.answer

Truth ==
  /\ \A s \in Slot : TaskTruth(task[s])
  /\ \A q \in Request : AnswerTruth(request[q])
  /\ HubAgrees

(* A run stays overlapped; one step makes a run overlapped.                *)
LEMMA OverlapMove ==
  ASSUME [Next]_vars
  PROVE  \/ overlapped' = overlapped
         \/ \E s \in Slot, r \in Run :
              StartRun(s, r) /\ Busy(r) /\ overlapped' = overlapped \cup {r}
<1> USE DEF ownerVars, hubVars
<1>1. CASE \/ Fence \/ Cutover \/ Crash \/ UNCHANGED vars
           \/ \E q \in Request : \/ Serve(q) \/ LoseRequest(q)
                                 \/ \E r \in Run : Send(q, r)
  BY <1>1 DEF Fence, Cutover, Crash, vars, Serve, Reserve, Launch, Confirm, Answer,
     LoseRequest, Send
<1>2. CASE \E s \in Slot : StartTick(s) \/ Work(s) \/ Disturb(s)
  BY <1>2 DEF StartTick, Work, OpenLease, CloseLease, ReadClock, ReadReceipt,
     StartOperation, EndOrphan, EndOperation, Finish, Report, Disturb, Cancel,
     Timeout, Stop, LoseContact, LoseSession, LoseDatabase
<1>3. CASE \E s \in Slot, r \in Run : StartRun(s, r)
  BY <1>3 DEF StartRun
<1> QED BY <1>1, <1>2, <1>3 DEF Next

LEMMA OneTaskNext == Typed /\ OneTask /\ [Next]_vars => OneTask'
<1> SUFFICES ASSUME Typed, OneTask, [Next]_vars PROVE OneTask'
  OBVIOUS
<1>a. task \in [Slot -> TaskType]
  BY Shapes
<1>c. overlapped \subseteq overlapped'
  BY OverlapMove
(* A step that starts no task.                                             *)
<1>b. ASSUME \A v \in Slot : task'[v].kind = "central"
                             => Central(v) /\ task'[v].run = task[v].run
      PROVE  OneTask'
  BY <1>b, <1>c DEF OneTask, Central
<1>1. CASE \/ Fence \/ Cutover \/ UNCHANGED vars
           \/ \E q \in Request : \/ Serve(q) \/ LoseRequest(q)
                                 \/ \E r \in Run : Send(q, r)
  <2>1. UNCHANGED task
    BY <1>1 DEF Fence, Cutover, vars, Serve, Reserve, Launch, Confirm, Answer,
       LoseRequest, Send
  <2> QED BY <2>1, <1>b DEF Central
<1>2. CASE Crash
  BY <1>2 DEF Crash, OneTask, Central, NoTask
<1>3. ASSUME NEW s \in Slot, NEW r \in Run, StartRun(s, r)
      PROVE  OneTask'
  <2>1. r \notin overlapped' => \A v \in Slot : Central(v) => task[v].run # r
    BY <1>3 DEF StartRun, Busy, Central
  <2>2. task'[s].run = r
    BY <1>3 DEF StartRun, StartTask, NewTask
  <2>3. ASSUME NEW v \in Slot, v # s, task'[v].kind = "central"
        PROVE  Central(v) /\ task'[v].run = task[v].run
    BY <1>3, <2>3, <1>a, CancelledKeeps DEF StartRun, StartTask, Central
  <2> QED BY <2>1, <2>2, <2>3, <1>c DEF OneTask, Central
<1>4. ASSUME NEW s \in Slot, StartTick(s) \/ Cancel(s) \/ Timeout(s)
      PROVE  OneTask'
  <2>1. ASSUME NEW v \in Slot, task'[v].kind = "central"
        PROVE  Central(v) /\ task'[v].run = task[v].run
    BY <1>4, <2>1, <1>a, CancelledKeeps DEF StartTick, StartTask, NewTask,
       Cancel, Timeout, Stop, Central
  <2> QED BY <2>1, <1>b
<1>5. ASSUME NEW s \in Slot,
             \/ Work(s) \/ LoseContact(s) \/ LoseSession(s)
             \/ \E retry \in BOOLEAN : LoseDatabase(s, retry)
      PROVE  OneTask'
  <2>1. ASSUME NEW v \in Slot, task'[v].kind = "central"
        PROVE  Central(v) /\ task'[v].run = task[v].run
    BY <1>5, <2>1, <1>a, WorkKeeps DEF Central
  <2> QED BY <2>1, <1>b
<1> QED
  BY <1>1, <1>2, <1>3, <1>4, <1>5 DEF Next, Disturb

LEMMA TruthNext == Typed /\ OneTask /\ Truth /\ [Next]_vars => Truth'
<1> SUFFICES ASSUME Typed, OneTask, Truth, [Next]_vars PROVE Truth'
  OBVIOUS
<1> USE DEF ownerVars, hubVars
<1>a. request \in [Request -> RequestType] /\ task \in [Slot -> TaskType]
  BY Shapes
<1>b. \A r \in Run : receipt[r] \in Terminal => receipt'[r] = receipt[r]
  BY ReceiptKeeps
<1>c. \A s \in Slot : Central(s) => task[s].run \in Run
  BY Shapes DEF TaskFits, Central
<1>d. \A q \in Request : request[q].pc # "idle" => request[q].run \in Run
  BY Shapes DEF RequestFits
<1>e. overlapped \subseteq overlapped'
  BY OverlapMove
<1>1. ASSUME NEW v \in Slot
      PROVE  TaskTruth(task[v])'
  <2>1. ASSUME NEW q \in Request, Reserve(q) \/ Confirm(q)
        PROVE  TaskTruth(task[v])'
    <3>1. \A r \in Run : ReceiptOpen(r) => receipt'[r] \notin Terminal
      BY <2>1, Shapes DEF Reserve, Confirm, Reserved, Confirmed, ReceiptOpen,
         Terminal
    <3>2. task' = task
      BY <2>1 DEF Reserve, Confirm
    <3>3. task[v].kind = "central" /\ task[v].pc = "report"
          => receipt[task[v].run] \in Terminal
      BY DEF Truth, TaskTruth
    <3> QED BY <3>1, <3>2, <3>3, <1>b, <1>c, <1>e DEF Truth, TaskTruth, ReceiptOpen,
               Central
  <2>2. ASSUME NEW s \in Slot, Finish(s)
        PROVE  TaskTruth(task[v])'
    <3>1. /\ task[s].run \in Run
          /\ task[s].run \notin overlapped => ReceiptOpen(task[s].run)
      BY <2>2, <1>c DEF Finish, At, Truth, TaskTruth, Central
    <3>2. /\ receipt'[task[s].run] \in Terminal
          /\ task[s].run \notin overlapped
             => receipt'[task[s].run] = StatusOf(task[s].result)
          /\ \A r \in Run : r # task[s].run => receipt'[r] = receipt[r]
      <4>1. StatusOf(task[s].result) \in Terminal
        BY <1>a DEF TaskType, Result, Terminal
      <4> HIDE DEF StatusOf
      <4> QED BY <2>2, <3>1, <4>1, Shapes DEF Finish, ReceiptOpen
    <3>3. CASE v = s
      <4>1. /\ task'[s].kind = "central"
               => task'[s].pc = "report" /\ task'[s].run = task[s].run
            /\ task'[s].kind = "central" => task'[s].result = task[s].result
        BY <2>2, <1>a DEF Finish, Step, NoTask, TaskType
      <4> QED BY <3>2, <3>3, <4>1, <1>e DEF TaskTruth
    <3>4. CASE v # s
      <4>1. task'[v] = task[v]
        BY <2>2, <3>4, <1>a, WorkKeeps DEF Work
      <4>2. Central(v) => /\ task[v].run \in Run
                          /\ task[v].run \notin overlapped
                             => task[v].run # task[s].run
        BY <2>2, <3>4, <1>c DEF OneTask, Finish, At, Central
      <4> QED BY <3>2, <4>1, <4>2, <1>b, <1>e DEF Truth, TaskTruth, Central, ReceiptOpen
    <3> QED BY <3>3, <3>4
  <2>3. CASE UNCHANGED receipt
(* It is enough that the step of v keeps what it says of its receipt.      *)
    <3>a. ASSUME \/ task'[v] = task[v] \/ task'[v] = Cancelled(task[v])
                 \/ task'[v].kind # "central" \/ task'[v].pc = "read"
          PROVE  TaskTruth(task[v])'
      <4>1. CASE task'[v] = task[v]
        BY <2>3, <4>1, <1>e DEF Truth, TaskTruth, ReceiptOpen
      <4>2. CASE task'[v] = Cancelled(task[v])
        BY <2>3, <4>2, <1>a, <1>e, CancelledKeeps DEF Truth, TaskTruth, ReceiptOpen
      <4>3. CASE task'[v].kind # "central" \/ task'[v].pc = "read"
        BY <4>3 DEF TaskTruth
      <4> QED BY <3>a, <4>1, <4>2, <4>3
    <3>1. ASSUME NEW s \in Slot,
                 \/ StartTick(s) \/ Cancel(s) \/ Timeout(s)
                 \/ \E r \in Run : StartRun(s, r)
          PROVE  TaskTruth(task[v])'
      BY <3>1, <3>a, <1>a DEF StartTick, StartRun, StartTask, NewTask, Cancel,
         Timeout, Stop
    <3>2. ASSUME NEW s \in Slot, s # v,
                 \/ Work(s) \/ LoseContact(s) \/ LoseSession(s)
                 \/ \E retry \in BOOLEAN : LoseDatabase(s, retry)
          PROVE  TaskTruth(task[v])'
      BY <3>2, <3>a, <1>a, WorkKeeps
    <3>3. CASE ReadReceipt(v)
      <4>1. CASE receipt[task[v].run] \in Terminal
        BY <3>3, <4>1, <3>a, <1>a DEF ReadReceipt, Leave, NoTask
      <4>2. CASE receipt[task[v].run] \notin Terminal
        <5>1. task'[v].run = task[v].run /\ task'[v].pc = "start"
          BY <3>3, <4>2, <1>a DEF ReadReceipt, Step, TaskType
        <5> QED BY <2>3, <4>2, <5>1 DEF TaskTruth, ReceiptOpen
      <4> QED BY <4>1, <4>2
    <3>4. CASE StartOperation(v)
      <4>1. /\ task[v].pc = "start" /\ task'[v].pc = "operate"
            /\ task'[v].kind = task[v].kind /\ task'[v].run = task[v].run
        BY <3>4, <1>a DEF StartOperation, Step, TaskType
      <4> QED BY <2>3, <4>1, <1>e DEF Truth, TaskTruth, ReceiptOpen
    <3>5. CASE \E result \in Outcome : EndOperation(v, result)
      <4>1. /\ task[v].pc = "operate"
            /\ task'[v].kind # "none" => /\ task'[v].kind = task[v].kind
                                         /\ task'[v].run = task[v].run
        BY <3>5, <1>a, WorkKeeps DEF EndOperation, Work
      <4>2. task'[v].pc \in {"close", "finish"}
        BY <3>5, <1>a DEF EndOperation, TaskType
      <4> QED BY <2>3, <4>1, <4>2, <1>e DEF Truth, TaskTruth, ReceiptOpen
    <3>6. CASE \/ \E a, b \in BOOLEAN : Report(v, a, b)
               \/ \E retry \in BOOLEAN : LoseDatabase(v, retry)
      BY <3>6, <3>a, <1>a DEF Report, LoseDatabase, Leave, NoTask
    <3>7. CASE OpenLease(v) \/ CloseLease(v) \/ \E reachable \in BOOLEAN :
                                                 ReadClock(v, reachable)
      <4>1. task[v].kind = "legacy"
        BY <3>7 DEF OpenLease, CloseLease, ReadClock, At
      <4> QED BY <3>7, <4>1, <3>a, <1>a, WorkKeeps DEF Work
    <3>8. CASE LoseContact(v)
      <4>1. /\ task'[v].kind = task[v].kind /\ task'[v].run = task[v].run
            /\ task'[v].pc = task[v].pc /\ task'[v].result = task[v].result
        BY <3>8, <1>a DEF LoseContact, TaskType
      <4> QED BY <2>3, <4>1, <1>e DEF Truth, TaskTruth, ReceiptOpen
    <3>9. CASE EndOrphan(v) \/ LoseSession(v) \/ UNCHANGED task
      BY <3>9, <3>a DEF EndOrphan, LoseSession
    <3>10. CASE Crash
      BY <3>10, <3>a DEF Crash, NoTask
    <3>11. ASSUME NEW s \in Slot, Finish(s)
           PROVE  TaskTruth(task[v])'
      BY <2>2, <3>11
    <3> QED
      BY <3>1, <3>2, <3>3, <3>4, <3>5, <3>6, <3>7, <3>8, <3>9, <3>10, <3>11
      DEF Next, vars, Fence, Cutover, Serve, Reserve, Launch, Confirm, Answer,
          LoseRequest, Send, Work, Disturb
  <2> QED
    BY <2>1, <2>2, <2>3 DEF Next, vars, Fence, Cutover, Crash, Serve, Launch,
       Answer, LoseRequest, Send, StartTick, StartRun, Work, OpenLease,
       CloseLease, ReadClock, ReadReceipt, StartOperation, EndOrphan,
       EndOperation, Report, Disturb, Cancel, Timeout, Stop, LoseContact,
       LoseSession, LoseDatabase
<1>2. ASSUME NEW p \in Request
      PROVE  AnswerTruth(request[p])'
  <2>1. CASE request'[p] = request[p]
    BY <2>1, <1>b, <1>d DEF Truth, AnswerTruth
  <2>2. CASE Reserve(p)
    <3>1. request'[p].pc = "answer" /\ request'[p].answer \in Terminal
          => /\ request'[p].run = request[p].run
             /\ request'[p].answer = receipt[request[p].run]
      BY <2>2, <1>a DEF Reserve, RequestType, Terminal
    <3> QED BY <2>2, <3>1, <1>b, <1>d DEF AnswerTruth, Reserve, Serves
  <2>3. CASE Confirm(p)
    BY <2>3, <1>a DEF Confirm, AnswerTruth, RequestType, Terminal
  <2>4. CASE request'[p].pc # "answer"
    BY <2>4 DEF AnswerTruth
  <2>5. ASSUME NEW q \in Request,
               Serve(q) \/ LoseRequest(q) \/ \E r \in Run : Send(q, r)
        PROVE  \/ request'[p] = request[p] \/ request'[p].pc # "answer"
               \/ Reserve(p) \/ Confirm(p)
    <3>1. CASE p # q
      BY <2>5, <3>1, <1>a DEF Serve, Reserve, Launch, Confirm, Answer,
         LoseRequest, Send
    <3>2. CASE p = q
      BY <2>5, <3>2, <1>a DEF Serve, Launch, Answer, LoseRequest, Send,
         NoRequest, RequestType
    <3> QED BY <3>1, <3>2
  <2>6. \/ UNCHANGED request
        \/ \E q \in Request : Serve(q) \/ LoseRequest(q) \/ \E r \in Run : Send(q, r)
    BY DEF Next, vars, Fence, Cutover, Crash, StartTick, StartRun, Work,
       OpenLease, CloseLease, ReadClock, ReadReceipt, StartOperation, EndOrphan,
       EndOperation, Finish, Report, Disturb, Cancel, Timeout, Stop,
       LoseContact, LoseSession, LoseDatabase
  <2> QED BY <2>1, <2>2, <2>3, <2>4, <2>5, <2>6
<1>3. HubAgrees'
  <2>1. ASSUME NEW q \in Request, Answer(q)
        PROVE  HubAgrees'
    <3>1. \A r \in Run : hub'[r] \in Terminal
            => \/ hub'[r] = hub[r]
               \/ r = request[q].run /\ hub'[r] = request[q].answer
      BY <2>1, Shapes DEF Answer, Learns
    <3>2. \A r \in Run : receipt'[r] = receipt[r]
      BY <2>1 DEF Answer
    <3> QED BY <2>1, <3>1, <3>2, <1>d, <1>e
            DEF Truth, HubAgrees, AnswerTruth, Answer, Serves
  <2>2. ASSUME NEW s \in Slot, \E a, b \in BOOLEAN : Report(s, a, b)
        PROVE  HubAgrees'
    <3>1. \A r \in Run : hub'[r] \in Terminal
            => \/ hub'[r] = hub[r]
               \/ r = task[s].run /\ hub'[r] = StatusOf(task[s].result)
      BY <2>2, Shapes DEF Report, Learns
    <3>2. \A r \in Run : receipt'[r] = receipt[r]
      BY <2>2 DEF Report
    <3>3. /\ receipt[task[s].run] \in Terminal
          /\ \/ receipt[task[s].run] = StatusOf(task[s].result)
             \/ task[s].run \in overlapped
      BY <2>2 DEF Report, At, Truth, TaskTruth
    <3> HIDE DEF StatusOf
    <3> QED BY <3>1, <3>2, <3>3, <1>e DEF Truth, HubAgrees
  <2>3. ASSUME NEW q \in Request, NEW r \in Run, Send(q, r)
        PROVE  HubAgrees'
    BY <2>3, <1>e, Shapes DEF Send, Learns, Truth, HubAgrees, Terminal
  <2>4. CASE UNCHANGED hub
    BY <2>4, <1>b, <1>e DEF Truth, HubAgrees
  <2> QED
    BY <2>1, <2>2, <2>3, <2>4 DEF Next, vars, Fence, Cutover, Crash, Serve,
       Reserve, Launch, Confirm, LoseRequest, StartTick, StartRun, Work,
       OpenLease, CloseLease, ReadClock, ReadReceipt, StartOperation, EndOrphan,
       EndOperation, Finish, Disturb, Cancel, Timeout, Stop, LoseContact,
       LoseSession, LoseDatabase
<1> QED BY <1>1, <1>2, <1>3 DEF Truth

LEMMA OnceInit == Init => OneTask /\ Truth
  BY DEF Init, OneTask, Central, Truth, TaskTruth, AnswerTruth, HubAgrees, NoTask,
     NoRequest, Terminal

(* What the Agent Hub is told of the end of a run, in an answer or in a    *)
(* report, is what the receipt says, whatever times out, is lost, retried  *)
(* or killed, unless Hatchet had two tasks of that run at once; and it is  *)
(* told of no end before the receipt has one.                              *)
THEOREM ToldAsStored == Spec => []HubAgrees
<1>1. Truth => HubAgrees
  BY DEF Truth
<1> QED
  BY <1>1, TypedInit, TypedNext, OnceInit, OneTaskNext, TruthNext, PTL DEF Spec

(* A run that ended is never operated on again under any of the faults,    *)
(* timeouts and lost contact included, unless Hatchet had two tasks of     *)
(* that very run at once.                                                  *)
THEOREM RunsOnce == Spec => NeverRerun
<1>1. ASSUME Typed, Truth, [Next]_vars, NEW s \in Slot,
             thread[s] = "none", thread'[s] = "central"
      PROVE  receipt[task[s].run] \notin Terminal \/ task[s].run \in overlapped
  <2>1. StartOperation(s)
    BY <1>1, OnlyStarts
  <2>2. At(s, "central", "start")
    BY <1>1, <2>1, Shapes DEF StartOperation, At
  <2> QED BY <1>1, <2>2 DEF Truth, TaskTruth, At, ReceiptOpen
<1>2. Typed /\ Truth /\ [Next]_vars =>
        [\A s \in Slot : thread[s] = "none" /\ thread'[s] = "central"
                         => \/ receipt[task[s].run] \notin Terminal
                            \/ task[s].run \in overlapped]_vars
  BY <1>1
<1> QED
  BY <1>2, TypedInit, TypedNext, OnceInit, OneTaskNext, TruthNext, PTL
  DEF Spec, NeverRerun

-----------------------------------------------------------------------------
(* The handover implements OwnerPromise.  A step gives one run to Hatchet, *)
(* starts one once more, ends one, or tells the Agent Hub of one; every    *)
(* other step stutters.                                                    *)

LEMMA GivenSame ==
  ASSUME Typed, InHand, [Next]_vars,
         \A q \in Request : ~Launch(q)
  PROVE  Given' = Given
<1> USE DEF ownerVars, hubVars
<1>a. \A s \in Slot : task[s].kind = "central" => hatchet[task[s].run] # "none"
  BY DEF InHand
<1>b. \A r \in Run : hatchet[r] # "none" => hatchet'[r] # "none"
  BY HatchetKeeps
<1>1. \A r \in Run : hatchet'[r] # "none" => hatchet[r] # "none"
  <2>1. CASE \E s \in Slot : StartTick(s) \/ \E r \in Run : StartRun(s, r)
    <3>1. \A r \in Run : Live(r) => hatchet[r] # "none"
      BY <1>a, Shapes DEF Live, TaskFits, TaskType
    <3> QED BY <2>1, <3>1, Shapes DEF StartTick, StartRun
  <2>2. CASE \E s \in Slot : Cancel(s) \/ Timeout(s) \/ LoseContact(s)
    BY <2>2, <1>a, Shapes DEF Cancel, Timeout, Stop, LoseContact, TaskFits, TaskType
  <2>3. CASE Crash
    <3>1. \A r \in Run : Live(r) => hatchet[r] # "none"
      BY <1>a, Shapes DEF Live, TaskFits, TaskType
    <3> QED BY <2>3, <3>1, Shapes DEF Crash
  <2>4. CASE \E s \in Slot : \/ ReadReceipt(s)
                             \/ \E a, b \in BOOLEAN : Report(s, a, b)
                             \/ \E retry \in BOOLEAN : LoseDatabase(s, retry)
    BY <2>4, <1>a, Shapes DEF ReadReceipt, Report, LoseDatabase, Leave, Step
  <2>5. CASE UNCHANGED hatchet
    BY <2>5
  <2> QED
    BY <2>1, <2>2, <2>3, <2>4, <2>5 DEF Next, vars, Fence, Cutover, Serve,
       Reserve, Confirm, Answer, LoseRequest, Send, Work, OpenLease, CloseLease,
       ReadClock, StartOperation, EndOrphan, EndOperation, Finish, Disturb,
       LoseSession
<1> QED BY <1>1, <1>b DEF Given

LEMMA EndingsSame ==
  ASSUME Typed, [Next]_vars, \A s \in Slot : ~Finish(s)
  PROVE  Endings' = Endings
<1> USE DEF ownerVars, hubVars
<1>1. \A r \in Run : \/ receipt'[r] = receipt[r]
                     \/ receipt[r] \notin Terminal /\ receipt'[r] \notin Terminal
  <2>1. ASSUME NEW q \in Request, Reserve(q) \/ Confirm(q)
        PROVE  \A r \in Run :
                 \/ receipt'[r] = receipt[r]
                 \/ receipt[r] \notin Terminal /\ receipt'[r] \notin Terminal
    BY <2>1, Shapes DEF Reserve, Confirm, Reserved, Confirmed, Terminal
  <2>2. CASE UNCHANGED receipt
    BY <2>2
  <2> QED
    BY <2>1, <2>2 DEF Next, vars, Fence, Cutover, Crash, Serve, Launch,
       Answer, LoseRequest, Send, StartTick, StartRun, Work, OpenLease,
       CloseLease, ReadClock, ReadReceipt, StartOperation, EndOrphan,
       EndOperation, Report, Disturb, Cancel, Timeout, Stop, LoseContact,
       LoseSession, LoseDatabase
<1> QED BY <1>1 DEF Endings

LEMMA KnownSame ==
  ASSUME Typed, [Next]_vars,
         \A q \in Request : ~Answer(q),
         \A s \in Slot, a, b \in BOOLEAN : ~Report(s, a, b)
  PROVE  Known' = Known
<1> USE DEF ownerVars, hubVars
<1>1. \A r \in Run : \/ hub'[r] = hub[r]
                     \/ hub[r] = "planned" /\ hub'[r] = "sent"
  <2>1. ASSUME NEW q \in Request, NEW r \in Run, Send(q, r)
        PROVE  \A p \in Run : \/ hub'[p] = hub[p]
                              \/ hub[p] = "planned" /\ hub'[p] = "sent"
    BY <2>1, Shapes DEF Send, Learns, Terminal
  <2>2. CASE UNCHANGED hub
    BY <2>2
  <2> QED
    BY <2>1, <2>2 DEF Next, vars, Fence, Cutover, Crash, Serve, Reserve,
       Launch, Confirm, LoseRequest, StartTick, StartRun, Work, OpenLease,
       CloseLease, ReadClock, ReadReceipt, StartOperation, EndOrphan,
       EndOperation, Finish, Disturb, Cancel, Timeout, Stop, LoseContact,
       LoseSession, LoseDatabase
<1> QED BY <1>1 DEF Known

(* What the Agent Hub learns when it is told of a run that is given.       *)
LEMMA LearnsKnown ==
  ASSUME Typed, NEW r \in Run, NEW status \in {"accepted"} \cup Terminal,
         r \in Given,
         status \in Terminal => /\ Endings[r] # "open"
                                /\ Endings[r] = status \/ r \in overlapped,
         Learns(r, status), UNCHANGED <<Given, Endings, overlapped>>
  PROVE  [Promise!Next]_(Promise!vars)
<1>a. hub \in [Run -> {"planned", "sent", "accepted"} \cup Terminal]
  BY Shapes
<1>1. CASE hub[r] \in Terminal
  <2>1. hub' = hub
    BY <1>a, <1>1 DEF Learns
  <2> QED BY <2>1 DEF Known, Promise!vars
<1>2. CASE hub[r] \notin Terminal
  <2>1. hub' = [hub EXCEPT ![r] = status]
    BY <1>a, <1>2 DEF Learns
  <2>2. Known' = [Known EXCEPT ![r] = status]
    BY <1>a, <2>1 DEF Known, Terminal
  <2>3. Known[r] \in {"nothing", "accepted"}
    BY <1>a, <1>2 DEF Known
  <2>4. CASE status \in Terminal
    <3>1. /\ status \in Promise!Ending /\ Known[r] \notin Promise!Ending
          /\ status = Endings[r] \/ r \in overlapped
      BY <2>3, <2>4 DEF Promise!Ending, Terminal
    <3>2. \E e \in Promise!Ending :
            /\ e = Endings[r] \/ r \in overlapped
            /\ Known' = [Known EXCEPT ![r] = e]
      <4> HIDE DEF Known, Endings
      <4> USE <3>1
      <4> WITNESS status \in Promise!Ending
      <4> QED BY <2>2
    <3>3. Promise!Tell(r)
      BY <2>4, <3>1, <3>2 DEF Promise!Tell
    <3> QED BY <3>3 DEF Promise!Next
  <2>5. CASE status = "accepted" /\ Known[r] = "nothing"
    <3>1. Promise!Accept(r)
      BY <2>2, <2>5 DEF Promise!Accept
    <3> QED BY <3>1 DEF Promise!Next
  <2>6. CASE status = "accepted" /\ Known[r] = "accepted"
    <3>1. Known' = Known
      BY <2>2, <2>6 DEF Known
    <3> QED BY <3>1 DEF Promise!vars
  <2> QED BY <2>3, <2>4, <2>5, <2>6
<1> QED BY <1>1, <1>2

LEMMA PromiseInit == Init => Promise!Init
  BY DEF Init, Promise!Init, Given, Endings, Known, Terminal

LEMMA PromiseStep ==
  ASSUME Typed, InHand, OneTask, Truth, [Next]_vars
  PROVE  [Promise!Next]_(Promise!vars)
<1> USE DEF ownerVars, hubVars
<1>1. ASSUME NEW q \in Request, Launch(q)
      PROVE  [Promise!Next]_(Promise!vars)
  <2> DEFINE r == request[q].run
  <2>1. r \in Run
    BY <1>1, Shapes DEF Launch, Serves, RequestFits
  <2>2. Given' = Given \cup {r}
    BY <1>1, <2>1, Shapes DEF Launch, Given
  <2>3. UNCHANGED <<Endings, Known, overlapped>>
    BY <1>1 DEF Launch, Endings, Known
  <2>4. Promise!Give(r)
    BY <2>2, <2>3 DEF Promise!Give
  <2> QED BY <2>1, <2>4 DEF Promise!Next
<1>2. ASSUME NEW s \in Slot, Finish(s)
      PROVE  [Promise!Next]_(Promise!vars)
  <2> DEFINE r == task[s].run
             e == StatusOf(task[s].result)
  <2>1. r \in Run /\ r \in Given
    BY <1>2, Shapes DEF Finish, At, TaskFits, InHand, Given
  <2>2. e \in Terminal
    BY Shapes DEF TaskType, Result, Terminal
  <2>3. UNCHANGED <<Given, Known, overlapped>>
    BY <1>2 DEF Finish, Given, Known
  <2>4. CASE receipt[r] \notin Terminal
    <3>1. receipt' = [receipt EXCEPT ![r] = e]
      BY <1>2, <2>4, Shapes DEF Finish
    <3>2. Endings' = [Endings EXCEPT ![r] = e] /\ Endings[r] = "open"
      BY <2>1, <2>2, <2>4, <3>1, Shapes DEF Endings
    <3>3. Promise!End(r)
      BY <2>1, <2>2, <2>3, <3>2 DEF Promise!End, Promise!Ending, Terminal
    <3> QED BY <2>1, <3>3 DEF Promise!Next
(* A second end of an overlapped run changes nothing.                      *)
  <2>5. CASE receipt[r] \in Terminal
    <3>1. receipt' = receipt
      BY <1>2, <2>1, <2>5, Shapes DEF Finish
    <3> QED BY <2>3, <3>1 DEF Endings, Promise!vars
  <2> QED BY <2>4, <2>5
<1>3. ASSUME NEW q \in Request, Answer(q)
      PROVE  [Promise!Next]_(Promise!vars)
  <2> DEFINE r == request[q].run
             a == request[q].answer
  <2>1. request[q].pc = "answer" /\ r \in Run /\ a \in {"accepted"} \cup Terminal
    BY <1>3, Shapes DEF Answer, Serves, RequestFits, RequestType
  <2>2. r \in Given
    BY <2>1 DEF InHand, Given
  <2>3. a \in Terminal => Endings[r] # "open" /\ Endings[r] = a
    BY <2>1 DEF Truth, AnswerTruth, Endings, Terminal
  <2>4. UNCHANGED <<Given, Endings, overlapped>>
    BY <1>3 DEF Answer, Given, Endings
  <2>5. Learns(r, a)
    BY <1>3 DEF Answer
  <2> HIDE DEF r, a
  <2> QED BY <2>1, <2>2, <2>3, <2>4, <2>5, LearnsKnown
<1>4. ASSUME NEW s \in Slot, NEW received \in BOOLEAN, NEW retry \in BOOLEAN,
             Report(s, received, retry)
      PROVE  [Promise!Next]_(Promise!vars)
  <2> DEFINE r == task[s].run
             e == StatusOf(task[s].result)
  <2>1. At(s, "central", "report") /\ r \in Run /\ r \in Given
    BY <1>4, Shapes DEF Report, At, TaskFits, InHand, Given
  <2>2. e \in Terminal
    BY Shapes DEF TaskType, Result, Terminal
  <2>3. Endings[r] # "open" /\ (Endings[r] = e \/ r \in overlapped)
    BY <2>1, <2>2 DEF Truth, TaskTruth, At, Endings, Terminal
  <2>4. UNCHANGED <<Endings, overlapped>>
    BY <1>4 DEF Report, Endings
  <2>5. Given' = Given
    <3>1. ASSUME NEW q \in Request, Launch(q) PROVE FALSE
      <4>1. request[q].pc = "launch" /\ request' = request
        BY <1>4, <3>1 DEF Report, Launch, Serves
      <4>2. request'[q].pc = "confirm"
        BY <3>1, Shapes DEF Launch
      <4> QED BY <4>1, <4>2
    <3> QED BY <3>1, GivenSame
  <2>6. CASE received
    <3>1. Learns(r, e)
      BY <1>4, <2>6 DEF Report
    <3> HIDE DEF r, e
    <3> QED BY <2>1, <2>2, <2>3, <2>4, <2>5, <3>1, LearnsKnown
  <2>7. CASE ~received
    <3>1. Known' = Known
      BY <1>4, <2>7 DEF Report, Known
    <3> QED BY <2>4, <2>5, <3>1 DEF Promise!vars
  <2> QED BY <2>6, <2>7
<1>5. ASSUME \A q \in Request : ~Launch(q) /\ ~Answer(q),
             \A s \in Slot : ~Finish(s),
             \A s \in Slot, a, b \in BOOLEAN : ~Report(s, a, b)
      PROVE  [Promise!Next]_(Promise!vars)
  <2>1. UNCHANGED <<Given, Endings, Known>>
    BY <1>5, GivenSame, EndingsSame, KnownSame
  <2>2. CASE overlapped' = overlapped
    BY <2>1, <2>2 DEF Promise!vars
  <2>3. ASSUME NEW s \in Slot, NEW r \in Run, StartRun(s, r),
               overlapped' = overlapped \cup {r}
        PROVE  [Promise!Next]_(Promise!vars)
    <3>1. r \in Given
      BY <2>3 DEF StartRun, Given
    <3>2. Promise!Overlap(r)
      BY <2>1, <2>3, <3>1 DEF Promise!Overlap
    <3> QED BY <3>2 DEF Promise!Next
  <2> QED BY <2>2, <2>3, OverlapMove
<1> QED BY <1>1, <1>2, <1>3, <1>4, <1>5

(* The handover implements OwnerPromise under every fault: accepted means  *)
(* given to Hatchet, a run ends once, and the Agent Hub learns an end only *)
(* after there is one, and that one unless two tasks of the run overlapped.*)
THEOREM PromiseKept == Spec => KeepsPromise
<1>1. Init => InHand
  BY DEF Init, InHand, NoRequest, NoTask
<1>2. Typed /\ InHand /\ OneTask /\ Truth /\ [Next]_vars
        => [Promise!Next]_(Promise!vars)
  BY PromiseStep
<1> QED
  BY <1>1, <1>2, PromiseInit, TypedInit, TypedNext, InHandNext, OnceInit,
     OneTaskNext, TruthNext, PTL DEF Spec, KeepsPromise, Promise!Spec
=============================================================================
