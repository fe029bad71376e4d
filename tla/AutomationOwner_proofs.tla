----------------------- MODULE AutomationOwner_proofs -----------------------
(***************************************************************************)
(* Proofs about the handover of a scheduled workflow.  What the receipts   *)
(* and the launch promise holds under every fault; that a tick respects    *)
(* the fence needs the session that locks the row to live, and that a run  *)
(* is operated on once needs Hatchet not to start a task it still has.     *)
(***************************************************************************)
EXTENDS AutomationOwner, TLAPS

USE ConstantsAssumption DEF ConstantsAssumption, RowFree, Reserved, MustLaunch,
    Confirmed, MayTick, Ended, AfterOperation, StatusOf, Finished

-----------------------------------------------------------------------------
(* Types: what the step of a request or of a task says of its run.         *)

RequestType == [pc : {"idle", "reserve", "launch", "confirm", "answer"},
                run : Run \cup {NoRun}, answer : {"none", "accepted"} \cup Terminal]
TaskType == [kind : {"none", "legacy", "central"},
             pc : {"idle", "open", "clock", "start", "operate", "close",
                   "read", "finish", "report"},
             run : Run \cup {NoRun}, live : BOOLEAN, result : Result]

RequestFits(j) ==
  /\ j.pc # "idle" => j.run \in Run
  /\ j.pc = "answer" => j.answer # "none"

TaskFits(t) ==
  /\ t.kind = "none" => t.pc = "idle" /\ t.run = NoRun /\ ~t.live
  /\ t.kind = "legacy" =>
       t.pc \in {"open", "clock", "start", "operate", "close"} /\ t.run = NoRun
  /\ t.kind = "central" =>
       t.pc \in {"read", "start", "operate", "finish", "report"} /\ t.run \in Run

Typed ==
  /\ TypeOK
  /\ \A q \in Request : RequestFits(request[q])
  /\ \A s \in Slot : TaskFits(task[s])

LEMMA CancelledTyped ==
  ASSUME NEW t \in TaskType, TaskFits(t)
  PROVE  Cancelled(t) \in TaskType /\ TaskFits(Cancelled(t))
  BY DEF Cancelled, TaskType, TaskFits, NoTask, Result, Terminal

LEMMA CancelledKeeps ==
  ASSUME NEW t \in TaskType, Cancelled(t).kind # "none"
  PROVE  /\ Cancelled(t).kind = t.kind /\ Cancelled(t).run = t.run
         /\ Cancelled(t).result = t.result
         /\ t.kind = "central" => Cancelled(t).pc = t.pc
         /\ t.kind = "legacy" => Cancelled(t).pc \in {t.pc, "close"}
  BY DEF Cancelled, TaskType, NoTask

(* Types in the form the provers use them.                                 *)
LEMMA Shapes ==
  ASSUME Typed
  PROVE  /\ request \in [Request -> RequestType] /\ task \in [Slot -> TaskType]
         /\ \A q \in Request : RequestFits(request[q])
         /\ \A s \in Slot : TaskFits(task[s])
         /\ fenced \in BOOLEAN /\ rowLock \in Slot \cup {NoSlot}
         /\ receipt \in [Run -> {"none", "dispatching", "accepted"} \cup Terminal]
         /\ hatchet \in [Run -> {"none", "queued", "running", "over"}]
         /\ thread \in [Slot -> {"none", "legacy", "central"}]
         /\ clock \in {"legacy", "central"} /\ fenceKnown \in BOOLEAN
         /\ hub \in [Run -> {"planned", "sent", "accepted"} \cup Terminal]
         /\ faults \in 0 .. MaxFaults /\ overlapped \subseteq Run
  BY DEF Typed, TypeOK, RequestType, TaskType

LEMMA TypedShapes ==
  ASSUME request \in [Request -> RequestType], task \in [Slot -> TaskType],
         \A q \in Request : RequestFits(request[q]),
         \A s \in Slot : TaskFits(task[s]),
         fenced \in BOOLEAN, rowLock \in Slot \cup {NoSlot},
         receipt \in [Run -> {"none", "dispatching", "accepted"} \cup Terminal],
         hatchet \in [Run -> {"none", "queued", "running", "over"}],
         thread \in [Slot -> {"none", "legacy", "central"}],
         clock \in {"legacy", "central"}, fenceKnown \in BOOLEAN,
         hub \in [Run -> {"planned", "sent", "accepted"} \cup Terminal],
         faults \in 0 .. MaxFaults, overlapped \subseteq Run
  PROVE  Typed
  BY DEF Typed, TypeOK, RequestType, TaskType

LEMMA NothingTyped ==
  /\ NoRequest \in RequestType /\ RequestFits(NoRequest)
  /\ NoTask \in TaskType /\ TaskFits(NoTask)
  BY DEF NoRequest, RequestType, RequestFits, NoTask, TaskType, TaskFits, Result,
     Terminal

LEMMA TypedInit == Init => Typed
<1> SUFFICES ASSUME Init PROVE Typed
  OBVIOUS
<1>1. request \in [Request -> RequestType] /\ task \in [Slot -> TaskType]
  BY NothingTyped DEF Init
<1>2. /\ \A q \in Request : RequestFits(request[q])
      /\ \A s \in Slot : TaskFits(task[s])
  BY NothingTyped DEF Init
<1>3. /\ fenced \in BOOLEAN /\ rowLock \in Slot \cup {NoSlot}
      /\ clock \in {"legacy", "central"} /\ fenceKnown \in BOOLEAN
  BY DEF Init
<1>4. faults \in 0 .. MaxFaults /\ overlapped \subseteq Run
  BY DEF Init
<1>5. /\ receipt \in [Run -> {"none", "dispatching", "accepted"} \cup Terminal]
      /\ hatchet \in [Run -> {"none", "queued", "running", "over"}]
      /\ thread \in [Slot -> {"none", "legacy", "central"}]
      /\ hub \in [Run -> {"planned", "sent", "accepted"} \cup Terminal]
  BY DEF Init
<1> QED BY <1>1, <1>2, <1>3, <1>4, <1>5, TypedShapes

LEMMA FaultTyped ==
  ASSUME Typed, NEW kind, Fault(kind)
  PROVE  faults' \in 0 .. MaxFaults
  BY Shapes DEF Fault

LEMMA TypedNext == Typed /\ [Next]_vars => Typed'
<1> SUFFICES ASSUME Typed, [Next]_vars PROVE Typed'
  OBVIOUS
<1> USE DEF ownerVars, hubVars
<1>a. request \in [Request -> RequestType] /\ task \in [Slot -> TaskType]
  BY Shapes
<1>1. CASE Fence \/ Cutover \/ UNCHANGED vars
  BY <1>1 DEF Fence, Cutover, vars, Typed, TypeOK
<1>2. ASSUME NEW q \in Request, NEW r \in Run, Send(q, r)
      PROVE  Typed'
  <2>1. /\ request' \in [Request -> RequestType]
        /\ \A p \in Request : RequestFits(request'[p])
    BY <1>a, <1>2, Shapes DEF Send, RequestType, RequestFits
  <2>2. hub' \in [Run -> {"planned", "sent", "accepted"} \cup Terminal]
    BY <1>2, Shapes DEF Send, Learns
  <2> QED BY <1>2, <2>1, <2>2, Shapes DEF Send, Typed, TypeOK, RequestType
<1>3. ASSUME NEW q \in Request, Serve(q) \/ LoseRequest(q)
      PROVE  Typed'
  <2>1. /\ request' \in [Request -> RequestType]
        /\ \A p \in Request : RequestFits(request'[p])
    <3>1. /\ request' = [request EXCEPT ![q] = request'[q]]
          /\ request'[q] \in RequestType /\ RequestFits(request'[q])
      <4>1. CASE Answer(q) \/ LoseRequest(q)
        BY <4>1, <1>a, NothingTyped DEF Answer, LoseRequest
      <4>2. CASE Launch(q)
        BY <4>2, <1>a, Shapes DEF Launch, Serves, RequestType, RequestFits
      <4>3. CASE Reserve(q)
        <5>1. /\ request[q] \in RequestType /\ request[q].run \in Run
              /\ receipt[request[q].run]
                   \in {"none", "dispatching", "accepted"} \cup Terminal
          BY <4>3, <1>a, Shapes DEF Reserve, Serves, RequestFits
        <5>2. PICK a \in {"accepted"} \cup Terminal :
                request' = [request EXCEPT ![q] =
                  IF MustLaunch(receipt[request[q].run])
                  THEN [@ EXCEPT !.pc = "launch"]
                  ELSE [@ EXCEPT !.pc = "answer", !.answer = a]]
          <6>1. CASE receipt[request[q].run] \in Terminal
            BY <4>3, <6>1 DEF Reserve
          <6>2. CASE receipt[request[q].run] \notin Terminal
            BY <4>3, <6>2 DEF Reserve
          <6> QED BY <6>1, <6>2
        <5>3. /\ request' = [request EXCEPT ![q] = request'[q]]
              /\ \/ request'[q] = [request[q] EXCEPT !.pc = "launch"]
                 \/ request'[q] = [request[q] EXCEPT !.pc = "answer",
                                                     !.answer = a]
          BY <5>2, <1>a
        <5>4. a # "none"
          BY DEF Terminal
        <5>5. request'[q] \in RequestType /\ RequestFits(request'[q])
          BY <5>1, <5>3, <5>4 DEF RequestType, RequestFits
        <5> QED BY <5>3, <5>5
      <4>4. CASE Confirm(q)
        <5>1. /\ request' = [request EXCEPT ![q] = request'[q]]
              /\ request'[q] = [request[q] EXCEPT !.pc = "answer",
                                                  !.answer = "accepted"]
          BY <4>4, <1>a DEF Confirm
        <5>2. request[q] \in RequestType /\ request[q].run \in Run
          BY <4>4, <1>a, Shapes DEF Confirm, Serves, RequestFits
        <5> QED BY <5>1, <5>2 DEF RequestType, RequestFits
      <4> QED BY <1>3, <4>1, <4>2, <4>3, <4>4 DEF Serve
    <3> QED BY <1>a, <3>1, Shapes
  <2>2. receipt' \in [Run -> {"none", "dispatching", "accepted"} \cup Terminal]
    BY <1>a, <1>3, Shapes DEF Serve, Reserve, Launch, Confirm, Answer,
       LoseRequest, Serves, RequestFits
  <2>3. hatchet' \in [Run -> {"none", "queued", "running", "over"}]
    BY <1>a, <1>3, Shapes DEF Serve, Reserve, Launch, Confirm, Answer,
       LoseRequest, Serves, RequestFits
  <2>4. hub' \in [Run -> {"planned", "sent", "accepted"} \cup Terminal]
    BY <1>a, <1>3, Shapes DEF Serve, Reserve, Launch, Confirm, Answer,
       LoseRequest, Serves, RequestFits, RequestType, Learns
  <2>5. faults' \in 0 .. MaxFaults
    BY <1>3, FaultTyped, Shapes DEF Serve, Reserve, Launch, Confirm, Answer,
       LoseRequest
  <2>6. UNCHANGED <<fenced, rowLock, overlapped, task, thread, clock, fenceKnown>>
    BY <1>3 DEF Serve, Reserve, Launch, Confirm, Answer, LoseRequest
  <2> QED BY <2>1, <2>2, <2>3, <2>4, <2>5, <2>6 DEF Typed, TypeOK, RequestType
(* A step that starts or stops tasks cancels others.                       *)
<1>4. ASSUME NEW s \in Slot,
             \/ StartTick(s) \/ Cancel(s) \/ Timeout(s)
             \/ \E r \in Run : StartRun(s, r)
      PROVE  Typed'
  <2>1. /\ task' \in [Slot -> TaskType]
        /\ \A v \in Slot : TaskFits(task'[v])
    <3>1. \A v \in Slot : /\ Cancelled(task[v]) \in TaskType
                          /\ TaskFits(Cancelled(task[v]))
      BY <1>a, CancelledTyped, Shapes
    <3>2. /\ NewTask("legacy", NoRun, "open") \in TaskType
          /\ TaskFits(NewTask("legacy", NoRun, "open"))
          /\ \A r \in Run : /\ NewTask("central", r, "read") \in TaskType
                            /\ TaskFits(NewTask("central", r, "read"))
      BY DEF NewTask, TaskType, TaskFits, Result, Terminal
    <3> QED BY <1>4, <1>a, <3>1, <3>2, Shapes
            DEF StartTick, StartRun, StartTask, Cancel, Timeout, Stop
  <2>2. hatchet' \in [Run -> {"none", "queued", "running", "over"}]
    BY <1>4, Shapes DEF StartTick, StartRun, Cancel, Timeout, Stop
  <2>3. faults' \in 0 .. MaxFaults
    BY <1>4, FaultTyped, Shapes DEF StartTick, StartRun, Cancel, Timeout
  <2>4. /\ UNCHANGED <<fenced, rowLock, receipt, request, thread, hubVars>>
        /\ overlapped' \subseteq Run
    BY <1>4, Shapes DEF StartTick, StartRun, Cancel, Timeout, Stop
  <2> QED BY <2>1, <2>2, <2>3, <2>4, <1>a DEF Typed, TypeOK, TaskType
<1>5. ASSUME Crash
      PROVE  Typed'
  <2>1. faults' \in 0 .. MaxFaults
    BY <1>5, FaultTyped DEF Crash
  <2>2. /\ task' \in [Slot -> TaskType]
        /\ \A s \in Slot : TaskFits(task'[s])
    BY <1>5, NothingTyped DEF Crash
  <2>3. /\ hatchet' \in [Run -> {"none", "queued", "running", "over"}]
        /\ thread' \in [Slot -> {"none", "legacy", "central"}]
    BY <1>5, Shapes DEF Crash
  <2>4. /\ rowLock' \in Slot \cup {NoSlot}
        /\ UNCHANGED <<fenced, receipt, overlapped, request, hubVars>>
    BY <1>5 DEF Crash
  <2> QED BY <1>a, <2>1, <2>2, <2>3, <2>4 DEF Typed, TypeOK, TaskType
<1>6. ASSUME NEW s \in Slot, Work(s)
      PROVE  Typed'
  <2>1. /\ task' \in [Slot -> TaskType]
        /\ \A v \in Slot : TaskFits(task'[v])
    <3>1. /\ task' = [task EXCEPT ![s] = task'[s]]
          /\ task'[s] \in TaskType /\ TaskFits(task'[s])
      <4>1. CASE CloseLease(s) \/ \E received, retry \in BOOLEAN :
                                    Report(s, received, retry)
        BY <4>1, <1>a, NothingTyped DEF CloseLease, Report, Leave
      <4>2. CASE OpenLease(s) \/ \E reachable \in BOOLEAN :
                                   ReadClock(s, reachable)
        <5>1. task[s] \in TaskType /\ TaskFits(task[s]) /\ task[s].kind = "legacy"
          BY <4>2, <1>a, Shapes DEF OpenLease, ReadClock, At
        <5>2. \/ task' = [task EXCEPT ![s] = NoTask]
              \/ \E step \in {"clock", "start", "close"} :
                   task' = [task EXCEPT ![s].pc = step]
          BY <4>2 DEF OpenLease, ReadClock, Step
        <5>3. ASSUME NEW step \in {"clock", "start", "close"}
              PROVE  /\ [task[s] EXCEPT !.pc = step] \in TaskType
                     /\ TaskFits([task[s] EXCEPT !.pc = step])
          BY <5>1 DEF TaskType, TaskFits
        <5> QED BY <5>2, <5>3, <1>a, NothingTyped
      <4>3. CASE ReadReceipt(s) \/ StartOperation(s) \/ Finish(s)
        BY <4>3, <1>a, Shapes, NothingTyped DEF ReadReceipt, StartOperation,
           Finish, At, Step, Leave, TaskType, TaskFits
      <4>4. CASE \E result \in Outcome : EndOperation(s, result)
        <5>1. PICK result \in Outcome :
                task'[s] = IF task[s].kind = "legacy"
                           THEN [task[s] EXCEPT !.pc = "close"]
                           ELSE [task[s] EXCEPT !.pc = "finish", !.result = result]
          BY <4>4, <1>a DEF EndOperation
        <5>2. task[s] \in TaskType /\ TaskFits(task[s]) /\ task[s].pc = "operate"
          BY <4>4, <1>a, Shapes DEF EndOperation
        <5>3. task'[s] \in TaskType /\ TaskFits(task'[s])
          <6>1. CASE task[s].kind = "legacy"
            BY <5>1, <5>2, <6>1 DEF TaskType, TaskFits
          <6>2. CASE task[s].kind # "legacy"
            <7>1. task[s].kind = "central"
              BY <5>2, <6>2 DEF TaskType, TaskFits
            <7> QED BY <5>1, <5>2, <7>1 DEF TaskType, TaskFits, Result, Terminal
          <6> QED BY <6>1, <6>2
        <5> QED BY <4>4, <5>3, <1>a DEF EndOperation
      <4>5. CASE EndOrphan(s)
        BY <4>5, <1>a, Shapes DEF EndOrphan
      <4> QED BY <1>6, <4>1, <4>2, <4>3, <4>4, <4>5 DEF Work
    <3> QED BY <1>a, <3>1, Shapes
  <2>2. receipt' \in [Run -> {"none", "dispatching", "accepted"} \cup Terminal]
    <3>1. CASE Finish(s)
      BY <3>1, <1>a, Shapes DEF Finish, At, TaskType, TaskFits, Result, Terminal
    <3>2. CASE ~Finish(s)
      BY <1>6, <3>2, Shapes DEF Work, OpenLease, CloseLease, ReadClock,
         ReadReceipt, StartOperation, EndOrphan, EndOperation, Report
    <3> QED BY <3>1, <3>2
  <2>3. hatchet' \in [Run -> {"none", "queued", "running", "over"}]
    BY <1>6, <1>a, Shapes DEF Work, OpenLease, CloseLease, ReadClock,
       ReadReceipt, StartOperation, EndOrphan, Finish, EndOperation, Report,
       At, Leave, TaskType, TaskFits
  <2>4. thread' \in [Slot -> {"none", "legacy", "central"}]
    BY <1>6, <1>a, Shapes DEF Work, OpenLease, CloseLease, ReadClock,
       ReadReceipt, StartOperation, EndOrphan, Finish, EndOperation, Report,
       TaskType
  <2>5. hub' \in [Run -> {"planned", "sent", "accepted"} \cup Terminal]
    <3>1. ASSUME NEW received \in BOOLEAN, NEW retry \in BOOLEAN,
                 Report(s, received, retry)
          PROVE  hub' \in [Run -> {"planned", "sent", "accepted"} \cup Terminal]
      BY <3>1, <1>a, Shapes DEF Report, At, Learns, TaskType, TaskFits, Result,
         Terminal
    <3>2. CASE ~\E received, retry \in BOOLEAN : Report(s, received, retry)
      BY <1>6, <3>2, Shapes DEF Work, OpenLease, CloseLease, ReadClock,
         ReadReceipt, StartOperation, EndOrphan, Finish, EndOperation
    <3> QED BY <3>1, <3>2
  <2>6. /\ rowLock' \in Slot \cup {NoSlot}
        /\ UNCHANGED <<fenced, overlapped, request, clock, fenceKnown, faults>>
    BY <1>6, Shapes DEF Work, OpenLease, CloseLease, ReadClock, ReadReceipt,
       StartOperation, EndOrphan, Finish, EndOperation, Report
  <2> QED BY <1>a, <2>1, <2>2, <2>3, <2>4, <2>5, <2>6 DEF Typed, TypeOK, TaskType
<1>7. ASSUME NEW s \in Slot,
             \/ LoseContact(s) \/ LoseSession(s)
             \/ \E retry \in BOOLEAN : LoseDatabase(s, retry)
      PROVE  Typed'
  <2>1. /\ task' \in [Slot -> TaskType]
        /\ \A v \in Slot : TaskFits(task'[v])
    <3>1. /\ task' = [task EXCEPT ![s] = task'[s]]
          /\ task'[s] \in TaskType /\ TaskFits(task'[s])
      <4>1. CASE LoseContact(s)
        <5>1. /\ task' = [task EXCEPT ![s] = task'[s]]
              /\ task'[s] = [task[s] EXCEPT !.live = FALSE]
          BY <4>1, <1>a DEF LoseContact
        <5>2. task[s] \in TaskType /\ TaskFits(task[s])
          BY <1>a, Shapes
        <5> QED BY <5>1, <5>2 DEF TaskType, TaskFits
      <4>2. CASE LoseSession(s)
        BY <4>2, <1>a, Shapes DEF LoseSession
      <4>3. CASE \E retry \in BOOLEAN : LoseDatabase(s, retry)
        BY <4>3, <1>a, NothingTyped DEF LoseDatabase, Leave
      <4> QED BY <1>7, <4>1, <4>2, <4>3
    <3> QED BY <1>a, <3>1, Shapes
  <2>2. hatchet' \in [Run -> {"none", "queued", "running", "over"}]
    BY <1>7, <1>a, Shapes DEF LoseContact, LoseSession, LoseDatabase, At, Leave
  <2>3. faults' \in 0 .. MaxFaults
    BY <1>7, FaultTyped DEF LoseContact, LoseSession, LoseDatabase
  <2>4. /\ rowLock' \in Slot \cup {NoSlot}
        /\ UNCHANGED <<fenced, receipt, overlapped, request, thread, hubVars>>
    BY <1>7, Shapes DEF LoseContact, LoseSession, LoseDatabase
  <2> QED BY <1>a, <2>1, <2>2, <2>3, <2>4 DEF Typed, TypeOK, TaskType
<1> QED
  BY <1>1, <1>2, <1>3, <1>4, <1>5, <1>6, <1>7 DEF Next, Disturb

(* Every variable keeps its type, whatever fails.                          *)
THEOREM TypeCorrect == Spec => []TypeOK
<1>1. Typed => TypeOK
  BY DEF Typed
<1> QED BY <1>1, TypedInit, TypedNext, PTL DEF Spec

(* At work a task keeps its kind and run, or ends.                         *)
LEMMA WorkKeeps ==
  ASSUME task \in [Slot -> TaskType], NEW s \in Slot,
         \/ Work(s) \/ LoseContact(s) \/ LoseSession(s)
         \/ \E retry \in BOOLEAN : LoseDatabase(s, retry),
         NEW v \in Slot
  PROVE  /\ v # s => task'[v] = task[v]
         /\ task'[v].kind # "none"
            => task'[v].kind = task[v].kind /\ task'[v].run = task[v].run
<1>1. CASE CloseLease(s) \/ \E received, retry \in BOOLEAN :
                              \/ Report(s, received, retry)
                              \/ LoseDatabase(s, retry)
  BY <1>1 DEF CloseLease, Report, LoseDatabase, Leave, NoTask
<1>2. CASE OpenLease(s) \/ ReadReceipt(s) \/ Finish(s)
  BY <1>2 DEF OpenLease, ReadReceipt, Finish, Leave, Step, NoTask, TaskType
<1>3. CASE StartOperation(s) \/ \E reachable \in BOOLEAN : ReadClock(s, reachable)
  BY <1>3 DEF StartOperation, ReadClock, Step, TaskType
<1>4. CASE \E result \in Outcome : EndOperation(s, result)
  <2>1. PICK result \in Outcome : task' = [task EXCEPT ![s] =
          IF task[s].kind = "legacy" THEN [task[s] EXCEPT !.pc = "close"]
          ELSE [task[s] EXCEPT !.pc = "finish", !.result = result]]
    BY <1>4 DEF EndOperation
  <2>2. /\ v # s => task'[v] = task[v]
        /\ task'[s] = IF task[s].kind = "legacy" THEN [task[s] EXCEPT !.pc = "close"]
                      ELSE [task[s] EXCEPT !.pc = "finish", !.result = result]
    BY <2>1
  <2>3. task'[s].kind = task[s].kind /\ task'[s].run = task[s].run
    BY <2>2 DEF TaskType
  <2> QED BY <2>2, <2>3
<1>5. CASE EndOrphan(s) \/ LoseSession(s)
  BY <1>5 DEF EndOrphan, LoseSession
<1>6. CASE LoseContact(s)
  BY <1>6 DEF LoseContact, TaskType
<1> QED BY <1>1, <1>2, <1>3, <1>4, <1>5, <1>6 DEF Work

-----------------------------------------------------------------------------
(* The receipts.                                                           *)

LEMMA ReceiptKeeps ==
  ASSUME Typed, [Next]_vars
  PROVE  \A r \in Run : receipt[r] \in Terminal => receipt'[r] = receipt[r]
<1>1. CASE \E q \in Request : Reserve(q) \/ Confirm(q)
  BY <1>1, Shapes DEF Reserve, Confirm, Terminal
<1>2. CASE \E s \in Slot : Finish(s)
  BY <1>2, Shapes DEF Finish
<1>3. CASE UNCHANGED receipt
  BY <1>3
<1>4. \/ UNCHANGED receipt
      \/ \E q \in Request : Reserve(q) \/ Confirm(q)
      \/ \E s \in Slot : Finish(s)
  BY DEF Next, vars, ownerVars, Fence, Cutover, Crash, Serve, Launch,
     Answer, LoseRequest, Send, StartTick, StartRun, Work, OpenLease,
     CloseLease, ReadClock, ReadReceipt, StartOperation, EndOrphan,
     EndOperation, Report, Disturb, Cancel, Timeout, Stop, LoseContact,
     LoseSession, LoseDatabase
<1> QED BY <1>1, <1>2, <1>3, <1>4

(* A terminal receipt is never changed: neither by a late confirmation nor *)
(* by a second execution of its run.                                       *)
THEOREM TerminalIsFinal == Spec => ReceiptFinal
<1>1. Typed /\ [Next]_vars =>
        [\A r \in Run : receipt[r] \in Terminal => receipt'[r] = receipt[r]]_vars
  BY ReceiptKeeps
<1> QED BY <1>1, TypedInit, TypedNext, PTL DEF Spec, ReceiptFinal

-----------------------------------------------------------------------------
(* The launch.  Whoever speaks of an accepted run does so after Hatchet    *)
(* was given its task, and Hatchet forgets none.                           *)

InHand ==
  /\ \A r \in Run : receipt[r] \notin {"none", "dispatching"} => hatchet[r] # "none"
  /\ \A r \in Run : hub[r] = "accepted" => hatchet[r] # "none"
  /\ \A q \in Request :
       request[q].pc \in {"confirm", "answer"} => hatchet[request[q].run] # "none"
  /\ \A s \in Slot : task[s].kind = "central" => hatchet[task[s].run] # "none"

LEMMA HatchetKeeps ==
  ASSUME Typed, [Next]_vars
  PROVE  \A r \in Run : hatchet[r] # "none" => hatchet'[r] # "none"
<1>1. CASE \E q \in Request : Launch(q)
  BY <1>1, Shapes DEF Launch
<1>2. CASE \E s \in Slot : \/ StartTick(s) \/ Cancel(s) \/ Timeout(s)
                           \/ \E r \in Run : StartRun(s, r)
  BY <1>2, Shapes DEF StartTick, StartRun, Cancel, Timeout, Stop
<1>3. CASE Crash
  BY <1>3, Shapes DEF Crash
<1>4. CASE \E s \in Slot : \/ ReadReceipt(s) \/ LoseContact(s)
                           \/ \E a, b \in BOOLEAN : Report(s, a, b)
                           \/ \E retry \in BOOLEAN : LoseDatabase(s, retry)
  BY <1>4, Shapes DEF ReadReceipt, Report, LoseContact, LoseDatabase, Leave, Step
<1>5. CASE UNCHANGED hatchet
  BY <1>5
<1> QED
  BY <1>1, <1>2, <1>3, <1>4, <1>5 DEF Next, vars, Fence, Cutover, Serve,
     Reserve, Confirm, Answer, LoseRequest, Send, Work, OpenLease, CloseLease,
     ReadClock, StartOperation, EndOrphan, EndOperation, Finish, Disturb,
     LoseSession

LEMMA InHandNext == Typed /\ InHand /\ [Next]_vars => InHand'
<1> SUFFICES ASSUME Typed, InHand, [Next]_vars PROVE InHand'
  OBVIOUS
<1> USE DEF ownerVars, hubVars
<1>a. request \in [Request -> RequestType] /\ task \in [Slot -> TaskType]
  BY Shapes
<1>b. \A r \in Run : hatchet[r] # "none" => hatchet'[r] # "none"
  BY HatchetKeeps
<1>c. \A s \in Slot : task[s].kind = "central" => task[s].run \in Run
  BY Shapes DEF TaskFits
<1>d. \A q \in Request : request[q].pc # "idle" => request[q].run \in Run
  BY Shapes DEF RequestFits
<1>1. \A r \in Run : receipt'[r] \notin {"none", "dispatching"} => hatchet'[r] # "none"
  <2>1. ASSUME NEW q \in Request, Reserve(q) \/ Confirm(q)
        PROVE  \A r \in Run : receipt'[r] \notin {"none", "dispatching"}
                              => hatchet'[r] # "none"
    BY <2>1, <1>b, <1>d, Shapes DEF InHand, Reserve, Confirm, Serves
  <2>2. ASSUME NEW s \in Slot, Finish(s)
        PROVE  \A r \in Run : receipt'[r] \notin {"none", "dispatching"}
                              => hatchet'[r] # "none"
    BY <2>2, <1>b, <1>c, Shapes DEF InHand, Finish, At
  <2>3. CASE UNCHANGED receipt
    BY <2>3, <1>b DEF InHand
  <2> QED
    BY <2>1, <2>2, <2>3 DEF Next, vars, Fence, Cutover, Crash, Serve, Launch,
       Answer, LoseRequest, Send, StartTick, StartRun, Work, OpenLease,
       CloseLease, ReadClock, ReadReceipt, StartOperation, EndOrphan,
       EndOperation, Report, Disturb, Cancel, Timeout, Stop, LoseContact,
       LoseSession, LoseDatabase
<1>2. \A r \in Run : hub'[r] = "accepted" => hatchet'[r] # "none"
  <2>1. ASSUME NEW q \in Request, Answer(q) \/ \E r \in Run : Send(q, r)
        PROVE  \A r \in Run : hub'[r] = "accepted" => hatchet'[r] # "none"
    BY <2>1, <1>b, <1>d, Shapes DEF InHand, Answer, Send, Learns, Serves
  <2>2. ASSUME NEW s \in Slot, \E a, b \in BOOLEAN : Report(s, a, b)
        PROVE  \A r \in Run : hub'[r] = "accepted" => hatchet'[r] # "none"
    BY <2>2, <1>b, <1>c, Shapes DEF InHand, Report, Learns, At, TaskType
  <2>3. CASE UNCHANGED hub
    BY <2>3, <1>b DEF InHand
  <2> QED
    BY <2>1, <2>2, <2>3 DEF Next, vars, Fence, Cutover, Crash, Serve, Reserve,
       Launch, Confirm, LoseRequest, StartTick, StartRun, Work, OpenLease,
       CloseLease, ReadClock, ReadReceipt, StartOperation, EndOrphan,
       EndOperation, Finish, Disturb, Cancel, Timeout, Stop, LoseContact,
       LoseSession, LoseDatabase
<1>3. \A q \in Request :
        request'[q].pc \in {"confirm", "answer"} => hatchet'[request'[q].run] # "none"
  <2>1. ASSUME NEW q \in Request,
               Answer(q) \/ LoseRequest(q) \/ \E r \in Run : Send(q, r)
        PROVE  \A p \in Request : request'[p].pc \in {"confirm", "answer"}
                                  => hatchet'[request'[p].run] # "none"
    BY <2>1, <1>a, <1>b, <1>d DEF InHand, Answer, LoseRequest, Send, NoRequest
  <2>2. ASSUME NEW q \in Request, Reserve(q) \/ Launch(q) \/ Confirm(q)
        PROVE  \A p \in Request : request'[p].pc \in {"confirm", "answer"}
                                  => hatchet'[request'[p].run] # "none"
    <3>1. request'[q].run = request[q].run
      <4>1. CASE Reserve(q)
        BY <4>1, <1>a DEF Reserve, RequestType
      <4>2. CASE Launch(q)
        BY <4>2, <1>a DEF Launch, RequestType
      <4>3. CASE Confirm(q)
        BY <4>3, <1>a DEF Confirm, RequestType
      <4> QED BY <2>2, <4>1, <4>2, <4>3
    <3>2. request'[q].pc \in {"confirm", "answer"} => hatchet'[request[q].run] # "none"
      <4>1. CASE Reserve(q)
        BY <4>1, <1>a, <1>b, <1>d, Shapes DEF InHand, Reserve, Serves, Terminal
      <4>2. CASE Launch(q)
        BY <4>2, <1>d, Shapes DEF Launch, Serves
      <4>3. CASE Confirm(q)
        BY <4>3, <1>b, <1>d DEF InHand, Confirm, Serves
      <4> QED BY <2>2, <4>1, <4>2, <4>3
    <3>3. \A p \in Request : p # q => request'[p] = request[p]
      BY <2>2, <1>a DEF Reserve, Launch, Confirm
    <3> QED BY <3>1, <3>2, <3>3, <1>b, <1>d DEF InHand
  <2>3. CASE UNCHANGED request
    BY <2>3, <1>b, <1>d DEF InHand
  <2> QED
    BY <2>1, <2>2, <2>3 DEF Next, vars, Fence, Cutover, Crash, Serve, StartTick,
       StartRun, Work, OpenLease, CloseLease, ReadClock, ReadReceipt,
       StartOperation, EndOrphan, EndOperation, Report, Finish, Disturb, Cancel,
       Timeout, Stop, LoseContact, LoseSession, LoseDatabase
<1>4. \A s \in Slot : task'[s].kind = "central" => hatchet'[task'[s].run] # "none"
  <2>1. ASSUME NEW s \in Slot, NEW r \in Run, StartRun(s, r)
        PROVE  \A v \in Slot :
                 task'[v].kind = "central" => hatchet'[task'[v].run] # "none"
    <3>1. hatchet'[r] # "none"
      BY <2>1, Shapes DEF StartRun
    <3>2. task'[s].run = r
      BY <2>1 DEF StartRun, StartTask, NewTask
    <3>3. \A v \in Slot : v # s => task'[v] = Cancelled(task[v])
      BY <2>1 DEF StartRun, StartTask
    <3>4. \A v \in Slot : v # s /\ task'[v].kind = "central"
                         => task[v].kind = "central" /\ task'[v].run = task[v].run
      BY <3>3, <1>a, CancelledKeeps
    <3> QED BY <3>1, <3>2, <3>4, <1>b, <1>c DEF InHand
  <2>2. ASSUME ~\E s \in Slot, r \in Run : StartRun(s, r)
        PROVE  \A v \in Slot :
                 task'[v].kind = "central"
                 => task[v].kind = "central" /\ task'[v].run = task[v].run
    <3>1. ASSUME NEW s \in Slot, StartTick(s) \/ Cancel(s) \/ Timeout(s),
                 NEW v \in Slot
          PROVE  task'[v].kind = "central"
                 => task[v].kind = "central" /\ task'[v].run = task[v].run
      BY <3>1, <1>a, CancelledKeeps DEF StartTick, StartTask, NewTask, Cancel,
         Timeout, Stop
    <3>2. ASSUME NEW s \in Slot,
                 \/ Work(s) \/ LoseContact(s) \/ LoseSession(s)
                 \/ \E retry \in BOOLEAN : LoseDatabase(s, retry),
                 NEW v \in Slot
          PROVE  task'[v].kind = "central"
                 => task[v].kind = "central" /\ task'[v].run = task[v].run
      BY <3>2, <1>a, WorkKeeps
    <3>3. CASE Crash
      BY <3>3 DEF Crash, NoTask
    <3>4. CASE UNCHANGED task
      BY <3>4
    <3> QED
      BY <2>2, <3>1, <3>2, <3>3, <3>4 DEF Next, vars, Fence, Cutover, Serve,
         Reserve, Launch, Confirm, Answer, LoseRequest, Send, Disturb
  <2> QED BY <2>1, <2>2, <1>b, <1>c DEF InHand
<1> QED BY <1>1, <1>2, <1>3, <1>4 DEF InHand

(* What is called accepted, in the receipts or by the Agent Hub, has been  *)
(* given to Hatchet, wherever a dispatch was interrupted.                  *)
THEOREM AcceptedLaunched == Spec => []AcceptedIsLaunched
<1>1. Init => InHand
  BY DEF Init, InHand, NoRequest, NoTask
<1>2. InHand => AcceptedIsLaunched
  BY DEF InHand, AcceptedIsLaunched
<1> QED BY <1>1, <1>2, TypedInit, TypedNext, InHandNext, PTL DEF Spec
=============================================================================
