-------------------------- MODULE AutomationOwner --------------------------
(***************************************************************************)
(* Who runs one scheduled workflow of Portfolio AI                         *)
(* (backend/app/services/agent_hub_automation_owner.py): the old cron,     *)
(* whose ticks hold the workflow's fence row while they work, or the Agent *)
(* Hub, which dispatches runs and keeps asking until it knows how each     *)
(* ended.  Hatchet, the task queue, starts the tasks of both, one at a     *)
(* time: a new one cancels the one in progress.  Agent Hub and Hatchet are *)
(* outside the repository and modelled as the code uses them.              *)
(***************************************************************************)
EXTENDS Naturals

CONSTANTS
  Run,          \* run ids the Agent Hub gives out
  NoRun,        \* the run of a tick
  Request,      \* threads that serve dispatch requests
  Slot,         \* task slots of the worker process
  NoSlot,       \* nobody: the fence row is not locked
  Outcome,      \* how operations may end
  Ticks,        \* whether the old cron still fires
  FaultKinds,   \* the faults that may happen
  MaxFaults     \* bound on them

ASSUME ConstantsAssumption ==
  /\ NoRun \notin Run /\ NoSlot \notin Slot
  /\ Outcome \subseteq {"succeeded", "failed", "skipped", "raised"}
  /\ Ticks \in BOOLEAN
  /\ FaultKinds \subseteq {"request", "crash", "cancel", "timeout",
                           "database", "lost", "session"}
  /\ MaxFaults \in Nat

VARIABLES
  fenced,       \* automation_legacy_fences.fenced
  rowLock,      \* the slot whose transaction locks that row
  receipt,      \* receipt[r]: automation_owner_receipts.status
  request,      \* request[q]: the dispatch a thread serves
  hatchet,      \* hatchet[r]: the task Hatchet has under the key r
  task,         \* task[s]: the coroutine in slot s
  thread,       \* thread[s]: the domain operation in the thread it started
  clock,        \* Agent Hub: whose clock the profile names
  fenceKnown,   \* Agent Hub: it holds the fence's receipt
  hub,          \* hub[r]: what the Agent Hub knows of r
  faults,       \* faults so far
  overlapped    \* history: runs Hatchet started while a task of them was on

ownerVars == <<fenced, rowLock, receipt, overlapped>>
hubVars   == <<clock, fenceKnown, hub>>
vars == <<ownerVars, request, hatchet, task, thread, hubVars, faults>>

Terminal == {"succeeded", "failed", "skipped"}
Result   == Terminal \cup {"raised"}
NoRequest == [pc |-> "idle", run |-> NoRun, answer |-> "none"]
NoTask    == [kind |-> "none", pc |-> "idle", run |-> NoRun, live |-> FALSE,
              result |-> "skipped"]
NewTask(kind, r, step) == [kind |-> kind, pc |-> step, run |-> r,
                           live |-> TRUE, result |-> "skipped"]

TypeOK ==
  /\ fenced \in BOOLEAN /\ rowLock \in Slot \cup {NoSlot}
  /\ receipt \in [Run -> {"none", "dispatching", "accepted"} \cup Terminal]
  /\ request \in [Request -> [pc : {"idle", "reserve", "launch", "confirm",
                                    "answer"},
                              run : Run \cup {NoRun},
                              answer : {"none", "accepted"} \cup Terminal]]
  /\ hatchet \in [Run -> {"none", "queued", "running", "over"}]
  /\ task \in [Slot -> [kind : {"none", "legacy", "central"},
                        pc : {"idle", "open", "clock", "start", "operate",
                              "close", "read", "finish", "report"},
                        run : Run \cup {NoRun}, live : BOOLEAN,
                        result : Result]]
  /\ thread \in [Slot -> {"none", "legacy", "central"}]
  /\ clock \in {"legacy", "central"} /\ fenceKnown \in BOOLEAN
  /\ hub \in [Run -> {"planned", "sent", "accepted"} \cup Terminal]
  /\ faults \in 0 .. MaxFaults /\ overlapped \subseteq Run

Init ==
  /\ fenced = FALSE /\ rowLock = NoSlot
  /\ receipt = [r \in Run |-> "none"]
  /\ request = [q \in Request |-> NoRequest]
  /\ hatchet = [r \in Run |-> "none"]
  /\ task = [s \in Slot |-> NoTask] /\ thread = [s \in Slot |-> "none"]
  /\ clock = "legacy" /\ fenceKnown = FALSE
  /\ hub = [r \in Run |-> "planned"]
  /\ faults = 0 /\ overlapped = {}

At(s, kind, step) == task[s].kind = kind /\ task[s].pc = step
Serves(q, step) == request[q].pc = step
Fault(kind) == /\ kind \in FaultKinds /\ faults < MaxFaults
               /\ faults' = faults + 1

(* The Agent Hub does not forget how a run ended.                          *)
Learns(r, status) == hub' = [hub EXCEPT ![r] = IF @ \in Terminal THEN @ ELSE status]

-----------------------------------------------------------------------------
(* The fence between the two clocks.                                       *)

(* FOR UPDATE NOWAIT: refused while a tick has the row.                    *)
RowFreeIgnored == TRUE
RowFree == rowLock = NoSlot

(* fence_legacy_workflow, asked again until an answer arrives.             *)
Fence ==
  /\ RowFree
  /\ fenced' = TRUE
  /\ fenceKnown' \in {fenceKnown, TRUE}
  /\ UNCHANGED <<rowLock, receipt, overlapped, request, hatchet, task, thread,
                 clock, hub, faults>>

(* With the fence's receipt the Agent Hub takes the clock over.            *)
Cutover ==
  /\ fenceKnown /\ clock = "legacy"
  /\ clock' = "central"
  /\ UNCHANGED <<ownerVars, request, hatchet, task, thread, fenceKnown, hub,
                 faults>>

-----------------------------------------------------------------------------
(* dispatch_owner_run: reserve, launch, confirm, answer.                   *)

(* The Agent Hub sends a run, scheduled or manual, until it knows its end. *)
Send(q, r) ==
  /\ Serves(q, "idle") /\ hub[r] \notin Terminal
  /\ request' = [request EXCEPT ![q] = [pc |-> "reserve", run |-> r,
                                        answer |-> "none"]]
  /\ Learns(r, IF hub[r] = "planned" THEN "sent" ELSE hub[r])
  /\ UNCHANGED <<ownerVars, hatchet, task, thread, clock, fenceKnown, faults>>

(* ON CONFLICT DO UPDATE: a replay reserves the run afresh.                *)
ReservedAfresh(status) == "dispatching"
Reserved(status) == IF status = "none" THEN "dispatching" ELSE status

(* Created now, or left behind by a dispatch that was interrupted.         *)
MustLaunchCreated(status) == status = "none"
MustLaunch(status) == status \in {"none", "dispatching"}

Reserve(q) ==
  /\ Serves(q, "reserve")
  /\ LET r == request[q].run
         answer == IF receipt[r] \in Terminal THEN receipt[r] ELSE "accepted"
     IN /\ receipt' = [receipt EXCEPT ![r] = Reserved(@)]
        /\ request' = [request EXCEPT ![q] =
             IF MustLaunch(receipt[r]) THEN [@ EXCEPT !.pc = "launch"]
             ELSE [@ EXCEPT !.pc = "answer", !.answer = answer]]
  /\ UNCHANGED <<fenced, rowLock, overlapped, hatchet, task, thread, hubVars,
                 faults>>

(* Hatchet has one task per key: a second one is suppressed.               *)
Launch(q) ==
  /\ Serves(q, "launch")
  /\ LET r == request[q].run IN
     hatchet' = IF hatchet[r] = "none" THEN [hatchet EXCEPT ![r] = "queued"]
                ELSE hatchet
  /\ request' = [request EXCEPT ![q].pc = "confirm"]
  /\ UNCHANGED <<ownerVars, task, thread, hubVars, faults>>

ConfirmedAlways(status) == "accepted"
Confirmed(status) == IF status = "dispatching" THEN "accepted" ELSE status

Confirm(q) ==
  /\ Serves(q, "confirm")
  /\ receipt' = [receipt EXCEPT ![request[q].run] = Confirmed(@)]
  /\ request' = [request EXCEPT ![q] = [@ EXCEPT !.pc = "answer",
                                                 !.answer = "accepted"]]
  /\ UNCHANGED <<fenced, rowLock, overlapped, hatchet, task, thread, hubVars,
                 faults>>

Answer(q) ==
  /\ Serves(q, "answer")
  /\ Learns(request[q].run, request[q].answer)
  /\ request' = [request EXCEPT ![q] = NoRequest]
  /\ UNCHANGED <<ownerVars, hatchet, task, thread, clock, fenceKnown, faults>>

(* The handler raises or dies, or its answer is lost.                      *)
LoseRequest(q) ==
  /\ ~Serves(q, "idle") /\ Fault("request")
  /\ request' = [request EXCEPT ![q] = NoRequest]
  /\ UNCHANGED <<ownerVars, hatchet, task, thread, hubVars>>

-----------------------------------------------------------------------------
(* Hatchet starts tasks, one at a time, and cancels coroutines; what they  *)
(* started in a thread goes on.                                            *)

Free(s) == task[s].pc = "idle" /\ thread[s] = "none"

Cancelled(t) ==
  IF ~t.live THEN t
  ELSE IF t.kind = "legacy" /\ t.pc # "open"
       THEN [t EXCEPT !.live = FALSE, !.pc = "close"]
  ELSE IF t.kind = "central" /\ t.pc \in {"finish", "report"}
       THEN [t EXCEPT !.live = FALSE]
  ELSE NoTask

Live(r) == \E s \in Slot : task[s].live /\ task[s].run = r

(* CANCEL_IN_PROGRESS: the new task takes the place of every other.        *)
StartTask(s, t) ==
  task' = [v \in Slot |-> IF v = s THEN t ELSE Cancelled(task[v])]

StartTick(s) ==
  /\ Ticks /\ Free(s)
  /\ StartTask(s, NewTask("legacy", NoRun, "open"))
  /\ hatchet' = [r \in Run |-> IF Live(r) THEN "over" ELSE hatchet[r]]
  /\ UNCHANGED <<ownerVars, request, thread, hubVars, faults>>

(* Hatchet takes a run it queued again for a new one, although a task of   *)
(* it may still be at work or in its last write: the one that overran its  *)
(* time, or the one of a worker it lost contact with.                      *)
Busy(r) == \E s \in Slot : task[s].kind = "central" /\ task[s].run = r

StartRun(s, r) ==
  /\ Free(s) /\ hatchet[r] = "queued"
  /\ StartTask(s, NewTask("central", r, "read"))
  /\ hatchet' = [p \in Run |-> IF p = r THEN "running"
                               ELSE IF Live(p) THEN "over" ELSE hatchet[p]]
  /\ overlapped' = IF Busy(r) THEN overlapped \cup {r} ELSE overlapped
  /\ UNCHANGED <<fenced, rowLock, receipt, request, thread, hubVars, faults>>

(* A task leaves its slot; Hatchet may start a failed one once more.       *)
Leave(s, outcome) ==
  /\ task' = [task EXCEPT ![s] = NoTask]
  /\ hatchet' = IF task[s].kind = "central" /\ task[s].live
                THEN [hatchet EXCEPT ![task[s].run] = outcome] ELSE hatchet

Step(s, step) == task' = [task EXCEPT ![s].pc = step]

-----------------------------------------------------------------------------
(* run_legacy_tick.                                                        *)

MayTick == ~fenced

OpenLease(s) ==
  /\ At(s, "legacy", "open")
  /\ IF RowFree
     THEN /\ rowLock' = s
          /\ Step(s, IF MayTick THEN "clock" ELSE "close")
     ELSE task' = [task EXCEPT ![s] = NoTask] /\ UNCHANGED rowLock
  /\ UNCHANGED <<fenced, receipt, overlapped, request, hatchet, thread, hubVars,
                 faults>>

(* legacy_cron_allowed: an unknown clock does not authorize the old cron.  *)
ReadClock(s, reachable) ==
  /\ At(s, "legacy", "clock")
  /\ Step(s, IF reachable /\ clock = "legacy" THEN "start" ELSE "close")
  /\ UNCHANGED <<ownerVars, request, hatchet, thread, hubVars, faults>>

CloseLease(s) ==
  /\ At(s, "legacy", "close")
  /\ rowLock' = IF rowLock = s THEN NoSlot ELSE rowLock
  /\ task' = [task EXCEPT ![s] = NoTask]
  /\ UNCHANGED <<fenced, receipt, overlapped, request, hatchet, thread, hubVars,
                 faults>>

-----------------------------------------------------------------------------
(* run_central_task, and the operation both kinds of task run.             *)

EndedWell(status) == status \in {"succeeded", "skipped"}
Ended(status) == status \in Terminal

ReadReceipt(s) ==
  /\ At(s, "central", "read")
  /\ IF Ended(receipt[task[s].run]) THEN Leave(s, "over")
     ELSE Step(s, "start") /\ UNCHANGED hatchet
  /\ UNCHANGED <<ownerVars, request, thread, hubVars, faults>>

StartOperation(s) ==
  /\ task[s].pc = "start"
  /\ thread' = [thread EXCEPT ![s] = task[s].kind]
  /\ Step(s, "operate")
  /\ UNCHANGED <<ownerVars, request, hatchet, hubVars, faults>>

AfterOperationReport == "report"
AfterOperation == "finish"

EndOperation(s, result) ==
  /\ task[s].pc = "operate"
  /\ thread' = [thread EXCEPT ![s] = "none"]
  /\ task' = [task EXCEPT ![s] =
       IF @.kind = "legacy" THEN [@ EXCEPT !.pc = "close"]
       ELSE [@ EXCEPT !.pc = AfterOperation, !.result = result]]
  /\ UNCHANGED <<ownerVars, request, hatchet, hubVars, faults>>

(* The operation of a task that was cancelled runs to its end.             *)
EndOrphan(s) ==
  /\ thread[s] # "none" /\ task[s].pc # "operate"
  /\ thread' = [thread EXCEPT ![s] = "none"]
  /\ UNCHANGED <<ownerVars, request, hatchet, task, hubVars, faults>>

StatusRaw(result) == result
StatusOf(result) == IF result = "raised" THEN "failed" ELSE result

(* _finish: the first terminal status stays.                               *)
Finished(old, new) == IF old \in Terminal THEN old ELSE new

Finish(s) ==
  /\ At(s, "central", "finish")
  /\ receipt' = [receipt EXCEPT ![task[s].run] =
                   Finished(@, StatusOf(task[s].result))]
  /\ IF task[s].live THEN Step(s, "report")
     ELSE task' = [task EXCEPT ![s] = NoTask]
  /\ UNCHANGED <<fenced, rowLock, overlapped, request, hatchet, thread, hubVars,
                 faults>>

(* A report the Agent Hub does not receive is only logged; an operation    *)
(* that raised raises again, and Hatchet may retry its task.               *)
Report(s, received, retry) ==
  /\ At(s, "central", "report")
  /\ retry => task[s].result = "raised"
  /\ IF received THEN Learns(task[s].run, StatusOf(task[s].result))
     ELSE UNCHANGED hub
  /\ Leave(s, IF retry THEN "queued" ELSE "over")
  /\ UNCHANGED <<ownerVars, request, thread, clock, fenceKnown, faults>>

-----------------------------------------------------------------------------
(* Faults of the workers.                                                  *)

Stop(s, outcome) ==
  /\ task[s].live
  /\ task' = [task EXCEPT ![s] = Cancelled(@)]
  /\ hatchet' = [r \in Run |-> IF r = task[s].run THEN outcome ELSE hatchet[r]]
  /\ UNCHANGED <<ownerVars, request, thread, hubVars>>

(* A task is cancelled by hand; one that overruns its time may be retried. *)
Cancel(s) == Fault("cancel") /\ Stop(s, "over")
Timeout(s) == Fault("timeout") /\ Stop(s, "queued")

(* The worker process dies with its threads and sessions; Hatchet gives    *)
(* the tasks it had there to the next one.                                 *)
Crash ==
  /\ Fault("crash")
  /\ \E s \in Slot : ~Free(s)
  /\ hatchet' = [r \in Run |-> IF Live(r) THEN "queued" ELSE hatchet[r]]
  /\ task' = [s \in Slot |-> NoTask] /\ thread' = [s \in Slot |-> "none"]
  /\ rowLock' = NoSlot
  /\ UNCHANGED <<fenced, receipt, overlapped, request, hubVars>>

(* The receipts cannot be read or written: the task raises.                *)
LoseDatabase(s, retry) ==
  /\ At(s, "central", "read") \/ At(s, "central", "finish")
  /\ Fault("database")
  /\ Leave(s, IF retry THEN "queued" ELSE "over")
  /\ UNCHANGED <<ownerVars, request, thread, hubVars>>

(* Hatchet misses the worker's heartbeats and starts its task once more.   *)
LoseContact(s) ==
  /\ task[s].live /\ task[s].kind = "central" /\ Fault("lost")
  /\ task' = [task EXCEPT ![s].live = FALSE]
  /\ hatchet' = [hatchet EXCEPT ![task[s].run] = "queued"]
  /\ UNCHANGED <<ownerVars, request, thread, hubVars>>

(* The session that locks the fence row dies, idle in its transaction.     *)
LoseSession(s) ==
  /\ rowLock = s /\ Fault("session")
  /\ rowLock' = NoSlot
  /\ UNCHANGED <<fenced, receipt, overlapped, request, hatchet, task, thread,
                 hubVars>>

-----------------------------------------------------------------------------
Serve(q) == Reserve(q) \/ Launch(q) \/ Confirm(q) \/ Answer(q)

Work(s) ==
  \/ OpenLease(s) \/ CloseLease(s)
  \/ \E reachable \in BOOLEAN : ReadClock(s, reachable)
  \/ ReadReceipt(s) \/ StartOperation(s) \/ EndOrphan(s) \/ Finish(s)
  \/ \E result \in Outcome : EndOperation(s, result)
  \/ \E received, retry \in BOOLEAN : Report(s, received, retry)

Disturb(s) ==
  \/ Cancel(s) \/ Timeout(s) \/ LoseContact(s) \/ LoseSession(s)
  \/ \E retry \in BOOLEAN : LoseDatabase(s, retry)

Next ==
  \/ Fence \/ Cutover \/ Crash
  \/ \E q \in Request :
       \/ Serve(q) \/ LoseRequest(q)
       \/ \E r \in Run : Send(q, r)
  \/ \E s \in Slot :
       \/ StartTick(s) \/ Work(s) \/ Disturb(s)
       \/ \E r \in Run : StartRun(s, r)

Spec == Init /\ [][Next]_vars

(* Threads and coroutines run on, Hatchet starts what is queued, and the   *)
(* Agent Hub keeps asking for a run whose end it does not know.            *)
FairSpec ==
  /\ Spec
  /\ \A q \in Request : WF_vars(Serve(q))
  /\ \A s \in Slot : WF_vars(Work(s))
  /\ \A r \in Run : /\ SF_vars(\E s \in Slot : StartRun(s, r))
                    /\ SF_vars(\E q \in Request : Send(q, r))

-----------------------------------------------------------------------------
(* Properties.                                                             *)

(* The session that held the row for s has died.                           *)
LostRow(s) == "session" \in FaultKinds /\ faults > 0 /\ rowLock # s

(* A tick starts its operation only while the old cron owns the clock and  *)
(* is not fenced: the clock it read cannot have changed since, because the *)
(* fence that precedes a cutover waits for the row the tick holds, unless  *)
(* the session that holds it has died.                                     *)
TicksOnOwnClock ==
  [][\A s \in Slot :
       thread[s] = "none" /\ thread'[s] = "legacy"
       => (~fenced /\ clock = "legacy") \/ LostRow(s)]_vars

(* The terminal receipt survives: neither a late confirmation nor a second *)
(* execution of the run changes it.                                        *)
ReceiptFinal ==
  [][\A r \in Run : receipt[r] \in Terminal => receipt'[r] = receipt[r]]_vars

(* A run that ended, even by failing, is never operated on again: not by a *)
(* retry after a timeout or a failure, a reassignment, or another dispatch.*)
(* Only a run of which Hatchet had two tasks at once may be, by the one    *)
(* that read the receipt before the other wrote it.                        *)
NeverRerun ==
  [][\A s \in Slot :
       thread[s] = "none" /\ thread'[s] = "central"
       => \/ receipt[task[s].run] \notin Terminal
          \/ task[s].run \in overlapped]_vars

(* An accepted run is in Hatchet's hands, wherever the dispatch that       *)
(* reserved it was interrupted.                                            *)
AcceptedIsLaunched ==
  \A r \in Run :
    receipt[r] = "accepted" \/ hub[r] = "accepted" => hatchet[r] # "none"

(* The Agent Hub is told of an end only when the receipt has one, and of   *)
(* that very end, by whichever of the two ways it learns it; of a run that *)
(* had two tasks at once it may learn the result of the task whose receipt *)
(* came second and was not stored.                                         *)
HubAgrees ==
  \A r \in Run :
    hub[r] \in Terminal => /\ receipt[r] \in Terminal
                          /\ (receipt[r] = hub[r] \/ r \in overlapped)

(* "Fence a drained old clock": once the fence is granted no operation of  *)
(* the old cron is still at work.                                          *)
FencedIsDrained == fenced => \A s \in Slot : thread[s] # "legacy"

(* What the Agent Hub may rely on, whatever is retried, replayed or killed *)
(* in between: a run said accepted was given to Hatchet, it ends once, and *)
(* the end the Agent Hub is told is that one, unless the run had two tasks *)
(* at once (dispatch_owner_run, run_central_task).                         *)
Given == {r \in Run : hatchet[r] # "none"}
Endings == [r \in Run |-> IF receipt[r] \in Terminal THEN receipt[r] ELSE "open"]
Known == [r \in Run |-> IF hub[r] \in {"planned", "sent"} THEN "nothing" ELSE hub[r]]
Promise == INSTANCE OwnerPromise
             WITH given <- Given, ending <- Endings, known <- Known
KeepsPromise == Promise!Spec

=============================================================================
