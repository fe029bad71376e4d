------------------------- MODULE PreviewCoordinator -------------------------
(***************************************************************************)
(* backend/app/services/retirement_preview_coordinator.py: one coordinator *)
(* per API process shares identical previews, bounds how many are          *)
(* calculated at once and keeps results for 30 seconds.  Its coroutines    *)
(* run on one event loop, so what they do between two awaits is one step;  *)
(* invalidate() is called by service methods that run in worker threads,   *)
(* so its two statements are two steps.  The loop is first in, first out:  *)
(* a calculation takes its first step before a cancellation of the request *)
(* that created it is delivered, so creating it starts or queues it.       *)
(***************************************************************************)
EXTENDS Naturals, Sequences, FiniteSets

CONSTANTS
    Request,       \* the HTTP requests that can be open at once
    Writer,        \* threads that change the household data and invalidate
    Preview,       \* the request payloads
    NoPreview,     \* no payload
    Limit,         \* asyncio.Semaphore(2)
    Saved,         \* the 16 results that are kept
    MaxVersion     \* bound on committed changes, and so on generations

ASSUME ConstantsAssumption ==
    /\ Limit \in Nat \ {0}
    /\ Saved \in Nat \ {0}
    /\ MaxVersion \in Nat
    /\ NoPreview \notin Preview

VARIABLES
    data,          \* version of the committed household data
    acked,         \* newest version whose change was answered to its author
    writer,        \* writer[w] = [state, version]
    generation,    \* self.generation
    completed,     \* self.completed, oldest first: <<[key, value, fresh], ...>>
    task,          \* self.running and self.started: task[k] = [state, value]
    queue,         \* the keys whose calculation waits for self.limit
    request        \* request[r] = [state, key, floor, outcome, value]

vars == <<data, acked, writer, generation, completed, task, queue, request>>

Version == 0..MaxVersion
Key == (0..MaxVersion) \X Preview          \* f"{self.generation}:{key}"
NoKey == <<0, NoPreview>>
Outcome == {"none", "value", "failed", "cancelled", "left"}

\* "failed" is a calculation that raised; "cancelled" one that was asked to
\* stop while queued and has not run since.
TaskState == {"none", "queued", "calculating", "calculated", "failed", "cancelled"}
TaskType == [state: TaskState, value: Version]
WriterType == [state: {"idle", "committed", "cleared"}, version: Version]
RequestType ==
    [state: {"answered", "waiting", "resolved"}, key: Key \cup {NoKey},
     floor: Version, outcome: Outcome, value: Version]
Entry == [key: Key, value: Version, fresh: BOOLEAN]

NoTask == [state |-> "none", value |-> 0]

TypeOK ==
    /\ data \in Version
    /\ acked \in Version
    /\ writer \in [Writer -> WriterType]
    /\ generation \in 0..MaxVersion
    /\ completed \in Seq(Entry) /\ Len(completed) <= Saved
    /\ task \in [Key -> TaskType]
    /\ queue \in Seq(Key)
    /\ request \in [Request -> RequestType]

Init ==
    /\ data = 0
    /\ acked = 0
    /\ writer = [w \in Writer |-> [state |-> "idle", version |-> 0]]
    /\ generation = 0
    /\ completed = <<>>
    /\ task = [k \in Key |-> NoTask]
    /\ queue = <<>>
    /\ request = [r \in Request |-> [state |-> "answered", key |-> NoKey, floor |-> 0,
                                     outcome |-> "none", value |-> 0]]

----------------------------------------------------------------------------
(* Changes of the data, in worker threads.                                  *)

\* A service method commits its change.
Commit(w) ==
    /\ writer[w].state = "idle"
    /\ data < MaxVersion
    /\ data' = data + 1
    /\ writer' = [writer EXCEPT ![w] = [state |-> "committed", version |-> data + 1]]
    /\ UNCHANGED <<acked, generation, completed, task, queue, request>>

\* The error is swallowed: the change is answered as if it were invalidated.
FailRefreshQuietly(w) ==
    /\ writer[w].state = "committed"
    /\ writer' = [writer EXCEPT ![w].state = "idle"]
    /\ acked' = IF writer[w].version > acked THEN writer[w].version ELSE acked
    /\ UNCHANGED <<data, generation, completed, task, queue, request>>

\* The refresh between the commit and the invalidation raises: the author
\* gets an error, and nothing is invalidated.
FailRefresh(w) ==
    /\ writer[w].state = "committed"
    /\ writer' = [writer EXCEPT ![w].state = "idle"]
    /\ UNCHANGED <<data, acked, generation, completed, task, queue, request>>

\* invalidate: self.completed.clear()
Clear(w) ==
    /\ writer[w].state = "committed"
    /\ writer' = [writer EXCEPT ![w].state = "cleared"]
    /\ completed' = <<>>
    /\ UNCHANGED <<data, acked, generation, task, queue, request>>

\* The generation is not counted: only what is saved is forgotten.
BumpNothing(w) ==
    /\ writer[w].state = "cleared"
    /\ acked' = IF writer[w].version > acked THEN writer[w].version ELSE acked
    /\ writer' = [writer EXCEPT ![w].state = "idle"]
    /\ UNCHANGED <<data, generation, completed, task, queue, request>>

\* invalidate: self.generation += 1, and the change is answered.
Bump(w) ==
    /\ writer[w].state = "cleared"
    /\ generation < MaxVersion
    /\ generation' = generation + 1
    /\ acked' = IF writer[w].version > acked THEN writer[w].version ELSE acked
    /\ writer' = [writer EXCEPT ![w].state = "idle"]
    /\ UNCHANGED <<data, completed, task, queue, request>>

----------------------------------------------------------------------------
(* Requests.                                                                *)

\* A sequence without its element at position i.
DropAt(s, i) == [j \in 1..(Len(s) - 1) |-> IF j < i THEN s[j] ELSE s[j + 1]]
Place(k) == CHOOSE i \in DOMAIN queue : queue[i] = k

\* saved and monotonic() - saved[0] < 30
IsSaved(k) == \E i \in DOMAIN completed : completed[i].key = k /\ completed[i].fresh
Hits(k) == {completed[i].value : i \in {j \in DOMAIN completed :
                                          completed[j].key = k /\ completed[j].fresh}}

\* self.waiters[key]: the requests between the increment and the decrement.
Waiters(k) == {r \in Request : request[r].state # "answered" /\ request[r].key = k}

\* The calculations that hold the semaphore, and whether a newcomer gets it
\* without waiting: nobody it may not overtake is queued.
Busy == {k \in Key : task[k].state \in {"calculating", "calculated", "failed"}}
FreeOvertakes == Cardinality(Busy) < Limit
Free == queue = <<>> /\ Cardinality(Busy) < Limit

\* get: answered from a saved result.
GetSaved(r, p) ==
    LET k == <<generation, p>> IN
    /\ request[r].state = "answered"
    /\ IsSaved(k)
    /\ \E v \in Hits(k) :
         request' = [request EXCEPT ![r] =
            [state |-> "answered", key |-> NoKey, floor |-> acked,
             outcome |-> "value", value |-> v]]
    /\ UNCHANGED <<data, acked, writer, generation, completed, task, queue>>

\* get: joins the calculation in self.running, or creates it.
Get(r, p) ==
    LET k == <<generation, p>> IN
    /\ request[r].state = "answered"
    /\ ~IsSaved(k)
    /\ request' = [request EXCEPT ![r] =
            [state |-> "waiting", key |-> k, floor |-> acked,
             outcome |-> "none", value |-> 0]]
    /\ \/ /\ task[k].state # "none"
          /\ UNCHANGED <<task, queue>>
       \/ /\ task[k].state = "none"
          /\ \/ /\ Free
                /\ task' = [task EXCEPT ![k] = [state |-> "calculating", value |-> 0]]
                /\ UNCHANGED queue
             \/ /\ ~Free
                /\ task' = [task EXCEPT ![k] = [state |-> "queued", value |-> 0]]
                /\ queue' = Append(queue, k)
    /\ UNCHANGED <<data, acked, writer, generation, completed>>

\* A queued calculation is left to itself.
UnwaitOnly(r, k) == UNCHANGED <<task, queue>>

\* Whatever runs is cancelled with its last waiter.
UnwaitAny(r, k) ==
    IF Waiters(k) = {r} /\ task[k].state # "none"
      THEN /\ task' = [task EXCEPT ![k].state = "cancelled"]
           /\ queue' = IF task[k].state = "queued" THEN DropAt(queue, Place(k)) ELSE queue
      ELSE UNCHANGED <<task, queue>>

\* The finally of get: the last waiter to go cancels a calculation that has
\* not started.
Unwait(r, k) ==
    IF Waiters(k) = {r} /\ task[k].state = "queued"
      THEN /\ task' = [task EXCEPT ![k].state = "cancelled"]
           /\ queue' = DropAt(queue, Place(k))
      ELSE UNCHANGED <<task, queue>>

\* A request whose calculation is over resumes and answers.
Return(r) ==
    /\ request[r].state = "resolved"
    /\ request' = [request EXCEPT ![r].state = "answered", ![r].key = NoKey]
    /\ Unwait(r, request[r].key)
    /\ UNCHANGED <<data, acked, writer, generation, completed>>

\* The request is cancelled by its client.
Leave(r) ==
    /\ request[r].state # "answered"
    /\ request' = [request EXCEPT ![r] =
            [state |-> "answered", key |-> NoKey, floor |-> @.floor,
             outcome |-> "left", value |-> 0]]
    /\ Unwait(r, request[r].key)
    /\ UNCHANGED <<data, acked, writer, generation, completed>>

----------------------------------------------------------------------------
(* Calculations: execute().                                                 *)

\* The future of the task resolves every request that waits for it.
Resolve(k, o, v) ==
    request' = [r \in Request |->
        IF request[r].state = "waiting" /\ request[r].key = k
          THEN [request[r] EXCEPT !.state = "resolved", !.outcome = o, !.value = v]
          ELSE request[r]]

\* The first in the queue gets the semaphore and starts in a worker thread.
Start(k) ==
    /\ queue # <<>>
    /\ Head(queue) = k
    /\ Cardinality(Busy) < Limit
    /\ queue' = Tail(queue)
    /\ task' = [task EXCEPT ![k].state = "calculating"]
    /\ UNCHANGED <<data, acked, writer, generation, completed, request>>

\* The worker thread reads the data and calculates, or raises.
Calculate(k) ==
    /\ task[k].state = "calculating"
    /\ task' \in {[task EXCEPT ![k] = [state |-> "calculated", value |-> data]],
                  [task EXCEPT ![k] = [state |-> "failed", value |-> 0]]}
    /\ UNCHANGED <<data, acked, writer, generation, completed, queue, request>>

\* Nothing is dropped.
TrimNothing(s) == s

\* The newest results, at most Saved of them: one was added.
Trim(s) == IF Len(s) > Saved THEN Tail(s) ELSE s

\* self.completed without the key, which is set again at its end.
Others(k) ==
    IF \E i \in DOMAIN completed : completed[i].key = k
      THEN DropAt(completed, CHOOSE i \in DOMAIN completed : completed[i].key = k)
      ELSE completed

\* Back on the loop: the result is saved and self.running forgets the key.
Finish(k) ==
    /\ task[k].state = "calculated"
    /\ completed' = Trim(Append(Others(k), [key |-> k, value |-> task[k].value, fresh |-> TRUE]))
    /\ Resolve(k, "value", task[k].value)
    /\ task' = [task EXCEPT ![k] = NoTask]
    /\ UNCHANGED <<data, acked, writer, generation, queue>>

\* Back on the loop with an exception: nothing is saved.
Raise(k) ==
    /\ task[k].state = "failed"
    /\ Resolve(k, "failed", 0)
    /\ task' = [task EXCEPT ![k] = NoTask]
    /\ UNCHANGED <<data, acked, writer, generation, completed, queue>>

\* The key is forgotten when the task is cancelled, the future is not.
UnwindSilently(k) ==
    /\ task[k].state = "cancelled"
    /\ task' = [task EXCEPT ![k] = NoTask]
    /\ UNCHANGED <<data, acked, writer, generation, completed, queue, request>>

\* A cancelled calculation runs once more, to leave self.running.
Unwind(k) ==
    /\ task[k].state = "cancelled"
    /\ Resolve(k, "cancelled", 0)
    /\ task' = [task EXCEPT ![k] = NoTask]
    /\ UNCHANGED <<data, acked, writer, generation, completed, queue>>

\* Thirty seconds pass for the oldest result that is still served.
Expire ==
    \E i \in DOMAIN completed :
      /\ completed[i].fresh
      /\ \A j \in 1..(i - 1) : ~completed[j].fresh
      /\ completed' = [completed EXCEPT ![i].fresh = FALSE]
      /\ UNCHANGED <<data, acked, writer, generation, task, queue, request>>

----------------------------------------------------------------------------
Next ==
    \/ \E w \in Writer : Commit(w) \/ FailRefresh(w) \/ Clear(w) \/ Bump(w)
    \/ \E r \in Request : Return(r) \/ Leave(r)
    \/ \E r \in Request, p \in Preview : GetSaved(r, p) \/ Get(r, p)
    \/ \E k \in Key : Start(k) \/ Calculate(k) \/ Finish(k) \/ Raise(k) \/ Unwind(k)
    \/ Expire

Spec == Init /\ [][Next]_vars

\* The loop runs what is ready, and a calculation ends.
Fairness ==
    /\ \A r \in Request : WF_vars(Return(r))
    /\ \A k \in Key : /\ WF_vars(Start(k))
                      /\ WF_vars(Calculate(k))
                      /\ WF_vars(Finish(k) \/ Raise(k) \/ Unwind(k))

FairSpec == Spec /\ Fairness

----------------------------------------------------------------------------
(* Properties.                                                              *)

\* A value answered to a request was calculated from data at least as new as
\* the newest change acknowledged before the request came in: generation
\* keeps results and calculations of before an invalidation from requests
\* that follow it (get, invalidate).
Fresh ==
    \A r \in Request : request[r].outcome = "value" => request[r].value >= request[r].floor

\* A calculation that waits for the semaphore is wanted by some request: the
\* last waiter to go takes its queued calculation with it (the finally of
\* get, test_cancelled_queued_preview_never_starts).
QueuedIsWanted ==
    \A k \in Key : task[k].state = "queued" => Waiters(k) # {}

\* A request that waits has a calculation that will resolve it, and the queue
\* of the semaphore holds the queued calculations, each once: no path of
\* execute's finally leaves a waiter behind (get, execute).
NobodyStranded ==
    /\ \A r \in Request : request[r].state = "waiting" => task[request[r].key].state # "none"
    /\ \A k \in Key : task[k].state = "queued" <=> \E i \in DOMAIN queue : queue[i] = k
    /\ \A i, j \in DOMAIN queue : queue[i] = queue[j] => i = j

\* Once a calculation has started, the requests that share it get its result
\* or its error, whoever else leaves (asyncio.shield, self.started).
StartedIsDelivered ==
    [][\A k \in Key :
         k \in Busy => /\ task'[k].state # "cancelled"
                       /\ \A r \in Waiters(k) :
                            request[r].state = "waiting" /\ request'[r].state = "resolved"
                              => request'[r].outcome \in {"value", "failed"}]_vars

\* Every request that is not answered at once is answered in the end.
Answered ==
    \A r \in Request : (request[r].state # "answered") ~> (request[r].state = "answered")

\* "A disconnected waiter cannot cancel work shared with another preview."
\* (get): a request ends as cancelled only when its own client left.
OnlyOwnCancellation ==
    \A r \in Request : request[r].outcome # "cancelled"

\* What a client sees of its request: it is open until it is answered.
Seen(q) ==
    [open    |-> q.state # "answered",
     floor   |-> q.floor,
     outcome |-> IF q.state = "answered" THEN q.outcome ELSE "none",
     value   |-> IF q.state = "answered" THEN q.value ELSE 0]
SeenRequests == [r \in Request |-> Seen(request[r])]

\* The coordinator keeps the promise of the endpoint, whatever it shares,
\* saves and cancels (PreviewPromise; POST /retirement/preview).
Promise == INSTANCE PreviewPromise WITH request <- SeenRequests
KeepsPromise == Promise!Spec
=============================================================================
