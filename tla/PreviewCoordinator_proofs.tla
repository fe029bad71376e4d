---------------------- MODULE PreviewCoordinator_proofs ----------------------
(***************************************************************************)
(* Theorems about PreviewCoordinator, for any number of requests, writers  *)
(* and payloads, any limit and any number of saved results.                *)
(***************************************************************************)
EXTENDS PreviewCoordinator, TLAPS

USE ConstantsAssumption DEF ConstantsAssumption

LEMMA DropAtType ==
  ASSUME NEW S, NEW s \in Seq(S), NEW i \in 1..Len(s)
  PROVE  /\ DropAt(s, i) \in Seq(S)
         /\ Len(DropAt(s, i)) = Len(s) - 1
         /\ \A j \in 1..(Len(s) - 1) : DropAt(s, i)[j] = IF j < i THEN s[j] ELSE s[j + 1]
<1>1. Len(s) \in Nat /\ Len(s) - 1 \in Nat
  OBVIOUS
<1>2. \A j \in 1..(Len(s) - 1) : (IF j < i THEN s[j] ELSE s[j + 1]) \in S
  OBVIOUS
<1> QED BY <1>1, <1>2 DEF DropAt

(* What is saved by Finish is what was saved, and the new entry.           *)
LEMMA FinishSaves ==
  ASSUME TypeOK, NEW k \in Key, NEW e \in Entry
  PROVE  LET s == Trim(Append(Others(k), e)) IN
         /\ s \in Seq(Entry) /\ Len(s) <= Saved
         /\ \A i \in DOMAIN s : s[i] = e \/ \E j \in DOMAIN completed : s[i] = completed[j]
<1> DEFINE o == Others(k)
           a == Append(Others(k), e)
<1>1. /\ o \in Seq(Entry) /\ Len(o) <= Saved
      /\ \A i \in 1..Len(o) : \E j \in DOMAIN completed : o[i] = completed[j]
  <2>1. CASE \E i \in DOMAIN completed : completed[i].key = k
    <3> DEFINE p == CHOOSE i \in DOMAIN completed : completed[i].key = k
    <3>1. p \in 1..Len(completed)
      BY <2>1 DEF TypeOK
    <3>2. o = DropAt(completed, p)
      BY <2>1 DEF Others
    <3>3. completed \in Seq(Entry) /\ Len(completed) \in Nat /\ Len(completed) <= Saved
      BY DEF TypeOK
    <3>4. /\ o \in Seq(Entry) /\ Len(o) = Len(completed) - 1
          /\ \A j \in 1..(Len(completed) - 1) :
               o[j] = IF j < p THEN completed[j] ELSE completed[j + 1]
      BY <3>1, <3>2, <3>3, DropAtType
    <3>5. \A i \in 1..Len(o) : \E j \in DOMAIN completed : o[i] = completed[j]
      <4> TAKE i \in 1..Len(o)
      <4>1. CASE i < p
        BY <4>1, <3>1, <3>3, <3>4
      <4>2. CASE ~(i < p)
        BY <4>2, <3>1, <3>3, <3>4
      <4> QED BY <4>1, <4>2
    <3> QED BY <3>3, <3>4, <3>5
  <2>2. CASE ~\E i \in DOMAIN completed : completed[i].key = k
    BY <2>2 DEF Others, TypeOK
  <2> QED BY <2>1, <2>2
<1>2. /\ a \in Seq(Entry) /\ Len(a) = Len(o) + 1 /\ a[Len(a)] = e
      /\ \A i \in 1..Len(o) : a[i] = o[i]
  BY <1>1
<1>3. \A i \in 1..Len(a) : a[i] = e \/ \E j \in DOMAIN completed : a[i] = completed[j]
  BY <1>1, <1>2
<1>6. a = Append(Others(k), e)
  OBVIOUS
<1> HIDE DEF a, o
<1>4. CASE Len(a) > Saved
  <2>1. Trim(a) = Tail(a)
    BY <1>4 DEF Trim
  <2>2. /\ Tail(a) \in Seq(Entry) /\ Len(Tail(a)) = Len(a) - 1
        /\ \A i \in 1..(Len(a) - 1) : Tail(a)[i] = a[i + 1]
    BY <1>2, <1>4
  <2>3. \A i \in 1..Len(Tail(a)) : i + 1 \in 1..Len(a) /\ Tail(a)[i] = a[i + 1]
    BY <1>2, <2>2
  <2> QED BY <1>1, <1>2, <1>3, <1>6, <2>1, <2>2, <2>3
<1>5. CASE ~(Len(a) > Saved)
  <2>1. Trim(a) = a
    BY <1>5 DEF Trim
  <2> QED BY <1>1, <1>2, <1>3, <1>5, <1>6, <2>1
<1> QED BY <1>4, <1>5

-----------------------------------------------------------------------------
(* The inductive invariant.                                                *)

(* Nothing is ahead of the generation: what is calculated, saved or waited *)
(* for was asked for in a generation that has begun.                       *)
Begun ==
    /\ \A k \in Key : task[k].state # "none" => k[1] <= generation
    /\ \A i \in DOMAIN completed : completed[i].key[1] <= generation
    /\ \A r \in Request : request[r].state # "answered" =>
         /\ request[r].key \in Key
         /\ request[r].key[1] <= generation

(* What belongs to the current generation is as new as what is             *)
(* acknowledged, because acknowledging starts a generation.                *)
Timely ==
    /\ acked <= data
    /\ \A w \in Writer : writer[w].version <= data
    /\ \A i \in DOMAIN completed :
         /\ completed[i].value <= data
         /\ completed[i].key[1] = generation => acked <= completed[i].value
    /\ \A k \in Key : task[k].state = "calculated" =>
         /\ task[k].value <= data
         /\ k[1] = generation => acked <= task[k].value

(* A request that is waiting will not get less than its floor.             *)
Owed ==
    \A r \in Request :
      /\ request[r].floor <= acked
      /\ request[r].state = "waiting" => /\ request[r].outcome = "none"
                                         /\ request[r].value = 0
      /\ request[r].state = "resolved" => request[r].outcome \in {"value", "failed", "cancelled"}
      /\ request[r].outcome = "value" => request[r].floor <= request[r].value
      /\ request[r].outcome # "value" => request[r].value = 0
      /\ request[r].value <= data
      /\ request[r].state = "waiting" /\ task[request[r].key].state = "calculated"
           => request[r].floor <= task[request[r].key].value


-----------------------------------------------------------------------------
LEMMA Shapes ==
  ASSUME TypeOK
  PROVE  /\ data \in Nat /\ acked \in Nat /\ generation \in Nat
         /\ \A w \in Writer : writer[w].version \in Nat
         /\ \A k \in Key : /\ k[1] \in Nat /\ k # NoKey
                           /\ task[k].value \in Nat /\ task[k].state \in TaskState
         /\ \A i \in DOMAIN completed : completed[i] \in Entry /\ completed[i].value \in Nat
         /\ \A r \in Request : /\ request[r] \in RequestType
                               /\ request[r].floor \in Nat /\ request[r].value \in Nat
<1>1. \A k \in Key : k[1] \in Nat /\ k # NoKey
  BY DEF Key, NoKey
<1>2. \A i \in DOMAIN completed : completed[i] \in Entry /\ completed[i].value \in Nat
  <2> TAKE i \in DOMAIN completed
  <2>1. completed[i] \in Entry
    BY DEF TypeOK
  <2> QED BY <2>1 DEF Entry, Version
<1> QED BY <1>1, <1>2 DEF TypeOK, Version, WriterType, TaskType, RequestType

LEMMA HitsSaved ==
  ASSUME NEW k \in Key, NEW v \in Hits(k)
  PROVE  \E i \in DOMAIN completed : completed[i].key = k /\ completed[i].value = v
BY DEF Hits

LEMMA KeyHere ==
  ASSUME TypeOK, NEW p \in Preview
  PROVE  <<generation, p>> \in Key /\ <<generation, p>>[1] = generation
BY DEF TypeOK, Key

(* Leaving get changes the task of the request's key only, and only from   *)
(* queued to cancelled.                                                    *)
LEMMA UnwaitChanges ==
  ASSUME TypeOK, NEW r \in Request, NEW k \in Key, Unwait(r, k),
         \A j \in Key : task[j].state = "queued" => \E i \in DOMAIN queue : queue[i] = j
  PROVE  /\ task' \in [Key -> TaskType]
         /\ queue' \in Seq(Key)
         /\ \A j \in Key : \/ task'[j] = task[j]
                           \/ /\ task[j].state = "queued" /\ task'[j].state = "cancelled"
<1>1. CASE Waiters(k) = {r} /\ task[k].state = "queued"
  <2>1. Place(k) \in DOMAIN queue
    BY <1>1 DEF Place
  <2>2. queue \in Seq(Key) /\ Place(k) \in 1..Len(queue)
    BY <2>1 DEF TypeOK
  <2>3. queue' \in Seq(Key)
    BY <1>1, <2>2, DropAtType DEF Unwait
  <2>4. task' = [task EXCEPT ![k].state = "cancelled"]
    BY <1>1 DEF Unwait
  <2>5. task \in [Key -> TaskType]
    BY DEF TypeOK
  <2>6. [task[k] EXCEPT !.state = "cancelled"] \in TaskType
    BY <2>5 DEF TaskType, TaskState
  <2>7. task' \in [Key -> TaskType]
    BY <2>4, <2>5, <2>6
  <2>8. task'[k].state = "cancelled" /\ \A j \in Key : j # k => task'[j] = task[j]
    BY <2>4, <2>5 DEF TaskType
  <2> QED BY <1>1, <2>3, <2>7, <2>8
<1>2. CASE ~(Waiters(k) = {r} /\ task[k].state = "queued")
  BY <1>2 DEF Unwait, TypeOK
<1> QED BY <1>1, <1>2

(* What waits for the semaphore is in its queue, once.                     *)
Queued ==
    /\ \A k \in Key : task[k].state = "queued" <=> \E i \in DOMAIN queue : queue[i] = k
    /\ \A i, j \in DOMAIN queue : queue[i] = queue[j] => i = j

LEMMA TypeInit == Init => TypeOK
BY DEF Init, TypeOK, Version, WriterType, Key, NoKey, TaskType, TaskState, NoTask, RequestType,
       Outcome, Entry

LEMMA TypeStep ==
  ASSUME TypeOK, Begun, Timely, Owed, Queued, Next
  PROVE  TypeOK'
<1> USE DEF TypeOK, Version, Outcome
<1>1. ASSUME NEW w \in Writer, Commit(w) PROVE TypeOK'
  BY <1>1 DEF Commit, WriterType
<1>2. ASSUME NEW w \in Writer, FailRefresh(w) PROVE TypeOK'
  BY <1>2 DEF FailRefresh, WriterType
<1>3. ASSUME NEW w \in Writer, Clear(w) PROVE TypeOK'
  <2>1. completed' \in Seq(Entry) /\ Len(completed') <= Saved
    BY <1>3 DEF Clear
  <2>2. writer' \in [Writer -> WriterType]
    BY <1>3 DEF Clear, WriterType
  <2> QED BY <1>3, <2>1, <2>2 DEF Clear
<1>4. ASSUME NEW w \in Writer, Bump(w) PROVE TypeOK'
  <2>1. generation' \in 0..MaxVersion
    BY <1>4 DEF Bump
  <2>2. acked' \in 0..MaxVersion
    BY <1>4 DEF Bump, WriterType
  <2>3. writer' \in [Writer -> WriterType]
    BY <1>4 DEF Bump, WriterType
  <2> QED BY <1>4, <2>1, <2>2, <2>3 DEF Bump
<1>5. ASSUME NEW r \in Request, Return(r) PROVE TypeOK'
  <2>1. request[r].key \in Key
    BY <1>5 DEF Return, Begun
  <2>2. task' \in [Key -> TaskType] /\ queue' \in Seq(Key)
    BY <1>5, <2>1, UnwaitChanges DEF Return, Queued
  <2>3. request' \in [Request -> RequestType]
    <3> DEFINE n == [request[r] EXCEPT !.state = "answered", !.key = NoKey]
    <3>1. n \in RequestType
      BY DEF RequestType
    <3>2. request' = [request EXCEPT ![r] = n]
      BY <1>5 DEF Return
    <3> QED BY <3>1, <3>2
  <2>4. UNCHANGED <<data, writer, generation, acked, completed>>
    BY <1>5 DEF Return
  <2> QED BY <2>2, <2>3, <2>4
<1>6. ASSUME NEW r \in Request, Leave(r) PROVE TypeOK'
  <2>1. request[r].key \in Key
    BY <1>6 DEF Leave, Begun
  <2>2. task' \in [Key -> TaskType] /\ queue' \in Seq(Key)
    BY <1>6, <2>1, UnwaitChanges DEF Leave, Queued
  <2>3. request' \in [Request -> RequestType]
    <3> DEFINE n == [state |-> "answered", key |-> NoKey, floor |-> request[r].floor,
                     outcome |-> "left", value |-> 0]
    <3>1. request[r] \in RequestType
      OBVIOUS
    <3>2. n \in RequestType
      BY <3>1 DEF RequestType
    <3>3. request' = [request EXCEPT ![r] = n]
      BY <3>1, <1>6 DEF Leave, RequestType
    <3> QED BY <3>2, <3>3
  <2> QED BY <1>6, <2>2, <2>3 DEF Leave
<1>7. ASSUME NEW r \in Request, NEW p \in Preview, GetSaved(r, p) PROVE TypeOK'
  <2>1. PICK v \in Hits(<<generation, p>>) :
          request' = [request EXCEPT ![r] =
            [state |-> "answered", key |-> NoKey, floor |-> acked,
             outcome |-> "value", value |-> v]]
    BY <1>7 DEF GetSaved
  <2>2. v \in Version
    BY <2>1, KeyHere, HitsSaved, Shapes DEF Entry
  <2> QED BY <1>7, <2>1, <2>2 DEF GetSaved, RequestType
<1>8. ASSUME NEW r \in Request, NEW p \in Preview, Get(r, p) PROVE TypeOK'
  <2>1. <<generation, p>> \in Key
    BY KeyHere
  <2>2. request' \in [Request -> RequestType]
    BY <1>8, <2>1 DEF Get, RequestType
  <2> DEFINE k == <<generation, p>>
             new(s) == [state |-> s, value |-> 0]
  <2>3. /\ \/ task' = task
           \/ task' = [task EXCEPT ![k] = new("calculating")]
           \/ task' = [task EXCEPT ![k] = new("queued")]
        /\ queue' = queue \/ queue' = Append(queue, k)
    BY <1>8 DEF Get
  <2>4. new("calculating") \in TaskType /\ new("queued") \in TaskType
    BY DEF TaskType, TaskState
  <2>5. k \in Key /\ queue \in Seq(Key) /\ task \in [Key -> TaskType]
    BY <2>1
  <2> HIDE DEF k, new
  <2>6. task' \in [Key -> TaskType]
    BY <2>3, <2>4, <2>5
  <2>7. queue' \in Seq(Key)
    <3>1. Append(queue, k) \in Seq(Key)
      BY <2>5
    <3> QED BY <2>3, <2>5, <3>1
  <2> QED BY <1>8, <2>2, <2>6, <2>7 DEF Get
<1>9. ASSUME NEW k \in Key, Start(k) PROVE TypeOK'
  <2>1. queue' \in Seq(Key)
    BY <1>9 DEF Start
  <2>2. task' \in [Key -> TaskType]
    BY <1>9 DEF Start, TaskType, TaskState
  <2> QED BY <1>9, <2>1, <2>2 DEF Start
<1>10. ASSUME NEW k \in Key, Calculate(k) PROVE TypeOK'
  <2>1. /\ [state |-> "calculated", value |-> data] \in TaskType
        /\ [state |-> "failed", value |-> 0] \in TaskType
    BY DEF TaskType, TaskState
  <2>2. task' \in [Key -> TaskType]
    BY <1>10, <2>1 DEF Calculate
  <2> QED BY <1>10, <2>2 DEF Calculate
<1>11. ASSUME NEW k \in Key, NEW o \in Outcome, NEW v \in Version, Resolve(k, o, v)
       PROVE  request' \in [Request -> RequestType]
  <2> DEFINE n(r) == [request[r] EXCEPT !.state = "resolved", !.outcome = o, !.value = v]
  <2>1. \A r \in Request : request[r] \in RequestType /\ n(r) \in RequestType
    BY DEF RequestType
  <2> HIDE DEF n
  <2>2. request' = [r \in Request |->
          IF request[r].state = "waiting" /\ request[r].key = k THEN n(r) ELSE request[r]]
    BY <1>11 DEF Resolve, n
  <2> QED BY <2>1, <2>2
<1>12. ASSUME NEW k \in Key, Finish(k) PROVE TypeOK'
  <2> DEFINE e == [key |-> k, value |-> task[k].value, fresh |-> TRUE]
  <2>1. task[k].value \in Version /\ e \in Entry
    BY DEF TaskType, Entry
  <2>2. completed' \in Seq(Entry) /\ Len(completed') <= Saved
    BY <1>12, <2>1, FinishSaves DEF Finish
  <2>3. request' \in [Request -> RequestType]
    BY <1>12, <1>11, <2>1 DEF Finish
  <2>4. task' \in [Key -> TaskType]
    BY <1>12 DEF Finish, TaskType, TaskState, NoTask
  <2> QED BY <1>12, <2>2, <2>3, <2>4 DEF Finish
<1>13. ASSUME NEW k \in Key, Raise(k) PROVE TypeOK'
  <2>3. request' \in [Request -> RequestType]
    BY <1>13, <1>11 DEF Raise
  <2>4. task' \in [Key -> TaskType]
    BY <1>13 DEF Raise, TaskType, TaskState, NoTask
  <2> QED BY <1>13, <2>3, <2>4 DEF Raise
<1>14. ASSUME NEW k \in Key, Unwind(k) PROVE TypeOK'
  <2>3. request' \in [Request -> RequestType]
    BY <1>14, <1>11 DEF Unwind
  <2>4. task' \in [Key -> TaskType]
    BY <1>14 DEF Unwind, TaskType, TaskState, NoTask
  <2> QED BY <1>14, <2>3, <2>4 DEF Unwind
<1>15. ASSUME Expire PROVE TypeOK'
  <2>1. PICK i \in DOMAIN completed : completed' = [completed EXCEPT ![i].fresh = FALSE]
    BY <1>15 DEF Expire
  <2>2. completed' \in Seq(Entry) /\ Len(completed') = Len(completed)
    <3>1. completed[i] \in Entry /\ [completed[i] EXCEPT !.fresh = FALSE] \in Entry
      <4>1. completed[i] \in Entry
        BY Shapes
      <4> QED BY <4>1 DEF Entry
    <3>2. completed' = [completed EXCEPT ![i] = [completed[i] EXCEPT !.fresh = FALSE]]
      BY <2>1
    <3> QED BY <3>1, <3>2
  <2> QED BY <1>15, <2>2 DEF Expire
<1> QED BY <1>1, <1>2, <1>3, <1>4, <1>5, <1>6, <1>7, <1>8, <1>9, <1>10, <1>12, <1>13, <1>14, <1>15 DEF Next

-----------------------------------------------------------------------------
(* The queue of the semaphore.                                             *)

LEMMA UnwaitQueue ==
  ASSUME TypeOK, NEW r \in Request, NEW k \in Key, Unwait(r, k), Queued
  PROVE  Queued'
<1>1. CASE Waiters(k) = {r} /\ task[k].state = "queued"
  <2> DEFINE i == Place(k)
             n == Len(queue)
  <2>1. i \in 1..n /\ queue[i] = k /\ queue \in Seq(Key) /\ n \in Nat
    BY <1>1 DEF Place, Queued, TypeOK
  <2>2. queue' = DropAt(queue, i)
    BY <1>1 DEF Unwait
  <2>3. /\ Len(queue') = n - 1 /\ queue' \in Seq(Key)
        /\ \A j \in 1..(n - 1) : queue'[j] = IF j < i THEN queue[j] ELSE queue[j + 1]
    BY <2>1, <2>2, DropAtType
  <2>4. /\ task'[k].state = "cancelled"
        /\ \A j \in Key : j # k => task'[j] = task[j]
    BY <1>1 DEF Unwait, TypeOK, TaskType
  <2> HIDE DEF i, n
  <2>5. DOMAIN queue = 1..n /\ DOMAIN queue' = 1..(n - 1)
    BY <2>1, <2>3 DEF n
  <2>6. \A a, b \in 1..n : queue[a] = queue[b] => a = b
    BY <2>5 DEF Queued
  <2>7. \A a, b \in 1..(n - 1) : queue'[a] = queue'[b] => a = b
    <3> SUFFICES ASSUME NEW a \in 1..(n - 1), NEW b \in 1..(n - 1), queue'[a] = queue'[b]
                 PROVE  a = b
      OBVIOUS
    <3> DEFINE x == IF a < i THEN a ELSE a + 1
               y == IF b < i THEN b ELSE b + 1
    <3>1. x \in 1..n /\ y \in 1..n /\ queue'[a] = queue[x] /\ queue'[b] = queue[y]
      BY <2>1, <2>3
    <3>2. x = y
      BY <3>1, <2>6
    <3> QED BY <3>2, <2>1
  <2>8. \A a \in 1..(n - 1) : queue'[a] # k
    <3> TAKE a \in 1..(n - 1)
    <3> DEFINE x == IF a < i THEN a ELSE a + 1
    <3>1. x \in 1..n /\ queue'[a] = queue[x] /\ x # i
      BY <2>1, <2>3
    <3> QED BY <3>1, <2>1, <2>6
  <2>9. \A j \in Key : j # k =>
          ((\E a \in 1..(n - 1) : queue'[a] = j) <=> (\E a \in 1..n : queue[a] = j))
    <3> TAKE j \in Key
    <3> HAVE j # k
    <3>1. ASSUME NEW a \in 1..(n - 1), queue'[a] = j PROVE \E b \in 1..n : queue[b] = j
      <4>1. CASE a < i
        BY <4>1, <2>1, <2>3, <3>1
      <4>2. CASE ~(a < i)
        BY <4>2, <2>1, <2>3, <3>1
      <4> QED BY <4>1, <4>2
    <3>2. ASSUME NEW a \in 1..n, queue[a] = j PROVE \E b \in 1..(n - 1) : queue'[b] = j
      <4>1. a # i
        BY <2>1, <3>2
      <4>2. CASE a < i
        BY <4>2, <2>1, <2>3, <3>2
      <4>3. CASE a > i
        <5>1. a - 1 \in 1..(n - 1) /\ ~(a - 1 < i) /\ (a - 1) + 1 = a
          BY <4>3, <2>1
        <5>2. queue'[a - 1] = queue[a]
          BY <5>1, <2>3
        <5> QED BY <5>1, <5>2, <3>2
      <4> QED BY <4>1, <4>2, <4>3, <2>1
    <3> QED BY <3>1, <3>2
  <2> QED BY <2>4, <2>5, <2>7, <2>8, <2>9 DEF Queued
<1>2. CASE ~(Waiters(k) = {r} /\ task[k].state = "queued")
  BY <1>2 DEF Unwait, Queued
<1> QED BY <1>1, <1>2

LEMMA QueuedStep ==
  ASSUME TypeOK, Begun, Queued, Next
  PROVE  Queued'
<1>1. ASSUME UNCHANGED <<task, queue>> PROVE Queued'
  BY <1>1 DEF Queued
<1>2. ASSUME NEW k \in Key, NEW v, task' = [task EXCEPT ![k] = v], UNCHANGED queue,
             task[k].state # "queued", v.state # "queued"
      PROVE  Queued'
  BY <1>2 DEF Queued, TypeOK
<1>3. ASSUME NEW r \in Request, Return(r) \/ Leave(r) PROVE Queued'
  <2>1. request[r].key \in Key /\ Unwait(r, request[r].key)
    BY <1>3 DEF Return, Leave, Begun
  <2> QED BY <2>1, UnwaitQueue
<1>4. ASSUME NEW r \in Request, NEW p \in Preview, Get(r, p) PROVE Queued'
  <2> DEFINE k == <<generation, p>>
  <2>1. k \in Key
    BY KeyHere
  <2>2. CASE task[k].state # "none"
    BY <1>1, <1>4, <2>2 DEF Get
  <2>3. CASE task[k].state = "none" /\ Free
    <3>1. task' = [task EXCEPT ![k] = [state |-> "calculating", value |-> 0]] /\ UNCHANGED queue
      BY <1>4, <2>3 DEF Get
    <3> DEFINE v == [state |-> "calculating", value |-> 0]
    <3>2. task' = [task EXCEPT ![k] = v] /\ v.state # "queued" /\ task[k].state # "queued"
      BY <2>3, <3>1
    <3> HIDE DEF k, v
    <3> QED BY <1>2, <2>1, <3>1, <3>2
  <2>4. CASE task[k].state = "none" /\ ~Free
    <3>1. /\ task' = [task EXCEPT ![k] = [state |-> "queued", value |-> 0]]
          /\ queue' = Append(queue, k)
      BY <1>4, <2>4 DEF Get
    <3>2. queue \in Seq(Key) /\ task \in [Key -> TaskType]
      BY DEF TypeOK
    <3> HIDE DEF k
    <3> DEFINE n == Len(queue)
    <3>3. /\ n \in Nat /\ DOMAIN queue = 1..n /\ DOMAIN queue' = 1..(n + 1)
          /\ queue'[n + 1] = k /\ \A i \in 1..n : queue'[i] = queue[i]
      BY <3>1, <3>2, <2>1
    <3>4. \A i \in 1..n : queue[i] # k
      BY <2>1, <2>4, <3>3 DEF Queued
    <3> HIDE DEF n
    <3>5. \A i \in 1..(n + 1) : i \in 1..n \/ i = n + 1
      BY <3>3
    <3>5a. \A i \in 1..n : i \in 1..(n + 1) /\ n + 1 \in 1..(n + 1)
      BY <3>3
    <3>5b. n + 1 \in 1..(n + 1)
      BY <3>3
    <3>6. \A i, j \in DOMAIN queue' : queue'[i] = queue'[j] => i = j
      BY <3>3, <3>4, <3>5 DEF Queued
    <3>7. \A j \in Key : task'[j].state = "queued" <=> \E i \in DOMAIN queue' : queue'[i] = j
      <4> TAKE j \in Key
      <4>1. CASE j = k
        BY <4>1, <3>1, <3>2, <3>3, <3>5b
      <4>2. CASE j # k
        <5>1. task'[j] = task[j]
          BY <4>2, <3>1, <3>2
        <5>2. (\E i \in DOMAIN queue' : queue'[i] = j) <=> (\E i \in DOMAIN queue : queue[i] = j)
          BY <4>2, <3>3, <3>5, <3>5a
        <5> QED BY <5>1, <5>2 DEF Queued
      <4> QED BY <4>1, <4>2
    <3> QED BY <3>6, <3>7 DEF Queued
  <2> QED BY <2>2, <2>3, <2>4
<1>5. ASSUME NEW k \in Key, Start(k) PROVE Queued'
  <2> DEFINE n == Len(queue)
  <2>1. queue \in Seq(Key) /\ queue # <<>> /\ task \in [Key -> TaskType]
    BY <1>5 DEF TypeOK, Start
  <2>2. /\ n \in Nat \ {0} /\ DOMAIN queue = 1..n /\ queue[1] = k
        /\ DOMAIN queue' = 1..(n - 1) /\ \A i \in 1..(n - 1) : queue'[i] = queue[i + 1]
    BY <1>5, <2>1 DEF Start
  <2>3. /\ task'[k].state = "calculating" /\ \A j \in Key : j # k => task'[j] = task[j]
    BY <1>5, <2>1 DEF Start, TaskType
  <2> HIDE DEF n
  <2>4. \A i, j \in 1..n : queue[i] = queue[j] => i = j
    BY <2>2 DEF Queued
  <2>5. \A i \in 1..(n - 1) : i + 1 \in 1..n /\ i + 1 # 1
    BY <2>2
  <2>6. \A i \in 1..(n - 1) : queue'[i] # k
    BY <2>2, <2>4, <2>5
  <2>7. \A i, j \in DOMAIN queue' : queue'[i] = queue'[j] => i = j
    <3> TAKE i, j \in DOMAIN queue'
    <3> HAVE queue'[i] = queue'[j]
    <3>1. i + 1 = j + 1
      BY <2>2, <2>4, <2>5
    <3> QED BY <3>1, <2>2
  <2>8. \A j \in Key : task'[j].state = "queued" <=> \E i \in DOMAIN queue' : queue'[i] = j
    <3> TAKE j \in Key
    <3>1. CASE j = k
      BY <3>1, <2>2, <2>3, <2>6
    <3>2. CASE j # k
      <4>1. ASSUME NEW a \in 1..n, queue[a] = j PROVE \E b \in 1..(n - 1) : queue'[b] = j
        <5>1. a - 1 \in 1..(n - 1) /\ (a - 1) + 1 = a
          BY <4>1, <3>2, <2>2
        <5> QED BY <5>1, <4>1, <2>2
      <4>2. (\E i \in DOMAIN queue' : queue'[i] = j) => (\E i \in DOMAIN queue : queue[i] = j)
        BY <2>2, <2>5
      <4>3. (\E i \in DOMAIN queue : queue[i] = j) => (\E i \in DOMAIN queue' : queue'[i] = j)
        BY <4>1, <2>2
      <4>4. task'[j] = task[j]
        BY <3>2, <2>3
      <4>5. task[j].state = "queued" <=> \E i \in DOMAIN queue : queue[i] = j
        BY DEF Queued
      <4> QED BY <4>2, <4>3, <4>4, <4>5
    <3> QED BY <3>1, <3>2
  <2> QED BY <2>7, <2>8 DEF Queued
<1>6. ASSUME NEW k \in Key, Calculate(k) \/ Finish(k) \/ Raise(k) \/ Unwind(k) PROVE Queued'
  BY <1>2, <1>6 DEF Calculate, Finish, Raise, Unwind, NoTask
<1>7. ASSUME NEW w \in Writer, Commit(w) \/ FailRefresh(w) \/ Clear(w) \/ Bump(w) PROVE Queued'
  BY <1>1, <1>7 DEF Commit, FailRefresh, Clear, Bump
<1>8. ASSUME NEW r \in Request, NEW p \in Preview, GetSaved(r, p) PROVE Queued'
  BY <1>1, <1>8 DEF GetSaved
<1>9. ASSUME Expire PROVE Queued'
  BY <1>1, <1>9 DEF Expire
<1> QED BY <1>3, <1>4, <1>5, <1>6, <1>7, <1>8, <1>9 DEF Next

-----------------------------------------------------------------------------
(* Generations.                                                            *)

LEMMA BegunStep ==
  ASSUME TypeOK, Begun, Queued, Next
  PROVE  Begun'
<1> USE Shapes DEF Begun
<1>1. ASSUME NEW w \in Writer, Commit(w) \/ FailRefresh(w) \/ Clear(w) PROVE Begun'
  BY <1>1 DEF Commit, FailRefresh, Clear
<1>2. ASSUME NEW w \in Writer, Bump(w) PROVE Begun'
  <2>1. \A n \in Nat : n <= generation => n <= generation'
    BY <1>2 DEF Bump
  <2>2. \A i \in DOMAIN completed : completed[i].key \in Key
    BY DEF Entry
  <2> QED BY <1>2, <2>1, <2>2 DEF Bump
<1>3. ASSUME NEW r \in Request, Return(r) \/ Leave(r) PROVE Begun'
  <2>1. request[r].key \in Key /\ Unwait(r, request[r].key)
    BY <1>3 DEF Return, Leave
  <2>2. \A j \in Key : task'[j].state # "none" => task[j].state # "none"
    BY <2>1, UnwaitChanges DEF Queued
  <2>3. /\ \A q \in Request : q # r => request'[q] = request[q]
        /\ request'[r].state = "answered"
    BY <1>3 DEF Return, Leave, TypeOK, RequestType
  <2>4. UNCHANGED <<generation, completed>>
    BY <1>3 DEF Return, Leave
  <2> QED BY <2>2, <2>3, <2>4
<1>4. ASSUME NEW r \in Request, NEW p \in Preview, GetSaved(r, p) PROVE Begun'
  <2>1. /\ \A q \in Request : q # r => request'[q] = request[q]
        /\ request'[r].state = "answered"
    BY <1>4 DEF GetSaved, TypeOK
  <2> QED BY <1>4, <2>1 DEF GetSaved
<1>5. ASSUME NEW r \in Request, NEW p \in Preview, Get(r, p) PROVE Begun'
  <2> DEFINE k == <<generation, p>>
  <2>1. k \in Key /\ k[1] = generation
    BY KeyHere
  <2>2. /\ \A q \in Request : q # r => request'[q] = request[q]
        /\ request'[r].key = k
    BY <1>5 DEF Get, TypeOK
  <2>3. \A j \in Key : j # k => task'[j] = task[j]
    BY <1>5, <2>1 DEF Get, TypeOK
  <2>4. UNCHANGED <<generation, completed>>
    BY <1>5 DEF Get
  <2> HIDE DEF k
  <2>5. generation <= generation
    BY DEF TypeOK
  <2> QED BY <2>1, <2>2, <2>3, <2>4, <2>5
<1>6. ASSUME NEW k \in Key, Start(k) \/ Calculate(k) PROVE Begun'
  <2>1. task[k].state # "none"
    <3>1. CASE Start(k)
      <4>1. queue \in Seq(Key) /\ 1 \in DOMAIN queue /\ queue[1] = k
        BY <3>1 DEF Start, TypeOK
      <4> QED BY <4>1 DEF Queued
    <3>2. CASE Calculate(k)
      BY <3>2 DEF Calculate
    <3> QED BY <1>6, <3>1, <3>2
  <2>2. \A j \in Key : j # k => task'[j] = task[j]
    BY <1>6 DEF Start, Calculate, TypeOK
  <2> QED BY <1>6, <2>1, <2>2 DEF Start, Calculate
<1>7. ASSUME NEW k \in Key, NEW o, NEW v, Resolve(k, o, v)
      PROVE  \A r \in Request : /\ request'[r].key = request[r].key
                                /\ request'[r].state # "answered" => request[r].state # "answered"
  BY <1>7 DEF Resolve, RequestType
<1>8. ASSUME NEW k \in Key, Raise(k) \/ Unwind(k) PROVE Begun'
  <2>1. \A j \in Key : task'[j].state # "none" => task'[j] = task[j]
    BY <1>8 DEF Raise, Unwind, NoTask, TypeOK
  <2>2. \A r \in Request : /\ request'[r].key = request[r].key
                           /\ request'[r].state # "answered" => request[r].state # "answered"
    BY <1>7, <1>8 DEF Raise, Unwind
  <2> QED BY <1>8, <2>1, <2>2 DEF Raise, Unwind
<1>9. ASSUME NEW k \in Key, Finish(k) PROVE Begun'
  <2> DEFINE e == [key |-> k, value |-> task[k].value, fresh |-> TRUE]
  <2>1. \A j \in Key : task'[j].state # "none" => task'[j] = task[j]
    BY <1>9 DEF Finish, NoTask, TypeOK
  <2>2. \A r \in Request : /\ request'[r].key = request[r].key
                           /\ request'[r].state # "answered" => request[r].state # "answered"
    BY <1>7, <1>9 DEF Finish
  <2>3. e \in Entry /\ e.key = k
    BY DEF Entry, TypeOK, TaskType
  <2>4. \A i \in DOMAIN completed' : completed'[i] = e \/ \E j \in DOMAIN completed : completed'[i] = completed[j]
    BY <1>9, <2>3, FinishSaves DEF Finish
  <2>5. k[1] <= generation
    BY <1>9 DEF Finish
  <2> HIDE DEF e
  <2>6. \A i \in DOMAIN completed' : completed'[i].key[1] <= generation
    BY <2>3, <2>4, <2>5
  <2> QED BY <1>9, <2>1, <2>2, <2>6 DEF Finish
<1>10. ASSUME Expire PROVE Begun'
  <2>1. PICK i \in DOMAIN completed : completed' = [completed EXCEPT ![i].fresh = FALSE]
    BY <1>10 DEF Expire
  <2>2. \A j \in DOMAIN completed' : j \in DOMAIN completed /\ completed'[j].key = completed[j].key
    BY <2>1 DEF Entry
  <2> QED BY <1>10, <2>2 DEF Expire
<1> QED BY <1>1, <1>2, <1>3, <1>4, <1>5, <1>6, <1>8, <1>9, <1>10 DEF Next

-----------------------------------------------------------------------------
(* What is current is as new as what is acknowledged.                      *)

LEMMA TimelyStep ==
  ASSUME TypeOK, Begun, Timely, Queued, Next
  PROVE  Timely'
<1> USE Shapes DEF Timely
<1>1. ASSUME NEW w \in Writer, Commit(w) PROVE Timely'
  <2>1. /\ data' = data + 1 /\ writer'[w].version = data + 1
        /\ \A x \in Writer : x # w => writer'[x] = writer[x]
        /\ UNCHANGED <<acked, generation, completed, task>>
    BY <1>1 DEF Commit, TypeOK, WriterType
  <2>2. \A n \in Nat : n <= data => n <= data'
    BY <2>1
  <2>3. data' <= data'
    BY <2>1
  <2> QED BY <2>1, <2>2, <2>3
<1>2. ASSUME NEW w \in Writer, FailRefresh(w) \/ Clear(w) PROVE Timely'
  <2>1. \A x \in Writer : writer'[x].version = writer[x].version
    <3>1. PICK t \in {"idle", "cleared"} : writer' = [writer EXCEPT ![w].state = t]
      BY <1>2 DEF FailRefresh, Clear
    <3> QED BY <3>1 DEF TypeOK, WriterType
  <2> QED BY <1>2, <2>1 DEF FailRefresh, Clear
<1>3. ASSUME NEW w \in Writer, Bump(w) PROVE Timely'
  <2>1. \A x \in Writer : writer'[x].version = writer[x].version
    BY <1>3 DEF Bump, TypeOK, WriterType
  <2>2. acked' \in {acked, writer[w].version}
    BY <1>3 DEF Bump
  <2>3. acked' <= data
    BY <2>2
  <2>4. /\ \A k \in Key : task[k].state # "none" => k[1] # generation'
        /\ \A i \in DOMAIN completed : completed[i].key[1] # generation'
    <3>1. \A i \in DOMAIN completed : completed[i].key \in Key
      BY DEF Entry
    <3> QED BY <1>3, <3>1 DEF Bump, Begun
  <2> QED BY <1>3, <2>1, <2>3, <2>4 DEF Bump
<1>4. ASSUME NEW r \in Request, Return(r) \/ Leave(r) PROVE Timely'
  <2>1. request[r].key \in Key /\ Unwait(r, request[r].key)
    BY <1>4 DEF Return, Leave, Begun
  <2>2. \A j \in Key : task'[j].state = "calculated" => task'[j] = task[j]
    BY <2>1, UnwaitChanges DEF Queued
  <2> QED BY <1>4, <2>2 DEF Return, Leave
<1>5. ASSUME NEW r \in Request, NEW p \in Preview, GetSaved(r, p) PROVE Timely'
  BY <1>5 DEF GetSaved
<1>6. ASSUME NEW r \in Request, NEW p \in Preview, Get(r, p) PROVE Timely'
  <2> DEFINE k == <<generation, p>>
  <2>1. k \in Key
    BY KeyHere
  <2>2. \A j \in Key : task'[j].state = "calculated" => task'[j] = task[j]
    <3>1. \A j \in Key : j # k => task'[j] = task[j]
      BY <1>6, <2>1 DEF Get, TypeOK
    <3>2. task'[k] = task[k] \/ task'[k].state \in {"calculating", "queued"}
      BY <1>6, <2>1 DEF Get, TypeOK
    <3> QED BY <3>1, <3>2
  <2> QED BY <1>6, <2>2 DEF Get
<1>7. ASSUME NEW k \in Key, Start(k) \/ Raise(k) \/ Unwind(k) PROVE Timely'
  <2>1. \A j \in Key : task'[j].state = "calculated" => task'[j] = task[j]
    BY <1>7 DEF Start, Raise, Unwind, NoTask, TypeOK, TaskType
  <2> QED BY <1>7, <2>1 DEF Start, Raise, Unwind
<1>8. ASSUME NEW k \in Key, Calculate(k) PROVE Timely'
  <2>1. \A j \in Key : j # k => task'[j] = task[j]
    BY <1>8 DEF Calculate, TypeOK
  <2>2. task'[k].state = "calculated" => task'[k].value = data
    BY <1>8 DEF Calculate, TypeOK
  <2>3. data <= data
    OBVIOUS
  <2> QED BY <1>8, <2>1, <2>2, <2>3 DEF Calculate
<1>9. ASSUME NEW k \in Key, Finish(k) PROVE Timely'
  <2> DEFINE e == [key |-> k, value |-> task[k].value, fresh |-> TRUE]
  <2>1. \A j \in Key : task'[j].state = "calculated" => task'[j] = task[j]
    BY <1>9 DEF Finish, NoTask, TypeOK
  <2>3. e \in Entry /\ e.key = k /\ e.value = task[k].value
    BY DEF Entry, TypeOK, TaskType
  <2>4. \A i \in DOMAIN completed' : completed'[i] = e \/ \E j \in DOMAIN completed : completed'[i] = completed[j]
    <3>1. completed' = Trim(Append(Others(k), e))
      BY <1>9 DEF Finish
    <3> HIDE DEF e
    <3> QED BY <2>3, <3>1, FinishSaves
  <2>5. task[k].value <= data /\ (k[1] = generation => acked <= task[k].value)
    BY <1>9 DEF Finish
  <2> HIDE DEF e
  <2>6. \A i \in DOMAIN completed' : /\ completed'[i].value <= data
                                     /\ completed'[i].key[1] = generation => acked <= completed'[i].value
    BY <2>3, <2>4, <2>5
  <2> QED BY <1>9, <2>1, <2>6 DEF Finish
<1>10. ASSUME Expire PROVE Timely'
  <2>1. PICK i \in DOMAIN completed : completed' = [completed EXCEPT ![i].fresh = FALSE]
    BY <1>10 DEF Expire
  <2>2. \A j \in DOMAIN completed' : /\ j \in DOMAIN completed
                                     /\ completed'[j].key = completed[j].key
                                     /\ completed'[j].value = completed[j].value
    BY <2>1 DEF Entry
  <2> QED BY <1>10, <2>2 DEF Expire
<1> QED BY <1>1, <1>2, <1>3, <1>4, <1>5, <1>6, <1>7, <1>8, <1>9, <1>10 DEF Next

(* What a request is owed: one request at a time.                          *)
OwedTo(q) ==
    /\ q.floor <= acked
    /\ q.state = "waiting" => q.outcome = "none" /\ q.value = 0
    /\ q.state = "resolved" => q.outcome \in {"value", "failed", "cancelled"}
    /\ q.outcome = "value" => q.floor <= q.value
    /\ q.outcome # "value" => q.value = 0
    /\ q.value <= data
    /\ q.state = "waiting" /\ task[q.key].state = "calculated" => q.floor <= task[q.key].value

LEMMA OwedAll == Owed <=> \A r \in Request : OwedTo(request[r])
BY DEF Owed, OwedTo

LEMMA OwedStep ==
  ASSUME TypeOK, Begun, Timely, Owed, Queued, Next
  PROVE  Owed'
<1> USE Shapes
<1>0. /\ acked \in Nat /\ data \in Nat /\ acked <= data
      /\ \A n \in Nat : 0 <= n /\ n <= n
  BY DEF Timely
<1>a. ASSUME UNCHANGED <<data, acked>>,
             \A k \in Key : task'[k].state = "calculated" => task'[k] = task[k],
             NEW r \in Request, \A q \in Request : q # r => request'[q] = request[q],
             OwedTo(request[r])'
      PROVE  Owed'
  <2>1. ASSUME NEW q \in Request, q # r PROVE OwedTo(request[q])'
    <3>1. request'[q] = request[q] /\ OwedTo(request[q])
      BY <1>a, <2>1, OwedAll
    <3>2. request[q].state = "waiting" => request[q].key \in Key
      BY DEF Begun
    <3> QED BY <1>a, <3>1, <3>2 DEF OwedTo
  <2> QED BY <2>1, <1>a, OwedAll DEF Owed, OwedTo
<1>1. ASSUME NEW w \in Writer, Commit(w) PROVE Owed'
  <2>1. \A n \in Nat : n <= data => n <= data'
    BY <1>1 DEF Commit
  <2> QED BY <1>1, <2>1 DEF Commit, Owed
<1>2. ASSUME NEW w \in Writer, FailRefresh(w) \/ Clear(w) PROVE Owed'
  BY <1>2 DEF FailRefresh, Clear, Owed
<1>3. ASSUME NEW w \in Writer, Bump(w) PROVE Owed'
  <2>1. \A n \in Nat : n <= acked => n <= acked'
    BY <1>3 DEF Bump
  <2> QED BY <1>3, <2>1 DEF Bump, Owed
<1>4. ASSUME NEW r \in Request, Return(r) \/ Leave(r) PROVE Owed'
  <2>1. request[r].key \in Key /\ Unwait(r, request[r].key)
    BY <1>4 DEF Return, Leave, Begun
  <2>2. \A j \in Key : task'[j].state = "calculated" => task'[j] = task[j]
    BY <2>1, UnwaitChanges DEF Queued
  <2>3. UNCHANGED <<data, acked>> /\ \A q \in Request : q # r => request'[q] = request[q]
    BY <1>4 DEF Return, Leave, TypeOK
  <2>4. /\ request'[r].state = "answered" /\ request'[r].floor = request[r].floor
        /\ \/ request'[r].outcome = request[r].outcome /\ request'[r].value = request[r].value
           \/ request'[r].outcome = "left" /\ request'[r].value = 0
    BY <1>4 DEF Return, Leave, TypeOK, RequestType
  <2>5. OwedTo(request[r])'
    BY <2>3, <2>4, <1>0 DEF Owed, OwedTo
  <2> QED BY <2>2, <2>3, <2>5, <1>a
<1>5. ASSUME NEW r \in Request, NEW p \in Preview, GetSaved(r, p) PROVE Owed'
  <2>1. PICK v \in Hits(<<generation, p>>) :
          request' = [request EXCEPT ![r] =
            [state |-> "answered", key |-> NoKey, floor |-> acked,
             outcome |-> "value", value |-> v]]
    BY <1>5 DEF GetSaved
  <2>2. v \in Nat /\ acked <= v /\ v <= data
    BY <2>1, KeyHere, HitsSaved DEF Timely
  <2>3. UNCHANGED <<data, acked, task>> /\ \A q \in Request : q # r => request'[q] = request[q]
    BY <1>5, <2>1 DEF GetSaved, TypeOK
  <2>4. request'[r] = [state |-> "answered", key |-> NoKey, floor |-> acked,
                       outcome |-> "value", value |-> v]
    BY <2>1 DEF TypeOK
  <2>5. OwedTo(request[r])'
    BY <2>2, <2>3, <2>4, <1>0 DEF OwedTo
  <2> QED BY <2>3, <2>5, <1>a
<1>6. ASSUME NEW r \in Request, NEW p \in Preview, Get(r, p) PROVE Owed'
  <2> DEFINE k == <<generation, p>>
  <2>1. k \in Key /\ k[1] = generation
    BY KeyHere
  <2>2. \A j \in Key : task'[j].state = "calculated" => task'[j] = task[j]
    <3>1. \A j \in Key : j # k => task'[j] = task[j]
      BY <1>6, <2>1 DEF Get, TypeOK
    <3>2. task'[k] = task[k] \/ task'[k].state \in {"calculating", "queued"}
      BY <1>6, <2>1 DEF Get, TypeOK
    <3> QED BY <3>1, <3>2
  <2>3. UNCHANGED <<data, acked>> /\ \A q \in Request : q # r => request'[q] = request[q]
    BY <1>6 DEF Get, TypeOK
  <2>4. request'[r] = [state |-> "waiting", key |-> k, floor |-> acked,
                       outcome |-> "none", value |-> 0]
    BY <1>6 DEF Get, TypeOK
  <2> HIDE DEF k
  <2>5. task'[k].state = "calculated" => acked <= task'[k].value
    BY <2>1, <2>2 DEF Timely
  <2>6. OwedTo(request[r])'
    BY <2>3, <2>4, <2>5, <1>0 DEF OwedTo
  <2> QED BY <2>2, <2>3, <2>6, <1>a
<1>7. ASSUME NEW k \in Key, Start(k) PROVE Owed'
  <2>1. \A j \in Key : task'[j].state = "calculated" => task'[j] = task[j]
    BY <1>7 DEF Start, TypeOK, TaskType
  <2>2. \A r \in Request : request[r].state = "waiting" => request[r].key \in Key
    BY DEF Begun
  <2> QED BY <1>7, <2>1, <2>2 DEF Start, Owed
<1>8. ASSUME NEW k \in Key, Calculate(k) PROVE Owed'
  <2>1. \A j \in Key : j # k => task'[j] = task[j]
    BY <1>8 DEF Calculate, TypeOK
  <2>2. task'[k].state = "calculated" => task'[k].value = data
    BY <1>8 DEF Calculate, TypeOK
  <2>3. \A r \in Request : request[r].floor <= data
    BY <1>0 DEF Owed
  <2>4. \A r \in Request : request[r].state = "waiting" => request[r].key \in Key
    BY DEF Begun
  <2> QED BY <1>8, <2>1, <2>2, <2>3, <2>4 DEF Calculate, Owed
<1>9. ASSUME NEW k \in Key, NEW o \in {"value", "failed", "cancelled"}, NEW v \in Nat,
             Resolve(k, o, v), o # "value" => v = 0, v <= data,
             o = "value" => task[k].state = "calculated" /\ v = task[k].value,
             \A j \in Key : task'[j].state = "calculated" => task'[j] = task[j],
             UNCHANGED <<data, acked>>
      PROVE  Owed'
  <2>1. ASSUME NEW r \in Request PROVE OwedTo(request[r])'
    <3>1. OwedTo(request[r])
      BY OwedAll
    <3>2. CASE request[r].state = "waiting" /\ request[r].key = k
      <4>1. /\ request'[r].state = "resolved" /\ request'[r].outcome = o
            /\ request'[r].value = v /\ request'[r].floor = request[r].floor
        BY <1>9, <3>2 DEF Resolve, RequestType
      <4>2. o = "value" => request[r].floor <= v
        BY <1>9, <3>1, <3>2 DEF OwedTo
      <4> QED BY <1>9, <3>1, <4>1, <4>2 DEF OwedTo
    <3>3. CASE ~(request[r].state = "waiting" /\ request[r].key = k)
      <4>1. request'[r] = request[r]
        BY <1>9, <3>3 DEF Resolve
      <4>2. request[r].state = "waiting" => request[r].key \in Key
        BY DEF Begun
      <4> QED BY <1>9, <3>1, <4>1, <4>2 DEF OwedTo
    <3> QED BY <3>2, <3>3
  <2> QED BY <2>1 DEF Owed, OwedTo
<1>10. ASSUME NEW k \in Key, Finish(k) PROVE Owed'
  <2>1. \A j \in Key : task'[j].state = "calculated" => task'[j] = task[j]
    BY <1>10 DEF Finish, NoTask, TypeOK
  <2>2. task[k].value <= data /\ Resolve(k, "value", task[k].value) /\ UNCHANGED <<data, acked>>
    BY <1>10 DEF Finish, Timely
  <2> QED BY <1>9, <1>10, <2>1, <2>2 DEF Finish
<1>11. ASSUME NEW k \in Key, Raise(k) PROVE Owed'
  <2>1. \A j \in Key : task'[j].state = "calculated" => task'[j] = task[j]
    BY <1>11 DEF Raise, NoTask, TypeOK
  <2>2. Resolve(k, "failed", 0) /\ UNCHANGED <<data, acked>>
    BY <1>11 DEF Raise
  <2> QED BY <1>9, <1>0, <2>1, <2>2
<1>12. ASSUME NEW k \in Key, Unwind(k) PROVE Owed'
  <2>1. \A j \in Key : task'[j].state = "calculated" => task'[j] = task[j]
    BY <1>12 DEF Unwind, NoTask, TypeOK
  <2>2. Resolve(k, "cancelled", 0) /\ UNCHANGED <<data, acked>>
    BY <1>12 DEF Unwind
  <2> QED BY <1>9, <1>0, <2>1, <2>2
<1>13. ASSUME Expire PROVE Owed'
  BY <1>13 DEF Expire, Owed
<1> QED BY <1>1, <1>2, <1>3, <1>4, <1>5, <1>6, <1>7, <1>8, <1>10, <1>11, <1>12, <1>13 DEF Next

-----------------------------------------------------------------------------
(* Who waits is served, and what is queued is wanted.                      *)

Attended ==
    /\ \A r \in Request : request[r].state = "waiting" => task[request[r].key].state # "none"
    /\ QueuedIsWanted

LEMMA AttendedStep ==
  ASSUME TypeOK, Begun, Queued, Attended, Next
  PROVE  Attended'
<1> USE Shapes DEF Attended, QueuedIsWanted, Waiters
<1>k. \A r \in Request : request[r].state # "answered" => request[r].key \in Key
  BY DEF Begun
<1>1. ASSUME UNCHANGED <<task, request>> PROVE Attended'
  BY <1>1
<1>2. ASSUME NEW r \in Request, Return(r) \/ Leave(r) PROVE Attended'
  <2> DEFINE k == request[r].key
  <2>1. k \in Key /\ Unwait(r, k)
    BY <1>2, <1>k DEF Return, Leave
  <2>2. \A j \in Key : \/ task'[j] = task[j]
                       \/ task[j].state = "queued" /\ task'[j].state = "cancelled"
    BY <2>1, UnwaitChanges DEF Queued
  <2>3. \A q \in Request : q # r => request'[q] = request[q]
    BY <1>2 DEF Return, Leave, TypeOK
  <2>4. request'[r].state = "answered" /\ request[r].state # "answered"
    BY <1>2 DEF Return, Leave, TypeOK, RequestType
  <2>5. \A q \in Request : request'[q].state = "waiting" => task'[request'[q].key].state # "none"
    BY <2>2, <2>3, <2>4, <1>k
  <2>6. ASSUME NEW j \in Key, task'[j].state = "queued"
        PROVE  \E q \in Request : request'[q].state # "answered" /\ request'[q].key = j
    <3>1. task'[j] = task[j]
      BY <2>2, <2>6
    <3>2. CASE j # k
      <4>1. PICK q \in Request : request[q].state # "answered" /\ request[q].key = j
        BY <2>6, <3>1
      <4> QED BY <4>1, <3>2, <2>3
    <3>3. CASE j = k
      <4>1. ~(Waiters(k) = {r} /\ task[k].state = "queued")
        <5> SUFFICES ASSUME Waiters(k) = {r}, task[k].state = "queued" PROVE FALSE
          OBVIOUS
        <5>1. task' = [task EXCEPT ![k].state = "cancelled"]
          BY <2>1 DEF Unwait
        <5> QED BY <5>1, <2>1, <2>6, <3>3 DEF TypeOK, TaskType
      <4>2. Waiters(k) # {r} /\ r \in Waiters(k)
        BY <4>1, <3>1, <3>3, <2>4, <2>6
      <4>3. PICK q \in Waiters(k) : q # r
        BY <4>2
      <4> QED BY <4>3, <2>3, <3>3
    <3> QED BY <3>2, <3>3
  <2> QED BY <2>5, <2>6
<1>3. ASSUME NEW r \in Request, NEW p \in Preview, GetSaved(r, p) PROVE Attended'
  <2>1. /\ \A q \in Request : q # r => request'[q] = request[q]
        /\ request'[r].state = "answered" /\ request[r].state = "answered"
    BY <1>3 DEF GetSaved, TypeOK
  <2> QED BY <1>3, <2>1 DEF GetSaved
<1>4. ASSUME NEW r \in Request, NEW p \in Preview, Get(r, p) PROVE Attended'
  <2> DEFINE k == <<generation, p>>
  <2>1. k \in Key
    BY KeyHere
  <2>2. /\ \A q \in Request : q # r => request'[q] = request[q]
        /\ request'[r].state = "waiting" /\ request'[r].key = k
        /\ request[r].state = "answered"
    BY <1>4 DEF Get, TypeOK
  <2>3. \A j \in Key : j # k => task'[j] = task[j]
    BY <1>4, <2>1 DEF Get, TypeOK
  <2>4. task'[k].state # "none"
    BY <1>4, <2>1 DEF Get, TypeOK
  <2> HIDE DEF k
  <2>5. \A q \in Request : request'[q].state = "waiting" => task'[request'[q].key].state # "none"
    BY <2>1, <2>2, <2>3, <2>4, <1>k
  <2>6. \A j \in Key : task'[j].state = "queued" =>
           \E q \in Request : request'[q].state # "answered" /\ request'[q].key = j
    BY <2>2, <2>3
  <2> QED BY <2>5, <2>6
<1>5. ASSUME NEW k \in Key, Start(k) \/ Calculate(k) PROVE Attended'
  <2>1. /\ \A j \in Key : j # k => task'[j] = task[j]
        /\ task'[k].state \notin {"none", "queued"} /\ UNCHANGED request
    BY <1>5 DEF Start, Calculate, TypeOK, TaskType
  <2> QED BY <2>1, <1>k
<1>6. ASSUME NEW k \in Key, Finish(k) \/ Raise(k) \/ Unwind(k) PROVE Attended'
  <2>1. /\ \A j \in Key : j # k => task'[j] = task[j]
        /\ task'[k].state = "none"
    BY <1>6 DEF Finish, Raise, Unwind, NoTask, TypeOK
  <2>2. PICK o, v : Resolve(k, o, v)
    BY <1>6 DEF Finish, Raise, Unwind
  <2>3. \A r \in Request :
          /\ request'[r].key = request[r].key
          /\ request'[r].state = "answered" <=> request[r].state = "answered"
          /\ request'[r].state = "waiting" => request[r].state = "waiting" /\ request[r].key # k
    BY <2>2 DEF Resolve, RequestType
  <2>4. \A j \in Key : task'[j].state = "queued" => task[j].state = "queued"
    BY <2>1
  <2> QED BY <2>1, <2>3, <2>4, <1>k
<1>7. ASSUME NEW w \in Writer, Commit(w) \/ FailRefresh(w) \/ Clear(w) \/ Bump(w) PROVE Attended'
  BY <1>1, <1>7 DEF Commit, FailRefresh, Clear, Bump
<1>8. ASSUME Expire PROVE Attended'
  BY <1>1, <1>8 DEF Expire
<1> QED BY <1>2, <1>3, <1>4, <1>5, <1>6, <1>7, <1>8 DEF Next

-----------------------------------------------------------------------------
IInv == TypeOK /\ Begun /\ Timely /\ Owed /\ Queued /\ Attended

LEMMA InitInv == Init => IInv
<1> SUFFICES ASSUME Init PROVE IInv
  OBVIOUS
<1>1. TypeOK
  BY TypeInit
<1>2. Begun /\ Timely /\ Owed
  BY DEF Init, Begun, Timely, Owed, NoTask
<1>3. Queued /\ Attended
  BY DEF Init, Queued, Attended, QueuedIsWanted, NoTask
<1> QED BY <1>1, <1>2, <1>3 DEF IInv

LEMMA InvStep == IInv /\ [Next]_vars => IInv'
<1> SUFFICES ASSUME IInv, [Next]_vars PROVE IInv'
  OBVIOUS
<1>1. CASE Next
  BY <1>1, TypeStep, BegunStep, TimelyStep, OwedStep, QueuedStep, AttendedStep DEF IInv
<1>2. CASE UNCHANGED vars
  BY <1>2 DEF vars, IInv, TypeOK, Begun, Timely, Owed, Queued, Attended, QueuedIsWanted, Waiters
<1> QED BY <1>1, <1>2

THEOREM InvariantHolds == Spec => []IInv
BY InitInv, InvStep, PTL DEF Spec

(* Every variable keeps its type, and at most Saved results are kept.      *)
THEOREM TypeCorrect == Spec => []TypeOK
BY InvariantHolds, PTL DEF IInv

(* A preview is never older than the newest change acknowledged before it  *)
(* was asked for, whatever is shared, saved, cancelled or invalidated.     *)
THEOREM AlwaysFresh == Spec => []Fresh
<1>1. IInv => Fresh
  <2> SUFFICES ASSUME IInv, NEW r \in Request, request[r].outcome = "value"
               PROVE  request[r].value >= request[r].floor
    BY DEF Fresh
  <2>1. request[r].floor <= request[r].value
    BY DEF IInv, Owed
  <2> QED BY <2>1, Shapes DEF IInv
<1> QED BY <1>1, InvariantHolds, PTL

(* No queued calculation is left without a request that wants it.          *)
THEOREM AlwaysWanted == Spec => []QueuedIsWanted
BY InvariantHolds, PTL DEF IInv, Attended

(* Every request that waits has a calculation that will resolve it.        *)
THEOREM NeverStranded == Spec => []NobodyStranded
<1>1. IInv => NobodyStranded
  BY DEF IInv, Attended, Queued, NobodyStranded
<1> QED BY <1>1, InvariantHolds, PTL

-----------------------------------------------------------------------------
(* What has started is delivered.                                          *)

(* One step moves the task of a key that holds the semaphore only on, and  *)
(* resolves a request that waits only by the end of its own calculation.   *)
Delivers(k) ==
    k \in Busy => /\ task'[k].state # "cancelled"
                  /\ \A r \in Waiters(k) :
                       request[r].state = "waiting" /\ request'[r].state = "resolved"
                         => request'[r].outcome \in {"value", "failed"}

LEMMA Undisturbed ==
  ASSUME NEW k \in Key, task'[k] = task[k],
         \A r \in Request : request[r].state = "waiting" /\ request[r].key = k
                              => request'[r].state # "resolved"
  PROVE  Delivers(k)
BY DEF Delivers, Busy, Waiters

LEMMA ResolveOthers ==
  ASSUME TypeOK, NEW j \in Key, NEW o, NEW v, Resolve(j, o, v), task' = [task EXCEPT ![j] = NoTask],
         task[j].state = "cancelled" \/ o \in {"value", "failed"},
         NEW k \in Key
  PROVE  Delivers(k)
<1>1. \A r \in Request :
         \/ request'[r] = request[r]
         \/ request[r].key = j /\ request'[r].outcome = o
  <2> TAKE r \in Request
  <2>1. request[r] \in RequestType
    BY DEF TypeOK
  <2> QED BY <2>1 DEF Resolve, RequestType
<1>2. k # j => task'[k] = task[k]
  BY DEF TypeOK
<1>3. task'[j] = NoTask
  BY DEF TypeOK
<1>4. CASE k # j
  <2>1. \A r \in Request : request[r].state = "waiting" /\ request[r].key = k
                              => request'[r].state # "resolved"
    BY <1>1, <1>4
  <2> QED BY <1>2, <1>4, <2>1, Undisturbed
<1>5. CASE k = j
  <2> SUFFICES ASSUME k \in Busy PROVE
        /\ task'[k].state # "cancelled"
        /\ \A r \in Waiters(k) :
             request[r].state = "waiting" /\ request'[r].state = "resolved"
               => request'[r].outcome \in {"value", "failed"}
    BY DEF Delivers
  <2>1. o \in {"value", "failed"}
    BY <1>5 DEF Busy
  <2>2. \A r \in Waiters(k) : request'[r] = request[r] \/ request'[r].outcome = o
    BY <1>1 DEF Waiters
  <2>3. task'[k].state # "cancelled"
    BY <1>3, <1>5 DEF NoTask
  <2>4. ASSUME NEW r \in Waiters(k), request[r].state = "waiting", request'[r].state = "resolved"
        PROVE  request'[r].outcome = o
    BY <2>2, <2>4
  <2> QED BY <2>1, <2>3, <2>4
<1> QED BY <1>4, <1>5

LEMMA DeliverStep ==
  ASSUME IInv, [Next]_vars, NEW k \in Key
  PROVE  Delivers(k)
<1>a. TypeOK /\ Queued /\ Begun
  BY DEF IInv
<1>1. CASE UNCHANGED <<task, request>>
  BY <1>1, Undisturbed
<1>2. ASSUME NEW r \in Request, Return(r) \/ Leave(r) PROVE Delivers(k)
  <2>1. request[r].key \in Key /\ Unwait(r, request[r].key)
    BY <1>2, <1>a DEF Return, Leave, Begun
  <2>2. task'[k] = task[k] \/ task[k].state = "queued"
    BY <1>a, <2>1, UnwaitChanges DEF Queued
  <2>3. \A q \in Request : q # r => request'[q] = request[q]
    BY <1>2, <1>a DEF Return, Leave, TypeOK
  <2>4. request'[r].state = "answered"
    BY <1>2, <1>a DEF Return, Leave, TypeOK, RequestType
  <2>5. \A q \in Request : request[q].state = "waiting" => request'[q].state # "resolved"
    BY <2>3, <2>4
  <2>6. CASE task'[k] = task[k]
    BY <2>5, <2>6, Undisturbed
  <2>7. CASE task[k].state = "queued"
    BY <2>7 DEF Delivers, Busy
  <2> QED BY <2>2, <2>6, <2>7
<1>3. ASSUME NEW r \in Request, NEW p \in Preview, GetSaved(r, p) PROVE Delivers(k)
  <2>1. request'[r].state = "answered" /\ \A q \in Request : q # r => request'[q] = request[q]
    BY <1>3, <1>a DEF GetSaved, TypeOK
  <2>2. \A q \in Request : request[q].state = "waiting" => request'[q].state # "resolved"
    BY <2>1
  <2>3. task'[k] = task[k]
    BY <1>3 DEF GetSaved
  <2> QED BY <2>2, <2>3, Undisturbed
<1>4. ASSUME NEW r \in Request, NEW p \in Preview, Get(r, p) PROVE Delivers(k)
  <2>1. request'[r].state = "waiting" /\ \A q \in Request : q # r => request'[q] = request[q]
    BY <1>4, <1>a DEF Get, TypeOK
  <2>2. \A q \in Request : request[q].state = "waiting" => request'[q].state # "resolved"
    BY <2>1
  <2>3. <<generation, p>> \in Key
    BY <1>a, KeyHere
  <2>4. task'[k] = task[k] \/ task[k].state = "none"
    BY <1>4, <1>a, <2>3 DEF Get, TypeOK
  <2>5. CASE task[k].state = "none"
    BY <2>5 DEF Delivers, Busy
  <2> QED BY <2>2, <2>4, <2>5, Undisturbed
<1>5. ASSUME NEW j \in Key, Start(j) \/ Calculate(j) PROVE Delivers(k)
  <2>1. request' = request /\ \A r \in Request : ~(request[r].state = "waiting" /\ request[r].state = "resolved")
    BY <1>5 DEF Start, Calculate
  <2>2. task'[k] = task[k] \/ task'[k].state \in {"calculating", "calculated", "failed"}
    BY <1>5, <1>a DEF Start, Calculate, TypeOK, TaskType
  <2>3. CASE task'[k] = task[k]
    BY <2>1, <2>3, Undisturbed
  <2>4. CASE task'[k].state \in {"calculating", "calculated", "failed"}
    BY <2>1, <2>4 DEF Delivers, Waiters
  <2> QED BY <2>2, <2>3, <2>4
<1>6. ASSUME NEW j \in Key, Finish(j) \/ Raise(j) \/ Unwind(j) PROVE Delivers(k)
  <2>1. PICK o \in {"value", "failed", "cancelled"}, v \in {task[j].value, 0} :
          /\ Resolve(j, o, v)
          /\ task' = [task EXCEPT ![j] = NoTask]
          /\ task[j].state = "cancelled" \/ o \in {"value", "failed"}
    BY <1>6 DEF Finish, Raise, Unwind
  <2> QED BY <1>a, <2>1, ResolveOthers
<1>7. CASE Expire \/ \E w \in Writer : Commit(w) \/ FailRefresh(w) \/ Clear(w) \/ Bump(w)
  BY <1>1, <1>7 DEF Expire, Commit, FailRefresh, Clear, Bump
<1> QED BY <1>1, <1>2, <1>3, <1>4, <1>5, <1>6, <1>7 DEF Next, vars

(* A calculation that holds the semaphore is delivered to every request    *)
(* that shares it, as a value or an error: no request that leaves, and no  *)
(* cancelled calculation of another key, takes it away.                    *)
THEOREM AlwaysDelivered == Spec => StartedIsDelivered
<1>1. IInv /\ [Next]_vars => [\A k \in Key : Delivers(k)]_vars
  BY DeliverStep
<1>2. StartedIsDelivered <=> [][\A k \in Key : Delivers(k)]_vars
  BY DEF StartedIsDelivered, Delivers
<1> QED BY <1>1, <1>2, InvariantHolds, PTL DEF Spec

-----------------------------------------------------------------------------
(* The coordinator implements PreviewPromise.                              *)

LEMMA PromiseInit == Init => Promise!Init
<1> SUFFICES ASSUME Init PROVE Promise!Init
  OBVIOUS
<1>1. \A r \in Request :
        Seen(request[r]) = [open |-> FALSE, floor |-> 0, outcome |-> "none", value |-> 0]
  BY DEF Init, Seen
<1>2. SeenRequests = [r \in Request |->
        [open |-> FALSE, floor |-> 0, outcome |-> "none", value |-> 0]]
  BY <1>1 DEF SeenRequests
<1> QED BY <1>2 DEF Init, Promise!Init

LEMMA SeenOne ==
  ASSUME NEW r \in Request, \A q \in Request : q # r => request'[q] = request[q]
  PROVE  SeenRequests' = [SeenRequests EXCEPT ![r] = Seen(request'[r])]
BY DEF SeenRequests, Seen

LEMMA SeenSame ==
  ASSUME \A q \in Request : Seen(request'[q]) = Seen(request[q])
  PROVE  SeenRequests' = SeenRequests
BY DEF SeenRequests, Seen

LEMMA SeenResolved ==
  ASSUME TypeOK, NEW k, NEW o, NEW v, Resolve(k, o, v)
  PROVE  SeenRequests' = SeenRequests
<1>1. \A q \in Request : Seen(request'[q]) = Seen(request[q])
  BY Shapes DEF Resolve, Seen, RequestType
<1> QED BY <1>1, SeenSame

LEMMA PromiseStep ==
  ASSUME IInv, [Next]_vars
  PROVE  [Promise!Next]_(Promise!vars)
<1> USE Shapes DEF IInv, Promise!vars
<1>0. UNCHANGED <<data, acked, SeenRequests>> => [Promise!Next]_(Promise!vars)
  OBVIOUS
<1>1. ASSUME NEW w \in Writer, Commit(w) PROVE Promise!Next
  BY <1>1 DEF Commit, SeenRequests, Promise!Next, Promise!Commit
<1>2. ASSUME NEW w \in Writer, FailRefresh(w) \/ Clear(w) PROVE [Promise!Next]_(Promise!vars)
  BY <1>0, <1>2 DEF FailRefresh, Clear, SeenRequests
<1>3. ASSUME NEW w \in Writer, Bump(w) PROVE Promise!Next
  <2>1. acked' \in acked..data
    BY <1>3 DEF Bump, Timely
  <2> QED BY <1>3, <2>1 DEF Bump, SeenRequests, Promise!Next, Promise!Acknowledge
<1>4. ASSUME NEW r \in Request, NEW p \in Preview, GetSaved(r, p) PROVE Promise!Next
  <2>1. PICK v \in Hits(<<generation, p>>) :
          request' = [request EXCEPT ![r] =
            [state |-> "answered", key |-> NoKey, floor |-> acked,
             outcome |-> "value", value |-> v]]
    BY <1>4 DEF GetSaved
  <2>2. v \in acked..data
    BY <2>1, KeyHere, HitsSaved DEF Timely
  <2>3. Seen(request'[r]) = [open |-> FALSE, floor |-> acked, outcome |-> "value", value |-> v]
    BY <2>1 DEF TypeOK, Seen
  <2>4. SeenRequests' = [SeenRequests EXCEPT ![r] =
           [open |-> FALSE, floor |-> acked, outcome |-> "value", value |-> v]]
    BY <2>1, <2>3, SeenOne DEF TypeOK
  <2>5. ~SeenRequests[r].open
    BY <1>4 DEF GetSaved, SeenRequests, Seen
  <2>6. Promise!Serve(r)
    BY <1>4, <2>2, <2>4, <2>5 DEF GetSaved, Promise!Serve
  <2> QED BY <2>6 DEF Promise!Next
<1>5. ASSUME NEW r \in Request, NEW p \in Preview, Get(r, p) PROVE Promise!Next
  <2>1. /\ request'[r] = [state |-> "waiting", key |-> <<generation, p>>, floor |-> acked,
                          outcome |-> "none", value |-> 0]
        /\ \A q \in Request : q # r => request'[q] = request[q]
    BY <1>5 DEF Get, TypeOK
  <2>2. Seen(request'[r]) = [open |-> TRUE, floor |-> acked, outcome |-> "none", value |-> 0]
    <3>1. /\ request'[r].state = "waiting" /\ request'[r].floor = acked
      BY <2>1
    <3>2. request'[r].state # "answered"
      BY <3>1
    <3> QED BY ONLY <3>1, <3>2 DEF Seen
  <2>3. SeenRequests' = [SeenRequests EXCEPT ![r] =
           [open |-> TRUE, floor |-> acked, outcome |-> "none", value |-> 0]]
    BY <2>1, <2>2, SeenOne
  <2>4. ~SeenRequests[r].open
    BY <1>5 DEF Get, SeenRequests, Seen
  <2>5. Promise!Ask(r)
    BY <1>5, <2>3, <2>4 DEF Get, Promise!Ask
  <2> QED BY <2>5 DEF Promise!Next
<1>6. ASSUME NEW r \in Request, Return(r) PROVE Promise!Next
  <2>1. /\ request'[r] = [request[r] EXCEPT !.state = "answered", !.key = NoKey]
        /\ \A q \in Request : q # r => request'[q] = request[q]
        /\ request[r].state = "resolved"
    BY <1>6 DEF Return, TypeOK, RequestType
  <2> DEFINE o == request[r].outcome
             v == request[r].value
             n == [open |-> FALSE, floor |-> request[r].floor, outcome |-> o, value |-> v]
  <2>2. Seen(request'[r]) = n
    BY <2>1 DEF Seen, RequestType
  <2>3. SeenRequests' = [SeenRequests EXCEPT ![r] = n]
    BY <2>1, <2>2, SeenOne
  <2>4. /\ SeenRequests[r] = Seen(request[r])
        /\ Seen(request[r]).open /\ Seen(request[r]).floor = request[r].floor
    BY <2>1 DEF SeenRequests, Seen
  <2>5. UNCHANGED <<data, acked>>
    BY <1>6 DEF Return
  <2>6. CASE o = "value"
    <3>1. v \in request[r].floor .. data
      BY <2>6 DEF Owed
    <3>2. Promise!Answer(r)
      BY <2>3, <2>4, <2>5, <2>6, <3>1 DEF Promise!Answer, SeenRequests
    <3> QED BY <3>2 DEF Promise!Next
  <2>7. CASE o # "value"
    <3>1. o \in {"failed", "cancelled", "left"} /\ v = 0
      BY <2>1, <2>7 DEF Owed
    <3>2. Promise!GiveUp(r)
      BY <2>3, <2>4, <2>5, <3>1 DEF Promise!GiveUp, SeenRequests
    <3> QED BY <3>2 DEF Promise!Next
  <2> QED BY <2>6, <2>7
<1>7. ASSUME NEW r \in Request, Leave(r) PROVE Promise!Next
  <2>1. /\ request'[r] = [state |-> "answered", key |-> NoKey, floor |-> request[r].floor,
                          outcome |-> "left", value |-> 0]
        /\ \A q \in Request : q # r => request'[q] = request[q]
        /\ request[r].state # "answered"
    BY <1>7 DEF Leave, TypeOK
  <2> DEFINE n == [open |-> FALSE, floor |-> request[r].floor, outcome |-> "left", value |-> 0]
  <2>2. Seen(request'[r]) = n
    <3>1. /\ request'[r].state = "answered" /\ request'[r].floor = request[r].floor
          /\ request'[r].outcome = "left" /\ request'[r].value = 0
      BY <2>1
    <3> QED BY ONLY <3>1 DEF Seen
  <2>3. SeenRequests' = [SeenRequests EXCEPT ![r] = n]
    BY <2>1, <2>2, SeenOne
  <2>4. /\ SeenRequests[r] = Seen(request[r])
        /\ Seen(request[r]).open /\ Seen(request[r]).floor = request[r].floor
    BY <2>1 DEF SeenRequests, Seen
  <2>5. Promise!GiveUp(r)
    BY <1>7, <2>3, <2>4 DEF Leave, Promise!GiveUp, SeenRequests
  <2> QED BY <2>5 DEF Promise!Next
<1>8. ASSUME NEW k \in Key, Start(k) \/ Calculate(k) PROVE [Promise!Next]_(Promise!vars)
  BY <1>0, <1>8 DEF Start, Calculate, SeenRequests
<1>9. ASSUME NEW k \in Key, Finish(k) \/ Raise(k) \/ Unwind(k) PROVE [Promise!Next]_(Promise!vars)
  BY <1>0, <1>9, SeenResolved DEF Finish, Raise, Unwind
<1>10. ASSUME Expire PROVE [Promise!Next]_(Promise!vars)
  BY <1>0, <1>10 DEF Expire, SeenRequests
<1>11. CASE UNCHANGED vars
  BY <1>0, <1>11 DEF vars, SeenRequests
<1> QED BY <1>1, <1>2, <1>3, <1>4, <1>5, <1>6, <1>7, <1>8, <1>9, <1>10, <1>11 DEF Next

(* The coordinator implements PreviewPromise: to a client it is a service  *)
(* that calculates each preview by itself, from data new enough.           *)
THEOREM PromiseKept == Spec => KeepsPromise
<1>1. IInv /\ [Next]_vars => [Promise!Next]_(Promise!vars)
  BY PromiseStep
<1> QED BY <1>1, PromiseInit, InvariantHolds, PTL DEF Spec, KeepsPromise, Promise!Spec
=============================================================================
