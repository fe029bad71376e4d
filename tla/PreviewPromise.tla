--------------------------- MODULE PreviewPromise ---------------------------
(***************************************************************************)
(* What POST /retirement/preview promises, whatever it shares or caches: a *)
(* preview is calculated from household data at least as new as the last   *)
(* change acknowledged before the request came in.  A request may also end *)
(* without a value: its calculation failed, or it was cancelled.           *)
(***************************************************************************)
EXTENDS Naturals

CONSTANTS
    Request,      \* the HTTP requests for a preview that can be open at once
    MaxVersion    \* bound on the number of committed changes of the data

VARIABLES
    data,         \* version of the household data that is committed
    acked,        \* newest version whose change was answered to its author
    request       \* request[r] = [open, floor, outcome, value]

vars == <<data, acked, request>>

Outcome == {"none", "value", "failed", "cancelled", "left"}

RequestType ==
    [open: BOOLEAN, floor: 0..MaxVersion, outcome: Outcome, value: 0..MaxVersion]

TypeOK ==
    /\ data \in 0..MaxVersion
    /\ acked \in 0..data
    /\ request \in [Request -> RequestType]

Init ==
    /\ data = 0
    /\ acked = 0
    /\ request = [r \in Request |->
                    [open |-> FALSE, floor |-> 0, outcome |-> "none", value |-> 0]]

\* A change of the profile, of a confirmed fact or of a cost basis commits.
Commit ==
    /\ data < MaxVersion
    /\ data' = data + 1
    /\ UNCHANGED <<acked, request>>

\* A committed change is answered to its author.
Acknowledge ==
    /\ acked' \in acked..data
    /\ UNCHANGED <<data, request>>

\* A request comes in and waits.
Ask(r) ==
    /\ ~request[r].open
    /\ request' = [request EXCEPT ![r] =
                     [open |-> TRUE, floor |-> acked, outcome |-> "none", value |-> 0]]
    /\ UNCHANGED <<data, acked>>

\* A request is answered from data no older than its floor.
Answer(r) ==
    /\ request[r].open
    /\ \E v \in request[r].floor .. data :
         request' = [request EXCEPT ![r] =
                       [open |-> FALSE, floor |-> @.floor, outcome |-> "value", value |-> v]]
    /\ UNCHANGED <<data, acked>>

\* A request is answered as it comes in.
Serve(r) ==
    /\ ~request[r].open
    /\ \E v \in acked .. data :
         request' = [request EXCEPT ![r] =
                       [open |-> FALSE, floor |-> acked, outcome |-> "value", value |-> v]]
    /\ UNCHANGED <<data, acked>>

\* A request ends without a value.
GiveUp(r) ==
    /\ request[r].open
    /\ \E o \in {"failed", "cancelled", "left"} :
         request' = [request EXCEPT ![r] =
                       [open |-> FALSE, floor |-> @.floor, outcome |-> o, value |-> 0]]
    /\ UNCHANGED <<data, acked>>

Next ==
    \/ Commit
    \/ Acknowledge
    \/ \E r \in Request : Ask(r) \/ Answer(r) \/ Serve(r) \/ GiveUp(r)

Spec == Init /\ [][Next]_vars
=============================================================================
