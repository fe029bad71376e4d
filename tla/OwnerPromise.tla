---------------------------- MODULE OwnerPromise ----------------------------
(***************************************************************************)
(* What Portfolio AI promises the Agent Hub about the runs it dispatches   *)
(* here (backend/app/services/agent_hub_automation_owner.py): a run that   *)
(* is said to be accepted has been given to the task queue, it ends once,  *)
(* and the Agent Hub is told the end it has, or, of a run of which two     *)
(* executions overlapped, the end that one of them saw.                    *)
(***************************************************************************)
CONSTANT Run

VARIABLES
  given,        \* the runs that were given to the task queue
  ending,       \* ending[r]: how the run ended
  known,        \* known[r]: what the Agent Hub was told of it
  overlapped    \* the runs of which two executions overlapped

vars == <<given, ending, known, overlapped>>

Ending == {"succeeded", "failed", "skipped"}

TypeOK ==
  /\ given \subseteq Run
  /\ ending \in [Run -> {"open"} \cup Ending]
  /\ known \in [Run -> {"nothing", "accepted"} \cup Ending]
  /\ overlapped \subseteq Run

Init ==
  /\ given = {}
  /\ ending = [r \in Run |-> "open"]
  /\ known = [r \in Run |-> "nothing"]
  /\ overlapped = {}

Give(r) ==
  /\ given' = given \cup {r}
  /\ UNCHANGED <<ending, known, overlapped>>

Accept(r) ==
  /\ r \in given /\ known[r] = "nothing"
  /\ known' = [known EXCEPT ![r] = "accepted"]
  /\ UNCHANGED <<given, ending, overlapped>>

(* A run that was given is executed once more while it is executed.        *)
Overlap(r) ==
  /\ r \in given
  /\ overlapped' = overlapped \cup {r}
  /\ UNCHANGED <<given, ending, known>>

(* A run ends only after it was given, and only once.                      *)
End(r) ==
  /\ r \in given /\ ending[r] = "open"
  /\ \E e \in Ending : ending' = [ending EXCEPT ![r] = e]
  /\ UNCHANGED <<given, known, overlapped>>

(* The Agent Hub learns an end once, after the run has one, and learns     *)
(* that one unless executions of the run overlapped.                       *)
Tell(r) ==
  /\ ending[r] # "open" /\ known[r] \notin Ending
  /\ \E e \in Ending :
       /\ e = ending[r] \/ r \in overlapped
       /\ known' = [known EXCEPT ![r] = e]
  /\ UNCHANGED <<given, ending, overlapped>>

Next == \E r \in Run : Give(r) \/ Accept(r) \/ Overlap(r) \/ End(r) \/ Tell(r)

Spec == Init /\ [][Next]_vars
=============================================================================
