--------------------------- MODULE DocumentReview ---------------------------
(***************************************************************************)
(* The review and decision pipeline of one uploaded household document     *)
(* (backend/app/services/household_document_pipeline.py and its database   *)
(* helpers).  Workers are the threads and processes that run a review (an  *)
(* upload's background task, the retry endpoint, the daily maintenance) or *)
(* a decision request.  Each action is one database transaction, or one    *)
(* stretch of code between two of them; a worker can fail, die, or lose    *)
(* the session that carries its advisory lock between any two.             *)
(***************************************************************************)
EXTENDS Naturals, FiniteSets

CONSTANTS
  Worker,          \* threads that run reviews and decisions
  NoWorker,        \* nobody: a free lock, an empty executor token
  MaxReview,       \* bound: rows of household_document_reviews
  MaxFaults,       \* bound: exceptions, process deaths, lost sessions
  Decisions,       \* the decisions the household sends
  DocumentKind,    \* what the preview of the document depends on
  DataMoves,       \* whether the file may vanish, other exports come and go
  SessionsDie      \* whether a database session may die under its worker

ASSUME ConstantsAssumption ==
  /\ NoWorker \notin Worker
  /\ MaxReview \in Nat
  /\ MaxFaults \in Nat
  /\ Decisions \subseteq {"approve", "reject"}
  /\ DocumentKind \in {"plain", "export", "dataset"}
  /\ DataMoves \in BOOLEAN /\ SessionsDie \in BOOLEAN

Review == 1 .. MaxReview

VARIABLES
  doc,             \* household_documents.status, "absent" or "deleted"
  reviewStatus,    \* household_documents.review_status
  file,            \* the stored upload is still on disk
  freshRows,       \* it has rows household_import_rows does not know
  visible,         \* metadata.review_proposal: the review shown, its status
  last,            \* the latest review row
  held,            \* held[r]: status needs_review, the gate held r
  content,         \* content[r]: r itself proposes money-data changes
  bound,           \* bound[r]: proposal_hash and proposal_preview are set
  preview,         \* preview[r]: what the bound preview says of the file
  decision, decisionStatus, phase, token,   \* r's decision columns
  lock,            \* holder of the document's advisory lock
  leaked,          \* an idle pooled session still holds the lock
  alive,           \* alive[w]: the session that took w's lock still lives
  job,             \* job[w]: what w runs and where it stands
  faults,          \* faults so far
  applied,         \* history: reviews whose outputs reached the ledger
  recorded,        \* history: how often r's inferred values were recorded
  reopened         \* history: reviews whose gate a recovery found open

docVars    == <<doc, reviewStatus, visible>>
dataVars   == <<file, freshRows>>
rowVars    == <<last, held, content, bound, preview>>
decideVars == <<decision, decisionStatus, phase, token>>
lockVars   == <<lock, leaked, alive>>
ledgerVars == <<applied, recorded, reopened>>
vars == <<docVars, dataVars, rowVars, decideVars, lockVars, job, faults,
          ledgerVars>>

(* What a preview says that its review row does not: rows read off the     *)
(* file, and an account bound after the row was written.                   *)
Preview == [fileRows : BOOLEAN, newRows : BOOLEAN, rebound : BOOLEAN]
Unread  == [fileRows |-> FALSE, newRows |-> FALSE, rebound |-> FALSE]
Hidden  == [review |-> 0, status |-> "none"]
IdleJob == [kind |-> "none", pc |-> "idle", review |-> 0, again |-> FALSE,
            draft |-> Unread]
NewJob(kind, r) == [kind |-> kind, pc |-> "try", review |-> r,
                    again |-> kind = "review", draft |-> Unread]

(* The steps of a job; the first two are taken without the lock.           *)
Unlocked == {"idle", "try"}
PC == Unlocked \cup
      {"open", "review", "gate", "bind", "settle", "offer", "close", "broken",
       "validate", "claim", "apply", "post", "journal", "infer", "finish",
       "abort", "release"}
Job == [kind : {"none", "review", "approve", "reject"}, pc : PC,
        review : 0 .. MaxReview, again : BOOLEAN, draft : Preview]

DocTypeOK ==
  /\ doc \in {"absent", "staged", "needs_review", "parsed", "deleted"}
  /\ reviewStatus \in {"none", "needs_review", "complete", "failed", "approved"}
  /\ visible \in [review : 0 .. MaxReview,
                  status : {"none", "not_required", "pending", "applying",
                            "failed", "approved", "rejected"}]
  /\ file \in BOOLEAN /\ freshRows \in BOOLEAN

RowTypeOK ==
  /\ last \in 0 .. MaxReview
  /\ held \in [Review -> BOOLEAN] /\ content \in [Review -> BOOLEAN]
  /\ bound \in [Review -> BOOLEAN] /\ preview \in [Review -> Preview]

DecisionTypeOK ==
  /\ decision \in [Review -> {"none", "approve", "reject"}]
  /\ decisionStatus \in [Review -> {"none", "applying", "failed", "applied",
                                    "rejected"}]
  /\ phase \in [Review -> {"none", "claimed", "outputs_applied",
                           "inferences_applied", "finalized"}]
  /\ token \in [Review -> Worker \cup {NoWorker}]

LockTypeOK ==
  /\ lock \in Worker \cup {NoWorker} /\ leaked \in BOOLEAN
  /\ alive \in [Worker -> BOOLEAN]
  /\ faults \in 0 .. MaxFaults

LedgerTypeOK == /\ applied \subseteq Review /\ reopened \subseteq Review
                /\ recorded \in [Review -> Nat]

TypeOK == /\ DocTypeOK /\ RowTypeOK /\ DecisionTypeOK /\ LockTypeOK
          /\ LedgerTypeOK /\ job \in [Worker -> Job]

Init ==
  /\ doc = "absent" /\ reviewStatus = "none" /\ visible = Hidden
  /\ file = FALSE
  /\ freshRows \in BOOLEAN /\ (freshRows => DocumentKind = "dataset")
  /\ last = 0
  /\ held = [r \in Review |-> FALSE] /\ content = [r \in Review |-> FALSE]
  /\ bound = [r \in Review |-> FALSE] /\ preview = [r \in Review |-> Unread]
  /\ decision = [r \in Review |-> "none"]
  /\ decisionStatus = [r \in Review |-> "none"]
  /\ phase = [r \in Review |-> "none"] /\ token = [r \in Review |-> NoWorker]
  /\ lock = NoWorker /\ leaked = FALSE /\ alive = [w \in Worker |-> TRUE]
  /\ job = [w \in Worker |-> IdleJob]
  /\ faults = 0
  /\ applied = {} /\ recorded = [r \in Review |-> 0] /\ reopened = {}

Exists == doc \notin {"absent", "deleted"}
At(w, step) == job[w].pc = step
Goto(w, step) == job' = [job EXCEPT ![w].pc = step]

(* What a preview of the persisted review built now says of the file: the  *)
(* transactions of an export, the rows of a dataset no import has seen.    *)
CurrentPreview ==
  [fileRows |-> file /\ DocumentKind = "export",
   newRows  |-> file /\ DocumentKind = "dataset" /\ freshRows,
   rebound  |-> FALSE]

ChangesSomething(r, p) == content[r] \/ p.fileRows \/ p.newRows \/ p.rebound

-----------------------------------------------------------------------------
(* Outside the pipeline: uploads, deletions, the disk, other documents.    *)

Ingest ==
  /\ doc = "absent"
  /\ doc' = "staged" /\ file' = TRUE
  /\ UNCHANGED <<reviewStatus, visible, freshRows, rowVars, decideVars,
                 lockVars, job, faults, ledgerVars>>

(* The row goes, its reviews cascade with it, then the file is unlinked.   *)
Delete ==
  /\ Exists
  /\ doc' = "deleted" /\ visible' = Hidden /\ file' = FALSE
  /\ UNCHANGED <<reviewStatus, freshRows, rowVars, decideVars, lockVars, job,
                 faults, ledgerVars>>

LoseFile ==
  /\ DataMoves /\ Exists /\ file
  /\ file' = FALSE
  /\ UNCHANGED <<docVars, freshRows, rowVars, decideVars, lockVars, job,
                 faults, ledgerVars>>

(* Another export with the same rows is imported, or deleted with them:    *)
(* an upsert moves a known row to the newer document, a delete cascades.   *)
OtherExport ==
  /\ DataMoves /\ DocumentKind = "dataset" /\ Exists
  /\ freshRows' = ~freshRows
  /\ UNCHANGED <<docVars, file, rowVars, decideVars, lockVars, job, faults,
                 ledgerVars>>

-----------------------------------------------------------------------------
(* The executor lock: one session-scoped advisory lock per document.       *)

StartReview(w) ==
  /\ At(w, "idle") /\ Exists /\ last < MaxReview
  /\ job' = [job EXCEPT ![w] = NewJob("review", 0)]
  /\ UNCHANGED <<docVars, dataVars, rowVars, decideVars, lockVars, faults,
                 ledgerVars>>

(* A request carries the review, hash and preview of a card shown earlier. *)
StartDecision(w, d, r) ==
  /\ At(w, "idle") /\ Exists /\ r <= last /\ bound[r]
  /\ job' = [job EXCEPT ![w] = NewJob(d, r)]
  /\ UNCHANGED <<docVars, dataVars, rowVars, decideVars, lockVars, faults,
                 ledgerVars>>

LockFreeIgnored(sameSession) == TRUE
(* A session may take again a lock it holds already: a leaked lock is only *)
(* in the way of requests the pool serves with another session.            *)
LockFree(sameSession) == lock = NoWorker /\ (leaked => sameSession)

TryLock(w, sameSession) ==
  /\ At(w, "try")
  /\ IF LockFree(sameSession)
     THEN /\ lock' = w /\ UNCHANGED <<leaked, alive>>
          /\ Goto(w, IF job[w].kind = "review" THEN "open" ELSE "validate")
     ELSE /\ job' = [job EXCEPT ![w] = IdleJob]
          /\ UNCHANGED lockVars
  /\ UNCHANGED <<docVars, dataVars, rowVars, decideVars, faults, ledgerVars>>

Release(w) ==
  /\ At(w, "release") /\ alive[w]
  /\ lock' = IF lock = w THEN NoWorker ELSE lock
  /\ job' = [job EXCEPT ![w] = IdleJob]
  /\ UNCHANGED <<docVars, dataVars, rowVars, decideVars, leaked, alive, faults,
                 ledgerVars>>

-----------------------------------------------------------------------------
(* A review: read the file, persist a row, then hold or apply it.          *)

(* _review_gate_summaries: a held review waits, a trusted one is applied.  *)
AfterGateUngated(isHeld) == "apply"
AfterGate(isHeld) == IF isHeld THEN "gate" ELSE "apply"

(* With the file gone and no review to fall back on there is no work.      *)
OpenFile(w) ==
  /\ At(w, "open")
  /\ file \/ last = 0 \/ ~Exists
  /\ Goto(w, IF file THEN "review" ELSE "release")
  /\ UNCHANGED <<docVars, dataVars, rowVars, decideVars, lockVars, faults,
                 ledgerVars>>

(* With its file gone the latest persisted review is taken up again, bound *)
(* to the account as it is now: the gate may decide otherwise than it did  *)
(* of the row, whatever was decided since, and the proposal may differ.    *)
Recover(w, isHeld, rebound) ==
  /\ At(w, "open") /\ ~file /\ last # 0 /\ Exists
  /\ job' = [job EXCEPT ![w] =
       [@ EXCEPT !.pc = AfterGate(isHeld), !.review = last, !.again = FALSE,
                 !.draft = [Unread EXCEPT !.rebound = rebound]]]
  /\ reopened' = IF isHeld THEN reopened ELSE reopened \cup {last}
  /\ UNCHANGED <<docVars, dataVars, rowVars, decideVars, lockVars, faults,
                 applied, recorded>>

InsertsValuesAlways(isHeld) == TRUE
InsertsValues(isHeld) == ~isHeld

(* One transaction: the document row, the new review row and, unless the   *)
(* gate holds it, the review's inferred values.                            *)
PersistReview(w, isHeld, hasContent) ==
  /\ At(w, "review") /\ Exists /\ last < MaxReview
  /\ LET r == last + 1 IN
     /\ last' = r
     /\ held' = [held EXCEPT ![r] = isHeld]
     /\ content' = [content EXCEPT ![r] = hasContent]
     /\ job' = [job EXCEPT ![w] = [@ EXCEPT !.pc = AfterGate(isHeld),
                                            !.review = r]]
     /\ recorded' = IF InsertsValues(isHeld)
                    THEN [recorded EXCEPT ![r] = @ + 1] ELSE recorded
  /\ doc' = IF isHeld THEN "needs_review" ELSE "parsed"
  /\ reviewStatus' = IF isHeld THEN "needs_review" ELSE "complete"
  /\ UNCHANGED <<visible, dataVars, bound, preview, decideVars, lockVars,
                 faults, applied, reopened>>

BuildProposal(w) ==
  /\ At(w, "gate")
  /\ LET p == [CurrentPreview EXCEPT !.rebound = job[w].draft.rebound] IN
     job' = [job EXCEPT ![w] =
       [@ EXCEPT !.pc = IF ChangesSomething(job[w].review, p)
                        THEN "bind" ELSE "settle",
                 !.draft = p]]
  /\ UNCHANGED <<docVars, dataVars, rowVars, decideVars, lockVars, faults,
                 ledgerVars>>

(* The binding is written once, or found exactly as it would be written.   *)
Bindable(r, p) ==
  /\ Exists /\ held[r] /\ decision[r] = "none"
  /\ bound[r] => preview[r] = p

BindProposal(w) ==
  /\ At(w, "bind")
  /\ LET r == job[w].review
         p == job[w].draft IN
     IF Bindable(r, p)
     THEN /\ bound' = [bound EXCEPT ![r] = TRUE]
          /\ preview' = [preview EXCEPT ![r] = p]
          /\ Goto(w, "offer")
     ELSE Goto(w, "broken") /\ UNCHANGED <<bound, preview>>
  /\ UNCHANGED <<docVars, dataVars, last, held, content, decideVars, lockVars,
                 faults, ledgerVars>>

SettleUnchanged(w) ==
  /\ At(w, "settle")
  /\ doc' = IF Exists THEN "parsed" ELSE doc
  /\ reviewStatus' = IF Exists THEN "complete" ELSE reviewStatus
  /\ Goto(w, "close")
  /\ UNCHANGED <<visible, dataVars, rowVars, decideVars, lockVars, faults,
                 ledgerVars>>

(* The last transaction of a review shows its proposal, or that none is    *)
(* needed; it is not the one that bound it.                                *)
PublishSummary(w) ==
  /\ At(w, "offer") \/ At(w, "close")
  /\ visible' = IF ~Exists THEN visible
                ELSE IF At(w, "offer")
                THEN [review |-> job[w].review, status |-> "pending"]
                ELSE [review |-> 0, status |-> "not_required"]
  /\ Goto(w, "release")
  /\ UNCHANGED <<doc, reviewStatus, dataVars, rowVars, decideVars, lockVars,
                 faults, ledgerVars>>

MarkReviewFailed(w) ==
  /\ At(w, "broken") /\ alive[w]
  /\ doc' = IF Exists THEN "needs_review" ELSE doc
  /\ reviewStatus' = IF Exists THEN "failed" ELSE reviewStatus
  /\ Goto(w, "release")
  /\ UNCHANGED <<visible, dataVars, rowVars, decideVars, lockVars, faults,
                 ledgerVars>>

-----------------------------------------------------------------------------
(* apply_review_outputs: the rows of the file are imported and committed   *)
(* first, then transactions, accounts, positions and plans, on other       *)
(* connections than the one that holds the lock.                           *)

ApplyImports(w) ==
  /\ At(w, "apply") /\ Exists
  /\ freshRows' = (freshRows /\ ~file)
  /\ applied' = applied \cup {job[w].review}
  /\ Goto(w, "post")
  /\ UNCHANGED <<docVars, file, rowVars, decideVars, lockVars, faults,
                 recorded, reopened>>

(* A review that reconciles badly is run once more before it is published. *)
ApplyOutputs(w, retry) ==
  /\ At(w, "post") /\ Exists
  /\ retry => job[w].again
  /\ job' = [job EXCEPT ![w] =
       IF @.kind = "approve" THEN [@ EXCEPT !.pc = "journal"]
       ELSE IF retry THEN [@ EXCEPT !.pc = "review", !.again = FALSE]
       ELSE [@ EXCEPT !.pc = "close"]]
  /\ UNCHANGED <<docVars, dataVars, rowVars, decideVars, lockVars, faults,
                 ledgerVars>>

-----------------------------------------------------------------------------
(* A decision: validate the three copies of the preview, claim the row,    *)
(* then run an approval through its durable phases.                        *)

Undecided(r) == visible.status = "pending" /\ decision[r] = "none"

InterruptedByCrash(r) ==
  /\ visible.status \in {"applying", "failed"}
  /\ decision[r] = "approve" /\ decisionStatus[r] = "applying"
Interrupted(r) ==
  /\ visible.status \in {"applying", "failed"}
  /\ decision[r] = "approve" /\ decisionStatus[r] \in {"applying", "failed"}

ValidUnlessMoved(d, r) ==
  /\ Exists /\ r = last /\ held[r] /\ visible.review = r
  /\ Undecided(r) \/ (d = "approve" /\ Interrupted(r))
  /\ bound[r]
  /\ d = "approve" => ChangesSomething(r, preview[r])

(* _validate_decision_binding: r is the latest held review, the one shown, *)
(* in a state the decision may take, and its preview still recomputes.     *)
Valid(d, r) ==
  /\ Exists /\ r = last /\ held[r] /\ visible.review = r
  /\ Undecided(r) \/ (d = "approve" /\ Interrupted(r))
  /\ bound[r] /\ preview[r] = CurrentPreview
  /\ d = "approve" => ChangesSomething(r, preview[r])

Validate(w) ==
  /\ At(w, "validate") /\ alive[w]
  /\ Goto(w, IF Valid(job[w].kind, job[w].review) THEN "claim" ELSE "release")
  /\ UNCHANGED <<docVars, dataVars, rowVars, decideVars, lockVars, faults,
                 ledgerVars>>

(* The WHERE clause of the claim.                                          *)
Claimable(d, r) ==
  /\ Exists /\ r = last /\ held[r] /\ bound[r] /\ visible.review = r
  /\ \/ d = "reject" /\ decision[r] = "none" /\ visible.status = "pending"
     \/ /\ d = "approve" /\ visible.status \in {"pending", "applying", "failed"}
        /\ \/ decision[r] = "none"
           \/ decision[r] = "approve" /\ decisionStatus[r] \in {"applying", "failed"}

(* update_bound_document_review_state: the card follows the row.           *)
ShownOnSuccess(status) ==
  IF status = "failed" THEN visible ELSE [visible EXCEPT !.status = status]
Shown(status) == [visible EXCEPT !.status = status]

Reject(w) ==
  /\ At(w, "claim") /\ alive[w] /\ job[w].kind = "reject"
  /\ LET r == job[w].review IN
     /\ Claimable("reject", r)
     /\ decision' = [decision EXCEPT ![r] = "reject"]
     /\ decisionStatus' = [decisionStatus EXCEPT ![r] = "rejected"]
     /\ token' = [token EXCEPT ![r] = NoWorker]
     /\ visible' = Shown("rejected")
  /\ Goto(w, "release")
  /\ UNCHANGED <<doc, reviewStatus, dataVars, rowVars, phase, lockVars, faults,
                 ledgerVars>>

(* A first claim starts the phases, a later one keeps the phase reached.   *)
ClaimedPhaseReset(p) == "claimed"
ClaimedPhase(p) == IF p = "none" THEN "claimed" ELSE p

(* Where a claimed approval goes on: after its last durable phase.         *)
ResumeAtInference(p) ==
  IF p \in {"outputs_applied", "inferences_applied"} THEN "infer" ELSE "apply"
ResumeAtPhase(p) == IF p = "none" THEN "apply" ELSE p
ResumeAt(p) ==
  IF p = "outputs_applied" THEN "infer"
  ELSE IF p = "inferences_applied" THEN "finish" ELSE "apply"

ClaimApproval(w) ==
  /\ At(w, "claim") /\ alive[w] /\ job[w].kind = "approve"
  /\ LET r == job[w].review IN
     /\ Claimable("approve", r)
     /\ decision' = [decision EXCEPT ![r] = "approve"]
     /\ decisionStatus' = [decisionStatus EXCEPT ![r] = "applying"]
     /\ phase' = [phase EXCEPT ![r] = ClaimedPhase(@)]
     /\ token' = [token EXCEPT ![r] = w]
     /\ visible' = Shown("applying")
     /\ Goto(w, ResumeAt(phase[r]))
  /\ UNCHANGED <<doc, reviewStatus, dataVars, rowVars, lockVars, faults,
                 ledgerVars>>

ClaimRefused(w) ==
  /\ At(w, "claim") /\ alive[w] /\ ~Claimable(job[w].kind, job[w].review)
  /\ Goto(w, "release")
  /\ UNCHANGED <<docVars, dataVars, rowVars, decideVars, lockVars, faults,
                 ledgerVars>>

(* The fence of every later write: still the executor of a running claim.  *)
Owns(w, r) ==
  /\ Exists /\ decision[r] = "approve" /\ decisionStatus[r] = "applying"
  /\ token[r] = w

RecordOutputs(w) ==
  /\ At(w, "journal") /\ alive[w]
  /\ LET r == job[w].review IN
     IF Owns(w, r) /\ phase[r] = "claimed"
     THEN /\ phase' = [phase EXCEPT ![r] = "outputs_applied"]
          /\ Goto(w, "infer")
     ELSE Goto(w, "abort") /\ UNCHANGED phase
  /\ UNCHANGED <<docVars, dataVars, rowVars, decision, decisionStatus, token,
                 lockVars, faults, ledgerVars>>

(* The inferred values and the phase that says so, in one transaction.     *)
RecordInferences(w) ==
  /\ At(w, "infer") /\ alive[w]
  /\ LET r == job[w].review IN
     IF Owns(w, r) /\ phase[r] = "outputs_applied"
     THEN /\ phase' = [phase EXCEPT ![r] = "inferences_applied"]
          /\ recorded' = [recorded EXCEPT ![r] = @ + 1]
          /\ Goto(w, "finish")
     ELSE Goto(w, "abort") /\ UNCHANGED <<phase, recorded>>
  /\ UNCHANGED <<docVars, dataVars, rowVars, decision, decisionStatus, token,
                 lockVars, faults, applied, reopened>>

Complete(w) ==
  /\ At(w, "finish") /\ alive[w]
  /\ LET r == job[w].review IN
     IF /\ Owns(w, r) /\ phase[r] = "inferences_applied"
        /\ visible = [review |-> r, status |-> "applying"]
     THEN /\ decisionStatus' = [decisionStatus EXCEPT ![r] = "applied"]
          /\ phase' = [phase EXCEPT ![r] = "finalized"]
          /\ token' = [token EXCEPT ![r] = NoWorker]
          /\ visible' = Shown("approved")
          /\ doc' = "parsed" /\ reviewStatus' = "approved"
          /\ Goto(w, "release")
     ELSE /\ Goto(w, "abort")
          /\ UNCHANGED <<docVars, decisionStatus, phase, token>>
  /\ UNCHANGED <<dataVars, rowVars, decision, lockVars, faults, ledgerVars>>

(* The failure is written on the row and on the card, or on neither.       *)
RecordFailure(w) ==
  /\ At(w, "abort") /\ alive[w]
  /\ LET r == job[w].review IN
     IF Owns(w, r) /\ visible = [review |-> r, status |-> "applying"]
     THEN /\ decisionStatus' = [decisionStatus EXCEPT ![r] = "failed"]
          /\ token' = [token EXCEPT ![r] = NoWorker]
          /\ visible' = Shown("failed")
     ELSE UNCHANGED <<decisionStatus, token, visible>>
  /\ Goto(w, "release")
  /\ UNCHANGED <<doc, reviewStatus, dataVars, rowVars, decision, phase,
                 lockVars, faults, ledgerVars>>

-----------------------------------------------------------------------------
(* Failures.                                                               *)

Fault == faults < MaxFaults /\ faults' = faults + 1

(* Where an exception raised at a step of a job takes it.                  *)
HandlerWithoutFinally(kind, step) ==
  IF step \in {"validate", "claim"} THEN "idle"
  ELSE IF step = "abort" THEN "release"
  ELSE IF kind = "review" THEN "broken" ELSE "abort"
Handler(kind, step) ==
  IF step \in {"abort", "validate", "claim"} THEN "release"
  ELSE IF kind = "review" THEN "broken" ELSE "abort"

(* A step raises: the database, the model, the disk.                       *)
Raise(w) ==
  /\ job[w].pc \notin {"idle", "try", "broken", "release"} /\ Fault
  /\ Goto(w, Handler(job[w].kind, job[w].pc))
  /\ UNCHANGED <<docVars, dataVars, rowVars, decideVars, lockVars, ledgerVars>>

(* The unlock fails, or runs in the transaction a failing handler of       *)
(* review_document left aborted: the session returns to its pool locked.   *)
LeakLock(w) ==
  /\ job[w].pc \in {"broken", "release"} /\ lock = w /\ Fault
  /\ job' = [job EXCEPT ![w] = IdleJob]
  /\ lock' = NoWorker /\ leaked' = TRUE
  /\ UNCHANGED <<docVars, dataVars, rowVars, decideVars, alive, ledgerVars>>

(* The pool discards the idle session, after an hour or with its process.  *)
Recycle ==
  /\ leaked /\ lock = NoWorker
  /\ leaked' = FALSE
  /\ UNCHANGED <<docVars, dataVars, rowVars, decideVars, lock, alive, job,
                 faults, ledgerVars>>

(* The document went away under the job, or the bound on rows is reached.  *)
RaiseGone(w) ==
  /\ \/ job[w].pc \in {"review", "apply", "post"} /\ ~Exists
     \/ At(w, "review") /\ last = MaxReview
  /\ Goto(w, Handler(job[w].kind, job[w].pc))
  /\ UNCHANGED <<docVars, dataVars, rowVars, decideVars, lockVars, faults,
                 ledgerVars>>

(* The process dies; the server ends its session and frees the lock.       *)
Crash(w) ==
  /\ ~At(w, "idle") /\ Fault
  /\ job' = [job EXCEPT ![w] = IdleJob]
  /\ lock' = IF lock = w THEN NoWorker ELSE lock
  /\ leaked' = (leaked /\ lock # w)
  /\ alive' = [alive EXCEPT ![w] = TRUE]
  /\ UNCHANGED <<docVars, dataVars, rowVars, decideVars, ledgerVars>>

(* Only the session that carries the lock dies; its worker goes on.        *)
LoseSession(w) ==
  /\ SessionsDie /\ lock = w /\ Fault
  /\ lock' = NoWorker /\ leaked' = FALSE
  /\ alive' = [alive EXCEPT ![w] = FALSE]
  /\ UNCHANGED <<docVars, dataVars, rowVars, decideVars, job, ledgerVars>>

(* The next statement on the dead session ends the job.                    *)
NoticeLostSession(w) ==
  /\ ~alive[w]
  /\ job[w].pc \in {"broken", "release", "validate", "claim", "journal",
                    "infer", "finish", "abort"}
  /\ job' = [job EXCEPT ![w] = IdleJob]
  /\ alive' = [alive EXCEPT ![w] = TRUE]
  /\ UNCHANGED <<docVars, dataVars, rowVars, decideVars, lock, leaked, faults,
                 ledgerVars>>

-----------------------------------------------------------------------------
ReviewStep(w) ==
  \/ OpenFile(w) \/ BuildProposal(w) \/ BindProposal(w) \/ SettleUnchanged(w)
  \/ PublishSummary(w) \/ MarkReviewFailed(w)
  \/ \E isHeld, rebound \in BOOLEAN : Recover(w, isHeld, rebound)
  \/ \E isHeld, hasContent \in BOOLEAN : PersistReview(w, isHeld, hasContent)

DecisionStep(w) ==
  \/ Validate(w) \/ Reject(w) \/ ClaimApproval(w) \/ ClaimRefused(w)
  \/ RecordOutputs(w) \/ RecordInferences(w) \/ Complete(w) \/ RecordFailure(w)

(* Everything a worker does by itself once it has a job.                   *)
Step(w) ==
  \/ \E sameSession \in BOOLEAN : TryLock(w, sameSession)
  \/ Release(w) \/ ReviewStep(w) \/ DecisionStep(w)
  \/ ApplyImports(w) \/ \E retry \in BOOLEAN : ApplyOutputs(w, retry)
  \/ RaiseGone(w) \/ NoticeLostSession(w)

Disturb(w) == Raise(w) \/ LeakLock(w) \/ Crash(w) \/ LoseSession(w)

Outside == Ingest \/ Delete \/ LoseFile \/ OtherExport \/ Recycle

(* Nobody works on the document: the system waits for a request.           *)
Quiet == (\A w \in Worker : At(w, "idle")) /\ UNCHANGED vars

Next ==
  \/ Outside
  \/ \E w \in Worker :
       \/ StartReview(w)
       \/ \E d \in Decisions, r \in Review : StartDecision(w, d, r)
       \/ Step(w)
       \/ Disturb(w)
  \/ Quiet

Spec == Init /\ [][Next]_vars

(* A worker that has a job runs it; nobody has to ask for one.  A session  *)
(* is discarded when the pool hands it out older than an hour, however     *)
(* often it was in use in between.                                         *)
FairSpec == Spec /\ SF_vars(Recycle) /\ \A w \in Worker : WF_vars(Step(w))

(* ... unless the household keeps retrying an approval it was offered.     *)
RetrySpec ==
  /\ FairSpec
  /\ \A w \in Worker, r \in Review : SF_vars(StartDecision(w, "approve", r))
-----------------------------------------------------------------------------
(* Properties.                                                             *)

(* The inferred values of a held review are recorded only once that very   *)
(* review is approved, and its money data reaches the ledger only then or  *)
(* through a recovery that found the gate open for it: no retry, crash or  *)
(* second worker applies a pending or rejected proposal otherwise.         *)
HeldMoneyNeedsApproval ==
  \A r \in Review : held[r] =>
    /\ recorded[r] > 0 => decision[r] = "approve"
    /\ r \in applied => decision[r] = "approve" \/ r \in reopened

(* However often an approval is interrupted and resumed, its inferred      *)
(* values are recorded at most once, and it is reported applied only after *)
(* its outputs and its inferred values were (the phases of the journal).   *)
ApprovalAppliedOnce ==
  \A r \in Review :
    held[r] => /\ recorded[r] <= 1
               /\ decisionStatus[r] = "applied" =>
                    r \in applied /\ recorded[r] = 1

(* The card the household sees agrees with the decision columns of the     *)
(* review it shows: they are written in one transaction each time, and no  *)
(* other worker's late write may come between.                             *)
VisibleMatchesDecision ==
  LET r == visible.review IN
  /\ visible.status = "pending" => bound[r] /\ decision[r] = "none"
  /\ visible.status \in {"applying", "failed", "rejected"} =>
       decisionStatus[r] = visible.status
  /\ visible.status = "approved" => decisionStatus[r] = "applied"

(* A document whose review status says approved shows an approval that is  *)
(* fully applied, and no newer review of it is waiting.                    *)
ApprovedIsLatest ==
  Exists /\ reviewStatus = "approved" => decisionStatus[last] = "applied"

(* Reviews and decisions of one document exclude each other: whoever is    *)
(* past the lock holds it.                                                 *)
OneExecutor ==
  \A v, w \in Worker :
    job[v].pc \notin Unlocked /\ job[w].pc \notin Unlocked => v = w

(* The card an approval was checked against still says what its import     *)
(* will bring in.                                                          *)
StillShown(w) ==
  Exists /\ job[w].kind = "approve" /\ job[w].pc \in {"claim", "apply"}
    => preview[job[w].review] = CurrentPreview

(* "A bulk import whose delta has moved since the household looked at it   *)
(* [...] must be re-reviewed rather than approved against a number that    *)
(* has since changed": between the check and the import only another       *)
(* document or the disk can still move it, which the pipeline does not     *)
(* prevent; while the sessions live no review, retry, crash or second      *)
(* decision of this document does.                                         *)
MovedOnlyOutside ==
  [][(\A v \in Worker : alive[v])
       => \A w \in Worker :
            StillShown(w) => StillShown(w)' \/ LoseFile \/ OtherExport]_vars

(* "No second decision is needed. Retry resumes from the last durable      *)
(* phase.": the card of an interrupted approval can still be approved.     *)
InterruptedApprovalResumable ==
  Exists /\ visible.status = "failed" => Valid("approve", visible.review)

(* The same, unless a newer review row has superseded the approval: what   *)
(* holds of a document whose preview reads nothing but its review.         *)
ResumableUntilSuperseded ==
  Exists /\ visible.status = "failed" /\ visible.review = last
    => Valid("approve", visible.review)

(* The advisory lock of a document is always given back, whatever the job  *)
(* that took it runs into, and even if its session keeps it for a while.   *)
LockReleased == \A w \in Worker : lock = w ~> lock = NoWorker /\ ~leaked

(* An approval once claimed is eventually applied if the household keeps   *)
(* retrying it, unless a newer review, a deletion or the loss of the file  *)
(* comes first.                                                            *)
ApprovalCompletes ==
  \A r \in Review :
    decision[r] = "approve" ~> \/ decisionStatus[r] = "applied"
                              \/ r # last \/ ~Exists \/ ~file

(* What the household is promised: each review trusted, rejected or        *)
(* applied once, as the abstract specification has it.                     *)
OutcomeOf(r) ==
  IF doc = "deleted" THEN "deleted"
  ELSE IF r > last THEN "absent"
  ELSE IF ~held[r] THEN "trusted"
  ELSE IF decision[r] = "none" THEN "held"
  ELSE IF decision[r] = "reject" THEN "rejected"
  ELSE IF decisionStatus[r] = "applied" THEN "applied" ELSE "approving"

Promise == INSTANCE ReviewDecision
             WITH outcome <- [r \in Review |-> OutcomeOf(r)]

DecidedOnce == Promise!AbsSpec
=============================================================================
