-------------------- MODULE DocumentReview_preview_proofs --------------------
(***************************************************************************)
(* What the bound preview of a proposal buys: between its check and the    *)
(* import only other documents and the disk can still change what the card *)
(* of an approval showed, and an interrupted approval can be taken up      *)
(* again as long as what the preview reads stays as it was.                *)
(***************************************************************************)
EXTENDS DocumentReview_lock_proofs

USE ConstantsAssumption DEF Shown

(* The preview of a document that is there reads the same at any time: it  *)
(* reads nothing but its review, or a file of its own that does not vanish.*)
Reproducible == DocumentKind = "plain" \/ (DocumentKind = "export" /\ ~DataMoves)

(* Reviews and jobs begin with the document.                               *)
Begun == doc = "absent" => last = 0 /\ \A w \in Worker : job[w].pc = "idle"

(* A bound proposal changes something; only a bound one is decided.        *)
BoundRow(r) ==
  /\ bound[r] => r <= last /\ held[r] /\ ChangesSomething(r, preview[r])
  /\ decision[r] # "none" => bound[r]

(* The card of an approval under way, or interrupted, follows its row,     *)
(* whoever holds the lock: every write of the one requires the other.      *)
CardFollowsRow ==
  visible.status \in {"applying", "failed"} =>
    /\ visible.review \in Review
    /\ decision[visible.review] = "approve"
    /\ decisionStatus[visible.review] = visible.status

BindingJob(j) ==
  /\ j.pc = "bind" => ChangesSomething(j.review, j.draft)
  /\ j.kind \in {"approve", "reject"} => bound[j.review]

Binding ==
  /\ Begun /\ CardFollowsRow
  /\ \A r \in Review : BoundRow(r)
  /\ \A w \in Worker : BindingJob(job[w])

(* What is bound, or about to be, is what the document still reads.        *)
SameRows(p) ==
  p.fileRows = CurrentPreview.fileRows /\ p.newRows = CurrentPreview.newRows

StillReads ==
  Exists => /\ \A r \in Review : bound[r] => SameRows(preview[r])
            /\ \A w \in Worker : job[w].pc = "bind" => SameRows(job[w].draft)

(* No approval is given to the preview of a recovery that moved the        *)
(* account: the check builds the preview from the row as it was written.   *)
Accepted ==
  /\ \A r \in Review : decision[r] = "approve" => ~preview[r].rebound
  /\ \A w \in Worker :
       job[w].kind = "approve" /\ job[w].pc = "claim"
         => ~preview[job[w].review].rebound

(* A worker past the lock holds it as long as its session lives.           *)
AliveHolds ==
  \A w \in Worker : alive[w] /\ job[w].pc \notin Unlocked => lock = w

-----------------------------------------------------------------------------
(* Who moves what.                                                         *)

(* The steps that lead to a binding, a claim or an application.            *)
LEMMA JobMoves ==
  ASSUME Typed, [Next]_vars, NEW w \in Worker
  PROVE  \/ job'[w] = job[w]
         \/ OpenFile(w) \/ BuildProposal(w) \/ Validate(w) \/ ClaimApproval(w)
         \/ ApplyImports(w)
         \/ \E isHeld, hasContent \in BOOLEAN : PersistReview(w, isHeld, hasContent)
         \/ \E isHeld, rebound \in BOOLEAN : Recover(w, isHeld, rebound)
         \/ job'[w].pc \notin {"bind", "claim", "apply", "post"}
<1>a. job \in [Worker -> Job]
  BY DEF Typed, TypeOK
<1>1. CASE UNCHANGED job
  BY <1>1
<1>2. CASE Outside \/ UNCHANGED vars
  BY <1>1, <1>2 DEF Outside, Ingest, Delete, LoseFile, OtherExport, Recycle, vars
<1>3. ASSUME NEW v \in Worker,
             \/ StartReview(v)
             \/ \E d \in Decisions, r \in Review : StartDecision(v, d, r)
      PROVE  job'[w] = job[w] \/ job'[w].pc = "try"
  BY <1>a, <1>3 DEF StartReview, StartDecision, NewJob
<1>4. ASSUME NEW v \in Worker, v # w, Step(v) \/ Disturb(v)
      PROVE  job'[w] = job[w]
  <2>1. CASE ReviewStep(v) \/ DecisionStep(v)
    BY <1>a, <1>4, <2>1 DEF ReviewStep, DecisionStep, OpenFile, Recover,
       BuildProposal, BindProposal, SettleUnchanged, PublishSummary, MarkReviewFailed,
       PersistReview, Validate, Reject, ClaimApproval, ClaimRefused,
       RecordOutputs, RecordInferences, Complete, RecordFailure, Goto
  <2>2. CASE ~(ReviewStep(v) \/ DecisionStep(v))
    BY <1>a, <1>4, <2>2 DEF Step, Disturb, TryLock, Release, ApplyImports,
       ApplyOutputs, RaiseGone, NoticeLostSession, Raise, LeakLock, Crash,
       LoseSession, lockVars, Goto
  <2> QED BY <2>1, <2>2
<1>5. ASSUME Release(w) \/ LeakLock(w) \/ Crash(w) \/ NoticeLostSession(w)
      PROVE  job'[w].pc = "idle"
  BY <1>5, IdleJobAfter DEF Release, LeakLock, Crash, NoticeLostSession
<1>6. ASSUME LoseSession(w)
      PROVE  job' = job
  BY <1>6 DEF LoseSession
<1>7. ASSUME \E sameSession \in BOOLEAN : TryLock(w, sameSession)
      PROVE  job'[w].pc \in {"open", "validate", "idle"}
  BY <1>a, <1>7 DEF TryLock, Goto, Job, IdleJob
<1>8. ASSUME Raise(w) \/ RaiseGone(w)
      PROVE  job'[w].pc \in {"release", "broken", "abort"}
  BY <1>a, <1>8 DEF Raise, RaiseGone, Goto, Handler, Job
<1>9. ASSUME \E retry \in BOOLEAN : ApplyOutputs(w, retry)
      PROVE  job'[w].pc \in {"journal", "review", "close"}
  BY <1>a, <1>9 DEF ApplyOutputs, Job
<1>10. ASSUME \/ BindProposal(w) \/ SettleUnchanged(w) \/ PublishSummary(w)
              \/ MarkReviewFailed(w) \/ Reject(w) \/ ClaimRefused(w)
              \/ RecordOutputs(w) \/ RecordInferences(w) \/ Complete(w)
              \/ RecordFailure(w)
       PROVE  job'[w].pc \notin {"bind", "claim", "apply", "post"}
  <2>1. \E s \in {"offer", "broken", "close", "release", "infer", "finish", "abort"} :
          Goto(w, s)
    BY <1>10 DEF BindProposal, SettleUnchanged, PublishSummary, MarkReviewFailed,
       Reject, ClaimRefused, RecordOutputs, RecordInferences, Complete, RecordFailure
  <2> QED BY <1>a, <2>1 DEF Goto, Job
<1> QED
  BY <1>1, <1>2, <1>3, <1>4, <1>5, <1>6, <1>7, <1>8, <1>9, <1>10
  DEF Next, Step, ReviewStep, DecisionStep, Disturb, Quiet

(* What previews read, and what is bound of them.                          *)
LEMMA DataMove ==
  ASSUME [Next]_vars
  PROVE  \/ UNCHANGED dataVars
         \/ Ingest \/ Delete \/ LoseFile \/ OtherExport
         \/ \E w \in Worker : ApplyImports(w)
<1> USE DEF docVars, dataVars, rowVars, decideVars, lockVars, ledgerVars
<1>1. ASSUME NEW w \in Worker, ReviewStep(w) \/ DecisionStep(w)
      PROVE  UNCHANGED dataVars
  BY <1>1 DEF ReviewStep, DecisionStep, OpenFile, Recover, BuildProposal,
     BindProposal, SettleUnchanged, PublishSummary, MarkReviewFailed, PersistReview, Validate,
     Reject, ClaimApproval, ClaimRefused, RecordOutputs, RecordInferences,
     Complete, RecordFailure
<1>2. ASSUME NEW w \in Worker,
             \/ StartReview(w)
             \/ \E d \in Decisions, r \in Review : StartDecision(w, d, r)
             \/ \E sameSession \in BOOLEAN : TryLock(w, sameSession)
             \/ \E retry \in BOOLEAN : ApplyOutputs(w, retry)
             \/ Release(w) \/ RaiseGone(w) \/ NoticeLostSession(w) \/ Disturb(w)
      PROVE  UNCHANGED dataVars
  BY <1>2 DEF StartReview, StartDecision, TryLock, ApplyOutputs, Release,
     RaiseGone, NoticeLostSession, Disturb, Raise, LeakLock, Crash, LoseSession
<1>3. CASE Recycle \/ UNCHANGED vars
  BY <1>3 DEF Recycle, vars
<1> QED BY <1>1, <1>2, <1>3 DEF Next, Outside, Step, Quiet

LEMMA BoundMove ==
  ASSUME [Next]_vars
  PROVE  UNCHANGED <<bound, preview>> \/ \E w \in Worker : BindProposal(w)
<1> USE DEF docVars, dataVars, rowVars, decideVars, lockVars, ledgerVars
<1>1. ASSUME NEW w \in Worker, ReviewStep(w) \/ DecisionStep(w)
      PROVE  UNCHANGED <<bound, preview>> \/ BindProposal(w)
  BY <1>1 DEF ReviewStep, DecisionStep, OpenFile, Recover, BuildProposal,
     SettleUnchanged, PublishSummary, MarkReviewFailed, PersistReview, Validate,
     Reject, ClaimApproval, ClaimRefused, RecordOutputs, RecordInferences,
     Complete, RecordFailure
<1>2. ASSUME NEW w \in Worker,
             \/ StartReview(w)
             \/ \E d \in Decisions, r \in Review : StartDecision(w, d, r)
             \/ \E sameSession \in BOOLEAN : TryLock(w, sameSession)
             \/ \E retry \in BOOLEAN : ApplyOutputs(w, retry)
             \/ Release(w) \/ ApplyImports(w) \/ RaiseGone(w)
             \/ NoticeLostSession(w) \/ Disturb(w)
      PROVE  UNCHANGED <<bound, preview>>
  BY <1>2 DEF StartReview, StartDecision, TryLock, ApplyOutputs, Release,
     ApplyImports, RaiseGone, NoticeLostSession, Disturb, Raise, LeakLock, Crash,
     LoseSession
<1>3. CASE Outside \/ UNCHANGED vars
  BY <1>3 DEF Outside, Ingest, Delete, LoseFile, OtherExport, Recycle, vars
<1> QED BY <1>1, <1>2, <1>3 DEF Next, Step, Quiet

(* A document that is gone stays gone, one that is new is ingested once.   *)
LEMMA ExistsMove ==
  ASSUME [Next]_vars, Exists'
  PROVE  Exists \/ Ingest
<1> USE DEF docVars, dataVars, rowVars, decideVars, lockVars, ledgerVars
<1>1. ASSUME NEW w \in Worker, ReviewStep(w) \/ DecisionStep(w)
      PROVE  doc' = doc \/ Exists
  BY <1>1 DEF ReviewStep, DecisionStep, OpenFile, Recover, BuildProposal,
     BindProposal, SettleUnchanged, PublishSummary, MarkReviewFailed, PersistReview, Validate,
     Reject, ClaimApproval, ClaimRefused, RecordOutputs, RecordInferences,
     Complete, RecordFailure, Owns
<1>2. ASSUME NEW w \in Worker,
             \/ StartReview(w)
             \/ \E d \in Decisions, r \in Review : StartDecision(w, d, r)
             \/ \E sameSession \in BOOLEAN : TryLock(w, sameSession)
             \/ \E retry \in BOOLEAN : ApplyOutputs(w, retry)
             \/ Release(w) \/ ApplyImports(w) \/ RaiseGone(w)
             \/ NoticeLostSession(w) \/ Disturb(w)
      PROVE  doc' = doc
  BY <1>2 DEF StartReview, StartDecision, TryLock, ApplyOutputs, Release,
     ApplyImports, RaiseGone, NoticeLostSession, Disturb, Raise, LeakLock, Crash,
     LoseSession
<1>3. CASE Delete \/ LoseFile \/ OtherExport \/ Recycle \/ UNCHANGED vars
  BY <1>3 DEF Delete, LoseFile, OtherExport, Recycle, vars, Exists
<1> QED BY <1>1, <1>2, <1>3 DEF Next, Outside, Step, Quiet, Exists

-----------------------------------------------------------------------------
(* Binding is inductive, whatever the sessions and the data do.            *)

LEMMA BindingInit == Init => Binding
  BY DEF Init, Binding, Begun, CardFollowsRow, BoundRow, BindingJob, Hidden, IdleJob

(* The document is there once a job is, and does not become new again.     *)
LEMMA BegunStays ==
  ASSUME Begun, NEW w \in Worker, job[w].pc # "idle", doc' # "absent" \/ doc' = doc
  PROVE  Begun'
  BY DEF Begun

(* A step of one worker that leaves rows and card alone.                   *)
LEMMA CalmBinding ==
  ASSUME Binding, NEW w \in Worker,
         UNCHANGED <<rowVars, visible, decision, decisionStatus>>,
         \A v \in Worker : v # w => job'[v] = job[v],
         BindingJob(job[w])', Begun'
  PROVE  Binding'
<1>1. \A r \in Review : BoundRow(r)'
  BY DEF Binding, BoundRow, rowVars, ChangesSomething
<1>2. ASSUME NEW v \in Worker, v # w PROVE BindingJob(job[v])'
  <2>1. BindingJob(job[v]) /\ job'[v] = job[v]
    BY <1>2 DEF Binding
  <2> QED BY <2>1 DEF BindingJob, rowVars, ChangesSomething
<1>3. CardFollowsRow'
  BY DEF Binding, CardFollowsRow
<1> QED BY <1>1, <1>2, <1>3 DEF Binding

(* A job that goes on to another step than "bind" stays a binding job.     *)
LEMMA GoneOn ==
  ASSUME Binding, NEW w \in Worker, bound' = bound,
         job'[w].kind = job[w].kind, job'[w].review = job[w].review,
         job'[w].pc # "bind"
  PROVE  BindingJob(job[w])'
<1>1. BindingJob(job[w])
  BY DEF Binding
<1> QED BY <1>1 DEF BindingJob

(* A step that decides on a bound review, and leaves its card agreeing.    *)
LEMMA DecidingStep ==
  ASSUME Binding, NEW w \in Worker, NEW k \in Review, bound[k],
         UNCHANGED rowVars, Begun', CardFollowsRow',
         \A r \in Review : r # k => decision'[r] = decision[r],
         \A v \in Worker : v # w => job'[v] = job[v],
         BindingJob(job[w])'
  PROVE  Binding'
<1>1. \A r \in Review : BoundRow(r)'
  BY DEF Binding, BoundRow, rowVars, ChangesSomething
<1>2. ASSUME NEW v \in Worker, v # w PROVE BindingJob(job[v])'
  <2>1. BindingJob(job[v]) /\ job'[v] = job[v]
    BY <1>2 DEF Binding
  <2> QED BY <2>1 DEF BindingJob, rowVars, ChangesSomething
<1> QED BY <1>1, <1>2 DEF Binding

LEMMA BindingNext == Typed /\ Binding /\ [Next]_vars => Binding'
<1> SUFFICES ASSUME Typed, Binding, [Next]_vars PROVE Binding'
  OBVIOUS
<1> USE DEF docVars, dataVars, rowVars, decideVars, lockVars, ledgerVars
<1>a. /\ job \in [Worker -> Job] /\ last \in 0 .. MaxReview
      /\ held \in [Review -> BOOLEAN] /\ content \in [Review -> BOOLEAN]
      /\ bound \in [Review -> BOOLEAN] /\ preview \in [Review -> Preview]
      /\ decision \in [Review -> {"none", "approve", "reject"}]
      /\ decisionStatus \in [Review -> {"none", "applying", "failed", "applied",
                                        "rejected"}]
      /\ visible \in [review : 0 .. MaxReview,
                      status : {"none", "not_required", "pending", "applying",
                                "failed", "approved", "rejected"}]
  BY DEF Typed, TypeOK, RowTypeOK, DecisionTypeOK, DocTypeOK
<1>b. Begun /\ CardFollowsRow /\ \A w \in Worker : BindingJob(job[w])
  BY DEF Binding
<1>1. ASSUME UNCHANGED <<rowVars, decision, decisionStatus, job>>,
             visible' = visible \/ visible' = Hidden,
             doc' # "absent" \/ doc' = doc
      PROVE  Binding'
  <2>1. \A r \in Review : BoundRow(r)'
    BY <1>1 DEF Binding, BoundRow, ChangesSomething
  <2>2. \A v \in Worker : BindingJob(job[v])'
    BY <1>1 DEF Binding, BindingJob, ChangesSomething
  <2>3. CardFollowsRow'
    BY <1>b, <1>1 DEF CardFollowsRow, Hidden
  <2>4. Begun'
    BY <1>b, <1>1 DEF Begun
  <2> QED BY <2>1, <2>2, <2>3, <2>4 DEF Binding
<1>2. CASE Outside
  BY <1>1, <1>2 DEF Outside, Ingest, Delete, LoseFile, OtherExport, Recycle
<1>3. ASSUME NEW w \in Worker, StartReview(w)
      PROVE  Binding'
  <2>1. /\ \A v \in Worker : v # w => job'[v] = job[v]
        /\ job'[w].pc = "try" /\ job'[w].kind = "review"
    BY <1>a, <1>3 DEF StartReview, NewJob
  <2>2. BindingJob(job[w])'
    BY <2>1 DEF BindingJob
  <2>3. Begun'
    BY <1>3 DEF StartReview, Begun, Exists
  <2> QED BY <1>3, <2>1, <2>2, <2>3, CalmBinding DEF StartReview
<1>4. ASSUME NEW w \in Worker, NEW d \in Decisions, NEW r \in Review,
             StartDecision(w, d, r)
      PROVE  Binding'
  <2>1. /\ \A v \in Worker : v # w => job'[v] = job[v]
        /\ job'[w].pc = "try" /\ job'[w].review = r
    BY <1>a, <1>4 DEF StartDecision, NewJob
  <2>2. BindingJob(job[w])'
    BY <1>4, <2>1 DEF BindingJob, StartDecision
  <2>3. Begun'
    BY <1>4 DEF StartDecision, Begun, Exists
  <2> QED BY <1>4, <2>1, <2>2, <2>3, CalmBinding DEF StartDecision
<1>5. ASSUME NEW w \in Worker, job' = [job EXCEPT ![w] = IdleJob],
             UNCHANGED <<rowVars, docVars, decision, decisionStatus>>
      PROVE  Binding'
  <2>1. /\ \A v \in Worker : v # w => job'[v] = job[v]
        /\ job'[w].pc = "idle" /\ job'[w].kind = "none"
    BY <1>a, <1>5 DEF IdleJob
  <2>2. BindingJob(job[w])'
    BY <2>1 DEF BindingJob
  <2>3. Begun'
    BY <1>5, <1>b, <2>1 DEF Begun
  <2> QED BY <1>5, <2>1, <2>2, <2>3, CalmBinding
<1>6. ASSUME NEW w \in Worker,
             Release(w) \/ LeakLock(w) \/ Crash(w) \/ NoticeLostSession(w)
      PROVE  Binding'
  BY <1>5, <1>6 DEF Release, LeakLock, Crash, NoticeLostSession
(* A worker's step that only moves its job on.                             *)
<1>7. ASSUME NEW w \in Worker, NEW t \in PC \ {"bind"}, Goto(w, t),
             job[w].pc # "idle", doc' # "absent" \/ doc' = doc,
             UNCHANGED <<rowVars, visible, decision, decisionStatus>>
      PROVE  Binding'
  <2>1. /\ \A v \in Worker : v # w => job'[v] = job[v]
        /\ job'[w].pc = t /\ job'[w].kind = job[w].kind
        /\ job'[w].review = job[w].review
    BY <1>7, GotoJob
  <2>2. BindingJob(job[w])'
    BY <1>7, <2>1, GoneOn
  <2>3. Begun'
    BY <1>7, <1>b, BegunStays
  <2> QED BY <1>7, <2>1, <2>2, <2>3, CalmBinding
<1>8. ASSUME NEW w \in Worker, NEW sameSession \in BOOLEAN,
             TryLock(w, sameSession)
      PROVE  Binding'
  <2>1. CASE LockFree(sameSession)
    <3>1. PICK t \in {"open", "validate"} : Goto(w, t)
      BY <1>8, <2>1 DEF TryLock
    <3>2. t \in PC \ {"bind"} /\ job[w].pc # "idle"
      BY <1>8 DEF TryLock, At, PC
    <3> QED BY <1>7, <1>8, <3>1, <3>2 DEF TryLock
  <2>2. CASE ~LockFree(sameSession)
    BY <1>5, <1>8, <2>2 DEF TryLock
  <2> QED BY <2>1, <2>2
<1>9. ASSUME NEW w \in Worker,
             \/ OpenFile(w) \/ SettleUnchanged(w) \/ MarkReviewFailed(w)
             \/ Validate(w) \/ ClaimRefused(w) \/ ApplyImports(w) \/ RecordOutputs(w)
             \/ RecordInferences(w)
      PROVE  Binding'
  <2>1. PICK t \in {"review", "close", "release", "claim", "post", "infer", "finish",
                    "abort"} : Goto(w, t)
    BY <1>9 DEF OpenFile, SettleUnchanged, MarkReviewFailed, Validate, ClaimRefused,
       ApplyImports, RecordOutputs, RecordInferences
  <2>2. t \in PC \ {"bind"}
    BY DEF PC
  <2>3. /\ job[w].pc # "idle" /\ (doc' # "absent" \/ doc' = doc)
        /\ UNCHANGED <<rowVars, visible, decision, decisionStatus>>
    BY <1>9 DEF OpenFile, SettleUnchanged, MarkReviewFailed, Validate,
       ClaimRefused, ApplyImports, RecordOutputs, RecordInferences, At
  <2> QED BY <1>7, <2>1, <2>2, <2>3
<1>10. ASSUME NEW w \in Worker, Raise(w) \/ RaiseGone(w)
       PROVE  Binding'
  <2>1. PICK t \in {"release", "broken", "abort"} : Goto(w, t)
    BY <1>10 DEF Raise, RaiseGone, Handler
  <2>2. t \in PC \ {"bind"}
    BY DEF PC
  <2>3. /\ job[w].pc # "idle" /\ doc' = doc
        /\ UNCHANGED <<rowVars, visible, decision, decisionStatus>>
    BY <1>10 DEF Raise, RaiseGone, At
  <2> QED BY <1>7, <2>1, <2>2, <2>3
<1>11. ASSUME NEW w \in Worker,
              \/ \E isHeld, rebound \in BOOLEAN : Recover(w, isHeld, rebound)
              \/ \E retry \in BOOLEAN : ApplyOutputs(w, retry)
       PROVE  Binding'
  <2>1. /\ \A v \in Worker : v # w => job'[v] = job[v]
        /\ job[w].pc # "idle" /\ doc' = doc
        /\ UNCHANGED <<rowVars, visible, decision, decisionStatus>>
    BY <1>a, <1>11 DEF Recover, ApplyOutputs, At
  <2>2. BindingJob(job[w])'
    <3>1. CASE \E isHeld, rebound \in BOOLEAN : Recover(w, isHeld, rebound)
      <4>1. job[w].kind = "review"
        BY <3>1, JobParts DEF Recover, At, Fits
      <4>2. job'[w].kind = "review" /\ job'[w].pc # "bind"
        BY <1>a, <3>1, <4>1 DEF Recover, AfterGate, Job
      <4> QED BY <4>2 DEF BindingJob
    <3>2. CASE \E retry \in BOOLEAN : ApplyOutputs(w, retry)
      <4>1. /\ job'[w].kind = job[w].kind /\ job'[w].review = job[w].review
            /\ job'[w].pc # "bind"
        BY <1>a, <3>2 DEF ApplyOutputs, Job
      <4> QED BY <2>1, <4>1, GoneOn
    <3> QED BY <1>11, <3>1, <3>2
  <2>3. Begun'
    BY <1>b, <2>1, BegunStays
  <2> QED BY <2>1, <2>2, <2>3, CalmBinding
<1>12. ASSUME NEW w \in Worker, BuildProposal(w)
       PROVE  Binding'
  <2>1. /\ \A v \in Worker : v # w => job'[v] = job[v]
        /\ job[w].pc = "gate" /\ doc' = doc
        /\ UNCHANGED <<rowVars, visible, decision, decisionStatus>>
    BY <1>a, <1>12 DEF BuildProposal, At
  <2>2. job[w].kind = "review"
    BY <2>1, JobParts DEF Fits
  <2>3. /\ job'[w].kind = "review" /\ job'[w].review = job[w].review
        /\ job'[w].pc = "bind" => ChangesSomething(job[w].review, job'[w].draft)
    BY <1>a, <1>12, <2>2 DEF BuildProposal, Job
  <2>4. BindingJob(job[w])'
    BY <2>1, <2>3 DEF BindingJob, ChangesSomething
  <2>5. Begun'
    BY <1>b, <2>1, BegunStays
  <2> QED BY <2>1, <2>4, <2>5, CalmBinding
(* A new row is not bound yet, and changes no other.                       *)
<1>13. ASSUME NEW w \in Worker, NEW isHeld \in BOOLEAN, NEW c \in BOOLEAN,
              PersistReview(w, isHeld, c)
       PROVE  Binding'
  <2>1. /\ last' = last + 1 /\ last + 1 \in Review
        /\ held' = [held EXCEPT ![last + 1] = isHeld]
        /\ content' = [content EXCEPT ![last + 1] = c]
        /\ UNCHANGED <<bound, preview, visible, decision, decisionStatus>>
        /\ doc' # "absent" /\ job[w].pc = "review"
    BY <1>a, <1>13 DEF PersistReview, At, Review
  <2>2. \A r \in Review : r <= last => held'[r] = held[r] /\ content'[r] = content[r]
    BY <1>a, <2>1 DEF Review
  <2>3. ASSUME NEW r \in Review PROVE BoundRow(r)'
    <3>1. BoundRow(r)
      BY DEF Binding
    <3>2. bound[r] => r <= last /\ r <= last + 1
      BY <1>a, <3>1 DEF BoundRow, Review
    <3> QED BY <2>1, <2>2, <3>1, <3>2 DEF BoundRow, ChangesSomething
  <2>4. ASSUME NEW v \in Worker, v # w PROVE BindingJob(job[v])'
    <3>1. BindingJob(job[v]) /\ job'[v] = job[v]
      BY <1>a, <1>13, <2>4 DEF PersistReview, Binding
    <3>2. job[v].pc = "bind" => job[v].review \in Review /\ job[v].review <= last
      BY JobParts DEF Fits
    <3> QED BY <2>1, <2>2, <3>1, <3>2 DEF BindingJob, ChangesSomething
  <2>5. job'[w].kind = "review" /\ job'[w].pc # "bind"
    <3>1. job[w].kind = "review"
      BY <2>1, JobParts DEF Fits
    <3> QED BY <1>a, <1>13, <3>1 DEF PersistReview, AfterGate, Job
  <2>6. BindingJob(job[w])'
    BY <2>5 DEF BindingJob
  <2>7. Begun' /\ CardFollowsRow'
    BY <1>b, <2>1 DEF Begun, CardFollowsRow
  <2> QED BY <2>3, <2>4, <2>6, <2>7 DEF Binding
<1>14. ASSUME NEW w \in Worker, BindProposal(w)
       PROVE  Binding'
  <2>1. PICK k \in Review : k = job[w].review /\ k <= last
    BY <1>14, JobParts DEF BindProposal, At, Fits
  <2>2. ChangesSomething(k, job[w].draft) /\ job[w].pc = "bind"
    BY <1>14, <1>b, <2>1 DEF BindProposal, At, BindingJob
  <2>3. /\ UNCHANGED <<last, held, content, visible, decision, decisionStatus>>
        /\ doc' = doc
    BY <1>14 DEF BindProposal
  <2>4. \/ /\ held[k] /\ (bound[k] => preview[k] = job[w].draft)
           /\ bound' = [bound EXCEPT ![k] = TRUE]
           /\ preview' = [preview EXCEPT ![k] = job[w].draft]
           /\ Goto(w, "offer")
        \/ UNCHANGED <<bound, preview>> /\ Goto(w, "broken")
    BY <1>14, <2>1 DEF BindProposal, Bindable
  <2>5. /\ \A v \in Worker : v # w => job'[v] = job[v]
        /\ job'[w].pc # "bind" /\ job'[w].kind = job[w].kind
        /\ job'[w].review = job[w].review
    BY <2>4, GotoJob DEF PC
  <2>6. ASSUME NEW r \in Review PROVE BoundRow(r)' /\ (bound[r] => bound'[r])
    <3>1. BoundRow(r)
      BY DEF Binding
    <3>2. CASE r = k /\ ~UNCHANGED <<bound, preview>>
      <4>1. bound'[k] /\ preview'[k] = job[w].draft /\ held'[k] /\ k <= last'
        BY <1>a, <2>1, <2>3, <2>4, <3>2
      <4> QED BY <2>2, <2>3, <3>1, <3>2, <4>1 DEF BoundRow, ChangesSomething
    <3>3. CASE ~(r = k /\ ~UNCHANGED <<bound, preview>>)
      <4>1. bound'[r] = bound[r] /\ preview'[r] = preview[r]
        BY <1>a, <2>1, <2>4, <3>3
      <4> QED BY <2>3, <3>1, <4>1 DEF BoundRow, ChangesSomething
    <3> QED BY <3>2, <3>3
  <2>7. ASSUME NEW v \in Worker PROVE BindingJob(job[v])'
    <3>1. /\ BindingJob(job[v]) /\ job'[v].kind = job[v].kind
          /\ job'[v].review = job[v].review
          /\ job'[v].pc = "bind" => job'[v] = job[v]
      BY <1>b, <2>5
    <3>2. job[v].kind \in {"approve", "reject"} => job[v].review \in Review
      BY JobParts DEF Fits
    <3> QED BY <2>3, <2>6, <3>1, <3>2 DEF BindingJob, ChangesSomething
  <2>8. Begun' /\ CardFollowsRow'
    BY <1>b, <2>2, <2>3, BegunStays DEF CardFollowsRow
  <2> QED BY <2>6, <2>7, <2>8 DEF Binding
<1>15. ASSUME NEW w \in Worker, PublishSummary(w)
       PROVE  Binding'
  <2>1. /\ \A v \in Worker : v # w => job'[v] = job[v]
        /\ job'[w].pc # "bind" /\ job'[w].kind = job[w].kind
        /\ job'[w].review = job[w].review
    BY <1>15, GotoJob DEF PublishSummary, PC
  <2>2. /\ UNCHANGED <<rowVars, decision, decisionStatus, doc>> /\ job[w].pc # "idle"
        /\ visible' = visible \/ visible'.status \in {"pending", "not_required"}
    BY <1>15 DEF PublishSummary, At
  <2>3. CardFollowsRow' /\ Begun'
    BY <1>b, <2>2, BegunStays DEF CardFollowsRow
  <2>4. \A r \in Review : BoundRow(r)'
    BY <2>2 DEF Binding, BoundRow, ChangesSomething
  <2>5. ASSUME NEW v \in Worker PROVE BindingJob(job[v])'
    <3>1. BindingJob(job[v])
      BY <1>b
    <3> QED BY <2>1, <2>2, <3>1 DEF BindingJob, ChangesSomething
  <2> QED BY <2>3, <2>4, <2>5 DEF Binding
<1>16. ASSUME NEW w \in Worker, Reject(w) \/ ClaimApproval(w)
       PROVE  Binding'
  <2>1. PICK k \in Review : k = job[w].review
    BY <1>16, JobParts DEF Reject, ClaimApproval, At, Fits
  <2>2. /\ bound[k] /\ visible.review = k /\ job[w].pc # "idle"
        /\ UNCHANGED <<rowVars, doc>>
    BY <1>16, <2>1 DEF Reject, ClaimApproval, Claimable, At
  <2>3. \E d \in {"approve", "reject"}, s \in {"applying", "rejected"} :
          /\ s = "applying" => d = "approve"
          /\ decision' = [decision EXCEPT ![k] = d]
          /\ decisionStatus' = [decisionStatus EXCEPT ![k] = s]
          /\ visible' = [visible EXCEPT !.status = s]
    BY <1>16, <2>1 DEF Reject, ClaimApproval
  <2>4. PICK t \in {"release", "apply", "infer", "finish"} : Goto(w, t)
    BY <1>16 DEF Reject, ClaimApproval, ResumeAt
  <2>5. /\ \A v \in Worker : v # w => job'[v] = job[v]
        /\ job'[w].pc # "bind" /\ job'[w].kind = job[w].kind
        /\ job'[w].review = job[w].review
    BY <2>4, GotoJob DEF PC
  <2>6. BindingJob(job[w])'
    BY <2>2, <2>5, GoneOn
  <2>7. CardFollowsRow'
    BY <1>a, <2>1, <2>2, <2>3 DEF CardFollowsRow
  <2>8. Begun'
    BY <1>b, <2>2, BegunStays
  <2>9. \A r \in Review : r # k => decision'[r] = decision[r]
    BY <1>a, <2>1, <2>3
  <2> QED BY <2>2, <2>5, <2>6, <2>7, <2>8, <2>9, DecidingStep
<1>17. ASSUME NEW w \in Worker, Complete(w) \/ RecordFailure(w)
       PROVE  Binding'
  <2>1. PICK k \in Review : k = job[w].review
    BY <1>17, JobParts DEF Complete, RecordFailure, At, Fits
  <2>2. /\ UNCHANGED <<rowVars, decision>> /\ job[w].pc # "idle"
        /\ bound[k] /\ (doc' # "absent" \/ doc' = doc)
    <3>1. job[w].kind = "approve"
      BY <1>17, JobParts DEF Complete, RecordFailure, At, Fits
    <3> QED BY <1>b, <1>17, <2>1, <3>1 DEF Complete, RecordFailure, At, BindingJob
  <2>3. PICK t \in {"release", "abort"} : Goto(w, t)
    BY <1>17 DEF Complete, RecordFailure
  <2>4. /\ \A v \in Worker : v # w => job'[v] = job[v]
        /\ job'[w].pc # "bind" /\ job'[w].kind = job[w].kind
        /\ job'[w].review = job[w].review
    BY <2>3, GotoJob DEF PC
  <2>5. BindingJob(job[w])'
    BY <2>2, <2>4, GoneOn
  <2>6. CardFollowsRow'
    <3>1. \/ UNCHANGED <<decisionStatus, visible>>
          \/ /\ visible.review = k /\ decision[k] = "approve"
             /\ \E s \in {"applied", "failed"} :
                  /\ decisionStatus' = [decisionStatus EXCEPT ![k] = s]
                  /\ visible' = [visible EXCEPT !.status =
                                   IF s = "failed" THEN "failed" ELSE "approved"]
      BY <1>17, <2>1 DEF Complete, RecordFailure, Owns
    <3> QED BY <1>a, <1>b, <2>1, <2>2, <3>1 DEF CardFollowsRow
  <2>7. Begun'
    BY <1>b, <2>2, BegunStays
  <2> QED BY <2>1, <2>2, <2>4, <2>5, <2>6, <2>7, DecidingStep
<1>18. ASSUME NEW w \in Worker, LoseSession(w)
       PROVE  Binding'
  BY <1>1, <1>18 DEF LoseSession
<1>19. CASE UNCHANGED vars
  BY <1>1, <1>19 DEF vars
<1> QED
  BY <1>2, <1>3, <1>4, <1>6, <1>8, <1>9, <1>10, <1>11, <1>12, <1>13, <1>14, <1>15,
     <1>16, <1>17, <1>18, <1>19
  DEF Next, Step, ReviewStep, DecisionStep, Disturb, Quiet

LEMMA BindingHolds == Spec => [](Invariant /\ Binding)
<1>1. Init => Binding
  BY BindingInit
<1>2. Invariant /\ Binding /\ [Next]_vars => Binding'
  BY BindingNext DEF Invariant
<1> QED BY <1>1, <1>2, InvariantHolds, PTL DEF Spec

-----------------------------------------------------------------------------
(* A document whose preview reads nothing that moves.                      *)

LEMMA ReadsSame ==
  ASSUME Reproducible, [Next]_vars, Exists, Exists'
  PROVE  CurrentPreview' = CurrentPreview
<1>1. CASE UNCHANGED dataVars
  BY <1>1 DEF CurrentPreview, dataVars
<1>2. CASE Ingest \/ Delete
  BY <1>2 DEF Ingest, Delete, Exists
<1>3. CASE LoseFile \/ OtherExport
  BY <1>3 DEF LoseFile, OtherExport, Reproducible, CurrentPreview
<1>4. CASE \E w \in Worker : ApplyImports(w)
  <2>1. file' = file /\ DocumentKind # "dataset"
    BY <1>4 DEF ApplyImports, Reproducible
  <2> QED BY <2>1 DEF CurrentPreview
<1> QED BY <1>1, <1>2, <1>3, <1>4, DataMove

LEMMA StillReadsNext ==
  ASSUME Reproducible
  PROVE  Typed /\ Binding /\ StillReads /\ [Next]_vars => StillReads'
<1> SUFFICES ASSUME Typed, Binding, StillReads, [Next]_vars, Exists'
             PROVE  /\ \A r \in Review : bound'[r] => SameRows(preview[r])'
                    /\ \A w \in Worker : job'[w].pc = "bind" => SameRows(job[w].draft)'
  BY DEF StillReads
<1>a. /\ job \in [Worker -> Job] /\ last \in 0 .. MaxReview
      /\ bound \in [Review -> BOOLEAN] /\ preview \in [Review -> Preview]
  BY DEF Typed, TypeOK, RowTypeOK
<1>1. CASE ~Exists
  <2>1. Ingest
    BY <1>1, ExistsMove
  <2>2. last = 0 /\ \A w \in Worker : job[w].pc = "idle"
    BY <2>1 DEF Ingest, Binding, Begun
  <2>3. UNCHANGED <<bound, job>>
    BY <2>1 DEF Ingest, rowVars
  <2>4. \A r \in Review : ~bound[r]
    BY <2>2 DEF Binding, BoundRow, Review
  <2> QED BY <2>2, <2>3, <2>4
<1>2. CASE Exists
  <2> DEFINE now == CurrentPreview
             Reads(p) == p.fileRows = now.fileRows /\ p.newRows = now.newRows
  <2>1. CurrentPreview' = now
    BY <1>2, ReadsSame
  <2>2. /\ \A r \in Review : bound[r] => Reads(preview[r])
        /\ \A w \in Worker : job[w].pc = "bind" => Reads(job[w].draft)
    BY <1>2 DEF StillReads, SameRows
  <2>3. ASSUME NEW r \in Review, bound'[r]
        PROVE  Reads(preview'[r])
    <3>1. CASE UNCHANGED <<bound, preview>>
      BY <2>2, <2>3, <3>1
    <3>2. ASSUME NEW w \in Worker, BindProposal(w)
          PROVE  Reads(preview'[r])
      <4>1. Reads(job[w].draft)
        BY <2>2, <3>2 DEF BindProposal, At
      <4>2. \/ UNCHANGED <<bound, preview>>
            \/ /\ bound' = [bound EXCEPT ![job[w].review] = TRUE]
               /\ preview' = [preview EXCEPT ![job[w].review] = job[w].draft]
        BY <3>2 DEF BindProposal
      <4> HIDE DEF now
      <4> QED BY <1>a, <2>2, <2>3, <4>1, <4>2
    <3> QED BY <3>1, <3>2, BoundMove
  <2>4. ASSUME NEW w \in Worker, job'[w].pc = "bind"
        PROVE  Reads(job'[w].draft)
    <3>1. CASE job'[w] = job[w]
      BY <2>2, <2>4, <3>1
    <3>2. CASE BuildProposal(w)
      <4>1. job'[w].draft = [now EXCEPT !.rebound = job[w].draft.rebound]
        BY <1>a, <3>2 DEF BuildProposal, Job
      <4> QED BY <4>1 DEF CurrentPreview
    <3>3. CASE \E isHeld, rebound \in BOOLEAN : Recover(w, isHeld, rebound)
      BY <1>a, <2>4, <3>3 DEF Recover, AfterGate, Job
    <3>4. CASE \E isHeld, hasContent \in BOOLEAN : PersistReview(w, isHeld, hasContent)
      BY <1>a, <2>4, <3>4 DEF PersistReview, AfterGate, Job
    <3>5. CASE OpenFile(w) \/ Validate(w) \/ ClaimApproval(w) \/ ApplyImports(w)
      BY <1>a, <2>4, <3>5 DEF OpenFile, Validate, ClaimApproval, ApplyImports,
         ResumeAt, Goto, Job
    <3> QED BY <2>4, <3>1, <3>2, <3>3, <3>4, <3>5, JobMoves
  <2> QED BY <2>1, <2>3, <2>4 DEF SameRows
<1> QED BY <1>1, <1>2

(* A bound preview is never overwritten by another.                        *)
LEMMA BoundStays ==
  ASSUME Typed, [Next]_vars, NEW r \in Review, bound[r]
  PROVE  preview'[r] = preview[r]
<1>1. CASE UNCHANGED <<bound, preview>>
  BY <1>1
<1>2. ASSUME NEW w \in Worker, BindProposal(w)
      PROVE  preview'[r] = preview[r]
  <2>1. \/ preview' = preview
        \/ /\ bound[job[w].review] => preview[job[w].review] = job[w].draft
           /\ preview' = [preview EXCEPT ![job[w].review] = job[w].draft]
    BY <1>2 DEF BindProposal, Bindable
  <2>2. preview \in [Review -> Preview]
    BY DEF Typed, TypeOK, RowTypeOK
  <2> QED BY <2>1, <2>2
<1> QED BY <1>1, <1>2, BoundMove

(* How an approval comes to be claimed, and to be checked before that.     *)
LEMMA ApproveMove ==
  ASSUME Typed, [Next]_vars, NEW r \in Review, decision'[r] = "approve"
  PROVE  \/ decision[r] = "approve"
         \/ \E w \in Worker : ClaimApproval(w) /\ job[w].review = r
<1> USE DEF docVars, dataVars, rowVars, decideVars, lockVars, ledgerVars
<1>a. decision \in [Review -> {"none", "approve", "reject"}]
  BY DEF Typed, TypeOK, DecisionTypeOK
<1>1. ASSUME NEW w \in Worker, ReviewStep(w)
      PROVE  decision' = decision
  BY <1>1 DEF ReviewStep, OpenFile, Recover, BuildProposal, BindProposal,
     SettleUnchanged, PublishSummary, MarkReviewFailed, PersistReview
<1>2. ASSUME NEW w \in Worker, DecisionStep(w), ~ClaimApproval(w)
      PROVE  decision' = decision
             \/ decision' = [decision EXCEPT ![job[w].review] = "reject"]
  BY <1>2 DEF DecisionStep, Validate, Reject, ClaimRefused, RecordOutputs,
     RecordInferences, Complete, RecordFailure
<1>3. ASSUME NEW w \in Worker, ClaimApproval(w)
      PROVE  decision' = [decision EXCEPT ![job[w].review] = "approve"]
  BY <1>3 DEF ClaimApproval
<1>4. ASSUME NEW w \in Worker,
             \/ StartReview(w)
             \/ \E d \in Decisions, k \in Review : StartDecision(w, d, k)
             \/ \E sameSession \in BOOLEAN : TryLock(w, sameSession)
             \/ \E retry \in BOOLEAN : ApplyOutputs(w, retry)
             \/ Release(w) \/ ApplyImports(w) \/ RaiseGone(w)
             \/ NoticeLostSession(w) \/ Disturb(w)
      PROVE  decision' = decision
  BY <1>4 DEF StartReview, StartDecision, TryLock, ApplyOutputs, Release,
     ApplyImports, RaiseGone, NoticeLostSession, Disturb, Raise, LeakLock, Crash,
     LoseSession
<1>5. CASE Outside \/ UNCHANGED vars
  BY <1>5 DEF Outside, Ingest, Delete, LoseFile, OtherExport, Recycle, vars
<1>6. ASSUME NEW w \in Worker, ClaimApproval(w)
      PROVE  decision[r] = "approve" \/ job[w].review = r
  BY <1>a, <1>3, <1>6
<1> QED
  BY <1>a, <1>1, <1>2, <1>4, <1>5, <1>6 DEF Next, Step, Quiet

LEMMA ClaimMove ==
  ASSUME Typed, [Next]_vars, NEW w \in Worker, job'[w].kind = "approve",
         job'[w].pc \in {"claim", "apply"}
  PROVE  /\ job'[w].review = job[w].review /\ job[w].kind = "approve"
         /\ \/ job'[w] = job[w]
            \/ Valid("approve", job[w].review) /\ job[w].pc = "validate"
               /\ Validate(w)
            \/ ClaimApproval(w) /\ job[w].pc = "claim" /\ job'[w].pc = "apply"
<1>a. job \in [Worker -> Job]
  BY DEF Typed, TypeOK
<1>1. CASE job'[w] = job[w]
  BY <1>1
<1>2. CASE Validate(w)
  <2>1. PICK t \in {"claim", "release"} :
          /\ Goto(w, t)
          /\ t = "claim" => Valid(job[w].kind, job[w].review)
    BY <1>2 DEF Validate
  <2>2. job'[w].pc = t /\ job'[w].kind = job[w].kind /\ job'[w].review = job[w].review
    BY <2>1, GotoJob DEF PC
  <2> QED BY <1>2, <2>1, <2>2 DEF Validate, At
<1>3. CASE ClaimApproval(w)
  <2>1. PICK t \in PC \ {"claim"} : Goto(w, t)
    BY <1>3 DEF ClaimApproval, ResumeAt, PC
  <2>2. job'[w].pc = t /\ job'[w].kind = job[w].kind /\ job'[w].review = job[w].review
    BY <2>1, GotoJob
  <2> QED BY <1>3, <2>2 DEF ClaimApproval, At
<1>4. CASE \/ OpenFile(w) \/ BuildProposal(w)
           \/ \E isHeld, hasContent \in BOOLEAN : PersistReview(w, isHeld, hasContent)
           \/ \E isHeld, rebound \in BOOLEAN : Recover(w, isHeld, rebound)
  <2>1. job[w].kind = "review"
    BY <1>4, JobParts DEF OpenFile, BuildProposal, PersistReview, Recover, At, Fits
  <2>2. job'[w].kind = job[w].kind
    <3>1. CASE OpenFile(w) \/ BuildProposal(w)
      BY <1>a, <3>1 DEF OpenFile, BuildProposal, Goto, Job
    <3>2. CASE \E isHeld, hasContent \in BOOLEAN : PersistReview(w, isHeld, hasContent)
      BY <1>a, <3>2 DEF PersistReview, Job
    <3>3. CASE \E isHeld, rebound \in BOOLEAN : Recover(w, isHeld, rebound)
      BY <1>a, <3>3 DEF Recover, Job
    <3> QED BY <1>4, <3>1, <3>2, <3>3
  <2> QED BY <2>1, <2>2
<1>5. CASE ApplyImports(w)
  BY <1>5, GotoJob DEF ApplyImports, PC
<1> QED BY <1>1, <1>2, <1>3, <1>4, <1>5, JobMoves

LEMMA AcceptedNext == Typed /\ Binding /\ Accepted /\ [Next]_vars => Accepted'
<1> SUFFICES ASSUME Typed, Binding, Accepted, [Next]_vars PROVE Accepted'
  OBVIOUS
<1>1. ASSUME NEW w \in Worker, job[w].kind = "approve"
      PROVE  job[w].review \in Review /\ bound[job[w].review]
  BY <1>1, JobParts DEF Fits, Binding, BindingJob
<1>2. ASSUME NEW r \in Review, decision'[r] = "approve"
      PROVE  ~preview'[r].rebound
  <2>1. bound[r] /\ ~preview[r].rebound
    <3>1. CASE decision[r] = "approve"
      BY <3>1 DEF Accepted, Binding, BoundRow
    <3>2. ASSUME NEW w \in Worker, ClaimApproval(w), job[w].review = r
          PROVE  bound[r] /\ ~preview[r].rebound
      BY <1>1, <3>2 DEF Accepted, ClaimApproval, At
    <3> QED BY <1>2, <3>1, <3>2, ApproveMove
  <2> QED BY <2>1, BoundStays
<1>3. ASSUME NEW w \in Worker, job'[w].kind = "approve", job'[w].pc = "claim"
      PROVE  ~preview'[job'[w].review].rebound
  <2>1. /\ job'[w].review = job[w].review /\ job[w].kind = "approve"
        /\ job'[w] = job[w] \/ Valid("approve", job[w].review)
    BY <1>3, ClaimMove
  <2>2. ~preview[job[w].review].rebound
    BY <1>3, <2>1 DEF Accepted, Valid, CurrentPreview
  <2> QED BY <1>1, <2>1, <2>2, BoundStays
<1> QED BY <1>2, <1>3 DEF Accepted

LEMMA StillReadsHolds ==
  ASSUME Reproducible
  PROVE  Spec => [](Invariant /\ Binding /\ Accepted /\ StillReads)
<1>1. Init => Accepted /\ StillReads
  BY DEF Init, Accepted, StillReads, Exists, IdleJob
<1>2. Invariant /\ Binding /\ Accepted /\ [Next]_vars => Accepted'
  BY AcceptedNext DEF Invariant
<1>3. Invariant /\ Binding /\ StillReads /\ [Next]_vars => StillReads'
  BY StillReadsNext DEF Invariant
<1> QED BY <1>1, <1>2, <1>3, BindingHolds, PTL DEF Spec

(* "No second decision is needed. Retry resumes from the last durable      *)
(* phase": where a preview reads nothing that moves, the card of an        *)
(* interrupted approval can be approved again until a newer review comes,  *)
(* though sessions die and workers overtake each other.                    *)
THEOREM Resumable ==
  ASSUME Reproducible
  PROVE  Spec => []ResumableUntilSuperseded
<1>1. ASSUME Typed, Binding, Accepted, StillReads PROVE ResumableUntilSuperseded
  <2> SUFFICES ASSUME Exists, visible.status = "failed", visible.review = last
               PROVE  Valid("approve", visible.review)
    BY DEF ResumableUntilSuperseded
  <2> DEFINE r == visible.review
  <2>1. /\ r \in Review /\ decision[r] = "approve" /\ decisionStatus[r] = "failed"
    BY <1>1 DEF Binding, CardFollowsRow
  <2>2. bound[r] /\ held[r] /\ ChangesSomething(r, preview[r])
    BY <1>1, <2>1 DEF Binding, BoundRow
  <2>3. preview[r] = CurrentPreview
    <3>1. /\ preview[r] \in Preview /\ SameRows(preview[r])
          /\ preview[r].rebound = FALSE
      BY <1>1, <2>1, <2>2 DEF StillReads, Accepted, Typed, TypeOK, RowTypeOK, Preview
    <3> QED BY <3>1 DEF SameRows, CurrentPreview, Preview
  <2> QED BY <2>1, <2>2, <2>3 DEF Valid, Interrupted
<1>2. Invariant /\ Binding /\ Accepted /\ StillReads => ResumableUntilSuperseded
  BY <1>1 DEF Invariant
<1> QED BY <1>2, StillReadsHolds, PTL

-----------------------------------------------------------------------------
(* Between the check of a preview and its import.                          *)

LEMMA AliveHoldsNext == Typed /\ AliveHolds /\ [Next]_vars => AliveHolds'
<1> SUFFICES ASSUME Typed, AliveHolds, [Next]_vars PROVE AliveHolds'
  OBVIOUS
<1> USE DEF docVars, dataVars, rowVars, decideVars, lockVars, ledgerVars
<1>a. /\ job \in [Worker -> Job] /\ alive \in [Worker -> BOOLEAN]
      /\ lock \in Worker \cup {NoWorker}
  BY DEF Typed, TypeOK, LockTypeOK
<1>1. CASE UNCHANGED <<job, lock, alive>>
  BY <1>1 DEF AliveHolds
<1>2. ASSUME NEW w \in Worker, job[w].pc \notin Unlocked, UNCHANGED lockVars,
             \A v \in Worker : v # w => job'[v] = job[v]
      PROVE  AliveHolds'
  BY <1>2 DEF AliveHolds
<1>3. ASSUME NEW w \in Worker, NEW sameSession \in BOOLEAN,
             TryLock(w, sameSession)
      PROVE  AliveHolds'
  <2>1. \A v \in Worker : v # w => job'[v] = job[v]
    BY <1>a, <1>3 DEF TryLock, Goto
  <2>2. CASE LockFree(sameSession)
    BY <1>3, <2>1, <2>2 DEF TryLock, LockFree, AliveHolds
  <2>3. CASE ~LockFree(sameSession)
    BY <1>a, <1>3, <2>1, <2>3 DEF TryLock, AliveHolds, IdleJob, Unlocked
  <2> QED BY <2>2, <2>3
<1>4. ASSUME NEW w \in Worker,
             Release(w) \/ LeakLock(w) \/ Crash(w) \/ NoticeLostSession(w)
      PROVE  AliveHolds'
  <2>1. /\ \A v \in Worker : v # w => job'[v] = job[v] /\ alive'[v] = alive[v]
        /\ job'[w].pc = "idle"
        /\ lock' = lock \/ lock = w
    BY <1>a, <1>4 DEF Release, LeakLock, Crash, NoticeLostSession, IdleJob
  <2> QED BY <2>1 DEF AliveHolds, Unlocked
<1>5. ASSUME NEW w \in Worker, LoseSession(w)
      PROVE  AliveHolds'
  <2>1. /\ job' = job /\ lock = w /\ ~alive'[w]
        /\ \A v \in Worker : v # w => alive'[v] = alive[v]
    BY <1>a, <1>5 DEF LoseSession
  <2> QED BY <2>1 DEF AliveHolds
<1>6. ASSUME NEW w \in Worker,
             \/ StartReview(w)
             \/ \E d \in Decisions, r \in Review : StartDecision(w, d, r)
      PROVE  AliveHolds'
  <2>1. /\ \A v \in Worker : v # w => job'[v] = job[v]
        /\ job'[w].pc = "try" /\ UNCHANGED lockVars
    BY <1>a, <1>6 DEF StartReview, StartDecision, NewJob
  <2> QED BY <2>1 DEF AliveHolds, Unlocked
<1>7. ASSUME NEW w \in Worker,
             \/ ReviewStep(w) \/ DecisionStep(w) \/ ApplyImports(w)
             \/ \E retry \in BOOLEAN : ApplyOutputs(w, retry)
             \/ RaiseGone(w) \/ Raise(w)
      PROVE  AliveHolds'
  <2>1. UNCHANGED lockVars
    BY <1>7 DEF ReviewStep, DecisionStep, OpenFile, Recover, BuildProposal,
       BindProposal, SettleUnchanged, PublishSummary, MarkReviewFailed,
       PersistReview, Validate, Reject, ClaimApproval, ClaimRefused,
       RecordOutputs, RecordInferences, Complete, RecordFailure, ApplyImports,
       ApplyOutputs, RaiseGone, Raise
  <2>2. job[w].pc \notin Unlocked
    BY <1>7 DEF ReviewStep, DecisionStep, OpenFile, Recover, BuildProposal,
       BindProposal, SettleUnchanged, PublishSummary, MarkReviewFailed,
       PersistReview, Validate, Reject, ClaimApproval, ClaimRefused,
       RecordOutputs, RecordInferences, Complete, RecordFailure, ApplyImports,
       ApplyOutputs, RaiseGone, Raise, At, Unlocked
  <2>3. \A v \in Worker : v # w => job'[v] = job[v]
    BY <1>a, <1>7 DEF ReviewStep, DecisionStep, OpenFile, Recover,
       BuildProposal, BindProposal, SettleUnchanged, PublishSummary,
       MarkReviewFailed, PersistReview, Validate, Reject, ClaimApproval,
       ClaimRefused, RecordOutputs, RecordInferences, Complete, RecordFailure,
       ApplyImports, ApplyOutputs, RaiseGone, Raise, Goto
  <2> QED BY <1>2, <2>1, <2>2, <2>3
<1>8. CASE Outside \/ UNCHANGED vars
  BY <1>1, <1>8 DEF Outside, Ingest, Delete, LoseFile, OtherExport, Recycle, vars
<1> QED
  BY <1>3, <1>4, <1>5, <1>6, <1>7, <1>8 DEF Next, Step, Disturb, Quiet

(* The step itself: whatever the document is and whatever moves around it. *)
LEMMA ShownStep ==
  ASSUME Typed, AliveHolds, Binding, [Next]_vars,
         \A v \in Worker : alive[v], NEW w \in Worker, StillShown(w)
  PROVE  StillShown(w)' \/ LoseFile \/ OtherExport
<1> SUFFICES ASSUME ~LoseFile, ~OtherExport, Exists', job'[w].kind = "approve",
                    job'[w].pc \in {"claim", "apply"}
             PROVE  preview'[job'[w].review] = CurrentPreview'
  BY DEF StillShown
<1>1. /\ job'[w].review = job[w].review /\ job[w].kind = "approve"
      /\ job[w].pc \in {"validate", "claim", "apply"}
      /\ Exists => preview[job[w].review] = CurrentPreview
  <2>1. CASE job'[w] = job[w]
    BY <2>1 DEF StillShown
  <2>2. CASE Valid("approve", job[w].review) /\ job[w].pc = "validate"
    BY <2>2, ClaimMove DEF Valid
  <2>3. CASE job[w].pc = "claim"
    BY <2>3, ClaimMove DEF StillShown
  <2> QED BY <2>1, <2>2, <2>3, ClaimMove
<1>2. job[w].review \in Review /\ bound[job[w].review]
  BY <1>1, JobParts DEF Fits, Binding, BindingJob
<1>3. preview'[job[w].review] = preview[job[w].review]
  BY <1>2, BoundStays
<1>4. Exists
  <2>1. CASE Ingest
    BY <1>1, <2>1 DEF Ingest, Binding, Begun
  <2> QED BY <2>1, ExistsMove
<1>5. CurrentPreview' = CurrentPreview
  <2>1. CASE UNCHANGED dataVars
    BY <2>1 DEF CurrentPreview, dataVars
  <2>2. CASE Ingest \/ Delete
    BY <1>4, <2>2 DEF Ingest, Delete, Exists
  <2>3. ASSUME NEW v \in Worker, ApplyImports(v)
        PROVE  FALSE
    <3>1. v = w
      BY <1>1, <2>3 DEF ApplyImports, At, AliveHolds, Unlocked
    <3>2. job'[v].pc = "post"
      BY <2>3, GotoJob DEF ApplyImports, PC
    <3> QED BY <3>1, <3>2
  <2> QED BY <2>1, <2>2, <2>3, DataMove
<1> QED BY <1>1, <1>3, <1>4, <1>5

(* "A bulk import whose delta has moved since the household looked at it   *)
(* [...] must be re-reviewed": once its preview has been checked, nothing  *)
(* the pipeline does to this document moves it until the import, while the *)
(* sessions live, whatever kind of document it is; what remains is another *)
(* document's import or deletion and the loss of the file.                 *)
THEOREM ImportsAsShown == Spec => MovedOnlyOutside
<1> DEFINE Step1 == (\A v \in Worker : alive[v])
                      => \A w \in Worker :
                           StillShown(w) => StillShown(w)' \/ LoseFile \/ OtherExport
<1>1. Init => AliveHolds
  BY DEF Init, AliveHolds, IdleJob, Unlocked
<1>2. Invariant /\ AliveHolds /\ [Next]_vars => AliveHolds'
  BY AliveHoldsNext DEF Invariant
<1>3. Invariant /\ Binding /\ AliveHolds /\ [Next]_vars => [Step1]_vars
  BY ShownStep DEF Invariant
<1>4. MovedOnlyOutside <=> [][Step1]_vars
  BY DEF MovedOnlyOutside
<1> HIDE DEF Step1
<1> QED BY <1>1, <1>2, <1>3, <1>4, BindingHolds, PTL DEF Spec
=============================================================================
