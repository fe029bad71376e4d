--------------------- MODULE DocumentReview_lock_proofs ---------------------
(***************************************************************************)
(* What the advisory lock of a document buys, as long as no database       *)
(* session dies under its worker: reviews and decisions exclude each       *)
(* other, and the card the household sees agrees with the rows.            *)
(***************************************************************************)
EXTENDS DocumentReview_proofs

USE ConstantsAssumption DEF Shown

-----------------------------------------------------------------------------
(* Mutual exclusion.                                                       *)

LockHeld ==
  \A w \in Worker : alive[w] /\ (job[w].pc \notin Unlocked => lock = w)

LEMMA LockNext ==
  ASSUME SessionsDie = FALSE
  PROVE  Typed /\ LockHeld /\ [Next]_vars => LockHeld'
<1> SUFFICES ASSUME Typed, LockHeld, [Next]_vars PROVE LockHeld'
  OBVIOUS
<1> USE DEF docVars, dataVars, rowVars, decideVars, lockVars, ledgerVars
<1>a. job \in [Worker -> Job] /\ alive \in [Worker -> BOOLEAN]
  BY DEF Typed, TypeOK, LockTypeOK
<1>1. CASE UNCHANGED <<job, lockVars>>
  BY <1>1 DEF LockHeld
(* Whoever acts past the lock holds it, and so nobody else is there.       *)
<1>2. ASSUME NEW w \in Worker, job[w].pc \notin Unlocked, UNCHANGED lockVars,
             \A v \in Worker : v # w => job'[v] = job[v]
      PROVE  LockHeld'
  BY <1>2 DEF LockHeld
<1>3. ASSUME NEW w \in Worker, NEW sameSession \in BOOLEAN,
             TryLock(w, sameSession)
      PROVE  LockHeld'
  <2>1. \A v \in Worker : v # w => job'[v] = job[v]
    BY <1>a, <1>3 DEF TryLock, Goto
  <2>2. CASE LockFree(sameSession)
    BY <1>3, <2>1, <2>2 DEF TryLock, LockFree, LockHeld
  <2>3. CASE ~LockFree(sameSession)
    BY <1>a, <1>3, <2>1, <2>3 DEF TryLock, LockHeld, IdleJob, Unlocked
  <2> QED BY <2>2, <2>3
<1>4. ASSUME NEW w \in Worker, Release(w) \/ LeakLock(w) \/ Crash(w)
      PROVE  LockHeld'
  <2>1. /\ \A v \in Worker : v # w => job'[v] = job[v]
        /\ job'[w].pc = "idle" /\ lock' = IF lock = w THEN NoWorker ELSE lock
        /\ \A v \in Worker : alive[v] => alive'[v]
    BY <1>a, <1>4 DEF Release, LeakLock, Crash, IdleJob
  <2> QED BY <2>1 DEF LockHeld, Unlocked
<1>5. ASSUME NEW w \in Worker,
             \/ StartReview(w)
             \/ \E d \in Decisions, r \in Review : StartDecision(w, d, r)
      PROVE  LockHeld'
  <2>1. /\ \A v \in Worker : v # w => job'[v] = job[v]
        /\ job'[w].pc = "try" /\ UNCHANGED lockVars
    BY <1>a, <1>5 DEF StartReview, StartDecision, NewJob
  <2> QED BY <2>1 DEF LockHeld, Unlocked
<1>6. ASSUME NEW w \in Worker,
             \/ ReviewStep(w) \/ DecisionStep(w) \/ ApplyImports(w)
             \/ \E retry \in BOOLEAN : ApplyOutputs(w, retry)
             \/ RaiseGone(w) \/ Raise(w)
      PROVE  LockHeld'
  <2>1. UNCHANGED lockVars
    BY <1>6 DEF ReviewStep, DecisionStep, OpenFile, Recover, BuildProposal,
       BindProposal, SettleUnchanged, PublishSummary, MarkReviewFailed, PersistReview,
       Validate, Reject, ClaimApproval, ClaimRefused, RecordOutputs,
       RecordInferences, Complete, RecordFailure, ApplyImports, ApplyOutputs,
       RaiseGone, Raise
  <2>2. job[w].pc \notin Unlocked
    BY <1>6 DEF ReviewStep, DecisionStep, OpenFile, Recover, BuildProposal,
       BindProposal, SettleUnchanged, PublishSummary, MarkReviewFailed, PersistReview,
       Validate, Reject, ClaimApproval, ClaimRefused, RecordOutputs,
       RecordInferences, Complete, RecordFailure, ApplyImports, ApplyOutputs,
       RaiseGone, Raise, At, Unlocked
  <2>3. \A v \in Worker : v # w => job'[v] = job[v]
    BY <1>a, <1>6 DEF ReviewStep, DecisionStep, OpenFile, Recover, BuildProposal,
       BindProposal, SettleUnchanged, PublishSummary, MarkReviewFailed,
       PersistReview, Validate, Reject, ClaimApproval, ClaimRefused,
       RecordOutputs, RecordInferences, Complete, RecordFailure, ApplyImports,
       ApplyOutputs, RaiseGone, Raise, Goto
  <2> QED BY <1>2, <2>1, <2>2, <2>3
<1>7. ASSUME NEW w \in Worker, LoseSession(w) \/ NoticeLostSession(w)
      PROVE  FALSE
  BY <1>7 DEF LoseSession, NoticeLostSession, LockHeld
<1>8. CASE Outside /\ ~Recycle
  BY <1>1, <1>8 DEF Outside, Ingest, Delete, LoseFile, OtherExport
<1>9. CASE Recycle
  BY <1>9 DEF Recycle, LockHeld
<1>10. CASE UNCHANGED vars
  BY <1>1, <1>10 DEF vars
<1> QED
  BY <1>3, <1>4, <1>5, <1>6, <1>7, <1>8, <1>9, <1>10 DEF Next, Step, Disturb, Quiet

(* One advisory lock per document makes its reviews and decisions exclude  *)
(* each other, provided no session dies under a living worker.             *)
THEOREM MutualExclusion ==
  ASSUME SessionsDie = FALSE
  PROVE  Spec => []OneExecutor
<1>1. Init => LockHeld
  BY DEF Init, LockHeld, IdleJob, Unlocked
<1>2. Typed /\ LockHeld /\ [Next]_vars => LockHeld'
  BY LockNext
<1>3. LockHeld => OneExecutor
  BY DEF LockHeld, OneExecutor
<1> QED BY <1>1, <1>2, <1>3, TypedInit, TypedNext, PTL DEF Spec

-----------------------------------------------------------------------------
(* The card and the rows.  Whoever is past the lock is alone there, so a   *)
(* proposal about to be shown is still undecided and an approval being     *)
(* applied is still the latest review.                                     *)

cardVars == <<doc, reviewStatus, visible, last, bound, decision, decisionStatus>>

Deciding == Applying \cup {"abort"}

JobCard(j) ==
  /\ j.pc = "offer" => bound[j.review] /\ decision[j.review] = "none"
  /\ j.kind = "approve" /\ j.pc \in Deciding => j.review = last

CardRows ==
  /\ VisibleMatchesDecision /\ ApprovedIsLatest
  /\ visible.status \notin {"none", "not_required"} => visible.review \in Review
  /\ doc = "absent" => reviewStatus = "none"

Card == CardRows /\ \A w \in Worker : JobCard(job[w])

Locked == Invariant /\ LockHeld

LEMMA CardInit == Init => Card
  BY DEF Init, Card, CardRows, JobCard, VisibleMatchesDecision, ApprovedIsLatest,
     Exists, Hidden, IdleJob, Deciding, Applying

(* A step that touches neither the card nor a decision.                    *)
LEMMA CalmCard ==
  ASSUME Card, NEW w \in Worker, UNCHANGED cardVars,
         \A v \in Worker : v # w => job'[v] = job[v], JobCard(job[w])'
  PROVE  Card'
<1>1. CardRows'
  BY DEF Card, CardRows, cardVars, VisibleMatchesDecision, ApprovedIsLatest, Exists
<1>2. \A v \in Worker : JobCard(job[v])'
  BY DEF Card, JobCard, cardVars
<1> QED BY <1>1, <1>2 DEF Card

(* Past the lock only the worker's own job and the card matter.            *)
LEMMA AloneCard ==
  ASSUME Locked, NEW w \in Worker, job[w].pc \notin Unlocked,
         \A v \in Worker : v # w => job'[v] = job[v],
         JobCard(job[w])', CardRows'
  PROVE  Card'
<1>1. ASSUME NEW v \in Worker, v # w PROVE JobCard(job[v])'
  <2>1. job[v].pc \in Unlocked
    BY <1>1 DEF Locked, LockHeld
  <2> QED BY <1>1, <2>1 DEF JobCard, Unlocked, Deciding, Applying
<1> QED BY <1>1 DEF Card

LEMMA CardNext ==
  ASSUME SessionsDie = FALSE
  PROVE  Locked /\ Card /\ [Next]_vars => Card'
<1> SUFFICES ASSUME Locked, Card, [Next]_vars PROVE Card'
  OBVIOUS
<1> USE DEF docVars, dataVars, rowVars, decideVars, lockVars, ledgerVars
<1>a. Typed /\ \A r \in Review : RowJournal(r)
  BY DEF Locked, Invariant, Journal
<1>b. /\ job \in [Worker -> Job] /\ last \in 0 .. MaxReview
      /\ bound \in [Review -> BOOLEAN]
      /\ decision \in [Review -> {"none", "approve", "reject"}]
      /\ decisionStatus \in [Review -> {"none", "applying", "failed", "applied",
                                        "rejected"}]
      /\ visible \in [review : 0 .. MaxReview,
                      status : {"none", "not_required", "pending", "applying",
                                "failed", "approved", "rejected"}]
  BY <1>a DEF Typed, TypeOK, RowTypeOK, DecisionTypeOK, DocTypeOK
<1>1. CASE UNCHANGED <<cardVars, job>>
  <2>1. CardRows'
    BY <1>1 DEF Card, CardRows, cardVars, VisibleMatchesDecision, ApprovedIsLatest, Exists
  <2>2. \A w \in Worker : JobCard(job[w])'
    BY <1>1 DEF Card, JobCard, cardVars
  <2> QED BY <2>1, <2>2 DEF Card
<1>2. CASE Outside
  <2>1. CASE LoseFile \/ OtherExport \/ Recycle
    BY <1>1, <2>1 DEF LoseFile, OtherExport, Recycle, cardVars
  <2>2. CASE Ingest
    <3>1. CardRows'
      BY <2>2 DEF Ingest, Card, CardRows, VisibleMatchesDecision, ApprovedIsLatest
    <3>2. \A w \in Worker : JobCard(job[w])'
      BY <2>2 DEF Ingest, Card, JobCard
    <3> QED BY <3>1, <3>2 DEF Card
  <2>3. CASE Delete
    <3>1. CardRows'
      BY <2>3 DEF Delete, Card, CardRows, VisibleMatchesDecision, ApprovedIsLatest,
         Exists, Hidden
    <3>2. \A w \in Worker : JobCard(job[w])'
      BY <2>3 DEF Delete, Card, JobCard
    <3> QED BY <3>1, <3>2 DEF Card
  <2> QED BY <1>2, <2>1, <2>2, <2>3 DEF Outside
<1>3. ASSUME NEW w \in Worker,
             \/ StartReview(w)
             \/ \E d \in Decisions, r \in Review : StartDecision(w, d, r)
      PROVE  Card'
  <2>1. /\ \A v \in Worker : v # w => job'[v] = job[v]
        /\ job'[w].pc = "try" /\ UNCHANGED cardVars
    BY <1>b, <1>3 DEF StartReview, StartDecision, NewJob, cardVars
  <2>2. JobCard(job[w])'
    BY <2>1 DEF JobCard, Deciding, Applying
  <2> QED BY <2>1, <2>2, CalmCard
<1>4. ASSUME NEW w \in Worker, NEW sameSession \in BOOLEAN,
             TryLock(w, sameSession)
      PROVE  Card'
  <2>1. /\ \A v \in Worker : v # w => job'[v] = job[v]
        /\ job'[w].pc \in {"open", "validate", "idle"} /\ UNCHANGED cardVars
    BY <1>b, <1>4 DEF TryLock, Goto, Job, IdleJob, cardVars
  <2>2. JobCard(job[w])'
    BY <2>1 DEF JobCard, Deciding, Applying
  <2> QED BY <2>1, <2>2, CalmCard
<1>5. ASSUME NEW w \in Worker,
             Release(w) \/ LeakLock(w) \/ Crash(w) \/ NoticeLostSession(w)
      PROVE  Card'
  <2>1. job' = [job EXCEPT ![w] = IdleJob] /\ UNCHANGED cardVars
    BY <1>5 DEF Release, LeakLock, Crash, NoticeLostSession, cardVars
  <2>2. /\ \A v \in Worker : v # w => job'[v] = job[v]
        /\ job'[w].pc = "idle"
    BY <1>a, <2>1, IdleJobAfter
  <2>3. JobCard(job[w])'
    BY <2>2 DEF JobCard, Deciding, Applying
  <2> QED BY <2>1, <2>2, <2>3, CalmCard
<1>6. ASSUME NEW w \in Worker,
             \/ OpenFile(w) \/ BuildProposal(w)
             \/ \E isHeld, rebound \in BOOLEAN : Recover(w, isHeld, rebound)
      PROVE  Card'
  <2>1. job[w].kind = "review"
    BY <1>6, <1>a, JobParts DEF OpenFile, Recover, BuildProposal, At, Fits
  <2>2. /\ \A v \in Worker : v # w => job'[v] = job[v]
        /\ job'[w].kind = job[w].kind /\ job'[w].pc # "offer"
        /\ UNCHANGED cardVars
    <3>1. CASE OpenFile(w)
      BY <1>b, <3>1 DEF OpenFile, Goto, Job, cardVars
    <3>2. CASE BuildProposal(w)
      BY <1>b, <3>2 DEF BuildProposal, Job, cardVars
    <3>3. ASSUME NEW isHeld \in BOOLEAN, NEW rebound \in BOOLEAN,
                 Recover(w, isHeld, rebound)
          PROVE  /\ \A v \in Worker : v # w => job'[v] = job[v]
                 /\ job'[w].kind = job[w].kind /\ job'[w].pc # "offer"
                 /\ UNCHANGED cardVars
      BY <1>b, <3>3 DEF Recover, AfterGate, Job, cardVars
    <3> QED BY <1>6, <3>1, <3>2, <3>3
  <2>3. JobCard(job[w])'
    BY <2>1, <2>2 DEF JobCard
  <2> QED BY <2>2, <2>3, CalmCard
<1>7. ASSUME NEW w \in Worker,
             \/ Validate(w) \/ ClaimRefused(w) \/ ApplyImports(w)
             \/ RecordOutputs(w) \/ RecordInferences(w)
      PROVE  Card'
  <2>1. {"claim", "release", "post", "infer", "finish", "abort"} \subseteq PC
    BY DEF PC
  <2>2. PICK s \in {"claim", "release", "post", "infer", "finish", "abort"} :
          /\ Goto(w, s) /\ UNCHANGED cardVars
          /\ s \in {"claim", "release"} \/ job[w].pc \in Applying
    BY <1>7 DEF Validate, ClaimRefused, ApplyImports, RecordOutputs,
       RecordInferences, At, Applying, cardVars
  <2>3. /\ \A v \in Worker : v # w => job'[v] = job[v]
        /\ job'[w].pc = s /\ job'[w].kind = job[w].kind
        /\ job'[w].review = job[w].review
    BY <1>a, <2>1, <2>2, GotoJob
  <2>4. JobCard(job[w])'
    BY <2>2, <2>3 DEF Card, JobCard, Deciding, Applying, cardVars
  <2> QED BY <2>2, <2>3, <2>4, CalmCard
<1>8. ASSUME NEW w \in Worker, NEW retry \in BOOLEAN, ApplyOutputs(w, retry)
      PROVE  Card'
  <2>1. /\ \A v \in Worker : v # w => job'[v] = job[v]
        /\ job'[w].kind = job[w].kind /\ job'[w].review = job[w].review
        /\ job'[w].pc # "offer" /\ job[w].pc = "post" /\ UNCHANGED cardVars
    BY <1>b, <1>8 DEF ApplyOutputs, At, Job, cardVars
  <2>2. JobCard(job[w])'
    BY <2>1 DEF Card, JobCard, Deciding, Applying, cardVars
  <2> QED BY <2>1, <2>2, CalmCard
<1>9. ASSUME NEW w \in Worker, Raise(w) \/ RaiseGone(w) PROVE Card'
  <2> DEFINE s == Handler(job[w].kind, job[w].pc)
  <2>1. /\ s \in PC /\ s \in {"release", "broken", "abort"}
    BY DEF Handler, PC
  <2>2. Goto(w, s) /\ UNCHANGED cardVars
    BY <1>9 DEF Raise, RaiseGone, cardVars
  <2>3. s = "abort" /\ job[w].kind = "approve" => job[w].pc \in Deciding
    BY <1>9, <1>a, JobParts DEF Raise, RaiseGone, Handler, At, Fits, Deciding,
       Applying, PC, Unlocked
  <2> HIDE DEF s
  <2>4. /\ \A v \in Worker : v # w => job'[v] = job[v]
        /\ job'[w].pc = s /\ job'[w].kind = job[w].kind
        /\ job'[w].review = job[w].review
    BY <1>a, <2>1, <2>2, GotoJob
  <2>5. JobCard(job[w])'
    BY <2>1, <2>2, <2>3, <2>4 DEF Card, JobCard, Deciding, Applying, cardVars
  <2> QED BY <2>2, <2>4, <2>5, CalmCard
<1>10. ASSUME NEW w \in Worker, NEW isHeld \in BOOLEAN, NEW c \in BOOLEAN,
              PersistReview(w, isHeld, c)
       PROVE  Card'
  <2>1. job[w].pc \notin Unlocked /\ job[w].kind = "review"
    BY <1>10, <1>a, JobParts DEF PersistReview, At, Fits, Unlocked
  <2>2. /\ \A v \in Worker : v # w => job'[v] = job[v]
        /\ job'[w].kind = job[w].kind /\ job'[w].pc # "offer"
    BY <1>b, <1>10 DEF PersistReview, AfterGate, Job
  <2>3. JobCard(job[w])'
    BY <2>1, <2>2 DEF JobCard
  <2>4. CardRows'
    BY <1>10 DEF PersistReview, Card, CardRows, VisibleMatchesDecision,
       ApprovedIsLatest
  <2> QED BY <2>1, <2>2, <2>3, <2>4, AloneCard
<1>11. ASSUME NEW w \in Worker, BindProposal(w) PROVE Card'
  <2>1. PICK k \in Review : k = job[w].review
    BY <1>11, <1>a, JobParts DEF BindProposal, At, Fits
  <2>2. job[w].pc \notin Unlocked /\ job[w].kind = "review"
    BY <1>11, <1>a, JobParts DEF BindProposal, At, Fits, Unlocked
  <2>3. \/ /\ decision[k] = "none" /\ bound' = [bound EXCEPT ![k] = TRUE]
           /\ Goto(w, "offer")
        \/ bound' = bound /\ Goto(w, "broken")
    BY <1>11, <2>1 DEF BindProposal, Bindable
  <2>4. UNCHANGED <<doc, reviewStatus, visible, last, decision, decisionStatus>>
    BY <1>11 DEF BindProposal
  <2>5. /\ \A v \in Worker : v # w => job'[v] = job[v]
        /\ job'[w].kind = job[w].kind /\ job'[w].review = k
        /\ \/ job'[w].pc = "offer" /\ bound'[k] /\ decision'[k] = "none"
           \/ job'[w].pc = "broken"
    BY <1>a, <1>b, <2>1, <2>3, <2>4, GotoJob DEF PC
  <2>6. JobCard(job[w])'
    BY <2>2, <2>5 DEF JobCard
  <2>7. CardRows'
    BY <1>b, <2>1, <2>3, <2>4 DEF Card, CardRows, VisibleMatchesDecision,
       ApprovedIsLatest, Exists
  <2> QED BY <2>2, <2>5, <2>6, <2>7, AloneCard
<1>12. ASSUME NEW w \in Worker,
              SettleUnchanged(w) \/ PublishSummary(w) \/ MarkReviewFailed(w)
       PROVE  Card'
  <2>1. job[w].pc \notin Unlocked /\ job[w].kind = "review"
    BY <1>12, <1>a, JobParts
    DEF SettleUnchanged, PublishSummary, MarkReviewFailed, At, Fits, Unlocked
  <2>2. \E s \in {"close", "release"} : Goto(w, s)
    BY <1>12 DEF SettleUnchanged, PublishSummary, MarkReviewFailed
  <2>3. /\ \A v \in Worker : v # w => job'[v] = job[v]
        /\ job'[w].kind = job[w].kind /\ job'[w].pc # "offer"
    BY <1>a, <2>2, GotoJob DEF PC
  <2>4. JobCard(job[w])'
    BY <2>1, <2>3 DEF JobCard
  <2>5. CASE SettleUnchanged(w) \/ MarkReviewFailed(w)
    <3>1. CardRows'
      BY <2>5 DEF SettleUnchanged, MarkReviewFailed, Card, CardRows,
         VisibleMatchesDecision, ApprovedIsLatest, Exists
    <3> QED BY <2>1, <2>3, <2>4, <3>1, AloneCard
  <2>6. CASE PublishSummary(w)
    <3>1. job[w].pc = "offer" => /\ job[w].review \in Review
                                 /\ bound[job[w].review]
                                 /\ decision[job[w].review] = "none"
      BY <1>a, JobParts DEF Fits, Card, JobCard
    <3>2. CardRows'
      BY <2>6, <3>1 DEF PublishSummary, At, Card, CardRows,
         VisibleMatchesDecision, ApprovedIsLatest, Exists
    <3> QED BY <2>1, <2>3, <2>4, <3>2, AloneCard
  <2> QED BY <1>12, <2>5, <2>6
<1>13. ASSUME NEW w \in Worker, Reject(w) \/ ClaimApproval(w) PROVE Card'
  <2>1. PICK k \in Review : k = job[w].review
    BY <1>13, <1>a, JobParts DEF Reject, ClaimApproval, At, Fits
  <2>2. job[w].pc \notin Unlocked
    BY <1>13 DEF Reject, ClaimApproval, At, Unlocked
  <2>3. k = last /\ visible.review = k /\ decisionStatus[k] # "applied"
    BY <1>13, <1>a, <2>1 DEF Reject, ClaimApproval, Claimable, RowJournal
  <2>4. \E s \in {"rejected", "applying"} :
          /\ visible' = [visible EXCEPT !.status = s]
          /\ decisionStatus' = [decisionStatus EXCEPT ![k] = s]
    BY <1>13, <2>1 DEF Reject, ClaimApproval
  <2>5. UNCHANGED <<doc, reviewStatus, last, bound>>
    BY <1>13 DEF Reject, ClaimApproval
  <2>6. \E s \in {"release", "apply", "infer", "finish"} : Goto(w, s)
    BY <1>13 DEF Reject, ClaimApproval, ResumeAt
  <2>7. /\ \A v \in Worker : v # w => job'[v] = job[v]
        /\ job'[w].review = last' /\ job'[w].pc # "offer"
    BY <1>a, <2>1, <2>3, <2>5, <2>6, GotoJob DEF PC
  <2>8. JobCard(job[w])'
    BY <2>7 DEF JobCard
  <2>9. visible'.review = k /\ visible'.status = decisionStatus'[k]
        /\ visible'.status \in {"rejected", "applying"}
    BY <1>b, <2>3, <2>4
  <2>10. CardRows'
    BY <2>1, <2>3, <2>5, <2>9 DEF Card, CardRows, VisibleMatchesDecision,
       ApprovedIsLatest, Exists
  <2> QED BY <2>2, <2>7, <2>8, <2>10, AloneCard
<1>14. ASSUME NEW w \in Worker, Complete(w) \/ RecordFailure(w) PROVE Card'
  <2>1. PICK k \in Review : k = job[w].review
    BY <1>14, <1>a, JobParts DEF Complete, RecordFailure, At, Fits
  <2>2. job[w].pc \notin Unlocked /\ job[w].kind = "approve" /\ k = last
    <3>1. job[w].kind = "approve" /\ job[w].pc \in {"finish", "abort"}
      BY <1>14, <1>a, JobParts DEF Complete, RecordFailure, At, Fits
    <3> QED BY <2>1, <3>1 DEF Card, JobCard, Deciding, Applying, Unlocked
  <2>3. \E s \in {"release", "abort"} : Goto(w, s)
    BY <1>14 DEF Complete, RecordFailure
  <2>4. last' = last /\ bound' = bound /\ decision' = decision
    BY <1>14 DEF Complete, RecordFailure
  <2>5. /\ \A v \in Worker : v # w => job'[v] = job[v]
        /\ job'[w].review = last' /\ job'[w].pc # "offer"
    BY <1>a, <2>1, <2>2, <2>3, <2>4, GotoJob DEF PC
  <2>6. JobCard(job[w])'
    BY <2>5 DEF JobCard
  <2>7. \/ UNCHANGED cardVars
        \/ /\ visible = [review |-> k, status |-> "applying"]
           /\ decisionStatus[k] = "applying"
           /\ \/ /\ decisionStatus' = [decisionStatus EXCEPT ![k] = "applied"]
                 /\ visible' = [visible EXCEPT !.status = "approved"]
                 /\ doc' = "parsed" /\ reviewStatus' = "approved"
              \/ /\ decisionStatus' = [decisionStatus EXCEPT ![k] = "failed"]
                 /\ visible' = [visible EXCEPT !.status = "failed"]
                 /\ UNCHANGED <<doc, reviewStatus>>
    BY <1>14, <2>1, <2>4 DEF Complete, RecordFailure, Owns, cardVars
  <2>8. CASE UNCHANGED cardVars
    BY <2>5, <2>6, <2>8, CalmCard
  <2>9. CASE ~UNCHANGED cardVars
    <3>1. CardRows'
      BY <1>b, <2>1, <2>2, <2>4, <2>7, <2>9 DEF Card, CardRows,
         VisibleMatchesDecision, ApprovedIsLatest, Exists
    <3> QED BY <2>2, <2>5, <2>6, <3>1, AloneCard
  <2> QED BY <2>8, <2>9
<1>15. ASSUME NEW w \in Worker, LoseSession(w) PROVE Card'
  BY <1>15 DEF LoseSession
<1>16. CASE UNCHANGED vars
  BY <1>1, <1>16 DEF vars, cardVars
<1> QED
  BY <1>2, <1>3, <1>4, <1>5, <1>6, <1>7, <1>8, <1>9, <1>10, <1>11, <1>12, <1>13,
     <1>14, <1>15, <1>16
  DEF Next, Step, ReviewStep, DecisionStep, Disturb, Quiet

LEMMA CardHolds ==
  ASSUME SessionsDie = FALSE
  PROVE  Spec => [](VisibleMatchesDecision /\ ApprovedIsLatest)
<1>1. Init => LockHeld /\ Card
  BY CardInit DEF Init, LockHeld, IdleJob, Unlocked
<1>2. Invariant /\ LockHeld /\ Card /\ [Next]_vars => LockHeld' /\ Card'
  BY LockNext, CardNext DEF Invariant, Locked
<1>3. Card => VisibleMatchesDecision /\ ApprovedIsLatest
  BY DEF Card, CardRows
<1> QED BY <1>1, <1>2, <1>3, InvariantHolds, PTL DEF Spec

(* The card agrees with the decision columns of the review it shows,       *)
(* whatever crashes, failures and retries led there.                       *)
THEOREM CardAgrees ==
  ASSUME SessionsDie = FALSE
  PROVE  Spec => []VisibleMatchesDecision
BY CardHolds, PTL

(* No newer review waits behind a document that reports an approval.       *)
THEOREM ApprovalIsLatest ==
  ASSUME SessionsDie = FALSE
  PROVE  Spec => []ApprovedIsLatest
BY CardHolds, PTL
=============================================================================
