------------------------ MODULE DocumentReview_proofs ------------------------
(***************************************************************************)
(* Theorems about DocumentReview, for every set of workers and every bound *)
(* on reviews and faults.                                                  *)
(***************************************************************************)
EXTENDS DocumentReview, TLAPS

(* Which jobs stand at which step, and that a job names a row once it has  *)
(* one: without it neither the ledger nor a resumed phase has a type.      *)
Fits(pc, kind, r) ==
  /\ pc = "try" => kind # "none"
  /\ pc \in {"validate", "claim"} => kind \in {"approve", "reject"}
  /\ pc \in {"journal", "infer", "finish", "abort"} => kind = "approve"
  /\ pc \in {"apply", "post"} => kind \in {"review", "approve"}
  /\ pc \in {"open", "review", "gate", "bind", "settle", "offer", "close",
             "broken"} => kind = "review"
  /\ kind \in {"approve", "reject"} => r # 0
  /\ pc \in {"gate", "bind", "settle", "offer", "apply", "post"} => r # 0

WellFormed(j, n) == j.review <= n /\ Fits(j.pc, j.kind, j.review)

JobsWellFormed == \A w \in Worker : WellFormed(job[w], last)

Typed == TypeOK /\ JobsWellFormed

USE ConstantsAssumption DEF Shown

-----------------------------------------------------------------------------
(* What the updates of one worker's job leave behind.                      *)

LEMMA IdleIsJob == IdleJob \in Job /\ \A n \in Nat : WellFormed(IdleJob, n)
  BY DEF IdleJob, Job, PC, Unlocked, Unread, Preview, WellFormed, Fits

LEMMA HiddenIsVisible ==
  /\ Hidden.review \in 0 .. MaxReview
  /\ Hidden \in [review : 0 .. MaxReview,
                 status : {"none", "not_required", "pending", "applying",
                           "failed", "approved", "rejected"}]
  BY DEF Hidden

LEMMA GotoMoves ==
  ASSUME NEW w \in Worker, NEW s \in PC, job \in [Worker -> Job], Goto(w, s)
  PROVE  \E j \in Job :
           /\ job' = [job EXCEPT ![w] = j]
           /\ j.pc = s /\ j.kind = job[w].kind /\ j.review = job[w].review
           /\ j.again = job[w].again /\ j.draft = job[w].draft
<1> DEFINE j == [job[w] EXCEPT !.pc = s]
<1>1. job[w] \in Job
  OBVIOUS
<1>2. /\ j \in Job /\ j.pc = s /\ j.kind = job[w].kind
      /\ j.review = job[w].review /\ j.again = job[w].again
      /\ j.draft = job[w].draft
  BY <1>1 DEF Job
<1>3. job' = [job EXCEPT ![w] = j]
  BY DEF Goto
<1> QED BY <1>2, <1>3

(* The other jobs stay well formed: rows are only ever added.              *)
LEMMA OneJobChanges ==
  ASSUME Typed, NEW w \in Worker, NEW j \in Job, job' = [job EXCEPT ![w] = j],
         last' \in Nat, last <= last', WellFormed(j, last')
  PROVE  (job \in [Worker -> Job])' /\ JobsWellFormed'
<1>1. job \in [Worker -> Job] /\ last \in Nat
  BY DEF Typed, TypeOK, RowTypeOK
<1>2. ASSUME NEW v \in Worker, v # w PROVE WellFormed(job'[v], last')
  <2>1. job'[v] = job[v] /\ job[v].review \in Nat
    BY <1>1, <1>2 DEF Job
  <2> QED BY <1>1, <2>1 DEF Typed, JobsWellFormed, WellFormed
<1>3. WellFormed(job'[w], last')
  BY <1>1
<1> QED BY <1>1, <1>2, <1>3 DEF JobsWellFormed

LEMMA GotoTyped ==
  ASSUME Typed, NEW w \in Worker, NEW s \in PC, Goto(w, s), UNCHANGED last,
         Fits(s, job[w].kind, job[w].review)
  PROVE  (job \in [Worker -> Job])' /\ JobsWellFormed'
<1>1. /\ job \in [Worker -> Job] /\ job[w].review <= last
      /\ last' \in Nat /\ last <= last'
  BY DEF Typed, TypeOK, RowTypeOK, JobsWellFormed, WellFormed
<1>2. PICK j \in Job : /\ job' = [job EXCEPT ![w] = j]
                       /\ j.pc = s /\ j.kind = job[w].kind
                       /\ j.review = job[w].review
  BY <1>1, GotoMoves
<1>3. WellFormed(j, last')
  BY <1>1, <1>2 DEF WellFormed
<1> QED BY <1>1, <1>2, <1>3, OneJobChanges

LEMMA IdleTyped ==
  ASSUME Typed, NEW w \in Worker, job' = [job EXCEPT ![w] = IdleJob],
         UNCHANGED last
  PROVE  (job \in [Worker -> Job])' /\ JobsWellFormed'
<1>1. last' \in Nat /\ last <= last'
  BY DEF Typed, TypeOK, RowTypeOK
<1>2. IdleJob \in Job /\ WellFormed(IdleJob, last')
  BY <1>1, IdleIsJob
<1> QED BY <1>1, <1>2, OneJobChanges

(* What every job is known to be.                                          *)
LEMMA JobParts ==
  ASSUME Typed, NEW w \in Worker
  PROVE  /\ job[w] \in Job
         /\ job[w].pc \in PC /\ job[w].draft \in Preview
         /\ job[w].review \in 0 .. MaxReview /\ job[w].review <= last
         /\ Fits(job[w].pc, job[w].kind, job[w].review)
         /\ job[w].review # 0 => job[w].review \in Review
<1>1. job[w] \in Job /\ WellFormed(job[w], last)
  BY DEF Typed, TypeOK, JobsWellFormed
<1> QED BY <1>1 DEF Job, WellFormed, Review

-----------------------------------------------------------------------------
(* Type correctness.                                                       *)

LEMMA TypedInit == Init => Typed
<1> SUFFICES ASSUME Init PROVE Typed
  OBVIOUS
<1>1. job \in [Worker -> Job] /\ JobsWellFormed
  BY IdleIsJob DEF Init, JobsWellFormed
<1>2. preview \in [Review -> Preview]
  BY DEF Init, Unread, Preview
<1>3. DocTypeOK
  BY HiddenIsVisible DEF Init, DocTypeOK
<1>4. RowTypeOK
  BY <1>2 DEF Init, RowTypeOK
<1>5. DecisionTypeOK
  BY DEF Init, DecisionTypeOK
<1>6. LockTypeOK
  <2>1. leaked \in BOOLEAN
    BY DEF Init
  <2> QED BY <2>1 DEF Init, LockTypeOK
<1>7. LedgerTypeOK
  BY DEF Init, LedgerTypeOK
<1> QED BY <1>1, <1>3, <1>4, <1>5, <1>6, <1>7 DEF Typed, TypeOK

(* What a step that leaves the database's rows alone keeps of the types.   *)
LEMMA RowsStay ==
  ASSUME Typed, UNCHANGED <<rowVars, decideVars, ledgerVars>>
  PROVE  RowTypeOK' /\ DecisionTypeOK' /\ LedgerTypeOK'
<1>1. RowTypeOK /\ DecisionTypeOK /\ LedgerTypeOK
  BY DEF Typed, TypeOK
<1>2. RowTypeOK'
  BY <1>1 DEF RowTypeOK, rowVars
<1>3. DecisionTypeOK'
  BY <1>1 DEF DecisionTypeOK, decideVars
<1>4. LedgerTypeOK'
  BY <1>1 DEF LedgerTypeOK, ledgerVars
<1> QED BY <1>2, <1>3, <1>4

LEMMA TypedNext == Typed /\ [Next]_vars => Typed'
<1> SUFFICES ASSUME Typed, [Next]_vars PROVE Typed'
  OBVIOUS
<1> USE DEF docVars, dataVars, rowVars, decideVars, lockVars, ledgerVars
<1> DEFINE Rest == DocTypeOK /\ RowTypeOK /\ DecisionTypeOK /\ LockTypeOK
                     /\ LedgerTypeOK
           Jobs == job \in [Worker -> Job] /\ JobsWellFormed
<1>a. Rest /\ Jobs
  BY DEF Typed, TypeOK
<1>b. Rest' /\ Jobs' => Typed'
  BY DEF Typed, TypeOK
<1>1. CASE Ingest
  <2>1. Rest'
    BY <1>a, <1>1 DEF Ingest, DocTypeOK, RowTypeOK, DecisionTypeOK,
       LockTypeOK, LedgerTypeOK
  <2>2. Jobs'
    BY <1>a, <1>1 DEF Ingest, JobsWellFormed
  <2> QED BY <2>1, <2>2, <1>b
<1>2. CASE Delete
  <2>1. Rest'
    BY <1>a, <1>2, HiddenIsVisible DEF Delete, DocTypeOK, RowTypeOK,
       DecisionTypeOK, LockTypeOK, LedgerTypeOK
  <2>2. Jobs'
    BY <1>a, <1>2 DEF Delete, JobsWellFormed
  <2> QED BY <2>1, <2>2, <1>b
<1>3. CASE LoseFile
  <2>1. Rest'
    <3>1. RowTypeOK' /\ DecisionTypeOK' /\ LedgerTypeOK'
      BY <1>3, RowsStay DEF LoseFile
    <3>2. DocTypeOK'
      BY <1>a, <1>3 DEF LoseFile, DocTypeOK
    <3>3. LockTypeOK'
      BY <1>a, <1>3 DEF LoseFile, LockTypeOK
    <3> QED BY <3>1, <3>2, <3>3
  <2>2. Jobs'
    BY <1>a, <1>3 DEF LoseFile, JobsWellFormed
  <2> QED BY <2>1, <2>2, <1>b
<1>4. CASE OtherExport
  <2>1. Rest'
    BY <1>a, <1>4 DEF OtherExport, DocTypeOK, RowTypeOK, DecisionTypeOK,
       LockTypeOK, LedgerTypeOK
  <2>2. Jobs'
    BY <1>a, <1>4 DEF OtherExport, JobsWellFormed
  <2> QED BY <2>1, <2>2, <1>b
<1>5. ASSUME NEW w \in Worker, StartReview(w)
      PROVE  Typed'
  <2>1. Rest'
    BY <1>a, <1>5 DEF StartReview, DocTypeOK, RowTypeOK, DecisionTypeOK,
       LockTypeOK, LedgerTypeOK
  <2>2. Jobs'
    <3> DEFINE j == NewJob("review", 0)
    <3>1. j \in Job /\ WellFormed(j, last')
      BY <1>a, <1>5 DEF StartReview, NewJob, Unread, Preview, Job, PC,
         Unlocked, WellFormed, Fits, RowTypeOK
    <3>2. last' \in Nat /\ last <= last' /\ job' = [job EXCEPT ![w] = j]
      BY <1>a, <1>5 DEF StartReview, RowTypeOK
    <3> QED BY <3>1, <3>2, OneJobChanges
  <2> QED BY <2>1, <2>2, <1>b
<1>6. ASSUME NEW w \in Worker, NEW d \in Decisions, NEW r \in Review,
             StartDecision(w, d, r)
      PROVE  Typed'
  <2>1. Rest'
    BY <1>a, <1>6 DEF StartDecision, DocTypeOK, RowTypeOK, DecisionTypeOK,
       LockTypeOK, LedgerTypeOK
  <2>2. Jobs'
    <3> DEFINE j == NewJob(d, r)
    <3>0. d \in {"approve", "reject"} /\ r \in Nat /\ r # 0
      BY DEF Review
    <3>1. j \in Job /\ WellFormed(j, last')
      BY <1>a, <1>6, <3>0 DEF StartDecision, NewJob, Unread, Preview, Job, PC,
         Unlocked, WellFormed, Fits, RowTypeOK, Review
    <3>2. last' \in Nat /\ last <= last' /\ job' = [job EXCEPT ![w] = j]
      BY <1>a, <1>6 DEF StartDecision, RowTypeOK
    <3> QED BY <3>1, <3>2, OneJobChanges
  <2> QED BY <2>1, <2>2, <1>b
<1>7. ASSUME NEW w \in Worker, NEW sameSession \in BOOLEAN,
             TryLock(w, sameSession)
      PROVE  Typed'
  <2>1. Rest'
    BY <1>a, <1>7 DEF TryLock, DocTypeOK, RowTypeOK, DecisionTypeOK,
       LockTypeOK, LedgerTypeOK
  <2>2. Jobs'
    <3>1. CASE LockFree(sameSession)
      <4> DEFINE s == IF job[w].kind = "review" THEN "open" ELSE "validate"
      <4>1. s \in PC /\ Fits(s, job[w].kind, job[w].review)
        BY <1>a, <1>7, JobParts DEF TryLock, At, Job, PC, Fits
      <4>2. Goto(w, s) /\ UNCHANGED last
        BY <1>7, <3>1 DEF TryLock
      <4> HIDE DEF s
      <4> QED BY <4>1, <4>2, GotoTyped
    <3>2. CASE ~LockFree(sameSession)
      BY <1>a, <1>7, <3>2, IdleTyped DEF TryLock
    <3> QED BY <3>1, <3>2
  <2> QED BY <2>1, <2>2, <1>b
<1>8. ASSUME NEW w \in Worker, Release(w)
      PROVE  Typed'
  <2>1. Rest'
    BY <1>a, <1>8 DEF Release, DocTypeOK, RowTypeOK, DecisionTypeOK,
       LockTypeOK, LedgerTypeOK
  <2>2. Jobs'
    BY <1>a, <1>8, IdleTyped DEF Release
  <2> QED BY <2>1, <2>2, <1>b
<1>9. ASSUME NEW w \in Worker, OpenFile(w)
      PROVE  Typed'
  <2>1. Rest'
    BY <1>a, <1>9 DEF OpenFile, DocTypeOK, RowTypeOK, DecisionTypeOK,
       LockTypeOK, LedgerTypeOK
  <2>2. Jobs'
    <3> DEFINE s == IF file THEN "review" ELSE "release"
    <3>1. s \in PC /\ Fits(s, job[w].kind, job[w].review)
      BY <1>9, JobParts DEF OpenFile, At, PC, Fits
    <3>2. Goto(w, s) /\ UNCHANGED last
      BY <1>9 DEF OpenFile
    <3> HIDE DEF s
    <3> QED BY <1>a, <3>1, <3>2, GotoTyped
  <2> QED BY <2>1, <2>2, <1>b
<1>34. ASSUME NEW w \in Worker, NEW isHeld \in BOOLEAN, NEW rebound \in BOOLEAN,
             Recover(w, isHeld, rebound)
      PROVE  Typed'
  <2>0. last \in Review /\ last' = last
    BY <1>a, <1>34 DEF Recover, RowTypeOK, Review
  <2>1. Rest'
    <3>1. DocTypeOK' /\ LockTypeOK'
      BY <1>a, <1>34 DEF Recover, DocTypeOK, LockTypeOK
    <3>2. RowTypeOK' /\ DecisionTypeOK'
      BY <1>a, <1>34 DEF Recover, RowTypeOK, DecisionTypeOK
    <3>3. LedgerTypeOK'
      BY <1>a, <1>34, <2>0 DEF Recover, LedgerTypeOK
    <3> QED BY <3>1, <3>2, <3>3
  <2>2. Jobs'
    <3> DEFINE d == [Unread EXCEPT !.rebound = rebound]
               j == [job[w] EXCEPT !.pc = AfterGate(isHeld), !.review = last,
                                   !.again = FALSE, !.draft = d]
    <3>1. AfterGate(isHeld) \in {"gate", "apply"}
      BY DEF AfterGate
    <3>2. d \in Preview
      BY DEF Unread, Preview
    <3>3. job[w] \in Job /\ job[w].kind = "review"
      BY <1>34, JobParts DEF Recover, At, Fits
    <3>4. job' = [job EXCEPT ![w] = j]
      BY <1>a, <1>34 DEF Recover
    <3> HIDE DEF d
    <3>5. /\ j \in Job /\ j.pc = AfterGate(isHeld)
          /\ j.kind = "review" /\ j.review = last
      BY <1>a, <3>1, <3>2, <3>3 DEF Job, PC, RowTypeOK
    <3> HIDE DEF j
    <3>6. WellFormed(j, last')
      BY <2>0, <3>1, <3>5 DEF WellFormed, Fits, Review
    <3>7. last' \in Nat /\ last <= last'
      BY <1>a, <2>0 DEF RowTypeOK
    <3> QED BY <3>4, <3>5, <3>6, <3>7, OneJobChanges
  <2> QED BY <2>1, <2>2, <1>b
<1>10. ASSUME NEW w \in Worker, NEW isHeld \in BOOLEAN, NEW c \in BOOLEAN,
             PersistReview(w, isHeld, c)
      PROVE  Typed'
  <2>1. Rest'
    BY <1>a, <1>10 DEF PersistReview, InsertsValues, Review, DocTypeOK,
       RowTypeOK, DecisionTypeOK, LockTypeOK, LedgerTypeOK
  <2>2. Jobs'
    <3> DEFINE j == [job[w] EXCEPT !.pc = AfterGate(isHeld), !.review = last + 1]
    <3>0. last + 1 \in 0 .. MaxReview
      BY <1>a, <1>10 DEF PersistReview, RowTypeOK
    <3>1. AfterGate(isHeld) \in {"gate", "apply"}
      BY DEF AfterGate
    <3>2. /\ j \in Job /\ j.pc = AfterGate(isHeld)
          /\ j.kind = job[w].kind /\ j.review = last + 1
      BY <3>0, <3>1, JobParts DEF Job, PC
    <3>3. last' \in Nat /\ last <= last' /\ job' = [job EXCEPT ![w] = j]
      BY <1>a, <1>10 DEF PersistReview, RowTypeOK
    <3>4. job[w].kind = "review" /\ last' = last + 1 /\ last \in Nat
      BY <1>a, <1>10, JobParts DEF PersistReview, At, Fits, RowTypeOK
    <3> HIDE DEF j
    <3>5. WellFormed(j, last')
      BY <3>1, <3>2, <3>4 DEF WellFormed, Fits
    <3> QED BY <3>2, <3>3, <3>5, OneJobChanges
  <2> QED BY <2>1, <2>2, <1>b
<1>11. ASSUME NEW w \in Worker, BuildProposal(w)
      PROVE  Typed'
  <2>1. Rest'
    BY <1>a, <1>11 DEF BuildProposal, DocTypeOK, RowTypeOK, DecisionTypeOK,
       LockTypeOK, LedgerTypeOK
  <2>2. Jobs'
    <3> DEFINE p == [CurrentPreview EXCEPT !.rebound = job[w].draft.rebound]
               s == IF ChangesSomething(job[w].review, p)
                    THEN "bind" ELSE "settle"
               j == [job[w] EXCEPT !.pc = s, !.draft = p]
    <3>1. p \in Preview /\ s \in {"bind", "settle"}
      BY <1>a, JobParts DEF CurrentPreview, Preview, DocTypeOK
    <3>2. last' \in Nat /\ last <= last' /\ job' = [job EXCEPT ![w] = j]
      BY <1>a, <1>11 DEF BuildProposal, RowTypeOK
    <3> HIDE DEF p, s
    <3>3. j \in Job /\ WellFormed(j, last')
      <4>1. /\ job[w] \in Job /\ WellFormed(job[w], last) /\ last' = last
            /\ job[w].pc = "gate"
        BY <1>a, <1>11, JobParts DEF BuildProposal, At, JobsWellFormed
      <4>2. s \in PC
        BY <3>1 DEF PC
      <4>3. j \in Job
        BY <4>1, <4>2, <3>1 DEF Job
      <4>4. j.pc = s /\ j.kind = job[w].kind /\ j.review = job[w].review
        BY <4>1 DEF Job
      <4> HIDE DEF j
      <4>5. WellFormed(j, last')
        BY <4>1, <4>4, <3>1 DEF WellFormed, Fits
      <4> QED BY <4>3, <4>5
    <3> QED BY <3>2, <3>3, OneJobChanges
  <2> QED BY <2>1, <2>2, <1>b
<1>12. ASSUME NEW w \in Worker, BindProposal(w)
      PROVE  Typed'
  <2>1. Rest'
    <3>1. RowTypeOK'
      BY <1>a, <1>12, JobParts DEF BindProposal, RowTypeOK
    <3> QED BY <1>a, <1>12, <3>1 DEF BindProposal, DocTypeOK, DecisionTypeOK,
       LockTypeOK, LedgerTypeOK
  <2>2. Jobs'
    BY <1>a, <1>12, JobParts, GotoTyped DEF BindProposal, At, PC, Fits
  <2> QED BY <2>1, <2>2, <1>b
<1>13. ASSUME NEW w \in Worker, SettleUnchanged(w)
      PROVE  Typed'
  <2>1. Rest'
    BY <1>a, <1>13, JobParts DEF SettleUnchanged, DocTypeOK, RowTypeOK,
       DecisionTypeOK, LockTypeOK, LedgerTypeOK
  <2>2. Jobs'
    BY <1>a, <1>13, JobParts, GotoTyped DEF SettleUnchanged, At, PC, Fits
  <2> QED BY <2>1, <2>2, <1>b
<1>14. ASSUME NEW w \in Worker, PublishSummary(w)
      PROVE  Typed'
  <2>1. Rest'
    BY <1>a, <1>14, JobParts DEF PublishSummary, DocTypeOK, RowTypeOK,
       DecisionTypeOK, LockTypeOK, LedgerTypeOK
  <2>2. Jobs'
    BY <1>a, <1>14, JobParts, GotoTyped DEF PublishSummary, At, PC, Fits
  <2> QED BY <2>1, <2>2, <1>b
<1>15. ASSUME NEW w \in Worker, MarkReviewFailed(w)
      PROVE  Typed'
  <2>1. Rest'
    BY <1>a, <1>15, JobParts DEF MarkReviewFailed, DocTypeOK, RowTypeOK,
       DecisionTypeOK, LockTypeOK, LedgerTypeOK
  <2>2. Jobs'
    BY <1>a, <1>15, JobParts, GotoTyped DEF MarkReviewFailed, At, PC, Fits
  <2> QED BY <2>1, <2>2, <1>b
<1>16. ASSUME NEW w \in Worker, ApplyImports(w)
      PROVE  Typed'
  <2>1. Rest'
    BY <1>a, <1>16, JobParts DEF ApplyImports, DocTypeOK, RowTypeOK,
       DecisionTypeOK, LockTypeOK, LedgerTypeOK, At, Fits
  <2>2. Jobs'
    BY <1>a, <1>16, JobParts, GotoTyped DEF ApplyImports, At, PC, Fits
  <2> QED BY <2>1, <2>2, <1>b
<1>17. ASSUME NEW w \in Worker, NEW retry \in BOOLEAN, ApplyOutputs(w, retry)
      PROVE  Typed'
  <2>1. Rest'
    <3>1. RowTypeOK' /\ DecisionTypeOK' /\ LedgerTypeOK'
      BY <1>17, RowsStay DEF ApplyOutputs
    <3>2. DocTypeOK'
      BY <1>a, <1>17 DEF ApplyOutputs, DocTypeOK
    <3>3. LockTypeOK'
      BY <1>a, <1>17 DEF ApplyOutputs, LockTypeOK
    <3> QED BY <3>1, <3>2, <3>3
  <2>2. Jobs'
    <3> DEFINE j == job'[w]
    <3>1. j \in Job /\ WellFormed(j, last')
      <4>1. /\ job[w] \in Job /\ WellFormed(job[w], last) /\ last' = last
            /\ job[w].pc = "post"
        BY <1>a, <1>17, JobParts DEF ApplyOutputs, At, JobsWellFormed
      <4>2. \/ job[w].kind = "approve" /\ j = [job[w] EXCEPT !.pc = "journal"]
            \/ /\ job[w].kind # "approve"
               /\ \/ j = [job[w] EXCEPT !.pc = "review", !.again = FALSE]
                  \/ j = [job[w] EXCEPT !.pc = "close"]
        BY <1>a, <1>17 DEF ApplyOutputs
      <4> HIDE DEF j
      <4>3. /\ j \in Job /\ j.kind = job[w].kind /\ j.review = job[w].review
            /\ j.pc \in {"journal", "review", "close"}
            /\ j.pc = "journal" => j.kind = "approve"
            /\ j.pc # "journal" => j.kind # "approve"
        <5>1. {"journal", "review", "close"} \subseteq PC
          BY DEF PC
        <5>2. CASE job[w].kind = "approve"
          <6>1. j = [job[w] EXCEPT !.pc = "journal"]
            BY <4>2, <5>2
          <6> QED BY <4>1, <5>1, <5>2, <6>1 DEF Job
        <5>3. CASE j = [job[w] EXCEPT !.pc = "close"] /\ job[w].kind # "approve"
          BY <4>1, <5>1, <5>3 DEF Job
        <5>4. CASE j = [job[w] EXCEPT !.pc = "review", !.again = FALSE]
                   /\ job[w].kind # "approve"
          BY <4>1, <5>1, <5>4 DEF Job
        <5> QED BY <4>2, <5>2, <5>3, <5>4
      <4>4. WellFormed(j, last')
        BY <4>1, <4>3 DEF WellFormed, Fits
      <4> QED BY <4>3, <4>4
    <3>2. last' \in Nat /\ last <= last' /\ job' = [job EXCEPT ![w] = j]
      BY <1>a, <1>17 DEF ApplyOutputs, RowTypeOK
    <3> QED BY <3>1, <3>2, OneJobChanges
  <2> QED BY <2>1, <2>2, <1>b
<1>18. ASSUME NEW w \in Worker, Validate(w)
      PROVE  Typed'
  <2>1. Rest'
    BY <1>a, <1>18 DEF Validate, DocTypeOK, RowTypeOK, DecisionTypeOK,
       LockTypeOK, LedgerTypeOK
  <2>2. Jobs'
    BY <1>a, <1>18, JobParts, GotoTyped DEF Validate, At, PC, Fits
  <2> QED BY <2>1, <2>2, <1>b
<1>19. ASSUME NEW w \in Worker, Reject(w)
      PROVE  Typed'
  <2>1. Rest'
    BY <1>a, <1>19 DEF Reject, DocTypeOK, RowTypeOK, DecisionTypeOK,
       LockTypeOK, LedgerTypeOK
  <2>2. Jobs'
    BY <1>a, <1>19, JobParts, GotoTyped DEF Reject, At, PC, Fits
  <2> QED BY <2>1, <2>2, <1>b
<1>20. ASSUME NEW w \in Worker, ClaimApproval(w)
      PROVE  Typed'
  <2>1. Rest'
    BY <1>a, <1>20 DEF ClaimApproval, DocTypeOK, RowTypeOK, DecisionTypeOK,
       LockTypeOK, LedgerTypeOK, ClaimedPhase
  <2>2. Jobs'
    BY <1>a, <1>20, JobParts, GotoTyped DEF ClaimApproval, At, PC, Fits,
       ResumeAt
  <2> QED BY <2>1, <2>2, <1>b
<1>21. ASSUME NEW w \in Worker, ClaimRefused(w)
      PROVE  Typed'
  <2>1. Rest'
    BY <1>a, <1>21 DEF ClaimRefused, DocTypeOK, RowTypeOK, DecisionTypeOK,
       LockTypeOK, LedgerTypeOK
  <2>2. Jobs'
    BY <1>a, <1>21, JobParts, GotoTyped DEF ClaimRefused, At, PC, Fits
  <2> QED BY <2>1, <2>2, <1>b
<1>22. ASSUME NEW w \in Worker, RecordOutputs(w)
      PROVE  Typed'
  <2>1. Rest'
    BY <1>a, <1>22 DEF RecordOutputs, DocTypeOK, RowTypeOK, DecisionTypeOK,
       LockTypeOK, LedgerTypeOK
  <2>2. Jobs'
    BY <1>a, <1>22, JobParts, GotoTyped DEF RecordOutputs, At, PC, Fits
  <2> QED BY <2>1, <2>2, <1>b
<1>23. ASSUME NEW w \in Worker, RecordInferences(w)
      PROVE  Typed'
  <2>1. Rest'
    BY <1>a, <1>23 DEF RecordInferences, DocTypeOK, RowTypeOK,
       DecisionTypeOK, LockTypeOK, LedgerTypeOK
  <2>2. Jobs'
    BY <1>a, <1>23, JobParts, GotoTyped DEF RecordInferences, At, PC, Fits
  <2> QED BY <2>1, <2>2, <1>b
<1>24. ASSUME NEW w \in Worker, Complete(w)
      PROVE  Typed'
  <2>1. Rest'
    BY <1>a, <1>24 DEF Complete, DocTypeOK, RowTypeOK, DecisionTypeOK,
       LockTypeOK, LedgerTypeOK
  <2>2. Jobs'
    BY <1>a, <1>24, JobParts, GotoTyped DEF Complete, At, PC, Fits
  <2> QED BY <2>1, <2>2, <1>b
<1>25. ASSUME NEW w \in Worker, RecordFailure(w)
      PROVE  Typed'
  <2>1. Rest'
    BY <1>a, <1>25 DEF RecordFailure, DocTypeOK, RowTypeOK, DecisionTypeOK,
       LockTypeOK, LedgerTypeOK
  <2>2. Jobs'
    BY <1>a, <1>25, JobParts, GotoTyped DEF RecordFailure, At, PC, Fits
  <2> QED BY <2>1, <2>2, <1>b
<1>26. ASSUME NEW w \in Worker, Raise(w)
      PROVE  Typed'
  <2>1. Rest'
    BY <1>a, <1>26 DEF Raise, DocTypeOK, RowTypeOK, DecisionTypeOK,
       LockTypeOK, LedgerTypeOK, Fault
  <2>2. Jobs'
    <3> DEFINE s == Handler(job[w].kind, job[w].pc)
    <3>1. s \in PC /\ Fits(s, job[w].kind, job[w].review)
      BY <1>a, <1>26, JobParts DEF Raise, Handler, At, Unlocked, PC, Fits
    <3>2. Goto(w, s) /\ UNCHANGED last
      BY <1>26 DEF Raise
    <3> HIDE DEF s
    <3> QED BY <3>1, <3>2, GotoTyped
  <2> QED BY <2>1, <2>2, <1>b
<1>27. ASSUME NEW w \in Worker, RaiseGone(w)
      PROVE  Typed'
  <2>1. Rest'
    BY <1>a, <1>27 DEF RaiseGone, DocTypeOK, RowTypeOK, DecisionTypeOK,
       LockTypeOK, LedgerTypeOK
  <2>2. Jobs'
    <3> DEFINE s == Handler(job[w].kind, job[w].pc)
    <3>1. s \in PC /\ Fits(s, job[w].kind, job[w].review)
      BY <1>a, <1>27, JobParts DEF RaiseGone, Handler, At, Unlocked, PC,
         Fits
    <3>2. Goto(w, s) /\ UNCHANGED last
      BY <1>27 DEF RaiseGone
    <3> HIDE DEF s
    <3> QED BY <3>1, <3>2, GotoTyped
  <2> QED BY <2>1, <2>2, <1>b
<1>28. ASSUME NEW w \in Worker, Crash(w)
      PROVE  Typed'
  <2>1. Rest'
    BY <1>a, <1>28 DEF Crash, DocTypeOK, RowTypeOK, DecisionTypeOK,
       LockTypeOK, LedgerTypeOK, Fault
  <2>2. Jobs'
    BY <1>a, <1>28, IdleTyped DEF Crash
  <2> QED BY <2>1, <2>2, <1>b
<1>29. ASSUME NEW w \in Worker, LoseSession(w)
      PROVE  Typed'
  <2>1. Rest'
    <3>1. leaked' \in BOOLEAN
      BY <1>29 DEF LoseSession
    <3>2. LockTypeOK'
      BY <1>a, <1>29, <3>1 DEF LoseSession, LockTypeOK, Fault
    <3> QED BY <1>a, <1>29, <3>2 DEF LoseSession, DocTypeOK, RowTypeOK,
       DecisionTypeOK, LedgerTypeOK
  <2>2. Jobs'
    BY <1>a, <1>29 DEF LoseSession, JobsWellFormed
  <2> QED BY <2>1, <2>2, <1>b
<1>30. ASSUME NEW w \in Worker, NoticeLostSession(w)
      PROVE  Typed'
  <2>1. Rest'
    BY <1>a, <1>30 DEF NoticeLostSession, DocTypeOK, RowTypeOK,
       DecisionTypeOK, LockTypeOK, LedgerTypeOK
  <2>2. Jobs'
    BY <1>a, <1>30, IdleTyped DEF NoticeLostSession
  <2> QED BY <2>1, <2>2, <1>b
<1>31. ASSUME NEW w \in Worker, LeakLock(w)
      PROVE  Typed'
  <2>1. Rest'
    BY <1>a, <1>31 DEF LeakLock, DocTypeOK, RowTypeOK, DecisionTypeOK,
       LockTypeOK, LedgerTypeOK, Fault
  <2>2. Jobs'
    BY <1>a, <1>31, IdleTyped DEF LeakLock
  <2> QED BY <2>1, <2>2, <1>b
<1>32. CASE Recycle
  <2>1. Rest'
    <3>1. RowTypeOK' /\ DecisionTypeOK' /\ LedgerTypeOK'
      BY <1>32, RowsStay DEF Recycle
    <3>2. DocTypeOK'
      BY <1>a, <1>32 DEF Recycle, DocTypeOK
    <3>3. LockTypeOK'
      BY <1>a, <1>32 DEF Recycle, LockTypeOK
    <3> QED BY <3>1, <3>2, <3>3
  <2>2. Jobs'
    BY <1>a, <1>32 DEF Recycle, JobsWellFormed
  <2> QED BY <2>1, <2>2, <1>b
<1>33. CASE UNCHANGED vars
  <2>1. Rest'
    BY <1>a, <1>33 DEF vars, DocTypeOK, RowTypeOK, DecisionTypeOK,
       LockTypeOK, LedgerTypeOK
  <2>2. Jobs'
    BY <1>a, <1>33 DEF vars, JobsWellFormed
  <2> QED BY <2>1, <2>2, <1>b
<1> QED
  BY <1>1, <1>2, <1>3, <1>4, <1>5, <1>6, <1>7, <1>8, <1>9, <1>10, <1>11,
     <1>12, <1>13, <1>14, <1>15, <1>16, <1>17, <1>18, <1>19, <1>20, <1>21,
     <1>22, <1>23, <1>24, <1>25, <1>26, <1>27, <1>28, <1>29, <1>30, <1>31, <1>32,
     <1>33, <1>34 DEF Next, Step, ReviewStep, DecisionStep, Disturb, Outside, Quiet

(* Every variable keeps its type: in particular only rows that exist reach *)
(* the ledger, and a resumed approval stands at a step there is.           *)
THEOREM TypeCorrect == Spec => []TypeOK
<1>1. Typed => TypeOK BY DEF Typed
<1> QED BY <1>1, TypedInit, TypedNext, PTL DEF Spec

-----------------------------------------------------------------------------
(* Held money needs an approval, which applies once.                       *)
(*                                                                         *)
(* Neither property is inductive by itself.  The invariant that is says    *)
(* how far each row's columns have come together (RowJournal) and what a   *)
(* worker in the middle of an application may rely on (JobJournal): rows   *)
(* never change what they hold, approvals are never taken back and the     *)
(* ledger only grows, so a worker's knowledge outlives every other         *)
(* worker's step, with or without the lock.                                *)

journalVars == <<last, held, decision, decisionStatus, phase, applied, recorded,
                reopened>>

Inferred == {"inferences_applied", "finalized"}

RowJournal(r) ==
  /\ r > last => r \notin applied /\ recorded[r] = 0 /\ decision[r] = "none"
  /\ decision[r] = "none" => phase[r] = "none" /\ decisionStatus[r] = "none"
  /\ decision[r] = "reject" => decisionStatus[r] = "rejected" /\ phase[r] = "none"
  /\ decision[r] = "approve" => /\ phase[r] # "none"
                                /\ decisionStatus[r] # "none"
  /\ decision[r] # "none" => held[r]
  /\ decisionStatus[r] = "applied" <=> phase[r] = "finalized"
  /\ phase[r] \in {"outputs_applied"} \cup Inferred => r \in applied
  /\ held[r] => recorded[r] = IF phase[r] \in Inferred THEN 1 ELSE 0
  /\ held[r] /\ r \in applied => decision[r] = "approve" \/ r \in reopened

Applying == {"apply", "post", "journal", "infer", "finish"}

JobJournal(j) ==
  /\ j.pc \in Applying /\ j.kind = "review" =>
       ~held[j.review] \/ j.review \in reopened
  /\ j.pc \in Applying /\ j.kind = "approve" => decision[j.review] = "approve"
  /\ j.pc \in {"post", "journal"} => j.review \in applied

Journal ==
  /\ \A r \in Review : RowJournal(r)
  /\ \A w \in Worker : JobJournal(job[w])

LEMMA JournalInit == Init => Journal
  BY DEF Init, Journal, RowJournal, JobJournal, Applying, Inferred, IdleJob, Review

(* What another worker does leaves a job's knowledge true.                 *)
LEMMA OthersKnowledge ==
  ASSUME Typed, Journal, NEW w \in Worker,
         \A v \in Worker : v # w => job'[v] = job[v],
         \A r \in Review : r <= last => held'[r] = held[r],
         \A r \in Review : decision[r] = "approve" => decision'[r] = "approve",
         applied \subseteq applied', reopened \subseteq reopened',
         JobJournal(job[w])'
  PROVE  \A v \in Worker : JobJournal(job[v])'
<1> SUFFICES ASSUME NEW v \in Worker, v # w PROVE JobJournal(job[v])'
  OBVIOUS
<1>1. job'[v] = job[v] /\ JobJournal(job[v])
  BY DEF Journal
<1>2. job[v].pc \in Applying => job[v].review \in Review /\ job[v].review <= last
  BY JobParts DEF Fits, Applying
<1> QED BY <1>1, <1>2 DEF JobJournal, Applying

(* A step that writes no journal column and starts no application.         *)
LEMMA CalmStep ==
  ASSUME Typed, Journal, NEW w \in Worker, UNCHANGED journalVars,
         \A v \in Worker : v # w => job'[v] = job[v],
         job'[w].pc \notin Applying
  PROVE  Journal'
<1>1. \A r \in Review : RowJournal(r)'
  BY DEF Journal, RowJournal, journalVars
<1>2. JobJournal(job[w])'
  BY DEF JobJournal, Applying
<1>3. \A v \in Worker : JobJournal(job[v])'
  BY <1>2, OthersKnowledge DEF journalVars
<1> QED BY <1>1, <1>3 DEF Journal

LEMMA GotoJob ==
  ASSUME Typed, NEW w \in Worker, NEW s \in PC, Goto(w, s)
  PROVE  /\ \A v \in Worker : v # w => job'[v] = job[v]
         /\ job'[w].pc = s /\ job'[w].kind = job[w].kind
         /\ job'[w].review = job[w].review
<1>1. job \in [Worker -> Job]
  BY DEF Typed, TypeOK
<1>2. PICK j \in Job : /\ job' = [job EXCEPT ![w] = j]
                       /\ j.pc = s /\ j.kind = job[w].kind
                       /\ j.review = job[w].review
  BY <1>1, GotoMoves
<1> QED BY <1>1, <1>2

LEMMA IdleJobAfter ==
  ASSUME Typed, NEW w \in Worker, job' = [job EXCEPT ![w] = IdleJob]
  PROVE  /\ \A v \in Worker : v # w => job'[v] = job[v]
         /\ job'[w].pc = "idle"
  BY DEF Typed, TypeOK, IdleJob

LEMMA GotoCalm ==
  ASSUME Typed, Journal, NEW w \in Worker, UNCHANGED journalVars,
         NEW s \in PC \ Applying, Goto(w, s)
  PROVE  Journal'
  BY GotoJob, CalmStep

LEMMA IdleCalm ==
  ASSUME Typed, Journal, NEW w \in Worker, UNCHANGED journalVars,
         job' = [job EXCEPT ![w] = IdleJob]
  PROVE  Journal'
  BY IdleJobAfter, CalmStep DEF Applying

LEMMA JournalNext == Typed /\ Journal /\ [Next]_vars => Journal'
<1> SUFFICES ASSUME Typed, Journal, [Next]_vars PROVE Journal'
  OBVIOUS
<1> USE DEF docVars, dataVars, rowVars, decideVars, lockVars, ledgerVars,
            journalVars
<1> DEFINE Rows == \A r \in Review : RowJournal(r)
<1>a. /\ last \in 0 .. MaxReview /\ held \in [Review -> BOOLEAN]
      /\ decision \in [Review -> {"none", "approve", "reject"}]
      /\ decisionStatus \in [Review -> {"none", "applying", "failed", "applied",
                                        "rejected"}]
      /\ phase \in [Review -> {"none", "claimed", "outputs_applied",
                               "inferences_applied", "finalized"}]
      /\ recorded \in [Review -> Nat] /\ job \in [Worker -> Job]
  BY DEF Typed, TypeOK, RowTypeOK, DecisionTypeOK, LedgerTypeOK
<1>1. CASE UNCHANGED <<journalVars, job>>
  <2>1. Rows' BY <1>1 DEF Journal, RowJournal
  <2>2. \A w \in Worker : JobJournal(job[w])' BY <1>1 DEF Journal, JobJournal
  <2> QED BY <2>1, <2>2 DEF Journal
<1>2. CASE Outside
  BY <1>1, <1>2 DEF Outside, Ingest, Delete, LoseFile, OtherExport, Recycle
<1>3. ASSUME NEW w \in Worker, StartReview(w) PROVE Journal'
  <2>1. job'[w].pc = "try" /\ \A v \in Worker : v # w => job'[v] = job[v]
    BY <1>a, <1>3 DEF StartReview, NewJob
  <2> QED BY <1>3, <2>1, CalmStep DEF StartReview, Applying
<1>4. ASSUME NEW w \in Worker, NEW d \in Decisions, NEW r \in Review,
             StartDecision(w, d, r)
      PROVE  Journal'
  <2>1. job'[w].pc = "try" /\ \A v \in Worker : v # w => job'[v] = job[v]
    BY <1>a, <1>4 DEF StartDecision, NewJob
  <2> QED BY <1>4, <2>1, CalmStep DEF StartDecision, Applying
<1>5. ASSUME NEW w \in Worker, NEW sameSession \in BOOLEAN,
             TryLock(w, sameSession)
      PROVE  Journal'
  <2>1. CASE LockFree(sameSession)
    <3> DEFINE s == IF job[w].kind = "review" THEN "open" ELSE "validate"
    <3>1. s \in PC \ Applying
      BY DEF PC, Applying
    <3>2. Goto(w, s)
      BY <1>5, <2>1 DEF TryLock
    <3> HIDE DEF s
    <3> QED BY <1>5, <3>1, <3>2, GotoCalm DEF TryLock
  <2>2. CASE ~LockFree(sameSession)
    BY <1>5, <2>2, IdleCalm DEF TryLock
  <2> QED BY <2>1, <2>2
<1>6. ASSUME NEW w \in Worker,
             Release(w) \/ Crash(w) \/ NoticeLostSession(w) \/ LeakLock(w)
      PROVE  Journal'
  BY <1>6, IdleCalm DEF Release, Crash, NoticeLostSession, LeakLock
<1>7. ASSUME NEW w \in Worker, OpenFile(w) PROVE Journal'
  <2> DEFINE s == IF file THEN "review" ELSE "release"
  <2>1. s \in PC \ Applying
    BY DEF PC, Applying
  <2>2. Goto(w, s) /\ UNCHANGED journalVars
    BY <1>7 DEF OpenFile
  <2> HIDE DEF s
  <2> QED BY <2>1, <2>2, GotoCalm
<1>22. ASSUME NEW w \in Worker, NEW isHeld \in BOOLEAN, NEW rebound \in BOOLEAN,
             Recover(w, isHeld, rebound)
      PROVE  Journal'
  <2>1. /\ \A v \in Worker : v # w => job'[v] = job[v]
        /\ job'[w].pc = AfterGate(isHeld) /\ job'[w].review = last
        /\ job'[w].kind = job[w].kind
    BY <1>a, <1>22 DEF Recover, Job
  <2>2. job[w].kind = "review"
    BY <1>22, JobParts DEF Recover, At, Fits
  <2>3. /\ UNCHANGED <<last, held, decision, decisionStatus, phase, applied,
                       recorded>>
        /\ reopened \subseteq reopened'
        /\ ~isHeld => last \in reopened'
    BY <1>22 DEF Recover
  <2>4. JobJournal(job[w])'
    BY <2>1, <2>2, <2>3 DEF JobJournal, AfterGate, Applying
  <2>5. Rows'
    BY <2>3 DEF Journal, RowJournal
  <2>6. \A v \in Worker : JobJournal(job[v])'
    BY <2>1, <2>3, <2>4, OthersKnowledge
  <2> QED BY <2>5, <2>6 DEF Journal
<1>8. ASSUME NEW w \in Worker, NEW isHeld \in BOOLEAN, NEW c \in BOOLEAN,
             PersistReview(w, isHeld, c)
      PROVE  Journal'
  <2>1. /\ last' = last + 1 /\ last + 1 \in Review
        /\ held' = [held EXCEPT ![last + 1] = isHeld]
        /\ recorded' = IF isHeld THEN recorded
                       ELSE [recorded EXCEPT ![last + 1] = @ + 1]
        /\ UNCHANGED <<decision, decisionStatus, phase, applied, reopened>>
    BY <1>a, <1>8 DEF PersistReview, InsertsValues, Review
  <2>2. \A r \in Review : r <= last => held'[r] = held[r]
    BY <1>a, <2>1 DEF Review
  <2>3. ASSUME NEW r \in Review PROVE RowJournal(r)'
    <3>1. CASE r = last + 1
      <4>1. /\ r \notin applied /\ recorded[r] = 0 /\ decision[r] = "none"
            /\ phase[r] = "none" /\ decisionStatus[r] = "none"
        BY <1>a, <3>1 DEF Journal, RowJournal, Review
      <4>2. held'[r] = isHeld /\ (isHeld => recorded'[r] = 0)
        BY <1>a, <2>1, <3>1, <4>1
      <4> QED BY <1>a, <2>1, <3>1, <4>1, <4>2 DEF RowJournal, Inferred, Review
    <3>2. CASE r # last + 1
      <4>1. held'[r] = held[r] /\ recorded'[r] = recorded[r]
        BY <1>a, <2>1, <3>2
      <4> QED BY <1>a, <2>1, <3>2, <4>1 DEF Journal, RowJournal, Review
    <3> QED BY <3>1, <3>2
  <2>4. /\ \A v \in Worker : v # w => job'[v] = job[v]
        /\ job'[w].pc = AfterGate(isHeld) /\ job'[w].review = last + 1
        /\ job'[w].kind = job[w].kind
    BY <1>a, <1>8 DEF PersistReview, Job
  <2>5. job[w].kind = "review"
    BY <1>8, JobParts DEF PersistReview, At, Fits
  <2>6. JobJournal(job[w])'
    BY <1>a, <2>1, <2>4, <2>5 DEF JobJournal, AfterGate, Applying
  <2>7. \A v \in Worker : JobJournal(job[v])'
    BY <2>1, <2>2, <2>4, <2>6, OthersKnowledge
  <2> QED BY <2>3, <2>7 DEF Journal
<1>9. ASSUME NEW w \in Worker, BuildProposal(w) PROVE Journal'
  <2>1. /\ \A v \in Worker : v # w => job'[v] = job[v]
        /\ job'[w].pc \in {"bind", "settle"}
    BY <1>a, <1>9 DEF BuildProposal, Job
  <2> QED BY <1>9, <2>1, CalmStep DEF BuildProposal, Applying
<1>10. ASSUME NEW w \in Worker,
              \/ BindProposal(w) \/ SettleUnchanged(w) \/ PublishSummary(w)
              \/ MarkReviewFailed(w) \/ Validate(w) \/ ClaimRefused(w)
       PROVE  Journal'
  <2>1. {"offer", "broken", "close", "release", "claim"} \subseteq PC \ Applying
    BY DEF PC, Applying
  <2>2. \E s \in {"offer", "broken", "close", "release", "claim"} : Goto(w, s)
    BY <1>10 DEF BindProposal, SettleUnchanged, PublishSummary,
         MarkReviewFailed, Validate, ClaimRefused
  <2>3. UNCHANGED journalVars
    BY <1>10 DEF BindProposal, SettleUnchanged, PublishSummary,
         MarkReviewFailed, Validate, ClaimRefused
  <2> QED BY <2>1, <2>2, <2>3, GotoCalm
<1>11. ASSUME NEW w \in Worker, Raise(w) \/ RaiseGone(w) PROVE Journal'
  <2> DEFINE s == Handler(job[w].kind, job[w].pc)
  <2>1. s \in PC \ Applying
    BY DEF Handler, PC, Applying
  <2>2. Goto(w, s) /\ UNCHANGED journalVars
    BY <1>11 DEF Raise, RaiseGone
  <2> HIDE DEF s
  <2> QED BY <2>1, <2>2, GotoCalm
<1>12. ASSUME NEW w \in Worker, ApplyImports(w) PROVE Journal'
  <2> DEFINE k == job[w].review
  <2>1. k \in Review /\ job[w].kind \in {"review", "approve"}
    BY <1>12, JobParts DEF ApplyImports, At, Fits
  <2>2. \/ job[w].kind = "review" /\ (~held[k] \/ k \in reopened)
        \/ job[w].kind = "approve" /\ decision[k] = "approve"
    BY <1>12, <2>1 DEF ApplyImports, At, Journal, JobJournal, Applying
  <2>3. applied' = applied \cup {k} /\ UNCHANGED <<last, held, decision,
                                        decisionStatus, phase, recorded, reopened>>
    BY <1>12 DEF ApplyImports
  <2>4. k <= last
    BY JobParts
  <2>5. ASSUME NEW r \in Review PROVE RowJournal(r)'
    BY <1>a, <2>1, <2>2, <2>3, <2>4 DEF Journal, RowJournal, Review
  <2>6. /\ \A v \in Worker : v # w => job'[v] = job[v]
        /\ job'[w].pc = "post" /\ job'[w].kind = job[w].kind
        /\ job'[w].review = k
    BY <1>12, GotoJob DEF ApplyImports, PC
  <2>7. JobJournal(job[w])'
    BY <2>2, <2>3, <2>6 DEF JobJournal
  <2>8. \A v \in Worker : JobJournal(job[v])'
    BY <2>3, <2>6, <2>7, OthersKnowledge
  <2> QED BY <2>5, <2>8 DEF Journal
<1>13. ASSUME NEW w \in Worker, NEW retry \in BOOLEAN, ApplyOutputs(w, retry)
       PROVE  Journal'
  <2>1. /\ \A v \in Worker : v # w => job'[v] = job[v]
        /\ job'[w].kind = job[w].kind /\ job'[w].review = job[w].review
        /\ job'[w].pc = "journal" => job[w].kind = "approve"
        /\ job'[w].pc \in {"journal", "review", "close"}
    BY <1>a, <1>13 DEF ApplyOutputs, Job
  <2>2. JobJournal(job[w])
    BY DEF Journal
  <2>3. JobJournal(job[w])'
    BY <1>13, <2>1, <2>2 DEF ApplyOutputs, At, JobJournal, Applying
  <2>4. Rows'
    BY <1>13 DEF ApplyOutputs, Journal, RowJournal
  <2>5. \A v \in Worker : JobJournal(job[v])'
    BY <1>13, <2>1, <2>3, OthersKnowledge DEF ApplyOutputs
  <2> QED BY <2>4, <2>5 DEF Journal
<1>14. ASSUME NEW w \in Worker, Reject(w) PROVE Journal'
  <2> DEFINE k == job[w].review
  <2>1. k \in Review /\ k <= last
    BY <1>14, JobParts DEF Reject, At, Fits
  <2>2. /\ decision[k] = "none" /\ held[k]
        /\ decision' = [decision EXCEPT ![k] = "reject"]
        /\ decisionStatus' = [decisionStatus EXCEPT ![k] = "rejected"]
        /\ UNCHANGED <<last, held, phase, applied, recorded,
                       reopened>>
    BY <1>14 DEF Reject, Claimable
  <2>3. ASSUME NEW r \in Review PROVE RowJournal(r)'
    BY <1>a, <2>1, <2>2 DEF Journal, RowJournal, Inferred, Review
  <2>4. /\ \A v \in Worker : v # w => job'[v] = job[v]
        /\ job'[w].pc = "release"
    BY <1>14, GotoJob DEF Reject, PC
  <2>5. JobJournal(job[w])'
    BY <2>4 DEF JobJournal, Applying
  <2>6. \A v \in Worker : JobJournal(job[v])'
    BY <1>a, <2>1, <2>2, <2>4, <2>5, OthersKnowledge
  <2> QED BY <2>3, <2>6 DEF Journal
<1>15. ASSUME NEW w \in Worker, ClaimApproval(w) PROVE Journal'
  <2> DEFINE k == job[w].review
  <2>1. k \in Review /\ k <= last /\ job[w].kind = "approve"
    BY <1>15, JobParts DEF ClaimApproval, At, Fits
  <2>2. /\ decision[k] = "none" \/ (decision[k] = "approve" /\
                                    decisionStatus[k] \in {"applying", "failed"})
        /\ held[k]
        /\ decision' = [decision EXCEPT ![k] = "approve"]
        /\ decisionStatus' = [decisionStatus EXCEPT ![k] = "applying"]
        /\ phase' = [phase EXCEPT ![k] = ClaimedPhase(phase[k])]
        /\ UNCHANGED <<last, held, applied, recorded,
                       reopened>>
    BY <1>15 DEF ClaimApproval, Claimable
  <2>3. ASSUME NEW r \in Review PROVE RowJournal(r)'
    <3>1. RowJournal(r)
      BY DEF Journal
    <3>2. CASE r = k
      BY <1>a, <2>1, <2>2, <3>1, <3>2 DEF RowJournal, ClaimedPhase, Inferred, Review
    <3>3. CASE r # k
      BY <1>a, <2>1, <2>2, <3>1, <3>3 DEF RowJournal
    <3> QED BY <3>2, <3>3
  <2>4. ResumeAt(phase[k]) \in {"apply", "infer", "finish"}
    BY DEF ResumeAt
  <2>5. /\ \A v \in Worker : v # w => job'[v] = job[v]
        /\ job'[w].pc \in {"apply", "infer", "finish"}
        /\ job'[w].kind = "approve" /\ job'[w].review = k
    BY <1>15, <2>1, <2>4, GotoJob DEF ClaimApproval, PC
  <2>6. JobJournal(job[w])'
    BY <1>a, <2>1, <2>2, <2>5 DEF JobJournal
  <2>7. \A v \in Worker : JobJournal(job[v])'
    BY <1>a, <2>1, <2>2, <2>5, <2>6, OthersKnowledge
  <2> QED BY <2>3, <2>7 DEF Journal
<1>16. ASSUME NEW w \in Worker, RecordOutputs(w) PROVE Journal'
  <2> DEFINE k == job[w].review
  <2>1. k \in Review /\ k \in applied /\ decision[k] = "approve"
    <3>1. job[w].kind = "approve" /\ k \in Review
      BY <1>16, JobParts DEF RecordOutputs, At, Fits
    <3> QED BY <1>16, <3>1 DEF RecordOutputs, At, Journal, JobJournal, Applying
  <2>2. CASE Owns(w, k) /\ phase[k] = "claimed"
    <3>1. /\ phase' = [phase EXCEPT ![k] = "outputs_applied"] /\ Goto(w, "infer")
          /\ UNCHANGED <<last, held, decision, decisionStatus, applied, recorded,
                       reopened>>
      BY <1>16, <2>2 DEF RecordOutputs
    <3>2. ASSUME NEW r \in Review PROVE RowJournal(r)'
      BY <1>a, <2>1, <2>2, <3>1 DEF Journal, RowJournal, Inferred
    <3>3. /\ \A v \in Worker : v # w => job'[v] = job[v]
          /\ job'[w].pc = "infer" /\ job'[w].kind = job[w].kind
          /\ job'[w].review = k
      BY <3>1, GotoJob DEF PC
    <3>4. JobJournal(job[w])'
      BY <1>16, <2>1, <3>1, <3>3, JobParts DEF RecordOutputs, At, Fits, JobJournal
    <3>5. \A v \in Worker : JobJournal(job[v])'
      BY <3>1, <3>3, <3>4, OthersKnowledge
    <3> QED BY <3>2, <3>5 DEF Journal
  <2>3. CASE ~(Owns(w, k) /\ phase[k] = "claimed")
    BY <1>16, <2>3, GotoCalm DEF RecordOutputs, PC, Applying
  <2> QED BY <2>2, <2>3
<1>17. ASSUME NEW w \in Worker, RecordInferences(w) PROVE Journal'
  <2> DEFINE k == job[w].review
  <2>1. k \in Review /\ job[w].kind = "approve" /\ decision[k] = "approve"
    <3>1. job[w].kind = "approve" /\ k \in Review
      BY <1>17, JobParts DEF RecordInferences, At, Fits
    <3> QED BY <1>17, <3>1 DEF RecordInferences, At, Journal, JobJournal, Applying
  <2>2. CASE Owns(w, k) /\ phase[k] = "outputs_applied"
    <3>1. /\ phase' = [phase EXCEPT ![k] = "inferences_applied"]
          /\ recorded' = [recorded EXCEPT ![k] = @ + 1] /\ Goto(w, "finish")
          /\ UNCHANGED <<last, held, decision, decisionStatus, applied,
                       reopened>>
      BY <1>17, <2>2 DEF RecordInferences
    <3>2. ASSUME NEW r \in Review PROVE RowJournal(r)'
      <4>1. RowJournal(r)
        BY DEF Journal
      <4>2. CASE r = k
        BY <1>a, <2>1, <2>2, <3>1, <4>1, <4>2 DEF RowJournal, Inferred
      <4>3. CASE r # k
        BY <1>a, <2>1, <3>1, <4>1, <4>3 DEF RowJournal
      <4> QED BY <4>2, <4>3
    <3>3. /\ \A v \in Worker : v # w => job'[v] = job[v]
          /\ job'[w].pc = "finish" /\ job'[w].kind = "approve"
          /\ job'[w].review = k
      BY <2>1, <3>1, GotoJob DEF PC
    <3>4. JobJournal(job[w])'
      BY <2>1, <3>1, <3>3 DEF JobJournal
    <3>5. \A v \in Worker : JobJournal(job[v])'
      BY <3>1, <3>3, <3>4, OthersKnowledge
    <3> QED BY <3>2, <3>5 DEF Journal
  <2>3. CASE ~(Owns(w, k) /\ phase[k] = "outputs_applied")
    BY <1>17, <2>3, GotoCalm DEF RecordInferences, PC, Applying
  <2> QED BY <2>2, <2>3
<1>18. ASSUME NEW w \in Worker, Complete(w) PROVE Journal'
  <2> DEFINE k == job[w].review
             ready == /\ Owns(w, k) /\ phase[k] = "inferences_applied"
                      /\ visible = [review |-> k, status |-> "applying"]
  <2>1. k \in Review
    BY <1>18, JobParts DEF Complete, At, Fits
  <2>2. CASE ready
    <3>1. /\ decisionStatus' = [decisionStatus EXCEPT ![k] = "applied"]
          /\ phase' = [phase EXCEPT ![k] = "finalized"] /\ Goto(w, "release")
          /\ UNCHANGED <<last, held, decision, applied, recorded,
                       reopened>>
      BY <1>18, <2>2 DEF Complete
    <3>2. decision[k] = "approve"
      BY <2>2 DEF Owns
    <3>3. ASSUME NEW r \in Review PROVE RowJournal(r)'
      <4>1. RowJournal(r)
        BY DEF Journal
      <4>2. CASE r = k
        BY <1>a, <2>1, <2>2, <3>1, <3>2, <4>1, <4>2 DEF RowJournal, Inferred
      <4>3. CASE r # k
        BY <1>a, <2>1, <3>1, <4>1, <4>3 DEF RowJournal
      <4> QED BY <4>2, <4>3
    <3>4. /\ \A v \in Worker : v # w => job'[v] = job[v]
          /\ job'[w].pc = "release"
      BY <3>1, GotoJob DEF PC
    <3>5. JobJournal(job[w])'
      BY <3>4 DEF JobJournal, Applying
    <3>6. \A v \in Worker : JobJournal(job[v])'
      BY <3>1, <3>4, <3>5, OthersKnowledge
    <3> QED BY <3>3, <3>6 DEF Journal
  <2>3. CASE ~ready
    <3>1. Goto(w, "abort") /\ UNCHANGED journalVars
      BY <1>18, <2>3 DEF Complete
    <3> QED BY <3>1, GotoCalm DEF PC, Applying
  <2> QED BY <2>2, <2>3
<1>19. ASSUME NEW w \in Worker, RecordFailure(w) PROVE Journal'
  <2> DEFINE k == job[w].review
             mine == Owns(w, k) /\ visible = [review |-> k, status |-> "applying"]
  <2>1. k \in Review /\ Goto(w, "release")
    BY <1>19, JobParts DEF RecordFailure, At, Fits
  <2>2. CASE mine
    <3>1. /\ decision[k] = "approve" /\ decisionStatus[k] = "applying"
          /\ decisionStatus' = [decisionStatus EXCEPT ![k] = "failed"]
          /\ UNCHANGED <<last, held, decision, phase, applied, recorded,
                       reopened>>
      BY <1>19, <2>2 DEF RecordFailure, Owns
    <3>2. ASSUME NEW r \in Review PROVE RowJournal(r)'
      BY <1>a, <2>1, <3>1 DEF Journal, RowJournal, Inferred
    <3>3. /\ \A v \in Worker : v # w => job'[v] = job[v]
          /\ job'[w].pc = "release"
      BY <2>1, GotoJob DEF PC
    <3>4. JobJournal(job[w])'
      BY <3>3 DEF JobJournal, Applying
    <3>5. \A v \in Worker : JobJournal(job[v])'
      BY <3>1, <3>3, <3>4, OthersKnowledge
    <3> QED BY <3>2, <3>5 DEF Journal
  <2>3. CASE ~mine
    <3>1. UNCHANGED journalVars
      BY <1>19, <2>3 DEF RecordFailure
    <3> QED BY <2>1, <3>1, GotoCalm DEF PC, Applying
  <2> QED BY <2>2, <2>3
<1>20. ASSUME NEW w \in Worker, LoseSession(w) PROVE Journal'
  BY <1>1, <1>20 DEF LoseSession
<1>21. CASE UNCHANGED vars
  BY <1>1, <1>21 DEF vars
<1> QED
  BY <1>2, <1>3, <1>4, <1>5, <1>6, <1>7, <1>8, <1>9, <1>10, <1>11, <1>12, <1>13,
     <1>14, <1>15, <1>16, <1>17, <1>18, <1>19, <1>20, <1>21, <1>22
  DEF Next, Step, ReviewStep, DecisionStep, Disturb, Quiet

Invariant == Typed /\ Journal

LEMMA InvariantHolds == Spec => []Invariant
<1>1. Init => Invariant
  BY TypedInit, JournalInit DEF Invariant
<1>2. Invariant /\ [Next]_vars => Invariant'
  BY TypedNext, JournalNext DEF Invariant
<1> QED BY <1>1, <1>2, PTL DEF Spec

(* Neither a retry, nor a crash, nor a second worker, even one whose lock  *)
(* was lost, applies what a held review proposes before the household      *)
(* approved that review; only a recovery may whose own gate let it pass,   *)
(* and it records no inferred values.                                      *)
THEOREM MoneyNeedsApproval == Spec => []HeldMoneyNeedsApproval
<1>1. Invariant => HeldMoneyNeedsApproval
  <2> SUFFICES ASSUME Invariant, NEW r \in Review, held[r]
               PROVE  /\ recorded[r] > 0 => decision[r] = "approve"
                      /\ r \in applied => decision[r] = "approve" \/ r \in reopened
    BY DEF HeldMoneyNeedsApproval
  <2>1. RowJournal(r)
    BY DEF Invariant, Journal
  <2>2. recorded[r] > 0 => phase[r] \in Inferred
    BY <2>1 DEF RowJournal
  <2>3. phase[r] \in Inferred => decision[r] # "none" /\ decision[r] # "reject"
    BY <2>1 DEF RowJournal, Inferred
  <2>4. decision[r] \in {"none", "approve", "reject"}
    BY DEF Invariant, Typed, TypeOK, DecisionTypeOK
  <2> QED BY <2>1, <2>2, <2>3, <2>4 DEF RowJournal
<1> QED BY <1>1, InvariantHolds, PTL

(* An approval records its inferred values once, however often it is       *)
(* interrupted and resumed, and is reported applied only after that.       *)
THEOREM AppliedOnce == Spec => []ApprovalAppliedOnce
<1>1. Invariant => ApprovalAppliedOnce
  BY DEF Invariant, Journal, RowJournal, Inferred, ApprovalAppliedOnce
<1> QED BY <1>1, InvariantHolds, PTL

-----------------------------------------------------------------------------
(* The pipeline keeps the promise of ReviewDecision: every step of it is   *)
(* one step of the promise, or none.                                       *)

outcomeVars == <<last, held, decision, decisionStatus, recorded>>

LEMMA NoOutcome ==
  ASSUME UNCHANGED outcomeVars, doc' = "deleted" <=> doc = "deleted"
  PROVE  UNCHANGED Promise!absVars
  BY DEF outcomeVars, Promise!absVars, OutcomeOf

LEMMA PromiseInit == Init => Promise!AbsInit
  BY DEF Init, Promise!AbsInit, OutcomeOf, Review

(* A step that moves one review from an outcome to the next.               *)
LEMMA OneOutcome ==
  ASSUME NEW k \in Review, \A r \in Review : r # k => OutcomeOf(r)' = OutcomeOf(r)
  PROVE  [r \in Review |-> OutcomeOf(r)]' =
           [[r \in Review |-> OutcomeOf(r)] EXCEPT ![k] = OutcomeOf(k)']
  OBVIOUS

LEMMA PromiseNext ==
  Invariant /\ [Next]_vars => [Promise!AbsNext]_(Promise!absVars)
<1> SUFFICES ASSUME Invariant, [Next]_vars
             PROVE  [Promise!AbsNext]_(Promise!absVars)
  OBVIOUS
<1> DEFINE Out == [r \in Review |-> OutcomeOf(r)]
           Promised == [Promise!AbsNext]_(Promise!absVars)
<1> USE DEF docVars, dataVars, rowVars, decideVars, lockVars, ledgerVars
<1>a. /\ last \in 0 .. MaxReview /\ held \in [Review -> BOOLEAN]
      /\ decision \in [Review -> {"none", "approve", "reject"}]
      /\ decisionStatus \in [Review -> {"none", "applying", "failed", "applied",
                                        "rejected"}]
      /\ recorded \in [Review -> Nat]
  BY DEF Invariant, Typed, TypeOK, RowTypeOK, DecisionTypeOK, LedgerTypeOK
<1>b. Typed /\ \A r \in Review : RowJournal(r)
  BY DEF Invariant, Journal
<1>1. CASE UNCHANGED outcomeVars /\ (doc' = "deleted" <=> doc = "deleted")
  BY <1>1, NoOutcome
<1>2. CASE Ingest
  BY <1>1, <1>2 DEF Ingest, outcomeVars
<1>3. CASE Delete
  <2>1. Out' = [r \in Review |-> "deleted"] /\ UNCHANGED recorded
    BY <1>3 DEF Delete, OutcomeOf
  <2> QED BY <2>1 DEF Promise!AbsNext, Promise!Discard
<1>4. CASE LoseFile \/ OtherExport
  BY <1>1, <1>4 DEF LoseFile, OtherExport, outcomeVars
<1>5. ASSUME NEW w \in Worker, NEW isHeld \in BOOLEAN, NEW c \in BOOLEAN,
             PersistReview(w, isHeld, c)
      PROVE  Promised
  <2>0. PICK k \in Review : k = last + 1
    BY <1>a, <1>5 DEF PersistReview, Review
  <2>1. /\ last' = k /\ k = last + 1 /\ Exists /\ doc' # "deleted"
        /\ held' = [held EXCEPT ![k] = isHeld]
        /\ recorded' = IF isHeld THEN recorded ELSE [recorded EXCEPT ![k] = @ + 1]
        /\ UNCHANGED <<decision, decisionStatus>>
    BY <1>a, <1>5, <2>0 DEF PersistReview, InsertsValues
  <2>2. doc # "deleted"
    BY <2>1 DEF Exists
  <2>3. OutcomeOf(k) = "absent" /\ decision[k] = "none" /\ recorded[k] = 0
    BY <1>a, <1>b, <2>1, <2>2 DEF OutcomeOf, RowJournal, Review
  <2>4. OutcomeOf(k)' = IF isHeld THEN "held" ELSE "trusted"
    BY <1>a, <2>1, <2>3 DEF OutcomeOf
  <2>5. ASSUME NEW r \in Review, r # k PROVE OutcomeOf(r)' = OutcomeOf(r)
    BY <1>a, <2>1, <2>2, <2>5 DEF OutcomeOf, Review
  <2>6. Out' = [Out EXCEPT ![k] = OutcomeOf(k)']
    BY <2>1, <2>5, OneOutcome
  <2>7. CASE isHeld
    <3>1. Promise!Hold(k)
      BY <2>1, <2>3, <2>4, <2>6, <2>7 DEF Promise!Hold, Promise!Move
    <3> QED BY <2>1, <3>1 DEF Promise!AbsNext
  <2>8. CASE ~isHeld
    <3>1. recorded' = [recorded EXCEPT ![k] = 1]
      BY <1>a, <2>1, <2>3, <2>8
    <3>2. Promise!Trust(k)
      BY <2>1, <2>3, <2>4, <2>6, <2>8, <3>1 DEF Promise!Trust
    <3> QED BY <2>1, <3>2 DEF Promise!AbsNext
  <2> QED BY <2>7, <2>8
<1>6. ASSUME NEW w \in Worker, Reject(w) PROVE Promised
  <2>1. PICK k \in Review : k = job[w].review /\ k <= last
    BY <1>6, <1>b, JobParts DEF Reject, At, Fits
  <2>2. /\ Exists /\ decision[k] = "none" /\ held[k]
        /\ decision' = [decision EXCEPT ![k] = "reject"]
        /\ decisionStatus' = [decisionStatus EXCEPT ![k] = "rejected"]
        /\ UNCHANGED <<doc, last, held, recorded>>
    BY <1>6, <2>1 DEF Reject, Claimable
  <2>3. OutcomeOf(k) = "held" /\ OutcomeOf(k)' = "rejected"
    BY <1>a, <2>1, <2>2 DEF OutcomeOf, Exists, Review
  <2>4. ASSUME NEW r \in Review, r # k PROVE OutcomeOf(r)' = OutcomeOf(r)
    BY <1>a, <2>1, <2>2, <2>4 DEF OutcomeOf
  <2>5. Out' = [Out EXCEPT ![k] = "rejected"]
    BY <2>1, <2>3, <2>4, OneOutcome
  <2>6. Promise!Reject(k)
    BY <2>1, <2>2, <2>3, <2>5 DEF Promise!Reject, Promise!Move
  <2> QED BY <2>1, <2>6 DEF Promise!AbsNext
<1>7. ASSUME NEW w \in Worker, ClaimApproval(w) PROVE Promised
  <2>1. PICK k \in Review : k = job[w].review /\ k <= last
    BY <1>7, <1>b, JobParts DEF ClaimApproval, At, Fits
  <2>2. /\ Exists /\ held[k]
        /\ \/ decision[k] = "none"
           \/ decision[k] = "approve" /\ decisionStatus[k] # "applied"
        /\ decision' = [decision EXCEPT ![k] = "approve"]
        /\ decisionStatus' = [decisionStatus EXCEPT ![k] = "applying"]
        /\ UNCHANGED <<doc, last, held, recorded>>
    BY <1>7, <2>1 DEF ClaimApproval, Claimable
  <2>3. /\ OutcomeOf(k) = IF decision[k] = "none" THEN "held" ELSE "approving"
        /\ OutcomeOf(k)' = "approving"
    BY <1>a, <2>1, <2>2 DEF OutcomeOf, Exists, Review
  <2>4. ASSUME NEW r \in Review, r # k PROVE OutcomeOf(r)' = OutcomeOf(r)
    BY <1>a, <2>1, <2>2, <2>4 DEF OutcomeOf
  <2>5. Out' = [Out EXCEPT ![k] = "approving"]
    BY <2>1, <2>3, <2>4, OneOutcome
  <2>6. CASE decision[k] = "none"
    <3>1. Promise!Accept(k)
      BY <2>1, <2>2, <2>3, <2>5, <2>6 DEF Promise!Accept, Promise!Move
    <3> QED BY <2>1, <3>1 DEF Promise!AbsNext
  <2>7. CASE decision[k] # "none"
    <3>1. Out' = Out
      BY <2>1, <2>3, <2>5, <2>7
    <3> QED BY <2>2, <3>1 DEF Promise!absVars
  <2> QED BY <2>6, <2>7
<1>8. ASSUME NEW w \in Worker, RecordInferences(w) PROVE Promised
  <2>1. PICK k \in Review : k = job[w].review /\ k <= last
    BY <1>8, <1>b, JobParts DEF RecordInferences, At, Fits
  <2> DEFINE ready == Owns(w, k) /\ phase[k] = "outputs_applied"
  <2>2. CASE ready
    <3>1. /\ recorded' = [recorded EXCEPT ![k] = @ + 1]
          /\ UNCHANGED <<doc, last, held, decision, decisionStatus>>
      BY <1>8, <2>1, <2>2 DEF RecordInferences
    <3>2. recorded[k] = 0 /\ held[k]
      BY <1>b, <2>1, <2>2 DEF RowJournal, Inferred, Owns
    <3>3. OutcomeOf(k) = "approving"
      BY <1>a, <2>1, <2>2, <3>2 DEF OutcomeOf, Owns, Exists, Review
    <3>4. Out' = Out /\ recorded' = [recorded EXCEPT ![k] = 1]
      BY <1>a, <2>1, <3>1, <3>2 DEF OutcomeOf
    <3>5. Promise!Record(k)
      BY <2>1, <3>2, <3>3, <3>4 DEF Promise!Record
    <3> QED BY <2>1, <3>5 DEF Promise!AbsNext
  <2>3. CASE ~ready
    BY <1>1, <1>8, <2>1, <2>3 DEF RecordInferences, outcomeVars
  <2> QED BY <2>2, <2>3
<1>9. ASSUME NEW w \in Worker, Complete(w) PROVE Promised
  <2>1. PICK k \in Review : k = job[w].review /\ k <= last
    BY <1>9, <1>b, JobParts DEF Complete, At, Fits
  <2> DEFINE ready == /\ Owns(w, k) /\ phase[k] = "inferences_applied"
                      /\ visible = [review |-> k, status |-> "applying"]
  <2>2. CASE ready
    <3>1. /\ decisionStatus' = [decisionStatus EXCEPT ![k] = "applied"]
          /\ doc' = "parsed" /\ UNCHANGED <<last, held, decision, recorded>>
      BY <1>9, <2>1, <2>2 DEF Complete
    <3>2. recorded[k] = 1 /\ held[k] /\ doc # "deleted"
      BY <1>b, <2>1, <2>2 DEF RowJournal, Inferred, Owns, Exists
    <3>3. OutcomeOf(k) = "approving" /\ OutcomeOf(k)' = "applied"
      BY <1>a, <2>1, <2>2, <3>1, <3>2 DEF OutcomeOf, Owns, Review
    <3>4. ASSUME NEW r \in Review, r # k PROVE OutcomeOf(r)' = OutcomeOf(r)
      BY <1>a, <2>1, <3>1, <3>2, <3>4 DEF OutcomeOf
    <3>5. Out' = [Out EXCEPT ![k] = "applied"]
      BY <2>1, <3>3, <3>4, OneOutcome
    <3>6. Promise!Finish(k)
      BY <2>1, <3>1, <3>2, <3>3, <3>5 DEF Promise!Finish, Promise!Move
    <3> QED BY <2>1, <3>6 DEF Promise!AbsNext
  <2>3. CASE ~ready
    BY <1>1, <1>9, <2>1, <2>3 DEF Complete, outcomeVars
  <2> QED BY <2>2, <2>3
<1>10. ASSUME NEW w \in Worker, RecordFailure(w) PROVE Promised
  <2>1. PICK k \in Review : k = job[w].review
    BY <1>10, <1>b, JobParts DEF RecordFailure, At, Fits
  <2> DEFINE mine == Owns(w, k) /\ visible = [review |-> k, status |-> "applying"]
  <2>2. CASE mine
    <3>1. /\ decisionStatus' = [decisionStatus EXCEPT ![k] = "failed"]
          /\ decisionStatus[k] # "applied"
          /\ UNCHANGED <<doc, last, held, decision, recorded>>
      BY <1>10, <2>1, <2>2 DEF RecordFailure, Owns
    <3>2. \A r \in Review : OutcomeOf(r)' = OutcomeOf(r)
      BY <1>a, <2>1, <3>1 DEF OutcomeOf
    <3> QED BY <3>1, <3>2 DEF Promise!absVars
  <2>3. CASE ~mine
    BY <1>1, <1>10, <2>1, <2>3 DEF RecordFailure, outcomeVars
  <2> QED BY <2>2, <2>3
<1>11. ASSUME NEW w \in Worker, SettleUnchanged(w) \/ MarkReviewFailed(w)
       PROVE  Promised
  BY <1>1, <1>11 DEF SettleUnchanged, MarkReviewFailed, Exists, outcomeVars
<1>12. ASSUME NEW w \in Worker,
              \/ \E sameSession \in BOOLEAN : TryLock(w, sameSession)
              \/ Release(w) \/ OpenFile(w) \/ BuildProposal(w)
              \/ \E isHeld, rebound \in BOOLEAN : Recover(w, isHeld, rebound)
              \/ BindProposal(w) \/ PublishSummary(w) \/ Validate(w)
              \/ ClaimRefused(w) \/ RecordOutputs(w) \/ ApplyImports(w)
              \/ RaiseGone(w) \/ NoticeLostSession(w) \/ Disturb(w)
       PROVE  UNCHANGED outcomeVars /\ doc' = doc
  BY <1>12 DEF TryLock, Release, OpenFile, Recover, BuildProposal, BindProposal,
     PublishSummary, Validate, ClaimRefused, RecordOutputs, ApplyImports,
     RaiseGone, NoticeLostSession, Disturb, Raise, LeakLock, Crash, LoseSession,
     outcomeVars
<1>13. ASSUME NEW w \in Worker,
              \/ StartReview(w)
              \/ \E d \in Decisions, r \in Review : StartDecision(w, d, r)
              \/ \E retry \in BOOLEAN : ApplyOutputs(w, retry)
       PROVE  UNCHANGED outcomeVars /\ doc' = doc
  BY <1>13 DEF StartReview, StartDecision, ApplyOutputs, outcomeVars
<1>14. CASE Recycle \/ UNCHANGED vars
  BY <1>1, <1>14 DEF Recycle, vars, outcomeVars
<1> QED
  BY <1>1, <1>2, <1>3, <1>4, <1>5, <1>6, <1>7, <1>8, <1>9, <1>10, <1>11, <1>12,
     <1>13, <1>14
  DEF Next, Step, ReviewStep, DecisionStep, Outside, Quiet

(* The detailed pipeline, with its lock, phases, faults and retries, does  *)
(* what ReviewDecision promises: each review trusted, rejected or applied  *)
(* once, and its values recorded once, before it is reported applied.      *)
THEOREM KeepsPromise == Spec => DecidedOnce
<1>1. Init => Promise!AbsInit
  BY PromiseInit
<1>2. Invariant /\ [Next]_vars => [Promise!AbsNext]_(Promise!absVars)
  BY PromiseNext
<1> QED BY <1>1, <1>2, InvariantHolds, PTL DEF Spec, DecidedOnce, Promise!AbsSpec
=============================================================================
