--------------------------- MODULE BankSync_proofs ---------------------------
(***************************************************************************)
(* Theorems about BankSync, for any number of syncs, transactions and      *)
(* accounts, any page size and any history of the bank.                    *)
(***************************************************************************)
EXTENDS BankSync, TLAPS

USE ConstantsAssumption DEF ConstantsAssumption

-----------------------------------------------------------------------------
(* Pages.                                                                  *)

LEMMA AddedFacts ==
  ASSUME NEW view, NEW k, NEW page \in SUBSET Txn
  PROVE  /\ TxnsOf(Added(view, k, page)) = {u \in page : view[u] = 0 /\ At(k)[u] # 0}
         /\ \A t \in TxnsOf(Added(view, k, page)) :
              VersionIn(Added(view, k, page), t) = At(k)[t]
<1> DEFINE these == {u \in page : view[u] = 0 /\ At(k)[u] # 0}
           a == Added(view, k, page)
<1>1. a = {[txn |-> t, version |-> At(k)[t]] : t \in these}
  BY DEF Added
<1>2. TxnsOf(a) = these
  <2>1. \A c \in a : c.txn \in these
    BY <1>1
  <2>2. \A t \in these : \E c \in a : c.txn = t
    <3> TAKE t \in these
    <3>1. [txn |-> t, version |-> At(k)[t]] \in a
      BY <1>1
    <3> QED BY <3>1
  <2> QED BY <2>1, <2>2 DEF TxnsOf
<1>3. ASSUME NEW t \in these
      PROVE  VersionIn(a, t) = At(k)[t]
  <2>1. [txn |-> t, version |-> At(k)[t]] \in a
    BY <1>1
  <2>2. \A c \in a : c.txn = t => c.version = At(k)[t]
    BY <1>1
  <2> QED BY <2>1, <2>2 DEF VersionIn
<1> QED BY <1>2, <1>3

LEMMA ModifiedFacts ==
  ASSUME NEW view, NEW k, NEW page \in SUBSET Txn
  PROVE  /\ TxnsOf(Modified(view, k, page)) = {u \in page : view[u] # 0 /\ At(k)[u] # 0}
         /\ \A t \in TxnsOf(Modified(view, k, page)) :
              VersionIn(Modified(view, k, page), t) = At(k)[t]
<1> DEFINE these == {u \in page : view[u] # 0 /\ At(k)[u] # 0}
           a == Modified(view, k, page)
<1>1. a = {[txn |-> t, version |-> At(k)[t]] : t \in these}
  BY DEF Modified
<1>2. TxnsOf(a) = these
  <2>1. \A c \in a : c.txn \in these
    BY <1>1
  <2>2. \A t \in these : \E c \in a : c.txn = t
    <3> TAKE t \in these
    <3>1. [txn |-> t, version |-> At(k)[t]] \in a
      BY <1>1
    <3> QED BY <3>1
  <2> QED BY <2>1, <2>2 DEF TxnsOf
<1>3. ASSUME NEW t \in these
      PROVE  VersionIn(a, t) = At(k)[t]
  <2>1. [txn |-> t, version |-> At(k)[t]] \in a
    BY <1>1
  <2>2. \A c \in a : c.txn = t => c.version = At(k)[t]
    BY <1>1
  <2> QED BY <2>1, <2>2 DEF VersionIn
<1> QED BY <1>2, <1>3

(* A page read is added to what was read before.                           *)
LEMMA PagesAddUp ==
  ASSUME NEW view, NEW k, NEW p \in SUBSET Txn, NEW q \in SUBSET Txn
  PROVE  /\ Added(view, k, p \cup q) = Added(view, k, p) \cup Added(view, k, q)
         /\ Modified(view, k, p \cup q) = Modified(view, k, p) \cup Modified(view, k, q)
         /\ Removed(k, p \cup q) = Removed(k, p) \cup Removed(k, q)
BY DEF Added, Modified, Removed

LEMMA NoPage ==
  ASSUME NEW view, NEW k
  PROVE  Added(view, k, {}) = {} /\ Modified(view, k, {}) = {} /\ Removed(k, {}) = {}
BY DEF Added, Modified, Removed

LEMMA ChangesType ==
  ASSUME NEW view \in View, NEW k, At(k) \in View, NEW page \in SUBSET Txn
  PROVE  /\ Added(view, k, page) \in SUBSET Change
         /\ Modified(view, k, page) \in SUBSET Change
         /\ Removed(k, page) \in SUBSET Txn
<1>1. \A t \in page : At(k)[t] # 0 => At(k)[t] \in 1..MaxVersion
  BY DEF View
<1> QED BY <1>1 DEF Added, Modified, Removed, Change

-----------------------------------------------------------------------------
(* The inductive invariant.                                                *)

(* Nothing is later than the bank's present.                               *)
Moments ==
    /\ cursor <= Now /\ accountsAt <= Now
    /\ \A s \in Syncer : run[s].base <= Now /\ run[s].target <= Now /\ run[s].seen <= Now

(* The lock belongs to a sync at work; whoever works without it has lost   *)
(* it, or did when the lock was last taken.                                *)
Locked ==
    /\ \A s \in Syncer : Holds(s) => pc[s] \in Working
    /\ \A s \in Syncer : pc[s] \in Working => Holds(s) \/ s \in lost

Before == {"balances", "snapshot", "pages", "write"}
After == {"dedupe", "marker"}

(* Under the lock, what was read of the item is still what is committed.   *)
Fresh ==
    \A s \in Syncer : Holds(s) /\ pc[s] \in Before =>
      run[s].base = cursor /\ run[s].windows = windows

(* What a sync has fetched are the differences between its two moments.    *)
Fetched(s) ==
    /\ run[s].fetched \subseteq Differing(At(run[s].base), run[s].target)
    /\ run[s].added = Added(At(run[s].base), run[s].target, run[s].fetched)
    /\ run[s].modified = Modified(At(run[s].base), run[s].target, run[s].fetched)
    /\ run[s].removed = Removed(run[s].target, run[s].fetched)
    /\ Begun(s) \/ pc[s] = "write" => run[s].base <= run[s].target
    /\ pc[s] = "write" => run[s].fetched = Differing(At(run[s].base), run[s].target)
Buffers == \A s \in Syncer : pc[s] \in Before => Fetched(s)

(* A sync that reconciles still has every account it owes a scan.          *)
Reconciling ==
    \A s \in Syncer : Holds(s) /\ pc[s] \in After =>
      \A t \in unscanned : AccountOf[t] \in run[s].windows

(* Unless a lock was lost, a snapshot in hand is not older than the last.  *)
Snapshots ==
    \A s \in Syncer : pc[s] = "snapshot" /\ lost = {} => accountsAt <= run[s].seen

IInv ==
    /\ TypeOK /\ Moments /\ Locked /\ Fresh /\ Buffers /\ Reconciling /\ Snapshots
    /\ ShowsCursor /\ ScanIsOwed /\ HealthyOwesNothing
-----------------------------------------------------------------------------
(* The initial states, and what types give.                                *)

LEMMA Shapes ==
  ASSUME TypeOK
  PROVE  /\ Now \in Nat /\ Now \in 1..MaxChanges
         /\ \A k \in 0..Now : At(k) \in View
         /\ \A k \in 1..Now : log[k] \in BankState /\ At(k) = log[k].txns
         /\ Bank \in BankState /\ At(Now) = Bank.txns
         /\ \A s \in Syncer :
              /\ run[s] \in RunType
              /\ run[s].base \in Nat /\ run[s].target \in Nat /\ run[s].seen \in Nat
              /\ run[s].pages \in Nat /\ run[s].restarts \in Nat
         /\ cursor \in Nat /\ accountsAt \in Nat
<1>1. log \in Seq(BankState) /\ Len(log) \in 1..MaxChanges
  BY DEF TypeOK
<1>2. Now \in Nat /\ Now \in 1..MaxChanges
  BY <1>1 DEF Now
<1>3. \A k \in 1..Now : log[k] \in BankState /\ At(k) = log[k].txns
  BY <1>1 DEF Now, At
<1>4. NoTxns \in View
  BY DEF NoTxns, View
<1>5. \A k \in 0..Now : At(k) \in View
  <2> TAKE k \in 0..Now
  <2>1. CASE k = 0
    BY <2>1, <1>4 DEF At
  <2>2. CASE k # 0
    <3>1. k \in 1..Now
      BY <2>2, <1>2
    <3> QED BY <3>1, <1>3 DEF BankState
  <2> QED BY <2>1, <2>2
<1>6. Bank \in BankState /\ At(Now) = Bank.txns
  BY <1>2, <1>3 DEF Bank
<1>7. \A s \in Syncer :
        /\ run[s] \in RunType
        /\ run[s].base \in Nat /\ run[s].target \in Nat /\ run[s].seen \in Nat
        /\ run[s].pages \in Nat /\ run[s].restarts \in Nat
  <2> TAKE s \in Syncer
  <2>1. run[s] \in RunType
    BY DEF TypeOK
  <2> QED BY <2>1 DEF RunType
<1>8. cursor \in Nat /\ accountsAt \in Nat
  BY DEF TypeOK
<1> QED BY <1>2, <1>3, <1>5, <1>6, <1>7, <1>8

(* While the bank's log stays, what a sync has fetched is as right as      *)
(* before, unless it goes on to write.                                     *)
LEMMA FetchedStays ==
  ASSUME NEW s \in Syncer, Fetched(s), log' = log,
         run'[s].base = run[s].base, run'[s].target = run[s].target,
         run'[s].fetched = run[s].fetched, run'[s].added = run[s].added,
         run'[s].modified = run[s].modified, run'[s].removed = run[s].removed,
         pc'[s] = pc[s] \/ pc'[s] # "write"
  PROVE  Fetched(s)'
<1>1. /\ At(run[s].base)' = At(run[s].base) /\ At(run[s].target)' = At(run[s].target)
  BY DEF At
<1>2. /\ Differing(At(run[s].base), run[s].target)' = Differing(At(run[s].base), run[s].target)
      /\ Added(At(run[s].base), run[s].target, run[s].fetched)'
           = Added(At(run[s].base), run[s].target, run[s].fetched)
      /\ Modified(At(run[s].base), run[s].target, run[s].fetched)'
           = Modified(At(run[s].base), run[s].target, run[s].fetched)
      /\ Removed(run[s].target, run[s].fetched)' = Removed(run[s].target, run[s].fetched)
  BY <1>1 DEF Differing, Added, Modified, Removed
<1>3. Begun(s)' <=> Begun(s)
  BY DEF Begun
<1> QED BY <1>2, <1>3 DEF Fetched

LEMMA FetchedBecomes ==
  ASSUME NEW s \in Syncer, NEW q, run'[s] = q, log' = log,
         q.fetched \subseteq Differing(At(q.base), q.target),
         q.added = Added(At(q.base), q.target, q.fetched),
         q.modified = Modified(At(q.base), q.target, q.fetched),
         q.removed = Removed(q.target, q.fetched),
         q.base <= q.target,
         pc'[s] = "write" => q.fetched = Differing(At(q.base), q.target)
  PROVE  Fetched(s)'
<1>1. /\ At(run[s].base)' = At(q.base) /\ At(run[s].target)' = At(q.target)
  BY DEF At
<1>2. /\ Differing(At(run[s].base), run[s].target)' = Differing(At(q.base), q.target)
      /\ Added(At(run[s].base), run[s].target, run[s].fetched)'
           = Added(At(q.base), q.target, q.fetched)
      /\ Modified(At(run[s].base), run[s].target, run[s].fetched)'
           = Modified(At(q.base), q.target, q.fetched)
      /\ Removed(run[s].target, run[s].fetched)' = Removed(q.target, q.fetched)
  BY <1>1 DEF Differing, Added, Modified, Removed
<1> QED BY <1>2 DEF Fetched, Begun

LEMMA BuffersStay ==
  ASSUME Buffers, UNCHANGED <<log, run, pc>>
  PROVE  Buffers'
<1> SUFFICES ASSUME NEW s \in Syncer, pc[s] \in Before PROVE Fetched(s)'
  BY DEF Buffers
<1>1. Fetched(s)
  BY DEF Buffers
<1> QED BY <1>1, FetchedStays

LEMMA NoRunType == NoRun \in RunType
BY DEF NoRun, RunType

LEMMA InitOK == Init => IInv
<1> SUFFICES ASSUME Init PROVE IInv
  OBVIOUS
<1>0. PICK first \in BankState : log = <<first>>
  BY DEF Init
<1>1. log \in Seq(BankState) /\ Len(log) = 1 /\ Now = 1
  BY <1>0 DEF Now
<1>2. TypeOK
  <2>1. Len(log) \in 1..MaxChanges
    BY <1>1
  <2>2. rows \in View
    BY DEF Init, View, NoTxns
  <2>3. pc \in [Syncer -> PC] /\ run \in [Syncer -> RunType]
    BY NoRunType DEF Init, PC
  <2>4. 0 \in 0..MaxFaults /\ 0 \in 0..MaxChanges
    OBVIOUS
  <2>5. log \in Seq(BankState) /\ Len(log) \in 1..MaxChanges
    BY <1>1, <2>1
  <2> QED BY <2>2, <2>3, <2>4, <2>5 DEF Init, TypeOK
<1>3. Moments /\ Locked /\ Fresh /\ Reconciling /\ Snapshots
  BY <1>1 DEF Init, Moments, Locked, Fresh, Reconciling, Snapshots, NoRun, Holds, Working, After, Before
<1>4. Buffers
  BY DEF Init, Buffers, Before
<1>5. ShowsCursor /\ ScanIsOwed /\ HealthyOwesNothing
  BY DEF Init, ShowsCursor, At, ScanIsOwed, HealthyOwesNothing
<1> QED BY <1>2, <1>3, <1>4, <1>5 DEF IInv
-----------------------------------------------------------------------------
(* Types.                                                                  *)

LEMMA FaultType ==
  ASSUME TypeOK, NEW kind, Fault(kind)
  PROVE  faults' \in 0..MaxFaults
BY DEF TypeOK, Fault

LEMMA TypeLoad ==
  ASSUME TypeOK, NEW s \in Syncer, LoadItem(s) \/ SkipBusy(s) \/ Claim(s)
  PROVE  TypeOK'
<1>1. [NoRun EXCEPT !.base = cursor, !.windows = windows] \in RunType
  BY NoRunType DEF TypeOK, RunType
<1> QED BY <1>1, NoRunType
        DEF TypeOK, LoadItem, SkipBusy, Claim, Goto, PC, Working, itemVars, accountVars,
            ledgerVars, lockVars

LEMMA TypeAbandon ==
  ASSUME TypeOK, NEW s \in Syncer, Abandon(s)
  PROVE  /\ holder' \in Syncer \cup {NoSyncer}
         /\ pc' \in [Syncer -> PC]
         /\ run' \in [Syncer -> RunType]
BY NoRunType DEF TypeOK, Abandon, Released, Goto, PC

LEMMA TypeEnds ==
  ASSUME TypeOK, NEW s \in Syncer,
         \/ ClaimRemoved(s) \/ GiveUpPages(s) \/ Refused(s) \/ ProviderFails(s)
         \/ DatabaseFails(s) \/ SessionGone(s)
  PROVE  TypeOK'
<1>1. Abandon(s)
  BY DEF ClaimRemoved, GiveUpPages, Refused, ProviderFails, DatabaseFails, SessionGone
<1>2. faults' \in 0..MaxFaults
  BY DEF ClaimRemoved, GiveUpPages, Refused, ProviderFails, DatabaseFails, SessionGone, Fault, TypeOK
<1>3. UNCHANGED <<log, linked, itemVars, accountVars, ledgerVars, lost, removing>>
  BY DEF ClaimRemoved, GiveUpPages, Refused, ProviderFails, DatabaseFails, SessionGone
<1> QED BY <1>1, <1>2, <1>3, TypeAbandon DEF TypeOK, itemVars, accountVars, ledgerVars

LEMMA TypeQuit ==
  ASSUME TypeOK, NEW s \in Syncer,
         LoseSession(s) \/ RecordError(s) \/ Unrecorded(s) \/ Crash(s)
  PROVE  TypeOK'
<1>1. CASE LoseSession(s)
  <2>1. faults' \in 0..MaxFaults
    BY <1>1, FaultType DEF LoseSession
  <2> QED BY <1>1, <2>1 DEF TypeOK, LoseSession, itemVars, accountVars, ledgerVars
<1>2. CASE RecordError(s)
  BY <1>2 DEF TypeOK, RecordError, Goto, PC, accountVars, ledgerVars, lockVars
<1>3. CASE Unrecorded(s)
  <2>1. faults' \in 0..MaxFaults
    BY <1>3, FaultType DEF Unrecorded
  <2> QED BY <1>3, <2>1 DEF TypeOK, Unrecorded, Goto, PC, accountVars, ledgerVars, lockVars
<1>4. CASE Crash(s)
  <2>1. faults' \in 0..MaxFaults
    BY <1>4, FaultType DEF Crash
  <2> QED BY <1>4, <2>1, NoRunType
          DEF TypeOK, Crash, Released, Goto, PC, accountVars, ledgerVars
<1> QED BY <1>1, <1>2, <1>3, <1>4

LEMMA TypeRemoval ==
  ASSUME TypeOK, RemoveAtBank \/ RemoveHere \/ RemoveFails
  PROVE  TypeOK'
<1>1. CASE RemoveFails
  <2>1. faults' \in 0..MaxFaults
    BY <1>1, FaultType DEF RemoveFails
  <2> QED BY <1>1, <2>1 DEF TypeOK, RemoveFails, itemVars, accountVars, ledgerVars, lockVars
<1>2. CASE RemoveAtBank
  BY <1>2 DEF TypeOK, RemoveAtBank, itemVars, accountVars, ledgerVars, lockVars
<1>3. CASE RemoveHere
  BY <1>3 DEF TypeOK, RemoveHere, ledgerVars, lockVars
<1> QED BY <1>1, <1>2, <1>3

LEMMA TypeBank ==
  ASSUME TypeOK, BankChanges
  PROVE  /\ TypeOK'
         /\ \E state \in BankState : log' = Append(log, state)
<1>1. Bank \in BankState /\ Now < MaxChanges /\ Now \in Nat
  BY Shapes DEF BankChanges
<1>2. \E state \in BankState : log' = Append(log, state)
  <2>1. CASE \E a \in Account :
               log' = Append(log, [txns |-> Bank.txns,
                                   open |-> IF a \in Bank.open THEN Bank.open \ {a}
                                                               ELSE Bank.open \cup {a}])
    BY <2>1, <1>1 DEF BankState
  <2>2. CASE \E t \in Txn, v \in 0..MaxVersion :
               log' = Append(log, [txns |-> [Bank.txns EXCEPT ![t] = v], open |-> Bank.open])
    <3>1. PICK t \in Txn, v \in 0..MaxVersion :
            log' = Append(log, [txns |-> [Bank.txns EXCEPT ![t] = v], open |-> Bank.open])
      BY <2>2
    <3>2. [Bank.txns EXCEPT ![t] = v] \in View
      BY <1>1 DEF BankState, View
    <3> QED BY <3>1, <3>2, <1>1 DEF BankState
  <2> QED BY <2>1, <2>2 DEF BankChanges
<1>3. log' \in Seq(BankState) /\ Len(log') \in 1..MaxChanges
  BY <1>1, <1>2 DEF TypeOK, Now
<1>4. UNCHANGED <<linked, itemVars, accountVars, ledgerVars, lockVars, pc, run, removing, faults>>
  BY DEF BankChanges
<1> QED BY <1>2, <1>3, <1>4 DEF TypeOK, itemVars, accountVars, ledgerVars, lockVars

LEMMA TypeAccounts ==
  ASSUME TypeOK, NEW s \in Syncer, FetchAccounts(s) \/ WriteAccounts(s)
  PROVE  TypeOK'
<1>1. run[s] \in RunType /\ Bank \in BankState /\ Now \in 0..MaxChanges
  BY Shapes
<1>2. CASE FetchAccounts(s)
  <2>1. [run[s] EXCEPT !.open = Bank.open, !.seen = Now] \in RunType
    BY <1>1 DEF RunType, BankState
  <2>2. run' = [run EXCEPT ![s] = [run[s] EXCEPT !.open = Bank.open, !.seen = Now]]
    BY <1>2 DEF FetchAccounts, TypeOK
  <2> QED BY <1>2, <2>1, <2>2
          DEF TypeOK, FetchAccounts, Goto, PC, Working, itemVars, accountVars, ledgerVars, lockVars
<1>3. CASE WriteAccounts(s)
  <2>1. run[s].open \subseteq Account /\ run[s].seen \in 0..MaxChanges
    BY <1>1 DEF RunType
  <2> QED BY <1>3, <2>1
          DEF TypeOK, WriteAccounts, Goto, PC, Working, itemVars, ledgerVars, lockVars
<1> QED BY <1>2, <1>3

LEMMA TypePages ==
  ASSUME TypeOK, Moments, NEW s \in Syncer, FetchPage(s) \/ RestartPages(s)
  PROVE  TypeOK'
<1>1. /\ run[s] \in RunType /\ Now \in 0..MaxChanges
      /\ At(run[s].base) \in View /\ At(Now) \in View
  BY Shapes DEF Moments
<1>2. CASE FetchPage(s)
  <2> DEFINE r == run[s]
             more(page) == [r EXCEPT !.target = Now,
                           !.fetched = @ \cup page,
                           !.added = @ \cup Added(At(r.base), Now, page),
                           !.modified = @ \cup Modified(At(r.base), Now, page),
                           !.removed = @ \cup Removed(Now, page),
                           !.pages = @ + 1]
  <2>1. PICK page \in SUBSET (Differing(At(r.base), Now) \ r.fetched) :
          /\ pc' = [pc EXCEPT ![s] = IF page = Differing(At(r.base), Now) \ r.fetched
                                     THEN "write" ELSE "pages"]
          /\ run' = [run EXCEPT ![s] = more(page)]
    BY <1>2 DEF FetchPage, Goto
  <2>2. page \in SUBSET Txn
    BY DEF Differing
  <2>3. /\ Added(At(r.base), Now, page) \in SUBSET Change
        /\ Modified(At(r.base), Now, page) \in SUBSET Change
        /\ Removed(Now, page) \in SUBSET Txn
    BY <1>1, <2>2, ChangesType
  <2>4. r.pages + 1 \in 0..PageLimit
    <3>1. run[s].pages < PageLimit /\ run[s].pages \in Nat
      BY <1>2, Shapes DEF FetchPage
    <3> QED BY <3>1
  <2>5. more(page) \in RunType
    BY <1>1, <2>2, <2>3, <2>4 DEF RunType
  <2>6. run' \in [Syncer -> RunType] /\ pc' \in [Syncer -> PC]
    BY <2>1, <2>5 DEF TypeOK, PC, Working
  <2> QED BY <1>2, <2>6 DEF TypeOK, FetchPage, itemVars, accountVars, ledgerVars, lockVars
<1>3. CASE RestartPages(s)
  <2> DEFINE again == [run[s] EXCEPT !.fetched = {}, !.added = {}, !.modified = {}, !.removed = {},
                   !.pages = @ + 1, !.restarts = @ + 1]
  <2>1. again \in RunType
    <3>1. /\ run[s].pages < PageLimit /\ run[s].pages \in Nat
          /\ run[s].restarts < RestartLimit /\ run[s].restarts \in Nat
      BY <1>3, Shapes DEF RestartPages
    <3>2. run[s].pages + 1 \in 0..PageLimit /\ run[s].restarts + 1 \in 0..RestartLimit
      BY <3>1
    <3> QED BY <1>1, <3>2 DEF RunType
  <2>2. run' = [run EXCEPT ![s] = again]
    BY <1>3 DEF RestartPages
  <2> QED BY <1>3, <2>1, <2>2
          DEF TypeOK, RestartPages, itemVars, accountVars, ledgerVars, lockVars
<1> QED BY <1>2, <1>3

LEMMA TypeCommit ==
  ASSUME TypeOK, NEW s \in Syncer, Commit(s) \/ CommitUnanswered(s)
  PROVE  TypeOK'
<1>1. run[s] \in RunType
  BY Shapes
<1>2. Publish(s)
  BY DEF Commit, CommitUnanswered
<1>3. rows' \in View
  <2>1. \A t \in TxnsOf(run[s].added) : VersionIn(run[s].added, t) \in 0..MaxVersion
    <3> TAKE t \in TxnsOf(run[s].added)
    <3>1. PICK c \in run[s].added : c.txn = t
      BY DEF TxnsOf
    <3>2. \A d \in run[s].added : d.version \in 1..MaxVersion
      BY <1>1 DEF RunType, Change
    <3> QED BY <3>1, <3>2 DEF VersionIn
  <2>2. \A t \in TxnsOf(run[s].modified) : VersionIn(run[s].modified, t) \in 0..MaxVersion
    <3> TAKE t \in TxnsOf(run[s].modified)
    <3>1. PICK c \in run[s].modified : c.txn = t
      BY DEF TxnsOf
    <3>2. \A d \in run[s].modified : d.version \in 1..MaxVersion
      BY <1>1 DEF RunType, Change
    <3> QED BY <3>1, <3>2 DEF VersionIn
  <2>3. rows' = Applied(run[s])
    BY <1>2 DEF Publish
  <2> QED BY <2>1, <2>2, <2>3 DEF Applied, View, TypeOK
<1>4. /\ Attributed(run[s]) \subseteq Txn
      /\ Owed(run[s]) \subseteq Account
  BY <1>1 DEF Attributed, Owed, TxnsOf, RunType, Change
<1>5. /\ cursor' \in 0..MaxChanges /\ windows' \subseteq Account
      /\ lastError' \in BOOLEAN /\ silent' \in BOOLEAN /\ unscanned' \subseteq Txn
  BY <1>1, <1>2, <1>4 DEF Publish, RunType, TypeOK
<1>6. CASE Commit(s)
  <2>1. [NoRun EXCEPT !.windows = windows'] \in RunType
    BY <1>5, NoRunType DEF RunType
  <2>2. run' \in [Syncer -> RunType]
    BY <1>6, <2>1, NoRunType DEF Commit, TypeOK
  <2>3. pc' \in [Syncer -> PC]
    BY <1>6 DEF Commit, Goto, TypeOK, PC, Working
  <2>4. holder' \in Syncer \cup {NoSyncer}
    BY <1>6 DEF Commit, TypeOK
  <2> QED BY <1>3, <1>5, <1>6, <2>2, <2>3, <2>4 DEF Commit, TypeOK, accountVars
<1>7. CASE CommitUnanswered(s)
  <2>1. faults' \in 0..MaxFaults
    BY <1>7, FaultType DEF CommitUnanswered
  <2>2. /\ run' \in [Syncer -> RunType] /\ pc' \in [Syncer -> PC]
        /\ holder' \in Syncer \cup {NoSyncer}
    BY <1>7, TypeAbandon DEF CommitUnanswered
  <2> QED BY <1>3, <1>5, <1>7, <2>1, <2>2 DEF CommitUnanswered, TypeOK, accountVars
<1> QED BY <1>6, <1>7

LEMMA TypeReconcile ==
  ASSUME TypeOK, NEW s \in Syncer, Dedupe(s) \/ ClearMarker(s)
  PROVE  TypeOK'
<1>1. run[s] \in RunType
  BY Shapes
<1>2. CASE Dedupe(s)
  <2>1. PICK a \in run[s].windows :
          /\ unscanned' = {t \in unscanned : AccountOf[t] # a}
          /\ run' = [run EXCEPT ![s] = [run[s] EXCEPT !.windows = run[s].windows \ {a}]]
    BY <1>2 DEF Dedupe, TypeOK
  <2>2. [run[s] EXCEPT !.windows = run[s].windows \ {a}] \in RunType
    BY <1>1 DEF RunType
  <2>3. run' \in [Syncer -> RunType] /\ pc' \in [Syncer -> PC] /\ unscanned' \subseteq Txn
    BY <1>2, <2>1, <2>2 DEF Dedupe, Goto, TypeOK, PC, Working
  <2> QED BY <1>2, <2>3 DEF Dedupe, TypeOK, itemVars, accountVars, lockVars
<1>3. CASE ClearMarker(s)
  <2>1. /\ windows' \subseteq Account
        /\ lastError' \in BOOLEAN /\ silent' \in BOOLEAN
    BY <1>1, <1>3 DEF ClearMarker, RunType, TypeOK
  <2>2. /\ run' \in [Syncer -> RunType] /\ pc' \in [Syncer -> PC]
        /\ holder' \in Syncer \cup {NoSyncer}
    BY <1>3, NoRunType DEF ClearMarker, Goto, TypeOK, PC, Working
  <2> QED BY <1>3, <2>1, <2>2 DEF ClearMarker, TypeOK, accountVars, ledgerVars
<1> QED BY <1>2, <1>3

LEMMA TypeStep == TypeOK /\ Moments /\ [Next]_vars => TypeOK'
<1> SUFFICES ASSUME TypeOK, Moments, [Next]_vars PROVE TypeOK'
  OBVIOUS
<1>1. CASE UNCHANGED vars
  BY <1>1 DEF TypeOK, vars, itemVars, accountVars, ledgerVars, lockVars
<1>2. CASE BankChanges
  BY <1>2, TypeBank
<1>3. CASE RemoveAtBank \/ RemoveHere \/ RemoveFails
  BY <1>3, TypeRemoval
<1>4. ASSUME NEW s \in Syncer, SyncStep(s) \/ FaultStep(s)
      PROVE  TypeOK'
  BY <1>4, TypeLoad, TypeEnds, TypeQuit, TypeAccounts, TypePages, TypeCommit, TypeReconcile
     DEF SyncStep, FaultStep
<1> QED BY <1>1, <1>2, <1>3, <1>4 DEF Next
-----------------------------------------------------------------------------
(* Steps.  Inv is what is left of IInv once types are known.               *)

Inv ==
    /\ Moments /\ Locked /\ Fresh /\ Buffers /\ Reconciling /\ Snapshots
    /\ ShowsCursor /\ ScanIsOwed /\ HealthyOwesNothing

(* A sync that stops, skips or only loads the item leaves the rest alone.  *)
LEMMA StopsOK ==
  ASSUME TypeOK, Inv, NEW s \in Syncer, NEW l \in {"idle", "loaded", "record"}, NEW r,
         pc' = [pc EXCEPT ![s] = l], run' = [run EXCEPT ![s] = r],
         r.base <= Now, r.target <= Now, r.seen <= Now,
         holder' = Released(s),
         UNCHANGED <<log, cursor, windows, accountsAt, rows, unscanned, lost>>
  PROVE  /\ Moments' /\ Locked' /\ Fresh' /\ Buffers' /\ Reconciling' /\ Snapshots'
         /\ ShowsCursor' /\ ScanIsOwed'
<1> USE DEF Inv
<1>1. /\ pc'[s] = l /\ run'[s] = r /\ holder' # s
      /\ l \notin Working /\ l \notin Before /\ l \notin After /\ l # "snapshot"
  BY DEF TypeOK, Holds, Released, Working, Before, After
<1>2. \A u \in Syncer : u # s => /\ pc'[u] = pc[u] /\ run'[u] = run[u]
                                /\ (holder' = u) = (holder = u)
  BY DEF TypeOK, Holds, Released
<1>3. Moments'
  BY <1>1, <1>2 DEF Moments, Now
<1>4. Locked'
  BY <1>1, <1>2 DEF Locked, Holds
<1>5. Fresh'
  BY <1>1, <1>2 DEF Fresh, Holds
<1>6. Buffers'
  <2> SUFFICES ASSUME NEW u \in Syncer, pc'[u] \in Before PROVE Fetched(u)'
    BY DEF Buffers
  <2>1. u # s /\ Fetched(u) /\ pc'[u] = pc[u] /\ run'[u] = run[u] /\ log' = log
    BY <1>1, <1>2 DEF Buffers
  <2> QED BY <2>1, FetchedStays
<1>7. Reconciling'
  BY <1>1, <1>2 DEF Reconciling, Holds
<1>8. Snapshots'
  BY <1>1, <1>2 DEF Snapshots
<1>9. ShowsCursor' /\ ScanIsOwed'
  BY DEF ShowsCursor, At, ScanIsOwed
<1> QED BY <1>3, <1>4, <1>5, <1>6, <1>7, <1>8, <1>9

(* An item that owes scans and looks healthy has a sync at work on it.     *)
LEMMA HealthStays ==
  ASSUME TypeOK, HealthyOwesNothing, NEW s \in Syncer, NEW l,
         pc' = [pc EXCEPT ![s] = l], windows' = windows,
         \/ lastError' /\ UNCHANGED silent
         \/ silent' /\ UNCHANGED lastError
         \/ (l \notin {"idle", "loaded"} \/ pc[s] \in {"idle", "loaded"})
            /\ UNCHANGED <<lastError, silent>>
  PROVE  HealthyOwesNothing'
BY DEF TypeOK, HealthyOwesNothing

LEMMA NoRunMoments ==
  ASSUME TypeOK
  PROVE  NoRun.base <= Now /\ NoRun.target <= Now /\ NoRun.seen <= Now
<1>1. Now \in Nat
  BY Shapes
<1> QED BY <1>1 DEF NoRun

LEMMA AbandonOK ==
  ASSUME TypeOK, Inv, NEW s \in Syncer,
         \/ ClaimRemoved(s) \/ GiveUpPages(s) \/ Refused(s) \/ ProviderFails(s)
         \/ DatabaseFails(s) \/ SessionGone(s)
  PROVE  Inv'
<1>1. /\ Abandon(s)
      /\ UNCHANGED <<log, linked, itemVars, accountVars, ledgerVars, lost, removing>>
  BY DEF ClaimRemoved, GiveUpPages, Refused, ProviderFails, DatabaseFails, SessionGone
<1>2. /\ pc' = [pc EXCEPT ![s] = "record"] /\ run' = [run EXCEPT ![s] = NoRun]
      /\ holder' = Released(s)
      /\ UNCHANGED <<log, cursor, windows, lastError, silent, accountsAt, rows, unscanned, lost>>
  BY <1>1 DEF Abandon, Goto, itemVars, accountVars, ledgerVars
<1>3. HealthyOwesNothing'
  BY <1>2, HealthStays DEF Inv
<1>4. /\ Moments' /\ Locked' /\ Fresh' /\ Buffers' /\ Reconciling' /\ Snapshots'
      /\ ShowsCursor' /\ ScanIsOwed'
  BY <1>2, NoRunMoments, StopsOK
<1> QED BY <1>3, <1>4 DEF Inv

LEMMA QuitOK ==
  ASSUME TypeOK, Inv, NEW s \in Syncer,
         LoadItem(s) \/ SkipBusy(s) \/ RecordError(s) \/ Unrecorded(s) \/ Crash(s)
  PROVE  Inv'
<1>0. /\ Now \in Nat /\ cursor \in Nat /\ cursor <= Now
      /\ run[s].base <= Now /\ run[s].target <= Now /\ run[s].seen <= Now
      /\ run = [run EXCEPT ![s] = run[s]]
  BY Shapes DEF Inv, Moments, TypeOK
<1>n. Holds(s) => pc[s] \in Working
  BY DEF Inv, Locked
<1>1. CASE LoadItem(s)
  <2> DEFINE r == [NoRun EXCEPT !.base = cursor, !.windows = windows]
  <2>1. r.base <= Now /\ r.target <= Now /\ r.seen <= Now
    BY <1>0 DEF NoRun
  <2>2. /\ pc' = [pc EXCEPT ![s] = "loaded"] /\ run' = [run EXCEPT ![s] = r]
        /\ holder' = Released(s) /\ pc[s] = "idle"
        /\ UNCHANGED <<log, cursor, windows, lastError, silent, accountsAt, rows, unscanned, lost>>
    BY <1>1, <1>n DEF LoadItem, Goto, Released, Working, itemVars, accountVars, ledgerVars, lockVars
  <2>3. HealthyOwesNothing'
    BY <2>2, HealthStays DEF Inv
  <2> HIDE DEF r
  <2>4. /\ Moments' /\ Locked' /\ Fresh' /\ Buffers' /\ Reconciling' /\ Snapshots'
        /\ ShowsCursor' /\ ScanIsOwed'
    BY <1>0, <2>1, <2>2, StopsOK
  <2> QED BY <2>3, <2>4 DEF Inv
<1>2. CASE SkipBusy(s)
  <2>2. /\ pc' = [pc EXCEPT ![s] = "idle"] /\ run' = [run EXCEPT ![s] = NoRun]
        /\ holder' = Released(s) /\ pc[s] = "loaded"
        /\ UNCHANGED <<log, cursor, windows, lastError, silent, accountsAt, rows, unscanned, lost>>
    BY <1>2, <1>n DEF SkipBusy, Goto, Released, Working, itemVars, accountVars, ledgerVars, lockVars
  <2>3. HealthyOwesNothing'
    BY <2>2, HealthStays DEF Inv
  <2>4. /\ Moments' /\ Locked' /\ Fresh' /\ Buffers' /\ Reconciling' /\ Snapshots'
        /\ ShowsCursor' /\ ScanIsOwed'
    BY <1>0, <2>2, StopsOK, NoRunMoments
  <2> QED BY <2>3, <2>4 DEF Inv
<1>3. CASE RecordError(s)
  <2>2. /\ pc' = [pc EXCEPT ![s] = "idle"] /\ run' = [run EXCEPT ![s] = run[s]]
        /\ holder' = Released(s)
        /\ UNCHANGED <<log, cursor, windows, silent, accountsAt, rows, unscanned, lost>>
    BY <1>0, <1>3, <1>n DEF RecordError, Goto, Released, Working, accountVars, ledgerVars, lockVars
  <2>3. HealthyOwesNothing'
    BY <1>3, <2>2, HealthStays DEF Inv, RecordError
  <2>4. /\ Moments' /\ Locked' /\ Fresh' /\ Buffers' /\ Reconciling' /\ Snapshots'
        /\ ShowsCursor' /\ ScanIsOwed'
    BY <1>0, <2>2, StopsOK
  <2> QED BY <2>3, <2>4 DEF Inv
<1>4. CASE Unrecorded(s)
  <2>2. /\ pc' = [pc EXCEPT ![s] = "idle"] /\ run' = [run EXCEPT ![s] = run[s]]
        /\ holder' = Released(s)
        /\ UNCHANGED <<log, cursor, windows, lastError, accountsAt, rows, unscanned, lost>>
    BY <1>0, <1>4, <1>n DEF Unrecorded, Goto, Released, Working, accountVars, ledgerVars, lockVars
  <2>3. HealthyOwesNothing'
    BY <1>4, <2>2, HealthStays DEF Inv, Unrecorded
  <2>4. /\ Moments' /\ Locked' /\ Fresh' /\ Buffers' /\ Reconciling' /\ Snapshots'
        /\ ShowsCursor' /\ ScanIsOwed'
    BY <1>0, <2>2, StopsOK
  <2> QED BY <2>3, <2>4 DEF Inv
<1>5. CASE Crash(s)
  <2>2. /\ pc' = [pc EXCEPT ![s] = "idle"] /\ run' = [run EXCEPT ![s] = NoRun]
        /\ holder' = Released(s)
        /\ UNCHANGED <<log, cursor, windows, lastError, accountsAt, rows, unscanned, lost>>
    BY <1>5 DEF Crash, Goto, accountVars, ledgerVars
  <2>3. HealthyOwesNothing'
    BY <1>5, <2>2, HealthStays DEF Inv, Crash
  <2>4. /\ Moments' /\ Locked' /\ Fresh' /\ Buffers' /\ Reconciling' /\ Snapshots'
        /\ ShowsCursor' /\ ScanIsOwed'
    BY <1>0, <2>2, StopsOK, NoRunMoments
  <2> QED BY <2>3, <2>4 DEF Inv
<1> QED BY <1>1, <1>2, <1>3, <1>4, <1>5

(* A sync at work that goes on: only its own part of the invariant is due. *)
LEMMA WorksOK ==
  ASSUME TypeOK, Inv, NEW s \in Syncer, NEW l \in Working, NEW r, pc[s] \in Working,
         pc' = [pc EXCEPT ![s] = l], run' = [run EXCEPT ![s] = r],
         r.base <= Now, r.target <= Now, r.seen <= Now,
         UNCHANGED <<log, cursor, windows, lastError, silent, rows, holder, lost>>,
         accountsAt' = accountsAt \/ (accountsAt' <= Now /\ l # "snapshot"),
         unscanned' \subseteq unscanned,
         Holds(s) /\ l \in Before => r.base = cursor /\ r.windows = windows,
         l \in Before => Fetched(s)',
         Holds(s) /\ l \in After => \A t \in unscanned' : AccountOf[t] \in r.windows,
         l = "snapshot" /\ lost = {} => accountsAt <= r.seen
  PROVE  Inv'
<1> USE DEF Inv
<1>1. pc'[s] = l /\ run'[s] = r
  BY DEF TypeOK
<1>2. \A u \in Syncer : u # s => pc'[u] = pc[u] /\ run'[u] = run[u]
  BY DEF TypeOK
<1>3. Moments'
  BY <1>1, <1>2 DEF Moments, Now
<1>4. Locked'
  BY <1>1, <1>2 DEF Locked, Holds
<1>5. Fresh'
  BY <1>1, <1>2 DEF Fresh, Holds
<1>6. Buffers'
  <2> SUFFICES ASSUME NEW u \in Syncer, pc'[u] \in Before PROVE Fetched(u)'
    BY DEF Buffers
  <2>1. CASE u = s
    BY <2>1, <1>1
  <2>2. CASE u # s
    <3>1. Fetched(u) /\ pc'[u] = pc[u] /\ run'[u] = run[u] /\ log' = log
      BY <2>2, <1>2 DEF Buffers
    <3> QED BY <3>1, FetchedStays
  <2> QED BY <2>1, <2>2
<1>7. Reconciling'
  BY <1>1, <1>2 DEF Reconciling, Holds
<1>8. Snapshots'
  <2> SUFFICES ASSUME NEW u \in Syncer, pc'[u] = "snapshot", lost = {}
               PROVE  accountsAt' <= run'[u].seen
    BY DEF Snapshots
  <2>1. CASE u = s /\ accountsAt' = accountsAt
    BY <2>1, <1>1
  <2>2. CASE u = s /\ accountsAt' # accountsAt
    BY <2>2, <1>1
  <2>3. CASE u # s
    <3>1. pc[u] \in Working
      BY <2>3, <1>2 DEF Working
    <3>2. holder = u /\ holder = s
      BY <3>1 DEF Locked, Holds
    <3> QED BY <2>3, <3>2
  <2> QED BY <2>1, <2>2, <2>3
<1>9. ShowsCursor' /\ ScanIsOwed'
  BY DEF ShowsCursor, At, ScanIsOwed
<1>10. HealthyOwesNothing'
  BY <1>1, <1>2 DEF HealthyOwesNothing, Working
<1> QED BY <1>3, <1>4, <1>5, <1>6, <1>7, <1>8, <1>9, <1>10

LEMMA AccountsOK ==
  ASSUME TypeOK, Inv, NEW s \in Syncer, FetchAccounts(s) \/ WriteAccounts(s)
  PROVE  Inv'
<1>0. /\ Now \in Nat /\ run[s] \in RunType
      /\ run[s].base <= Now /\ run[s].target <= Now /\ run[s].seen <= Now
      /\ accountsAt <= Now
      /\ pc[s] \in Before => Fetched(s)
      /\ Holds(s) /\ pc[s] \in Before => run[s].base = cursor /\ run[s].windows = windows
  BY Shapes DEF Inv, Moments, Buffers, Fresh
<1>1. CASE FetchAccounts(s)
  <2> DEFINE r == [run[s] EXCEPT !.open = Bank.open, !.seen = Now]
  <2>1. /\ pc[s] = "balances" /\ pc' = [pc EXCEPT ![s] = "snapshot"]
        /\ run' = [run EXCEPT ![s] = r]
        /\ UNCHANGED <<log, cursor, windows, lastError, silent, rows, unscanned, holder, lost, accountsAt>>
    BY <1>1 DEF FetchAccounts, Goto, TypeOK, itemVars, accountVars, ledgerVars, lockVars
  <2>2. /\ r.base = run[s].base /\ r.target = run[s].target /\ r.seen = Now
        /\ r.windows = run[s].windows /\ r.fetched = run[s].fetched /\ r.added = run[s].added
        /\ r.modified = run[s].modified /\ r.removed = run[s].removed
    BY <1>0 DEF RunType
  <2>3. run'[s] = r /\ pc'[s] = "snapshot"
    BY <2>1 DEF TypeOK
  <2> HIDE DEF r
  <2>4. Fetched(s)'
    <3>1. Fetched(s)
      BY <1>0, <2>1 DEF Before
    <3> QED BY <2>1, <2>2, <2>3, <3>1, FetchedStays
  <2>5. {"balances", "snapshot"} \subseteq Before /\ {"balances", "snapshot"} \subseteq Working
        /\ "snapshot" \notin After
    BY DEF Before, Working, After
  <2>6. /\ r.base <= Now /\ r.target <= Now /\ r.seen <= Now /\ accountsAt <= r.seen
        /\ Holds(s) => r.base = cursor /\ r.windows = windows
        /\ pc[s] \in Working
    BY <1>0, <2>1, <2>2, <2>5
  <2> QED BY <2>1, <2>4, <2>5, <2>6, WorksOK
<1>2. CASE WriteAccounts(s)
  <2>1. /\ pc[s] = "snapshot" /\ pc' = [pc EXCEPT ![s] = "pages"]
        /\ run' = run /\ run' = [run EXCEPT ![s] = run[s]]
        /\ accountsAt' <= Now
        /\ UNCHANGED <<log, cursor, windows, lastError, silent, rows, unscanned, holder, lost>>
    BY <1>0, <1>2 DEF WriteAccounts, Goto, TypeOK, itemVars, ledgerVars, lockVars
  <2>3. pc'[s] = "pages"
    BY <2>1 DEF TypeOK
  <2>4. Fetched(s)'
    <3>1. Fetched(s) /\ run'[s] = run[s]
      BY <1>0, <2>1 DEF Before
    <3> QED BY <2>1, <2>3, <3>1, FetchedStays
  <2>5. {"pages", "snapshot"} \subseteq Before /\ {"pages", "snapshot"} \subseteq Working
        /\ "pages" \notin After
    BY DEF Before, Working, After
  <2> QED BY <1>0, <2>1, <2>4, <2>5, WorksOK
<1> QED BY <1>1, <1>2

LEMMA FetchPageOK ==
  ASSUME TypeOK, Inv, NEW s \in Syncer, FetchPage(s)
  PROVE  Inv'
<1> DEFINE r == run[s]
           view == At(r.base)
           rest == Differing(view, Now) \ r.fetched
<1>0. /\ Now \in Nat /\ r \in RunType /\ r.base \in Nat
      /\ r.base <= Now /\ r.target <= Now /\ r.seen <= Now
      /\ pc[s] = "pages" /\ pc[s] \in Before /\ pc[s] \in Working /\ Fetched(s)
      /\ Holds(s) => r.base = cursor /\ r.windows = windows
  BY Shapes DEF Inv, Moments, Buffers, Fresh, FetchPage, Before, Working
<1>1. PICK page \in SUBSET rest :
        /\ pc' = [pc EXCEPT ![s] = IF page = rest THEN "write" ELSE "pages"]
        /\ run' = [run EXCEPT ![s] =
             [r EXCEPT !.target = Now,
                       !.fetched = @ \cup page,
                       !.added = @ \cup Added(view, Now, page),
                       !.modified = @ \cup Modified(view, Now, page),
                       !.removed = @ \cup Removed(Now, page),
                       !.pages = @ + 1]]
  BY DEF FetchPage, Goto
<1>2. UNCHANGED <<log, cursor, windows, lastError, silent, accountsAt, rows, unscanned, holder, lost>>
  BY DEF FetchPage, itemVars, accountVars, ledgerVars, lockVars
<1>3. /\ r.fetched \subseteq Differing(view, Now)
      /\ r.added = Added(view, Now, r.fetched)
      /\ r.modified = Modified(view, Now, r.fetched)
      /\ r.removed = Removed(Now, r.fetched)
  <2>1. CASE Begun(s)
    BY <2>1, <1>0 DEF Fetched, FetchPage, Unmoved
  <2>2. CASE ~Begun(s)
    <3>1. r.fetched = {}
      BY <2>2 DEF Begun
    <3>2. r.added = {} /\ r.modified = {} /\ r.removed = {}
      BY <1>0, <3>1, NoPage DEF Fetched
    <3> QED BY <3>1, <3>2, NoPage
  <2> QED BY <2>1, <2>2
<1> DEFINE q == [r EXCEPT !.target = Now,
                       !.fetched = @ \cup page,
                       !.added = @ \cup Added(view, Now, page),
                       !.modified = @ \cup Modified(view, Now, page),
                       !.removed = @ \cup Removed(Now, page),
                       !.pages = @ + 1]
           l == IF page = rest THEN "write" ELSE "pages"
<1>4. /\ q.base = r.base /\ q.target = Now /\ q.seen = r.seen /\ q.windows = r.windows
      /\ q.fetched = r.fetched \cup page
      /\ q.added = r.added \cup Added(view, Now, page)
      /\ q.modified = r.modified \cup Modified(view, Now, page)
      /\ q.removed = r.removed \cup Removed(Now, page)
  BY <1>0 DEF RunType
<1>5. run' = [run EXCEPT ![s] = q] /\ pc' = [pc EXCEPT ![s] = l]
      /\ run'[s] = q /\ pc'[s] = l
  BY <1>1 DEF TypeOK
<1>6. r.fetched \in SUBSET Txn /\ page \in SUBSET Txn
  BY <1>0 DEF RunType, Differing
<1>7. /\ q.fetched \subseteq Differing(view, Now)
      /\ q.added = Added(view, Now, q.fetched)
      /\ q.modified = Modified(view, Now, q.fetched)
      /\ q.removed = Removed(Now, q.fetched)
      /\ l = "write" => q.fetched = Differing(view, Now)
  <2>1. page \subseteq Differing(view, Now) /\ (l = "write" => page = Differing(view, Now) \ r.fetched)
    OBVIOUS
  <2> HIDE DEF q, l, view, rest, r
  <2>2. q.fetched \subseteq Differing(view, Now) /\ (l = "write" => q.fetched = Differing(view, Now))
    BY <1>3, <1>4, <2>1
  <2>3. /\ Added(view, Now, r.fetched \cup page) = Added(view, Now, r.fetched) \cup Added(view, Now, page)
        /\ Modified(view, Now, r.fetched \cup page) = Modified(view, Now, r.fetched) \cup Modified(view, Now, page)
        /\ Removed(Now, r.fetched \cup page) = Removed(Now, r.fetched) \cup Removed(Now, page)
    BY DEF Added, Modified, Removed
  <2> QED BY <1>3, <1>4, <2>2, <2>3
<1>8. l \in Working /\ l \in Before /\ l \notin After /\ l # "snapshot"
  BY DEF Working, Before, After
<1>9. Fetched(s)'
  <2>1. view = At(q.base) /\ q.base <= q.target
    BY <1>0, <1>4
  <2> HIDE DEF q, l, view, rest
  <2>2. /\ q.fetched \subseteq Differing(At(q.base), q.target)
        /\ q.added = Added(At(q.base), q.target, q.fetched)
        /\ q.modified = Modified(At(q.base), q.target, q.fetched)
        /\ q.removed = Removed(q.target, q.fetched)
        /\ l = "write" => q.fetched = Differing(At(q.base), q.target)
    BY <1>4, <1>7, <2>1
  <2> QED BY <2>1, <2>2, <1>2, <1>5, FetchedBecomes
<1> HIDE DEF q, l, view, rest
<1>10. /\ q.base <= Now /\ q.target <= Now /\ q.seen <= Now
       /\ Holds(s) => q.base = cursor /\ q.windows = windows
  BY <1>0, <1>4
<1> QED BY <1>0, <1>2, <1>5, <1>8, <1>9, <1>10, WorksOK

LEMMA RestartPagesOK ==
  ASSUME TypeOK, Inv, NEW s \in Syncer, RestartPages(s)
  PROVE  Inv'
<1> DEFINE r == run[s]
           q == [r EXCEPT !.fetched = {}, !.added = {}, !.modified = {}, !.removed = {},
                          !.pages = @ + 1, !.restarts = @ + 1]
<1>0. /\ r \in RunType /\ r.base <= Now /\ r.target <= Now /\ r.seen <= Now
      /\ pc[s] = "pages" /\ "pages" \in Before /\ "pages" \in Working /\ "pages" \notin After
      /\ Holds(s) => r.base = cursor /\ r.windows = windows
      /\ pc = [pc EXCEPT ![s] = "pages"]
  BY Shapes DEF Inv, Moments, Fresh, RestartPages, Before, Working, After, TypeOK
<1>1. /\ run' = [run EXCEPT ![s] = q] /\ pc' = [pc EXCEPT ![s] = "pages"]
      /\ run'[s] = q /\ pc'[s] = "pages"
      /\ UNCHANGED <<log, cursor, windows, lastError, silent, accountsAt, rows, unscanned, holder, lost>>
  BY <1>0 DEF RestartPages, TypeOK, itemVars, accountVars, ledgerVars, lockVars
<1>2. /\ q.base = r.base /\ q.target = r.target /\ q.seen = r.seen /\ q.windows = r.windows
      /\ q.fetched = {} /\ q.added = {} /\ q.modified = {} /\ q.removed = {}
  BY <1>0 DEF RunType
<1> HIDE DEF q, r
<1>3. Fetched(s)'
  BY <1>1, <1>2, NoPage DEF Fetched, Begun, Added, Modified, Removed
<1>4. /\ q.base <= Now /\ q.target <= Now /\ q.seen <= Now
      /\ Holds(s) => q.base = cursor /\ q.windows = windows
      /\ unscanned' \subseteq unscanned /\ "pages" # "snapshot" /\ pc[s] \in Working
  <2> USE DEF r
  <2> QED BY <1>0, <1>1, <1>2
<1> QED BY <1>0, <1>1, <1>3, <1>4, WorksOK

LEMMA DedupeOK ==
  ASSUME TypeOK, Inv, NEW s \in Syncer, Dedupe(s)
  PROVE  Inv'
<1> DEFINE r == run[s]
<1>0. /\ r \in RunType /\ r.base <= Now /\ r.target <= Now /\ r.seen <= Now
      /\ pc[s] = "dedupe" /\ "marker" \notin Before /\ "marker" \in Working
      /\ "dedupe" \in Working /\ "dedupe" \in After
      /\ Holds(s) => \A t \in unscanned : AccountOf[t] \in r.windows
  BY Shapes DEF Inv, Moments, Reconciling, Dedupe, Before, Working, After
<1>1. PICK a \in r.windows :
        /\ unscanned' = {t \in unscanned : AccountOf[t] # a}
        /\ run' = [run EXCEPT ![s].windows = @ \ {a}]
  BY DEF Dedupe
<1> DEFINE q == [r EXCEPT !.windows = @ \ {a}]
<1>2. /\ q.base = r.base /\ q.target = r.target /\ q.seen = r.seen
      /\ q.windows = r.windows \ {a}
  BY <1>0 DEF RunType
<1>3. /\ run' = [run EXCEPT ![s] = q] /\ pc' = [pc EXCEPT ![s] = "marker"]
      /\ UNCHANGED <<log, cursor, windows, lastError, silent, accountsAt, rows, holder, lost>>
  BY <1>1 DEF Dedupe, Goto, TypeOK, itemVars, accountVars, lockVars
<1> HIDE DEF q, r
<1>4. unscanned' \subseteq unscanned /\ \A t \in unscanned' : AccountOf[t] # a
  BY <1>1
<1> QED BY <1>0, <1>2, <1>3, <1>4, WorksOK

(* Taking the lock.                                                        *)
LEMMA ClaimOK ==
  ASSUME TypeOK, Inv, NEW s \in Syncer, Claim(s)
  PROVE  Inv'
<1> USE DEF Inv
<1> DEFINE q == [NoRun EXCEPT !.base = cursor, !.windows = windows]
<1>0. /\ q.base = cursor /\ q.target = 0 /\ q.seen = 0 /\ q.windows = windows
      /\ q.fetched = {} /\ q.added = {} /\ q.modified = {} /\ q.removed = {}
  BY DEF NoRun
<1>1. /\ pc[s] = "loaded" /\ holder = NoSyncer /\ holder' = s
      /\ lost' = {u \in lost : pc[u] \in Working}
      /\ pc' = [pc EXCEPT ![s] = "balances"] /\ run' = [run EXCEPT ![s] = q]
      /\ UNCHANGED <<log, cursor, windows, lastError, silent, accountsAt, rows, unscanned>>
  BY DEF Claim, Goto, itemVars, accountVars, ledgerVars
<1>2. pc'[s] = "balances" /\ run'[s] = q
  BY <1>1 DEF TypeOK
<1>3. \A u \in Syncer : u # s => pc'[u] = pc[u] /\ run'[u] = run[u]
  BY <1>1 DEF TypeOK
<1>4. Now \in Nat /\ cursor \in Nat /\ cursor <= Now
  BY Shapes DEF Moments
<1> HIDE DEF q
<1>5. Moments'
  BY <1>0, <1>1, <1>2, <1>3, <1>4 DEF Moments, Now
<1>6. Locked'
  BY <1>1, <1>2, <1>3 DEF Locked, Holds, Working
<1>7. Fresh'
  BY <1>0, <1>1, <1>2, <1>3 DEF Fresh, Holds
<1>8. Buffers'
  <2> SUFFICES ASSUME NEW u \in Syncer, pc'[u] \in Before PROVE Fetched(u)'
    BY DEF Buffers
  <2>1. CASE u = s
    BY <2>1, <1>0, <1>2, NoPage DEF Fetched, Begun, Added, Modified, Removed
  <2>2. CASE u # s
    <3>1. Fetched(u) /\ pc'[u] = pc[u] /\ run'[u] = run[u] /\ log' = log
      BY <2>2, <1>1, <1>3 DEF Buffers
    <3> QED BY <3>1, FetchedStays
  <2> QED BY <2>1, <2>2
<1>9. Reconciling'
  BY <1>1, <1>2, <1>3 DEF Reconciling, Holds, After
<1>10. Snapshots'
  <2> SUFFICES ASSUME NEW u \in Syncer, pc'[u] = "snapshot", lost' = {}
               PROVE  accountsAt' <= run'[u].seen
    BY DEF Snapshots
  <2>1. u # s /\ pc[u] = "snapshot"
    BY <1>2, <1>3
  <2>2. holder = u \/ u \in lost
    BY <2>1 DEF Locked, Holds, Working
  <2> QED BY <2>1, <2>2, <1>1 DEF Working
<1>11. ShowsCursor' /\ ScanIsOwed'
  BY <1>1 DEF ShowsCursor, At, ScanIsOwed
<1>12. HealthyOwesNothing'
  BY <1>2 DEF HealthyOwesNothing
<1> QED BY <1>5, <1>6, <1>7, <1>8, <1>9, <1>10, <1>11, <1>12

-----------------------------------------------------------------------------
(* The commit.                                                             *)

(* Applying what was fetched to the rows of one moment gives those of the  *)
(* other.                                                                  *)
LEMMA AppliedIsTarget ==
  ASSUME TypeOK, Inv, NEW s \in Syncer, pc[s] = "write", Holds(s)
  PROVE  /\ Applied(run[s]) = At(run[s].target)
         /\ run[s].target \in cursor..Now
<1> DEFINE r == run[s]
           view == At(r.base)
           diff == Differing(view, r.target)
<1>1. /\ r.base \in Nat /\ r.target \in Nat /\ r.base <= r.target /\ r.target <= Now /\ Now \in Nat
      /\ r.base = cursor /\ r.fetched = diff
      /\ r.added = Added(view, r.target, diff)
      /\ r.modified = Modified(view, r.target, diff)
      /\ r.removed = Removed(r.target, diff)
  BY Shapes DEF Inv, Moments, Buffers, Fetched, Fresh, Before
<1>2. rows = view
  BY <1>1 DEF Inv, ShowsCursor
<1>3. At(r.target) \in View
  BY <1>1, Shapes
<1> DEFINE to == At(r.target)
<1>4. diff \in SUBSET Txn /\ diff = {t \in Txn : view[t] # to[t]}
  BY DEF Differing
<1>5. /\ TxnsOf(r.added) = {u \in diff : view[u] = 0 /\ to[u] # 0}
      /\ \A t \in TxnsOf(r.added) : VersionIn(r.added, t) = to[t]
  BY <1>1, <1>4, AddedFacts
<1>6. /\ TxnsOf(r.modified) = {u \in diff : view[u] # 0 /\ to[u] # 0}
      /\ \A t \in TxnsOf(r.modified) : VersionIn(r.modified, t) = to[t]
  BY <1>1, <1>4, ModifiedFacts
<1>7. r.removed = {t \in diff : to[t] = 0}
  BY <1>1 DEF Removed
<1>8. to = [t \in Txn |-> to[t]]
  BY <1>3 DEF View
<1> HIDE DEF r, view, diff, to
<1>9. Applied(r) = [t \in Txn |-> to[t]]
  <2>1. \A t \in Txn :
          (IF t \in r.removed THEN 0
           ELSE IF t \in TxnsOf(r.modified) THEN VersionIn(r.modified, t)
           ELSE IF t \in TxnsOf(r.added) THEN VersionIn(r.added, t)
           ELSE rows[t]) = to[t]
    <3> TAKE t \in Txn
    <3>1. CASE t \in r.removed
      BY <3>1, <1>7
    <3>2. CASE t \notin r.removed /\ t \in TxnsOf(r.modified)
      BY <3>2, <1>6
    <3>3. CASE t \notin r.removed /\ t \notin TxnsOf(r.modified) /\ t \in TxnsOf(r.added)
      BY <3>3, <1>5
    <3>4. CASE t \notin r.removed /\ t \notin TxnsOf(r.modified) /\ t \notin TxnsOf(r.added)
      <4>1. t \notin diff
        BY <3>4, <1>5, <1>6, <1>7
      <4> QED BY <4>1, <3>4, <1>2, <1>4
    <3> QED BY <3>1, <3>2, <3>3, <3>4
  <2> QED BY <2>1 DEF Applied
<1>10. Applied(r) = to
  BY <1>8, <1>9
<1>11. r.target \in cursor..Now
  BY <1>1
<1> QED BY <1>10, <1>11 DEF r, to

LEMMA PublishOK ==
  ASSUME TypeOK, Inv, NEW s \in Syncer, NEW l, NEW q, pc[s] = "write", Holds(s), Publish(s),
         UNCHANGED <<log, lost, accountsAt>>,
         pc' = [pc EXCEPT ![s] = l], run' = [run EXCEPT ![s] = q],
         q.base = 0, q.target = 0, q.seen = 0,
         \/ l = "dedupe" /\ holder' = s /\ q.windows = windows'
         \/ l = "record" /\ holder' = NoSyncer
         \/ l = "idle" /\ holder' = NoSyncer /\ windows' = {}
  PROVE  /\ Inv'
         /\ cursor' \in cursor..Now
         /\ rows' = At(cursor')
<1> USE DEF Inv
<1>1. pc'[s] = l /\ run'[s] = q
  BY DEF TypeOK
<1>2. \A u \in Syncer : u # s => pc'[u] = pc[u] /\ run'[u] = run[u]
  BY DEF TypeOK
<1>3. /\ rows' = At(run[s].target) /\ cursor' = run[s].target /\ cursor' \in cursor..Now
      /\ Now \in Nat /\ cursor \in Nat
  BY AppliedIsTarget, Shapes DEF Publish
<1>4. Moments'
  BY <1>1, <1>2, <1>3 DEF Moments, Now
<1>5. Locked'
  BY <1>1, <1>2 DEF Locked, Holds, Working
<1>6. Fresh'
  BY <1>1, <1>2 DEF Fresh, Holds, Before
<1>7. Buffers'
  <2> SUFFICES ASSUME NEW u \in Syncer, pc'[u] \in Before PROVE Fetched(u)'
    BY DEF Buffers
  <2>1. u # s
    BY <1>1 DEF Before
  <2>2. Fetched(u) /\ pc'[u] = pc[u] /\ run'[u] = run[u] /\ log' = log
    BY <2>1, <1>2 DEF Buffers
  <2> QED BY <2>2, FetchedStays
<1>8. ScanIsOwed'
  <2> SUFFICES ASSUME NEW t \in unscanned' PROVE AccountOf[t] \in windows'
    BY DEF ScanIsOwed
  <2>1. windows' = Owed(run[s]) /\ t \in unscanned \cup Attributed(run[s])
    BY DEF Publish
  <2>2. run[s].windows = windows
    BY DEF Fresh, Before
  <2> QED BY <2>1, <2>2 DEF Owed, ScanIsOwed
<1>9. Reconciling'
  <2> SUFFICES ASSUME NEW u \in Syncer, holder' = u, pc'[u] \in After
               PROVE  \A t \in unscanned' : AccountOf[t] \in run'[u].windows
    BY DEF Reconciling, Holds
  <2>1. u = s /\ run'[u].windows = windows'
    BY <1>1 DEF After
  <2> QED BY <2>1, <1>8 DEF ScanIsOwed
<1>10. Snapshots'
  BY <1>1, <1>2 DEF Snapshots
<1>11. ShowsCursor' /\ rows' = At(cursor')
  BY <1>3 DEF ShowsCursor, At
<1>12. HealthyOwesNothing'
  BY <1>1 DEF HealthyOwesNothing
<1> QED BY <1>3, <1>4, <1>5, <1>6, <1>7, <1>8, <1>9, <1>10, <1>11, <1>12

LEMMA CommitOK ==
  ASSUME TypeOK, Inv, NEW s \in Syncer, Commit(s) \/ CommitUnanswered(s)
  PROVE  /\ Inv'
         /\ cursor' \in cursor..Now
         /\ rows' = At(cursor')
<1>1. /\ pc[s] = "write" /\ Holds(s) /\ Publish(s)
      /\ UNCHANGED <<log, lost, accountsAt>>
  BY DEF Commit, CommitUnanswered, accountVars
<1>2. NoRun.base = 0 /\ NoRun.target = 0 /\ NoRun.seen = 0
  BY DEF NoRun
<1>3. CASE Commit(s) /\ windows' = {}
  BY <1>1, <1>2, <1>3, PublishOK DEF Commit, Goto
<1>4. CASE Commit(s) /\ windows' # {}
  <2> DEFINE q == [NoRun EXCEPT !.windows = windows']
  <2>1. q.base = 0 /\ q.target = 0 /\ q.seen = 0 /\ q.windows = windows'
    BY DEF NoRun
  <2>2. /\ pc' = [pc EXCEPT ![s] = "dedupe"] /\ run' = [run EXCEPT ![s] = q]
        /\ holder' = s
    BY <1>1, <1>4 DEF Commit, Goto, Holds
  <2> HIDE DEF q
  <2> QED BY <1>1, <2>1, <2>2, PublishOK
<1>5. CASE CommitUnanswered(s)
  <2>1. /\ pc' = [pc EXCEPT ![s] = "record"] /\ run' = [run EXCEPT ![s] = NoRun]
        /\ holder' = NoSyncer
    BY <1>1, <1>5 DEF CommitUnanswered, Abandon, Goto, Released
  <2> QED BY <1>1, <1>2, <2>1, PublishOK
<1> QED BY <1>3, <1>4, <1>5

(* The marker keeps what remains to be scanned.                            *)
LEMMA ClearMarkerOK ==
  ASSUME TypeOK, Inv, NEW s \in Syncer, ClearMarker(s)
  PROVE  Inv'
<1> USE DEF Inv
<1>1. /\ pc[s] = "marker" /\ holder = s /\ windows' = run[s].windows
      /\ UNCHANGED <<log, cursor, accountsAt, rows, unscanned, lost>>
  BY DEF ClearMarker, Holds, accountVars, ledgerVars
<1>2. /\ \A u \in Syncer : u # s => pc'[u] = pc[u] /\ run'[u] = run[u]
      /\ \/ pc'[s] = "idle" /\ run'[s] = NoRun /\ holder' = NoSyncer /\ windows' = {}
         \/ pc'[s] = "dedupe" /\ run'[s] = run[s] /\ holder' = s
  BY <1>1 DEF ClearMarker, Goto, TypeOK
<1>3. ScanIsOwed'
  BY <1>1 DEF Reconciling, Holds, After, ScanIsOwed
<1>4. Moments'
  <2>1. \A u \in Syncer : run'[u].base <= Now /\ run'[u].target <= Now /\ run'[u].seen <= Now
    BY <1>2, NoRunMoments DEF Moments
  <2> QED BY <2>1, <1>1 DEF Moments, Now
<1>5. Locked'
  BY <1>1, <1>2 DEF Locked, Holds, Working
<1>6. Fresh'
  BY <1>1, <1>2 DEF Fresh, Holds, Before
<1>7. Buffers'
  <2> SUFFICES ASSUME NEW u \in Syncer, pc'[u] \in Before PROVE Fetched(u)'
    BY DEF Buffers
  <2>1. u # s
    BY <1>2 DEF Before
  <2>2. Fetched(u) /\ pc'[u] = pc[u] /\ run'[u] = run[u] /\ log' = log
    BY <2>1, <1>1, <1>2 DEF Buffers
  <2> QED BY <2>2, FetchedStays
<1>8. Reconciling'
  BY <1>1, <1>2 DEF Reconciling, Holds, After
<1>9. Snapshots'
  BY <1>1, <1>2 DEF Snapshots
<1>10. ShowsCursor'
  BY <1>1 DEF ShowsCursor, At
<1>11. HealthyOwesNothing'
  BY <1>2 DEF HealthyOwesNothing
<1> QED BY <1>3, <1>4, <1>5, <1>6, <1>7, <1>8, <1>9, <1>10, <1>11

-----------------------------------------------------------------------------
(* The environment.                                                        *)

LEMMA LoseSessionOK ==
  ASSUME TypeOK, Inv, NEW s \in Syncer, LoseSession(s)
  PROVE  Inv'
<1> USE DEF Inv
<1>1. /\ holder = s /\ holder' = NoSyncer /\ lost' = lost \cup {s}
      /\ UNCHANGED <<log, cursor, windows, lastError, silent, accountsAt, rows, unscanned, pc, run>>
  BY DEF LoseSession, Holds, itemVars, accountVars, ledgerVars
<1>2. Moments' /\ Locked' /\ Fresh' /\ Reconciling' /\ Snapshots'
  BY <1>1 DEF Moments, Now, Locked, Fresh, Reconciling, Snapshots, Holds
<1>3. Buffers'
  BY <1>1, BuffersStay
<1>4. ShowsCursor' /\ ScanIsOwed' /\ HealthyOwesNothing'
  BY <1>1 DEF ShowsCursor, At, ScanIsOwed, HealthyOwesNothing
<1> QED BY <1>2, <1>3, <1>4

LEMMA RemovalOK ==
  ASSUME TypeOK, Inv, RemoveAtBank \/ RemoveHere \/ RemoveFails
  PROVE  Inv' /\ UNCHANGED <<log, cursor, rows, accountsAt>>
<1> USE DEF Inv
<1>1. UNCHANGED <<log, cursor, windows, lastError, silent, accountsAt, rows, unscanned, pc, run,
                  holder, lost>>
  BY DEF RemoveAtBank, RemoveHere, RemoveFails, itemVars, accountVars, ledgerVars, lockVars
<1>2. Moments' /\ Locked' /\ Fresh' /\ Reconciling' /\ Snapshots'
  BY <1>1 DEF Moments, Now, Locked, Fresh, Reconciling, Snapshots, Holds
<1>3. Buffers'
  BY <1>1, BuffersStay
<1>4. ShowsCursor' /\ ScanIsOwed' /\ HealthyOwesNothing'
  BY <1>1 DEF ShowsCursor, At, ScanIsOwed, HealthyOwesNothing
<1> QED BY <1>1, <1>2, <1>3, <1>4

LEMMA BankChangesOK ==
  ASSUME TypeOK, Inv, BankChanges
  PROVE  Inv'
<1> USE DEF Inv
<1>0. UNCHANGED <<cursor, windows, lastError, silent, accountsAt, rows, unscanned, pc, run,
                  holder, lost>>
  BY DEF BankChanges, itemVars, accountVars, ledgerVars, lockVars
<1>1. PICK state : log' = Append(log, state)
  BY DEF BankChanges
<1>2. log \in Seq(BankState) /\ Now \in Nat
  BY Shapes DEF TypeOK
<1>3. Now' = Now + 1 /\ \A k \in 1..Now : log'[k] = log[k]
  BY <1>1, <1>2 DEF Now
<1>4. \A k \in 0..Now : At(k)' = At(k)
  BY <1>2, <1>3 DEF At
<1>5. /\ cursor \in Nat /\ accountsAt \in Nat /\ cursor <= Now
      /\ \A u \in Syncer : /\ run[u].base \in Nat /\ run[u].target \in Nat /\ run[u].seen \in Nat
                           /\ run[u].base <= Now /\ run[u].target <= Now
  BY Shapes DEF Moments
<1>6. Moments'
  BY <1>0, <1>2, <1>3, <1>5 DEF Moments
<1>7. Locked' /\ Fresh' /\ Reconciling' /\ Snapshots'
  BY <1>0 DEF Locked, Fresh, Reconciling, Snapshots, Holds
<1>8. Buffers'
  <2> SUFFICES ASSUME NEW u \in Syncer, pc[u] \in Before PROVE Fetched(u)'
    BY <1>0 DEF Buffers
  <2>1. Fetched(u) /\ run'[u] = run[u] /\ pc'[u] = pc[u]
    BY <1>0 DEF Buffers
  <2>2. run[u].base \in 0..Now /\ run[u].target \in 0..Now
    BY <1>2, <1>5
  <2>3. At(run[u].base)' = At(run[u].base) /\ At(run[u].target)' = At(run[u].target)
    BY <1>0, <1>4, <2>2 DEF At
  <2> QED BY <2>1, <2>3 DEF Fetched, Begun, Differing, Added, Modified, Removed
<1>9. ShowsCursor'
  BY <1>0, <1>2, <1>4, <1>5 DEF ShowsCursor, At
<1>10. ScanIsOwed' /\ HealthyOwesNothing'
  BY <1>0 DEF ScanIsOwed, HealthyOwesNothing
<1> QED BY <1>6, <1>7, <1>8, <1>9, <1>10

-----------------------------------------------------------------------------
(* Every step.                                                             *)

(* What one step does to the ledger and to the account snapshot.           *)
StepPromise ==
    /\ Ledger!Next \/ UNCHANGED <<log, cursor, rows>>
    /\ accountsAt' >= accountsAt \/ lost # {}

LEMMA SyncPromise ==
  ASSUME IInv, NEW s \in Syncer, SyncStep(s) \/ FaultStep(s)
  PROVE  StepPromise
<1> USE DEF IInv
<1>0. accountsAt \in Nat
  BY Shapes
<1>1. CASE Commit(s) \/ CommitUnanswered(s)
  <2>1. cursor' \in cursor..Now /\ rows' = At(cursor') /\ log' = log /\ accountsAt' = accountsAt
    BY <1>1, CommitOK DEF Commit, CommitUnanswered, accountVars, Inv
  <2> QED BY <1>0, <2>1 DEF StepPromise, Ledger!Next, Ledger!CatchUp, Ledger!At, Ledger!NoTxns, At, NoTxns, Now
<1>2. CASE WriteAccounts(s)
  <2>1. UNCHANGED <<log, cursor, rows>>
    BY <1>2 DEF WriteAccounts, itemVars, ledgerVars
  <2>2. lost = {} => accountsAt' >= accountsAt
    BY <1>2, Shapes DEF WriteAccounts, Snapshots
  <2> QED BY <2>1, <2>2 DEF StepPromise
<1>3. CASE ~(Commit(s) \/ CommitUnanswered(s) \/ WriteAccounts(s))
  <2>1. UNCHANGED <<log, cursor, rows, accountsAt>>
    BY <1>3 DEF SyncStep, FaultStep, LoadItem, SkipBusy, Claim, ClaimRemoved, FetchAccounts,
        FetchPage, RestartPages, GiveUpPages, Dedupe, ClearMarker, Refused, SessionGone,
        RecordError, ProviderFails, DatabaseFails, LoseSession, Unrecorded, Crash,
        itemVars, accountVars, ledgerVars
  <2> QED BY <1>0, <2>1 DEF StepPromise
<1> QED BY <1>1, <1>2, <1>3

LEMMA StepOK == IInv /\ [Next]_vars => IInv' /\ StepPromise
<1> SUFFICES ASSUME IInv, [Next]_vars PROVE IInv' /\ StepPromise
  OBVIOUS
<1>0. TypeOK /\ Inv /\ TypeOK' /\ accountsAt \in Nat
  BY TypeStep, Shapes DEF IInv, Inv
<1>1. CASE UNCHANGED vars
  <2>1. UNCHANGED <<log, cursor, windows, lastError, silent, accountsAt, rows, unscanned, holder, lost, pc, run>>
    BY <1>1 DEF vars, itemVars, accountVars, ledgerVars, lockVars
  <2>2. Moments' /\ Locked' /\ Fresh' /\ Reconciling' /\ Snapshots'
    BY <1>0, <2>1 DEF Inv, Moments, Now, Locked, Fresh, Reconciling, Snapshots, Holds
  <2>3. Buffers'
    BY <1>0, <2>1, BuffersStay DEF Inv
  <2>4. ShowsCursor' /\ ScanIsOwed' /\ HealthyOwesNothing'
    BY <1>0, <2>1 DEF Inv, ShowsCursor, At, ScanIsOwed, HealthyOwesNothing
  <2> QED BY <1>0, <2>1, <2>2, <2>3, <2>4 DEF IInv, StepPromise
<1>2. CASE BankChanges
  <2>1. PICK state \in BankState : log' = Append(log, state)
    <3>1. PICK state : log' = Append(log, state)
      BY <1>2 DEF BankChanges
    <3>2. log \in Seq(BankState) /\ log' \in Seq(BankState)
      BY <1>0 DEF TypeOK
    <3>3. Len(log') = Len(log) + 1 /\ log'[Len(log) + 1] = state
      BY <3>1, <3>2
    <3>4. state \in BankState
      BY <3>2, <3>3
    <3> QED BY <3>1, <3>4
  <2>2. Ledger!Move
    BY <1>2, <2>1 DEF BankChanges, itemVars, ledgerVars, Ledger!Move, Ledger!BankState, Ledger!View,
                      BankState, View
  <2>3. accountsAt' = accountsAt
    BY <1>2 DEF BankChanges, accountVars
  <2> QED BY <1>0, <1>2, <2>2, <2>3, BankChangesOK DEF IInv, Inv, StepPromise, Ledger!Next
<1>3. CASE RemoveAtBank \/ RemoveHere \/ RemoveFails
  BY <1>0, <1>3, RemovalOK DEF IInv, Inv, StepPromise
<1>4. ASSUME NEW s \in Syncer, SyncStep(s) \/ FaultStep(s)
      PROVE  IInv' /\ StepPromise
  <2>1. Inv'
    BY <1>0, <1>4, AbandonOK, QuitOK, AccountsOK, FetchPageOK, RestartPagesOK, DedupeOK, ClaimOK,
       CommitOK, ClearMarkerOK, LoseSessionOK DEF SyncStep, FaultStep
  <2> QED BY <1>0, <1>4, <2>1, SyncPromise DEF IInv, Inv
<1> QED BY <1>1, <1>2, <1>3, <1>4 DEF Next

LEMMA AlwaysIInv == Spec => []IInv
<1>1. IInv /\ [Next]_vars => IInv'
  BY StepOK
<1> QED BY <1>1, InitOK, PTL DEF Spec

-----------------------------------------------------------------------------
(* Every variable keeps to its type, whatever the syncs, the bank and the  *)
(* user do (the state plaid_service.py keeps of a linked item).            *)
THEOREM TypeCorrect == Spec => []TypeOK
<1>1. IInv => TypeOK
  BY DEF IInv
<1> QED BY <1>1, AlwaysIInv, PTL

(* The rows show exactly the moment the committed cursor stands for, for   *)
(* any number of syncs, pages, restarts, crashes and lost sessions         *)
(* (_sync_transactions).                                                   *)
THEOREM RowsShowCursor == Spec => []ShowsCursor
<1>1. IInv => ShowsCursor
  BY DEF IInv
<1> QED BY <1>1, AlwaysIInv, PTL

(* A row no duplicate scan has seen is owed one in the item's metadata     *)
(* (pending_transaction_reconciliation).                                   *)
THEOREM ScansAreOwed == Spec => []ScanIsOwed
<1>1. IInv => ScanIsOwed
  BY DEF IInv
<1> QED BY <1>1, AlwaysIInv, PTL

(* An item without an error owes no scan when no sync is at work, unless a *)
(* process ended without a word (_record_item_error_safely).               *)
THEOREM HealthIsHonest == Spec => []HealthyOwesNothing
<1>1. IInv => HealthyOwesNothing
  BY DEF IInv
<1> QED BY <1>1, AlwaysIInv, PTL

(* The account snapshot never goes back to an older one, unless a sync     *)
(* lost the session its lock was in (_upsert_accounts).                    *)
THEOREM SnapshotsGoForward == Spec => AccountsGoForward
<1>1. IInv /\ [Next]_vars => [accountsAt' >= accountsAt \/ lost # {}]_vars
  BY StepOK DEF StepPromise
<1> QED BY <1>1, AlwaysIInv, PTL DEF Spec, AccountsGoForward

(* The syncs, their faults and the removal together implement a ledger     *)
(* that moves from one moment of the bank to a later one in one step.      *)
THEOREM ImplementsLedger == Spec => KeepsPromise
<1>1. Init => Ledger!Init
  BY DEF Init, Ledger!Init, Ledger!NoTxns, NoTxns, Ledger!BankState, Ledger!View, BankState, View
<1>2. IInv /\ [Next]_vars => [Ledger!Next]_(Ledger!vars)
  BY StepOK DEF StepPromise, Ledger!vars
<1> QED BY <1>1, <1>2, AlwaysIInv, PTL DEF Spec, KeepsPromise, Ledger!Spec
=============================================================================
