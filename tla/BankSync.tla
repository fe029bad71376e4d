------------------------------ MODULE BankSync ------------------------------
(***************************************************************************)
(* backend/app/services/plaid_service.py: one linked bank (a Plaid item)   *)
(* is synced by the scheduled worker task and by the API, each in a        *)
(* process of its own, while the bank changes and the user may remove it.  *)
(* A sync holds a session advisory lock on the connection that will also   *)
(* commit the transactions; the account snapshot and the duplicate scan    *)
(* commit on connections of their own.                                     *)
(***************************************************************************)
EXTENDS Naturals, Sequences, FiniteSets

CONSTANTS
    Syncer,        \* processes that can run sync_items
    NoSyncer,      \* nobody holds the lock
    Txn,           \* the transaction ids the bank can report
    Account,       \* the accounts of the bank
    AccountOf,     \* the account of each transaction
    MaxVersion,    \* how often one transaction is changed
    MaxChanges,    \* bound on the states the bank goes through
    PageSize,      \* rows in one page of transactions_sync
    PageLimit,     \* range(100)
    RestartLimit,  \* restarts >= 2
    FaultKinds,    \* the faults that may happen
    MaxFaults      \* bound on faults

ASSUME ConstantsAssumption ==
    /\ NoSyncer \notin Syncer
    /\ AccountOf \in [Txn -> Account]
    /\ MaxVersion \in Nat \ {0}
    /\ MaxChanges \in Nat \ {0}
    /\ PageSize \in Nat \ {0}
    /\ PageLimit \in Nat \ {0}
    /\ RestartLimit \in Nat
    /\ FaultKinds \subseteq {"provider", "database", "unanswered", "unrecorded", "session", "crash"}
    /\ MaxFaults \in Nat

VARIABLES
    log,           \* the states the bank has been in, oldest first
    linked,        \* the bank accepts the access token
    status,        \* plaid_items.status
    cursor,        \* plaid_items.transactions_cursor, as the moment it stands for
    windows,       \* the accounts in metadata.pending_transaction_reconciliation
    lastError,     \* plaid_items.last_error IS NOT NULL
    silent,        \* a sync ended without a word since windows was last empty
    known,         \* plaid_accounts: source accounts mapped to a household account
    active,        \* the is_active ones among them
    accountsAt,    \* the moment active shows
    rows,          \* household_transactions: the version shown, 0 for no row or a removed one
    unscanned,     \* rows added to a known account and not scanned for duplicates yet
    holder,        \* the session that holds the advisory lock of the item
    lost,          \* the syncs that have lost it, or were at work without it when it was last taken
    pc,            \* pc[s]: where a sync stands
    run,           \* run[s]: what a sync has in memory
    removing,      \* a DELETE request has removed the item at the bank
    faults         \* faults that have happened

itemVars == <<status, cursor, windows, lastError, silent>>
accountVars == <<known, active, accountsAt>>
ledgerVars == <<rows, unscanned>>
lockVars == <<holder, lost>>
vars == <<log, linked, itemVars, accountVars, ledgerVars, lockVars, pc, run, removing, faults>>

Ledger == INSTANCE BankLedger

----------------------------------------------------------------------------
(* The bank and what it answers.                                            *)

View == [Txn -> 0..MaxVersion]
BankState == [txns: View, open: SUBSET Account]
NoTxns == [t \in Txn |-> 0]
At(k) == IF k = 0 THEN NoTxns ELSE log[k].txns
Now == Len(log)
Bank == log[Now]

\* What changed between a view and a moment.
Differing(view, k) == {t \in Txn : view[t] # At(k)[t]}

Change == [txn: Txn, version: 1..MaxVersion]
Added(view, k, page) ==
    {[txn |-> t, version |-> At(k)[t]] : t \in {u \in page : view[u] = 0 /\ At(k)[u] # 0}}
Modified(view, k, page) ==
    {[txn |-> t, version |-> At(k)[t]] : t \in {u \in page : view[u] # 0 /\ At(k)[u] # 0}}
Removed(k, page) == {t \in page : At(k)[t] = 0}

----------------------------------------------------------------------------
(* A sync.                                                                  *)

Working == {"balances", "snapshot", "pages", "write", "dedupe", "marker"}
PC == {"idle", "loaded", "record"} \cup Working

RunType ==
    [base: 0..MaxChanges, target: 0..MaxChanges, seen: 0..MaxChanges,
     windows: SUBSET Account, open: SUBSET Account, fetched: SUBSET Txn,
     added: SUBSET Change, modified: SUBSET Change, removed: SUBSET Txn,
     pages: 0..PageLimit, restarts: 0..RestartLimit]

NoRun ==
    [base |-> 0, target |-> 0, seen |-> 0, windows |-> {}, open |-> {}, fetched |-> {},
     added |-> {}, modified |-> {}, removed |-> {}, pages |-> 0, restarts |-> 0]

TypeOK ==
    /\ log \in Seq(BankState) /\ Len(log) \in 1..MaxChanges
    /\ linked \in BOOLEAN
    /\ status \in {"active", "removed"}
    /\ cursor \in 0..MaxChanges
    /\ windows \subseteq Account
    /\ lastError \in BOOLEAN
    /\ silent \in BOOLEAN
    /\ known \subseteq Account /\ active \subseteq known
    /\ accountsAt \in 0..MaxChanges
    /\ rows \in View
    /\ unscanned \subseteq Txn
    /\ holder \in Syncer \cup {NoSyncer}
    /\ lost \subseteq Syncer
    /\ pc \in [Syncer -> PC]
    /\ run \in [Syncer -> RunType]
    /\ removing \in BOOLEAN
    /\ faults \in 0..MaxFaults

\* The item has just been linked by exchange_public_token.
Init ==
    /\ \E first \in BankState :
         /\ \A t \in Txn : first.txns[t] \in (IF AccountOf[t] \in first.open THEN {0, 1} ELSE {0})
         /\ log = <<first>>
    /\ linked = TRUE
    /\ status = "active"
    /\ cursor = 0
    /\ windows = {}
    /\ lastError = FALSE /\ silent = FALSE
    /\ known = {} /\ active = {} /\ accountsAt = 0
    /\ rows = NoTxns
    /\ unscanned = {}
    /\ holder = NoSyncer /\ lost = {}
    /\ pc = [s \in Syncer |-> "idle"]
    /\ run = [s \in Syncer |-> NoRun]
    /\ removing = FALSE
    /\ faults = 0

Goto(s, l) == pc' = [pc EXCEPT ![s] = l]
Holds(s) == holder = s
\* A sync that fails keeps the lock.
HolderKept(s) == holder

Released(s) == IF Holds(s) THEN NoSyncer ELSE holder

Fault(kind) ==
    /\ kind \in FaultKinds
    /\ faults < MaxFaults
    /\ faults' = faults + 1

\* The finally clause unlocks, the caller records the error afterwards.
Abandon(s) ==
    /\ holder' = Released(s)
    /\ Goto(s, "record")
    /\ run' = [run EXCEPT ![s] = NoRun]

----------------------------------------------------------------------------
(* The bank.                                                                *)

\* A transaction is posted, changed or withdrawn, an account opened or closed.
BankChanges ==
    /\ linked
    /\ Now < MaxChanges
    /\ \/ \E t \in Txn, v \in 0..MaxVersion :
            /\ v \in {0, Bank.txns[t] + 1}
            /\ v # Bank.txns[t]
            /\ v # 0 => AccountOf[t] \in Bank.open
            /\ log' = Append(log, [txns |-> [Bank.txns EXCEPT ![t] = v], open |-> Bank.open])
       \/ \E a \in Account :
            /\ log' = Append(log, [txns |-> Bank.txns,
                                   open |-> IF a \in Bank.open THEN Bank.open \ {a}
                                                               ELSE Bank.open \cup {a}])
    /\ UNCHANGED <<linked, itemVars, accountVars, ledgerVars, lockVars, pc, run, removing, faults>>

----------------------------------------------------------------------------
(* sync_items and _sync_single_item: taking the item.                       *)

\* _load_items reads the active items, with their cursors.
LoadItem(s) ==
    /\ pc[s] = "idle"
    /\ status = "active"
    /\ Goto(s, "loaded")
    /\ run' = [run EXCEPT ![s] = [NoRun EXCEPT !.base = cursor, !.windows = windows]]
    /\ UNCHANGED <<log, linked, itemVars, accountVars, ledgerVars, lockVars, removing, faults>>

\* PlaidSyncBusyError: another sync owns the item.
SkipBusy(s) ==
    /\ pc[s] = "loaded"
    /\ holder # NoSyncer
    /\ Goto(s, "idle")
    /\ run' = [run EXCEPT ![s] = NoRun]
    /\ UNCHANGED <<log, linked, itemVars, accountVars, ledgerVars, lockVars, removing, faults>>

\* The lock is not tried.
ClaimAnyway(s) ==
    /\ pc[s] = "loaded"
    /\ status = "active"
    /\ holder' = s
    /\ lost' = {u \in lost : pc[u] \in Working}
    /\ Goto(s, "balances")
    /\ run' = [run EXCEPT ![s] = [NoRun EXCEPT !.base = cursor, !.windows = windows]]
    /\ UNCHANGED <<log, linked, itemVars, accountVars, ledgerVars, removing, faults>>

\* The cursor and the windows are those loaded before the lock was taken.
ClaimStale(s) ==
    /\ pc[s] = "loaded"
    /\ holder = NoSyncer
    /\ status = "active"
    /\ holder' = s
    /\ lost' = {u \in lost : pc[u] \in Working}
    /\ Goto(s, "balances")
    /\ UNCHANGED <<log, linked, itemVars, accountVars, ledgerVars, run, removing, faults>>

\* The lock is taken; cursor and metadata are read again under it.
Claim(s) ==
    /\ pc[s] = "loaded"
    /\ holder = NoSyncer
    /\ status = "active"
    /\ holder' = s
    /\ lost' = {u \in lost : pc[u] \in Working}
    /\ Goto(s, "balances")
    /\ run' = [run EXCEPT ![s] = [NoRun EXCEPT !.base = cursor, !.windows = windows]]
    /\ UNCHANGED <<log, linked, itemVars, accountVars, ledgerVars, removing, faults>>

\* The item was removed since it was loaded.
ClaimRemoved(s) ==
    /\ pc[s] = "loaded"
    /\ holder = NoSyncer
    /\ status = "removed"
    /\ Abandon(s)
    /\ UNCHANGED <<log, linked, itemVars, accountVars, ledgerVars, lost, removing, faults>>

----------------------------------------------------------------------------
(* _sync_single_item_locked: accounts, then transactions.                   *)

\* accounts_balance_get
FetchAccounts(s) ==
    /\ pc[s] = "balances"
    /\ linked
    /\ Goto(s, "snapshot")
    /\ run' = [run EXCEPT ![s].open = Bank.open, ![s].seen = Now]
    /\ UNCHANGED <<log, linked, itemVars, accountVars, ledgerVars, lockVars, removing, faults>>

\* _ensure_sync_document and _upsert_accounts, on connections of their own.
WriteAccounts(s) ==
    /\ pc[s] = "snapshot"
    /\ known' = known \cup run[s].open
    /\ active' = run[s].open
    /\ accountsAt' = run[s].seen
    /\ Goto(s, "pages")
    /\ UNCHANGED <<log, linked, itemVars, ledgerVars, lockVars, run, removing, faults>>

\* A page tells of changes since the cursor; the bank refuses to go on with a
\* pagination it has begun before its latest change.
Begun(s) == run[s].fetched # {}
Unmoved(s) == Begun(s) => run[s].target = Now

\* The number of requests is not bounded.
FetchPageUnbounded(s) ==
    /\ pc[s] = "pages"
    /\ linked
    /\ Unmoved(s)
    /\ LET r == run[s]
           rest == Differing(At(r.base), Now) \ r.fetched
       IN \E page \in SUBSET rest :
            /\ Cardinality(page) <= PageSize
            /\ page = {} => rest = {}
            /\ Goto(s, IF page = rest THEN "write" ELSE "pages")
            /\ run' = [run EXCEPT ![s] =
                 [r EXCEPT !.target = Now,
                           !.fetched = @ \cup page,
                           !.added = @ \cup Added(At(r.base), Now, page),
                           !.modified = @ \cup Modified(At(r.base), Now, page),
                           !.removed = @ \cup Removed(Now, page),
                           !.pages = @ + 1]]
    /\ UNCHANGED <<log, linked, itemVars, accountVars, ledgerVars, lockVars, removing, faults>>

FetchPage(s) ==
    /\ pc[s] = "pages"
    /\ linked
    /\ run[s].pages < PageLimit
    /\ Unmoved(s)
    /\ LET r == run[s]
           rest == Differing(At(r.base), Now) \ r.fetched
       IN \E page \in SUBSET rest :
            /\ Cardinality(page) <= PageSize
            /\ page = {} => rest = {}
            /\ Goto(s, IF page = rest THEN "write" ELSE "pages")
            /\ run' = [run EXCEPT ![s] =
                 [r EXCEPT !.target = Now,
                           !.fetched = @ \cup page,
                           !.added = @ \cup Added(At(r.base), Now, page),
                           !.modified = @ \cup Modified(At(r.base), Now, page),
                           !.removed = @ \cup Removed(Now, page),
                           !.pages = @ + 1]]
    /\ UNCHANGED <<log, linked, itemVars, accountVars, ledgerVars, lockVars, removing, faults>>

\* The pages of the abandoned pagination are kept.
RestartKeepingPages(s) ==
    /\ pc[s] = "pages"
    /\ linked
    /\ run[s].pages < PageLimit
    /\ ~Unmoved(s)
    /\ run[s].restarts < RestartLimit
    /\ LET r == run[s]
       IN run' = [run EXCEPT ![s] =
            [r EXCEPT !.fetched = {}, !.pages = @ + 1, !.restarts = @ + 1]]
    /\ UNCHANGED <<log, linked, itemVars, accountVars, ledgerVars, lockVars, pc, removing, faults>>

\* TRANSACTIONS_SYNC_MUTATION_DURING_PAGINATION
RestartPages(s) ==
    /\ pc[s] = "pages"
    /\ linked
    /\ run[s].pages < PageLimit
    /\ ~Unmoved(s)
    /\ run[s].restarts < RestartLimit
    /\ LET r == run[s]
       IN run' = [run EXCEPT ![s] =
            [r EXCEPT !.fetched = {}, !.added = {}, !.modified = {}, !.removed = {},
                      !.pages = @ + 1, !.restarts = @ + 1]]
    /\ UNCHANGED <<log, linked, itemVars, accountVars, ledgerVars, lockVars, pc, removing, faults>>

GiveUpPages(s) ==
    /\ pc[s] = "pages"
    /\ \/ run[s].pages = PageLimit
       \/ ~Unmoved(s) /\ run[s].restarts = RestartLimit
    /\ Abandon(s)
    /\ UNCHANGED <<log, linked, itemVars, accountVars, ledgerVars, lost, removing, faults>>

----------------------------------------------------------------------------
(* _sync_transactions: rows, cursor and windows in one transaction.         *)

TxnsOf(changes) == {c.txn : c \in changes}
VersionIn(changes, t) == (CHOOSE c \in changes : c.txn = t).version

\* Added, then modified, then removed.
Applied(r) ==
    [t \in Txn |-> IF t \in r.removed THEN 0
                   ELSE IF t \in TxnsOf(r.modified) THEN VersionIn(r.modified, t)
                   ELSE IF t \in TxnsOf(r.added) THEN VersionIn(r.added, t)
                   ELSE rows[t]]

\* Rows added to an account that plaid_accounts maps.
Attributed(r) == {t \in TxnsOf(r.added) : AccountOf[t] \in known}
\* What earlier syncs left is not carried over.
OwedNow(r) == {AccountOf[t] : t \in Attributed(r)}

Owed(r) == r.windows \cup {AccountOf[t] : t \in Attributed(r)}

Publish(s) ==
    /\ rows' = Applied(run[s])
    /\ unscanned' = (unscanned \cup Attributed(run[s])) \ run[s].removed
    /\ cursor' = run[s].target
    /\ windows' = Owed(run[s])
    /\ lastError' = (windows' # {} /\ lastError)
    /\ silent' = (windows' # {} /\ silent)

\* Only a sync that adds rows scans for duplicates.
CommitScansNew(s) ==
    /\ pc[s] = "write"
    /\ Holds(s)
    /\ Publish(s)
    /\ IF Attributed(run[s]) = {}
       THEN /\ holder' = NoSyncer
            /\ Goto(s, "idle")
            /\ run' = [run EXCEPT ![s] = NoRun]
       ELSE /\ Goto(s, "dedupe")
            /\ run' = [run EXCEPT ![s] = [NoRun EXCEPT !.windows = windows']]
            /\ UNCHANGED holder
    /\ UNCHANGED <<log, linked, status, accountVars, lost, removing, faults>>

Commit(s) ==
    /\ pc[s] = "write"
    /\ Holds(s)
    /\ Publish(s)
    /\ IF windows' = {}
       THEN /\ holder' = NoSyncer
            /\ Goto(s, "idle")
            /\ run' = [run EXCEPT ![s] = NoRun]
       ELSE /\ Goto(s, "dedupe")
            /\ run' = [run EXCEPT ![s] = [NoRun EXCEPT !.windows = windows']]
            /\ UNCHANGED holder
    /\ UNCHANGED <<log, linked, status, accountVars, lost, removing, faults>>

\* The transaction is committed, but its answer is an error.
CommitUnanswered(s) ==
    /\ pc[s] = "write"
    /\ Holds(s)
    /\ Fault("unanswered")
    /\ Publish(s)
    /\ Abandon(s)
    /\ UNCHANGED <<log, linked, status, accountVars, lost, removing>>

----------------------------------------------------------------------------
(* _reconcile_pending_transactions                                          *)

\* dedupe_transactions scans one account, in a transaction of its own.
Dedupe(s) ==
    /\ pc[s] = "dedupe"
    /\ run[s].windows \subseteq known
    /\ \E a \in run[s].windows :
         /\ unscanned' = {t \in unscanned : AccountOf[t] # a}
         /\ run' = [run EXCEPT ![s].windows = @ \ {a}]
    /\ Goto(s, "marker")
    /\ UNCHANGED <<log, linked, itemVars, accountVars, rows, lockVars, removing, faults>>

\* The marker keeps what remains; the last scope clears the error.
ClearMarker(s) ==
    /\ pc[s] = "marker"
    /\ Holds(s)
    /\ windows' = run[s].windows
    /\ lastError' = (windows' # {} /\ lastError)
    /\ silent' = (windows' # {} /\ silent)
    /\ IF windows' = {}
       THEN /\ holder' = NoSyncer
            /\ Goto(s, "idle")
            /\ run' = [run EXCEPT ![s] = NoRun]
       ELSE /\ Goto(s, "dedupe")
            /\ UNCHANGED <<holder, run>>
    /\ UNCHANGED <<log, linked, status, cursor, accountVars, ledgerVars, lost, removing, faults>>

----------------------------------------------------------------------------
(* What goes wrong.                                                         *)

\* A removed item's token is refused.
Refused(s) ==
    /\ pc[s] \in {"balances", "pages"}
    /\ ~linked
    /\ Abandon(s)
    /\ UNCHANGED <<log, linked, itemVars, accountVars, ledgerVars, lost, removing, faults>>

ProviderFails(s) ==
    /\ pc[s] \in {"balances", "pages"}
    /\ Fault("provider")
    /\ Abandon(s)
    /\ UNCHANGED <<log, linked, itemVars, accountVars, ledgerVars, lost, removing>>

\* The failure is logged and not raised.
DatabaseFailsQuietly(s) ==
    /\ pc[s] \in Working
    /\ Fault("database")
    /\ holder' = Released(s)
    /\ Goto(s, "idle")
    /\ run' = [run EXCEPT ![s] = NoRun]
    /\ UNCHANGED <<log, linked, itemVars, accountVars, ledgerVars, lost, removing>>

DatabaseFails(s) ==
    /\ pc[s] \in Working
    /\ Fault("database")
    /\ Abandon(s)
    /\ UNCHANGED <<log, linked, itemVars, accountVars, ledgerVars, lost, removing>>

\* The server ends the session: its lock goes, the sync does not notice.
LoseSession(s) ==
    /\ Holds(s)
    /\ Fault("session")
    /\ holder' = NoSyncer
    /\ lost' = lost \cup {s}
    /\ UNCHANGED <<log, linked, itemVars, accountVars, ledgerVars, pc, run, removing>>

\* ... until it uses the connection again.
SessionGone(s) ==
    /\ pc[s] \in {"write", "marker"}
    /\ ~Holds(s)
    /\ Abandon(s)
    /\ UNCHANGED <<log, linked, itemVars, accountVars, ledgerVars, lost, removing, faults>>

\* _record_item_error, after the lock has been released.
RecordError(s) ==
    /\ pc[s] = "record"
    /\ lastError' = TRUE
    /\ Goto(s, "idle")
    /\ UNCHANGED <<log, linked, status, cursor, windows, silent, accountVars, ledgerVars,
                   lockVars, run, removing, faults>>

\* _record_item_error_safely: a second failure is only logged.
Unrecorded(s) ==
    /\ pc[s] = "record"
    /\ Fault("unrecorded")
    /\ silent' = TRUE
    /\ Goto(s, "idle")
    /\ UNCHANGED <<log, linked, status, cursor, windows, lastError, accountVars, ledgerVars,
                   lockVars, run, removing>>

Crash(s) ==
    /\ pc[s] # "idle"
    /\ Fault("crash")
    /\ silent' = TRUE
    /\ holder' = Released(s)
    /\ Goto(s, "idle")
    /\ run' = [run EXCEPT ![s] = NoRun]
    /\ UNCHANGED <<log, linked, status, cursor, windows, lastError, accountVars, ledgerVars,
                   lost, removing>>

----------------------------------------------------------------------------
(* remove_item, which does not take the lock.                               *)

RemoveAtBank ==
    /\ status = "active"
    /\ linked
    /\ linked' = FALSE
    /\ removing' = TRUE
    /\ UNCHANGED <<log, itemVars, accountVars, ledgerVars, lockVars, pc, run, faults>>

RemoveHere ==
    /\ removing
    /\ removing' = FALSE
    /\ status' = "removed"
    /\ active' = {}
    /\ UNCHANGED <<log, linked, cursor, windows, lastError, silent, known, accountsAt,
                   ledgerVars, lockVars, pc, run, faults>>

\* The bank has forgotten the item, and the request fails.
RemoveFails ==
    /\ removing
    /\ Fault("database")
    /\ removing' = FALSE
    /\ UNCHANGED <<log, linked, itemVars, accountVars, ledgerVars, lockVars, pc, run>>

----------------------------------------------------------------------------
SyncStep(s) ==
    \/ LoadItem(s) \/ SkipBusy(s) \/ Claim(s) \/ ClaimRemoved(s)
    \/ FetchAccounts(s) \/ WriteAccounts(s)
    \/ FetchPage(s) \/ RestartPages(s) \/ GiveUpPages(s)
    \/ Commit(s) \/ Dedupe(s) \/ ClearMarker(s)
    \/ Refused(s) \/ SessionGone(s) \/ RecordError(s)

FaultStep(s) ==
    \/ CommitUnanswered(s) \/ ProviderFails(s) \/ DatabaseFails(s)
    \/ LoseSession(s) \/ Unrecorded(s) \/ Crash(s)

Next ==
    \/ BankChanges
    \/ \E s \in Syncer : SyncStep(s) \/ FaultStep(s)
    \/ RemoveAtBank \/ RemoveHere \/ RemoveFails

Spec == Init /\ [][Next]_vars

\* The schedule starts a sync again and again, and a running one goes on.
FairSpec == Spec /\ \A s \in Syncer : WF_vars(SyncStep(s))

----------------------------------------------------------------------------
(* Properties.                                                              *)

\* The rows show exactly the moment the cursor stands for: neither a crash, a
\* restarted pagination, a failed commit nor a second sync separates the two
\* (_sync_transactions commits them together).
ShowsCursor == rows = At(cursor)

\* A row that still has to be compared with other sources is owed in the item's
\* metadata, so that the next sync scans it when this one ended before it did.
ScanIsOwed == \A t \in unscanned : AccountOf[t] \in windows

\* An item that looks healthy owes no duplicate scan once no sync is under way,
\* unless a sync ended without a word since.
HealthyOwesNothing ==
    (\A s \in Syncer : pc[s] \in {"idle", "loaded"}) /\ ~lastError /\ ~silent => windows = {}

\* The ledger only moves from one moment of the bank to a later one: the lock
\* makes each sync start from the cursor the previous one committed.
KeepsPromise == Ledger!Spec

\* The account snapshot never goes back to an older one, unless a sync lost the
\* session its lock was in, went on, and was overtaken by one that took the lock.
AccountsGoForward == [][accountsAt' >= accountsAt \/ lost # {}]_vars

\* While the item stays linked, the ledger reaches what the bank shows.
CatchesUp == <>[](linked => rows = Bank.txns)

\* While the item stays linked, every owed scan is made.
ScanIsMade == \A t \in Txn : t \in unscanned ~> (t \notin unscanned \/ ~linked)
=============================================================================
