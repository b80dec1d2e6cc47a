----------------------------- MODULE CreditLedger -----------------------------
(***************************************************************************)
(* The credit services of one organization at the grain of their database  *)
(* statements: packages/credits/src/services/usage-service.ts and          *)
(* balance-service.ts.                                                     *)
(*                                                                         *)
(* A call is one invocation of runWithCreditCharge, beginCreditUsage (with *)
(* its settle or fail callback), grantCredits, an admin debit or           *)
(* applyAllowancePeriodReset.  Calls interleave statement by statement.    *)
(* The database is PostgreSQL at READ COMMITTED: a statement sees what was *)
(* committed before it, an INSERT waits for an uncommitted row with the    *)
(* same unique key, and a transaction takes effect at its commit.  The     *)
(* UPDATE of the account row waits for the row's lock and holds it; the    *)
(* INSERT of the ledger entries and the COMMIT are one step after it: what *)
(* they write is visible only after the commit, and an error between them  *)
(* is an abort before them.  The account is read without a lock.           *)
(*                                                                         *)
(* The ledger is abstracted to one signed sum per bucket and, per key, the *)
(* number of committed transactions that posted entries for that key.  Two *)
(* variables are history, for the properties only: the calls that posted   *)
(* over a balance they had not read, and the keys with overlapping calls.  *)
(***************************************************************************)
EXTENDS CreditRows

CONSTANTS
    Calls,          \* invocations; each runs once, a retry is another call
    NoCall,         \* not a call
    UsageKeys,      \* idempotency keys of charged or metered operations
    DirectKeys,     \* keys of grants and of admin debits
    ResetKeys,      \* keys monthly_allowance_reset:<org>:<plan>:<start>
    PeriodOf,       \* the period start that is part of each reset key
    Amounts,        \* credits of a charge or of a grant
    RolloverCaps,   \* caps a plan may put on carried allowance
    Opening         \* the account when the observation starts

ASSUME CallAssumption   == NoCall \notin Calls
ASSUME KeyAssumption    == /\ UsageKeys \cap DirectKeys = {}
                           /\ UsageKeys \cap ResetKeys = {}
                           /\ DirectKeys \cap ResetKeys = {}
ASSUME PeriodAssumption == PeriodOf \in [ResetKeys -> Int]
ASSUME AmountAssumption == Amounts \subseteq Nat \ {0} /\ RolloverCaps \subseteq Int
ASSUME OpeningAssumption == Opening \in Accounts /\ SoundRow(Opening)

Keys == UsageKeys \cup DirectKeys \cup ResetKeys

(***************************************************************************)
(* CreditUsageStatus, without "pending" and "settlement_failed", which no  *)
(* code writes; "none" is the absence of a row.                            *)
(***************************************************************************)
Statuses == {"settled", "failed", "unmetered", "metered_only"}

ChargeKinds == {"run", "begin"}        \* chargeToOrg: true
UsageKinds  == ChargeKinds \cup {"metered"}
Kinds == UsageKinds \cup GrantKinds \cup {"debit"} \cup ResetKinds

KeysOf(kind) == CASE kind \in UsageKinds -> UsageKeys
                  [] kind \in ResetKinds -> ResetKeys
                  [] OTHER               -> DirectKeys

\* What a call has been asked to do; "status" is the event it will record.
Operations ==
    {o \in [kind : Kinds, key : Keys, amount : Int, status : Statuses] :
        o.key \in KeysOf(o.kind)}
NoOperation == [kind |-> "none"]

VARIABLES
    events,   \* committed CreditUsageEvent rows, by key: their status
    pending,  \* the transaction that holds an uncommitted row for each key
    account,  \* committed CreditAccount row
    ledger,   \* sums of the committed CreditLedgerEntry rows
    applied,  \* committed ledger postings, by key
    lock,     \* the transaction that holds the account row's lock
    pc, op, snap, \* of each call: next statement, operation, account it read
    overtaken,    \* history: calls that posted over a balance they had not read
    crowded       \* history: keys that had two calls in flight at once

db      == <<events, pending, account, ledger, applied, lock>>
history == <<overtaken, crowded>>
vars    == <<events, pending, account, ledger, applied, lock, pc, op, snap,
             overtaken, crowded>>

TransactionSteps == {"find", "findAgain", "insert", "read", "update", "commit"}
RecordSteps == {"recordFind", "recordInsert"}
Active == {"running"} \cup TransactionSteps \cup RecordSteps
Ended  == {"done", "recorded", "blocked", "threw", "crashed"}
Steps  == {"idle"} \cup Active \cup Ended

Init ==
    /\ events  = [k \in Keys |-> "none"]
    /\ pending = [k \in Keys |-> NoCall]
    /\ account = Opening
    /\ ledger  = BucketsOf(Opening)
    /\ applied = [k \in Keys |-> 0]
    /\ lock    = NoCall
    /\ pc      = [c \in Calls |-> "idle"]
    /\ op      = [c \in Calls |-> NoOperation]
    /\ snap    = [c \in Calls |-> Opening]
    /\ overtaken = {}
    /\ crowded   = {}

Goto(c, step) == pc' = [pc EXCEPT ![c] = step]

-------------------------------------------------------------------------------
(***************************************************************************)
(* Entry points.                                                           *)
(***************************************************************************)

InFlight(k) == \E c \in Calls : pc[c] \in Active /\ op[c].key = k

Start(c, kind, n, step) ==
    /\ pc[c] = "idle"
    /\ \E k \in KeysOf(kind) :
          /\ op' = [op EXCEPT ![c] =
                [kind |-> kind, key |-> k, amount |-> n, status |-> "settled"]]
          /\ crowded' = IF InFlight(k) THEN crowded \cup {k} ELSE crowded
    /\ Goto(c, step)
    /\ UNCHANGED <<db, snap, overtaken>>

\* ensureOrgCanSpendCredits: the cached total, read outside any transaction.
MaySpend == account.total > 0

BeginCharge(c) ==
    \E kind \in ChargeKinds :
        Start(c, kind, 0, IF MaySpend THEN "running" ELSE "blocked")

BeginMetered(c) == Start(c, "metered", 0, "running")

\* grantCredits and createAdminCreditAdjustment, amount already asserted positive.
BeginDirect(c) ==
    \E kind \in GrantKinds \cup {"debit"}, n \in Amounts : Start(c, kind, n, "find")

BeginReset(c) ==
    \/ Start(c, "expire", 0, "find")
    \/ \E cap \in RolloverCaps : Start(c, "rollover", cap, "find")

-------------------------------------------------------------------------------
(***************************************************************************)
(* The work that is charged for, and what it leads to.                     *)
(***************************************************************************)

\* The next statement of a call that records an event without a charge.
WillRecord(c, status) ==
    /\ op' = [op EXCEPT ![c].status = status]
    /\ Goto(c, "recordFind")

\* A fixed cost, or metered usage that comes to at least one credit.
RunIsCharged(c) ==
    /\ pc[c] = "running" /\ op[c].kind \in ChargeKinds
    /\ \E n \in Amounts : op' = [op EXCEPT ![c].amount = n]
    /\ Goto(c, "find")
    /\ UNCHANGED <<db, snap, history>>

\* chargeToOrg is false, or beginCreditUsage settles without usage or for zero.
RunIsNotCharged(c) ==
    /\ pc[c] = "running"
    /\ \E status \in CASE op[c].kind = "metered" -> {"metered_only", "unmetered"}
                       [] op[c].kind = "begin"   -> {"settled", "unmetered"}
                       [] OTHER                  -> {} :
            WillRecord(c, status)
    /\ UNCHANGED <<db, snap, history>>

\* The work throws: recordFailedUsage or markFailedWithoutCharge.
RunFails(c) ==
    /\ pc[c] = "running"
    /\ WillRecord(c, "failed")
    /\ UNCHANGED <<db, snap, history>>

-------------------------------------------------------------------------------
(***************************************************************************)
(* The statements of a settling transaction.  A reset reads the account    *)
(* before it creates its event, every other operation after.               *)
(***************************************************************************)

AfterFind(o)  == IF o.kind \in ResetKinds THEN "read" ELSE "findAgain"
AfterEvent(o) == IF o.kind \in ResetKinds THEN "update" ELSE "read"
AfterRead(o)  == IF o.kind \in ResetKinds THEN "findAgain" ELSE "update"

\* Fault variants: the transaction does not look first; or it takes only a
\* settled event for the outcome of the key.
FindNothing(c) ==
    pc[c] = "find" /\ Goto(c, AfterFind(op[c])) /\ UNCHANGED <<db, op, snap, history>>

FindSettledEvent(c) ==
    /\ pc[c] = "find"
    /\ Goto(c, IF events[op[c].key] = "settled" THEN "done" ELSE AfterFind(op[c]))
    /\ UNCHANGED <<db, op, snap, history>>

\* The first findUsageEvent of the transaction; a row found ends the call.
FindEvent(c) ==
    /\ pc[c] = "find"
    /\ Goto(c, IF events[op[c].key] # "none" THEN "done" ELSE AfterFind(op[c]))
    /\ UNCHANGED <<db, op, snap, history>>

\* createUsageEvent looks again and returns a row it finds: the caller cannot
\* tell it from the row it asked for, and posts to the ledger.
FindEventAgain(c) ==
    /\ pc[c] = "findAgain"
    /\ Goto(c, IF events[op[c].key] # "none" THEN AfterEvent(op[c]) ELSE "insert")
    /\ UNCHANGED <<db, op, snap, history>>

\* Fault variant: a rollback forgets the account row's lock.
RollbackKeepingLock(c) ==
    /\ pending' = [k \in Keys |-> IF pending[k] = c THEN NoCall ELSE pending[k]]
    /\ UNCHANGED <<events, account, ledger, applied, snap, lock, history>>

\* What a rollback of call c leaves: no row of its own, no lock.
Rollback(c) ==
    /\ pending' = [k \in Keys |-> IF pending[k] = c THEN NoCall ELSE pending[k]]
    /\ lock' = IF lock = c THEN NoCall ELSE lock
    /\ UNCHANGED <<events, account, ledger, applied, snap, history>>

\* The error reaches the code around the services.  runWithCreditCharge records
\* a failure; of the users of beginCreditUsage some do (workers) and some only
\* log it (the chat route); a grant, a debit or a reset throws to its caller.
Raise(c) ==
    \/ /\ op[c].kind \in UsageKinds /\ op[c].status # "failed"
       /\ WillRecord(c, "failed")
    \/ /\ op[c].kind # "run" \/ op[c].status = "failed"
       /\ Goto(c, "threw")
       /\ UNCHANGED op

\* Fault variant: the event is created outside the transaction.
InsertEventAtOnce(c) ==
    /\ pc[c] = "insert"
    /\ events' = [events EXCEPT ![op[c].key] = op[c].status]
    /\ Goto(c, AfterEvent(op[c]))
    /\ UNCHANGED <<pending, account, ledger, applied, lock, op, snap, history>>

\* INSERT of the event: waits for an uncommitted row of the same key and fails
\* on the unique index when that row, or another, is committed.
InsertEvent(c) ==
    /\ pc[c] = "insert"
    /\ pending[op[c].key] = NoCall
    /\ IF events[op[c].key] = "none"
       THEN /\ pending' = [pending EXCEPT ![op[c].key] = c]
            /\ Goto(c, AfterEvent(op[c]))
            /\ UNCHANGED <<events, account, ledger, applied, lock, op, snap, history>>
       ELSE Rollback(c) /\ Raise(c)

\* getOrCreateCreditAccount inside the transaction: the upsert updates nothing in
\* a row that exists, so it reads the row and takes no lock.
ReadAccount(c) ==
    /\ pc[c] = "read"
    /\ snap' = [snap EXCEPT ![c] = account]
    /\ Goto(c, AfterRead(op[c]))
    /\ UNCHANGED <<db, op, history>>

\* UPDATE of the account: waits for the row, and holds it until the transaction
\* ends.  It names the row by its organization and checks nothing of what was read.
UpdateAccount(c) ==
    /\ pc[c] = "update"
    /\ lock = NoCall
    /\ lock' = c
    /\ Goto(c, "commit")
    /\ UNCHANGED <<events, pending, account, ledger, applied, op, snap, history>>

\* Fault variant: the event is committed before it is marked settled.
ReleasePending(c) ==
    LET o == op[c]
    IN  /\ events'  = [events EXCEPT ![o.key] =
                         IF pending[o.key] = c THEN "pending" ELSE @]
        /\ pending' = [pending EXCEPT ![o.key] = IF @ = c THEN NoCall ELSE @]
        /\ lock'    = IF lock = c THEN NoCall ELSE lock

\* The rows of the transaction become visible and its locks are released.
Release(c) ==
    LET o == op[c]
    IN  /\ events'  = [events EXCEPT ![o.key] =
                         IF pending[o.key] = c THEN o.status ELSE @]
        /\ pending' = [pending EXCEPT ![o.key] = IF @ = c THEN NoCall ELSE @]
        /\ lock'    = IF lock = c THEN NoCall ELSE lock

\* The balances have moved between the call's read and its UPDATE.
ReadIsStale(c) == BucketsOf(snap[c]) # BucketsOf(account)

\* The UPDATE from the row the call has read and the INSERT of the ledger entries,
\* COMMIT.
Post(c) ==
    LET o == op[c]
    IN  /\ account' = Written(o.kind, account, snap[c], o.amount, PeriodOf[o.key])
        /\ ledger'  = AddMoves(ledger, Moves(o.kind, snap[c], o.amount))
        /\ applied' = [applied EXCEPT ![o.key] = @ + 1]
        /\ overtaken' = IF ReadIsStale(c) THEN overtaken \cup {c} ELSE overtaken
        /\ Release(c)
        /\ UNCHANGED crowded

Commit(c) ==
    /\ pc[c] = "commit"
    /\ Post(c)
    /\ Goto(c, "done")
    /\ UNCHANGED <<op, snap>>

\* The commit takes effect but its answer is lost.
CommitUnanswered(c) == pc[c] = "commit" /\ Post(c) /\ Raise(c) /\ UNCHANGED snap

\* The transaction times out, or a statement fails.
Abort(c) ==
    /\ pc[c] \in TransactionSteps \cup RecordSteps
    /\ Rollback(c)
    /\ Raise(c)

-------------------------------------------------------------------------------
(***************************************************************************)
(* createUsageEvent on the bare client: two statements, each its own       *)
(* transaction.                                                            *)
(***************************************************************************)
RecordFind(c) ==
    /\ pc[c] = "recordFind"
    /\ Goto(c, IF events[op[c].key] # "none" THEN "recorded" ELSE "recordInsert")
    /\ UNCHANGED <<db, op, snap, history>>

\* Fault variant: the record replaces a row that is there.
RecordOverwrites(c) ==
    /\ pc[c] = "recordInsert"
    /\ pending[op[c].key] = NoCall
    /\ events' = [events EXCEPT ![op[c].key] = op[c].status]
    /\ Goto(c, "recorded")
    /\ UNCHANGED <<pending, account, ledger, applied, lock, op, snap, history>>

RecordInsert(c) ==
    /\ pc[c] = "recordInsert"
    /\ pending[op[c].key] = NoCall
    /\ IF events[op[c].key] = "none"
       THEN /\ events' = [events EXCEPT ![op[c].key] = op[c].status]
            /\ Goto(c, "recorded")
            /\ UNCHANGED op
       ELSE Raise(c) /\ UNCHANGED events
    /\ UNCHANGED <<pending, account, ledger, applied, lock, snap, history>>

\* The process dies; the database rolls its transaction back.
Crash(c) ==
    /\ pc[c] \in Active
    /\ Rollback(c)
    /\ Goto(c, "crashed")
    /\ UNCHANGED op

-------------------------------------------------------------------------------
Begin(c) == BeginCharge(c) \/ BeginMetered(c) \/ BeginDirect(c) \/ BeginReset(c)

RunEnds(c) == RunIsCharged(c) \/ RunIsNotCharged(c) \/ RunFails(c)

Statement(c) ==
    \/ FindEvent(c) \/ FindEventAgain(c) \/ InsertEvent(c) \/ ReadAccount(c)
    \/ UpdateAccount(c) \/ Commit(c) \/ CommitUnanswered(c)
    \/ RecordFind(c) \/ RecordInsert(c)

Terminating == (\A c \in Calls : pc[c] \in Ended) /\ UNCHANGED vars

Next ==
    \/ \E c \in Calls :
          Begin(c) \/ RunEnds(c) \/ Statement(c) \/ Abort(c) \/ Crash(c)
    \/ Terminating

Spec == Init /\ [][Next]_vars

(***************************************************************************)
(* The work returns or throws, and the database answers a statement it can *)
(* execute.  No call has to begin, and nothing has to fail.                *)
(***************************************************************************)
FairSpec ==
    Spec /\ \A c \in Calls : WF_vars(RunEnds(c)) /\ WF_vars(Statement(c))

-------------------------------------------------------------------------------
TypeOK ==
    /\ events \in [Keys -> Statuses \cup {"none"}]
    /\ pending \in [Keys -> Calls \cup {NoCall}]
    /\ account \in Accounts
    /\ ledger \in Movements
    /\ applied \in [Keys -> Nat]
    /\ lock \in Calls \cup {NoCall}
    /\ pc \in [Calls -> Steps]
    /\ op \in [Calls -> Operations \cup {NoOperation}]
    /\ snap \in [Calls -> Accounts]
    /\ overtaken \subseteq Calls
    /\ crowded \subseteq Keys
    /\ \A c \in Calls : pc[c] # "idle" => op[c] \in Operations

(***************************************************************************)
(* Safety.                                                                 *)
(***************************************************************************)

\* Each balance of the account is the sum of the bucket's ledger entries: the
\* account is "cached from the immutable ledger" (credits.prisma).
AccountMatchesLedger == ledger = BucketsOf(account)

\* The account leaves its ledger, its cached total leaves its buckets, or credits
\* stand beside an overdraft, only after a call has posted over a balance that it
\* had not read: no other interleaving of updateAccountAndCreateLedger and
\* applyAllowancePeriodReset, no crash and no lost answer does it.
DriftIsOvertaken ==
    overtaken = {} => SoundRow(account) /\ AccountMatchesLedger

\* No bucket is ever negative, even after lost updates: balances are written as
\* absolute values computed from one committed row, so a debit that is overtaken
\* loses a posting but never takes from a bucket what it no longer holds.
BucketsNeverNegative == NoNegativeBucket(account)

\* A settled event of a grant, an admin debit or a reset has its ledger posting:
\* event and posting commit together, whatever fails or crashes between them.
SettledDirectIsApplied ==
    \A k \in DirectKeys \cup ResetKeys : events[k] = "settled" => applied[k] >= 1

\* A usage event never changes once it is committed: a late failure record does
\* not take back a settlement, and a late settlement not a failure.
EventsAreImmutable ==
    [][\A k \in Keys : events[k] # "none" => events'[k] = events[k]]_events

\* No key is posted to the ledger twice.  credits.prisma: the key serves "to settle
\* the same logical operation exactly once across retries".
AppliedAtMostOnce == \A k \in Keys : applied[k] <= 1

\* A key whose calls never overlapped is not posted twice, through retries after
\* crashes, aborts and lost answers, and whatever the calls of other keys do.
AppliedOnceUnlessCrowded == \A k \in Keys \ crowded : applied[k] <= 1

\* Entries are posted only for settled events, for the same keys: "Failed operations
\* record failed usage and create no ledger entries" (org-ai-credits-design.md).
OnlySettledUnlessCrowded ==
    \A k \in Keys \ crowded : applied[k] > 0 => events[k] = "settled"

\* A charged operation that ended well has been charged: "Successful operations
\* settle exactly once by idempotencyKey" (org-ai-credits-design.md).
SuccessfulChargeIsApplied ==
    \A c \in Calls :
        pc[c] = "done" /\ op[c].kind \in ChargeKinds => applied[op[c].key] >= 1

\* One call waits for another: an INSERT for the transaction that holds an
\* uncommitted row of its key, an UPDATE for the holder of the account row.
WaitsFor(c, d) ==
    \/ pc[c] \in {"insert", "recordInsert"} /\ pending[op[c].key] = d
    \/ pc[c] = "update" /\ lock = d

\* Calls never wait for each other in a circle: every operation, a reset too,
\* holds the key of its event before it waits for the account row, and gives up
\* both on every failure.  Whoever a waiting call waits for waits, if at all, for a
\* call that can go on.
NoCircularWait ==
    \A c, d, e \in Calls : WaitsFor(c, d) /\ WaitsFor(d, e) =>
        ~\E f \in Calls : WaitsFor(e, f)

\* The statement-level ledger implements the atomic one, which says when a posting
\* is computed from the balance of the moment and a key decided once.
Atomic == INSTANCE AtomicCreditLedger
ImplementsAtomicLedger == Atomic!Spec

\* How far the call of a grant, an admin debit or a reset has come for its caller.
PostingKinds == GrantKinds \cup {"debit"} \cup ResetKinds

StageOf(c) ==
    IF op[c].kind \notin PostingKinds THEN "away"
    ELSE CASE pc[c] = "find" -> "look"
           [] pc[c] \in TransactionSteps \ {"find"} -> "post"
           [] pc[c] = "done" -> "served"
           [] OTHER -> "away"

Service == INSTANCE KeyedPosting WITH
    Callers <- Calls,
    Keys    <- DirectKeys \cup ResetKeys,
    NoKey   <- NoCall,
    applied <- [k \in DirectKeys \cup ResetKeys |-> applied[k]],
    stage   <- [c \in Calls |-> StageOf(c)],
    key     <- [c \in Calls |-> IF StageOf(c) = "away" THEN NoCall ELSE op[c].key]

\* The ledger keeps the contract that the services above it rely on, with no
\* assumption on locks or overlap: a call is answered with success only for a key
\* that was posted, and posts only a key that had no posting when it looked.
ServesPostings == Service!Spec

(***************************************************************************)
(* Liveness.                                                               *)
(***************************************************************************)

\* Every call that has begun ends: the waits for the unique index and for the
\* account row never form a cycle and are released on every path.
EveryCallEnds == \A c \in Calls : pc[c] \in Active ~> pc[c] \in Ended
===============================================================================
