-------------------------- MODULE AtomicCreditLedger --------------------------
(***************************************************************************)
(* What the credit services promise of one organization.  An idempotency   *)
(* key is decided once, in one atomic step, which either records an event  *)
(* without moving credits or moves them from the balance of that moment.   *)
(* Two exceptions are named: a key that had two calls in flight at once    *)
(* (crowded) may be posted when it is decided, and a call may post over a  *)
(* balance that it has not read (it is then in overtaken).  CreditLedger   *)
(* implements it.                                                          *)
(***************************************************************************)
EXTENDS CreditRows

CONSTANTS Calls, UsageKeys, DirectKeys, ResetKeys, PeriodOf, Amounts,
          RolloverCaps, Opening

VARIABLES events, account, ledger, applied, overtaken, crowded

vars == <<events, account, ledger, applied, overtaken, crowded>>

Keys == UsageKeys \cup DirectKeys \cup ResetKeys

Init ==
    /\ events  = [k \in Keys |-> "none"]
    /\ account = Opening
    /\ ledger  = BucketsOf(Opening)
    /\ applied = [k \in Keys |-> 0]
    /\ overtaken = {}
    /\ crowded   = {}

Undecided(k) == events[k] = "none"

\* Credits move from the balance of this moment.
MoveExactly(kind, k, n) ==
    /\ account' = Written(kind, account, account, n, PeriodOf[k])
    /\ ledger'  = AddMoves(ledger, Moves(kind, account, n))
    /\ UNCHANGED overtaken

\* A call that has not posted yet writes balances computed from an earlier one.
MoveOvertaken ==
    /\ account' \in Accounts
    /\ ledger' \in Movements
    /\ \E c \in Calls \ overtaken : overtaken' = overtaken \cup {c}

\* The key is settled, if it is not decided, and its credits move.
Settle(kind, k, n) ==
    /\ Undecided(k) \/ k \in crowded
    /\ events'  = [events EXCEPT ![k] = IF @ = "none" THEN "settled" ELSE @]
    /\ applied' = [applied EXCEPT ![k] = @ + 1]
    /\ MoveExactly(kind, k, n) \/ MoveOvertaken
    /\ UNCHANGED crowded

\* The key is recorded as failed, not metered, metered only or settled for zero.
Record(k, status) ==
    /\ Undecided(k)
    /\ events' = [events EXCEPT ![k] = status]
    /\ UNCHANGED <<account, ledger, applied, overtaken, crowded>>

Charge == \E k \in UsageKeys, n \in Amounts : Settle("debit", k, n)

Adjust ==
    \E k \in DirectKeys, kind \in GrantKinds \cup {"debit"}, n \in Amounts :
        Settle(kind, k, n)

Reset ==
    \E k \in ResetKeys :
        \/ Settle("expire", k, 0)
        \/ \E cap \in RolloverCaps : Settle("rollover", k, cap)

RecordUsage ==
    \E k \in UsageKeys, status \in {"settled", "failed", "unmetered", "metered_only"} :
        Record(k, status)

\* A second call with the key begins while one is in flight.
Overlap ==
    /\ \E k \in Keys : crowded' = crowded \cup {k}
    /\ UNCHANGED <<events, account, ledger, applied, overtaken>>

Next == Charge \/ Adjust \/ Reset \/ RecordUsage \/ Overlap

Spec == Init /\ [][Next]_vars
===============================================================================
