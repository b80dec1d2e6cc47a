------------------------------ MODULE CreditRows ------------------------------
(***************************************************************************)
(* The arithmetic of packages/credits: how one grant, debit or allowance   *)
(* reset moves credits between the three buckets of an organization's      *)
(* CreditAccount row.  Constant-level operators only, shared by the        *)
(* statement-level ledger, by its abstract specification and by the proofs.*)
(***************************************************************************)
EXTENDS Integers

\* The columns of CreditAccount that the services read or write.
Accounts == [allowance : Int, wallet : Int, overdraft : Int,
             total : Int, period : Int]

\* Signed sums, per bucket, of ledger entries ("increase" minus "decrease").
Movements == [allowance : Int, wallet : Int, overdraft : Int]

Smaller(x, y) == IF x <= y THEN x ELSE y

CalculateTotalBalance(row) == row.allowance + row.wallet - row.overdraft

BucketsOf(row) == [allowance |-> row.allowance, wallet |-> row.wallet,
                   overdraft |-> row.overdraft]

(***************************************************************************)
(* Ledger entries of one operation, computed from the account it has read. *)
(***************************************************************************)

\* Fault variant: a grant leaves the overdraft standing.
GrantMovesBesideOverdraft(read, bucket, n) ==
    [allowance |-> IF bucket = "allowance" THEN n ELSE 0,
     wallet    |-> IF bucket = "wallet" THEN n ELSE 0,
     overdraft |-> 0]

\* A grant repays overdraft first; the rest goes to the bucket it is for.
GrantMoves(read, bucket, n) ==
    LET repaid == IF read.overdraft > 0 THEN Smaller(read.overdraft, n) ELSE 0
    IN  [allowance |-> IF bucket = "allowance" THEN n - repaid ELSE 0,
         wallet    |-> IF bucket = "wallet" THEN n - repaid ELSE 0,
         overdraft |-> -repaid]

\* A debit spends allowance, then wallet, and leaves the rest as overdraft.
DebitMoves(read, n) ==
    LET fromAllowance == Smaller(read.allowance, n)
        fromWallet    == Smaller(read.wallet, n - fromAllowance)
    IN  [allowance |-> -fromAllowance,
         wallet    |-> -fromWallet,
         overdraft |-> n - fromAllowance - fromWallet]

\* What an allowance reset leaves of the leftover: nothing under "expire", the
\* leftover up to the cap under "rollover" (no cap: any cap above the leftover).
CarriedCredits(read, policy, cap) ==
    IF policy = "rollover"
    THEN Smaller(read.allowance, IF cap >= 0 THEN cap ELSE 0)
    ELSE 0

ResetMoves(read, policy, cap) ==
    [allowance |-> CarriedCredits(read, policy, cap) - read.allowance,
     wallet    |-> 0,
     overdraft |-> 0]

AddMoves(sums, moves) ==
    [allowance |-> sums.allowance + moves.allowance,
     wallet    |-> sums.wallet + moves.wallet,
     overdraft |-> sums.overdraft + moves.overdraft]

(***************************************************************************)
(* The UPDATE each operation issues.  `read` is the row as the transaction *)
(* read it, `row` the row the UPDATE finds: every balance written is       *)
(* computed from `read`, and columns the UPDATE does not name keep theirs. *)
(***************************************************************************)

\* Fault variant: the UPDATE adds to the balances it finds, not to those it read.
PostedRowAdding(row, read, moves) ==
    LET balances == AddMoves(row, moves)
    IN  [row EXCEPT !.allowance = balances.allowance,
                    !.wallet    = balances.wallet,
                    !.overdraft = balances.overdraft,
                    !.total     = CalculateTotalBalance(balances)]

PostedRow(row, read, moves) ==
    LET balances == AddMoves(read, moves)
    IN  [row EXCEPT !.allowance = balances.allowance,
                    !.wallet    = balances.wallet,
                    !.overdraft = balances.overdraft,
                    !.total     = CalculateTotalBalance(balances)]

\* A reset writes the allowance, the total and the period window only.
ResetRow(row, read, moves, period) ==
    LET balances == AddMoves(read, moves)
    IN  [row EXCEPT !.allowance = balances.allowance,
                    !.total     = CalculateTotalBalance(balances),
                    !.period    = period]

(***************************************************************************)
(* The operations by kind.  A grant is named by its bucket and a reset by  *)
(* the policy for unused allowance; every other kind is a debit, whose     *)
(* amount is n.  For a rollover n is the cap.                              *)
(***************************************************************************)
GrantKinds == {"allowance", "wallet"}
ResetKinds == {"expire", "rollover"}

Moves(kind, read, n) ==
    CASE kind \in GrantKinds -> GrantMoves(read, kind, n)
      [] kind \in ResetKinds -> ResetMoves(read, kind, n)
      [] OTHER               -> DebitMoves(read, n)

Written(kind, row, read, n, period) ==
    IF kind \in ResetKinds
    THEN ResetRow(row, read, Moves(kind, read, n), period)
    ELSE PostedRow(row, read, Moves(kind, read, n))

(***************************************************************************)
(* A sound row: no negative bucket, a cached total that is the sum of the  *)
(* buckets, and never both spendable credits and an overdraft.             *)
(***************************************************************************)
NoNegativeBucket(row) ==
    row.allowance >= 0 /\ row.wallet >= 0 /\ row.overdraft >= 0
CachedTotalAdds(row) == row.total = CalculateTotalBalance(row)
OverdraftOnlyWhenSpent(row) ==
    row.overdraft > 0 => row.allowance = 0 /\ row.wallet = 0

SoundRow(row) ==
    /\ NoNegativeBucket(row)
    /\ CachedTotalAdds(row)
    /\ OverdraftOnlyWhenSpent(row)
===============================================================================
