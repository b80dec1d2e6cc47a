---------------------------- MODULE CreditLedgerMC ----------------------------
(***************************************************************************)
(* Instances of CreditLedger for TLC.                                      *)
(***************************************************************************)
EXTENDS CreditLedger, TLC

CONSTANTS c1, c2, c3, u1, d1, r1

ThreeCalls == {c1, c2, c3}
TwoCalls   == {c1, c2}

\* One period start for the one reset key.
OnePeriod == [k \in ResetKeys |-> 1]

\* One credit of allowance and one of wallet, in period 0: a debit of three
\* crosses all three buckets.
MixedOpening ==
    [allowance |-> 1, wallet |-> 1, overdraft |-> 0, total |-> 2, period |-> 0]

CallSymmetry == Permutations(Calls)
===============================================================================
