----------------------------- MODULE KeyedPosting -----------------------------
(***************************************************************************)
(* The contract between the credit ledger and the services that post to it *)
(* under an idempotency key (grants, admin debits and allowance resets).   *)
(* A caller asks for a key; the ledger looks for it once, then serves the  *)
(* caller with the posting it has found or with the one it makes.  A call  *)
(* may fail at any time, also after its posting was made.  A posting made  *)
(* between the look of a call and its own is not seen.                     *)
(*                                                                         *)
(* CreditLedger keeps this contract, however its calls overlap, and        *)
(* StripeFulfilment is modelled over nothing more than it.                 *)
(***************************************************************************)
EXTENDS Naturals

CONSTANTS Callers, Keys, NoKey

VARIABLES
    applied,    \* postings, by key
    stage, key  \* of each caller: how far its call has come, and for which key

vars == <<applied, stage, key>>

Init ==
    /\ applied = [k \in Keys |-> 0]
    /\ stage   = [c \in Callers |-> "away"]
    /\ key     = [c \in Callers |-> NoKey]

Turn(c, s, k) ==
    /\ stage' = [stage EXCEPT ![c] = s]
    /\ key' = [key EXCEPT ![c] = k]

AskNext(c) == \E k \in Keys : Turn(c, "look", k)

\* The caller has its answer; it may go on with another key at once.
Served(c) == Turn(c, "served", key[c]) \/ AskNext(c)

Ask(c) == stage[c] = "away" /\ AskNext(c) /\ UNCHANGED applied

Find(c) ==
    /\ stage[c] = "look"
    /\ applied[key[c]] > 0
    /\ Served(c)
    /\ UNCHANGED applied

Miss(c) ==
    /\ stage[c] = "look"
    /\ applied[key[c]] = 0
    /\ Turn(c, "post", key[c])
    /\ UNCHANGED applied

\* The posting is made; the answer may be lost.
Post(c) ==
    /\ stage[c] = "post"
    /\ applied' = [applied EXCEPT ![key[c]] = @ + 1]
    /\ Served(c) \/ Turn(c, "away", NoKey)

\* The call fails, or the caller is gone.
Leave(c) ==
    /\ stage[c] # "away"
    /\ Turn(c, "away", NoKey)
    /\ UNCHANGED applied

Next == \E c \in Callers : Ask(c) \/ Find(c) \/ Miss(c) \/ Post(c) \/ Leave(c)

Spec == Init /\ [][Next]_vars
===============================================================================
