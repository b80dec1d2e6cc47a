------------------------------- MODULE DripMail -------------------------------
(***************************************************************************)
(* What an e-mail sequence promises its recipients: each enrollment gets   *)
(* the mails of the sequence in their order, none before the one before    *)
(* it, and an enrollment that is closed gets no mail any more.  An         *)
(* enrollment can go astray: it may then miss mails, but once it is closed *)
(* it gets none either.                                                    *)
(***************************************************************************)
EXTENDS Integers

CONSTANTS
    Enrollments,  \* contacts' passages through the sequence
    LastStep      \* the number of mails of the sequence

VARIABLES
    mailed,       \* pairs of an enrollment and a step it has been mailed
    closed,       \* enrollments that get no further mail
    astray        \* enrollments that may have missed one

vars == <<mailed, closed, astray>>

Init == mailed = {} /\ closed \subseteq Enrollments /\ astray = {}

\* An enrollment gets the mail of a step; it may be its last.
Mail(e, k) ==
    /\ e \notin closed
    /\ e \in astray \/ \A j \in 1 .. (k - 1) : <<e, j>> \in mailed
    /\ mailed' = mailed \cup {<<e, k>>}
    /\ closed' \in {closed, closed \cup {e}}
    /\ UNCHANGED astray

\* Some enrollments are closed, for good.
Close ==
    /\ closed \subseteq closed' /\ closed' \subseteq Enrollments
    /\ UNCHANGED <<mailed, astray>>

Stray(e) ==
    /\ astray' = astray \cup {e}
    /\ UNCHANGED <<mailed, closed>>

Next ==
    \/ \E e \in Enrollments : \E k \in 1 .. LastStep : Mail(e, k)
    \/ Close
    \/ \E e \in Enrollments : Stray(e)

Spec == Init /\ [][Next]_vars
===============================================================================
