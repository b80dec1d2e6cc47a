-------------------------- MODULE StripeFulfilmentMC --------------------------
(***************************************************************************)
(* Instances of StripeFulfilment for TLC.                                  *)
(***************************************************************************)
EXTENDS StripeFulfilment, TLC

CONSTANTS s1, complete, created, undated, free, pack, h1, h2, march, april

TwoHandlers == {h1, h2}

OneProduct == [s \in Sessions |-> pack]

\* The two hooks of one subscription, the hook of one to a plan without an
\* allowance, and the hook of one without period dates.
PeriodOfHook ==
    [e \in Hooks |-> CASE e = undated -> NoPeriod
                       [] e = free    -> april
                       [] OTHER       -> march]

\* Handlers are alike, and so are the two hooks of a subscription.
HandlerAndHookSymmetry == Permutations(Handlers) \cup Permutations({complete, created})
===============================================================================
