--------------------------- MODULE StripeFulfilment ---------------------------
(***************************************************************************)
(* How Stripe's webhooks turn payments into credits of one organization:   *)
(* packages/billing/src/hooks, and the top-up and allowance services of    *)
(* packages/credits that they call.                                        *)
(*                                                                         *)
(* An event is delivered until a delivery of it is answered with success;  *)
(* the deliveries are handled by a pool of request handlers, which take    *)
(* one step per database transaction and may fail or die between steps.    *)
(* A posting to the credit ledger is what CreditLedger shows it to be: a   *)
(* look for the key, and a commit that posts it.  The commit posts again   *)
(* when another call has posted the key since the look (FindEventAgain of  *)
(* CreditLedger), and may fail instead.                                    *)
(***************************************************************************)
EXTENDS Integers

CONSTANTS
    Sessions,        \* paid checkout sessions of kind "credit_top_up"
    Hooks,           \* "complete" and "created" events of subscriptions
    Products,        \* top-up products of credits.config.ts
    ProductOf,       \* the product named in each session's metadata
    Periods,         \* (plan, period start) pairs of the subscriptions
    PeriodOf,        \* the period of each hook's subscription, if it has one
    NoPeriod,        \* a subscription without period dates
    AllowancePeriods,\* the periods of plans with a positive monthly allowance
    Handlers,        \* webhook requests the servers can process at a time
    NoEvent,         \* not an event
    OverlapPerKey    \* whether two deliveries that post one key may overlap

Events == Sessions \cup Hooks

ASSUME EventAssumption   == Sessions \cap Hooks = {} /\ NoEvent \notin Events
ASSUME ProductAssumption == ProductOf \in [Sessions -> Products]
ASSUME PeriodAssumption  == /\ NoPeriod \notin Periods
                            /\ PeriodOf \in [Hooks -> Periods \cup {NoPeriod}]
                            /\ AllowancePeriods \subseteq Periods
ASSUME KeyAssumption     == Sessions \cap ({"reset", "grant"} \X Periods) = {}
ASSUME OverlapAssumption == OverlapPerKey \in BOOLEAN

\* Idempotency keys: stripe_top_up:<session>, monthly_allowance_reset:<org>:
\* <plan>:<start> and monthly_allowance:<org>:<plan>:<start>.
Keys == Sessions \cup ({"reset", "grant"} \X Periods)

ResetKey(e) == <<"reset", PeriodOf[e]>>
GrantKey(e) == IF e \in Sessions THEN e ELSE <<"grant", PeriodOf[e]>>

VARIABLES
    offered,   \* products that are active in the deployed configuration
    happened,  \* events that have happened at Stripe
    owed,      \* events Stripe has yet to see answered with success
    purchase,  \* CreditTopUpPurchase.status, by session
    applied,   \* ledger postings, by key
    pc, event, key  \* of each handler: next step, event, key it is posting

vars == <<offered, happened, owed, purchase, applied, pc, event, key>>
rows == <<purchase, applied>>
stripe == <<happened, owed>>

Working == {"resolve", "recordPaid", "look", "post", "fulfil"}
Ending  == {"answer", "swallowed"}
Steps   == {"idle"} \cup Working \cup Ending

Init ==
    /\ offered  = Products
    /\ happened = {}
    /\ owed     = {}
    /\ purchase = [s \in Sessions |-> "none"]
    /\ applied  = [k \in Keys |-> 0]
    /\ pc       = [h \in Handlers |-> "idle"]
    /\ event    = [h \in Handlers |-> NoEvent]
    /\ key      = [h \in Handlers |-> NoEvent]

Goto(h, step) == pc' = [pc EXCEPT ![h] = step]

\* The request is over, answered or not; the handler is free for another.
Leave(h) ==
    /\ Goto(h, "idle")
    /\ event' = [event EXCEPT ![h] = NoEvent]
    /\ key' = [key EXCEPT ![h] = NoEvent]

Continue(h, step) == Goto(h, step) /\ UNCHANGED <<event, key>>

-------------------------------------------------------------------------------
(***************************************************************************)
(* Stripe and the deployment.                                              *)
(***************************************************************************)

\* createCreditTopUpCheckoutAction opens a session for a product on offer, and
\* the customer pays.
Pay(s) ==
    /\ s \in Sessions \ happened
    /\ ProductOf[s] \in offered
    /\ happened' = happened \cup {s}
    /\ owed' = owed \cup {s}
    /\ UNCHANGED <<offered, rows, pc, event, key>>

Subscribe(e) ==
    /\ e \in Hooks \ happened
    /\ happened' = happened \cup {e}
    /\ owed' = owed \cup {e}
    /\ UNCHANGED <<offered, rows, pc, event, key>>

\* Stripe sends an event again that has been answered.
Resend(e) ==
    /\ e \in happened \ owed
    /\ owed' = owed \cup {e}
    /\ UNCHANGED <<offered, happened, rows, pc, event, key>>

\* A deployment changes isActive of some products.
Deploy ==
    /\ offered' \in SUBSET Products
    /\ UNCHANGED <<stripe, rows, pc, event, key>>

-------------------------------------------------------------------------------
(***************************************************************************)
(* Deliveries.                                                             *)
(***************************************************************************)

\* Another delivery that posts the same key is in progress.
Busy(e) ==
    \E h \in Handlers : pc[h] # "idle" /\ GrantKey(event[h]) = GrantKey(e)

StartAt(h, step, k) == Goto(h, step) /\ key' = [key EXCEPT ![h] = k]

\* Fault variant: every checkout is taken for a top-up.
RouteToTopUp(h, e) == StartAt(h, "resolve", GrantKey(e))

\* Fault variant: the grant of a period does not wait for its reset.
RouteToGrant(h, e) ==
    StartAt(h, IF e \in Sessions THEN "resolve" ELSE "look", GrantKey(e))

\* onStripeEvent takes a paid top-up to its handler.  A subscription hook begins
\* with the reset of its period, or ends at once if there are no period dates.
Route(h, e) ==
    \/ e \in Sessions /\ StartAt(h, "resolve", GrantKey(e))
    \/ e \in Hooks /\ PeriodOf[e] # NoPeriod /\ StartAt(h, "look", ResetKey(e))
    \/ e \in Hooks /\ PeriodOf[e] = NoPeriod /\ Goto(h, "answer") /\ UNCHANGED key

Deliver(h, e) ==
    /\ pc[h] = "idle"
    /\ e \in owed
    /\ OverlapPerKey \/ ~Busy(e)
    /\ event' = [event EXCEPT ![h] = e]
    /\ Route(h, e)
    /\ UNCHANGED <<offered, stripe, rows>>

\* resolveCreditTopUpProduct; for a product that is not active it throws, the
\* request ends without success and Stripe keeps the event.
Resolve(h) ==
    /\ pc[h] = "resolve"
    /\ IF ProductOf[event[h]] \in offered THEN Continue(h, "recordPaid") ELSE Leave(h)
    /\ UNCHANGED <<offered, stripe, rows>>

\* Fault variant: the purchase is recorded as fulfilled before the grant.
RecordFulfilled(h) ==
    /\ pc[h] = "recordPaid"
    /\ purchase' = [purchase EXCEPT ![event[h]] = "fulfilled"]
    /\ Goto(h, "look")
    /\ UNCHANGED <<offered, stripe, applied, event, key>>

\* The upsert of the purchase: "paid", also when it was fulfilled before.
RecordPaid(h) ==
    /\ pc[h] = "recordPaid"
    /\ purchase' = [purchase EXCEPT ![event[h]] = "paid"]
    /\ Goto(h, "look")
    /\ UNCHANGED <<offered, stripe, applied, event, key>>

\* The plan of the hook's period has an allowance that is still to be granted.
GrantIsNext(h) ==
    /\ key[h] = ResetKey(event[h])
    /\ PeriodOf[event[h]] \in AllowancePeriods

\* Fault variant: a posting that was found ends the handler.
StopIfFound(h) ==
    IF pc[h] = "look"
    THEN Goto(h, "answer") /\ UNCHANGED key
    ELSE \/ event[h] \in Sessions /\ Goto(h, "fulfil") /\ UNCHANGED key
         \/ /\ event[h] \in Hooks
            /\ IF GrantIsNext(h)
               THEN StartAt(h, "look", GrantKey(event[h]))
               ELSE Goto(h, "answer") /\ UNCHANGED key

\* What follows a posting, made or found: a top-up is marked fulfilled; the
\* reset of a period is followed by its grant, which ends the hook.
AfterPosting(h) ==
    \/ event[h] \in Sessions /\ Goto(h, "fulfil") /\ UNCHANGED key
    \/ /\ event[h] \in Hooks
       /\ IF GrantIsNext(h)
          THEN StartAt(h, "look", GrantKey(event[h]))
          ELSE Goto(h, "answer") /\ UNCHANGED key

\* Fault variants: the transaction does not look; or it throws for a key found.
LookAway(h) ==
    /\ pc[h] = "look"
    /\ Goto(h, "post")
    /\ UNCHANGED <<offered, stripe, rows, event, key>>

LookThrows(h) ==
    /\ pc[h] = "look"
    /\ IF applied[key[h]] > 0 THEN Leave(h) ELSE Continue(h, "post")
    /\ UNCHANGED <<offered, stripe, rows>>

\* The transaction looks for the key; a key found ends it.
Look(h) ==
    /\ pc[h] = "look"
    /\ IF applied[key[h]] > 0
       THEN AfterPosting(h)
       ELSE Goto(h, "post") /\ UNCHANGED key
    /\ UNCHANGED <<offered, stripe, rows, event>>

\* The transaction commits.
Post(h) ==
    /\ pc[h] = "post"
    /\ applied' = [applied EXCEPT ![key[h]] = @ + 1]
    /\ AfterPosting(h)
    /\ UNCHANGED <<offered, stripe, purchase, event>>

\* The last update of grantStripeTopUp.
MarkFulfilled(h) ==
    /\ pc[h] = "fulfil"
    /\ purchase' = [purchase EXCEPT ![event[h]] = "fulfilled"]
    /\ Goto(h, "answer")
    /\ UNCHANGED <<offered, stripe, applied, event, key>>

\* The mail to the owner changes nothing here; the request ends with success.
Answer(h) ==
    /\ pc[h] \in Ending
    /\ owed' = owed \ {event[h]}
    /\ Leave(h)
    /\ UNCHANGED <<offered, happened, rows>>

\* Fault variant: the top-up handler swallows its errors too.
Swallow(h) == Continue(h, "swallowed")

\* An error of a top-up reaches Stripe as a failed request; a subscription hook
\* logs it and ends with success.
Throw(h) == IF event[h] \in Sessions THEN Leave(h) ELSE Continue(h, "swallowed")

\* A statement fails; the transaction is rolled back.
Fail(h) ==
    /\ pc[h] \in Working
    /\ Throw(h)
    /\ UNCHANGED <<offered, stripe, rows>>

\* The transaction commits but its answer is lost.
PostUnanswered(h) ==
    /\ pc[h] = "post"
    /\ applied' = [applied EXCEPT ![key[h]] = @ + 1]
    /\ Throw(h)
    /\ UNCHANGED <<offered, stripe, purchase>>

\* The server dies, or the answer of the request is lost.
Crash(h) ==
    /\ pc[h] # "idle"
    /\ Leave(h)
    /\ UNCHANGED <<offered, stripe, rows>>

-------------------------------------------------------------------------------
Step(h) ==
    \/ Resolve(h) \/ RecordPaid(h) \/ Look(h) \/ Post(h) \/ MarkFulfilled(h)
    \/ Answer(h)

Next ==
    \/ \E s \in Sessions : Pay(s)
    \/ \E e \in Hooks : Subscribe(e)
    \/ \E e \in Events : Resend(e)
    \/ Deploy
    \/ \E h \in Handlers :
          \/ \E e \in Events : Deliver(h, e)
          \/ Step(h) \/ Fail(h) \/ PostUnanswered(h) \/ Crash(h)

Spec == Init /\ [][Next]_vars

(***************************************************************************)
(* A request comes to its end; Stripe keeps delivering what it is owed; and *)
(* no step for a payment fails every time it is tried.  Nobody has to pay.  *)
(***************************************************************************)
Handling(s, Action(_)) == \E h \in Handlers : event[h] = s /\ Action(h)

FairSpec ==
    /\ Spec
    /\ \A h \in Handlers : WF_vars(Step(h))
    /\ \A s \in Sessions :
          /\ SF_vars(\E h \in Handlers : Deliver(h, s))
          /\ SF_vars(Handling(s, Resolve))
          /\ SF_vars(Handling(s, RecordPaid))
          /\ SF_vars(Handling(s, Look))
          /\ SF_vars(Handling(s, Post))
          /\ SF_vars(Handling(s, MarkFulfilled))

-------------------------------------------------------------------------------
TypeOK ==
    /\ offered \subseteq Products
    /\ happened \subseteq Events
    /\ owed \subseteq happened
    /\ purchase \in [Sessions -> {"none", "paid", "fulfilled"}]
    /\ applied \in [Keys -> Nat]
    /\ pc \in [Handlers -> Steps]
    /\ event \in [Handlers -> Events \cup {NoEvent}]
    /\ key \in [Handlers -> Keys \cup {NoEvent}]
    /\ \A h \in Handlers :
          /\ pc[h] # "idle" => event[h] \in Events
          /\ pc[h] \in {"resolve", "recordPaid", "fulfil"} => event[h] \in Sessions
          /\ pc[h] \in {"look", "post"} => key[h] \in Keys

(***************************************************************************)
(* Safety.                                                                 *)
(***************************************************************************)

\* A purchase is marked fulfilled only when its credits are in the ledger,
\* wherever a delivery of its session stopped and however deliveries overlap.
FulfilledIsGranted ==
    \A s \in Sessions : purchase[s] = "fulfilled" => applied[s] >= 1

\* Stripe forgets a payment only when its credits are in the ledger: no error of
\* grantStripeTopUp is answered with success.
AcknowledgedIsGranted ==
    \A s \in (happened \ owed) \cap Sessions : applied[s] >= 1

\* A subscription hook that met no error has granted the allowance of its period,
\* also when another delivery made the reset or the grant and died in between.
AnsweredHookHasGranted ==
    \A h \in Handlers :
        pc[h] = "answer" /\ event[h] \in Hooks /\ PeriodOf[event[h]] \in AllowancePeriods
            => applied[GrantKey(event[h])] >= 1

\* The allowance of a period is granted only after the period before it has been
\* closed, whichever of its two hooks comes first.
GrantFollowsReset ==
    \A p \in Periods : applied[<<"grant", p>>] > 0 => applied[<<"reset", p>>] > 0

\* Redeliveries, resends and the second hook of a subscription post nothing again.
PostedAtMostOnce == \A k \in Keys : applied[k] <= 1

\* When Stripe is owed nothing for a payment, its purchase is fulfilled: a resend
\* that set it back to paid is not answered before it is fulfilled again.
AcknowledgedIsFulfilled ==
    \A s \in (happened \ owed) \cap Sessions : purchase[s] = "fulfilled"

\* No reset of a period comes after its grant: "Close the previous period first
\* so leftover allowance expires (or carries forward up to the cap) before the
\* new grant lands" (allowance-service.ts).
ResetPrecedesGrant ==
    [][\A p \in Periods :
          applied[<<"grant", p>>] > 0 =>
              applied'[<<"reset", p>>] = applied[<<"reset", p>>]]_applied

\* How far a handler's call to the ledger has come; a hook without period dates
\* makes none.
Posts(e) == e \in Hooks => PeriodOf[e] # NoPeriod

StageOf(h) ==
    CASE pc[h] \in {"look", "post"} -> pc[h]
      [] pc[h] \in {"fulfil", "answer"} /\ Posts(event[h]) -> "served"
      [] OTHER -> "away"

Service == INSTANCE KeyedPosting WITH
    Callers <- Handlers,
    NoKey   <- NoEvent,
    stage   <- [h \in Handlers |-> StageOf(h)],
    key     <- [h \in Handlers |-> IF StageOf(h) = "away" THEN NoEvent ELSE key[h]]

\* The handlers post to the ledger as its contract allows, which is the one that
\* CreditLedger keeps, and go on as after a success only when it has served them.
PostsByContract == Service!Spec

(***************************************************************************)
(* Liveness.                                                               *)
(***************************************************************************)

\* A payment is fulfilled in the end if its product stays on offer.
PaidIsFulfilled ==
    \A s \in Sessions :
        <>[](ProductOf[s] \in offered) =>
            (s \in happened ~> purchase[s] = "fulfilled")
===============================================================================
