------------------------ MODULE StripeFulfilmentProofs ------------------------
(***************************************************************************)
(* What StripeFulfilment guarantees for any sessions, hooks, products,     *)
(* periods and handlers.                                                   *)
(***************************************************************************)
EXTENDS StripeFulfilment, TLAPS

\* With the postings a: a posting under way is of the session, of the period's reset, or of its grant
\* after the reset.
SoundKey(a, step, e, k) ==
    /\ step \in {"resolve", "recordPaid"} => k = e
    /\ step \in {"look", "post"} =>
          \/ e \in Sessions /\ k = e
          \/ /\ e \in Hooks /\ PeriodOf[e] \in Periods
             /\ \/ k = ResetKey(e)
                \/ k = GrantKey(e) /\ a[ResetKey(e)] > 0

\* The credits are posted before a top-up is marked, and before success is
\* answered; only hooks swallow errors.
SoundEnd(a, step, e) ==
    /\ step = "swallowed" => e \in Hooks
    /\ step \in {"fulfil", "answer"} /\ e \in Sessions => a[e] > 0
    /\ step = "answer" /\ e \in Hooks /\ PeriodOf[e] \in AllowancePeriods
          => a[GrantKey(e)] > 0

\* The steps that only a top-up takes, and what a step needs.
SoundType(step, e, k) ==
    /\ step \in Steps
    /\ e \in Events \cup {NoEvent}
    /\ k \in Keys \cup {NoEvent}
    /\ step # "idle" => e \in Events
    /\ step \in {"resolve", "recordPaid", "fulfil"} => e \in Sessions
    /\ step \in {"look", "post"} => k \in Keys

Sound(a, step, e, k) ==
    SoundType(step, e, k) /\ SoundKey(a, step, e, k) /\ SoundEnd(a, step, e)

SoundHandlers == \A h \in Handlers : Sound(applied, pc[h], event[h], key[h])

FulfilmentInv ==
    /\ TypeOK
    /\ SoundHandlers
    /\ FulfilledIsGranted
    /\ AcknowledgedIsGranted
    /\ GrantFollowsReset

\* The initial state satisfies the invariant.
LEMMA FulfilmentInit == Init => FulfilmentInv
<1> SUFFICES ASSUME Init PROVE FulfilmentInv
  OBVIOUS
<1>1. TypeOK
  BY DEF Init, TypeOK, Steps, Working, Ending
<1>2. ASSUME NEW h \in Handlers PROVE Sound(applied, pc[h], event[h], key[h])
  <2>1. pc[h] = "idle" /\ event[h] = NoEvent /\ key[h] = NoEvent
    BY DEF Init
  <2> QED
    BY <2>1 DEF Sound, SoundType, SoundKey, SoundEnd, Steps
<1>3. FulfilledIsGranted /\ AcknowledgedIsGranted /\ GrantFollowsReset
  BY DEF Init, FulfilledIsGranted, AcknowledgedIsGranted, GrantFollowsReset, Keys
<1> QED
  BY <1>1, <1>2, <1>3 DEF FulfilmentInv, SoundHandlers

\* The keys of an event whose period is known are keys of the ledger.
LEMMA KeysOfEvents ==
    ASSUME NEW e \in Events
    PROVE  /\ e \in Sessions => GrantKey(e) = e /\ e \in Keys /\ e \notin Hooks
           /\ e \in Hooks => /\ GrantKey(e) = <<"grant", PeriodOf[e]>>
                             /\ ResetKey(e) = <<"reset", PeriodOf[e]>>
                             /\ ResetKey(e) # GrantKey(e)
                             /\ PeriodOf[e] \in Periods \cup {NoPeriod}
                             /\ e \notin Sessions
           /\ e \in Hooks /\ PeriodOf[e] \in Periods =>
                 ResetKey(e) \in Keys /\ GrantKey(e) \in Keys
  BY EventAssumption, PeriodAssumption DEF GrantKey, ResetKey, Keys, Events

\* What handler h does to its own state.
Moves(h, step, e, k) ==
    /\ pc' = [pc EXCEPT ![h] = step]
    /\ event' = [event EXCEPT ![h] = e]
    /\ key' = [key EXCEPT ![h] = k]

\* Postings are only added.
Grows == applied' \in [Keys -> Nat] /\ \A k \in Keys : applied'[k] >= applied[k]

\* A sound handler stays sound while postings are only added.
LEMMA SoundStays ==
    ASSUME TypeOK, Grows, NEW step, NEW e, NEW k, Sound(applied, step, e, k)
    PROVE  Sound(applied', step, e, k)
  BY KeysOfEvents, PeriodAssumption
  DEF TypeOK, Grows, Sound, SoundType, SoundKey, SoundEnd

\* A step of one handler keeps TypeOK and the soundness of all of them, if it
\* leaves the handler sound.
LEMMA OneHandlerMoves ==
    ASSUME FulfilmentInv, NEW h \in Handlers, NEW step, NEW e, NEW k,
           Moves(h, step, e, k), Grows, Sound(applied', step, e, k),
           offered' \subseteq Products, happened' \subseteq Events,
           owed' \subseteq happened',
           purchase' \in [Sessions -> {"none", "paid", "fulfilled"}]
    PROVE  TypeOK' /\ SoundHandlers'
<1>1. \A g \in Handlers :
        \/ g = h /\ pc'[g] = step /\ event'[g] = e /\ key'[g] = k
        \/ g # h /\ pc'[g] = pc[g] /\ event'[g] = event[g] /\ key'[g] = key[g]
  BY DEF Moves, FulfilmentInv, TypeOK
<1>2. ASSUME NEW g \in Handlers PROVE Sound(applied', pc'[g], event'[g], key'[g])
  <2>1. CASE g = h
    BY <1>1, <2>1
  <2>2. CASE g # h
    <3>1. Sound(applied, pc[g], event[g], key[g])
      BY DEF FulfilmentInv, SoundHandlers
    <3> QED
      BY <1>1, <2>2, <3>1, SoundStays DEF FulfilmentInv
  <2> QED
    BY <2>1, <2>2
<1>3. SoundHandlers'
  BY <1>2 DEF SoundHandlers
<1>4. /\ pc' \in [Handlers -> Steps]
      /\ event' \in [Handlers -> Events \cup {NoEvent}]
      /\ key' \in [Handlers -> Keys \cup {NoEvent}]
  BY DEF Moves, FulfilmentInv, TypeOK, Sound, SoundType
<1>5. ASSUME NEW g \in Handlers PROVE SoundType(pc'[g], event'[g], key'[g])
  BY <1>2 DEF Sound
<1>6. TypeOK'
  BY <1>4, <1>5 DEF TypeOK, Grows, SoundType
<1> QED
  BY <1>3, <1>6

\* More postings, and no new promise, keep the invariants on rows.
LEMMA RowsKept ==
    ASSUME FulfilmentInv, Grows, UNCHANGED stripe,
           \A s \in Sessions : purchase'[s] = "fulfilled" =>
               purchase[s] = "fulfilled" \/ applied[s] > 0
    PROVE  FulfilledIsGranted' /\ AcknowledgedIsGranted'
  BY DEF FulfilmentInv, TypeOK, Grows, stripe, Keys, FulfilledIsGranted,
         AcknowledgedIsGranted

\* The grant of a period is posted after its reset if the posting under way is
\* sound.
LEMMA PostKeepsOrder ==
    ASSUME FulfilmentInv, NEW h \in Handlers, pc[h] = "post",
           applied' = [applied EXCEPT ![key[h]] = @ + 1]
    PROVE  Grows /\ GrantFollowsReset' /\ applied'[key[h]] > 0
<1>1. key[h] \in Keys /\ event[h] \in Events /\ Sound(applied, "post", event[h], key[h])
  BY DEF FulfilmentInv, TypeOK, SoundHandlers
<1>2. applied \in [Keys -> Nat]
  BY DEF FulfilmentInv, TypeOK
<1>3. Grows /\ applied'[key[h]] > 0
  BY <1>1, <1>2 DEF Grows
<1>4. ASSUME NEW p \in Periods, applied'[<<"grant", p>>] > 0
      PROVE  applied'[<<"reset", p>>] > 0
  <2>1. <<"grant", p>> \in Keys /\ <<"reset", p>> \in Keys
    BY DEF Keys
  <2>2. CASE applied[<<"grant", p>>] > 0
    BY <1>2, <1>3, <2>1, <2>2 DEF FulfilmentInv, GrantFollowsReset, Grows
  <2>3. CASE key[h] = <<"grant", p>>
    <3>1. <<"grant", p>> \notin Sessions
      BY KeyAssumption
    <3>2. event[h] \in Hooks /\ applied[ResetKey(event[h])] > 0
      BY <1>1, <2>3, <3>1, KeysOfEvents DEF Sound, SoundKey
    <3>3. ResetKey(event[h]) = <<"reset", p>>
      BY <1>1, <2>3, <3>1, <3>2, KeysOfEvents DEF Sound, SoundKey
    <3> QED
      BY <1>2, <1>3, <2>1, <3>2, <3>3 DEF Grows
  <2> QED
    BY <1>1, <1>2, <1>4, <2>1, <2>2, <2>3
<1> QED
  BY <1>3, <1>4 DEF GrantFollowsReset

\* Once the key of a handler is posted, the handler goes on soundly.
LEMMA AfterPostingIsSound ==
    ASSUME FulfilmentInv, NEW h \in Handlers, pc[h] \in {"look", "post"},
           Grows, applied'[key[h]] > 0, AfterPosting(h), UNCHANGED event
    PROVE  \E step \in {"fulfil", "look", "answer"} : \E k :
              Moves(h, step, event[h], k) /\ Sound(applied', step, event[h], k)
<1> DEFINE e == event[h]
<1>1. /\ key[h] \in Keys /\ e \in Events
      /\ SoundKey(applied, pc[h], e, key[h])
      /\ event' = [event EXCEPT ![h] = e]
      /\ key = [key EXCEPT ![h] = key[h]]
  BY DEF FulfilmentInv, TypeOK, SoundHandlers, Sound
<1>2. applied \in [Keys -> Nat] /\ applied' \in [Keys -> Nat]
  BY DEF FulfilmentInv, TypeOK, Grows
<1>3. CASE e \in Sessions /\ Goto(h, "fulfil") /\ UNCHANGED key
  <2>1. Moves(h, "fulfil", e, key[h])
    BY <1>1, <1>3 DEF Moves, Goto
  <2>2. key[h] = e /\ e \notin Hooks
    BY <1>1, <1>3, KeysOfEvents DEF SoundKey
  <2>3. Sound(applied', "fulfil", e, key[h])
    BY <1>1, <1>3, <2>2 DEF Sound, SoundType, SoundKey, SoundEnd, Steps, Working
  <2> QED
    BY <2>1, <2>3
<1>4. CASE e \in Hooks /\ GrantIsNext(h) /\ StartAt(h, "look", GrantKey(e))
  <2>1. Moves(h, "look", e, GrantKey(e))
    BY <1>1, <1>4 DEF Moves, StartAt, Goto
  <2>2. /\ PeriodOf[e] \in Periods
        /\ GrantKey(e) \in Keys /\ applied'[ResetKey(e)] > 0
    BY <1>1, <1>4, KeysOfEvents, PeriodAssumption DEF GrantIsNext
  <2>3. Sound(applied', "look", e, GrantKey(e))
    BY <1>1, <1>4, <2>2 DEF Sound, SoundType, SoundKey, SoundEnd, Steps, Working
  <2> QED
    BY <2>1, <2>3
<1>5. CASE e \in Hooks /\ ~GrantIsNext(h) /\ Goto(h, "answer") /\ UNCHANGED key
  <2>1. Moves(h, "answer", e, key[h])
    BY <1>1, <1>5 DEF Moves, Goto
  <2>2. e \notin Sessions
    BY <1>1, <1>5, KeysOfEvents
  <2>3. PeriodOf[e] \in AllowancePeriods => key[h] = GrantKey(e)
    BY <1>1, <1>5, <2>2 DEF GrantIsNext, SoundKey
  <2>4. Sound(applied', "answer", e, key[h])
    BY <1>1, <1>5, <2>2, <2>3 DEF Sound, SoundType, SoundKey, SoundEnd, Steps, Ending
  <2> QED
    BY <2>1, <2>4
<1> QED
  BY <1>3, <1>4, <1>5 DEF AfterPosting

\* A handler that is set free is sound.
LEMMA LeaveIsSound ==
    ASSUME FulfilmentInv, NEW h \in Handlers, Leave(h)
    PROVE  /\ Moves(h, "idle", NoEvent, NoEvent)
           /\ Sound(applied', "idle", NoEvent, NoEvent)
  BY DEF Leave, Goto, Moves, Sound, SoundType, SoundKey, SoundEnd, Steps

\* An error leaves the handler sound.
LEMMA ThrowIsSound ==
    ASSUME FulfilmentInv, NEW h \in Handlers, pc[h] # "idle", Throw(h)
    PROVE  \E step, e, k : /\ Moves(h, step, e, k) /\ Sound(applied', step, e, k)
                           /\ \/ step = "idle"
                              \/ step = "swallowed" /\ e = event[h]
<1>1. CASE event[h] \in Sessions
  BY <1>1, LeaveIsSound DEF Throw
<1>2. CASE event[h] \notin Sessions
  <2>1. event[h] \in Hooks /\ key[h] \in Keys \cup {NoEvent}
    BY <1>2 DEF FulfilmentInv, TypeOK, Events
  <2>2. Moves(h, "swallowed", event[h], key[h])
    BY <1>2 DEF Throw, Continue, Goto, Moves, FulfilmentInv, TypeOK
  <2>3. Sound(applied', "swallowed", event[h], key[h])
    BY <1>2, <2>1 DEF Sound, SoundType, SoundKey, SoundEnd, Steps, Ending, Events
  <2> QED
    BY <2>2, <2>3
<1> QED
  BY <1>1, <1>2

\* A step that posts nothing lets every sound handler continue soundly.
LEMMA StillGrows ==
    ASSUME TypeOK, UNCHANGED applied
    PROVE  Grows
  BY DEF TypeOK, Grows

\* The delivery of an event starts its handler soundly.
LEMMA DeliverIsSound ==
    ASSUME FulfilmentInv, NEW h \in Handlers, NEW e \in Events, Deliver(h, e)
    PROVE  \E step, k : Moves(h, step, e, k) /\ Sound(applied', step, e, k)
<1>1. CASE e \in Sessions /\ StartAt(h, "resolve", GrantKey(e))
  <2>1. Moves(h, "resolve", e, GrantKey(e))
    BY <1>1 DEF Deliver, StartAt, Goto, Moves
  <2>2. Sound(applied', "resolve", e, GrantKey(e))
    BY <1>1, KeysOfEvents
    DEF Sound, SoundType, SoundKey, SoundEnd, Steps, Working
  <2> QED
    BY <2>1, <2>2
<1>2. CASE e \in Hooks /\ PeriodOf[e] # NoPeriod /\ StartAt(h, "look", ResetKey(e))
  <2>1. Moves(h, "look", e, ResetKey(e))
    BY <1>2 DEF Deliver, StartAt, Goto, Moves
  <2>2. Sound(applied', "look", e, ResetKey(e))
    BY <1>2, KeysOfEvents
    DEF Sound, SoundType, SoundKey, SoundEnd, Steps, Working
  <2> QED
    BY <2>1, <2>2
<1>3. CASE e \in Hooks /\ PeriodOf[e] = NoPeriod /\ Goto(h, "answer") /\ UNCHANGED key
  <2>1. Moves(h, "answer", e, key[h]) /\ key[h] \in Keys \cup {NoEvent}
    BY <1>3 DEF Deliver, Goto, Moves, FulfilmentInv, TypeOK
  <2>2. Sound(applied', "answer", e, key[h])
    BY <1>3, <2>1, KeysOfEvents, PeriodAssumption
    DEF Sound, SoundType, SoundKey, SoundEnd, Steps, Ending
  <2> QED
    BY <2>1, <2>2
<1> QED
  BY <1>1, <1>2, <1>3 DEF Deliver, Route

\* A handler that goes on without posting anything.
LEMMA ContinueMoves ==
    ASSUME FulfilmentInv, NEW h \in Handlers, NEW step,
           Goto(h, step), UNCHANGED <<event, key>>
    PROVE  Moves(h, step, event[h], key[h])
  BY DEF Goto, Moves, FulfilmentInv, TypeOK

\* Every step of Stripe or of a deployment keeps the invariant.
LEMMA OutsideKeeps ==
    ASSUME FulfilmentInv, UNCHANGED <<rows, pc, event, key>>,
           offered' \subseteq Products, happened' \subseteq Events,
           owed' \subseteq happened', happened' \ owed' \subseteq happened \ owed
    PROVE  FulfilmentInv'
  BY DEF FulfilmentInv, TypeOK, rows, SoundHandlers, FulfilledIsGranted,
         AcknowledgedIsGranted, GrantFollowsReset

\* A step of a handler that leaves what Stripe knows alone, posts only in order
\* and marks only what is granted keeps the invariant.
LEMMA HandlerKeeps ==
    ASSUME FulfilmentInv, NEW h \in Handlers, NEW step, NEW e, NEW k,
           Moves(h, step, e, k), Sound(applied', step, e, k),
           Grows, GrantFollowsReset',
           UNCHANGED <<offered, stripe>>,
           purchase' \in [Sessions -> {"none", "paid", "fulfilled"}],
           \A s \in Sessions : purchase'[s] = "fulfilled" =>
               purchase[s] = "fulfilled" \/ applied[s] > 0
    PROVE  FulfilmentInv'
<1>1. TypeOK' /\ SoundHandlers'
  BY OneHandlerMoves DEF FulfilmentInv, TypeOK, stripe
<1> QED
  BY <1>1, RowsKept DEF FulfilmentInv

\* Without a posting the order of reset and grant stands.
LEMMA OrderStays ==
    ASSUME FulfilmentInv, UNCHANGED applied
    PROVE  Grows /\ GrantFollowsReset'
  BY StillGrows DEF FulfilmentInv, GrantFollowsReset

LEMMA FulfilmentNext == FulfilmentInv /\ [Next]_vars => FulfilmentInv'
<1> SUFFICES ASSUME FulfilmentInv, [Next]_vars PROVE FulfilmentInv'
  OBVIOUS
<1>0. TypeOK
  BY DEF FulfilmentInv
<1>1. ASSUME NEW s \in Sessions, Pay(s) PROVE FulfilmentInv'
  BY <1>0, <1>1, OutsideKeeps DEF Pay, TypeOK, Events
<1>2. ASSUME NEW e \in Hooks, Subscribe(e) PROVE FulfilmentInv'
  BY <1>0, <1>2, OutsideKeeps DEF Subscribe, TypeOK, Events
<1>3. ASSUME NEW e \in Events, Resend(e) PROVE FulfilmentInv'
  BY <1>0, <1>3, OutsideKeeps DEF Resend, TypeOK
<1>4. CASE Deploy
  BY <1>0, <1>4, OutsideKeeps DEF Deploy, TypeOK, stripe
<1>5. ASSUME NEW h \in Handlers, NEW e \in Events, Deliver(h, e)
      PROVE  FulfilmentInv'
  <2>1. UNCHANGED <<offered, stripe, rows>>
    BY <1>5 DEF Deliver
  <2> QED
    BY <1>0, <1>5, <2>1, DeliverIsSound, HandlerKeeps, OrderStays
    DEF TypeOK, stripe, rows
<1>6. ASSUME NEW h \in Handlers, Resolve(h) PROVE FulfilmentInv'
  <2>1. UNCHANGED <<offered, stripe, rows>>
    BY <1>6 DEF Resolve
  <2>2. CASE Leave(h)
    BY <1>0, <2>1, <2>2, LeaveIsSound, HandlerKeeps, OrderStays
    DEF TypeOK, stripe, rows
  <2>3. CASE Continue(h, "recordPaid")
    <3>1. Moves(h, "recordPaid", event[h], key[h])
      BY <2>3, ContinueMoves DEF Continue
    <3>2. Sound(applied', "recordPaid", event[h], key[h])
      BY <1>0, <1>6 DEF Resolve, TypeOK, FulfilmentInv, SoundHandlers, Sound,
                        SoundType, SoundKey, SoundEnd, Steps, Working, Events
    <3> QED
      BY <1>0, <2>1, <3>1, <3>2, HandlerKeeps, OrderStays DEF TypeOK, stripe, rows
  <2> QED
    BY <1>6, <2>2, <2>3 DEF Resolve
<1>7. ASSUME NEW h \in Handlers, RecordPaid(h) PROVE FulfilmentInv'
  <2>1. event[h] \in Sessions
    BY <1>0, <1>7 DEF RecordPaid, TypeOK
  <2>2. /\ purchase' \in [Sessions -> {"none", "paid", "fulfilled"}]
        /\ \A s \in Sessions : purchase'[s] = "fulfilled" => purchase[s] = "fulfilled"
    BY <1>0, <1>7, <2>1 DEF RecordPaid, TypeOK
  <2>3. Moves(h, "look", event[h], key[h])
    BY <1>7, ContinueMoves DEF RecordPaid
  <2>4. key[h] = event[h] /\ event[h] \in Events /\ event[h] \in Keys
    BY <1>7, <2>1 DEF FulfilmentInv, SoundHandlers, RecordPaid, Sound, SoundKey,
                      Events, Keys
  <2>5. Sound(applied', "look", event[h], key[h])
    BY <2>1, <2>4 DEF Sound, SoundType, SoundKey, SoundEnd, Steps, Working
  <2> QED
    BY <1>7, <2>2, <2>3, <2>5, HandlerKeeps, OrderStays DEF RecordPaid
<1>8. ASSUME NEW h \in Handlers, Look(h) PROVE FulfilmentInv'
  <2>1. UNCHANGED <<offered, stripe, rows, event>> /\ pc[h] = "look"
    BY <1>8 DEF Look
  <2>2. CASE applied[key[h]] > 0
    BY <1>0, <1>8, <2>1, <2>2, AfterPostingIsSound, HandlerKeeps, OrderStays
    DEF Look, TypeOK, stripe, rows
  <2>3. CASE ~(applied[key[h]] > 0)
    <3>1. Moves(h, "post", event[h], key[h])
      BY <1>8, <2>3, ContinueMoves DEF Look
    <3>2. Sound(applied', "post", event[h], key[h])
      BY <2>1 DEF FulfilmentInv, SoundHandlers, Sound, SoundType, SoundKey,
                  SoundEnd, Steps, Working, rows
    <3> QED
      BY <1>0, <2>1, <3>1, <3>2, HandlerKeeps, OrderStays DEF TypeOK, stripe, rows
  <2> QED
    BY <2>2, <2>3
<1>9. ASSUME NEW h \in Handlers, Post(h) PROVE FulfilmentInv'
  BY <1>0, <1>9, PostKeepsOrder, AfterPostingIsSound, HandlerKeeps
  DEF Post, TypeOK, stripe
<1>10. ASSUME NEW h \in Handlers, MarkFulfilled(h) PROVE FulfilmentInv'
  <2>1. event[h] \in Sessions /\ applied[event[h]] > 0
    BY <1>0, <1>10 DEF FulfilmentInv, SoundHandlers, MarkFulfilled, TypeOK, Sound,
                       SoundEnd
  <2>2. /\ purchase' \in [Sessions -> {"none", "paid", "fulfilled"}]
        /\ \A s \in Sessions : purchase'[s] = "fulfilled" =>
               purchase[s] = "fulfilled" \/ applied[s] > 0
    BY <1>0, <1>10, <2>1 DEF MarkFulfilled, TypeOK
  <2>3. Moves(h, "answer", event[h], key[h])
    BY <1>10, ContinueMoves DEF MarkFulfilled
  <2>4. Sound(applied', "answer", event[h], key[h])
    BY <1>10, <2>1, KeysOfEvents
    DEF FulfilmentInv, SoundHandlers, MarkFulfilled, Sound, SoundType, SoundKey,
        SoundEnd, Steps, Ending, Events
  <2> QED
    BY <1>10, <2>2, <2>3, <2>4, HandlerKeeps, OrderStays DEF MarkFulfilled
<1>11. ASSUME NEW h \in Handlers, Answer(h) PROVE FulfilmentInv'
  <2>1. UNCHANGED <<offered, happened, rows>> /\ owed' = owed \ {event[h]} /\ Grows
    BY <1>0, <1>11, StillGrows DEF Answer, rows
  <2>2. event[h] \in Events
    BY <1>0, <1>11 DEF Answer, TypeOK, Ending
  <2>3. event[h] \in Sessions => applied[event[h]] > 0
    BY <1>11, KeysOfEvents, EventAssumption
    DEF Answer, FulfilmentInv, SoundHandlers, Sound, SoundEnd, Ending
  <2>4. TypeOK' /\ SoundHandlers'
    BY <1>0, <1>11, <2>1, LeaveIsSound, OneHandlerMoves DEF Answer, TypeOK, rows
  <2>5. AcknowledgedIsGranted'
    BY <1>0, <2>1, <2>3 DEF FulfilmentInv, AcknowledgedIsGranted, TypeOK, rows, Keys
  <2>6. FulfilledIsGranted' /\ GrantFollowsReset'
    BY <2>1 DEF FulfilmentInv, FulfilledIsGranted, GrantFollowsReset, rows
  <2> QED
    BY <2>4, <2>5, <2>6 DEF FulfilmentInv
<1>12. ASSUME NEW h \in Handlers, Fail(h) PROVE FulfilmentInv'
  <2>1. UNCHANGED <<offered, stripe, rows>> /\ pc[h] # "idle"
    BY <1>12 DEF Fail, Working
  <2> QED
    BY <1>0, <1>12, <2>1, ThrowIsSound, HandlerKeeps, OrderStays
    DEF Fail, TypeOK, stripe, rows
<1>13. ASSUME NEW h \in Handlers, PostUnanswered(h) PROVE FulfilmentInv'
  BY <1>0, <1>13, PostKeepsOrder, ThrowIsSound, HandlerKeeps
  DEF PostUnanswered, TypeOK, stripe
<1>14. ASSUME NEW h \in Handlers, Crash(h) PROVE FulfilmentInv'
  BY <1>0, <1>14, LeaveIsSound, HandlerKeeps, OrderStays
  DEF Crash, TypeOK, stripe, rows
<1>15. CASE UNCHANGED vars
  BY <1>15 DEF vars, FulfilmentInv, TypeOK, SoundHandlers, FulfilledIsGranted,
               AcknowledgedIsGranted, GrantFollowsReset
<1> QED
  BY <1>1, <1>2, <1>3, <1>4, <1>5, <1>6, <1>7, <1>8, <1>9, <1>10, <1>11, <1>12,
     <1>13, <1>14, <1>15 DEF Next, Step

\* What every behaviour keeps.
LEMMA FulfilmentHolds == Spec => []FulfilmentInv
  BY FulfilmentInit, FulfilmentNext, PTL DEF Spec

\* Every reachable state is well typed.
THEOREM StripeTypeCorrect == Spec => []TypeOK
<1>1. FulfilmentInv => TypeOK
  BY DEF FulfilmentInv
<1> QED
  BY <1>1, FulfilmentHolds, PTL

\* grantStripeTopUp marks a purchase fulfilled only after its credits are in the
\* ledger, through every crash, error and overlap of deliveries.
THEOREM FulfilledPurchasesAreGranted == Spec => []FulfilledIsGranted
<1>1. FulfilmentInv => FulfilledIsGranted
  BY DEF FulfilmentInv
<1> QED
  BY <1>1, FulfilmentHolds, PTL

\* No payment is acknowledged to Stripe before its credits are in the ledger.
THEOREM NoPaymentIsForgotten == Spec => []AcknowledgedIsGranted
<1>1. FulfilmentInv => AcknowledgedIsGranted
  BY DEF FulfilmentInv
<1> QED
  BY <1>1, FulfilmentHolds, PTL

\* A subscription hook that ends without an error has granted its allowance.
THEOREM CleanHookGrants == Spec => []AnsweredHookHasGranted
<1>1. ASSUME FulfilmentInv, NEW h \in Handlers, pc[h] = "answer",
             event[h] \in Hooks, PeriodOf[event[h]] \in AllowancePeriods
      PROVE  applied[GrantKey(event[h])] >= 1
  <2>1. GrantKey(event[h]) \in Keys /\ applied \in [Keys -> Nat]
    BY <1>1, KeysOfEvents, PeriodAssumption DEF FulfilmentInv, TypeOK, Events
  <2>2. applied[GrantKey(event[h])] > 0
    BY <1>1 DEF FulfilmentInv, SoundHandlers, Sound, SoundEnd
  <2> QED
    BY <2>1, <2>2
<1>2. FulfilmentInv => AnsweredHookHasGranted
  BY <1>1 DEF AnsweredHookHasGranted
<1> QED
  BY <1>2, FulfilmentHolds, PTL

\* The allowance of a period is never granted before its reset.
THEOREM ResetComesFirst == Spec => []GrantFollowsReset
<1>1. FulfilmentInv => GrantFollowsReset
  BY DEF FulfilmentInv
<1> QED
  BY <1>1, FulfilmentHolds, PTL

-------------------------------------------------------------------------------
(***************************************************************************)
(* Without overlap of the deliveries that post one key.                    *)
(***************************************************************************)

\* Handlers at work have different keys.
KeysAreExclusive ==
    \A g, h \in Handlers :
        g # h /\ pc[g] # "idle" /\ pc[h] # "idle" => GrantKey(event[g]) # GrantKey(event[h])

\* A handler about to post found nothing, and nothing has been posted since.
PostsAreFresh == \A h \in Handlers : pc[h] = "post" => applied[key[h]] = 0

SerialInv ==
    FulfilmentInv /\ KeysAreExclusive /\ PostsAreFresh /\ PostedAtMostOnce

LEMMA SerialInit == Init => SerialInv
<1>1. ASSUME Init PROVE KeysAreExclusive /\ PostsAreFresh /\ PostedAtMostOnce
  BY <1>1 DEF Init, KeysAreExclusive, PostsAreFresh, PostedAtMostOnce
<1> QED
  BY <1>1, FulfilmentInit DEF SerialInv

\* Handlers with different grant keys post different keys.
LEMMA OwnKey ==
    ASSUME FulfilmentInv, NEW g \in Handlers, NEW h \in Handlers,
           pc[g] = "post", pc[h] \in {"look", "post"},
           GrantKey(event[g]) # GrantKey(event[h])
    PROVE  key[g] # key[h]
<1>1. /\ event[g] \in Events /\ event[h] \in Events
      /\ SoundKey(applied, pc[g], event[g], key[g])
      /\ SoundKey(applied, pc[h], event[h], key[h])
  BY DEF FulfilmentInv, TypeOK, SoundHandlers, Sound
<1>2. CASE event[g] \in Sessions /\ event[h] \in Sessions
  BY <1>1, <1>2, KeysOfEvents DEF SoundKey
<1>3. CASE event[g] \in Hooks /\ event[h] \in Hooks
  BY <1>1, <1>3, KeysOfEvents DEF SoundKey
<1>4. CASE event[g] \in Sessions /\ event[h] \in Hooks
  BY <1>1, <1>4, KeysOfEvents, KeyAssumption DEF SoundKey
<1>5. CASE event[g] \in Hooks /\ event[h] \in Sessions
  BY <1>1, <1>5, KeysOfEvents, KeyAssumption DEF SoundKey
<1> QED
  BY <1>1, <1>2, <1>3, <1>4, <1>5 DEF Events

\* A handler at work goes on with its event, or is set free; it is about to post
\* only what it has just not found.
Runs(h, step, e, k) ==
    /\ Moves(h, step, e, k)
    /\ pc[h] # "idle"
    /\ step = "idle" \/ e = event[h]
    /\ step = "post" => pc[h] = "look" /\ k = key[h] /\ applied[k] = 0

\* Every step of a handler at work is of that form, and posts at most the key
\* that it is about to post.
LEMMA StepsRun ==
    ASSUME FulfilmentInv, NEW h \in Handlers,
           Step(h) \/ Fail(h) \/ PostUnanswered(h) \/ Crash(h)
    PROVE  /\ \E step, e, k : Runs(h, step, e, k)
           /\ \/ UNCHANGED applied
              \/ /\ pc[h] = "post" /\ applied' = [applied EXCEPT ![key[h]] = @ + 1]
                 /\ pc'[h] # "post"
<1>0. pc \in [Handlers -> Steps] /\ applied \in [Keys -> Nat]
  BY DEF FulfilmentInv, TypeOK
<1>1. CASE Resolve(h)
  BY <1>1, LeaveIsSound, ContinueMoves DEF Resolve, Continue, Runs, rows
<1>2. CASE RecordPaid(h)
  BY <1>2, ContinueMoves DEF RecordPaid, Runs
<1>3. CASE Look(h)
  <2>1. UNCHANGED applied /\ UNCHANGED event /\ pc[h] = "look" /\ Grows
    BY <1>3, StillGrows DEF Look, rows, FulfilmentInv
  <2>2. CASE applied[key[h]] > 0
    BY <1>3, <2>1, <2>2, AfterPostingIsSound DEF Look, Runs
  <2>3. CASE ~(applied[key[h]] > 0)
    <3>1. key[h] \in Keys
      BY <2>1 DEF FulfilmentInv, TypeOK
    <3> QED
      BY <1>0, <1>3, <2>1, <2>3, <3>1, ContinueMoves DEF Look, Runs
  <2> QED
    BY <2>2, <2>3
<1>4. CASE Post(h)
  <2>1. PICK step \in {"fulfil", "look", "answer"} : \E k : Moves(h, step, event[h], k)
    BY <1>4, PostKeepsOrder, AfterPostingIsSound DEF Post
  <2> QED
    BY <1>0, <1>4, <2>1 DEF Post, Moves, Runs
<1>5. CASE MarkFulfilled(h)
  BY <1>5, ContinueMoves DEF MarkFulfilled, Runs
<1>6. CASE Answer(h)
  BY <1>6, LeaveIsSound DEF Answer, Runs, Ending, rows
<1>7. CASE Fail(h)
  BY <1>7, ThrowIsSound DEF Fail, Runs, Working, rows
<1>8. CASE PostUnanswered(h)
  <2>1. PICK step, e, k : /\ Moves(h, step, e, k)
                          /\ \/ step = "idle"
                             \/ step = "swallowed" /\ e = event[h]
    BY <1>8, ThrowIsSound DEF PostUnanswered
  <2> QED
    BY <1>0, <1>8, <2>1 DEF PostUnanswered, Moves, Runs
<1>9. CASE Crash(h)
  BY <1>9, LeaveIsSound DEF Crash, Runs, rows
<1> QED
  BY <1>1, <1>2, <1>3, <1>4, <1>5, <1>6, <1>7, <1>8, <1>9 DEF Step

\* The others are untouched by what one handler does.
LEMMA OthersStay ==
    ASSUME TypeOK, NEW h \in Handlers, NEW step, NEW e, NEW k, Moves(h, step, e, k)
    PROVE  \A g \in Handlers :
             \/ g = h /\ pc'[g] = step /\ event'[g] = e /\ key'[g] = k
             \/ g # h /\ pc'[g] = pc[g] /\ event'[g] = event[g] /\ key'[g] = key[g]
  BY DEF Moves, TypeOK

\* A step of a handler at work keeps the serial invariant.
LEMMA RunKeepsSerial ==
    ASSUME SerialInv, NEW h \in Handlers,
           Step(h) \/ Fail(h) \/ PostUnanswered(h) \/ Crash(h)
    PROVE  KeysAreExclusive' /\ PostsAreFresh' /\ PostedAtMostOnce'
<1>0. FulfilmentInv /\ TypeOK
  BY DEF SerialInv, FulfilmentInv
<1>1. PICK step, e, k : Runs(h, step, e, k)
  BY <1>0, StepsRun
<1>2. \A g \in Handlers :
        \/ g = h /\ pc'[g] = step /\ event'[g] = e /\ key'[g] = k
        \/ g # h /\ pc'[g] = pc[g] /\ event'[g] = event[g] /\ key'[g] = key[g]
  BY <1>0, <1>1, OthersStay DEF Runs
<1>3. KeysAreExclusive'
  <2>1. ASSUME NEW f \in Handlers, NEW g \in Handlers, f # g,
               pc'[f] # "idle", pc'[g] # "idle"
        PROVE  GrantKey(event'[f]) # GrantKey(event'[g])
    <3>1. event'[f] = event[f] /\ pc[f] # "idle"
      BY <1>1, <1>2, <2>1 DEF Runs
    <3>2. event'[g] = event[g] /\ pc[g] # "idle"
      BY <1>1, <1>2, <2>1 DEF Runs
    <3> QED
      BY <2>1, <3>1, <3>2 DEF SerialInv, KeysAreExclusive
  <2> QED
    BY <2>1 DEF KeysAreExclusive
<1>4. CASE UNCHANGED applied
  <2>1. PostsAreFresh'
    BY <1>1, <1>2, <1>4 DEF SerialInv, PostsAreFresh, Runs
  <2> QED
    BY <1>3, <1>4, <2>1 DEF SerialInv, PostedAtMostOnce
<1>5. CASE /\ pc[h] = "post" /\ applied' = [applied EXCEPT ![key[h]] = @ + 1]
           /\ pc'[h] # "post"
  <2>1. key[h] \in Keys /\ applied \in [Keys -> Nat] /\ applied[key[h]] = 0
    BY <1>0, <1>5 DEF TypeOK, SerialInv, PostsAreFresh
  <2>2. PostedAtMostOnce'
    BY <1>5, <2>1 DEF SerialInv, PostedAtMostOnce
  <2>3. ASSUME NEW g \in Handlers, pc'[g] = "post" PROVE applied'[key'[g]] = 0
    <3>1. g # h /\ pc[g] = "post" /\ key'[g] = key[g]
      BY <1>2, <1>5, <2>3
    <3>2. GrantKey(event[g]) # GrantKey(event[h])
      BY <1>5, <3>1 DEF SerialInv, KeysAreExclusive
    <3>3. key[g] # key[h] /\ key[g] \in Keys /\ applied[key[g]] = 0
      BY <1>0, <1>5, <3>1, <3>2, OwnKey DEF TypeOK, SerialInv, PostsAreFresh
    <3> QED
      BY <1>5, <2>1, <3>1, <3>3
  <2> QED
    BY <1>3, <2>2, <2>3 DEF PostsAreFresh
<1> QED
  BY <1>0, <1>4, <1>5, StepsRun

\* A delivery starts only when no other one posts its key.
LEMMA DeliverKeepsSerial ==
    ASSUME ~OverlapPerKey, SerialInv, NEW h \in Handlers, NEW e \in Events,
           Deliver(h, e)
    PROVE  KeysAreExclusive' /\ PostsAreFresh' /\ PostedAtMostOnce'
<1>0. FulfilmentInv /\ TypeOK /\ UNCHANGED applied
  BY DEF SerialInv, FulfilmentInv, Deliver, rows
<1>1. /\ \A g \in Handlers : pc[g] # "idle" => GrantKey(event[g]) # GrantKey(e)
      /\ pc[h] = "idle"
  BY DEF Deliver, Busy
<1>2. PICK step, k : Moves(h, step, e, k) /\ step \in {"resolve", "look", "answer"}
  BY <1>0 DEF Deliver, Route, StartAt, Goto, Moves, TypeOK
<1>3. \A g \in Handlers :
        \/ g = h /\ pc'[g] = step /\ event'[g] = e /\ key'[g] = k
        \/ g # h /\ pc'[g] = pc[g] /\ event'[g] = event[g] /\ key'[g] = key[g]
  BY <1>0, <1>2, OthersStay
<1>4. KeysAreExclusive'
  <2>1. ASSUME NEW f \in Handlers, NEW g \in Handlers, f # g,
               pc'[f] # "idle", pc'[g] # "idle"
        PROVE  GrantKey(event'[f]) # GrantKey(event'[g])
    <3>1. CASE f = h
      BY <1>1, <1>3, <2>1, <3>1
    <3>2. CASE g = h
      BY <1>1, <1>3, <2>1, <3>2
    <3>3. CASE f # h /\ g # h
      BY <1>3, <2>1, <3>3 DEF SerialInv, KeysAreExclusive
    <3> QED
      BY <3>1, <3>2, <3>3
  <2> QED
    BY <2>1 DEF KeysAreExclusive
<1>5. PostsAreFresh'
  BY <1>0, <1>2, <1>3 DEF SerialInv, PostsAreFresh
<1> QED
  BY <1>0, <1>4, <1>5 DEF SerialInv, PostedAtMostOnce

LEMMA SerialNext == ~OverlapPerKey /\ SerialInv /\ [Next]_vars => SerialInv'
<1> SUFFICES ASSUME ~OverlapPerKey, SerialInv, [Next]_vars PROVE SerialInv'
  OBVIOUS
<1>1. FulfilmentInv'
  BY FulfilmentNext DEF SerialInv
<1>2. ASSUME UNCHANGED <<applied, pc, event, key>>
      PROVE  KeysAreExclusive' /\ PostsAreFresh' /\ PostedAtMostOnce'
  BY <1>2 DEF SerialInv, KeysAreExclusive, PostsAreFresh, PostedAtMostOnce
<1>3. CASE \/ \E s \in Sessions : Pay(s)
           \/ \E e \in Hooks : Subscribe(e)
           \/ \E e \in Events : Resend(e)
           \/ Deploy
  BY <1>1, <1>2, <1>3 DEF Pay, Subscribe, Resend, Deploy, rows, SerialInv
<1>4. ASSUME NEW h \in Handlers, NEW e \in Events, Deliver(h, e)
      PROVE  SerialInv'
  BY <1>1, <1>4, DeliverKeepsSerial DEF SerialInv
<1>5. ASSUME NEW h \in Handlers, Step(h) \/ Fail(h) \/ PostUnanswered(h) \/ Crash(h)
      PROVE  SerialInv'
  BY <1>1, <1>5, RunKeepsSerial DEF SerialInv
<1>6. CASE UNCHANGED vars
  BY <1>1, <1>2, <1>6 DEF vars, SerialInv
<1> QED
  BY <1>3, <1>4, <1>5, <1>6 DEF Next

\* One key's deliveries one after the other: redeliveries, resends, the second
\* hook, crashes and lost answers post nothing twice.
THEOREM NothingPostedTwice ==
    ASSUME ~OverlapPerKey PROVE Spec => []PostedAtMostOnce
<1>1. SerialInv => PostedAtMostOnce
  BY DEF SerialInv
<1>2. SerialInv /\ [Next]_vars => SerialInv'
  BY SerialNext
<1> QED
  BY <1>1, <1>2, SerialInit, PTL DEF Spec

\* One key's deliveries one after the other: no reset takes away the allowance
\* that has just been granted.
THEOREM NoLateReset ==
    ASSUME ~OverlapPerKey PROVE Spec => ResetPrecedesGrant
<1>1. SerialInv /\ [Next]_vars => SerialInv'
  BY SerialNext
<1>2. ASSUME SerialInv, SerialInv', [Next]_vars, NEW p \in Periods,
             applied[<<"grant", p>>] > 0
      PROVE  applied'[<<"reset", p>>] = applied[<<"reset", p>>]
  <2>1. <<"reset", p>> \in Keys
    BY DEF Keys
  <2>2. applied[<<"reset", p>>] > 0
    BY <1>2 DEF SerialInv, FulfilmentInv, GrantFollowsReset
  <2>3. Grows
    <3>1. \/ UNCHANGED applied
          \/ \E h \in Handlers : pc[h] = "post" /\ applied' = [applied EXCEPT ![key[h]] = @ + 1]
      BY <1>2, StepsRun
      DEF Next, vars, rows, SerialInv, Pay, Subscribe, Resend, Deploy, Deliver
    <3> QED
      BY <3>1, StillGrows, PostKeepsOrder, <1>2 DEF SerialInv, FulfilmentInv
  <2>4. applied'[<<"reset", p>>] <= 1 /\ applied \in [Keys -> Nat] /\ applied' \in [Keys -> Nat]
    BY <1>2, <2>1, <2>3 DEF SerialInv, FulfilmentInv, TypeOK, PostedAtMostOnce, Grows
  <2> QED
    BY <2>1, <2>2, <2>3, <2>4 DEF Grows
<1>3. SerialInv /\ SerialInv' /\ [Next]_vars =>
        [\A p \in Periods :
            applied[<<"grant", p>>] > 0 =>
                applied'[<<"reset", p>>] = applied[<<"reset", p>>]]_applied
  BY <1>2
<1> QED
  BY <1>1, <1>3, SerialInit, PTL DEF Spec, ResetPrecedesGrant

-------------------------------------------------------------------------------
(***************************************************************************)
(* What Stripe is no longer owed.                                          *)
(***************************************************************************)

\* A payment that is being handled is still owed, and its purchase is fulfilled
\* when the request is about to end with success.
PaymentsInHand ==
    \A h \in Handlers : pc[h] # "idle" /\ event[h] \in Sessions =>
        /\ event[h] \in owed
        /\ pc[h] = "answer" => purchase[event[h]] = "fulfilled"

PaymentInv == PaymentsInHand /\ AcknowledgedIsFulfilled

\* What a step of a handler does to what is owed and to purchases.
LEMMA PaymentOf ==
    ASSUME FulfilmentInv, NEW h \in Handlers,
           Step(h) \/ Fail(h) \/ PostUnanswered(h) \/ Crash(h)
    PROVE  /\ happened' = happened
           /\ \/ UNCHANGED owed
              \/ /\ pc[h] \in Ending /\ pc'[h] = "idle"
                 /\ owed' = owed \ {event[h]} /\ UNCHANGED purchase
           /\ \/ UNCHANGED purchase
              \/ /\ event[h] \in Sessions /\ pc[h] # "idle"
                 /\ \A s \in Sessions \ {event[h]} : purchase'[s] = purchase[s]
           /\ event[h] \in Sessions /\ pc'[h] = "answer" =>
                 purchase'[event[h]] = "fulfilled"
<1>1. /\ pc \in [Handlers -> Steps]
      /\ purchase \in [Sessions -> {"none", "paid", "fulfilled"}]
      /\ pc[h] \in {"recordPaid", "fulfil"} => event[h] \in Sessions
      /\ event[h] \in Sessions => event[h] \notin Hooks
  BY EventAssumption DEF FulfilmentInv, TypeOK
<1>2. CASE Resolve(h)
  BY <1>1, <1>2 DEF Resolve, Continue, Leave, Goto, stripe, rows
<1>3. CASE RecordPaid(h)
  BY <1>1, <1>3 DEF RecordPaid, Goto, stripe
<1>4. CASE Look(h)
  BY <1>1, <1>4 DEF Look, AfterPosting, StartAt, Goto, stripe, rows
<1>5. CASE Post(h)
  BY <1>1, <1>5 DEF Post, AfterPosting, StartAt, Goto, stripe
<1>6. CASE MarkFulfilled(h)
  BY <1>1, <1>6 DEF MarkFulfilled, Goto, stripe
<1>7. CASE Answer(h)
  BY <1>1, <1>7 DEF Answer, Leave, Goto, rows
<1>8. CASE Fail(h)
  BY <1>1, <1>8 DEF Fail, Throw, Continue, Leave, Goto, stripe, rows
<1>9. CASE PostUnanswered(h)
  BY <1>1, <1>9 DEF PostUnanswered, Throw, Continue, Leave, Goto, stripe
<1>10. CASE Crash(h)
  BY <1>1, <1>10 DEF Crash, Leave, Goto, stripe, rows
<1> QED
  BY <1>2, <1>3, <1>4, <1>5, <1>6, <1>7, <1>8, <1>9, <1>10 DEF Step

\* A handler at work on a payment is the only one that touches it.
LEMMA RunKeepsPayments ==
    ASSUME SerialInv, PaymentInv, NEW h \in Handlers,
           Step(h) \/ Fail(h) \/ PostUnanswered(h) \/ Crash(h)
    PROVE  PaymentInv'
<1>0. FulfilmentInv /\ TypeOK
  BY DEF SerialInv, FulfilmentInv
<1>1. PICK step, e, k : Runs(h, step, e, k)
  BY <1>0, StepsRun
<1>2. \A g \in Handlers :
        \/ g = h /\ pc'[g] = step /\ event'[g] = e /\ key'[g] = k
        \/ g # h /\ pc'[g] = pc[g] /\ event'[g] = event[g] /\ key'[g] = key[g]
  BY <1>0, <1>1, OthersStay DEF Runs
<1>3. pc[h] # "idle" /\ event[h] \in Events
  BY <1>0, <1>1 DEF Runs, TypeOK
<1>4. ASSUME NEW g \in Handlers, pc'[g] # "idle", event'[g] \in Sessions
      PROVE  /\ event'[g] \in owed'
             /\ pc'[g] = "answer" => purchase'[event'[g]] = "fulfilled"
  <2>1. CASE g = h
    <3>1. event'[h] = event[h]
      BY <1>1, <1>2, <1>4, <2>1 DEF Runs
    <3> QED
      BY <1>0, <1>3, <1>4, <2>1, <3>1, PaymentOf DEF PaymentInv, PaymentsInHand
  <2>2. CASE g # h
    <3>1. pc[g] = pc'[g] /\ event[g] = event'[g]
      BY <1>2, <2>2
    <3>2. GrantKey(event[g]) # GrantKey(event[h])
      BY <1>3, <1>4, <2>2, <3>1 DEF SerialInv, KeysAreExclusive
    <3>3. event[g] # event[h]
      BY <3>2
    <3> QED
      BY <1>0, <1>4, <3>1, <3>3, PaymentOf DEF PaymentInv, PaymentsInHand
  <2> QED
    BY <2>1, <2>2
<1>5. ASSUME NEW s \in (happened' \ owed') \cap Sessions
      PROVE  purchase'[s] = "fulfilled"
  <2>1. CASE s \in owed
    <3>1. pc[h] \in Ending /\ s = event[h] /\ UNCHANGED purchase
      BY <1>0, <1>5, <2>1, PaymentOf
    <3>2. pc[h] = "answer"
      BY <1>0, <1>5, <3>1, EventAssumption
      DEF FulfilmentInv, SoundHandlers, Sound, SoundEnd, Ending
    <3> QED
      BY <1>5, <3>1, <3>2 DEF PaymentInv, PaymentsInHand
  <2>2. CASE s \notin owed
    <3>1. purchase[s] = "fulfilled" /\ ~(s = event[h])
      BY <1>0, <1>3, <1>5, <2>2, PaymentOf
      DEF PaymentInv, PaymentsInHand, AcknowledgedIsFulfilled
    <3> QED
      BY <1>0, <1>5, <3>1, PaymentOf
  <2> QED
    BY <2>1, <2>2
<1> QED
  BY <1>4, <1>5 DEF PaymentInv, PaymentsInHand, AcknowledgedIsFulfilled

\* A delivery is of an event that is owed, and is not over as it begins.
LEMMA DeliverKeepsPayments ==
    ASSUME TypeOK, PaymentInv, NEW h \in Handlers, NEW e \in Events, Deliver(h, e)
    PROVE  PaymentInv'
<1>1. /\ UNCHANGED <<stripe, purchase>> /\ e \in owed
      /\ event' = [event EXCEPT ![h] = e]
  BY DEF Deliver, rows
<1>2. PICK step \in {"resolve", "look", "answer"} :
        /\ pc' = [pc EXCEPT ![h] = step]
        /\ e \in Sessions => step # "answer"
  BY EventAssumption DEF Deliver, Route, StartAt, Goto
<1>3. \A g \in Handlers :
        \/ g = h /\ pc'[g] = step /\ event'[g] = e
        \/ g # h /\ pc'[g] = pc[g] /\ event'[g] = event[g]
  BY <1>1, <1>2 DEF TypeOK
<1> QED
  BY <1>1, <1>2, <1>3 DEF PaymentInv, PaymentsInHand, AcknowledgedIsFulfilled, stripe

\* Every step keeps what is known of payments.
LEMMA PaymentNext ==
    SerialInv /\ PaymentInv /\ [Next]_vars => PaymentInv'
<1> SUFFICES ASSUME SerialInv, PaymentInv, [Next]_vars PROVE PaymentInv'
  OBVIOUS
<1>1. TypeOK
  BY DEF SerialInv, FulfilmentInv
<1>2. ASSUME NEW e \in Events,
             \/ happened' = happened \cup {e}
             \/ UNCHANGED happened,
             owed' = owed \cup {e}, UNCHANGED <<purchase, pc, event>>
      PROVE  PaymentInv'
  BY <1>2 DEF PaymentInv, PaymentsInHand, AcknowledgedIsFulfilled
<1>3. CASE \/ \E s \in Sessions : Pay(s)
           \/ \E e \in Hooks : Subscribe(e)
           \/ \E e \in Events : Resend(e)
  BY <1>2, <1>3 DEF Pay, Subscribe, Resend, rows, Events
<1>4. ASSUME UNCHANGED <<stripe, purchase, pc, event>> PROVE PaymentInv'
  BY <1>4 DEF PaymentInv, PaymentsInHand, AcknowledgedIsFulfilled, stripe
<1>5. CASE Deploy \/ UNCHANGED vars
  BY <1>4, <1>5 DEF Deploy, vars, rows, stripe
<1>6. ASSUME NEW h \in Handlers, NEW e \in Events, Deliver(h, e)
      PROVE  PaymentInv'
  BY <1>1, <1>6, DeliverKeepsPayments
<1>7. ASSUME NEW h \in Handlers, Step(h) \/ Fail(h) \/ PostUnanswered(h) \/ Crash(h)
      PROVE  PaymentInv'
  BY <1>7, RunKeepsPayments
<1> QED
  BY <1>3, <1>5, <1>6, <1>7 DEF Next

\* One key's deliveries one after the other: when Stripe is owed nothing for a
\* payment its purchase is fulfilled, though every redelivery of it sets the
\* purchase back to paid.
THEOREM AcknowledgedPurchasesAreFulfilled ==
    ASSUME ~OverlapPerKey PROVE Spec => []AcknowledgedIsFulfilled
<1>1. Init => PaymentInv
  BY DEF Init, PaymentInv, PaymentsInHand, AcknowledgedIsFulfilled
<1>2. SerialInv /\ [Next]_vars => SerialInv'
  BY SerialNext
<1>3. PaymentInv => AcknowledgedIsFulfilled
  BY DEF PaymentInv
<1> QED
  BY <1>1, <1>2, <1>3, SerialInit, PaymentNext, PTL DEF Spec


-------------------------------------------------------------------------------
(***************************************************************************)
(* The contract of the ledger, KeyedPosting.                               *)
(***************************************************************************)

StageAt(step, e) ==
    CASE step \in {"look", "post"} -> step
      [] step \in {"fulfil", "answer"} /\ Posts(e) -> "served"
      [] OTHER -> "away"

KeyAt(step, e, k) == IF StageAt(step, e) = "away" THEN NoEvent ELSE k

\* A handler that moves takes one turn of the contract.
LEMMA HandlerTurns ==
    ASSUME TypeOK, NEW h \in Handlers, NEW step, NEW e, NEW k, Moves(h, step, e, k),
           NEW s, NEW l, StageAt(step, e) = s, KeyAt(step, e, k) = l
    PROVE  /\ Service!Turn(h, s, l)
           /\ StageOf(h) = s /\ KeyAt(pc[h], event[h], key[h]) = l =>
                 UNCHANGED <<[g \in Handlers |-> StageOf(g)],
                             [g \in Handlers |-> IF StageOf(g) = "away" THEN NoEvent ELSE key[g]]>>
<1>1. \A g \in Handlers : StageOf(g) = StageAt(pc[g], event[g])
  BY DEF StageOf, StageAt
<1>2. \A g \in Handlers : StageOf(g)' = StageAt(pc'[g], event'[g])
  BY DEF StageOf, StageAt
<1>3. \A g \in Handlers :
         \/ g = h /\ pc'[g] = step /\ event'[g] = e /\ key'[g] = k
         \/ g # h /\ pc'[g] = pc[g] /\ event'[g] = event[g] /\ key'[g] = key[g]
  BY OthersStay
<1>4. /\ StageOf(h)' = s
      /\ \A g \in Handlers \ {h} : StageOf(g)' = StageOf(g)
  BY <1>1, <1>2, <1>3
<1>5. QED
  BY <1>1, <1>3, <1>4 DEF Service!Turn, KeyAt

\* A handler that ends its call, or has none.
LEMMA HandlerLeaves ==
    ASSUME TypeOK, NEW h \in Handlers, NEW step, NEW e, NEW k, Moves(h, step, e, k),
           StageAt(step, e) = "away", UNCHANGED applied
    PROVE  Service!Next \/ UNCHANGED Service!vars
<1>1. KeyAt(step, e, k) = NoEvent
  BY DEF KeyAt
<1>2. CASE StageOf(h) = "away"
  <2>1. KeyAt(pc[h], event[h], key[h]) = NoEvent
    BY <1>2 DEF KeyAt, StageAt, StageOf
  <2>2. QED
    BY <1>1, <1>2, <2>1, HandlerTurns DEF Service!vars
<1>3. CASE StageOf(h) # "away"
  <2>1. Service!Turn(h, "away", NoEvent)
    BY <1>1, HandlerTurns
  <2>2. Service!Leave(h)
    BY <1>3, <2>1 DEF Service!Leave
  <2>3. QED
    BY <2>2 DEF Service!Next
<1>4. QED
  BY <1>2, <1>3

\* A handler that is away and asks for a key.
LEMMA HandlerAsks ==
    ASSUME TypeOK, NEW h \in Handlers, NEW e, NEW k \in Keys, Moves(h, "look", e, k),
           StageOf(h) = "away", UNCHANGED applied
    PROVE  Service!Next
<1>1. StageAt("look", e) = "look" /\ KeyAt("look", e, k) = k
  BY DEF StageAt, KeyAt
<1>2. Service!Turn(h, "look", k)
  BY <1>1, HandlerTurns
<1>3. Service!Ask(h)
  BY <1>2 DEF Service!Ask, Service!AskNext
<1>4. QED
  BY <1>3 DEF Service!Next

\* What follows a posting is what the contract allows a caller who is served.
LEMMA HandlerServed ==
    ASSUME FulfilmentInv, NEW h \in Handlers, pc[h] \in {"look", "post"},
           AfterPosting(h), UNCHANGED event
    PROVE  Service!Served(h)
<1>1. /\ TypeOK /\ key[h] \in Keys /\ event[h] \in Events
      /\ SoundKey(applied, pc[h], event[h], key[h])
  BY DEF FulfilmentInv, TypeOK, SoundHandlers, Sound
<1>2. PICK k \in Keys : k = key[h]
  BY <1>1
<1>3. [g \in Handlers |-> IF StageOf(g) = "away" THEN NoEvent ELSE key[g]][h] = k
  BY <1>2 DEF StageOf
<1>4. CASE GrantIsNext(h) /\ event[h] \in Hooks
  <2>1. PICK g \in Keys : g = GrantKey(event[h])
    BY <1>4, KeysOfEvents, PeriodAssumption, <1>1 DEF GrantIsNext
  <2>2. Moves(h, "look", event[h], g)
    BY <1>1, <1>4, <2>1, EventAssumption DEF AfterPosting, StartAt, Goto, Moves, TypeOK
  <2>3. StageAt("look", event[h]) = "look" /\ KeyAt("look", event[h], g) = g
    BY DEF StageAt, KeyAt
  <2>4. Service!Turn(h, "look", g)
    BY <1>1, <2>2, <2>3, HandlerTurns
  <2>5. QED
    BY <2>4 DEF Service!Served, Service!AskNext
<1>5. CASE ~(GrantIsNext(h) /\ event[h] \in Hooks)
  <2>1. Posts(event[h])
    BY <1>1, PeriodAssumption, EventAssumption DEF SoundKey, Posts
  <2>2. PICK step \in {"fulfil", "answer"} : Goto(h, step) /\ UNCHANGED key
    BY <1>5 DEF AfterPosting
  <2>3. Moves(h, step, event[h], k)
    BY <1>2, <2>2, ContinueMoves
  <2>4. StageAt(step, event[h]) = "served" /\ KeyAt(step, event[h], k) = k
    BY <2>1 DEF StageAt, KeyAt
  <2>5. Service!Turn(h, "served", k)
    BY <1>1, <2>3, <2>4, HandlerTurns
  <2>6. QED
    BY <1>3, <2>5 DEF Service!Served, Service!Turn
<1>6. QED
  BY <1>4, <1>5

\* What a handler at work does.
LEMMA HandlerPosts ==
    ASSUME FulfilmentInv, NEW h \in Handlers,
           Step(h) \/ Fail(h) \/ PostUnanswered(h) \/ Crash(h)
    PROVE  Service!Next \/ UNCHANGED Service!vars
<1>1. TypeOK /\ applied \in [Keys -> Nat] /\ pc \in [Handlers -> Steps]
  BY DEF FulfilmentInv, TypeOK
<1>2. StageAt("idle", NoEvent) = "away" /\ StageAt("swallowed", event[h]) = "away"
      /\ StageAt("recordPaid", event[h]) = "away"
  BY DEF StageAt
<1>3. pc[h] \in {"look", "post"} =>
         /\ StageOf(h) = pc[h] /\ key[h] \in Keys
         /\ [g \in Handlers |-> IF StageOf(g) = "away" THEN NoEvent ELSE key[g]][h] = key[h]
  BY <1>1 DEF StageOf, TypeOK
<1>4. Leave(h) /\ UNCHANGED applied => Service!Next \/ UNCHANGED Service!vars
  BY <1>1, <1>2, LeaveIsSound, HandlerLeaves
<1>5. Throw(h) /\ UNCHANGED applied => Service!Next \/ UNCHANGED Service!vars
  BY <1>1, <1>2, <1>4, ContinueMoves, HandlerLeaves DEF Throw, Continue
<1>6. CASE Resolve(h)
  BY <1>1, <1>2, <1>4, <1>6, ContinueMoves, HandlerLeaves DEF Resolve, Continue, rows
<1>7. CASE RecordPaid(h)
  <2>1. StageOf(h) = "away" /\ UNCHANGED applied
    BY <1>7 DEF RecordPaid, StageOf
  <2>2. SoundKey(applied, pc[h], event[h], key[h]) /\ event[h] \in Sessions
    BY <1>7 DEF RecordPaid, FulfilmentInv, TypeOK, SoundHandlers, Sound
  <2>3. key[h] \in Keys
    BY <1>7, <2>2 DEF RecordPaid, SoundKey, Keys
  <2>4. Moves(h, "look", event[h], key[h])
    BY <1>7, ContinueMoves DEF RecordPaid
  <2>5. QED
    BY <1>1, <2>1, <2>3, <2>4, HandlerAsks
<1>8. CASE Look(h)
  <2>1. pc[h] = "look" /\ UNCHANGED applied /\ UNCHANGED event
    BY <1>8 DEF Look, rows
  <2>2. CASE applied[key[h]] > 0
    <3>1. Service!Served(h)
      BY <1>8, <2>1, <2>2, HandlerServed DEF Look
    <3>2. Service!Find(h)
      BY <1>3, <2>1, <2>2, <3>1 DEF Service!Find
    <3>3. QED
      BY <3>2 DEF Service!Next
  <2>3. CASE ~(applied[key[h]] > 0)
    <3>1. PICK k : k = key[h]
      OBVIOUS
    <3>2. Moves(h, "post", event[h], k)
      BY <1>8, <2>1, <2>3, <3>1, ContinueMoves DEF Look
    <3>3. StageAt("post", event[h]) = "post" /\ KeyAt("post", event[h], k) = k
      BY DEF StageAt, KeyAt
    <3>4. Service!Turn(h, "post", k)
      BY <1>1, <3>2, <3>3, HandlerTurns
    <3>5. applied[k] = 0
      BY <1>1, <1>3, <2>1, <2>3, <3>1
    <3>6. Service!Miss(h)
      BY <1>3, <2>1, <3>1, <3>4, <3>5 DEF Service!Miss, Service!Turn
    <3>7. QED
      BY <3>6 DEF Service!Next
  <2>4. QED
    BY <2>2, <2>3
<1>9. CASE Post(h)
  <2>1. Service!Served(h)
    BY <1>9, HandlerServed DEF Post
  <2>2. Service!Post(h)
    BY <1>3, <1>9, <2>1 DEF Post, Service!Post
  <2>3. QED
    BY <2>2 DEF Service!Next
<1>10. CASE PostUnanswered(h)
  <2>1. PICK step, e, k : Moves(h, step, e, k) /\ StageAt(step, e) = "away"
    BY <1>2, <1>10, LeaveIsSound, ContinueMoves DEF PostUnanswered, Throw, Continue
  <2>2. Service!Turn(h, "away", NoEvent)
    BY <1>1, <2>1, HandlerTurns DEF KeyAt
  <2>3. Service!Post(h)
    BY <1>3, <1>10, <2>2 DEF PostUnanswered, Service!Post
  <2>4. QED
    BY <2>3 DEF Service!Next
<1>11. CASE MarkFulfilled(h)
  <2>1. pc[h] = "fulfil" /\ Moves(h, "answer", event[h], key[h]) /\ UNCHANGED applied
    BY <1>11, ContinueMoves DEF MarkFulfilled
  <2>2. Posts(event[h])
    BY <1>1, <2>1, EventAssumption DEF TypeOK, Posts
  <2>3. /\ StageAt("answer", event[h]) = "served" /\ StageOf(h) = "served"
        /\ KeyAt("answer", event[h], key[h]) = key[h]
        /\ KeyAt(pc[h], event[h], key[h]) = key[h]
    BY <2>1, <2>2 DEF StageAt, StageOf, KeyAt
  <2>4. QED
    BY <1>1, <2>1, <2>3, HandlerTurns DEF Service!vars
<1>12. CASE Answer(h) \/ Crash(h)
  BY <1>4, <1>12 DEF Answer, Crash, rows
<1>13. CASE Fail(h)
  BY <1>5, <1>13 DEF Fail, rows
<1>14. QED
  BY <1>6, <1>7, <1>8, <1>9, <1>10, <1>11, <1>12, <1>13 DEF Step

\* A delivery asks for its reset, or for nothing yet.
LEMMA DeliveryAsks ==
    ASSUME FulfilmentInv, NEW h \in Handlers, NEW e \in Events, Deliver(h, e)
    PROVE  Service!Next \/ UNCHANGED Service!vars
<1>1. /\ TypeOK /\ pc[h] = "idle" /\ StageOf(h) = "away" /\ UNCHANGED applied
  BY DEF FulfilmentInv, Deliver, StageOf, rows
<1>2. CASE e \in Sessions /\ StartAt(h, "resolve", GrantKey(e))
  <2>1. Moves(h, "resolve", e, GrantKey(e)) /\ StageAt("resolve", e) = "away"
    BY <1>2 DEF Deliver, StartAt, Goto, Moves, StageAt
  <2>2. QED
    BY <1>1, <2>1, HandlerLeaves
<1>3. CASE e \in Hooks /\ PeriodOf[e] # NoPeriod /\ StartAt(h, "look", ResetKey(e))
  <2>1. Moves(h, "look", e, ResetKey(e))
    BY <1>3 DEF Deliver, StartAt, Goto, Moves
  <2>2. ResetKey(e) \in Keys
    BY <1>3, KeysOfEvents
  <2>3. QED
    BY <1>1, <2>1, <2>2, HandlerAsks
<1>4. CASE e \in Hooks /\ PeriodOf[e] = NoPeriod /\ Goto(h, "answer") /\ UNCHANGED key
  <2>1. Moves(h, "answer", e, key[h]) /\ StageAt("answer", e) = "away"
    BY <1>1, <1>4 DEF Deliver, Goto, Moves, StageAt, Posts, TypeOK
  <2>2. QED
    BY <1>1, <2>1, HandlerLeaves
<1>5. QED
  BY <1>2, <1>3, <1>4 DEF Deliver, Route

\* The webhook handlers ask no more of the ledger than its contract, which is the one
\* CreditLedger keeps: what is shown here of postings needs nothing else of the ledger.
THEOREM HandlersKeepContract == Spec => PostsByContract
<1>1. Init => Service!Init
  BY DEF Init, Service!Init, StageOf
<1>2. ASSUME FulfilmentInv, [Next]_vars
      PROVE  [Service!Next]_(Service!vars)
  <2>1. UNCHANGED <<applied, pc, event, key>> => UNCHANGED Service!vars
    BY DEF Service!vars, StageOf
  <2>2. \/ \E s \in Sessions : Pay(s)
        \/ \E e \in Hooks : Subscribe(e)
        \/ \E e \in Events : Resend(e)
        \/ Deploy
        \/ UNCHANGED vars
        => UNCHANGED <<applied, pc, event, key>>
    BY DEF Pay, Subscribe, Resend, Deploy, vars, rows
  <2>3. QED
    BY <1>2, <2>1, <2>2, DeliveryAsks, HandlerPosts DEF Next
<1>3. QED
  BY <1>1, <1>2, FulfilmentHolds, PTL DEF Spec, PostsByContract, Service!Spec

===============================================================================
