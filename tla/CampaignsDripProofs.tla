------------------------- MODULE CampaignsDripProofs -------------------------
(***************************************************************************)
(* Theorems about Campaigns: its handlers implement DripMail.              *)
(***************************************************************************)
EXTENDS CampaignsProofs

-------------------------------------------------------------------------------
(***************************************************************************)
(* The drip.  A process on its way to the provider has read that nothing   *)
(* stands against the mail.  Whatever closes an enrollment closes it for   *)
(* good: an ended one stays ended, a barred contact stays barred, and a    *)
(* process that reads either is not on its way.                            *)
(***************************************************************************)
MailIsClear == \A p \in Processes : pc[p] = "mail" => clear[p]

Way == {"loadSequence", "bars", "mail"}

\* Nothing opens an enrollment or a contact again.
StaysShut ==
    /\ \A e \in Enrollments : status[e] \in Ended => status'[e] \in Ended
    /\ barred \subseteq barred'

\* A process moves, if at all, to somewhere off the way.
OffTheWay(q) ==
    \/ pc'[q] = pc[q] /\ row'[q] = row[q] /\ clear'[q] = clear[q]
    \/ pc'[q] \notin Way

Shuts == MailIsClear' /\ Closed \subseteq Closed' /\ UNCHANGED mails

LEMMA FrameShuts ==
    ASSUME MailIsClear, StaysShut, UNCHANGED mails, \A q \in Processes : OffTheWay(q)
    PROVE  Shuts
<1>1. MailIsClear'
  BY DEF MailIsClear, OffTheWay, Way
<1>2. \A e \in Enrollments :
         /\ OnTheWay(e, {"mail"})' => OnTheWay(e, {"mail"})
         /\ OnTheWay(e, Way)' => OnTheWay(e, Way)
  BY DEF OnTheWay, OffTheWay, Way
<1>3. Closed \subseteq Closed'
  BY <1>2 DEF Closed, StaysShut, Way
<1>4. QED
  BY <1>1, <1>3 DEF Shuts

LEMMA OutsideShuts ==
    ASSUME MailIsClear, StaysShut, UNCHANGED <<mails, pc, view>>
    PROVE  Shuts
BY FrameShuts DEF OffTheWay, view

LEMMA MoveShuts ==
    ASSUME BaseInv, MailIsClear, StaysShut, UNCHANGED mails,
           NEW p \in Processes, NEW step, step \notin Way, Goto(p, step),
           \A q \in Processes \ {p} : row'[q] = row[q] /\ clear'[q] = clear[q]
    PROVE  Shuts
<1>1. pc'[p] = step /\ \A q \in Processes \ {p} : pc'[q] = pc[q]
  BY DEF Goto, BaseInv, ProcessesOK
<1>2. QED
  BY <1>1, FrameShuts DEF OffTheWay

LEMMA FinishShuts ==
    ASSUME BaseInv, MailIsClear, StaysShut, UNCHANGED mails, NEW p \in Processes, Finish(p)
    PROVE  Shuts
<1>1. \A q \in Processes \ {p} : row'[q] = row[q] /\ clear'[q] = clear[q]
  BY DEF Finish, BaseInv, ProcessesOK
<1>2. QED
  BY <1>1, MoveShuts DEF Finish, Way

LEMMA ContinueShuts ==
    ASSUME BaseInv, MailIsClear, StaysShut, UNCHANGED mails, NEW p \in Processes,
           NEW step, step \notin Way, Continue(p, step)
    PROVE  Shuts
BY MoveShuts DEF Continue, view

LEMMA DatabaseShut == UNCHANGED database => StaysShut
BY DEF StaysShut, database, visitors, enrollments

LEMMA ExitShut == ASSUME BaseInv, NEW c, Exit(c), UNCHANGED barred PROVE StaysShut
BY DEF StaysShut, Exit, Ended, BaseInv, TablesOK

LEMMA EnvironmentShuts ==
    ASSUME BaseInv, MailIsClear, Environment
    PROVE  Shuts
<1>1. ASSUME NEW r \in Runs, StartRun(r)
      PROVE  Shuts
  BY <1>1, OutsideShuts DEF StartRun, StaysShut, visitors, enrollments, provider
<1>2. ASSUME NEW b \in BOOLEAN, SetPaused(b)
      PROVE  Shuts
  BY <1>2, OutsideShuts DEF SetPaused, StaysShut, visitors, enrollments, provider
<1>3. ASSUME NEW c \in Contacts, Unsubscribe(c)
      PROVE  Shuts
  BY <1>3, OutsideShuts DEF Unsubscribe, StaysShut, enrollments, provider
<1>4. ASSUME NEW c \in Contacts, Leave(c)
      PROVE  Shuts
  BY <1>4, OutsideShuts, ExitShut DEF Leave, provider
<1>5. ASSUME NEW x \in Rows, NEW m \in Messages, NEW t \in Reports, Report(x, m, t)
      PROVE  Shuts
  BY <1>5, OutsideShuts, DatabaseShut DEF Report
<1>6. ASSUME NEW p \in Processes, NEW S, Call(p, S)
      PROVE  Shuts
  BY <1>6, MoveShuts, DatabaseShut DEF Call, StartEnrolling, Way, view, provider
<1>7. QED
  BY <1>1, <1>2, <1>3, <1>4, <1>5, <1>6 DEF Environment, Processes

LEMMA BeginShuts ==
    ASSUME BaseInv, MailIsClear, NEW w \in Processes, Begin(w)
    PROVE  Shuts
<1>1. ASSUME NEW r \in Runs, BeginEnroll(w, r)
      PROVE  Shuts
  BY <1>1, MoveShuts, DatabaseShut DEF BeginEnroll, StartEnrolling, Way, view, provider
<1>2. ASSUME NEW e \in Enrollments, BeginSchedule(w, e)
      PROVE  Shuts
  BY <1>2, MoveShuts, DatabaseShut DEF BeginSchedule, Way, view, provider
<1>3. ASSUME NEW x \in Rows, row' = [row EXCEPT ![w] = x], UNCHANGED <<database, provider, clear>>,
             NEW step \in {"load", "match"}, Goto(w, step)
      PROVE  Shuts
  <2>1. \A q \in Processes \ {w} : row'[q] = row[q] /\ clear'[q] = clear[q]
    BY <1>3 DEF BaseInv, ProcessesOK
  <2>2. QED
    BY <1>3, <2>1, MoveShuts, DatabaseShut DEF Way, provider
<1>4. QED
  BY <1>1, <1>2, <1>3 DEF Begin, BeginSend, BeginReport

LEMMA EnrollShuts ==
    ASSUME BaseInv, MailIsClear, NEW p \in Processes
    PROVE  /\ \A c \in Contacts : CheckPreference(p, c) \/ CheckEnrolled(p, c) => Shuts
           /\ Create(p) \/ Count(p) \/ EnrollDone(p) => Shuts
           /\ \A e \in Enrollments : FindFirst(p, e) => Shuts
<1>1. ASSUME NEW c \in Contacts, CheckPreference(p, c) \/ CheckEnrolled(p, c)
      PROVE  Shuts
  BY <1>1, OutsideShuts, DatabaseShut DEF CheckPreference, CheckEnrolled, provider
<1>2. ASSUME Create(p)
      PROVE  Shuts
  <2>1. UNCHANGED <<mails, barred>>
    BY <1>2 DEF Create, visitors, provider
  <2>2. CASE Finish(p) /\ UNCHANGED status
    BY <2>1, <2>2, FinishShuts DEF StaysShut
  <2>3. ASSUME NEW new, \A e \in new : Unused(e),
               status' = [e \in Enrollments |-> IF e \in new THEN "active" ELSE status[e]],
               NEW step \in {"count", "first"}, Goto(p, step), UNCHANGED view
        PROVE  Shuts
    <3>1. StaysShut
      BY <2>1, <2>3 DEF StaysShut, Unused, Ended
    <3>2. QED
      BY <2>1, <2>3, <3>1, MoveShuts DEF Way, view
  <2>4. QED
    BY <1>2, <2>2, <2>3 DEF Create
<1>3. ASSUME Count(p)
      PROVE  Shuts
  BY <1>3, ContinueShuts DEF Count, StaysShut, Way, visitors, provider
<1>4. ASSUME EnrollDone(p)
      PROVE  Shuts
  BY <1>4, FinishShuts, DatabaseShut DEF EnrollDone, provider
<1>5. ASSUME NEW e \in Enrollments, FindFirst(p, e)
      PROVE  Shuts
  <2>1. \A q \in Processes \ {p} : row'[q] = row[q] /\ clear'[q] = clear[q]
    BY <1>5 DEF FindFirst, BaseInv, ProcessesOK
  <2>2. QED
    BY <1>5, <2>1, MoveShuts, DatabaseShut DEF FindFirst, Way, provider
<1>6. QED
  BY <1>1, <1>2, <1>3, <1>4, <1>5

LEMMA ScheduleShuts ==
    ASSUME BaseInv, MailIsClear, NEW p \in Processes
    PROVE  LoadNext(p) \/ Find(p) \/ Insert(p) \/ Publish(p) => Shuts
<1>1. ASSUME LoadNext(p)
      PROVE  Shuts
  <2>1. StaysShut /\ UNCHANGED mails
    BY <1>1, DatabaseShut DEF LoadNext, provider
  <2>2. ASSUME NEW r, row' = [row EXCEPT ![p] = r], Goto(p, "find"), UNCHANGED clear
        PROVE  Shuts
    <3>1. \A q \in Processes \ {p} : row'[q] = row[q] /\ clear'[q] = clear[q]
      BY <2>2 DEF BaseInv, ProcessesOK
    <3>2. QED
      BY <2>1, <2>2, <3>1, MoveShuts DEF Way
  <2>3. QED
    BY <1>1, <2>1, <2>2, FinishShuts DEF LoadNext
<1>2. ASSUME Find(p)
      PROVE  Shuts
  BY <1>2, FinishShuts, ContinueShuts, DatabaseShut DEF Find, Way, provider
<1>3. ASSUME Insert(p)
      PROVE  Shuts
  BY <1>3, FinishShuts, ContinueShuts DEF Insert, Stop, StaysShut, Way, visitors,
     enrollments, provider
<1>4. ASSUME Publish(p)
      PROVE  Shuts
  BY <1>4, FinishShuts, ContinueShuts, DatabaseShut DEF Publish, Way, provider
<1>5. QED
  BY <1>1, <1>2, <1>3, <1>4

\* The steps of executeStepSend except the mail and the look at the enrollment.
LEMMA SendShuts ==
    ASSUME BaseInv, MailIsClear, NEW p \in Processes
    PROVE  /\ Load(p) \/ LoadSequence(p) => Shuts
           /\ CheckBars(p) \/ MarkSkipped(p) \/ ExitEnrollment(p) => Shuts
           /\ MarkSent(p) \/ Advance(p) \/ EnqueueNext(p) => Shuts
<1>1. ASSUME Load(p)
      PROVE  Shuts
  BY <1>1, FinishShuts, ContinueShuts, DatabaseShut DEF Load, Way, provider
<1>9. ASSUME LoadSequence(p)
      PROVE  Shuts
  <2>1. StaysShut /\ UNCHANGED <<mails, status, barred>> /\ pc[p] = "loadSequence"
    BY <1>9, DatabaseShut DEF LoadSequence, provider, database, visitors, enrollments
  <2>2. /\ pc'[p] = "bars" /\ row' = row /\ (clear'[p] => clear[p])
        /\ \A q \in Processes \ {p} : pc'[q] = pc[q] /\ clear'[q] = clear[q]
    BY <1>9 DEF LoadSequence, Goto, BaseInv, ProcessesOK
  <2>3. MailIsClear'
    BY <2>2 DEF MailIsClear
  <2>4. \A e \in Enrollments : /\ OnTheWay(e, {"mail"})' => OnTheWay(e, {"mail"})
                               /\ OnTheWay(e, Way)' => OnTheWay(e, Way)
    BY <2>1, <2>2 DEF OnTheWay, Way
  <2>5. Closed \subseteq Closed'
    BY <2>1, <2>4 DEF Closed, Way
  <2>6. QED
    BY <2>1, <2>3, <2>5 DEF Shuts
<1>2. ASSUME CheckBars(p)
      PROVE  Shuts
  <2>1. StaysShut /\ UNCHANGED <<mails, status, barred>> /\ pc[p] = "bars"
    BY <1>2, DatabaseShut DEF CheckBars, provider, database, visitors, enrollments
  <2>2. CASE Continue(p, "mail") /\ clear[p] /\ Contact(row[p][1]) \notin barred
    <3>1. /\ pc'[p] = "mail" /\ row' = row /\ clear' = clear
          /\ \A q \in Processes \ {p} : pc'[q] = pc[q]
      BY <2>2 DEF Continue, Goto, view, BaseInv, ProcessesOK
    <3>2. MailIsClear'
      BY <2>2, <3>1 DEF MailIsClear
    <3>3. \A e \in Enrollments : OnTheWay(e, Way)' => OnTheWay(e, Way)
      BY <2>1, <2>2, <3>1 DEF OnTheWay, Way
    <3>4. \A e \in Enrollments : OnTheWay(e, {"mail"})'
                                   => OnTheWay(e, {"mail"}) \/ Contact(e) \notin barred
      BY <2>2, <3>1 DEF OnTheWay
    <3>5. Closed \subseteq Closed'
      BY <2>1, <3>3, <3>4 DEF Closed, Way
    <3>6. QED
      BY <2>1, <3>2, <3>5 DEF Shuts
  <2>3. QED
    BY <1>2, <2>1, <2>2, ContinueShuts DEF CheckBars, Way
<1>3. ASSUME MarkSkipped(p)
      PROVE  Shuts
  BY <1>3, FinishShuts, ContinueShuts DEF MarkSkipped, StaysShut, Way, visitors,
     enrollments, provider
<1>4. ASSUME ExitEnrollment(p)
      PROVE  Shuts
  <2>1. StaysShut
    BY <1>4 DEF ExitEnrollment, StaysShut, visitors, Ended, BaseInv, TablesOK
  <2>2. QED
    BY <1>4, <2>1, FinishShuts DEF ExitEnrollment, provider
<1>5. ASSUME MarkSent(p)
      PROVE  Shuts
  BY <1>5, ContinueShuts DEF MarkSent, StaysShut, Way, visitors, enrollments, provider
<1>6. ASSUME Advance(p)
      PROVE  Shuts
  <2>1. StaysShut
    BY <1>6 DEF Advance, StaysShut, visitors, Ended, BaseInv, TablesOK
  <2>2. QED
    BY <1>6, <2>1, FinishShuts, ContinueShuts DEF Advance, Way, provider
<1>7. ASSUME EnqueueNext(p)
      PROVE  Shuts
  BY <1>7, FinishShuts, DatabaseShut DEF EnqueueNext, provider
<1>8. QED
  BY <1>1, <1>2, <1>3, <1>4, <1>5, <1>6, <1>7, <1>9

LEMMA ReportShuts ==
    ASSUME BaseInv, MailIsClear, NEW p \in Processes
    PROVE  Match(p) \/ MarkReported(p) \/ Suppress(p) \/ ExitSuppressed(p) => Shuts
<1>1. Match(p) => Shuts
  BY FinishShuts, ContinueShuts, DatabaseShut DEF Match, Way, provider
<1>2. MarkReported(p) => Shuts
  BY FinishShuts, ContinueShuts DEF MarkReported, StaysShut, Way, visitors, enrollments,
     provider
<1>3. Suppress(p) => Shuts
  BY ContinueShuts DEF Suppress, StaysShut, Way, enrollments, provider
<1>4. ExitSuppressed(p) => Shuts
  BY FinishShuts, ExitShut DEF ExitSuppressed, visitors, provider
<1>5. QED
  BY <1>1, <1>2, <1>3, <1>4

LEMMA MishapShuts ==
    ASSUME BaseInv, MailIsClear, GoesWrong
    PROVE  Shuts
<1>1. ASSUME NEW p \in Processes, Interrupt(p)
      PROVE  Shuts
  BY <1>1, FinishShuts, DatabaseShut DEF Interrupt, Stop, provider
<1>2. ASSUME NEW w \in Processes, Redeliver(w)
      PROVE  Shuts
  BY <1>2, OutsideShuts, DatabaseShut DEF Redeliver, provider
<1>3. ASSUME NEW j, Drain(j)
      PROVE  Shuts
  BY <1>3, OutsideShuts, DatabaseShut DEF Drain, provider
<1>4. ASSUME NEW r, StartRunStops(r)
      PROVE  Shuts
  BY <1>4, OutsideShuts DEF StartRunStops, StaysShut, visitors, enrollments, provider
<1>5. ASSUME NEW c, RequestStops(c) \/ LoseAddress(c)
      PROVE  Shuts
  BY <1>5, OutsideShuts DEF RequestStops, LoseAddress, StaysShut, enrollments, provider
<1>6. QED
  BY <1>1, <1>2, <1>3, <1>4, <1>5 DEF GoesWrong, Processes

\* The look at the enrollment closes and opens none; it may show that the handler
\* was outrun.
LEMMA LookDrips ==
    ASSUME BaseInv, MailIsClear, NEW p \in Processes, LoadEnrollment(p)
    PROVE  MailIsClear' /\ [Drip!Next]_Drip!vars
<1>1. /\ row[p] \in Rows /\ row[p][1] \in Enrollments /\ pc[p] = "loadEnrollment"
      /\ UNCHANGED <<mails, status, barred, row>>
  BY RowParts DEF LoadEnrollment, BaseInv, Hands, Holds, SendSteps, database, visitors,
     enrollments, provider
<1>2. /\ pc'[p] = "loadSequence" /\ clear'[p] = Active(row[p][1])
      /\ \A q \in Processes \ {p} : pc'[q] = pc[q] /\ clear'[q] = clear[q]
  BY DEF LoadEnrollment, Goto, BaseInv, ProcessesOK
<1>3. MailIsClear'
  BY <1>2 DEF MailIsClear
<1>4. \A e \in Enrollments : OnTheWay(e, {"mail"})' <=> OnTheWay(e, {"mail"})
  BY <1>1, <1>2 DEF OnTheWay
<1>5. \A e \in Enrollments :
         /\ OnTheWay(e, Way) => OnTheWay(e, Way)'
         /\ OnTheWay(e, Way)' => OnTheWay(e, Way) \/ status[e] = "active"
  BY <1>1, <1>2 DEF OnTheWay, Way, Active
<1>6. Closed' = Closed
  <2>1. \A e \in Enrollments : e \in Closed' <=> e \in Closed
    BY <1>1, <1>4, <1>5 DEF Closed, Ended, Way
  <2>2. Closed' \subseteq Enrollments /\ Closed \subseteq Enrollments
    BY DEF Closed
  <2>3. QED
    BY <2>1, <2>2
<1>7. CASE outrun' = outrun
  BY <1>1, <1>3, <1>6, <1>7 DEF Drip!vars
<1>8. CASE outrun' = outrun \cup {row[p][1]}
  <2>1. Drip!Stray(row[p][1])
    BY <1>1, <1>6, <1>8 DEF Drip!Stray
  <2>2. QED
    BY <1>1, <1>3, <2>1 DEF Drip!Next
<1>9. QED
  BY <1>7, <1>8 DEF LoadEnrollment

\* A mail goes to an enrollment that is not closed, and, unless it was outrun, after
\* the steps in front of it.
LEMMA MailDrips ==
    ASSUME BaseInv, OrderInv, MailIsClear, NEW p \in Processes, Mail(p)
    PROVE  MailIsClear' /\ Drip!Mail(row[p][1], row[p][2])
<1> DEFINE x == row[p]
           e == row[p][1]
           k == row[p][2]
<1>1. /\ x \in Rows /\ e \in Enrollments /\ k \in Steps /\ x = <<e, k>>
      /\ pc[p] = "mail" /\ clear[p]
      /\ UNCHANGED <<status, barred, row, clear, outrun>>
  BY RowParts DEF Mail, BaseInv, Hands, Holds, SendSteps, MailIsClear, database, visitors,
     enrollments, history
<1>2. pc'[p] = "markSent" /\ \A q \in Processes \ {p} : pc'[q] = pc[q]
  BY DEF Mail, Goto, BaseInv, ProcessesOK
<1>3. MailIsClear'
  BY <1>1, <1>2 DEF MailIsClear
<1>4. e \notin Closed
  BY <1>1 DEF Closed, OnTheWay, Way
<1>5. e \in outrun \/ \A j \in 1 .. (k - 1) : <<e, j>> \in {y \in Rows : mails[y] > 0}
  <2>1. Ready(x, send, mails, outrun)
    BY <1>1 DEF OrderInv, EveryoneIsSound, Sound, SendSteps, OrderTables, RowsAreReady
  <2>2. \A j \in 1 .. (k - 1) : j \in Steps /\ j < k
    BY <1>1, StepAssumption DEF Steps
  <2>3. QED
    BY <1>1, <2>1, <2>2, EarlierRow DEF Ready, Done
<1>6. {y \in Rows : mails'[y] > 0} = {y \in Rows : mails[y] > 0} \cup {<<e, k>>}
  <2>1. \A y \in Rows : mails'[y] = IF y = x THEN mails[y] + 1 ELSE mails[y]
    BY DEF Mail, BaseInv, TablesOK
  <2>2. \A y \in Rows : mails[y] \in Nat
    BY DEF BaseInv, TablesOK
  <2>3. \A y \in Rows : mails'[y] > 0 <=> mails[y] > 0 \/ y = x
    BY <2>1, <2>2
  <2>4. QED
    BY <1>1, <2>3
<1>7. Closed' = Closed \/ Closed' = Closed \cup {e}
  <2>1. \A d \in Enrollments \ {e} :
           /\ OnTheWay(d, {"mail"})' <=> OnTheWay(d, {"mail"})
           /\ OnTheWay(d, Way)' <=> OnTheWay(d, Way)
    BY <1>1, <1>2 DEF OnTheWay, Way
  <2>2. \A d \in Enrollments \ {e} : d \in Closed' <=> d \in Closed
    BY <1>1, <2>1 DEF Closed, Way
  <2>3. Closed \subseteq Enrollments /\ Closed' \subseteq Enrollments
    BY DEF Closed
  <2>4. QED
    BY <1>4, <2>2, <2>3
<1>8. QED
  BY <1>1, <1>3, <1>4, <1>5, <1>6, <1>7 DEF Drip!Mail

LEMMA StepDrips ==
    ASSUME BaseInv, OrderInv, MailIsClear, [Next]_vars
    PROVE  MailIsClear' /\ [Drip!Next]_Drip!vars
<1>0. CASE \E p \in Processes : LoadEnrollment(p)
  BY <1>0, LookDrips
<1>a. SUFFICES ASSUME outrun' = outrun, \A p \in Processes : ~LoadEnrollment(p)
               PROVE  MailIsClear' /\ [Drip!Next]_Drip!vars
  BY <1>0, OutrunFrame
<1>1. Shuts => MailIsClear' /\ [Drip!Next]_Drip!vars
  <2>1. Shuts => Drip!Close
    BY <1>a DEF Shuts, Drip!Close, Closed
  <2>2. QED
    BY <2>1 DEF Shuts, Drip!Next
<1>2. CASE Work
  <2>1. ASSUME NEW p \in Processes, Mail(p)
        PROVE  MailIsClear' /\ Drip!Next
    <3>1. row[p][1] \in Enrollments /\ row[p][2] \in 1 .. LastStep
      BY <2>1, RowParts DEF Mail, BaseInv, Hands, Holds, SendSteps, Steps
    <3>2. MailIsClear' /\ Drip!Mail(row[p][1], row[p][2])
      BY <2>1, MailDrips
    <3>3. QED
      BY <3>1, <3>2 DEF Drip!Next, Drip!Mail
  <2>2. QED
    BY <1>a, <1>1, <1>2, <2>1, BeginShuts, EnrollShuts, ScheduleShuts, SendShuts, ReportShuts
       DEF Work, Step
<1>3. CASE Environment
  BY <1>1, <1>3, EnvironmentShuts
<1>4. CASE GoesWrong
  BY <1>1, <1>4, MishapShuts
<1>5. CASE UNCHANGED vars
  BY <1>1, <1>5, OutsideShuts, DatabaseShut DEF vars, provider
<1>6. QED
  BY <1>2, <1>3, <1>4, <1>5 DEF Next

\* The handlers of the campaigns implement DripMail: mails go out in order, unless a
\* second delivery of a send job read the step index after the first had moved it, and
\* none to an enrollment that is closed, through every repeated, reordered, lost or
\* interrupted job.
THEOREM CampaignsDrip == Spec => ImplementsDrip
<1>1. Init => MailIsClear /\ Drip!Init
  BY DEF Init, MailIsClear, Drip!Init, Closed
<1>2. BaseInv /\ OrderInv /\ MailIsClear /\ [Next]_vars
         => MailIsClear' /\ [Drip!Next]_Drip!vars
  BY StepDrips
<1>3. QED
  BY <1>1, <1>2, BaseInvariant, OrderInvariant, PTL DEF Spec, ImplementsDrip, Drip!Spec
===============================================================================
