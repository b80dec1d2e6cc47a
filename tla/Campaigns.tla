------------------------------- MODULE Campaigns -------------------------------
(***************************************************************************)
(* E-mail campaigns and follow-ups: packages/campaigns, the handlers of    *)
(* apps/workers/src/handlers/campaigns, and the webhook of the e-mail      *)
(* provider.                                                               *)
(*                                                                         *)
(* One sequence of an organization is modelled, with all contacts it can   *)
(* reach.  A process is a worker that handles one job at a time or a call  *)
(* of enrollContactsInFollowUp from the dashboard; it takes one step per   *)
(* database statement that others can tell apart, per job it publishes and *)
(* per mail it hands to the provider.  No statement locks anything.  A     *)
(* process may stop between any two steps; its job then comes back or is   *)
(* given up.                                                               *)
(***************************************************************************)
EXTENDS Integers, FiniteSets

CONSTANTS
    Contacts,         \* the contacts of the segment
    MaxEnrollments,   \* bound: how often a contact can be enrolled
    LastStep,         \* the number of steps of the sequence
    Runs,             \* campaign runs of the sequence
    Workers,          \* the workers, each busy with at most one job
    Callers,          \* dashboard calls that enroll contacts in a follow-up
    NoJob, NoRow,     \* not a job; not a step send
    Reports,          \* what the provider may report about a mail
    MaxReports,       \* bound: reports of the provider about mails
    MaxMishaps        \* bound: interruptions, lost and repeated deliveries

ASSUME ContactAssumption == IsFiniteSet(Contacts)
ASSUME StepAssumption   == LastStep \in Nat \ {0}
ASSUME BoundAssumption  == MaxEnrollments \in Nat /\ MaxReports \in Nat /\ MaxMishaps \in Nat
ASSUME ReportAssumption == Reports \subseteq {"delivered", "soft bounce", "hard bounce"}
ASSUME ActorAssumption  == Workers \cap Callers = {}

Processes   == Workers \cup Callers
Steps       == 1 .. LastStep
Enrollments == Contacts \X (1 .. MaxEnrollments)
\* An EmailStepSend row is known by its idempotency key, enrollment:step.
Rows        == Enrollments \X Steps
Messages    == 1 .. (MaxMishaps + 1)

Contact(e) == e[1]

\* The jobs of the queue, by event and payload.
EnrollJobs   == {"enroll-segment"} \X Runs
SendJobs     == {"send-step"} \X Rows
ScheduleJobs == {"schedule-next-step"} \X Enrollments
ReportJobs   == {"process-delivery-events"} \X Rows \X Messages \X Reports
Jobs         == EnrollJobs \cup SendJobs \cup ScheduleJobs \cup ReportJobs

ASSUME NoneAssumption == NoJob \notin Jobs /\ NoRow \notin Rows

VARIABLES
    paused, started,            \* EmailSequence.status is paused; runs created
    barred,                     \* contacts that unsubscribed, opted out or have no address
    leaving,                    \* unsubscribe requests between their two statements
    status, index, origin,      \* EmailEnrollment: status, current step, campaign run
    enrolledCount,              \* EmailCampaignRun.enrolledCount
    send, message,              \* EmailStepSend: status, provider message id
    queue,                      \* jobs that wait for a worker
    mails, reported,            \* at the provider: mails per row, reports made
    pc, job, row, at, clear, receipt, checks, made,  \* of each process, see below
    mishaps, risked, halted,    \* what has gone wrong, what it may have doubled or cut off
    outrun                      \* enrollments that went on while a handler was reading

(***************************************************************************)
(* A process holds the job it handles, the step send in hand and, once it  *)
(* has read them, the enrollment's step index (at), whether sequence and   *)
(* enrollment let the mail pass (clear) and the id of the mail it has sent *)
(* (receipt).  One that enrolls holds how far each contact has come in the *)
(* checks and the enrollments whose first step is to be scheduled.         *)
(***************************************************************************)
sequence    == <<paused, started>>
visitors    == <<barred, leaving>>
enrollments == <<status, index, origin, enrolledCount>>
sends       == <<send, message>>
provider    == <<mails, reported>>
view        == <<row, at, clear, receipt>>
roster      == <<checks, made>>
history     == <<mishaps, risked, halted, outrun>>
database    == <<sequence, visitors, enrollments, sends>>
vars        == <<database, queue, provider, pc, job, view, roster, history>>

Q == INSTANCE JobQueue WITH Jobs <- Jobs, queue <- queue

EnrollSteps   == {"check", "count", "first"}
ScheduleSteps == {"loadNext", "find", "insert", "publish"}
SendSteps     == {"load", "loadEnrollment", "loadSequence", "bars", "skip", "skipOut",
                  "exit", "mail", "markSent", "advance", "enqueueNext"}
ReportSteps   == {"match", "mark", "suppress", "leave"}
Busy          == EnrollSteps \cup ScheduleSteps \cup SendSteps \cup ReportSteps

NoChecks == [c \in Contacts |-> "none"]

Init ==
    /\ paused = FALSE /\ started = {}
    /\ barred = {} /\ leaving = {}
    /\ status = [e \in Enrollments |-> "none"]
    /\ index  = [e \in Enrollments |-> 1]
    /\ origin = [e \in Enrollments |-> NoJob]
    /\ enrolledCount = [r \in Runs |-> 0]
    /\ send = [x \in Rows |-> "none"]
    /\ message = [x \in Rows |-> 0]
    /\ queue = Q!Empty
    /\ mails = [x \in Rows |-> 0] /\ reported = {}
    /\ pc = [p \in Processes |-> "idle"]
    /\ job = [p \in Processes |-> NoJob]
    /\ row = [p \in Processes |-> NoRow]
    /\ at = [p \in Processes |-> 0]
    /\ clear = [p \in Processes |-> FALSE]
    /\ receipt = [p \in Processes |-> 0]
    /\ checks = [p \in Processes |-> NoChecks]
    /\ made = [p \in Processes |-> {}]
    /\ mishaps = 0 /\ risked = {} /\ halted = {} /\ outrun = {}

Goto(p, step) == pc' = [pc EXCEPT ![p] = step]

\* The handler is over; a worker is free for another job, a call has returned.
Finish(p) ==
    /\ Goto(p, IF p \in Workers THEN "idle" ELSE "returned")
    /\ job' = [job EXCEPT ![p] = NoJob]
    /\ row' = [row EXCEPT ![p] = NoRow]
    /\ at' = [at EXCEPT ![p] = 0]
    /\ clear' = [clear EXCEPT ![p] = FALSE]
    /\ receipt' = [receipt EXCEPT ![p] = 0]
    /\ checks' = [checks EXCEPT ![p] = NoChecks]
    /\ made' = [made EXCEPT ![p] = {}]

Continue(p, step) == Goto(p, step) /\ UNCHANGED <<job, view, roster>>

\* The handler throws or dies.
Stop(p) ==
    /\ Finish(p)
    /\ IF job[p] \in Jobs THEN Q!GiveBack(job[p]) ELSE UNCHANGED queue

-------------------------------------------------------------------------------
(***************************************************************************)
(* Organization members, contacts and the provider.                        *)
(***************************************************************************)

\* startCampaignRun: the run is created, its sequence set active, its job
\* published.
StartRun(r) ==
    /\ r \in Runs \ started
    /\ started' = started \cup {r}
    /\ paused' = FALSE
    /\ Q!Publish(<<"enroll-segment", r>>)
    /\ UNCHANGED <<visitors, enrollments, sends, provider, pc, job, view, roster, history>>

\* pauseCampaignSequence, and the actions that edit a sequence's status.
SetPaused(b) ==
    /\ b # paused
    /\ paused' = b
    /\ UNCHANGED <<started, visitors, enrollments, sends, queue, provider, pc, job,
                   view, roster, history>>

\* Ends the active enrollments of a contact in one update.
Exit(c) ==
    status' = [e \in Enrollments |->
        IF Contact(e) = c /\ status[e] = "active" THEN "exited" ELSE status[e]]

\* unsubscribeAll and unsubscribeFromSequence: first the preference ...
Unsubscribe(c) ==
    /\ c \notin leaving
    /\ barred' = barred \cup {c}
    /\ leaving' = leaving \cup {c}
    /\ UNCHANGED <<sequence, enrollments, sends, queue, provider, pc, job, view,
                   roster, history>>

\* ... then the enrollments.
Leave(c) ==
    /\ c \in leaving
    /\ leaving' = leaving \ {c}
    /\ Exit(c)
    /\ UNCHANGED <<sequence, barred, index, origin, enrolledCount, sends, queue,
                   provider, pc, job, view, roster, history>>

\* The provider reports on a mail it has accepted, by the id it gave the mail.
\* The webhook publishes a job for it.
Report(x, m, t) ==
    /\ m <= mails[x]
    /\ <<x, m, t>> \notin reported
    /\ Cardinality(reported) < MaxReports
    /\ reported' = reported \cup {<<x, m, t>>}
    /\ Q!Publish(<<"process-delivery-events", x, m, t>>)
    /\ UNCHANGED <<database, mails, pc, job, view, roster, history>>

-------------------------------------------------------------------------------
(***************************************************************************)
(* Enrolling: enrollSegmentSnapshot, enrollContactsInFollowUp.             *)
(***************************************************************************)
\* The contacts that are to be enrolled are listed.
StartEnrolling(p, S) ==
    /\ pc[p] = "idle"
    /\ Goto(p, "check")
    /\ checks' = [checks EXCEPT ![p] =
           [c \in Contacts |-> IF c \in S THEN "listed" ELSE "none"]]
    /\ UNCHANGED <<database, provider, view, made, history>>

BeginEnroll(w, r) ==
    /\ Q!Take(<<"enroll-segment", r>>)
    /\ StartEnrolling(w, Contacts)
    /\ job' = [job EXCEPT ![w] = <<"enroll-segment", r>>]

Call(p, S) ==
    /\ StartEnrolling(p, S)
    /\ UNCHANGED <<queue, job>>

\* The two reads of isEligibleForEnrollment, one contact after the other.
CheckPreference(p, c) ==
    /\ pc[p] = "check"
    /\ checks[p][c] = "listed"
    /\ \A d \in Contacts : checks[p][d] # "subscribed"
    /\ checks' = [checks EXCEPT ![p][c] = IF c \in barred THEN "none" ELSE "subscribed"]
    /\ UNCHANGED <<database, queue, provider, pc, job, view, made, history>>

Enrolled(c) == \E e \in Enrollments : Contact(e) = c /\ status[e] = "active"

CheckEnrolled(p, c) ==
    /\ pc[p] = "check"
    /\ checks[p][c] = "subscribed"
    /\ checks' = [checks EXCEPT ![p][c] = IF Enrolled(c) THEN "none" ELSE "eligible"]
    /\ UNCHANGED <<database, queue, provider, pc, job, view, made, history>>

\* An id that no enrollment of the contact has had.
Unused(e) ==
    /\ status[e] = "none"
    /\ \A i \in 1 .. MaxEnrollments : i < e[2] => status[<<Contact(e), i>>] # "none"

\* One transaction creates the enrollments of all eligible contacts.  A run
\* without any says that it enrolled nobody.
Create(p) ==
    /\ pc[p] = "check"
    /\ \A c \in Contacts : checks[p][c] \in {"none", "eligible"}
    /\ LET eligible == {c \in Contacts : checks[p][c] = "eligible"}
           new == {e \in Enrollments : Contact(e) \in eligible /\ Unused(e)}
       IN \/ /\ eligible = {}
             /\ enrolledCount' = IF job[p] \in EnrollJobs
                                 THEN [enrolledCount EXCEPT ![job[p][2]] = 0]
                                 ELSE enrolledCount
             /\ Finish(p)
             /\ UNCHANGED <<status, index, origin>>
          \/ /\ eligible # {}
             /\ \A c \in eligible : \E e \in new : Contact(e) = c
             /\ status' = [e \in Enrollments |-> IF e \in new THEN "active" ELSE status[e]]
             /\ origin' = [e \in Enrollments |-> IF e \in new THEN job[p] ELSE origin[e]]
             /\ made' = [made EXCEPT ![p] = new]
             /\ Goto(p, IF job[p] \in EnrollJobs THEN "count" ELSE "first")
             /\ UNCHANGED <<index, enrolledCount, job, view, checks>>
    /\ UNCHANGED <<sequence, visitors, sends, queue, provider, history>>

\* Fault variant: all enrollments of the sequence are counted.
CountAll(p) ==
    /\ pc[p] = "count"
    /\ enrolledCount' = [enrolledCount EXCEPT ![job[p][2]] = 
           Cardinality({e \in Enrollments : status[e] # "none"})]
    /\ Continue(p, "first")
    /\ UNCHANGED <<sequence, visitors, status, index, origin, sends, queue, provider,
                   history>>

\* Fault variant: the enrollments that are active by now are counted.
CountActive(p) ==
    /\ pc[p] = "count"
    /\ enrolledCount' = [enrolledCount EXCEPT ![job[p][2]] =
           Cardinality({e \in made[p] : status[e] = "active"})]
    /\ Continue(p, "first")
    /\ UNCHANGED <<sequence, visitors, status, index, origin, sends, queue, provider,
                   history>>

Count(p) ==
    /\ pc[p] = "count"
    /\ enrolledCount' = [enrolledCount EXCEPT ![job[p][2]] = Cardinality(made[p])]
    /\ Continue(p, "first")
    /\ UNCHANGED <<sequence, visitors, status, index, origin, sends, queue, provider,
                   history>>

\* Fault variant: the first step is taken for the one after the current.
FindSecond(p, e) ==
    /\ pc[p] = "first"
    /\ e \in made[p]
    /\ made' = [made EXCEPT ![p] = @ \ {e}]
    /\ row' = [row EXCEPT ![p] = <<e, 2>>]
    /\ Goto(p, IF send[<<e, 2>>] = "none" THEN "insert" ELSE "first")
    /\ UNCHANGED <<database, queue, provider, job, at, clear, receipt, checks, history>>

\* enqueueFirstStepForEnrollment of the next enrollment, if there is one: its
\* first step is looked up by key.
FindFirst(p, e) ==
    /\ pc[p] = "first"
    /\ e \in made[p]
    /\ made' = [made EXCEPT ![p] = @ \ {e}]
    /\ row' = [row EXCEPT ![p] = <<e, 1>>]
    /\ Goto(p, IF send[<<e, 1>>] = "none" THEN "insert" ELSE "first")
    /\ UNCHANGED <<database, queue, provider, job, at, clear, receipt, checks, history>>

EnrollDone(p) ==
    /\ pc[p] = "first" /\ made[p] = {}
    /\ Finish(p)
    /\ UNCHANGED <<database, queue, provider, history>>

-------------------------------------------------------------------------------
(***************************************************************************)
(* Scheduling a step: scheduleNextStep, and the end of                     *)
(* enqueueFirstStepForEnrollment.                                          *)
(***************************************************************************)
BeginSchedule(w, e) ==
    /\ pc[w] = "idle"
    /\ Q!Take(<<"schedule-next-step", e>>)
    /\ job' = [job EXCEPT ![w] = <<"schedule-next-step", e>>]
    /\ Goto(w, "loadNext")
    /\ UNCHANGED <<database, provider, view, roster, history>>

\* The enrollment is read; nothing is scheduled for one that is not active.
LoadNext(w) ==
    /\ pc[w] = "loadNext"
    /\ LET e == job[w][2]
       IN IF status[e] = "active" /\ index[e] \in Steps
          THEN /\ row' = [row EXCEPT ![w] = <<e, index[e]>>]
               /\ Goto(w, "find")
               /\ UNCHANGED <<job, at, clear, receipt, roster>>
          ELSE Finish(w)
    /\ UNCHANGED <<database, queue, provider, history>>

\* A step send with this key exists already, or there is none.
Find(w) ==
    /\ pc[w] = "find"
    /\ IF send[row[w]] = "none" THEN Continue(w, "insert") ELSE Finish(w)
    /\ UNCHANGED <<database, queue, provider, history>>

\* createEmailStepSend; if another process has created the row since the look,
\* the unique index on the key makes it throw.
Insert(p) ==
    /\ pc[p] = "insert"
    /\ \/ /\ send[row[p]] = "none"
          /\ send' = [send EXCEPT ![row[p]] = "pending"]
          /\ Continue(p, "publish")
          /\ UNCHANGED queue
       \/ /\ send[row[p]] # "none"
          /\ Stop(p)
          /\ UNCHANGED send
    /\ UNCHANGED <<sequence, visitors, enrollments, message, provider, history>>

\* Fault variant: the job of a first step is left to the scheduler.
PublishNext(p) ==
    /\ pc[p] = "publish"
    /\ IF job[p] \in ScheduleJobs
       THEN Q!Publish(<<"send-step", row[p]>>) /\ Finish(p)
       ELSE UNCHANGED queue /\ Continue(p, "first")
    /\ UNCHANGED <<database, provider, history>>

\* The job that sends the step, after its delay.
Publish(p) ==
    /\ pc[p] = "publish"
    /\ Q!Publish(<<"send-step", row[p]>>)
    /\ IF job[p] \in ScheduleJobs THEN Finish(p) ELSE Continue(p, "first")
    /\ UNCHANGED <<database, provider, history>>

-------------------------------------------------------------------------------
(***************************************************************************)
(* Sending a step: executeStepSend.                                        *)
(***************************************************************************)
BeginSend(w, x) ==
    /\ pc[w] = "idle"
    /\ Q!Take(<<"send-step", x>>)
    /\ job' = [job EXCEPT ![w] = <<"send-step", x>>]
    /\ row' = [row EXCEPT ![w] = x]
    /\ Goto(w, "load")
    /\ UNCHANGED <<database, provider, at, clear, receipt, roster, history>>

Active(e) == status[e] = "active"

\* Fault variant: the status of the step send is not looked at.
LoadAny(w) ==
    /\ pc[w] = "load"
    /\ Continue(w, "loadEnrollment")
    /\ UNCHANGED <<database, queue, provider, history>>

\* getEmailStepSendById is a query for each table it includes.  The step send comes
\* first; a handler that does not find it pending returns, which is as good as
\* returning after the others.
Load(w) ==
    /\ pc[w] = "load"
    /\ IF send[row[w]] = "pending" THEN Continue(w, "loadEnrollment") ELSE Finish(w)
    /\ UNCHANGED <<database, queue, provider, history>>

\* Then its enrollment, which another delivery of the job may meanwhile have moved
\* past the step, ...
LoadEnrollment(w) ==
    LET e == row[w][1]
    IN /\ pc[w] = "loadEnrollment"
       /\ at' = [at EXCEPT ![w] = index[e]]
       /\ clear' = [clear EXCEPT ![w] = Active(e)]
       /\ outrun' = IF index[e] > row[w][2] THEN outrun \cup {e} ELSE outrun
       /\ Goto(w, "loadSequence")
       /\ UNCHANGED <<database, queue, provider, job, row, receipt, roster,
                      mishaps, risked, halted>>

\* ... and the sequence.
LoadSequence(w) ==
    /\ pc[w] = "loadSequence"
    /\ clear' = [clear EXCEPT ![w] = @ /\ ~paused]
    /\ Goto(w, "bars")
    /\ UNCHANGED <<database, queue, provider, job, row, at, receipt, roster, history>>

\* Fault variants: preferences are not looked at; a step send is marked sent
\* before its mail is handed to the provider.
CheckStatus(w) ==
    /\ pc[w] = "bars"
    /\ Continue(w, IF clear[w] THEN "mail" ELSE "skip")
    /\ UNCHANGED <<database, queue, provider, history>>

CheckAndMark(w) ==
    /\ pc[w] = "bars"
    /\ Continue(w, IF clear[w] THEN "markSent" ELSE "skip")
    /\ UNCHANGED <<database, queue, provider, history>>

\* The contact's address and preferences are read, and shouldSkipSend decides.
CheckBars(w) ==
    /\ pc[w] = "bars"
    /\ \/ Contact(row[w][1]) \in barred /\ Continue(w, "skipOut")
       \/ /\ Contact(row[w][1]) \notin barred
          /\ Continue(w, IF clear[w] THEN "mail" ELSE "skip")
    /\ UNCHANGED <<database, queue, provider, history>>

\* A step send that is skipped for the contact's sake ends its enrollment too.
MarkSkipped(w) ==
    /\ pc[w] \in {"skip", "skipOut"}
    /\ send' = [send EXCEPT ![row[w]] = "skipped"]
    /\ IF pc[w] = "skip" THEN Finish(w) ELSE Continue(w, "exit")
    /\ UNCHANGED <<sequence, visitors, enrollments, message, queue, provider, history>>

ExitEnrollment(w) ==
    /\ pc[w] = "exit"
    /\ status' = [status EXCEPT ![row[w][1]] = "exited"]
    /\ Finish(w)
    /\ UNCHANGED <<sequence, visitors, index, origin, enrolledCount, sends, queue,
                   provider, history>>

\* sendMarketingEmail: the provider accepts the mail and gives it an id.
Mail(w) ==
    /\ pc[w] = "mail"
    /\ mails' = [mails EXCEPT ![row[w]] = @ + 1]
    /\ receipt' = [receipt EXCEPT ![w] = mails[row[w]] + 1]
    /\ Goto(w, "markSent")
    /\ UNCHANGED <<database, queue, reported, job, row, at, clear, roster, history>>

MarkSent(w) ==
    /\ pc[w] = "markSent"
    /\ send' = [send EXCEPT ![row[w]] = "sent"]
    /\ message' = [message EXCEPT ![row[w]] = receipt[w]]
    /\ Continue(w, "advance")
    /\ UNCHANGED <<sequence, visitors, enrollments, queue, provider, history>>

\* Fault variants: the enrollment moves on from where it is now; the last step is
\* taken to be the one before.
AdvanceAgain(w) ==
    /\ pc[w] = "advance"
    /\ index' = [index EXCEPT ![row[w][1]] = @ + 1]
    /\ status' = [status EXCEPT ![row[w][1]] = IF at[w] = LastStep THEN "completed" ELSE @]
    /\ IF at[w] = LastStep THEN Finish(w) ELSE Continue(w, "enqueueNext")
    /\ UNCHANGED <<sequence, visitors, origin, enrolledCount, sends, queue, provider,
                   history>>

AdvanceEarly(w) ==
    /\ pc[w] = "advance"
    /\ index' = [index EXCEPT ![row[w][1]] = at[w] + 1]
    /\ \/ /\ at[w] + 1 >= LastStep
          /\ status' = [status EXCEPT ![row[w][1]] = "completed"]
          /\ Finish(w)
       \/ /\ at[w] + 1 < LastStep
          /\ UNCHANGED status
          /\ Continue(w, "enqueueNext")
    /\ UNCHANGED <<sequence, visitors, origin, enrolledCount, sends, queue, provider,
                   history>>

\* The enrollment goes on to the step after the one it was at when it was read,
\* or is completed, whatever has become of it in the meantime.
Advance(w) ==
    /\ pc[w] = "advance"
    /\ index' = [index EXCEPT ![row[w][1]] = at[w] + 1]
    /\ \/ /\ at[w] + 1 > LastStep
          /\ status' = [status EXCEPT ![row[w][1]] = "completed"]
          /\ Finish(w)
       \/ /\ at[w] + 1 <= LastStep
          /\ UNCHANGED status
          /\ Continue(w, "enqueueNext")
    /\ UNCHANGED <<sequence, visitors, origin, enrolledCount, sends, queue, provider,
                   history>>

EnqueueNext(w) ==
    /\ pc[w] = "enqueueNext"
    /\ Q!Publish(<<"schedule-next-step", row[w][1]>>)
    /\ Finish(w)
    /\ UNCHANGED <<database, provider, history>>

-------------------------------------------------------------------------------
(***************************************************************************)
(* Reports of the provider: applyDeliveryEvent.                            *)
(***************************************************************************)
BeginReport(w, x, m, t) ==
    /\ pc[w] = "idle"
    /\ Q!Take(<<"process-delivery-events", x, m, t>>)
    /\ job' = [job EXCEPT ![w] = <<"process-delivery-events", x, m, t>>]
    /\ row' = [row EXCEPT ![w] = x]
    /\ Goto(w, "match")
    /\ UNCHANGED <<database, provider, at, clear, receipt, roster, history>>

\* The step send is found by the id stored with it; a report that matches none
\* is only logged.
Match(w) ==
    /\ pc[w] = "match"
    /\ IF message[row[w]] = job[w][3] THEN Continue(w, "mark") ELSE Finish(w)
    /\ UNCHANGED <<database, queue, provider, history>>

\* Fault variant: a hard bounce is taken for a soft one.
MarkOnly(w) ==
    /\ pc[w] = "mark"
    /\ send' = [send EXCEPT ![row[w]] = IF job[w][4] = "delivered" THEN "delivered" ELSE "failed"]
    /\ Finish(w)
    /\ UNCHANGED <<sequence, visitors, enrollments, message, queue, provider, history>>

MarkReported(w) ==
    /\ pc[w] = "mark"
    /\ send' = [send EXCEPT ![row[w]] =
           IF job[w][4] = "delivered" THEN "delivered" ELSE "failed"]
    /\ IF job[w][4] = "hard bounce" THEN Continue(w, "suppress") ELSE Finish(w)
    /\ UNCHANGED <<sequence, visitors, enrollments, message, queue, provider, history>>

\* suppressContactAndExitEnrollments, its two statements.
Suppress(w) ==
    /\ pc[w] = "suppress"
    /\ barred' = barred \cup {Contact(row[w][1])}
    /\ Continue(w, "leave")
    /\ UNCHANGED <<sequence, leaving, enrollments, sends, queue, provider, history>>

ExitSuppressed(w) ==
    /\ pc[w] = "leave"
    /\ Exit(Contact(row[w][1]))
    /\ Finish(w)
    /\ UNCHANGED <<sequence, visitors, index, origin, enrolledCount, sends, queue,
                   provider, history>>

-------------------------------------------------------------------------------
(***************************************************************************)
(* What goes wrong.                                                        *)
(***************************************************************************)
Mishap == mishaps < MaxMishaps /\ mishaps' = mishaps + 1

\* The steps at which another delivery of the same job may still send the mail.
BeforeMark == {"load", "loadEnrollment", "loadSequence", "bars", "skip", "skipOut",
               "mail", "markSent"}

\* The steps of an enrolling process after it has created its enrollments.
AfterCreate == {"count", "first", "insert", "publish"}

EnrollingRun(p) == {r \in Runs : job[p] = <<"enroll-segment", r>>}
InHand(p) == {e \in Enrollments : \E k \in Steps : row[p] = <<e, k>>}

\* What a handler that stops leaves undone for good: a run its count, and
\* enrollments the job of their next step, ...
CutOff(p) ==
    (IF pc[p] \in AfterCreate THEN EnrollingRun(p) \cup made[p] ELSE {})
        \cup (IF pc[p] = "publish" \/ (pc[p] = "insert" /\ job[p] \notin ScheduleJobs)
                    \/ pc[p] \in {"advance", "enqueueNext"}
              THEN InHand(p) ELSE {})

\* ... and what is undone when its job does not come back, or is drained.
Dropped(j) ==
    {e \in Enrollments :
        j = <<"schedule-next-step", e>> \/ \E k \in Steps : j = <<"send-step", <<e, k>>>>}

\* The handler throws or its process dies before its next step.
Interrupt(p) ==
    /\ pc[p] \in Busy
    /\ Mishap
    /\ Stop(p)
    /\ risked' = IF pc[p] = "markSent" THEN risked \cup {row[p]} ELSE risked
    /\ halted' = halted \cup CutOff(p) \cup (IF queue' = queue THEN Dropped(job[p]) ELSE {})
    /\ UNCHANGED <<database, provider, outrun>>

\* A job is delivered again while it is being handled.
Redeliver(w) ==
    /\ pc[w] \in Busy /\ job[w] \in Jobs
    /\ Mishap
    /\ Q!Publish(job[w])
    /\ risked' = IF pc[w] \in BeforeMark THEN risked \cup {row[w]} ELSE risked
    /\ halted' = halted \cup EnrollingRun(w)
                        \cup (IF pc[w] \in BeforeMark THEN InHand(w) ELSE {})
    /\ UNCHANGED <<database, provider, pc, job, view, roster, outrun>>

\* A waiting job uses up its attempts without a handler.
Drain(j) ==
    /\ Mishap
    /\ Q!Drain(j)
    /\ halted' = halted \cup Dropped(j)
    /\ UNCHANGED <<database, provider, pc, job, view, roster, risked, outrun>>

\* startCampaignRun stops before it has published its job.
StartRunStops(r) ==
    /\ r \in Runs \ started
    /\ Mishap
    /\ started' = started \cup {r}
    /\ paused' = FALSE
    /\ UNCHANGED <<visitors, enrollments, sends, queue, provider, pc, job, view, roster,
                   risked, halted, outrun>>

\* An unsubscribe request stops between its two statements.
RequestStops(c) ==
    /\ c \in leaving
    /\ Mishap
    /\ leaving' = leaving \ {c}
    /\ UNCHANGED <<sequence, barred, enrollments, sends, queue, provider, pc, job, view,
                   roster, risked, halted, outrun>>

\* The address of a contact is removed, or the contact.
LoseAddress(c) ==
    /\ Mishap
    /\ barred' = barred \cup {c}
    /\ UNCHANGED <<sequence, leaving, enrollments, sends, queue, provider, pc, job, view,
                   roster, risked, halted, outrun>>

-------------------------------------------------------------------------------
Begin(w) ==
    \/ \E r \in Runs : BeginEnroll(w, r)
    \/ \E e \in Enrollments : BeginSchedule(w, e)
    \/ \E x \in Rows :
          \/ BeginSend(w, x)
          \/ \E m \in Messages : \E t \in Reports : BeginReport(w, x, m, t)

Step(p) ==
    \/ \E c \in Contacts : CheckPreference(p, c) \/ CheckEnrolled(p, c)
    \/ Create(p) \/ Count(p)
    \/ \E e \in Enrollments : FindFirst(p, e)
    \/ EnrollDone(p) \/ LoadNext(p) \/ Find(p) \/ Insert(p) \/ Publish(p)
    \/ Load(p) \/ LoadEnrollment(p) \/ LoadSequence(p)
    \/ CheckBars(p) \/ MarkSkipped(p) \/ ExitEnrollment(p)
    \/ Mail(p) \/ MarkSent(p) \/ Advance(p) \/ EnqueueNext(p)
    \/ Match(p) \/ MarkReported(p) \/ Suppress(p) \/ ExitSuppressed(p)

Work == \E p \in Processes : Step(p) \/ (p \in Workers /\ Begin(p))

Environment ==
    \/ \E r \in Runs : StartRun(r)
    \/ \E b \in BOOLEAN : SetPaused(b)
    \/ \E c \in Contacts : Unsubscribe(c) \/ Leave(c)
    \/ \E x \in Rows : \E m \in Messages : \E t \in Reports : Report(x, m, t)
    \/ \E p \in Callers : \E S \in SUBSET Contacts : Call(p, S)

GoesWrong ==
    \/ \E p \in Processes : Interrupt(p)
    \/ \E w \in Workers : Redeliver(w)
    \/ \E j \in Jobs : Drain(j)
    \/ \E r \in Runs : StartRunStops(r)
    \/ \E c \in Contacts : RequestStops(c) \/ LoseAddress(c)

Next == Work \/ Environment \/ GoesWrong

Spec == Init /\ [][Next]_vars

(***************************************************************************)
(* The workers go on as long as there is something to do, and a request to *)
(* unsubscribe comes to its end.                                           *)
(***************************************************************************)
FairSpec ==
    /\ Spec
    /\ WF_vars(Work)
    /\ \A c \in Contacts : WF_vars(Leave(c))

-------------------------------------------------------------------------------
Ended == {"completed", "exited"}

TablesOK ==
    /\ paused \in BOOLEAN /\ started \subseteq Runs
    /\ barred \subseteq Contacts /\ leaving \subseteq Contacts
    /\ status \in [Enrollments -> {"none", "active"} \cup Ended]
    /\ index \in [Enrollments -> Nat]
    /\ origin \in [Enrollments -> EnrollJobs \cup {NoJob}]
    /\ enrolledCount \in [Runs -> Nat]
    /\ send \in [Rows -> {"none", "pending", "skipped", "sent", "delivered", "failed"}]
    /\ message \in [Rows -> Nat]
    /\ Q!TypeOK
    /\ mails \in [Rows -> Nat]
    /\ reported \subseteq Rows \X Messages \X Reports
    /\ mishaps \in Nat /\ risked \subseteq Rows /\ halted \subseteq Runs \cup Enrollments
    /\ outrun \subseteq Enrollments

ProcessesOK ==
    /\ pc \in [Processes -> {"idle", "returned"} \cup Busy]
    /\ job \in [Processes -> Jobs \cup {NoJob}]
    /\ row \in [Processes -> Rows \cup {NoRow}]
    /\ at \in [Processes -> Nat]
    /\ clear \in [Processes -> BOOLEAN]
    /\ receipt \in [Processes -> Nat]
    /\ checks \in [Processes -> [Contacts -> {"none", "listed", "subscribed", "eligible"}]]
    /\ made \in [Processes -> SUBSET Enrollments]

\* An enrollment is at one of its steps or past the last.
IndexOK == \A e \in Enrollments : index[e] \in 1 .. (LastStep + 1)

TypeOK == TablesOK /\ ProcessesOK /\ IndexOK

(***************************************************************************)
(* Safety.                                                                 *)
(***************************************************************************)

\* No step is mailed to an enrollment before all steps in front of it, however
\* jobs are repeated, reordered or lost, and although a late handler can set the
\* step index of an enrollment back.  Only an enrollment that was outrun is not
\* covered: one handler of a step found it pending, another mailed it and moved the
\* enrollment on, and the first then read that index and moved it on once more.
MailedInSequence ==
    \A x \in Rows : mails[x] > 0 =>
        x[1] \in outrun \/ \A j \in Steps : j < x[2] => mails[<<x[1], j>>] > 0

\* A step is mailed twice only if its job was delivered again while a handler had
\* still to mark it, or its handler stopped between the mail and the mark: every
\* other retry finds the row no longer pending, or nothing mailed.
MailedAtMostOnce == \A x \in Rows : mails[x] > 1 => x \in risked

\* What the table says of a step send is what happened: one that is sent,
\* delivered or failed was mailed, and a skipped one was not.
StatusFollowsMail ==
    \A x \in Rows :
        /\ send[x] \in {"sent", "delivered", "failed"} => mails[x] > 0
        /\ send[x] = "skipped" /\ mails[x] > 0 => x \in risked

\* An enrollment is completed only when all its steps were mailed, also when the
\* completion overwrites an exit, unless it was outrun and thereby lost a step.
CompletedIsMailedOut ==
    \A e \in Enrollments \ outrun : status[e] = "completed" =>
        \A k \in Steps : mails[<<e, k>>] > 0

\* "Unique active constraint (enforced in service): one `active` enrollment per
\* `(contactId, sequenceId)`" (docs, campaigns design).  The service looks first and
\* creates later, so two processes that enroll the same contact break it.
OneActiveEnrollment ==
    \A d, e \in Enrollments :
        Active(d) /\ Active(e) /\ Contact(d) = Contact(e) => d = e

(***************************************************************************)
(* An enrollment is closed once it has ended or its contact is barred, and *)
(* no handler that has read otherwise is still on its way to the provider. *)
(***************************************************************************)
OnTheWay(e, past) == \E p \in Processes : pc[p] \in past /\ clear[p] /\ row[p][1] = e

Closed ==
    {e \in Enrollments :
        \/ status[e] \in Ended /\ ~OnTheWay(e, {"loadSequence", "bars", "mail"})
        \/ Contact(e) \in barred /\ ~OnTheWay(e, {"mail"})}

Drip == INSTANCE DripMail
            WITH mailed <- {x \in Rows : mails[x] > 0}, closed <- Closed,
                 astray <- outrun

\* The handlers implement the drip: mails go out in order unless the enrollment was
\* outrun, and none to an enrollment that has ended or whose contact is barred,
\* except the one that was already past the checks.
ImplementsDrip == Drip!Spec

\* When the job of a run is done, the run says how many contacts it enrolled, unless
\* the job was delivered twice or stopped after it had created the enrollments: its
\* next attempt finds them and counts none.
CountIsRight ==
    \A r \in started \ halted :
        LET j == <<"enroll-segment", r>>
        IN ~Q!Waiting(j) /\ (\A p \in Processes : job[p] # j)
              => enrolledCount[r] = Cardinality({e \in Enrollments : origin[e] = j})

\* One of its steps was skipped, for a pause or for the contact's sake.
Stranded(e) == \E k \in Steps : send[<<e, k>>] = "skipped"

\* Someone is to create, schedule, send or follow up the step an enrollment is at.
Carried(e) ==
    \/ Q!Waiting(<<"schedule-next-step", e>>)
    \/ \E p \in Processes : e \in made[p] \/ job[p] = <<"schedule-next-step", e>>
    \/ \E k \in Steps :
          \/ send[<<e, k>>] = "pending" /\ Q!Waiting(<<"send-step", <<e, k>>>>)
          \/ \E p \in Processes :
                /\ row[p] = <<e, k>>
                /\ \/ pc[p] \in {"insert", "advance", "enqueueNext"}
                   \/ pc[p] \in {"publish"} \cup BeforeMark /\ send[<<e, k>>] = "pending"

\* Retries never lose an active enrollment: it is left without a next job only when a
\* handler stopped between a write and the job that was to follow from it, a job of its
\* was given up, or its send job was handled twice at a time.
NoneIsForgotten ==
    \A e \in Enrollments :
        Active(e) => Carried(e) \/ Stranded(e) \/ e \in halted

(***************************************************************************)
(* Liveness, when nothing goes wrong.                                      *)
(***************************************************************************)
\* An enrollment ends; only a pause that met one of its steps leaves it behind.
EveryEnrollmentEnds ==
    \A e \in Enrollments : Active(e) ~> status[e] \in Ended \/ Stranded(e)

\* The provider has reported a hard bounce of a mail whose id is stored.
Bounced(c) ==
    \E x \in Rows : \E m \in Messages :
        /\ Contact(x[1]) = c /\ message[x] = m
        /\ Q!Waiting(<<"process-delivery-events", x, m, "hard bounce">>)

\* A contact that unsubscribes, or whose mail bounces, is in the end free of active
\* enrollments for ever, also of one that was being created at the time.
BarredIsLeftAlone ==
    \A c \in Contacts :
        c \in leaving \/ Bounced(c) ~>
            [](c \in barred /\ ~Enrolled(c))
===============================================================================
