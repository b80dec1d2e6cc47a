--------------------------- MODULE CampaignsProofs ---------------------------
(***************************************************************************)
(* Theorems about Campaigns: its types, and the order and the record of    *)
(* its mails.                                                              *)
(***************************************************************************)
EXTENDS Campaigns, FiniteSetTheorems, TLAPS

-------------------------------------------------------------------------------
(***************************************************************************)
(* Types.                                                                  *)
(***************************************************************************)

\* What a process at a step holds: the job and the step send it works on.
Holds(step, j, x) ==
    /\ step = "idle" => j = NoJob
    /\ step \in {"check", "first"} => j \in EnrollJobs \cup {NoJob}
    /\ step = "count" => j \in EnrollJobs
    /\ step = "loadNext" => j \in ScheduleJobs
    /\ step \in {"find", "insert", "publish"} => j \in EnrollJobs \cup ScheduleJobs \cup {NoJob}
    /\ step \in {"find", "insert", "publish"} \cup SendSteps \cup ReportSteps => x \in Rows
    /\ step \in SendSteps => j = <<"send-step", x>>
    /\ step \in ReportSteps => j \in ReportJobs /\ j[2] = x

Hands == \A p \in Processes : Holds(pc[p], job[p], row[p])

BaseInv == TablesOK /\ ProcessesOK /\ Hands

\* The part of a step that concerns what its process does and holds.
Moves(p, step, j, x) ==
    /\ step \in {"idle", "returned"} \cup Busy
    /\ j \in Jobs \cup {NoJob} /\ x \in Rows \cup {NoRow}
    /\ pc' = [pc EXCEPT ![p] = step]
    /\ job' = [job EXCEPT ![p] = j]
    /\ row' = [row EXCEPT ![p] = x]

LEMMA JobSets ==
    /\ EnrollJobs \subseteq Jobs /\ SendJobs \subseteq Jobs
    /\ ScheduleJobs \subseteq Jobs /\ ReportJobs \subseteq Jobs
BY DEF Jobs

LEMMA JobPayloads ==
    /\ \A j \in EnrollJobs : j[2] \in Runs
    /\ \A j \in ScheduleJobs : j[2] \in Enrollments
    /\ \A j \in ReportJobs : j[2] \in Rows /\ j[3] \in Messages /\ j[4] \in Reports
BY DEF EnrollJobs, ScheduleJobs, ReportJobs

LEMMA RowParts ==
    ASSUME NEW x \in Rows
    PROVE  /\ x[1] \in Enrollments /\ x[2] \in Steps /\ x = <<x[1], x[2]>>
           /\ Contact(x[1]) \in Contacts
BY DEF Rows, Enrollments, Contact

LEMMA FirstRow ==
    ASSUME NEW e \in Enrollments
    PROVE  <<e, 1>> \in Rows
BY StepAssumption DEF Rows, Steps

LEMMA FinishMoves ==
    ASSUME ProcessesOK, NEW p \in Processes, Finish(p)
    PROVE  /\ \E step \in {"idle", "returned"} : Moves(p, step, NoJob, NoRow)
           /\ ProcessesOK'
BY DEF ProcessesOK, Finish, Goto, Moves, NoChecks

LEMMA ContinueMoves ==
    ASSUME ProcessesOK, NEW p \in Processes, NEW step \in Busy, Continue(p, step)
    PROVE  Moves(p, step, job[p], row[p]) /\ ProcessesOK'
BY DEF ProcessesOK, Continue, Goto, Moves, view, roster

LEMMA MovesHands ==
    ASSUME ProcessesOK, Hands, NEW p \in Processes, NEW step, NEW j, NEW x,
           Moves(p, step, j, x), Holds(step, j, x)
    PROVE  Hands'
BY DEF ProcessesOK, Hands, Moves

LEMMA IdleHolds ==
    ASSUME NEW step \in {"idle", "returned"}, NEW x
    PROVE  Holds(step, NoJob, x)
BY DEF Holds, SendSteps, ReportSteps

LEMMA FinishHands ==
    ASSUME ProcessesOK, Hands, NEW p \in Processes, Finish(p)
    PROVE  ProcessesOK' /\ Hands'
BY FinishMoves, IdleHolds, MovesHands

LEMMA QueueType ==
    ASSUME TablesOK, NEW j \in Jobs, Q!Publish(j) \/ Q!Take(j)
    PROVE  Q!TypeOK'
BY DEF TablesOK, Q!TypeOK, Q!Publish, Q!Take, Q!Waiting

LEMMA StopHands ==
    ASSUME BaseInv, NEW p \in Processes, Stop(p)
    PROVE  ProcessesOK' /\ Hands' /\ Q!TypeOK'
<1>1. ProcessesOK' /\ Hands'
  BY FinishHands DEF BaseInv, Stop
<1>2. Q!TypeOK'
  BY QueueType DEF BaseInv, Stop, Q!GiveBack, TablesOK, Q!TypeOK
<1>3. QED
  BY <1>1, <1>2

\* Steps outside the processes change neither what they do nor what they hold.
LEMMA OutsideBase ==
    ASSUME BaseInv, UNCHANGED <<pc, job, view, roster>>, TablesOK'
    PROVE  BaseInv'
BY DEF BaseInv, ProcessesOK, Hands, Holds, view, roster

LEMMA EnvironmentBase ==
    ASSUME BaseInv
    PROVE  /\ \A r \in Runs : StartRun(r) => BaseInv'
           /\ \A b \in BOOLEAN : SetPaused(b) => BaseInv'
           /\ \A c \in Contacts : Unsubscribe(c) \/ Leave(c) => BaseInv'
           /\ \A x \in Rows : \A m \in Messages : \A t \in Reports :
                 Report(x, m, t) => BaseInv'
<1>1. ASSUME NEW r \in Runs, StartRun(r)
      PROVE  BaseInv'
  <2>1. <<"enroll-segment", r>> \in Jobs
    BY DEF Jobs, EnrollJobs
  <2>2. TablesOK'
    BY <1>1, <2>1, QueueType DEF BaseInv, StartRun, TablesOK, visitors, enrollments,
       sends, provider, history
  <2>3. QED
    BY <1>1, <2>2, OutsideBase DEF StartRun
<1>2. ASSUME NEW b \in BOOLEAN, SetPaused(b)
      PROVE  BaseInv'
  <2>1. TablesOK'
    BY <1>2 DEF BaseInv, SetPaused, TablesOK, Q!TypeOK, visitors, enrollments, sends,
       provider, history
  <2>2. QED
    BY <1>2, <2>1, OutsideBase DEF SetPaused
<1>3. ASSUME NEW c \in Contacts, Unsubscribe(c)
      PROVE  BaseInv'
  <2>1. TablesOK'
    BY <1>3 DEF BaseInv, Unsubscribe, TablesOK, Q!TypeOK, sequence, enrollments, sends,
       provider, history
  <2>2. QED
    BY <1>3, <2>1, OutsideBase DEF Unsubscribe
<1>4. ASSUME NEW c \in Contacts, Leave(c)
      PROVE  BaseInv'
  <2>1. TablesOK'
    BY <1>4 DEF BaseInv, Leave, Exit, TablesOK, Ended, Q!TypeOK, sequence, sends,
       provider, history
  <2>2. QED
    BY <1>4, <2>1, OutsideBase DEF Leave
<1>5. ASSUME NEW x \in Rows, NEW m \in Messages, NEW t \in Reports, Report(x, m, t)
      PROVE  BaseInv'
  <2>1. <<"process-delivery-events", x, m, t>> \in Jobs
    BY DEF Jobs, ReportJobs
  <2>2. TablesOK'
    BY <1>5, <2>1, QueueType DEF BaseInv, Report, TablesOK, database, sequence,
       visitors, enrollments, sends, history
  <2>3. QED
    BY <1>5, <2>2, OutsideBase DEF Report
<1>6. QED
  BY <1>1, <1>2, <1>3, <1>4, <1>5
LEMMA SameTables ==
    ASSUME TablesOK, UNCHANGED <<database, queue, provider, history>>
    PROVE  TablesOK'
BY DEF TablesOK, Q!TypeOK, database, sequence, visitors, enrollments, sends, provider,
   history

LEMMA SameTablesButQueue ==
    ASSUME TablesOK, UNCHANGED <<database, provider, history>>, Q!TypeOK'
    PROVE  TablesOK'
BY DEF TablesOK, database, sequence, visitors, enrollments, sends, provider, history

LEMMA BeginBase ==
    ASSUME BaseInv, NEW w \in Processes
    PROVE  /\ Begin(w) => BaseInv'
           /\ \A S \in SUBSET Contacts : Call(w, S) => BaseInv'
<1>1. ASSUME NEW S \in SUBSET Contacts, StartEnrolling(w, S)
      PROVE  [c \in Contacts |-> IF c \in S THEN "listed" ELSE "none"]
                \in [Contacts -> {"none", "listed", "subscribed", "eligible"}]
  OBVIOUS
<1>2. ASSUME NEW r \in Runs, BeginEnroll(w, r)
      PROVE  BaseInv'
  <2>1. <<"enroll-segment", r>> \in EnrollJobs /\ <<"enroll-segment", r>> \in Jobs
    BY DEF Jobs, EnrollJobs
  <2>2. TablesOK'
    BY <1>2, <2>1, QueueType, SameTablesButQueue DEF BaseInv, BeginEnroll, StartEnrolling
  <2>3. ProcessesOK'
    BY <1>2, <2>1 DEF BaseInv, BeginEnroll, StartEnrolling, ProcessesOK, Goto, Busy,
       EnrollSteps, view
  <2>4. Moves(w, "check", <<"enroll-segment", r>>, row[w])
    BY <1>2, <2>1 DEF BaseInv, BeginEnroll, StartEnrolling, ProcessesOK, Goto, Busy,
       EnrollSteps, view, Moves
  <2>5. Holds("check", <<"enroll-segment", r>>, row[w])
    BY <2>1 DEF Holds, SendSteps, ReportSteps
  <2>6. QED
    BY <2>2, <2>3, <2>4, <2>5, MovesHands DEF BaseInv
<1>3. ASSUME NEW S \in SUBSET Contacts, Call(w, S)
      PROVE  BaseInv'
  <2>0. job[w] = NoJob
    BY <1>3 DEF BaseInv, Hands, Holds, Call, StartEnrolling
  <2>1. TablesOK'
    BY <1>3, SameTables DEF BaseInv, Call, StartEnrolling
  <2>2. ProcessesOK'
    BY <1>3 DEF BaseInv, Call, StartEnrolling, ProcessesOK, Goto, Busy, EnrollSteps, view
  <2>3. Moves(w, "check", job[w], row[w])
    BY <1>3 DEF BaseInv, Call, StartEnrolling, ProcessesOK, Goto, Busy, EnrollSteps,
       view, Moves
  <2>4. Holds("check", job[w], row[w])
    BY <2>0 DEF Holds, SendSteps, ReportSteps
  <2>5. QED
    BY <2>1, <2>2, <2>3, <2>4, MovesHands DEF BaseInv
<1>4. ASSUME NEW e \in Enrollments, BeginSchedule(w, e)
      PROVE  BaseInv'
  <2>1. <<"schedule-next-step", e>> \in ScheduleJobs /\ <<"schedule-next-step", e>> \in Jobs
    BY DEF Jobs, ScheduleJobs
  <2>2. TablesOK'
    BY <1>4, <2>1, QueueType, SameTablesButQueue DEF BaseInv, BeginSchedule
  <2>3. ProcessesOK' /\ Moves(w, "loadNext", <<"schedule-next-step", e>>, row[w])
    BY <1>4, <2>1 DEF BaseInv, BeginSchedule, ProcessesOK, Goto, Busy, ScheduleSteps,
       view, roster, Moves
  <2>4. Holds("loadNext", <<"schedule-next-step", e>>, row[w])
    BY <2>1 DEF Holds, SendSteps, ReportSteps
  <2>5. QED
    BY <2>2, <2>3, <2>4, MovesHands DEF BaseInv
<1>5. ASSUME NEW x \in Rows, BeginSend(w, x)
      PROVE  BaseInv'
  <2>1. <<"send-step", x>> \in Jobs
    BY DEF Jobs, SendJobs
  <2>2. TablesOK'
    BY <1>5, <2>1, QueueType, SameTablesButQueue DEF BaseInv, BeginSend
  <2>3. ProcessesOK' /\ Moves(w, "load", <<"send-step", x>>, x)
    BY <1>5, <2>1 DEF BaseInv, BeginSend, ProcessesOK, Goto, Busy, SendSteps, roster, Moves
  <2>4. Holds("load", <<"send-step", x>>, x)
    BY DEF Holds, SendSteps, ReportSteps
  <2>5. QED
    BY <2>2, <2>3, <2>4, MovesHands DEF BaseInv
<1>6. ASSUME NEW x \in Rows, NEW m \in Messages, NEW t \in Reports, BeginReport(w, x, m, t)
      PROVE  BaseInv'
  <2> DEFINE j == <<"process-delivery-events", x, m, t>>
  <2>1. j \in ReportJobs /\ j \in Jobs /\ j[2] = x
    BY DEF Jobs, ReportJobs
  <2>2. TablesOK'
    BY <1>6, <2>1, QueueType, SameTablesButQueue DEF BaseInv, BeginReport
  <2>3. ProcessesOK' /\ Moves(w, "match", j, x)
    BY <1>6, <2>1 DEF BaseInv, BeginReport, ProcessesOK, Goto, Busy, ReportSteps, roster, Moves
  <2>4. Holds("match", j, x)
    BY <2>1 DEF Holds, SendSteps, ReportSteps
  <2>5. QED
    BY <2>2, <2>3, <2>4, MovesHands DEF BaseInv
<1>7. QED
  BY <1>2, <1>3, <1>4, <1>5, <1>6 DEF Begin

LEMMA EnrollmentsFinite == IsFiniteSet(Enrollments)
<1>1. IsFiniteSet(1 .. MaxEnrollments)
  BY BoundAssumption, FS_Interval
<1>2. QED
  BY <1>1, ContactAssumption, FS_Product DEF Enrollments

\* A step of a process that only moves on, or ends, and leaves the tables alone.
LEMMA ContinueBase ==
    ASSUME BaseInv, NEW p \in Processes, NEW step \in Busy, Continue(p, step),
           Holds(step, job[p], row[p]), TablesOK'
    PROVE  BaseInv'
BY ContinueMoves, MovesHands DEF BaseInv

LEMMA FinishBase ==
    ASSUME BaseInv, NEW p \in Processes, Finish(p), TablesOK'
    PROVE  BaseInv'
BY FinishHands DEF BaseInv

LEMMA EnrollBase ==
    ASSUME BaseInv, NEW p \in Processes
    PROVE  /\ \A c \in Contacts : CheckPreference(p, c) \/ CheckEnrolled(p, c) => BaseInv'
           /\ Create(p) \/ Count(p) \/ EnrollDone(p) => BaseInv'
           /\ \A e \in Enrollments : FindFirst(p, e) => BaseInv'
<1>1. ASSUME NEW c \in Contacts, CheckPreference(p, c) \/ CheckEnrolled(p, c)
      PROVE  BaseInv'
  <2>1. TablesOK'
    BY <1>1, SameTables DEF BaseInv, CheckPreference, CheckEnrolled
  <2>2. PICK v \in {"none", "subscribed", "eligible"} :
          checks' = [checks EXCEPT ![p][c] = v]
    BY <1>1 DEF CheckPreference, CheckEnrolled
  <2>3. ProcessesOK'
    BY <1>1, <2>2 DEF BaseInv, ProcessesOK, CheckPreference, CheckEnrolled, view
  <2>4. Hands'
    BY <1>1 DEF BaseInv, Hands, Holds, CheckPreference, CheckEnrolled, view
  <2>5. QED
    BY <2>1, <2>3, <2>4 DEF BaseInv
<1>2. ASSUME Create(p)
      PROVE  BaseInv'
  <2> DEFINE eligible == {c \in Contacts : checks[p][c] = "eligible"}
             new == {e \in Enrollments : Contact(e) \in eligible /\ Unused(e)}
  <2>1. job[p] \in EnrollJobs \cup {NoJob} /\ pc[p] = "check"
    BY <1>2 DEF BaseInv, Hands, Holds, Create
  <2>2. UNCHANGED <<sequence, visitors, sends, queue, provider, history>>
    BY <1>2 DEF Create
  <2>3. CASE eligible = {}
    <3>1. Finish(p) /\ UNCHANGED <<status, index, origin>>
          /\ enrolledCount' = IF job[p] \in EnrollJobs
                              THEN [enrolledCount EXCEPT ![job[p][2]] = 0]
                              ELSE enrolledCount
      BY <1>2, <2>3 DEF Create
    <3>2. TablesOK'
      BY <2>2, <3>1, JobPayloads DEF BaseInv, TablesOK, Q!TypeOK, sequence, visitors,
         sends, provider, history
    <3>3. QED
      BY <3>1, <3>2, FinishBase
  <2>4. CASE eligible # {}
    <3>1. /\ status' = [e \in Enrollments |-> IF e \in new THEN "active" ELSE status[e]]
          /\ origin' = [e \in Enrollments |-> IF e \in new THEN job[p] ELSE origin[e]]
          /\ made' = [made EXCEPT ![p] = new]
          /\ pc' = [pc EXCEPT ![p] = IF job[p] \in EnrollJobs THEN "count" ELSE "first"]
          /\ UNCHANGED <<index, enrolledCount, job, view, checks>>
      BY <1>2, <2>4 DEF Create, Goto
    <3>2. TablesOK'
      BY <2>1, <2>2, <3>1 DEF BaseInv, TablesOK, Ended, Q!TypeOK, sequence, visitors, sends,
         provider, history
    <3>3. ProcessesOK'
      BY <3>1 DEF BaseInv, ProcessesOK, Busy, EnrollSteps, view
    <3>4. PICK step \in {"count", "first"} :
            /\ Moves(p, step, job[p], row[p])
            /\ step = "count" => job[p] \in EnrollJobs
      BY <3>1, JobSets DEF BaseInv, ProcessesOK, Busy, EnrollSteps, view, Moves
    <3>5. Holds(step, job[p], row[p])
      BY <2>1, <3>4 DEF Holds, SendSteps, ReportSteps
    <3>6. QED
      BY <3>2, <3>3, <3>4, <3>5, MovesHands DEF BaseInv
  <2>5. QED
    BY <2>3, <2>4
<1>3. ASSUME Count(p)
      PROVE  BaseInv'
  <2>1. job[p] \in EnrollJobs /\ made[p] \in SUBSET Enrollments
    BY <1>3 DEF BaseInv, Hands, Holds, Count, ProcessesOK
  <2>2. Cardinality(made[p]) \in Nat
    BY <2>1, EnrollmentsFinite, FS_Subset, FS_CardinalityType
  <2>3. Continue(p, "first") /\ UNCHANGED <<sequence, visitors, status, index, origin,
                                          sends, queue, provider, history>>
        /\ enrolledCount' = [enrolledCount EXCEPT ![job[p][2]] = Cardinality(made[p])]
    BY <1>3 DEF Count
  <2>4. TablesOK'
    BY <2>1, <2>2, <2>3, JobPayloads DEF BaseInv, TablesOK, Q!TypeOK, sequence, visitors,
       sends, provider, history
  <2>5. Holds("first", job[p], row[p])
    BY <2>1 DEF Holds, SendSteps, ReportSteps
  <2>6. QED
    BY <2>3, <2>4, <2>5, ContinueBase DEF Busy, EnrollSteps
<1>4. ASSUME EnrollDone(p)
      PROVE  BaseInv'
  BY <1>4, SameTables, FinishBase DEF EnrollDone, BaseInv
<1>5. ASSUME NEW e \in Enrollments, FindFirst(p, e)
      PROVE  BaseInv'
  <2>1. <<e, 1>> \in Rows /\ job[p] \in EnrollJobs \cup {NoJob}
    BY <1>5, FirstRow DEF BaseInv, Hands, Holds, FindFirst
  <2>2. TablesOK'
    BY <1>5, SameTables DEF BaseInv, FindFirst
  <2>3. ProcessesOK'
    BY <1>5, <2>1 DEF BaseInv, ProcessesOK, FindFirst, Goto, Busy, EnrollSteps, ScheduleSteps
  <2>4. PICK step \in {"insert", "first"} : Moves(p, step, job[p], <<e, 1>>)
    BY <1>5, <2>1, JobSets DEF BaseInv, ProcessesOK, FindFirst, Goto, Busy, EnrollSteps,
       ScheduleSteps, Moves
  <2>5. Holds(step, job[p], <<e, 1>>)
    BY <2>1, <2>4 DEF Holds, SendSteps, ReportSteps
  <2>6. QED
    BY <2>2, <2>3, <2>4, <2>5, MovesHands DEF BaseInv
<1>6. QED
  BY <1>1, <1>2, <1>3, <1>4, <1>5

LEMMA ScheduleBase ==
    ASSUME BaseInv, NEW p \in Processes
    PROVE  LoadNext(p) \/ Find(p) \/ Insert(p) \/ Publish(p) => BaseInv'
<1>1. ASSUME LoadNext(p)
      PROVE  BaseInv'
  <2>1. job[p] \in ScheduleJobs /\ job[p][2] \in Enrollments
    BY <1>1, JobPayloads DEF BaseInv, Hands, Holds, LoadNext
  <2>2. TablesOK'
    BY <1>1, SameTables DEF BaseInv, LoadNext
  <2> DEFINE e == job[p][2]
  <2>3. CASE Finish(p)
    BY <2>2, <2>3, FinishBase
  <2>4. CASE /\ index[e] \in Steps
             /\ row' = [row EXCEPT ![p] = <<e, index[e]>>]
             /\ Goto(p, "find")
             /\ UNCHANGED <<job, at, clear, receipt, roster>>
    <3>1. <<e, index[e]>> \in Rows
      BY <2>1, <2>4 DEF Rows
    <3>2. ProcessesOK' /\ Moves(p, "find", job[p], <<e, index[e]>>)
      BY <2>1, <2>4, <3>1, JobSets DEF BaseInv, ProcessesOK, Goto, Busy, ScheduleSteps, Moves,
         roster
    <3>3. Holds("find", job[p], <<e, index[e]>>)
      BY <2>1, <3>1 DEF Holds, SendSteps, ReportSteps
    <3>4. QED
      BY <2>2, <3>2, <3>3, MovesHands DEF BaseInv
  <2>5. QED
    BY <1>1, <2>3, <2>4 DEF LoadNext
<1>2. ASSUME Find(p)
      PROVE  BaseInv'
  <2>1. TablesOK' /\ Holds("insert", job[p], row[p])
    BY <1>2, SameTables DEF BaseInv, Find, Hands, Holds, SendSteps, ReportSteps
  <2>2. QED
    BY <1>2, <2>1, FinishBase, ContinueBase DEF Find, Busy, ScheduleSteps
<1>3. ASSUME Insert(p)
      PROVE  BaseInv'
  <2>1. Holds("publish", job[p], row[p]) /\ row[p] \in Rows
    BY <1>3 DEF BaseInv, Insert, Hands, Holds, SendSteps, ReportSteps
  <2>2. UNCHANGED <<sequence, visitors, enrollments, message, provider, history>>
    BY <1>3 DEF Insert
  <2>3. CASE send' = [send EXCEPT ![row[p]] = "pending"] /\ Continue(p, "publish") /\ UNCHANGED queue
    <3>1. TablesOK'
      BY <2>1, <2>2, <2>3 DEF BaseInv, TablesOK, Q!TypeOK, sequence, visitors,
         enrollments, provider, history
    <3>2. QED
      BY <2>1, <2>3, <3>1, ContinueBase DEF Busy, ScheduleSteps
  <2>4. CASE Stop(p) /\ UNCHANGED send
    <3>1. TablesOK'
      BY <2>2, <2>4, StopHands DEF BaseInv, TablesOK, sequence, visitors, enrollments,
         provider, history
    <3>2. QED
      BY <2>4, <3>1, StopHands DEF BaseInv
  <2>5. QED
    BY <1>3, <2>3, <2>4 DEF Insert
<1>4. ASSUME Publish(p)
      PROVE  BaseInv'
  <2>1. row[p] \in Rows /\ <<"send-step", row[p]>> \in Jobs
    BY <1>4 DEF BaseInv, Publish, Hands, Holds, Jobs, SendJobs
  <2>2. TablesOK'
    BY <1>4, <2>1, QueueType, SameTablesButQueue DEF BaseInv, Publish
  <2>3. job[p] \notin ScheduleJobs => Holds("first", job[p], row[p])
    BY <1>4 DEF BaseInv, Publish, Hands, Holds, SendSteps, ReportSteps
  <2>4. QED
    BY <1>4, <2>2, <2>3, FinishBase, ContinueBase DEF Publish, Busy, EnrollSteps
<1>5. QED
  BY <1>1, <1>2, <1>3, <1>4

LEMMA SendBase ==
    ASSUME BaseInv, NEW p \in Processes
    PROVE  /\ Load(p) \/ LoadEnrollment(p) \/ LoadSequence(p) => BaseInv'
           /\ CheckBars(p) \/ MarkSkipped(p) \/ ExitEnrollment(p) => BaseInv'
           /\ Mail(p) \/ MarkSent(p) \/ Advance(p) \/ EnqueueNext(p) => BaseInv'
<1> DEFINE x == row[p]
<1>0. ASSUME pc[p] \in SendSteps
      PROVE  /\ x \in Rows /\ job[p] = <<"send-step", x>> /\ job[p] \in Jobs
             /\ x[1] \in Enrollments /\ x[2] \in Steps
             /\ \A step \in SendSteps : Holds(step, job[p], x)
  <2>1. x \in Rows /\ job[p] = <<"send-step", x>>
    BY <1>0 DEF BaseInv, Hands, Holds
  <2>2. job[p] \in Jobs
    BY <2>1 DEF Jobs, SendJobs
  <2>3. QED
    BY <2>1, <2>2, RowParts DEF Holds, SendSteps, ReportSteps
<1>1. ASSUME Load(p)
      PROVE  BaseInv'
  <2>1. pc[p] \in SendSteps
    BY <1>1 DEF Load, SendSteps
  <2>2. TablesOK'
    BY <1>1, SameTables DEF BaseInv, Load
  <2>3. QED
    BY <1>0, <1>1, <2>1, <2>2, FinishBase, ContinueBase DEF Load, Busy, SendSteps
<1>a. ASSUME LoadEnrollment(p)
      PROVE  BaseInv'
  <2>1. pc[p] \in SendSteps
    BY <1>a DEF LoadEnrollment, SendSteps
  <2>2. TablesOK'
    BY <1>0, <1>a, <2>1 DEF BaseInv, LoadEnrollment, TablesOK, Q!TypeOK, database, sequence,
       visitors, enrollments, sends, provider
  <2>3. ProcessesOK' /\ Moves(p, "loadSequence", job[p], x)
    BY <1>0, <1>a, <2>1 DEF BaseInv, ProcessesOK, TablesOK, LoadEnrollment, Active, Goto,
       Moves, Busy, SendSteps, roster
  <2>4. QED
    BY <1>0, <2>1, <2>2, <2>3, MovesHands DEF BaseInv, SendSteps
<1>b. ASSUME LoadSequence(p)
      PROVE  BaseInv'
  <2>1. pc[p] \in SendSteps
    BY <1>b DEF LoadSequence, SendSteps
  <2>2. TablesOK'
    BY <1>b, SameTables DEF BaseInv, LoadSequence
  <2>3. ProcessesOK' /\ Moves(p, "bars", job[p], x)
    BY <1>0, <1>b, <2>1 DEF BaseInv, ProcessesOK, TablesOK, LoadSequence, Goto, Moves,
       Busy, SendSteps, roster
  <2>4. QED
    BY <1>0, <2>1, <2>2, <2>3, MovesHands DEF BaseInv, SendSteps
<1>2. ASSUME CheckBars(p)
      PROVE  BaseInv'
  <2>1. TablesOK' /\ pc[p] \in SendSteps
    BY <1>2, SameTables DEF BaseInv, CheckBars, SendSteps
  <2>2. PICK step \in {"skipOut", "mail", "skip"} : Continue(p, step)
    BY <1>2 DEF CheckBars
  <2>3. QED
    BY <1>0, <2>1, <2>2, ContinueBase DEF Busy, SendSteps
<1>3. ASSUME MarkSkipped(p)
      PROVE  BaseInv'
  <2>1. pc[p] \in SendSteps
    BY <1>3 DEF MarkSkipped, SendSteps
  <2>2. TablesOK'
    BY <1>0, <1>3, <2>1 DEF BaseInv, TablesOK, MarkSkipped, Q!TypeOK, sequence, visitors,
       enrollments, provider, history
  <2>3. QED
    BY <1>0, <1>3, <2>1, <2>2, FinishBase, ContinueBase DEF MarkSkipped, Busy, SendSteps
<1>4. ASSUME ExitEnrollment(p)
      PROVE  BaseInv'
  <2>1. pc[p] \in SendSteps
    BY <1>4 DEF ExitEnrollment, SendSteps
  <2>2. TablesOK'
    BY <1>0, <1>4, <2>1 DEF BaseInv, TablesOK, ExitEnrollment, Ended, Q!TypeOK, sequence,
       visitors, sends, provider, history
  <2>3. QED
    BY <1>4, <2>2, FinishBase DEF ExitEnrollment
<1>5. ASSUME Mail(p)
      PROVE  BaseInv'
  <2>1. pc[p] \in SendSteps
    BY <1>5 DEF Mail, SendSteps
  <2>2. mails[x] \in Nat
    BY <1>0, <2>1 DEF BaseInv, TablesOK
  <2>3. TablesOK'
    BY <1>0, <1>5, <2>1, <2>2 DEF BaseInv, TablesOK, Mail, Q!TypeOK, database, sequence,
       visitors, enrollments, sends, history
  <2>4. ProcessesOK' /\ Moves(p, "markSent", job[p], x)
    BY <1>0, <1>5, <2>1, <2>2 DEF BaseInv, ProcessesOK, Mail, Goto, Moves, Busy,
       SendSteps, roster
  <2>5. QED
    BY <1>0, <2>1, <2>3, <2>4, MovesHands DEF BaseInv, SendSteps
<1>6. ASSUME MarkSent(p)
      PROVE  BaseInv'
  <2>1. pc[p] \in SendSteps /\ receipt[p] \in Nat
    BY <1>6 DEF MarkSent, SendSteps, BaseInv, ProcessesOK
  <2>2. TablesOK'
    BY <1>0, <1>6, <2>1 DEF BaseInv, TablesOK, MarkSent, Q!TypeOK, sequence, visitors,
       enrollments, provider, history
  <2>3. QED
    BY <1>0, <1>6, <2>1, <2>2, ContinueBase DEF MarkSent, Busy, SendSteps
<1>7. ASSUME Advance(p)
      PROVE  BaseInv'
  <2>1. pc[p] \in SendSteps /\ at[p] + 1 \in Nat
    BY <1>7 DEF Advance, SendSteps, BaseInv, ProcessesOK
  <2>2. TablesOK'
    BY <1>0, <1>7, <2>1 DEF BaseInv, TablesOK, Advance, Ended, Q!TypeOK, sequence,
       visitors, sends, provider, history
  <2>3. QED
    BY <1>0, <1>7, <2>1, <2>2, FinishBase, ContinueBase DEF Advance, Busy, SendSteps
<1>8. ASSUME EnqueueNext(p)
      PROVE  BaseInv'
  <2>1. pc[p] \in SendSteps
    BY <1>8 DEF EnqueueNext, SendSteps
  <2>2. <<"schedule-next-step", x[1]>> \in Jobs
    BY <1>0, <2>1 DEF Jobs, ScheduleJobs
  <2>3. TablesOK'
    BY <1>8, <2>2, QueueType, SameTablesButQueue DEF BaseInv, EnqueueNext
  <2>4. QED
    BY <1>8, <2>3, FinishBase DEF EnqueueNext
<1>9. QED
  BY <1>1, <1>a, <1>b, <1>2, <1>3, <1>4, <1>5, <1>6, <1>7, <1>8

LEMMA ReportBase ==
    ASSUME BaseInv, NEW p \in Processes
    PROVE  Match(p) \/ MarkReported(p) \/ Suppress(p) \/ ExitSuppressed(p) => BaseInv'
<1> DEFINE x == row[p]
<1>0. ASSUME pc[p] \in ReportSteps
      PROVE  /\ x \in Rows /\ Contact(x[1]) \in Contacts
             /\ \A step \in ReportSteps : Holds(step, job[p], x)
  <2>1. x \in Rows /\ job[p] \in ReportJobs /\ job[p][2] = x
    BY <1>0 DEF BaseInv, Hands, Holds
  <2>2. QED
    BY <2>1, RowParts DEF Holds, SendSteps, ReportSteps
<1>1. ASSUME Match(p)
      PROVE  BaseInv'
  <2>1. TablesOK' /\ pc[p] \in ReportSteps
    BY <1>1, SameTables DEF BaseInv, Match, ReportSteps
  <2>2. QED
    BY <1>0, <1>1, <2>1, FinishBase, ContinueBase DEF Match, Busy, ReportSteps
<1>2. ASSUME MarkReported(p)
      PROVE  BaseInv'
  <2>1. pc[p] \in ReportSteps
    BY <1>2 DEF MarkReported, ReportSteps
  <2>2. TablesOK'
    BY <1>0, <1>2, <2>1 DEF BaseInv, TablesOK, MarkReported, Q!TypeOK, sequence, visitors,
       enrollments, provider, history
  <2>3. QED
    BY <1>0, <1>2, <2>1, <2>2, FinishBase, ContinueBase DEF MarkReported, Busy, ReportSteps
<1>3. ASSUME Suppress(p)
      PROVE  BaseInv'
  <2>1. pc[p] \in ReportSteps
    BY <1>3 DEF Suppress, ReportSteps
  <2>2. TablesOK'
    BY <1>0, <1>3, <2>1 DEF BaseInv, TablesOK, Suppress, Q!TypeOK, sequence, enrollments,
       sends, provider, history
  <2>3. QED
    BY <1>0, <1>3, <2>1, <2>2, ContinueBase DEF Suppress, Busy, ReportSteps
<1>4. ASSUME ExitSuppressed(p)
      PROVE  BaseInv'
  <2>1. TablesOK'
    BY <1>4 DEF BaseInv, TablesOK, ExitSuppressed, Exit, Ended, Q!TypeOK, sequence,
       visitors, sends, provider, history
  <2>2. QED
    BY <1>4, <2>1, FinishBase DEF ExitSuppressed
<1>5. QED
  BY <1>1, <1>2, <1>3, <1>4

\* What a mishap halts are runs and enrollments.
LEMMA HaltedType ==
    ASSUME ProcessesOK
    PROVE  /\ \A p \in Processes : CutOff(p) \subseteq Runs \cup Enrollments
           /\ \A p \in Processes : EnrollingRun(p) \subseteq Runs /\ InHand(p) \subseteq Enrollments
           /\ \A j : Dropped(j) \subseteq Enrollments
<1>1. \A p \in Processes : EnrollingRun(p) \subseteq Runs /\ InHand(p) \subseteq Enrollments
                             /\ made[p] \subseteq Enrollments
  BY DEF EnrollingRun, InHand, ProcessesOK
<1>2. QED
  BY <1>1 DEF CutOff, Dropped

LEMMA MishapBase ==
    ASSUME BaseInv, GoesWrong
    PROVE  BaseInv'
<1>0. Mishap => mishaps' \in Nat
  BY DEF BaseInv, TablesOK, Mishap
<1>1. ASSUME NEW p \in Processes, Interrupt(p)
      PROVE  BaseInv'
  <2>1. risked' \subseteq Rows /\ halted' \subseteq Runs \cup Enrollments
    BY <1>1, HaltedType DEF BaseInv, Hands, Holds, TablesOK, Interrupt, SendSteps
  <2>2. TablesOK'
    BY <1>0, <1>1, <2>1, StopHands DEF BaseInv, TablesOK, Interrupt, database, sequence,
       visitors, enrollments, sends, provider
  <2>3. QED
    BY <1>1, <2>2, StopHands DEF BaseInv, Interrupt
<1>2. ASSUME NEW w \in Processes, Redeliver(w)
      PROVE  BaseInv'
  <2>1. risked' \subseteq Rows /\ halted' \subseteq Runs \cup Enrollments
    BY <1>2, HaltedType DEF BaseInv, Hands, Holds, TablesOK, Redeliver, SendSteps, BeforeMark
  <2>2. TablesOK'
    BY <1>0, <1>2, <2>1, QueueType DEF BaseInv, TablesOK, Redeliver, database, sequence,
       visitors, enrollments, sends, provider
  <2>3. QED
    BY <1>2, <2>2, OutsideBase DEF Redeliver
<1>3. ASSUME NEW j \in Jobs, Drain(j)
      PROVE  BaseInv'
  <2>1. TablesOK'
    BY <1>0, <1>3, QueueType, HaltedType DEF BaseInv, TablesOK, Drain, Q!Drain, database, sequence,
       visitors, enrollments, sends, provider
  <2>2. QED
    BY <1>3, <2>1, OutsideBase DEF Drain
<1>4. ASSUME NEW r \in Runs, StartRunStops(r)
      PROVE  BaseInv'
  <2>1. TablesOK'
    BY <1>0, <1>4 DEF BaseInv, TablesOK, StartRunStops, Q!TypeOK, visitors, enrollments,
       sends, provider
  <2>2. QED
    BY <1>4, <2>1, OutsideBase DEF StartRunStops
<1>5. ASSUME NEW c \in Contacts, RequestStops(c) \/ LoseAddress(c)
      PROVE  BaseInv'
  <2>1. TablesOK'
    BY <1>0, <1>5 DEF BaseInv, TablesOK, RequestStops, LoseAddress, Q!TypeOK, sequence,
       enrollments, sends, provider
  <2>2. QED
    BY <1>5, <2>1, OutsideBase DEF RequestStops, LoseAddress
<1>6. QED
  BY <1>1, <1>2, <1>3, <1>4, <1>5 DEF GoesWrong, Processes

LEMMA InitBase ==
    ASSUME Init
    PROVE  BaseInv
<1>1. TablesOK
  BY DEF Init, TablesOK, Q!TypeOK, Q!Empty
<1>2. ProcessesOK
  BY DEF Init, ProcessesOK, NoChecks
<1>3. Hands
  BY IdleHolds DEF Init, Hands
<1>4. QED
  BY <1>1, <1>2, <1>3 DEF BaseInv

LEMMA StepBase ==
    ASSUME BaseInv, [Next]_vars
    PROVE  BaseInv'
<1>1. CASE Work
  BY <1>1, BeginBase, EnrollBase, ScheduleBase, SendBase, ReportBase DEF Work, Step
<1>2. CASE Environment
  BY <1>2, EnvironmentBase, BeginBase DEF Environment, Processes
<1>3. CASE GoesWrong
  BY <1>3, MishapBase
<1>4. CASE UNCHANGED vars
  <2>1. TablesOK'
    BY <1>4, SameTables DEF BaseInv, vars
  <2>2. QED
    BY <1>4, <2>1, OutsideBase DEF vars
<1>5. QED
  BY <1>1, <1>2, <1>3, <1>4 DEF Next

\* The types hold, with what they rest on, in every reachable state.
THEOREM BaseInvariant == Spec => []BaseInv
BY InitBase, StepBase, PTL DEF Spec
-------------------------------------------------------------------------------
(***************************************************************************)
(* Step indices.  No enrollment goes further than past its last step: one  *)
(* that is there has ended, and a handler that read it then skips its mail *)
(* instead of moving it on.                                                *)
(***************************************************************************)
IndexWithin ==
    \A e \in Enrollments :
        /\ index[e] \in 1 .. (LastStep + 1)
        /\ index[e] > LastStep => status[e] \in Ended

\* What a process knows of the index i it has read, with g what it has read of the
\* enrollment's and the sequence's status.
InRange(step, g, i) ==
    /\ step \in {"loadSequence", "bars"} /\ g => i \in Steps
    /\ step \in {"mail", "markSent", "advance"} => i \in Steps

EveryoneIsInRange == \A p \in Processes : InRange(pc[p], clear[p], at[p])

WithinInv == IndexWithin /\ EveryoneIsInRange

\* Indices are left alone, and what has ended stays so.
SameIndex ==
    /\ UNCHANGED index
    /\ \A e \in Enrollments : status[e] \in Ended => status'[e] \in Ended

Ranging == {"loadSequence", "bars", "mail", "markSent", "advance"}

LEMMA SameIndexWithin ==
    ASSUME WithinInv, SameIndex
    PROVE  IndexWithin'
BY DEF WithinInv, IndexWithin, SameIndex

\* A step of a process that ends where nothing is known of the index.
LEMMA MoveWithin ==
    ASSUME WithinInv, SameIndex, NEW p \in Processes, pc'[p] \notin Ranging,
           \A q \in Processes \ {p} : pc'[q] = pc[q] /\ clear'[q] = clear[q] /\ at'[q] = at[q]
    PROVE  WithinInv'
BY SameIndexWithin DEF WithinInv, EveryoneIsInRange, InRange, Ranging

LEMMA OutsideWithin ==
    ASSUME WithinInv, SameIndex, UNCHANGED <<pc, view>>
    PROVE  WithinInv'
BY SameIndexWithin DEF WithinInv, EveryoneIsInRange, InRange, view

\* The process goes on knowing what it knew.
LEMMA KnownWithin ==
    ASSUME BaseInv, WithinInv, SameIndex, NEW p \in Processes, NEW step, Goto(p, step),
           UNCHANGED <<at, clear>>, InRange(step, clear[p], at[p])
    PROVE  WithinInv'
<1>1. pc'[p] = step /\ \A q \in Processes \ {p} : pc'[q] = pc[q]
  BY DEF Goto, BaseInv, ProcessesOK
<1>2. EveryoneIsInRange'
  BY <1>1 DEF WithinInv, EveryoneIsInRange
<1>3. QED
  BY <1>2, SameIndexWithin DEF WithinInv

LEMMA FinishWithin ==
    ASSUME BaseInv, WithinInv, SameIndex, NEW p \in Processes, Finish(p)
    PROVE  WithinInv'
<1>1. pc'[p] \in {"idle", "returned"}
      /\ \A q \in Processes \ {p} : pc'[q] = pc[q] /\ clear'[q] = clear[q] /\ at'[q] = at[q]
  BY DEF Finish, Goto, BaseInv, ProcessesOK
<1>2. QED
  BY <1>1, MoveWithin DEF Ranging

\* Enrolling and scheduling know of no index; neither do the reports.
LEMMA GotoWithin ==
    ASSUME BaseInv, WithinInv, SameIndex, NEW p \in Processes, NEW step, step \notin Ranging,
           Goto(p, step), UNCHANGED <<at, clear>>
    PROVE  WithinInv'
<1>1. InRange(step, clear[p], at[p])
  BY DEF InRange, Ranging
<1>2. QED
  BY <1>1, KnownWithin

LEMMA DatabaseSameIndex ==
    ASSUME UNCHANGED database
    PROVE  SameIndex
BY DEF SameIndex, database, enrollments

LEMMA ExitSameIndex ==
    ASSUME BaseInv, NEW c, Exit(c), UNCHANGED index
    PROVE  SameIndex
BY DEF SameIndex, Exit, Ended, BaseInv, TablesOK

LEMMA EnvironmentWithin ==
    ASSUME BaseInv, WithinInv
    PROVE  /\ \A r \in Runs : StartRun(r) => WithinInv'
           /\ \A b \in BOOLEAN : SetPaused(b) => WithinInv'
           /\ \A c \in Contacts : Unsubscribe(c) \/ Leave(c) => WithinInv'
           /\ \A x \in Rows : \A m \in Messages : \A t \in Reports :
                 Report(x, m, t) => WithinInv'
<1>1. \A r \in Runs : StartRun(r) => WithinInv'
  BY OutsideWithin DEF StartRun, SameIndex, enrollments
<1>2. \A b \in BOOLEAN : SetPaused(b) => WithinInv'
  BY OutsideWithin DEF SetPaused, SameIndex, enrollments
<1>3. \A c \in Contacts : Unsubscribe(c) => WithinInv'
  BY OutsideWithin DEF Unsubscribe, SameIndex, enrollments
<1>4. \A c \in Contacts : Leave(c) => WithinInv'
  BY OutsideWithin, ExitSameIndex DEF Leave
<1>5. \A x \in Rows : \A m \in Messages : \A t \in Reports : Report(x, m, t) => WithinInv'
  BY OutsideWithin, DatabaseSameIndex DEF Report
<1>6. QED
  BY <1>1, <1>2, <1>3, <1>4, <1>5

LEMMA BeginWithin ==
    ASSUME BaseInv, WithinInv, NEW w \in Processes
    PROVE  /\ Begin(w) => WithinInv'
           /\ \A S \in SUBSET Contacts : Call(w, S) => WithinInv'
<1>1. ASSUME NEW step \in {"check", "loadNext", "load", "match"}, Goto(w, step),
             UNCHANGED <<database, at, clear>>
      PROVE  WithinInv'
  BY <1>1, GotoWithin, DatabaseSameIndex DEF Ranging
<1>2. QED
  BY <1>1 DEF Begin, BeginEnroll, Call, StartEnrolling, BeginSchedule, BeginSend, BeginReport,
     view

LEMMA EnrollWithin ==
    ASSUME BaseInv, WithinInv, NEW p \in Processes
    PROVE  /\ \A c \in Contacts : CheckPreference(p, c) \/ CheckEnrolled(p, c) => WithinInv'
           /\ Create(p) \/ Count(p) \/ EnrollDone(p) => WithinInv'
           /\ \A e \in Enrollments : FindFirst(p, e) => WithinInv'
<1>1. \A c \in Contacts : CheckPreference(p, c) \/ CheckEnrolled(p, c) => WithinInv'
  BY OutsideWithin, DatabaseSameIndex DEF CheckPreference, CheckEnrolled
<1>2. ASSUME Create(p)
      PROVE  WithinInv'
  <2>1. UNCHANGED index
    BY <1>2 DEF Create
  <2>2. \/ Finish(p) /\ UNCHANGED status
        \/ /\ UNCHANGED view
           /\ \E step \in {"count", "first"} : Goto(p, step)
           /\ \A e \in Enrollments : status'[e] = status[e] \/ status[e] = "none"
    BY <1>2 DEF Create, Unused
  <2>3. SameIndex
    BY <2>1, <2>2 DEF SameIndex, Ended
  <2>4. QED
    BY <2>2, <2>3, FinishWithin, GotoWithin DEF view, Ranging
<1>3. ASSUME Count(p)
      PROVE  WithinInv'
  <2>1. SameIndex
    BY <1>3 DEF Count, SameIndex
  <2>2. QED
    BY <1>3, <2>1, GotoWithin DEF Count, Continue, view, Ranging
<1>4. EnrollDone(p) => WithinInv'
  BY FinishWithin, DatabaseSameIndex DEF EnrollDone
<1>5. ASSUME NEW e \in Enrollments, FindFirst(p, e)
      PROVE  WithinInv'
  BY <1>5, GotoWithin, DatabaseSameIndex DEF FindFirst, Ranging
<1>6. QED
  BY <1>1, <1>2, <1>3, <1>4, <1>5

LEMMA ScheduleWithin ==
    ASSUME BaseInv, WithinInv, NEW p \in Processes
    PROVE  LoadNext(p) \/ Find(p) \/ Insert(p) \/ Publish(p) => WithinInv'
<1>1. ASSUME LoadNext(p)
      PROVE  WithinInv'
  <2>1. SameIndex
    BY <1>1, DatabaseSameIndex DEF LoadNext
  <2>2. Finish(p) \/ (Goto(p, "find") /\ UNCHANGED <<at, clear>>)
    BY <1>1 DEF LoadNext
  <2>3. QED
    BY <2>1, <2>2, FinishWithin, GotoWithin DEF Ranging
<1>2. Find(p) => WithinInv'
  BY FinishWithin, GotoWithin, DatabaseSameIndex DEF Find, Continue, view, Ranging
<1>3. ASSUME Insert(p)
      PROVE  WithinInv'
  <2>1. SameIndex
    BY <1>3 DEF Insert, SameIndex, enrollments
  <2>2. Finish(p) \/ (Goto(p, "publish") /\ UNCHANGED <<at, clear>>)
    BY <1>3 DEF Insert, Stop, Continue, view
  <2>3. QED
    BY <2>1, <2>2, FinishWithin, GotoWithin DEF Ranging
<1>4. Publish(p) => WithinInv'
  BY FinishWithin, GotoWithin, DatabaseSameIndex DEF Publish, Continue, view, Ranging
<1>5. QED
  BY <1>1, <1>2, <1>3, <1>4

LEMMA SendWithin ==
    ASSUME BaseInv, WithinInv, NEW p \in Processes
    PROVE  /\ Load(p) \/ LoadEnrollment(p) \/ LoadSequence(p) => WithinInv'
           /\ CheckBars(p) \/ MarkSkipped(p) \/ ExitEnrollment(p) => WithinInv'
           /\ Mail(p) \/ MarkSent(p) \/ Advance(p) \/ EnqueueNext(p) => WithinInv'
<1> DEFINE e == row[p][1]
<1>0. InRange(pc[p], clear[p], at[p])
  BY DEF WithinInv, EveryoneIsInRange
<1>1. Load(p) => WithinInv'
  BY FinishWithin, GotoWithin, DatabaseSameIndex DEF Load, Continue, view, Ranging
<1>2. ASSUME LoadEnrollment(p)
      PROVE  WithinInv'
  <2>1. SameIndex
    BY <1>2, DatabaseSameIndex DEF LoadEnrollment
  <2>2. e \in Enrollments
    BY <1>2, RowParts DEF LoadEnrollment, BaseInv, Hands, Holds, SendSteps
  <2>3. Active(e) => index[e] \in Steps
    BY <2>2, StepAssumption DEF Active, WithinInv, IndexWithin, Ended, Steps
  <2>4. /\ pc'[p] = "loadSequence" /\ clear'[p] = Active(e) /\ at'[p] = index[e]
        /\ \A q \in Processes \ {p} : pc'[q] = pc[q] /\ clear'[q] = clear[q] /\ at'[q] = at[q]
    BY <1>2 DEF LoadEnrollment, Goto, BaseInv, ProcessesOK
  <2>5. EveryoneIsInRange'
    BY <2>3, <2>4 DEF WithinInv, EveryoneIsInRange, InRange
  <2>6. QED
    BY <2>1, <2>5, SameIndexWithin DEF WithinInv
<1>3. ASSUME LoadSequence(p)
      PROVE  WithinInv'
  <2>1. SameIndex
    BY <1>3, DatabaseSameIndex DEF LoadSequence
  <2>2. /\ pc'[p] = "bars" /\ clear'[p] = (clear[p] /\ ~paused) /\ at' = at
        /\ \A q \in Processes \ {p} : pc'[q] = pc[q] /\ clear'[q] = clear[q]
    BY <1>3 DEF LoadSequence, Goto, BaseInv, ProcessesOK
  <2>3. clear[p] => at[p] \in Steps
    BY <1>0, <1>3 DEF LoadSequence, InRange
  <2>4. EveryoneIsInRange'
    BY <2>2, <2>3 DEF WithinInv, EveryoneIsInRange, InRange
  <2>5. QED
    BY <2>1, <2>4, SameIndexWithin DEF WithinInv
<1>4. ASSUME CheckBars(p)
      PROVE  WithinInv'
  <2>1. SameIndex /\ UNCHANGED <<at, clear>>
    BY <1>4, DatabaseSameIndex DEF CheckBars, Continue, view
  <2>2. PICK step \in {"skipOut", "skip", "mail"} :
          Goto(p, step) /\ (step = "mail" => clear[p])
    BY <1>4 DEF CheckBars, Continue
  <2>3. InRange(step, clear[p], at[p])
    BY <1>0, <1>4, <2>2 DEF CheckBars, InRange
  <2>4. QED
    BY <2>1, <2>2, <2>3, KnownWithin
<1>5. ASSUME MarkSkipped(p)
      PROVE  WithinInv'
  <2>1. SameIndex
    BY <1>5 DEF MarkSkipped, SameIndex, enrollments
  <2>2. QED
    BY <1>5, <2>1, FinishWithin, GotoWithin DEF MarkSkipped, Continue, view, Ranging
<1>6. ASSUME ExitEnrollment(p)
      PROVE  WithinInv'
  <2>1. SameIndex
    BY <1>6 DEF ExitEnrollment, SameIndex, Ended, BaseInv, TablesOK
  <2>2. QED
    BY <1>6, <2>1, FinishWithin DEF ExitEnrollment
<1>7. ASSUME Mail(p)
      PROVE  WithinInv'
  <2>1. SameIndex /\ UNCHANGED <<at, clear>> /\ Goto(p, "markSent")
    BY <1>7, DatabaseSameIndex DEF Mail
  <2>2. InRange("markSent", clear[p], at[p])
    BY <1>0, <1>7 DEF Mail, InRange
  <2>3. QED
    BY <2>1, <2>2, KnownWithin
<1>8. ASSUME MarkSent(p)
      PROVE  WithinInv'
  <2>1. SameIndex /\ UNCHANGED <<at, clear>> /\ Goto(p, "advance")
    BY <1>8 DEF MarkSent, Continue, view, SameIndex, enrollments
  <2>2. InRange("advance", clear[p], at[p])
    BY <1>0, <1>8 DEF MarkSent, InRange
  <2>3. QED
    BY <2>1, <2>2, KnownWithin
<1>9. ASSUME Advance(p)
      PROVE  WithinInv'
  <2>1. at[p] \in 1 .. LastStep /\ at[p] + 1 \in 1 .. (LastStep + 1)
    BY <1>0, <1>9, StepAssumption DEF Advance, InRange, Steps
  <2>2. ASSUME NEW d \in Enrollments
        PROVE  /\ index'[d] \in 1 .. (LastStep + 1)
               /\ index'[d] > LastStep => status'[d] \in Ended
    <3>1. index'[d] = IF d = e THEN at[p] + 1 ELSE index[d]
      BY <1>9 DEF Advance, BaseInv, TablesOK
    <3>2. \/ status'[d] = status[d] /\ at[p] + 1 <= LastStep
          \/ status'[d] = (IF d = e THEN "completed" ELSE status[d])
      BY <1>9 DEF Advance, BaseInv, TablesOK
    <3>3. index[d] \in 1 .. (LastStep + 1) /\ (index[d] > LastStep => status[d] \in Ended)
      BY DEF WithinInv, IndexWithin
    <3>4. QED
      BY <2>1, <3>1, <3>2, <3>3, StepAssumption DEF Ended
  <2>3. IndexWithin'
    BY <2>2 DEF IndexWithin
  <2>4. /\ pc'[p] \in {"idle", "returned", "enqueueNext"}
        /\ \A q \in Processes \ {p} : pc'[q] = pc[q] /\ clear'[q] = clear[q] /\ at'[q] = at[q]
    BY <1>9 DEF Advance, Finish, Continue, Goto, view, BaseInv, ProcessesOK
  <2>5. EveryoneIsInRange'
    BY <2>4 DEF WithinInv, EveryoneIsInRange, InRange
  <2>6. QED
    BY <2>3, <2>5 DEF WithinInv
<1>10. EnqueueNext(p) => WithinInv'
  BY FinishWithin, DatabaseSameIndex DEF EnqueueNext
<1>11. QED
  BY <1>1, <1>2, <1>3, <1>4, <1>5, <1>6, <1>7, <1>8, <1>9, <1>10

LEMMA ReportWithin ==
    ASSUME BaseInv, WithinInv, NEW p \in Processes
    PROVE  Match(p) \/ MarkReported(p) \/ Suppress(p) \/ ExitSuppressed(p) => WithinInv'
<1>1. Match(p) => WithinInv'
  BY FinishWithin, GotoWithin, DatabaseSameIndex DEF Match, Continue, view, Ranging
<1>2. ASSUME MarkReported(p)
      PROVE  WithinInv'
  <2>1. SameIndex
    BY <1>2 DEF MarkReported, SameIndex, enrollments
  <2>2. QED
    BY <1>2, <2>1, FinishWithin, GotoWithin DEF MarkReported, Continue, view, Ranging
<1>3. ASSUME Suppress(p)
      PROVE  WithinInv'
  <2>1. SameIndex
    BY <1>3 DEF Suppress, SameIndex, enrollments
  <2>2. QED
    BY <1>3, <2>1, GotoWithin DEF Suppress, Continue, view, Ranging
<1>4. ExitSuppressed(p) => WithinInv'
  BY FinishWithin, ExitSameIndex DEF ExitSuppressed
<1>5. QED
  BY <1>1, <1>2, <1>3, <1>4

LEMMA MishapWithin ==
    ASSUME BaseInv, WithinInv, GoesWrong
    PROVE  WithinInv'
<1>1. \A p \in Processes : Interrupt(p) => WithinInv'
  BY FinishWithin, DatabaseSameIndex DEF Interrupt, Stop
<1>2. \A w \in Processes : Redeliver(w) => WithinInv'
  BY OutsideWithin, DatabaseSameIndex DEF Redeliver
<1>3. \A j \in Jobs : Drain(j) => WithinInv'
  BY OutsideWithin, DatabaseSameIndex DEF Drain
<1>4. \A r \in Runs : StartRunStops(r) => WithinInv'
  BY OutsideWithin DEF StartRunStops, SameIndex, enrollments
<1>5. \A c \in Contacts : RequestStops(c) \/ LoseAddress(c) => WithinInv'
  BY OutsideWithin DEF RequestStops, LoseAddress, SameIndex, enrollments
<1>6. QED
  BY <1>1, <1>2, <1>3, <1>4, <1>5 DEF GoesWrong, Processes

LEMMA InitWithin ==
    ASSUME Init
    PROVE  WithinInv
<1>1. IndexWithin
  BY StepAssumption DEF Init, IndexWithin
<1>2. EveryoneIsInRange
  BY DEF Init, EveryoneIsInRange, InRange
<1>3. QED
  BY <1>1, <1>2 DEF WithinInv

LEMMA StepWithin ==
    ASSUME BaseInv, WithinInv, [Next]_vars
    PROVE  WithinInv'
<1>1. CASE Work
  BY <1>1, BeginWithin, EnrollWithin, ScheduleWithin, SendWithin, ReportWithin DEF Work, Step
<1>2. CASE Environment
  BY <1>2, EnvironmentWithin, BeginWithin DEF Environment, Processes
<1>3. CASE GoesWrong
  BY <1>3, MishapWithin
<1>4. CASE UNCHANGED vars
  BY <1>4, OutsideWithin, DatabaseSameIndex DEF vars
<1>5. QED
  BY <1>1, <1>2, <1>3, <1>4 DEF Next

\* No enrollment goes further than past its last step.
THEOREM WithinInvariant == Spec => []WithinInv
BY BaseInvariant, InitWithin, StepWithin, PTL DEF Spec

-------------------------------------------------------------------------------
(***************************************************************************)
(* The order of the mails.  A step is done once it has been mailed and its *)
(* row is no longer open; done steps stay done, and nothing goes past one  *)
(* that is not, unless the enrollment was outrun.  This is stated of       *)
(* values of send (s), mails (m), outrun (o) and of what a process holds,  *)
(* for the states before and after a step alike.                           *)
(***************************************************************************)
Open == {"none", "pending"}

Done(x, s, m) == s[x] \notin Open /\ m[x] > 0

Ready(x, s, m, o) == x[1] \in o \/ \A j \in Steps : j < x[2] => Done(<<x[1], j>>, s, m)

\* What a process at a step knows of its row x and of the index i it has read.
Sound(step, x, i, s, m, o) ==
    /\ step \in {"find", "insert"} => Ready(x, s, m, o)
    /\ step \in SendSteps \ {"load"} => s[x] # "none"
    /\ step \in SendSteps \ {"load", "loadEnrollment"} => x[1] \in o \/ i \in 1 .. x[2]
    /\ step = "markSent" => m[x] > 0
    /\ step \in {"advance", "mark"} => Done(x, s, m)

EveryoneIsSound == \A p \in Processes : Sound(pc[p], row[p], at[p], send, mails, outrun)

RowsAreReady == \A x \in Rows : send[x] # "none" => Ready(x, send, mails, outrun)
IndexFollowsDone ==
    \A e \in Enrollments \ outrun : \A j \in Steps :
        j < index[e] => Done(<<e, j>>, send, mails)
MailHasRow == \A x \in Rows : mails[x] > 0 => send[x] # "none"
SentHasMail == \A x \in Rows : send[x] \in {"sent", "delivered", "failed"} => mails[x] > 0
MessageHasMail == \A x \in Rows : message[x] > 0 => Done(x, send, mails)

OrderTables ==
    /\ RowsAreReady /\ IndexFollowsDone /\ MailHasRow /\ SentHasMail /\ MessageHasMail
    /\ CompletedIsMailedOut

OrderInv == EveryoneIsSound /\ OrderTables

\* No mail is taken back, no row disappears or opens again.
Grows(s, m, s2, m2) ==
    \A x \in Rows :
        /\ m[x] > 0 => m2[x] > 0
        /\ s[x] # "none" => s2[x] # "none"
        /\ s[x] \notin Open => s2[x] \notin Open

LEMMA EarlierRow ==
    ASSUME NEW x \in Rows, NEW j \in Steps
    PROVE  <<x[1], j>> \in Rows
BY DEF Rows

LEMMA ReadyGrows ==
    ASSUME NEW s, NEW m, NEW s2, NEW m2, Grows(s, m, s2, m2),
           NEW o, NEW o2, o \subseteq o2, NEW x \in Rows, Ready(x, s, m, o)
    PROVE  Ready(x, s2, m2, o2)
BY EarlierRow DEF Grows, Ready, Done

LEMMA SoundGrows ==
    ASSUME NEW s, NEW m, NEW s2, NEW m2, Grows(s, m, s2, m2), NEW o, NEW o2, o \subseteq o2,
           NEW step, NEW j, NEW x, NEW i, Holds(step, j, x), Sound(step, x, i, s, m, o)
    PROVE  Sound(step, x, i, s2, m2, o2)
<1>1. CASE x \in Rows
  BY <1>1, ReadyGrows DEF Sound, Grows, Done
<1>2. CASE x \notin Rows
  BY <1>2 DEF Sound, Holds, SendSteps, ReportSteps
<1>3. QED
  BY <1>1, <1>2

LEMMA IdleSound ==
    ASSUME NEW step \in {"idle", "returned", "check", "count", "first", "loadNext", "publish",
                             "load", "match", "suppress", "leave"},
           NEW x, NEW i, NEW s, NEW m, NEW o
    PROVE  Sound(step, x, i, s, m, o)
BY DEF Sound, SendSteps

\* What every other process knows stays true.
LEMMA OthersSound ==
    ASSUME BaseInv, EveryoneIsSound, NEW p \in Processes,
           Grows(send, mails, send', mails'), outrun \subseteq outrun',
           \A q \in Processes \ {p} :
              pc'[q] = pc[q] /\ row'[q] = row[q] /\ at'[q] = at[q],
           Sound(pc'[p], row'[p], at'[p], send', mails', outrun')
    PROVE  EveryoneIsSound'
<1>1. ASSUME NEW q \in Processes \ {p}
      PROVE  Sound(pc'[q], row'[q], at'[q], send', mails', outrun')
  BY SoundGrows DEF BaseInv, Hands, EveryoneIsSound
<1>2. QED
  BY <1>1 DEF EveryoneIsSound

\* Rows, mails and indices are left alone, and nobody is completed.
SameOrder ==
    /\ UNCHANGED <<send, mails, message, index, outrun>>
    /\ \A e \in Enrollments : status'[e] = "completed" => status[e] = "completed"

LEMMA SameOrderTables ==
    ASSUME OrderTables, SameOrder
    PROVE  OrderTables' /\ Grows(send, mails, send', mails')
BY DEF OrderTables, SameOrder, RowsAreReady, IndexFollowsDone, MailHasRow, SentHasMail,
   MessageHasMail, CompletedIsMailedOut, Grows, Ready, Done

LEMMA OutsideOrder ==
    ASSUME BaseInv, OrderInv, SameOrder, UNCHANGED <<pc, row, at>>
    PROVE  OrderInv'
BY SameOrderTables DEF OrderInv, EveryoneIsSound, SameOrder, Sound, Ready, Done

\* A process moves on, and is sound at its next step.
LEMMA MoveOrder ==
    ASSUME BaseInv, OrderInv, SameOrder, NEW p \in Processes, NEW step, NEW x, NEW i,
           pc' = [pc EXCEPT ![p] = step], row' = [row EXCEPT ![p] = x],
           at' = [at EXCEPT ![p] = i], Sound(step, x, i, send, mails, outrun)
    PROVE  OrderInv'
<1>1. OrderTables' /\ Grows(send, mails, send', mails')
  BY SameOrderTables DEF OrderInv
<1>2. pc'[p] = step /\ row'[p] = x /\ at'[p] = i
      /\ \A q \in Processes \ {p} : pc'[q] = pc[q] /\ row'[q] = row[q] /\ at'[q] = at[q]
  BY DEF BaseInv, ProcessesOK
<1>3. EveryoneIsSound'
  BY <1>1, <1>2, OthersSound DEF OrderInv, SameOrder
<1>4. QED
  BY <1>1, <1>3 DEF OrderInv

\* A process whose handler is over knows nothing.
LEMMA FinishOrder ==
    ASSUME BaseInv, OrderInv, SameOrder, NEW p \in Processes, Finish(p)
    PROVE  OrderInv'
<1>1. PICK step \in {"idle", "returned"} : pc' = [pc EXCEPT ![p] = step]
  BY DEF Finish, Goto
<1>2. Sound(step, NoRow, 0, send, mails, outrun)
  BY IdleSound
<1>3. QED
  BY <1>1, <1>2, MoveOrder DEF Finish

LEMMA ContinueOrder ==
    ASSUME BaseInv, OrderInv, SameOrder, NEW p \in Processes, NEW step, Continue(p, step),
           Sound(step, row[p], at[p], send, mails, outrun)
    PROVE  OrderInv'
<1>1. row' = [row EXCEPT ![p] = row[p]] /\ at' = [at EXCEPT ![p] = at[p]]
  BY DEF Continue, view, BaseInv, ProcessesOK
<1>2. QED
  BY <1>1, MoveOrder DEF Continue, Goto

LEMMA DatabaseSameOrder ==
    ASSUME UNCHANGED <<database, mails, outrun>>
    PROVE  SameOrder
BY DEF SameOrder, database, sends, enrollments

\* An exit completes nobody.
LEMMA ExitSameOrder ==
    ASSUME BaseInv, NEW c, Exit(c), UNCHANGED <<index, sends, mails, outrun>>
    PROVE  SameOrder
BY DEF SameOrder, sends, Exit, BaseInv, TablesOK

LEMMA EnvironmentOrder ==
    ASSUME BaseInv, OrderInv
    PROVE  /\ \A r \in Runs : StartRun(r) => OrderInv'
           /\ \A b \in BOOLEAN : SetPaused(b) => OrderInv'
           /\ \A c \in Contacts : Unsubscribe(c) \/ Leave(c) => OrderInv'
           /\ \A x \in Rows : \A m \in Messages : \A t \in Reports :
                 Report(x, m, t) => OrderInv'
<1>1. ASSUME NEW r \in Runs, StartRun(r)
      PROVE  OrderInv'
  BY <1>1, OutsideOrder DEF StartRun, SameOrder, sends, enrollments, provider, history, view
<1>2. ASSUME NEW b \in BOOLEAN, SetPaused(b)
      PROVE  OrderInv'
  BY <1>2, OutsideOrder DEF SetPaused, SameOrder, sends, enrollments, provider, history, view
<1>3. ASSUME NEW c \in Contacts, Unsubscribe(c)
      PROVE  OrderInv'
  BY <1>3, OutsideOrder DEF Unsubscribe, SameOrder, sends, enrollments, provider, history, view
<1>4. ASSUME NEW c \in Contacts, Leave(c)
      PROVE  OrderInv'
  BY <1>4, OutsideOrder, ExitSameOrder DEF Leave, provider, history, view
<1>5. ASSUME NEW x \in Rows, NEW m \in Messages, NEW t \in Reports, Report(x, m, t)
      PROVE  OrderInv'
  BY <1>5, OutsideOrder, DatabaseSameOrder DEF Report, view, history
<1>6. QED
  BY <1>1, <1>2, <1>3, <1>4, <1>5

\* Beginning a job, and the checks of whom to enroll.
LEMMA BeginOrder ==
    ASSUME BaseInv, OrderInv, NEW w \in Processes
    PROVE  /\ Begin(w) => OrderInv'
           /\ \A S \in SUBSET Contacts : Call(w, S) => OrderInv'
<1>1. ASSUME NEW S, StartEnrolling(w, S)
      PROVE  OrderInv'
  <2>1. row' = [row EXCEPT ![w] = row[w]] /\ at' = [at EXCEPT ![w] = at[w]]
    BY <1>1 DEF StartEnrolling, view, BaseInv, ProcessesOK
  <2>2. SameOrder
    BY <1>1, DatabaseSameOrder DEF StartEnrolling, provider, history
  <2>3. Sound("check", row[w], at[w], send, mails, outrun)
    BY IdleSound
  <2>4. QED
    BY <1>1, <2>1, <2>2, <2>3, MoveOrder DEF StartEnrolling, Goto
<1>2. ASSUME NEW e \in Enrollments, BeginSchedule(w, e)
      PROVE  OrderInv'
  <2>1. row' = [row EXCEPT ![w] = row[w]] /\ at' = [at EXCEPT ![w] = at[w]]
    BY <1>2 DEF BeginSchedule, view, BaseInv, ProcessesOK
  <2>2. SameOrder
    BY <1>2, DatabaseSameOrder DEF BeginSchedule, provider, history
  <2>3. Sound("loadNext", row[w], at[w], send, mails, outrun)
    BY IdleSound
  <2>4. QED
    BY <1>2, <2>1, <2>2, <2>3, MoveOrder DEF BeginSchedule, Goto
<1>3. ASSUME NEW x \in Rows, NEW step \in {"load", "match"},
             row' = [row EXCEPT ![w] = x], Goto(w, step), UNCHANGED <<database, provider, at, history>>
      PROVE  OrderInv'
  <2>1. at' = [at EXCEPT ![w] = at[w]]
    BY <1>3 DEF BaseInv, ProcessesOK
  <2>2. SameOrder
    BY <1>3, DatabaseSameOrder DEF provider, history
  <2>3. Sound(step, x, at[w], send, mails, outrun)
    BY IdleSound
  <2>4. QED
    BY <1>3, <2>1, <2>2, <2>3, MoveOrder DEF Goto
<1>4. QED
  BY <1>1, <1>2, <1>3 DEF Begin, BeginEnroll, Call, BeginSend, BeginReport

LEMMA EnrollOrder ==
    ASSUME BaseInv, OrderInv, NEW p \in Processes
    PROVE  /\ \A c \in Contacts : CheckPreference(p, c) \/ CheckEnrolled(p, c) => OrderInv'
           /\ Create(p) \/ Count(p) \/ EnrollDone(p) => OrderInv'
           /\ \A e \in Enrollments : FindFirst(p, e) => OrderInv'
<1>1. ASSUME NEW c \in Contacts, CheckPreference(p, c) \/ CheckEnrolled(p, c)
      PROVE  OrderInv'
  BY <1>1, OutsideOrder, DatabaseSameOrder DEF CheckPreference, CheckEnrolled, view, provider, history
<1>2. ASSUME Create(p)
      PROVE  OrderInv'
  <2>1. UNCHANGED <<send, mails, message, index, outrun>>
    BY <1>2 DEF Create, sends, provider, history
  <2>2. \/ Finish(p) /\ UNCHANGED status
        \/ /\ UNCHANGED view
           /\ \E step \in {"count", "first"} : Goto(p, step)
           /\ \A e \in Enrollments : status'[e] \in {"active", status[e]}
    BY <1>2 DEF Create
  <2>3. SameOrder
    BY <2>1, <2>2 DEF SameOrder
  <2>4. CASE Finish(p)
    BY <2>3, <2>4, FinishOrder
  <2>5. ASSUME UNCHANGED view, NEW step \in {"count", "first"}, Goto(p, step)
        PROVE  OrderInv'
    <3>1. row' = [row EXCEPT ![p] = row[p]] /\ at' = [at EXCEPT ![p] = at[p]]
      BY <2>5 DEF view, BaseInv, ProcessesOK
    <3>2. Sound(step, row[p], at[p], send, mails, outrun)
      BY IdleSound
    <3>3. QED
      BY <2>3, <2>5, <3>1, <3>2, MoveOrder DEF Goto
  <2>6. QED
    BY <2>2, <2>4, <2>5
<1>3. ASSUME Count(p)
      PROVE  OrderInv'
  <2>1. SameOrder
    BY <1>3 DEF Count, SameOrder, sends, provider, history
  <2>2. Sound("first", row[p], at[p], send, mails, outrun)
    BY IdleSound
  <2>3. QED
    BY <1>3, <2>1, <2>2, ContinueOrder DEF Count
<1>4. ASSUME EnrollDone(p)
      PROVE  OrderInv'
  BY <1>4, FinishOrder, DatabaseSameOrder DEF EnrollDone, provider, history
<1>5. ASSUME NEW e \in Enrollments, FindFirst(p, e)
      PROVE  OrderInv'
  <2> DEFINE step == IF send[<<e, 1>>] = "none" THEN "insert" ELSE "first"
  <2>1. at' = [at EXCEPT ![p] = at[p]]
    BY <1>5 DEF FindFirst, BaseInv, ProcessesOK
  <2>2. SameOrder
    BY <1>5, DatabaseSameOrder DEF FindFirst, provider, history
  <2>3. Sound(step, <<e, 1>>, at[p], send, mails, outrun)
    BY DEF Sound, SendSteps, Ready, Steps
  <2>4. QED
    BY <1>5, <2>1, <2>2, <2>3, MoveOrder DEF FindFirst, Goto
<1>6. QED
  BY <1>1, <1>2, <1>3, <1>4, <1>5

LEMMA StopOrder ==
    ASSUME BaseInv, OrderInv, SameOrder, NEW p \in Processes, Stop(p)
    PROVE  OrderInv'
BY FinishOrder DEF Stop

\* A process that changes rows or mails: what is left to show is that the tables
\* grow, and that it and they are right afterwards.
LEMMA ContinueOrderTables ==
    ASSUME BaseInv, OrderInv, NEW p \in Processes, NEW step, Continue(p, step), UNCHANGED outrun,
           Grows(send, mails, send', mails'), OrderTables',
           Sound(step, row[p], at[p], send', mails', outrun')
    PROVE  OrderInv'
<1>1. pc'[p] = step /\ row' = row /\ at' = at
      /\ \A q \in Processes \ {p} : pc'[q] = pc[q]
  BY DEF Continue, Goto, view, BaseInv, ProcessesOK
<1>2. QED
  BY <1>1, OthersSound DEF OrderInv

LEMMA FinishOrderTables ==
    ASSUME BaseInv, OrderInv, NEW p \in Processes, Finish(p), UNCHANGED outrun,
           Grows(send, mails, send', mails'), OrderTables'
    PROVE  OrderInv'
<1>1. pc'[p] \in {"idle", "returned"}
      /\ \A q \in Processes \ {p} : pc'[q] = pc[q] /\ row'[q] = row[q] /\ at'[q] = at[q]
  BY DEF Finish, Goto, BaseInv, ProcessesOK
<1>2. Sound(pc'[p], row'[p], at'[p], send', mails', outrun')
  BY <1>1, IdleSound
<1>3. QED
  BY <1>1, <1>2, OthersSound DEF OrderInv

\* One row r is touched, and nobody is completed.
LEMMA GrownTables ==
    ASSUME OrderTables, Grows(send, mails, send', mails'), NEW r \in Rows,
           UNCHANGED <<index, status, outrun>>,
           \A x \in Rows \ {r} :
              send'[x] = send[x] /\ mails'[x] = mails[x] /\ message'[x] = message[x],
           Ready(r, send, mails, outrun),
           mails'[r] > 0 => send'[r] # "none",
           send'[r] \in {"sent", "delivered", "failed"} => mails'[r] > 0,
           message'[r] > 0 => Done(r, send', mails')
    PROVE  OrderTables'
<1>1. \A x \in Rows : Done(x, send, mails) => Done(x, send', mails')
  BY DEF Done, Grows
<1>2. RowsAreReady'
  BY ReadyGrows DEF OrderTables, RowsAreReady
<1>3. \A e \in Enrollments, j \in Steps : <<e, j>> \in Rows
  BY DEF Rows
<1>4. IndexFollowsDone'
  <2>1. ASSUME NEW e \in Enrollments \ outrun
        PROVE  \A j \in Steps : j < index'[e] => Done(<<e, j>>, send', mails')
    BY <1>1, <1>3 DEF OrderTables, IndexFollowsDone
  <2>2. QED
    BY <2>1 DEF IndexFollowsDone
<1>5. CompletedIsMailedOut'
  BY <1>3 DEF OrderTables, CompletedIsMailedOut, Grows
<1>6. MailHasRow' /\ SentHasMail'
  BY DEF OrderTables, MailHasRow, SentHasMail
<1>7. MessageHasMail'
  BY <1>1 DEF OrderTables, MessageHasMail
<1>8. QED
  BY <1>2, <1>4, <1>5, <1>6, <1>7 DEF OrderTables

LEMMA ScheduleOrder ==
    ASSUME BaseInv, OrderInv, NEW p \in Processes
    PROVE  LoadNext(p) \/ Find(p) \/ Insert(p) \/ Publish(p) => OrderInv'
<1>1. ASSUME LoadNext(p)
      PROVE  OrderInv'
  <2> DEFINE e == job[p][2]
  <2>1. SameOrder /\ e \in Enrollments
    BY <1>1, DatabaseSameOrder, JobPayloads DEF LoadNext, provider, history, BaseInv, Hands, Holds
  <2>2. CASE index[e] \in Steps /\ row' = [row EXCEPT ![p] = <<e, index[e]>>]
             /\ Goto(p, "find") /\ UNCHANGED at
    <3>1. at' = [at EXCEPT ![p] = at[p]]
      BY <2>2 DEF BaseInv, ProcessesOK
    <3>2. Ready(<<e, index[e]>>, send, mails, outrun)
      BY <2>1, <2>2 DEF OrderInv, OrderTables, IndexFollowsDone, Ready
    <3>3. Sound("find", <<e, index[e]>>, at[p], send, mails, outrun)
      BY <3>2 DEF Sound, SendSteps
    <3>4. QED
      BY <2>1, <2>2, <3>1, <3>3, MoveOrder DEF Goto
  <2>3. CASE Finish(p)
    BY <2>1, <2>3, FinishOrder
  <2>4. QED
    BY <1>1, <2>2, <2>3 DEF LoadNext
<1>2. ASSUME Find(p)
      PROVE  OrderInv'
  <2>1. SameOrder
    BY <1>2, DatabaseSameOrder DEF Find, provider, history
  <2>2. Sound("insert", row[p], at[p], send, mails, outrun)
    BY <1>2 DEF Find, OrderInv, EveryoneIsSound, Sound, SendSteps
  <2>3. QED
    BY <1>2, <2>1, <2>2, FinishOrder, ContinueOrder DEF Find
<1>3. ASSUME Insert(p)
      PROVE  OrderInv'
  <2>1. row[p] \in Rows /\ Ready(row[p], send, mails, outrun)
    BY <1>3 DEF Insert, BaseInv, Hands, Holds, OrderInv, EveryoneIsSound, Sound
  <2>2. UNCHANGED <<message, mails, index, status, outrun>>
    BY <1>3 DEF Insert, provider, history, enrollments
  <2>3. CASE send[row[p]] = "none" /\ send' = [send EXCEPT ![row[p]] = "pending"]
             /\ Continue(p, "publish")
    <3>1. \A x \in Rows : send'[x] = IF x = row[p] THEN "pending" ELSE send[x]
      BY <2>3 DEF BaseInv, TablesOK
    <3>2. Grows(send, mails, send', mails')
      BY <2>2, <2>3, <3>1 DEF Grows, Open
    <3>3. OrderTables'
      <4>1. ~(message[row[p]] > 0) /\ ~(mails[row[p]] > 0)
        BY <2>1, <2>3 DEF OrderInv, OrderTables, MailHasRow, MessageHasMail, Done, Open
      <4>2. QED
        BY <2>1, <2>2, <3>1, <3>2, <4>1, GrownTables DEF OrderInv
    <3>5. Sound("publish", row[p], at[p], send', mails', outrun')
      BY IdleSound
    <3>6. QED
      BY <2>2, <2>3, <3>2, <3>3, <3>5, ContinueOrderTables
  <2>4. CASE Stop(p) /\ UNCHANGED send
    BY <2>2, <2>4, StopOrder DEF SameOrder
  <2>5. QED
    BY <1>3, <2>3, <2>4 DEF Insert
<1>4. ASSUME Publish(p)
      PROVE  OrderInv'
  <2>1. SameOrder
    BY <1>4, DatabaseSameOrder DEF Publish, provider, history
  <2>2. Sound("first", row[p], at[p], send, mails, outrun)
    BY IdleSound
  <2>3. QED
    BY <1>4, <2>1, <2>2, FinishOrder, ContinueOrder DEF Publish
<1>5. QED
  BY <1>1, <1>2, <1>3, <1>4

LEMMA SendOrder ==
    ASSUME BaseInv, WithinInv, OrderInv, NEW p \in Processes
    PROVE  /\ Load(p) \/ LoadEnrollment(p) \/ LoadSequence(p) => OrderInv'
           /\ CheckBars(p) \/ MarkSkipped(p) \/ ExitEnrollment(p) => OrderInv'
           /\ Mail(p) \/ MarkSent(p) \/ Advance(p) \/ EnqueueNext(p) => OrderInv'
<1> DEFINE x == row[p]
<1>0. ASSUME pc[p] \in SendSteps
      PROVE  x \in Rows /\ x[1] \in Enrollments /\ x[2] \in Steps /\ x = <<x[1], x[2]>>
  BY <1>0, RowParts DEF BaseInv, Hands, Holds
<1>a. ASSUME pc[p] \in SendSteps \ {"load"}
      PROVE  send[x] # "none" /\ Ready(x, send, mails, outrun)
  BY <1>0, <1>a DEF OrderInv, EveryoneIsSound, Sound, OrderTables, RowsAreReady
<1>b. ASSUME pc[p] \in SendSteps \ {"load", "loadEnrollment"}
      PROVE  x[1] \in outrun \/ at[p] \in 1 .. x[2]
  BY <1>b DEF OrderInv, EveryoneIsSound, Sound
<1>1. ASSUME Load(p)
      PROVE  OrderInv'
  <2>1. SameOrder
    BY <1>1, DatabaseSameOrder DEF Load, provider, history
  <2>2. CASE send[x] = "pending" /\ Continue(p, "loadEnrollment")
    <3>1. Sound("loadEnrollment", x, at[p], send, mails, outrun)
      BY <2>2 DEF Sound
    <3>2. QED
      BY <2>1, <2>2, <3>1, ContinueOrder
  <2>3. QED
    BY <1>1, <2>1, <2>2, FinishOrder DEF Load
<1>c. ASSUME LoadEnrollment(p)
      PROVE  OrderInv'
  <2>1. pc[p] \in SendSteps \ {"load"} /\ UNCHANGED <<send, mails, message, index, status, row>>
    BY <1>c DEF LoadEnrollment, SendSteps, database, enrollments, sends, provider
  <2>2. outrun' = IF index[x[1]] > x[2] THEN outrun \cup {x[1]} ELSE outrun
    BY <1>c DEF LoadEnrollment
  <2>3. Grows(send, mails, send', mails') /\ outrun \subseteq outrun'
    BY <2>1, <2>2 DEF Grows
  <2>4. OrderTables'
    BY <2>1, <2>3 DEF OrderInv, OrderTables, RowsAreReady, IndexFollowsDone, MailHasRow,
       SentHasMail, MessageHasMail, CompletedIsMailedOut, Ready, Done
  <2>5. /\ pc'[p] = "loadSequence" /\ row'[p] = x /\ at'[p] = index[x[1]]
        /\ \A q \in Processes \ {p} : pc'[q] = pc[q] /\ row'[q] = row[q] /\ at'[q] = at[q]
    BY <1>c, <2>1 DEF LoadEnrollment, Goto, BaseInv, ProcessesOK
  <2>6. x[1] \in outrun' \/ index[x[1]] \in 1 .. x[2]
    BY <1>0, <2>1, <2>2, StepAssumption DEF WithinInv, IndexWithin, Steps
  <2>7. Sound("loadSequence", x, index[x[1]], send', mails', outrun')
    BY <1>a, <2>1, <2>6 DEF Sound
  <2>8. EveryoneIsSound'
    BY <2>3, <2>5, <2>7, OthersSound DEF OrderInv
  <2>9. QED
    BY <2>4, <2>8 DEF OrderInv
<1>d. ASSUME LoadSequence(p)
      PROVE  OrderInv'
  <2>1. SameOrder /\ pc[p] \in SendSteps \ {"load", "loadEnrollment"}
    BY <1>d, DatabaseSameOrder DEF LoadSequence, provider, history, SendSteps
  <2>2. /\ pc' = [pc EXCEPT ![p] = "bars"]
        /\ row' = [row EXCEPT ![p] = row[p]]
        /\ at' = [at EXCEPT ![p] = at[p]]
    BY <1>d DEF LoadSequence, Goto, BaseInv, ProcessesOK
  <2>3. Sound("bars", x, at[p], send, mails, outrun)
    BY <1>a, <1>b, <2>1 DEF Sound
  <2>4. QED
    BY <2>1, <2>2, <2>3, MoveOrder
<1>2. ASSUME CheckBars(p)
      PROVE  OrderInv'
  <2>1. SameOrder /\ pc[p] \in SendSteps \ {"load", "loadEnrollment"}
    BY <1>2, DatabaseSameOrder DEF CheckBars, provider, history, SendSteps
  <2>2. PICK step \in {"skipOut", "mail", "skip"} : Continue(p, step)
    BY <1>2 DEF CheckBars
  <2>3. Sound(step, x, at[p], send, mails, outrun)
    BY <1>a, <1>b, <2>1 DEF Sound
  <2>4. QED
    BY <2>1, <2>2, <2>3, ContinueOrder
<1>3. ASSUME MarkSkipped(p)
      PROVE  OrderInv'
  <2>1. pc[p] \in SendSteps \ {"load", "loadEnrollment"} /\ UNCHANGED <<mails, message, index, status, outrun>>
    BY <1>3 DEF MarkSkipped, SendSteps, provider, history, enrollments
  <2>2. \A y \in Rows : send'[y] = IF y = x THEN "skipped" ELSE send[y]
    BY <1>3 DEF MarkSkipped, BaseInv, TablesOK
  <2>3. Grows(send, mails, send', mails')
    BY <2>1, <2>2 DEF Grows, Open
  <2>4. OrderTables'
    <3>1. message[x] > 0 => Done(x, send', mails')
      BY <1>0, <2>1, <2>2 DEF OrderInv, OrderTables, MessageHasMail, Done, Open
    <3>2. QED
      BY <1>0, <1>a, <2>1, <2>2, <2>3, <3>1, GrownTables DEF OrderInv
  <2>5. Sound("exit", x, at[p], send', mails', outrun')
    BY <1>0, <1>a, <1>b, <2>1, <2>2 DEF Sound
  <2>6. QED
    BY <1>3, <2>1, <2>3, <2>4, <2>5, FinishOrderTables, ContinueOrderTables DEF MarkSkipped
<1>4. ASSUME ExitEnrollment(p)
      PROVE  OrderInv'
  <2>1. SameOrder
    BY <1>4 DEF ExitEnrollment, SameOrder, sends, provider, history, BaseInv, TablesOK
  <2>2. QED
    BY <1>4, <2>1, FinishOrder DEF ExitEnrollment
<1>5. ASSUME Mail(p)
      PROVE  OrderInv'
  <2>1. pc[p] \in SendSteps \ {"load", "loadEnrollment"} /\ UNCHANGED <<send, message, index, status, outrun, row, at>>
    BY <1>5 DEF Mail, SendSteps, database, sends, enrollments, history
  <2>2. /\ \A y \in Rows : mails'[y] = IF y = x THEN mails[y] + 1 ELSE mails[y]
        /\ mails \in [Rows -> Nat]
    BY <1>5 DEF Mail, BaseInv, TablesOK
  <2>3. Grows(send, mails, send', mails') /\ mails'[x] > 0
    BY <1>0, <2>1, <2>2 DEF Grows
  <2>4. OrderTables'
    <3>1. message[x] > 0 => Done(x, send', mails')
      BY <1>0, <2>1, <2>3 DEF OrderInv, OrderTables, MessageHasMail, Done
    <3>2. QED
      BY <1>0, <1>a, <2>1, <2>2, <2>3, <3>1, GrownTables DEF OrderInv
  <2>5. Sound("markSent", x, at[p], send', mails', outrun')
    BY <1>a, <1>b, <2>1, <2>3 DEF Sound
  <2>6. pc'[p] = "markSent" /\ \A q \in Processes \ {p} : pc'[q] = pc[q]
    BY <1>5 DEF Mail, Goto, BaseInv, ProcessesOK
  <2>7. EveryoneIsSound'
    BY <2>1, <2>3, <2>5, <2>6, OthersSound DEF OrderInv
  <2>8. QED
    BY <2>4, <2>7 DEF OrderInv
<1>6. ASSUME MarkSent(p)
      PROVE  OrderInv'
  <2>1. pc[p] \in SendSteps \ {"load", "loadEnrollment"} /\ UNCHANGED <<mails, index, status, outrun>> /\ mails[x] > 0
    BY <1>6 DEF MarkSent, SendSteps, provider, history, enrollments, OrderInv, EveryoneIsSound, Sound
  <2>2. \A y \in Rows : /\ send'[y] = IF y = x THEN "sent" ELSE send[y]
                        /\ y # x => message'[y] = message[y]
    BY <1>6 DEF MarkSent, BaseInv, TablesOK
  <2>3. Grows(send, mails, send', mails') /\ Done(x, send', mails')
    BY <1>0, <2>1, <2>2 DEF Grows, Done, Open
  <2>4. OrderTables'
    BY <1>0, <1>a, <2>1, <2>2, <2>3, GrownTables DEF OrderInv
  <2>5. Sound("advance", x, at[p], send', mails', outrun')
    BY <1>0, <1>a, <1>b, <2>1, <2>2, <2>3 DEF Sound
  <2>6. QED
    BY <1>6, <2>1, <2>3, <2>4, <2>5, ContinueOrderTables DEF MarkSent
<1>7. ASSUME Advance(p)
      PROVE  OrderInv'
  <2>1. pc[p] \in SendSteps \ {"load", "loadEnrollment"} /\ UNCHANGED <<send, mails, message, outrun>>
        /\ Done(x, send, mails)
    BY <1>7 DEF Advance, SendSteps, provider, history, sends, OrderInv, EveryoneIsSound, Sound
  <2>2. ASSUME x[1] \notin outrun
        PROVE  /\ at[p] \in Steps /\ x[2] <= LastStep
               /\ \A j \in Steps : j <= at[p] => Done(<<x[1], j>>, send, mails)
    <3>1. at[p] \in 1 .. x[2] /\ x[2] \in 1 .. LastStep
      BY <1>0, <1>b, <2>1, <2>2 DEF Steps
    <3>2. \A j \in Steps : j < x[2] => Done(<<x[1], j>>, send, mails)
      BY <1>a, <2>1, <2>2 DEF Ready
    <3>3. at[p] \in Steps /\ x[2] <= LastStep
      BY <3>1, StepAssumption DEF Steps
    <3>4. ASSUME NEW j \in Steps, j <= at[p]
          PROVE  Done(<<x[1], j>>, send, mails)
      <4>1. j < x[2] \/ j = x[2]
        BY <3>1, <3>4, StepAssumption DEF Steps
      <4>2. QED
        BY <1>0, <2>1, <3>2, <4>1
    <3>5. QED
      BY <3>3, <3>4
  <2>4. Grows(send, mails, send', mails')
    BY <2>1 DEF Grows
  <2>5. IndexFollowsDone'
    <3>1. ASSUME NEW e \in Enrollments \ outrun
          PROVE  \A j \in Steps : j < index'[e] => Done(<<e, j>>, send, mails)
      <4>1. index'[e] = IF e = x[1] THEN at[p] + 1 ELSE index[e]
        BY <1>7 DEF Advance, BaseInv, TablesOK
      <4>2. CASE e = x[1]
        <5>1. \A j \in Steps : j < at[p] + 1 => j <= at[p]
          BY <2>2, <4>2 DEF Steps
        <5>2. QED
          BY <2>2, <4>1, <4>2, <5>1
      <4>3. CASE e # x[1]
        BY <4>1, <4>3 DEF OrderInv, OrderTables, IndexFollowsDone
      <4>4. QED
        BY <4>2, <4>3
    <3>2. QED
      BY <2>1, <3>1 DEF IndexFollowsDone, Done
  <2>6. CompletedIsMailedOut'
    <3>1. ASSUME NEW e \in Enrollments \ outrun, status'[e] = "completed", status[e] # "completed"
          PROVE  e = x[1] /\ at[p] = LastStep
      <4>1. e = x[1] /\ at[p] + 1 > LastStep
        BY <1>7, <3>1 DEF Advance, BaseInv, TablesOK
      <4>2. QED
        BY <2>2, <4>1, StepAssumption DEF Steps
    <3>2. \A j \in Steps : j <= LastStep
      BY StepAssumption DEF Steps
    <3>3. ASSUME NEW e \in Enrollments \ outrun, status'[e] = "completed", NEW k \in Steps
          PROVE  mails[<<e, k>>] > 0
      BY <2>2, <3>1, <3>2, <3>3 DEF OrderInv, OrderTables, CompletedIsMailedOut, Done
    <3>4. QED
      BY <2>1, <3>3 DEF CompletedIsMailedOut
  <2>7. OrderTables'
    BY <2>1, <2>5, <2>6 DEF OrderInv, OrderTables, RowsAreReady, MailHasRow, SentHasMail,
       MessageHasMail, Ready, Done
  <2>8. Sound("enqueueNext", x, at[p], send', mails', outrun')
    BY <1>a, <1>b, <2>1 DEF Sound
  <2>9. QED
    BY <1>7, <2>1, <2>4, <2>7, <2>8, FinishOrderTables, ContinueOrderTables DEF Advance
<1>8. ASSUME EnqueueNext(p)
      PROVE  OrderInv'
  BY <1>8, FinishOrder, DatabaseSameOrder DEF EnqueueNext, provider, history
<1>9. QED
  BY <1>1, <1>c, <1>d, <1>2, <1>3, <1>4, <1>5, <1>6, <1>7, <1>8

LEMMA ReportOrder ==
    ASSUME BaseInv, OrderInv, NEW p \in Processes
    PROVE  Match(p) \/ MarkReported(p) \/ Suppress(p) \/ ExitSuppressed(p) => OrderInv'
<1> DEFINE x == row[p]
<1>0. ASSUME pc[p] \in ReportSteps
      PROVE  x \in Rows
  BY <1>0 DEF BaseInv, Hands, Holds
<1>1. ASSUME Match(p)
      PROVE  OrderInv'
  <2>1. SameOrder /\ x \in Rows /\ job[p][3] \in Messages
    BY <1>0, <1>1, DatabaseSameOrder, JobPayloads DEF Match, provider, history, ReportSteps, BaseInv,
       Hands, Holds
  <2>2. CASE message[x] = job[p][3] /\ Continue(p, "mark")
    <3>1. Done(x, send, mails)
      BY <2>1, <2>2, BoundAssumption DEF Messages, OrderInv, OrderTables, MessageHasMail
    <3>2. Sound("mark", x, at[p], send, mails, outrun)
      BY <3>1 DEF Sound, SendSteps
    <3>3. QED
      BY <2>1, <2>2, <3>2, ContinueOrder
  <2>3. QED
    BY <1>1, <2>1, <2>2, FinishOrder DEF Match
<1>2. ASSUME MarkReported(p)
      PROVE  OrderInv'
  <2>1. x \in Rows /\ UNCHANGED <<mails, message, index, status, outrun>> /\ Done(x, send, mails)
    BY <1>0, <1>2 DEF MarkReported, ReportSteps, provider, history, enrollments, OrderInv,
       EveryoneIsSound, Sound
  <2>2. PICK v \in {"delivered", "failed"} : send' = [send EXCEPT ![x] = v]
    BY <1>2 DEF MarkReported
  <2>3. \A y \in Rows : send'[y] = IF y = x THEN v ELSE send[y]
    BY <2>2 DEF BaseInv, TablesOK
  <2>4. Grows(send, mails, send', mails') /\ Done(x, send', mails') /\ Ready(x, send, mails, outrun)
    BY <2>1, <2>3 DEF Grows, Done, Open, OrderInv, OrderTables, RowsAreReady
  <2>5. OrderTables'
    BY <2>1, <2>3, <2>4, GrownTables DEF OrderInv, Done
  <2>6. Sound("suppress", x, at[p], send', mails', outrun')
    BY IdleSound
  <2>7. QED
    BY <1>2, <2>1, <2>4, <2>5, <2>6, FinishOrderTables, ContinueOrderTables DEF MarkReported
<1>3. ASSUME Suppress(p)
      PROVE  OrderInv'
  <2>1. SameOrder
    BY <1>3 DEF Suppress, SameOrder, sends, enrollments, provider, history
  <2>2. Sound("leave", x, at[p], send, mails, outrun)
    BY IdleSound
  <2>3. QED
    BY <1>3, <2>1, <2>2, ContinueOrder DEF Suppress
<1>4. ASSUME ExitSuppressed(p)
      PROVE  OrderInv'
  <2>1. SameOrder
    BY <1>4, ExitSameOrder DEF ExitSuppressed, provider, history
  <2>2. QED
    BY <1>4, <2>1, FinishOrder DEF ExitSuppressed
<1>5. QED
  BY <1>1, <1>2, <1>3, <1>4

LEMMA MishapOrder ==
    ASSUME BaseInv, OrderInv, GoesWrong
    PROVE  OrderInv'
<1>1. ASSUME NEW p \in Processes, Interrupt(p)
      PROVE  OrderInv'
  BY <1>1, StopOrder, DatabaseSameOrder DEF Interrupt, provider, history
<1>2. ASSUME NEW w \in Processes, Redeliver(w)
      PROVE  OrderInv'
  BY <1>2, OutsideOrder, DatabaseSameOrder DEF Redeliver, provider, history, view
<1>3. ASSUME NEW j \in Jobs, Drain(j)
      PROVE  OrderInv'
  BY <1>3, OutsideOrder, DatabaseSameOrder DEF Drain, provider, history, view
<1>4. ASSUME NEW r \in Runs, StartRunStops(r)
      PROVE  OrderInv'
  BY <1>4, OutsideOrder DEF StartRunStops, SameOrder, sends, enrollments, provider, history, view
<1>5. ASSUME NEW c \in Contacts, RequestStops(c) \/ LoseAddress(c)
      PROVE  OrderInv'
  BY <1>5, OutsideOrder DEF RequestStops, LoseAddress, SameOrder, sends, enrollments,
     provider, history, view
<1>6. QED
  BY <1>1, <1>2, <1>3, <1>4, <1>5 DEF GoesWrong, Processes

\* Only a handler that reads an enrollment can be found outrun.
LEMMA OutrunFrame ==
    ASSUME [Next]_vars
    PROVE  outrun' = outrun \/ \E p \in Processes : LoadEnrollment(p)
<1>1. ASSUME NEW p \in Processes, Begin(p) \/ \E S \in SUBSET Contacts : Call(p, S)
      PROVE  outrun' = outrun
  BY <1>1 DEF Begin, BeginEnroll, StartEnrolling, BeginSchedule, BeginSend, BeginReport, Call, history
<1>2. ASSUME NEW p \in Processes, Step(p), ~LoadEnrollment(p)
      PROVE  outrun' = outrun
  <2>1. (\E c \in Contacts : CheckPreference(p, c) \/ CheckEnrolled(p, c)) => outrun' = outrun
    BY DEF CheckPreference, CheckEnrolled, history
  <2>2. Create(p) \/ Count(p) \/ EnrollDone(p) \/ (\E e \in Enrollments : FindFirst(p, e))
           => outrun' = outrun
    BY DEF Create, Count, EnrollDone, FindFirst, history
  <2>3. LoadNext(p) \/ Find(p) \/ Insert(p) \/ Publish(p) => outrun' = outrun
    BY DEF LoadNext, Find, Insert, Publish, history
  <2>4. Load(p) \/ LoadSequence(p) \/ CheckBars(p) \/ MarkSkipped(p) \/ ExitEnrollment(p)
           => outrun' = outrun
    BY DEF Load, LoadSequence, CheckBars, MarkSkipped, ExitEnrollment, history
  <2>5. Mail(p) \/ MarkSent(p) \/ Advance(p) \/ EnqueueNext(p) => outrun' = outrun
    BY DEF Mail, MarkSent, Advance, EnqueueNext, history
  <2>6. Match(p) \/ MarkReported(p) \/ Suppress(p) \/ ExitSuppressed(p) => outrun' = outrun
    BY DEF Match, MarkReported, Suppress, ExitSuppressed, history
  <2>7. QED
    BY <1>2, <2>1, <2>2, <2>3, <2>4, <2>5, <2>6 DEF Step
<1>3. Environment => outrun' = outrun
  <2>1. \A p \in Callers, S \in SUBSET Contacts : Call(p, S) => outrun' = outrun
    BY <1>1 DEF Processes
  <2>2. QED
    BY <2>1 DEF Environment, StartRun, SetPaused, Unsubscribe, Leave, Report, history
<1>4. GoesWrong => outrun' = outrun
  BY DEF GoesWrong, Interrupt, Redeliver, Drain, StartRunStops, RequestStops, LoseAddress, history
<1>5. UNCHANGED vars => outrun' = outrun
  BY DEF vars, history
<1>6. QED
  BY <1>1, <1>2, <1>3, <1>4, <1>5 DEF Next, Work

LEMMA InitOrder ==
    ASSUME Init
    PROVE  OrderInv
<1>1. EveryoneIsSound
  BY IdleSound DEF Init, EveryoneIsSound
<1>2. OrderTables
  <2>1. \A j \in Steps : ~(j < 1)
    BY DEF Steps
  <2>2. IndexFollowsDone
    BY <2>1, StepAssumption DEF Init, IndexFollowsDone
  <2>3. QED
    BY <2>2 DEF Init, OrderTables, RowsAreReady, MailHasRow, SentHasMail, MessageHasMail,
       CompletedIsMailedOut
<1>3. QED
  BY <1>1, <1>2 DEF OrderInv

LEMMA StepOrder ==
    ASSUME BaseInv, WithinInv, OrderInv, [Next]_vars
    PROVE  OrderInv'
<1>1. CASE Work
  BY <1>1, BeginOrder, EnrollOrder, ScheduleOrder, SendOrder, ReportOrder DEF Work, Step
<1>2. CASE Environment
  BY <1>2, EnvironmentOrder, BeginOrder DEF Environment, Processes
<1>3. CASE GoesWrong
  BY <1>3, MishapOrder
<1>4. CASE UNCHANGED vars
  BY <1>4, OutsideOrder, DatabaseSameOrder DEF vars, provider, history, view
<1>5. QED
  BY <1>1, <1>2, <1>3, <1>4 DEF Next

\* The step sends of an enrollment are handled in the order of its steps.
THEOREM OrderInvariant == Spec => []OrderInv
BY BaseInvariant, WithinInvariant, InitOrder, StepOrder, PTL DEF Spec

\* In every reachable state the tables and the processes have their types, and an
\* enrollment's step index is that of one of its steps or the one after the last.
THEOREM TypeCorrect == Spec => []TypeOK
<1>1. BaseInv /\ WithinInv => TypeOK
  BY DEF BaseInv, WithinInv, IndexWithin, TypeOK, IndexOK
<1>2. QED
  BY <1>1, BaseInvariant, WithinInvariant, PTL

\* executeStepSend and scheduleNextStep mail no step to an enrollment before all
\* those in front of it, whatever is repeated, reordered, lost or interrupted, unless
\* a handler read an index of the enrollment that was past the step it handled.
THEOREM MailsInSequence == Spec => []MailedInSequence
<1>1. OrderInv => MailedInSequence
  BY EarlierRow DEF OrderInv, OrderTables, MailHasRow, RowsAreReady, Ready, Done,
     MailedInSequence
<1>2. QED
  BY <1>1, OrderInvariant, PTL

\* executeStepSend completes an enrollment only after all its steps were mailed, with
\* the same exception.
THEOREM CompletionIsEarned == Spec => []CompletedIsMailedOut
<1>1. OrderInv => CompletedIsMailedOut
  BY DEF OrderInv, OrderTables
<1>2. QED
  BY <1>1, OrderInvariant, PTL

===============================================================================
