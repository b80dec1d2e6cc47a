----------------------- MODULE CampaignsEnrollingProofs -----------------------
(***************************************************************************)
(* Theorems about Campaigns: a fresh enrollment is in the hands of one     *)
(* process, and a run counts the contacts it has enrolled.                 *)
(***************************************************************************)
EXTENDS CampaignsOnceProofs

EnrollJob(r)   == <<"enroll-segment", r>>
ScheduleJob(e) == <<"schedule-next-step", e>>

LEMMA EnrollJobKinds ==
    ASSUME NEW r \in Runs
    PROVE  /\ EnrollJob(r) \in Jobs /\ EnrollJob(r) \in EnrollJobs
           /\ EnrollJob(r) \notin SendJobs \cup ScheduleJobs \cup ReportJobs \cup {NoJob}
           /\ \A s : EnrollJob(s) = EnrollJob(r) => s = r
<1>1. EnrollJob(r) \in Jobs /\ EnrollJob(r) \in EnrollJobs
  BY DEF EnrollJob, Jobs, EnrollJobs
<1>2. EnrollJob(r) \notin SendJobs /\ EnrollJob(r) \notin ScheduleJobs
  BY DEF EnrollJob, SendJobs, ScheduleJobs
<1>3. EnrollJob(r) \notin ReportJobs
  BY DEF EnrollJob, ReportJobs
<1>4. QED
  BY <1>1, <1>2, <1>3, NoneAssumption DEF EnrollJob

LEMMA ScheduleJobKinds ==
    ASSUME NEW e \in Enrollments
    PROVE  /\ ScheduleJob(e) \in Jobs /\ ScheduleJob(e) \in ScheduleJobs
           /\ ScheduleJob(e) \notin SendJobs \cup EnrollJobs \cup ReportJobs \cup {NoJob}
           /\ \A d : ScheduleJob(d) = ScheduleJob(e) => d = e
<1>1. ScheduleJob(e) \in Jobs /\ ScheduleJob(e) \in ScheduleJobs
  BY DEF ScheduleJob, Jobs, ScheduleJobs
<1>2. ScheduleJob(e) \notin SendJobs /\ ScheduleJob(e) \notin EnrollJobs
  BY DEF ScheduleJob, SendJobs, EnrollJobs
<1>3. ScheduleJob(e) \notin ReportJobs
  BY DEF ScheduleJob, ReportJobs
<1>4. QED
  BY <1>1, <1>2, <1>3, NoneAssumption DEF ScheduleJob

LEMMA KindsOfJobs ==
    /\ \A j \in EnrollJobs : \E r \in Runs : j = EnrollJob(r)
    /\ \A j \in ScheduleJobs : \E e \in Enrollments : j = ScheduleJob(e)
    /\ EnrollJobs \cap ScheduleJobs = {}
    /\ NoJob \notin EnrollJobs /\ NoJob \notin ScheduleJobs
<1>1. \A j \in EnrollJobs : \E r \in Runs : j = EnrollJob(r)
  BY DEF EnrollJobs, EnrollJob
<1>2. \A j \in ScheduleJobs : \E e \in Enrollments : j = ScheduleJob(e)
  BY DEF ScheduleJobs, ScheduleJob
<1>3. QED
  BY <1>1, <1>2, EnrollJobKinds, ScheduleJobKinds

\* How a step of the queue changes the number of waiting copies of a job.
LEMMA WaitingJobs ==
    ASSUME TablesOK, NEW j \in Jobs
    PROVE  /\ queue[j] \in Nat
           /\ Q!Publish(j) => queue'[j] = queue[j] + 1
           /\ Q!Take(j) => queue[j] > 0 /\ queue'[j] = queue[j] - 1
           /\ \A k \in Jobs \ {j} : Q!Publish(k) \/ Q!Take(k) \/ Q!GiveBack(k)
                                      => queue'[j] = queue[j]
BY DEF TablesOK, Q!TypeOK, Q!Publish, Q!Take, Q!GiveBack, Q!Waiting

-------------------------------------------------------------------------------
(***************************************************************************)
(* Fresh enrollments.  An enrollment is fresh in the hands of the process  *)
(* that has created it until its first step is inserted.  Until then       *)
(* nobody else has to do with it: a job that schedules a step of it is     *)
(* only published once its first step exists.                              *)
(***************************************************************************)
FreshAt(step, j, x, m, e) ==
    \/ e \in m
    \/ step = "insert" /\ j \notin ScheduleJobs /\ x = <<e, 1>>

Fresh(p, e) == FreshAt(pc[p], job[p], row[p], made[p], e)

\* What a process that enrolls or schedules holds, besides what Holds says.
EnrollHolds(step, j, x, m) ==
    /\ step = "insert" /\ j \notin ScheduleJobs =>
          \E e \in Enrollments : x = <<e, 1>> /\ e \notin m
    /\ step \in {"find", "insert"} /\ j \in ScheduleJobs => x[1] = j[2]
    /\ step = "find" => j \in ScheduleJobs
    /\ step \notin AfterCreate \/ j \in ScheduleJobs => m = {}

FreshInv ==
    /\ \A p \in Processes : EnrollHolds(pc[p], job[p], row[p], made[p])
    /\ \A p \in Processes, e \in Enrollments :
          Fresh(p, e) => status[e] # "none" /\ send[<<e, 1>>] = "none"
    /\ \A p, q \in Processes, e \in Enrollments : Fresh(p, e) /\ Fresh(q, e) => p = q
    /\ \A e \in Enrollments : status[e] = "none" => send[<<e, 1>>] = "none" /\ origin[e] = NoJob
    /\ \A e \in Enrollments : queue[ScheduleJob(e)] > 0 => send[<<e, 1>>] # "none"
    /\ \A e \in Enrollments, p \in Processes :
          job[p] = ScheduleJob(e) => send[<<e, 1>>] # "none"

\* A process takes up a step, a job, a row and a set of enrollments.
Turn(p, step, j, x, m) ==
    /\ pc' = [pc EXCEPT ![p] = step] /\ job' = [job EXCEPT ![p] = j]
    /\ row' = [row EXCEPT ![p] = x]  /\ made' = [made EXCEPT ![p] = m]

\* The tables keep what FreshInv says of an enrollment.
QueueKept(e) ==
    queue'[ScheduleJob(e)] > 0 => queue[ScheduleJob(e)] > 0 \/ send[<<e, 1>>] # "none"

Kept(e) ==
    /\ status[e] # "none" => status'[e] # "none"
    /\ origin'[e] = origin[e]
    /\ send[<<e, 1>>] # "none" => send'[<<e, 1>>] # "none"
    /\ QueueKept(e)

LEMMA Turned ==
    ASSUME ProcessesOK, NEW p \in Processes, NEW step, NEW j, NEW x, NEW m,
           Turn(p, step, j, x, m)
    PROVE  /\ pc'[p] = step /\ job'[p] = j /\ row'[p] = x /\ made'[p] = m
           /\ \A q \in Processes \ {p} : /\ pc'[q] = pc[q] /\ job'[q] = job[q]
                                         /\ row'[q] = row[q] /\ made'[q] = made[q]
BY DEF ProcessesOK, Turn

LEMMA FinishTurns ==
    ASSUME NEW p \in Processes, Finish(p)
    PROVE  \E step \in {"idle", "returned"} : Turn(p, step, NoJob, NoRow, {})
BY DEF Finish, Goto, Turn

LEMMA ContinueTurns ==
    ASSUME ProcessesOK, NEW p \in Processes, NEW step, Continue(p, step)
    PROVE  Turn(p, step, job[p], row[p], made[p])
BY DEF ProcessesOK, Continue, Goto, Turn, view, roster

LEMMA FreshTurn ==
    ASSUME BaseInv, FreshInv, NEW p \in Processes, NEW step, NEW j, NEW x, NEW m,
           Turn(p, step, j, x, m), EnrollHolds(step, j, x, m),
           \A e \in Enrollments : FreshAt(step, j, x, m, e) => Fresh(p, e),
           \A e \in Enrollments : j = ScheduleJob(e) => send[<<e, 1>>] # "none",
           \A e \in Enrollments : Kept(e),
           \A e \in Enrollments :
              send[<<e, 1>>] = "none" /\ send'[<<e, 1>>] # "none" =>
                 Fresh(p, e) /\ ~FreshAt(step, j, x, m, e)
    PROVE  FreshInv'
<1>1. /\ pc'[p] = step /\ job'[p] = j /\ row'[p] = x /\ made'[p] = m
      /\ \A q \in Processes \ {p} : /\ pc'[q] = pc[q] /\ job'[q] = job[q]
                                    /\ row'[q] = row[q] /\ made'[q] = made[q]
  BY Turned DEF BaseInv
<1>2. \A q \in Processes : EnrollHolds(pc[q], job[q], row[q], made[q])'
  BY <1>1 DEF FreshInv, EnrollHolds
<1>3. \A q \in Processes, e \in Enrollments :
         /\ Fresh(q, e)' => Fresh(q, e)
         /\ Fresh(p, e)' => FreshAt(step, j, x, m, e)
  BY <1>1 DEF Fresh, FreshAt
<1>4. \A q \in Processes, e \in Enrollments :
         Fresh(q, e)' => status'[e] # "none" /\ send'[<<e, 1>>] = "none"
  BY <1>3 DEF FreshInv, Kept
<1>5. \A q, r \in Processes, e \in Enrollments : Fresh(q, e)' /\ Fresh(r, e)' => q = r
  BY <1>3 DEF FreshInv
<1>6. \A e \in Enrollments :
         status'[e] = "none" => send'[<<e, 1>>] = "none" /\ origin'[e] = NoJob
  BY DEF FreshInv, Kept
<1>7. \A e \in Enrollments : queue'[ScheduleJob(e)] > 0 => send'[<<e, 1>>] # "none"
  BY DEF FreshInv, Kept, QueueKept
<1>8. \A e \in Enrollments, q \in Processes :
         job'[q] = ScheduleJob(e) => send'[<<e, 1>>] # "none"
  BY <1>1 DEF FreshInv, Kept
<1>9. QED
  BY <1>2, <1>4, <1>5, <1>6, <1>7, <1>8 DEF FreshInv, ScheduleJob

LEMMA FreshOutside ==
    ASSUME FreshInv, UNCHANGED <<pc, job, row, made, send>>, \A e \in Enrollments : Kept(e)
    PROVE  FreshInv'
<1>1. \A p \in Processes : EnrollHolds(pc[p], job[p], row[p], made[p])'
  BY DEF FreshInv, EnrollHolds
<1>2. \A p \in Processes, e \in Enrollments : Fresh(p, e)' <=> Fresh(p, e)
  BY DEF Fresh, FreshAt
<1>3. \A e \in Enrollments :
         status'[e] = "none" => send'[<<e, 1>>] = "none" /\ origin'[e] = NoJob
  BY DEF FreshInv, Kept
<1>4. \A e \in Enrollments : queue'[ScheduleJob(e)] > 0 => send'[<<e, 1>>] # "none"
  BY DEF FreshInv, Kept, QueueKept
<1>5. \A p \in Processes, e \in Enrollments :
         Fresh(p, e)' => status'[e] # "none" /\ send'[<<e, 1>>] = "none"
  BY <1>2 DEF FreshInv, Kept
<1>6. \A p, q \in Processes, e \in Enrollments : Fresh(p, e)' /\ Fresh(q, e)' => p = q
  BY <1>2 DEF FreshInv
<1>7. \A e \in Enrollments, p \in Processes :
         job'[p] = ScheduleJob(e) => send'[<<e, 1>>] # "none"
  BY DEF FreshInv
<1>8. QED
  BY <1>1, <1>3, <1>4, <1>5, <1>6, <1>7 DEF FreshInv, ScheduleJob

\* Which steps of the queue keep it free of jobs for fresh enrollments.
LEMMA QueueKeeps ==
    ASSUME TablesOK, FreshInv, NEW e \in Enrollments
    PROVE  /\ UNCHANGED queue => QueueKept(e)
           /\ \A k \in Jobs : Q!Take(k) => QueueKept(e)
           /\ \A k \in Jobs \ {ScheduleJob(e)} : Q!Publish(k) => QueueKept(e)
           /\ \A p \in Processes :
                 job[p] \in Jobs /\ (Q!Publish(job[p]) \/ Q!GiveBack(job[p])) => QueueKept(e)
<1>1. ScheduleJob(e) \in Jobs /\ queue[ScheduleJob(e)] \in Nat
  BY ScheduleJobKinds, WaitingJobs
<1>2. \A k \in Jobs : Q!Take(k) => queue'[ScheduleJob(e)] <= queue[ScheduleJob(e)]
  BY <1>1 DEF Q!Take, TablesOK, Q!TypeOK
<1>3. \A k \in Jobs \ {ScheduleJob(e)} : Q!Publish(k) => queue'[ScheduleJob(e)] = queue[ScheduleJob(e)]
  BY <1>1, WaitingJobs
<1>4. \A p \in Processes : job[p] = ScheduleJob(e) => QueueKept(e)
  BY DEF FreshInv, QueueKept
<1>5. UNCHANGED queue => QueueKept(e)
  BY DEF QueueKept
<1>6. \A k \in Jobs : Q!Take(k) => QueueKept(e)
  <2>1. ASSUME NEW k \in Jobs, Q!Take(k)
        PROVE  queue'[ScheduleJob(e)] \in Int
    BY <1>1, <2>1 DEF Q!Take, Q!Waiting, TablesOK, Q!TypeOK
  <2>2. QED
    BY <1>1, <1>2, <2>1 DEF QueueKept
<1>7. \A k \in Jobs \ {ScheduleJob(e)} : Q!Publish(k) => QueueKept(e)
  BY <1>3 DEF QueueKept
<1>8. ASSUME NEW p \in Processes, job[p] \in Jobs, Q!Publish(job[p]) \/ Q!GiveBack(job[p])
      PROVE  QueueKept(e)
  BY <1>4, <1>5, <1>7, <1>8 DEF Q!GiveBack
<1>9. QED
  BY <1>5, <1>6, <1>7, <1>8

LEMMA DatabaseKeeps ==
    ASSUME UNCHANGED database, NEW e \in Enrollments, QueueKept(e)
    PROVE  Kept(e)
BY DEF Kept, database, enrollments, sends

\* No first step is inserted.
SameFirst == \A e \in Enrollments : send'[<<e, 1>>] # "none" => send[<<e, 1>>] # "none"

LEMMA FreshFinish ==
    ASSUME BaseInv, FreshInv, NEW p \in Processes, Finish(p), SameFirst,
           \A e \in Enrollments : Kept(e)
    PROVE  FreshInv'
<1>1. PICK step \in {"idle", "returned"} : Turn(p, step, NoJob, NoRow, {})
  BY FinishTurns
<1>2. EnrollHolds(step, NoJob, NoRow, {}) /\ \A e \in Enrollments : ~FreshAt(step, NoJob, NoRow, {}, e)
  BY DEF EnrollHolds, FreshAt
<1>3. \A e \in Enrollments : NoJob # ScheduleJob(e)
  BY ScheduleJobKinds
<1>4. QED
  BY <1>1, <1>2, <1>3, FreshTurn DEF SameFirst

LEMMA FreshContinue ==
    ASSUME BaseInv, FreshInv, NEW p \in Processes, NEW step, Continue(p, step),
           step \notin {"find", "insert"}, step \in AfterCreate \/ pc[p] \notin AfterCreate,
           SameFirst, \A e \in Enrollments : Kept(e)
    PROVE  FreshInv'
<1>1. Turn(p, step, job[p], row[p], made[p])
  BY ContinueTurns DEF BaseInv
<1>2. EnrollHolds(step, job[p], row[p], made[p])
  BY DEF EnrollHolds, FreshInv
<1>3. \A e \in Enrollments : FreshAt(step, job[p], row[p], made[p], e) => Fresh(p, e)
  BY DEF FreshAt, Fresh
<1>4. \A e \in Enrollments : job[p] = ScheduleJob(e) => send[<<e, 1>>] # "none"
  BY DEF FreshInv
<1>5. QED
  BY <1>1, <1>2, <1>3, <1>4, FreshTurn DEF SameFirst

\* Ending enrollments makes none of them unused.
LEMMA ExitKeeps ==
    ASSUME BaseInv, NEW c, Exit(c), NEW e \in Enrollments
    PROVE  status[e] # "none" => status'[e] # "none"
BY DEF Exit, BaseInv, TablesOK

LEMMA EnvironmentFresh ==
    ASSUME BaseInv, FreshInv
    PROVE  /\ \A r \in Runs : StartRun(r) => FreshInv'
           /\ \A b \in BOOLEAN : SetPaused(b) => FreshInv'
           /\ \A c \in Contacts : Unsubscribe(c) \/ Leave(c) => FreshInv'
           /\ \A y \in Rows : \A m \in Messages : \A t \in Reports :
                 Report(y, m, t) => FreshInv'
<1>0. TablesOK
  BY DEF BaseInv
<1>1. ASSUME NEW r \in Runs, StartRun(r)
      PROVE  FreshInv'
  <2>1. Q!Publish(EnrollJob(r)) /\ UNCHANGED <<status, origin, send, pc, job, row, made>>
    BY <1>1 DEF StartRun, EnrollJob, enrollments, sends, view, roster
  <2>2. ASSUME NEW e \in Enrollments
        PROVE  Kept(e)
    BY <1>0, <2>1, EnrollJobKinds, ScheduleJobKinds, QueueKeeps DEF Kept
  <2>3. QED
    BY <2>1, <2>2, FreshOutside
<1>2. ASSUME NEW b \in BOOLEAN, SetPaused(b)
      PROVE  FreshInv'
  <2>1. UNCHANGED <<status, origin, send, pc, job, row, made, queue>>
    BY <1>2 DEF SetPaused, enrollments, sends, view, roster
  <2>2. QED
    BY <1>0, <2>1, QueueKeeps, FreshOutside DEF Kept
<1>3. ASSUME NEW c \in Contacts, Unsubscribe(c) \/ Leave(c)
      PROVE  FreshInv'
  <2>1. UNCHANGED <<origin, send, pc, job, row, made, queue>>
    BY <1>3 DEF Unsubscribe, Leave, enrollments, sends, view, roster
  <2>2. \A e \in Enrollments : status[e] # "none" => status'[e] # "none"
    BY <1>3, ExitKeeps DEF Unsubscribe, Leave, enrollments
  <2>3. QED
    BY <1>0, <2>1, <2>2, QueueKeeps, FreshOutside DEF Kept
<1>4. ASSUME NEW y \in Rows, NEW m \in Messages, NEW t \in Reports, Report(y, m, t)
      PROVE  FreshInv'
  <2>1. UNCHANGED <<status, origin, send, pc, job, row, made>>
        /\ Q!Publish(<<"process-delivery-events", y, m, t>>)
    BY <1>4 DEF Report, database, enrollments, sends, view, roster
  <2>2. <<"process-delivery-events", y, m, t>> \in ReportJobs
    BY DEF ReportJobs
  <2>3. ASSUME NEW e \in Enrollments
        PROVE  Kept(e)
    BY <1>0, <2>1, <2>2, JobSets, ScheduleJobKinds, QueueKeeps DEF Kept
  <2>4. QED
    BY <2>1, <2>3, FreshOutside
<1>5. QED
  BY <1>1, <1>2, <1>3, <1>4

LEMMA BeginFresh ==
    ASSUME BaseInv, FreshInv, NEW w \in Processes
    PROVE  /\ Begin(w) => FreshInv'
           /\ \A S \in SUBSET Contacts : Call(w, S) => FreshInv'
<1>0. TablesOK /\ ProcessesOK
  BY DEF BaseInv
<1>1. ASSUME UNCHANGED database, NEW k \in Jobs, Q!Take(k) \/ UNCHANGED queue
      PROVE  SameFirst /\ \A e \in Enrollments : Kept(e)
  BY <1>0, <1>1, QueueKeeps, DatabaseKeeps DEF SameFirst, database, sends
<1>2. ASSUME pc[w] = "idle"
      PROVE  made[w] = {}
  BY <1>2 DEF FreshInv, EnrollHolds, AfterCreate
<1>3. ASSUME NEW r \in Runs, BeginEnroll(w, r)
      PROVE  FreshInv'
  <2>1. EnrollJob(r) \in Jobs /\ Q!Take(EnrollJob(r)) /\ UNCHANGED database /\ pc[w] = "idle"
        /\ Turn(w, "check", EnrollJob(r), row[w], {})
    BY <1>0, <1>2, <1>3, EnrollJobKinds DEF BeginEnroll, StartEnrolling, Goto, Turn, view,
       EnrollJob, ProcessesOK
  <2>2. EnrollHolds("check", EnrollJob(r), row[w], {})
        /\ \A e \in Enrollments : ~FreshAt("check", EnrollJob(r), row[w], {}, e)
    BY DEF EnrollHolds, FreshAt
  <2>3. \A e \in Enrollments : EnrollJob(r) # ScheduleJob(e)
    BY EnrollJobKinds, ScheduleJobKinds
  <2>4. QED
    BY <1>1, <2>1, <2>2, <2>3, FreshTurn DEF SameFirst
<1>4. ASSUME NEW S \in SUBSET Contacts, Call(w, S)
      PROVE  FreshInv'
  <2>1. UNCHANGED <<database, queue>> /\ pc[w] = "idle"
        /\ Turn(w, "check", job[w], row[w], {})
    BY <1>0, <1>2, <1>4 DEF Call, StartEnrolling, Goto, Turn, view, ProcessesOK
  <2>2. EnrollHolds("check", job[w], row[w], {})
        /\ \A e \in Enrollments : ~FreshAt("check", job[w], row[w], {}, e)
    BY DEF EnrollHolds, FreshAt
  <2>3. \A e \in Enrollments : job[w] = ScheduleJob(e) => send[<<e, 1>>] # "none"
    BY DEF FreshInv
  <2>4. SameFirst /\ \A e \in Enrollments : Kept(e)
    BY <1>0, <2>1, QueueKeeps, DatabaseKeeps DEF SameFirst, database, sends
  <2>5. QED
    BY <2>1, <2>2, <2>3, <2>4, FreshTurn DEF SameFirst
<1>5. ASSUME NEW d \in Enrollments, BeginSchedule(w, d)
      PROVE  FreshInv'
  <2>1. ScheduleJob(d) \in Jobs /\ Q!Take(ScheduleJob(d)) /\ UNCHANGED database /\ pc[w] = "idle"
        /\ Turn(w, "loadNext", ScheduleJob(d), row[w], {})
    BY <1>0, <1>2, <1>5, ScheduleJobKinds DEF BeginSchedule, Goto, Turn, view, roster,
       ScheduleJob, ProcessesOK
  <2>2. EnrollHolds("loadNext", ScheduleJob(d), row[w], {})
        /\ \A e \in Enrollments : ~FreshAt("loadNext", ScheduleJob(d), row[w], {}, e)
    BY DEF EnrollHolds, FreshAt
  <2>3. queue[ScheduleJob(d)] > 0
    BY <2>1 DEF Q!Take, Q!Waiting
  <2>4. \A e \in Enrollments : ScheduleJob(d) = ScheduleJob(e) => send[<<e, 1>>] # "none"
    BY <2>3, ScheduleJobKinds DEF FreshInv
  <2>5. QED
    BY <1>1, <2>1, <2>2, <2>4, FreshTurn DEF SameFirst
<1>6. ASSUME NEW y \in Rows, BeginSend(w, y)
      PROVE  FreshInv'
  <2>1. SendJob(y) \in Jobs /\ Q!Take(SendJob(y)) /\ UNCHANGED database /\ pc[w] = "idle"
        /\ Turn(w, "load", SendJob(y), y, {})
    BY <1>0, <1>2, <1>6, JobKinds DEF BeginSend, Goto, Turn, roster, SendJob, ProcessesOK
  <2>2. EnrollHolds("load", SendJob(y), y, {})
        /\ \A e \in Enrollments : ~FreshAt("load", SendJob(y), y, {}, e)
    BY DEF EnrollHolds, FreshAt
  <2>3. \A e \in Enrollments : SendJob(y) # ScheduleJob(e)
    BY JobKinds, ScheduleJobKinds
  <2>4. QED
    BY <1>1, <2>1, <2>2, <2>3, FreshTurn DEF SameFirst
<1>7. ASSUME NEW y \in Rows, NEW n \in Messages, NEW t \in Reports, BeginReport(w, y, n, t)
      PROVE  FreshInv'
  <2> DEFINE j == <<"process-delivery-events", y, n, t>>
  <2>1. j \in ReportJobs /\ j \in Jobs
    BY DEF ReportJobs, Jobs
  <2>2. Q!Take(j) /\ UNCHANGED database /\ pc[w] = "idle" /\ Turn(w, "match", j, y, {})
    BY <1>0, <1>2, <1>7 DEF BeginReport, Goto, Turn, roster, ProcessesOK
  <2>3. EnrollHolds("match", j, y, {})
        /\ \A e \in Enrollments : ~FreshAt("match", j, y, {}, e)
    BY DEF EnrollHolds, FreshAt
  <2>4. \A e \in Enrollments : j # ScheduleJob(e)
    BY <2>1, ScheduleJobKinds
  <2> HIDE DEF j
  <2>5. QED
    BY <1>1, <2>1, <2>2, <2>3, <2>4, FreshTurn DEF SameFirst
<1>8. QED
  BY <1>3, <1>4, <1>5, <1>6, <1>7 DEF Begin

LEMMA EnrollFresh ==
    ASSUME BaseInv, FreshInv, NEW p \in Processes
    PROVE  /\ \A c \in Contacts : CheckPreference(p, c) \/ CheckEnrolled(p, c) => FreshInv'
           /\ Create(p) \/ Count(p) \/ EnrollDone(p) => FreshInv'
           /\ \A e \in Enrollments : FindFirst(p, e) => FreshInv'
<1>0. TablesOK /\ ProcessesOK
  BY DEF BaseInv
<1>1. ASSUME NEW c \in Contacts, CheckPreference(p, c) \/ CheckEnrolled(p, c)
      PROVE  FreshInv'
  <2>1. UNCHANGED <<status, origin, send, pc, job, row, made, queue>>
    BY <1>1 DEF CheckPreference, CheckEnrolled, database, enrollments, sends, view
  <2>2. QED
    BY <1>0, <2>1, QueueKeeps, FreshOutside DEF Kept
<1>2. ASSUME Create(p)
      PROVE  FreshInv'
  <2> DEFINE eligible == {c \in Contacts : checks[p][c] = "eligible"}
             new == {e \in Enrollments : Contact(e) \in eligible /\ Unused(e)}
  <2>1. UNCHANGED <<send, queue>> /\ pc[p] = "check"
    BY <1>2 DEF Create, sends
  <2>2. CASE Finish(p) /\ UNCHANGED <<status, origin>>
    BY <1>0, <2>1, <2>2, QueueKeeps, FreshFinish DEF SameFirst, Kept
  <2>3. ASSUME status' = [e \in Enrollments |-> IF e \in new THEN "active" ELSE status[e]],
               origin' = [e \in Enrollments |-> IF e \in new THEN job[p] ELSE origin[e]],
               made' = [made EXCEPT ![p] = new], UNCHANGED <<job, view>>,
               NEW step \in {"count", "first"}, Goto(p, step)
        PROVE  FreshInv'
    <3>1. Turn(p, step, job[p], row[p], new)
      BY <1>0, <2>3 DEF Turn, Goto, view, ProcessesOK
    <3>2. /\ pc'[p] = step /\ job'[p] = job[p] /\ row'[p] = row[p] /\ made'[p] = new
          /\ \A q \in Processes \ {p} : /\ pc'[q] = pc[q] /\ job'[q] = job[q]
                                        /\ row'[q] = row[q] /\ made'[q] = made[q]
      BY <1>0, <3>1, Turned
    <3>3. \A e \in new : /\ e \in Enrollments /\ status[e] = "none" /\ send[<<e, 1>>] = "none"
                         /\ \A q \in Processes : ~Fresh(q, e)
      BY DEF Unused, FreshInv
    <3>4. \A q \in Processes, e \in Enrollments :
             Fresh(q, e)' => IF q = p THEN e \in new ELSE Fresh(q, e)
      BY <3>2 DEF Fresh, FreshAt
    <3>5. \A q \in Processes : EnrollHolds(pc[q], job[q], row[q], made[q])'
      <4>1. job[p] \notin ScheduleJobs
        BY <2>1, KindsOfJobs DEF BaseInv, Hands, Holds
      <4>2. QED
        BY <3>2, <4>1 DEF FreshInv, EnrollHolds, AfterCreate
    <3>6. \A q \in Processes, e \in Enrollments :
             Fresh(q, e)' => status'[e] # "none" /\ send'[<<e, 1>>] = "none"
      BY <2>1, <2>3, <3>3, <3>4 DEF FreshInv
    <3>7. \A q, r \in Processes, e \in Enrollments : Fresh(q, e)' /\ Fresh(r, e)' => q = r
      BY <3>3, <3>4 DEF FreshInv
    <3>8. \A e \in Enrollments :
             status'[e] = "none" => send'[<<e, 1>>] = "none" /\ origin'[e] = NoJob
      BY <2>1, <2>3 DEF FreshInv
    <3>9. \A e \in Enrollments : queue'[ScheduleJob(e)] > 0 => send'[<<e, 1>>] # "none"
      BY <2>1 DEF FreshInv
    <3>10. \A e \in Enrollments, q \in Processes :
             job'[q] = ScheduleJob(e) => send'[<<e, 1>>] # "none"
      BY <2>1, <3>2 DEF FreshInv
    <3>11. QED
      BY <3>5, <3>6, <3>7, <3>8, <3>9, <3>10 DEF FreshInv, ScheduleJob
  <2>4. QED
    BY <1>2, <2>2, <2>3 DEF Create
<1>3. ASSUME Count(p)
      PROVE  FreshInv'
  <2>1. UNCHANGED <<status, origin, send, queue>> /\ Continue(p, "first")
    BY <1>3 DEF Count, sends
  <2>2. QED
    BY <1>0, <2>1, QueueKeeps, FreshContinue DEF AfterCreate, Kept, SameFirst
<1>4. ASSUME EnrollDone(p)
      PROVE  FreshInv'
  <2>1. UNCHANGED <<status, origin, send, queue>> /\ Finish(p)
    BY <1>4 DEF EnrollDone, database, enrollments, sends
  <2>2. QED
    BY <1>0, <2>1, QueueKeeps, FreshFinish DEF Kept, SameFirst
<1>5. ASSUME NEW e \in Enrollments, FindFirst(p, e)
      PROVE  FreshInv'
  <2>1. /\ UNCHANGED <<status, origin, send, queue>> /\ pc[p] = "first" /\ e \in made[p]
        /\ made[p] \subseteq Enrollments
    BY <1>0, <1>5 DEF FindFirst, database, enrollments, sends, ProcessesOK
  <2>2. PICK step \in {"insert", "first"} : Turn(p, step, job[p], <<e, 1>>, made[p] \ {e})
    BY <1>0, <1>5 DEF FindFirst, Goto, Turn, ProcessesOK
  <2>3. job[p] \in EnrollJobs \cup {NoJob}
    BY <2>1 DEF BaseInv, Hands, Holds
  <2>4. EnrollHolds(step, job[p], <<e, 1>>, made[p] \ {e})
    BY <2>3, KindsOfJobs DEF EnrollHolds, AfterCreate
  <2>5. \A d \in Enrollments : FreshAt(step, job[p], <<e, 1>>, made[p] \ {e}, d) => Fresh(p, d)
    BY <2>1 DEF FreshAt, Fresh
  <2>6. \A d \in Enrollments : job[p] = ScheduleJob(d) => send[<<d, 1>>] # "none"
    BY DEF FreshInv
  <2>7. \A d \in Enrollments : Kept(d)
    BY <1>0, <2>1, QueueKeeps DEF Kept
  <2>8. \A d \in Enrollments : send'[<<d, 1>>] = send[<<d, 1>>]
    BY <2>1
  <2>9. QED
    BY <2>2, <2>4, <2>5, <2>6, <2>7, <2>8, FreshTurn
<1>6. QED
  BY <1>1, <1>2, <1>3, <1>4, <1>5

\* A process that enrolls finds no row in the way of the one it inserts.
LEMMA EnrollerInserts ==
    ASSUME BaseInv, FreshInv, NEW p \in Processes, pc[p] = "insert", job[p] \notin ScheduleJobs
    PROVE  \E e \in Enrollments : /\ row[p] = <<e, 1>> /\ send[row[p]] = "none"
                                  /\ Fresh(p, e) /\ e \notin made[p]
BY DEF FreshInv, EnrollHolds, Fresh, FreshAt

LEMMA ScheduleFresh ==
    ASSUME BaseInv, FreshInv, NEW p \in Processes
    PROVE  LoadNext(p) \/ Find(p) \/ Insert(p) \/ Publish(p) => FreshInv'
<1>0. TablesOK /\ ProcessesOK
  BY DEF BaseInv
<1>1. ASSUME LoadNext(p)
      PROVE  FreshInv'
  <2>1. UNCHANGED <<status, origin, send, queue>> /\ pc[p] = "loadNext" /\ job[p] \in ScheduleJobs
        /\ SameFirst /\ \A e \in Enrollments : Kept(e)
    BY <1>0, <1>1, QueueKeeps DEF LoadNext, database, enrollments, sends, BaseInv, Hands, Holds,
       SameFirst, Kept
  <2>2. ASSUME NEW i, row' = [row EXCEPT ![p] = <<job[p][2], i>>], Goto(p, "find"),
               UNCHANGED <<job, roster>>
        PROVE  FreshInv'
    <3>1. Turn(p, "find", job[p], <<job[p][2], i>>, made[p])
      BY <1>0, <2>2 DEF Turn, Goto, roster, ProcessesOK
    <3>2. EnrollHolds("find", job[p], <<job[p][2], i>>, made[p])
      BY <2>1 DEF EnrollHolds, AfterCreate, FreshInv
    <3>3. \A e \in Enrollments :
             /\ FreshAt("find", job[p], <<job[p][2], i>>, made[p], e) => Fresh(p, e)
             /\ job[p] = ScheduleJob(e) => send[<<e, 1>>] # "none"
      BY DEF FreshAt, Fresh, FreshInv
    <3>4. QED
      BY <2>1, <3>1, <3>2, <3>3, FreshTurn DEF SameFirst
  <2>3. QED
    BY <1>1, <2>1, <2>2, FreshFinish DEF LoadNext
<1>2. ASSUME Find(p)
      PROVE  FreshInv'
  <2>1. UNCHANGED <<status, origin, send, queue>> /\ pc[p] = "find"
        /\ SameFirst /\ \A e \in Enrollments : Kept(e)
    BY <1>0, <1>2, QueueKeeps DEF Find, database, enrollments, sends, SameFirst, Kept
  <2>2. CASE Continue(p, "insert")
    <3>1. Turn(p, "insert", job[p], row[p], made[p])
      BY <1>0, <2>2, ContinueTurns
    <3>2. job[p] \in ScheduleJobs /\ EnrollHolds("insert", job[p], row[p], made[p])
      BY <2>1 DEF EnrollHolds, AfterCreate, FreshInv
    <3>3. \A e \in Enrollments :
             /\ FreshAt("insert", job[p], row[p], made[p], e) => Fresh(p, e)
             /\ job[p] = ScheduleJob(e) => send[<<e, 1>>] # "none"
      BY <3>2 DEF FreshAt, Fresh, FreshInv
    <3>4. QED
      BY <2>1, <3>1, <3>2, <3>3, FreshTurn DEF SameFirst
  <2>3. QED
    BY <1>2, <2>1, <2>2, FreshFinish DEF Find
<1>3. ASSUME Insert(p)
      PROVE  FreshInv'
  <2>1. UNCHANGED <<status, origin>> /\ pc[p] = "insert" /\ row[p] \in Rows
    BY <1>3 DEF Insert, enrollments, BaseInv, Hands, Holds
  <2>2. CASE Stop(p) /\ UNCHANGED send
    <3>1. \A e \in Enrollments : QueueKept(e)
      BY <1>0, <2>2, QueueKeeps DEF Stop
    <3>2. QED
      BY <2>1, <2>2, <3>1, FreshFinish DEF Stop, Kept, SameFirst
  <2>3. CASE send[row[p]] = "none" /\ send' = [send EXCEPT ![row[p]] = "pending"]
             /\ Continue(p, "publish") /\ UNCHANGED queue
    <3>1. Turn(p, "publish", job[p], row[p], made[p])
      BY <1>0, <2>3, ContinueTurns
    <3>2. EnrollHolds("publish", job[p], row[p], made[p])
      BY DEF EnrollHolds, AfterCreate, FreshInv
    <3>3. \A e \in Enrollments :
             /\ FreshAt("publish", job[p], row[p], made[p], e) => Fresh(p, e)
             /\ job[p] = ScheduleJob(e) => send[<<e, 1>>] # "none"
      BY DEF FreshAt, Fresh, FreshInv
    <3>4. \A y \in Rows : send'[y] = IF y = row[p] THEN "pending" ELSE send[y]
      BY <1>0, <2>1, <2>3 DEF TablesOK
    <3>5. \A e \in Enrollments : Kept(e)
      BY <1>0, <2>1, <2>3, <3>4, FirstRow, QueueKeeps DEF Kept
    <3>6. ASSUME NEW e \in Enrollments, send[<<e, 1>>] = "none", send'[<<e, 1>>] # "none"
          PROVE  Fresh(p, e) /\ ~FreshAt("publish", job[p], row[p], made[p], e)
      <4>1. row[p] = <<e, 1>>
        BY <3>4, <3>6, FirstRow
      <4>2. job[p] \notin ScheduleJobs
        <5>1. ASSUME job[p] \in ScheduleJobs
              PROVE  FALSE
          <6>1. PICK d \in Enrollments : job[p] = ScheduleJob(d)
            BY <5>1, KindsOfJobs
          <6>2. d = e
            BY <2>1, <4>1, <5>1, <6>1 DEF FreshInv, EnrollHolds, ScheduleJob
          <6>3. QED
            BY <3>6, <6>1, <6>2 DEF FreshInv
        <5>2. QED
          BY <5>1
      <4>3. QED
        BY <2>1, <4>1, <4>2, EnrollerInserts DEF FreshAt
    <3>7. QED
      BY <3>1, <3>2, <3>3, <3>5, <3>6, FreshTurn
  <2>4. QED
    BY <1>3, <2>2, <2>3 DEF Insert
<1>4. ASSUME Publish(p)
      PROVE  FreshInv'
  <2>1. UNCHANGED <<status, origin, send>> /\ pc[p] = "publish" /\ row[p] \in Rows
        /\ Q!Publish(SendJob(row[p]))
    BY <1>4 DEF Publish, database, enrollments, sends, BaseInv, Hands, Holds, SendJob
  <2>2. ASSUME NEW e \in Enrollments
        PROVE  Kept(e)
    <3>1. SendJob(row[p]) \in Jobs \ {ScheduleJob(e)}
      BY <2>1, JobKinds, ScheduleJobKinds
    <3>2. QED
      BY <1>0, <2>1, <3>1, QueueKeeps DEF Kept
  <2>3. QED
    BY <1>4, <2>1, <2>2, FreshFinish, FreshContinue DEF Publish, AfterCreate, SameFirst
<1>5. QED
  BY <1>1, <1>2, <1>3, <1>4

\* The first step of an enrollment that has a later one, or has moved on, exists.
FirstInv ==
    /\ \A x \in Rows : send[x] # "none" => send[<<x[1], 1>>] # "none"
    /\ \A e \in Enrollments : index[e] # 1 => send[<<e, 1>>] # "none"

LEMMA SendFresh ==
    ASSUME BaseInv, OrderInv, FreshInv, FirstInv, NEW p \in Processes
    PROVE  /\ Load(p) \/ LoadEnrollment(p) \/ LoadSequence(p) => FreshInv'
           /\ CheckBars(p) \/ MarkSkipped(p) \/ ExitEnrollment(p) => FreshInv'
           /\ Mail(p) \/ MarkSent(p) \/ Advance(p) \/ EnqueueNext(p) => FreshInv'
<1>0. /\ TablesOK /\ ProcessesOK
      /\ pc[p] \in SendSteps => row[p] \in Rows
      /\ pc[p] \in SendSteps \ {"load"} => send[row[p]] # "none"
  BY DEF BaseInv, Hands, Holds, OrderInv, EveryoneIsSound, Sound
<1>1. ASSUME Load(p)
      PROVE  FreshInv'
  <2>1. UNCHANGED <<status, origin, send, queue>> /\ pc[p] = "load"
        /\ SameFirst /\ \A e \in Enrollments : Kept(e)
    BY <1>0, <1>1, QueueKeeps DEF Load, database, enrollments, sends, SameFirst, Kept
  <2>2. QED
    BY <1>1, <2>1, FreshFinish, FreshContinue DEF Load, AfterCreate
<1>8. ASSUME NEW step \in {"loadSequence", "bars"}, LoadEnrollment(p) \/ LoadSequence(p), Goto(p, step)
      PROVE  FreshInv'
  <2>1. UNCHANGED <<status, origin, send, queue, job, row>> /\ roster' = roster
    BY <1>8 DEF LoadEnrollment, LoadSequence, database, enrollments, sends
  <2>2. pc[p] \in {"loadEnrollment", "loadSequence"}
    BY <1>8 DEF LoadEnrollment, LoadSequence
  <2>3. SameFirst /\ \A e \in Enrollments : Kept(e)
    BY <1>0, <2>1, QueueKeeps DEF SameFirst, Kept
  <2>4. Turn(p, step, job[p], row[p], made[p])
    BY <1>0, <1>8, <2>1 DEF Goto, Turn, roster, ProcessesOK
  <2>5. EnrollHolds(step, job[p], row[p], made[p])
    BY <2>2, <1>8 DEF EnrollHolds, AfterCreate, FreshInv
  <2>6. \A e \in Enrollments :
           /\ FreshAt(step, job[p], row[p], made[p], e) => Fresh(p, e)
           /\ job[p] = ScheduleJob(e) => send[<<e, 1>>] # "none"
    BY <1>8 DEF FreshAt, Fresh, FreshInv
  <2>7. QED
    BY <2>1, <2>3, <2>4, <2>5, <2>6, FreshTurn DEF SameFirst
<1>2. ASSUME CheckBars(p)
      PROVE  FreshInv'
  <2>1. UNCHANGED <<status, origin, send, queue>> /\ pc[p] = "bars"
        /\ SameFirst /\ \A e \in Enrollments : Kept(e)
    BY <1>0, <1>2, QueueKeeps DEF CheckBars, database, enrollments, sends, SameFirst, Kept
  <2>2. QED
    BY <1>2, <2>1, FreshContinue DEF CheckBars, AfterCreate
<1>3. ASSUME MarkSkipped(p) \/ MarkSent(p)
      PROVE  FreshInv'
  <2>1. UNCHANGED <<status, origin, queue>> /\ pc[p] \in SendSteps \ {"load"}
        /\ pc[p] \notin AfterCreate
    BY <1>3 DEF MarkSkipped, MarkSent, enrollments, SendSteps, AfterCreate
  <2>2. PICK v \in {"skipped", "sent"} : send' = [send EXCEPT ![row[p]] = v]
    BY <1>3 DEF MarkSkipped, MarkSent
  <2>3. \A y \in Rows : send'[y] # "none" <=> send[y] # "none"
    BY <1>0, <2>1, <2>2 DEF TablesOK
  <2>4. SameFirst /\ \A e \in Enrollments : Kept(e)
    BY <1>0, <2>1, <2>3, FirstRow, QueueKeeps DEF SameFirst, Kept
  <2>5. QED
    BY <1>3, <2>1, <2>4, FreshFinish, FreshContinue DEF MarkSkipped, MarkSent, AfterCreate
<1>4. ASSUME ExitEnrollment(p) \/ Advance(p)
      PROVE  FreshInv'
  <2>1. UNCHANGED <<origin, send, queue>> /\ pc[p] \notin AfterCreate
        /\ (Finish(p) \/ Continue(p, "enqueueNext"))
    BY <1>4 DEF ExitEnrollment, Advance, sends, AfterCreate
  <2>2. \A e \in Enrollments : status[e] # "none" => status'[e] # "none"
    BY <1>0, <1>4 DEF ExitEnrollment, Advance, TablesOK
  <2>3. SameFirst /\ \A e \in Enrollments : Kept(e)
    BY <1>0, <2>1, <2>2, QueueKeeps DEF SameFirst, Kept
  <2>4. QED
    BY <2>1, <2>3, FreshFinish, FreshContinue
<1>5. ASSUME Mail(p)
      PROVE  FreshInv'
  <2>1. UNCHANGED <<status, origin, send, queue>> /\ pc[p] = "mail"
        /\ Turn(p, "markSent", job[p], row[p], made[p])
    BY <1>0, <1>5 DEF Mail, database, enrollments, sends, Goto, Turn, roster, ProcessesOK
  <2>2. EnrollHolds("markSent", job[p], row[p], made[p])
    BY <2>1 DEF EnrollHolds, AfterCreate, FreshInv
  <2>3. \A e \in Enrollments :
           /\ FreshAt("markSent", job[p], row[p], made[p], e) => Fresh(p, e)
           /\ job[p] = ScheduleJob(e) => send[<<e, 1>>] # "none"
    BY DEF FreshAt, Fresh, FreshInv
  <2>4. SameFirst /\ \A e \in Enrollments : Kept(e)
    BY <1>0, <2>1, QueueKeeps DEF SameFirst, Kept
  <2>5. QED
    BY <2>1, <2>2, <2>3, <2>4, FreshTurn DEF SameFirst
<1>6. ASSUME EnqueueNext(p)
      PROVE  FreshInv'
  <2>1. UNCHANGED <<status, origin, send>> /\ pc[p] = "enqueueNext" /\ Finish(p)
        /\ Q!Publish(ScheduleJob(row[p][1]))
    BY <1>6 DEF EnqueueNext, database, enrollments, sends, ScheduleJob
  <2>2. row[p] \in Rows /\ row[p][1] \in Enrollments /\ send[<<row[p][1], 1>>] # "none"
    BY <1>0, <2>1, RowParts DEF SendSteps, FirstInv
  <2>3. ASSUME NEW e \in Enrollments
        PROVE  Kept(e)
    <3>1. CASE e = row[p][1]
      BY <2>1, <2>2, <3>1 DEF Kept, QueueKept
    <3>2. CASE e # row[p][1]
      <4>1. ScheduleJob(row[p][1]) \in Jobs \ {ScheduleJob(e)}
        BY <2>2, <3>2, ScheduleJobKinds
      <4>2. QED
        BY <1>0, <2>1, <4>1, QueueKeeps DEF Kept
    <3>3. QED
      BY <3>1, <3>2
  <2>4. QED
    BY <2>1, <2>3, FreshFinish DEF SameFirst
<1>7. QED
  BY <1>1, <1>2, <1>3, <1>4, <1>5, <1>6, <1>8 DEF LoadEnrollment, LoadSequence

LEMMA ReportFresh ==
    ASSUME BaseInv, OrderInv, FreshInv, NEW p \in Processes
    PROVE  Match(p) \/ MarkReported(p) \/ Suppress(p) \/ ExitSuppressed(p) => FreshInv'
<1>0. /\ TablesOK /\ ProcessesOK
      /\ pc[p] = "mark" => row[p] \in Rows /\ send[row[p]] # "none"
  BY DEF BaseInv, Hands, Holds, ReportSteps, OrderInv, EveryoneIsSound, Sound, Done, Open
<1>1. ASSUME Match(p) \/ Suppress(p)
      PROVE  FreshInv'
  <2>1. UNCHANGED <<status, origin, send, queue>> /\ pc[p] \notin AfterCreate
    BY <1>1 DEF Match, Suppress, database, enrollments, sends, AfterCreate
  <2>2. SameFirst /\ \A e \in Enrollments : Kept(e)
    BY <1>0, <2>1, QueueKeeps DEF SameFirst, Kept
  <2>3. QED
    BY <1>1, <2>1, <2>2, FreshFinish, FreshContinue DEF Match, Suppress
<1>2. ASSUME MarkReported(p)
      PROVE  FreshInv'
  <2>1. UNCHANGED <<status, origin, queue>> /\ pc[p] = "mark"
    BY <1>2 DEF MarkReported, enrollments
  <2>2. PICK v \in {"delivered", "failed"} : send' = [send EXCEPT ![row[p]] = v]
    BY <1>2 DEF MarkReported
  <2>3. \A y \in Rows : send'[y] # "none" <=> send[y] # "none"
    BY <1>0, <2>1, <2>2 DEF TablesOK
  <2>4. SameFirst /\ \A e \in Enrollments : Kept(e)
    BY <1>0, <2>1, <2>3, FirstRow, QueueKeeps DEF SameFirst, Kept
  <2>5. QED
    BY <1>2, <2>1, <2>4, FreshFinish, FreshContinue DEF MarkReported, AfterCreate
<1>3. ASSUME ExitSuppressed(p)
      PROVE  FreshInv'
  <2>1. UNCHANGED <<origin, send, queue>> /\ Finish(p)
        /\ \A e \in Enrollments : status[e] # "none" => status'[e] # "none"
    BY <1>3, ExitKeeps DEF ExitSuppressed, sends
  <2>2. SameFirst /\ \A e \in Enrollments : Kept(e)
    BY <1>0, <2>1, QueueKeeps DEF SameFirst, Kept
  <2>3. QED
    BY <2>1, <2>2, FreshFinish
<1>4. QED
  BY <1>1, <1>2, <1>3

LEMMA MishapFresh ==
    ASSUME BaseInv, FreshInv, GoesWrong
    PROVE  FreshInv'
<1>0. TablesOK /\ ProcessesOK
  BY DEF BaseInv
<1>1. ASSUME NEW p \in Processes, Interrupt(p)
      PROVE  FreshInv'
  <2>1. UNCHANGED <<status, origin, send>> /\ Stop(p)
    BY <1>1 DEF Interrupt, database, enrollments, sends
  <2>2. \A e \in Enrollments : Kept(e)
    BY <1>0, <2>1, QueueKeeps DEF Stop, Kept
  <2>3. QED
    BY <2>1, <2>2, FreshFinish DEF Stop, SameFirst
<1>2. ASSUME NEW w \in Processes, Redeliver(w)
      PROVE  FreshInv'
  <2>1. UNCHANGED <<status, origin, send, pc, job, row, made>>
    BY <1>2 DEF Redeliver, database, enrollments, sends, view, roster
  <2>2. \A e \in Enrollments : Kept(e)
    BY <1>0, <1>2, <2>1, QueueKeeps DEF Redeliver, Kept
  <2>3. QED
    BY <2>1, <2>2, FreshOutside
<1>3. ASSUME NEW j \in Jobs, Drain(j)
      PROVE  FreshInv'
  <2>1. UNCHANGED <<status, origin, send, pc, job, row, made>> /\ Q!Take(j)
    BY <1>3 DEF Drain, Q!Drain, database, enrollments, sends, view, roster
  <2>2. \A e \in Enrollments : Kept(e)
    BY <1>0, <1>3, <2>1, QueueKeeps DEF Kept
  <2>3. QED
    BY <2>1, <2>2, FreshOutside
<1>4. (\E r \in Runs : StartRunStops(r)) \/ (\E c \in Contacts : RequestStops(c) \/ LoseAddress(c))
         => UNCHANGED <<status, origin, send, pc, job, row, made, queue>>
  BY DEF StartRunStops, RequestStops, LoseAddress, enrollments, sends, view, roster
<1>5. ASSUME UNCHANGED <<status, origin, send, pc, job, row, made, queue>>
      PROVE  FreshInv'
  BY <1>0, <1>5, QueueKeeps, FreshOutside DEF Kept
<1>6. QED
  BY <1>1, <1>2, <1>3, <1>4, <1>5 DEF GoesWrong, Processes

LEMMA InitFresh ==
    ASSUME Init
    PROVE  FreshInv
<1>1. /\ \A e \in Enrollments : send[<<e, 1>>] = "none" /\ origin[e] = NoJob
                                 /\ queue[ScheduleJob(e)] = 0
      /\ \A p \in Processes : pc[p] = "idle" /\ job[p] = NoJob /\ made[p] = {}
  BY FirstRow, ScheduleJobKinds DEF Init, Q!Empty
<1>2. \A e \in Enrollments, p \in Processes : ~Fresh(p, e) /\ job[p] # ScheduleJob(e)
  BY <1>1, ScheduleJobKinds DEF Fresh, FreshAt
<1>3. \A p \in Processes : EnrollHolds(pc[p], job[p], row[p], made[p])
  BY <1>1 DEF EnrollHolds
<1>4. QED
  BY <1>1, <1>2, <1>3 DEF FreshInv

LEMMA InitFirst ==
    ASSUME Init
    PROVE  FirstInv
BY DEF Init, FirstInv

LEMMA StepFirst ==
    ASSUME BaseInv, OrderInv, FreshInv, FirstInv, [Next]_vars
    PROVE  FirstInv'
<1>0. TablesOK
  BY DEF BaseInv
<1>1. ASSUME UNCHANGED index, \A x \in Rows : send'[x] # "none" <=> send[x] # "none"
      PROVE  FirstInv'
  <2>1. \A x \in Rows : <<x[1], 1>> \in Rows
    BY RowParts, FirstRow
  <2>2. \A e \in Enrollments : <<e, 1>> \in Rows
    BY FirstRow
  <2>3. QED
    BY <1>1, <2>1, <2>2 DEF FirstInv
<1>2. ASSUME UNCHANGED <<index, send>>
      PROVE  FirstInv'
  BY <1>2 DEF FirstInv
<1>3. ASSUME NEW p \in Processes, Insert(p)
      PROVE  FirstInv'
  <2>1. pc[p] = "insert" /\ row[p] \in Rows /\ UNCHANGED index
    BY <1>3 DEF Insert, enrollments, BaseInv, Hands, Holds
  <2>2. CASE UNCHANGED send
    BY <1>2, <2>1, <2>2
  <2>3. CASE send' = [send EXCEPT ![row[p]] = "pending"]
    <3>1. \A x \in Rows : send'[x] = IF x = row[p] THEN "pending" ELSE send[x]
      BY <1>0, <2>1, <2>3 DEF TablesOK
    <3>2. row[p][1] \in Enrollments /\ <<row[p][1], 1>> \in Rows
      BY <2>1, RowParts, FirstRow
    <3>3. row[p] = <<row[p][1], 1>> \/ send[<<row[p][1], 1>>] # "none"
      <4>1. CASE job[p] \in ScheduleJobs
        <5>1. PICK e \in Enrollments : job[p] = ScheduleJob(e)
          BY <4>1, KindsOfJobs
        <5>2. row[p][1] = e /\ send[<<e, 1>>] # "none"
          BY <2>1, <4>1, <5>1 DEF FreshInv, EnrollHolds, ScheduleJob
        <5>3. QED
          BY <5>2
      <4>2. CASE job[p] \notin ScheduleJobs
        BY <2>1, <4>2, EnrollerInserts
      <4>3. QED
        BY <4>1, <4>2
    <3>4. send'[<<row[p][1], 1>>] # "none"
      BY <3>1, <3>2, <3>3
    <3>5. \A x \in Rows : <<x[1], 1>> \in Rows
      BY RowParts, FirstRow
    <3>6. \A e \in Enrollments : <<e, 1>> \in Rows
      BY FirstRow
    <3>7. QED
      BY <2>1, <3>1, <3>4, <3>5, <3>6 DEF FirstInv
  <2>4. QED
    BY <1>3, <2>2, <2>3 DEF Insert
<1>4. ASSUME NEW p \in Processes, MarkSkipped(p) \/ MarkSent(p)
      PROVE  FirstInv'
  <2>1. UNCHANGED index /\ pc[p] \in SendSteps \ {"load"}
    BY <1>4 DEF MarkSkipped, MarkSent, enrollments, SendSteps
  <2>2. PICK v \in {"skipped", "sent"} : send' = [send EXCEPT ![row[p]] = v]
    BY <1>4 DEF MarkSkipped, MarkSent
  <2>3. row[p] \in Rows /\ send[row[p]] # "none"
    BY <2>1 DEF BaseInv, Hands, Holds, OrderInv, EveryoneIsSound, Sound
  <2>4. \A y \in Rows : send'[y] # "none" <=> send[y] # "none"
    BY <1>0, <2>2, <2>3 DEF TablesOK
  <2>5. QED
    BY <1>1, <2>1, <2>4
<1>5. ASSUME NEW p \in Processes, MarkReported(p)
      PROVE  FirstInv'
  <2>1. UNCHANGED index /\ row[p] \in Rows /\ send[row[p]] # "none"
    BY <1>5 DEF MarkReported, enrollments, BaseInv, Hands, Holds, ReportSteps, OrderInv,
       EveryoneIsSound, Sound, Done, Open
  <2>2. \A y \in Rows : send'[y] # "none" <=> send[y] # "none"
    BY <1>0, <1>5, <2>1 DEF MarkReported, TablesOK
  <2>3. QED
    BY <1>1, <2>1, <2>2
<1>6. ASSUME NEW p \in Processes, Advance(p)
      PROVE  FirstInv'
  <2>1. pc[p] \in SendSteps \ {"load"} /\ UNCHANGED send
    BY <1>6 DEF Advance, sends, SendSteps
  <2>2. row[p] \in Rows /\ send[row[p]] # "none"
    BY <2>1 DEF BaseInv, Hands, Holds, OrderInv, EveryoneIsSound, Sound
  <2>3. \A e \in Enrollments : index'[e] = index[e] \/ e = row[p][1]
    BY <1>0, <1>6 DEF Advance, TablesOK
  <2>4. QED
    BY <2>1, <2>2, <2>3 DEF FirstInv
<1>7. ASSUME NEW p \in Processes,
             Step(p) \/ Begin(p),
             ~(Insert(p) \/ MarkSkipped(p) \/ MarkSent(p) \/ MarkReported(p) \/ Advance(p))
      PROVE  FirstInv'
  <2>1. Begin(p) => UNCHANGED <<index, send>>
    BY DEF Begin, BeginEnroll, StartEnrolling, BeginSchedule, BeginSend, BeginReport, database,
       enrollments, sends
  <2>2. \A c \in Contacts : CheckPreference(p, c) \/ CheckEnrolled(p, c) => UNCHANGED <<index, send>>
    BY DEF CheckPreference, CheckEnrolled, database, enrollments, sends
  <2>3. Create(p) \/ Count(p) \/ EnrollDone(p) \/ (\E e \in Enrollments : FindFirst(p, e))
           => UNCHANGED <<index, send>>
    BY DEF Create, Count, EnrollDone, FindFirst, database, enrollments, sends
  <2>4. LoadNext(p) \/ Find(p) \/ Publish(p) \/ EnqueueNext(p) => UNCHANGED <<index, send>>
    BY DEF LoadNext, Find, Publish, EnqueueNext, database, enrollments, sends
  <2>5. Load(p) \/ LoadEnrollment(p) \/ LoadSequence(p) \/ CheckBars(p) => UNCHANGED <<index, send>>
    BY DEF Load, LoadEnrollment, LoadSequence, CheckBars, database, enrollments, sends
  <2>6. ExitEnrollment(p) \/ Mail(p) \/ Match(p) \/ Suppress(p) \/ ExitSuppressed(p)
           => UNCHANGED <<index, send>>
    BY DEF ExitEnrollment, Mail, Match, Suppress, ExitSuppressed, Exit, database, enrollments, sends
  <2>7. QED
    BY <1>2, <1>7, <2>1, <2>2, <2>3, <2>4, <2>5, <2>6 DEF Step
<1>8. ASSUME Environment \/ GoesWrong
      PROVE  FirstInv'
  <2>1. \A p \in Callers, S \in SUBSET Contacts : Call(p, S) => UNCHANGED <<index, send>>
    BY DEF Call, StartEnrolling, database, enrollments, sends
  <2>2. Environment => UNCHANGED <<index, send>>
    BY <2>1 DEF Environment, StartRun, SetPaused, Unsubscribe, Leave, Report, Exit, database,
       enrollments, sends
  <2>3. GoesWrong => UNCHANGED <<index, send>>
    BY DEF GoesWrong, Interrupt, Redeliver, Drain, StartRunStops, RequestStops, LoseAddress,
       database, enrollments, sends
  <2>4. QED
    BY <1>2, <1>8, <2>2, <2>3
<1>9. CASE UNCHANGED vars
  BY <1>2, <1>9 DEF vars, database, enrollments, sends
<1>10. QED
  BY <1>3, <1>4, <1>5, <1>6, <1>7, <1>8, <1>9 DEF Next, Work

LEMMA StepFresh ==
    ASSUME BaseInv, OrderInv, FreshInv, FirstInv, [Next]_vars
    PROVE  FreshInv'
<1>1. CASE Work
  BY <1>1, BeginFresh, EnrollFresh, ScheduleFresh, SendFresh, ReportFresh DEF Work, Step
<1>2. CASE Environment
  BY <1>2, EnvironmentFresh, BeginFresh DEF Environment, Processes
<1>3. CASE GoesWrong
  BY <1>3, MishapFresh
<1>4. CASE UNCHANGED vars
  <2>1. UNCHANGED <<status, origin, send, pc, job, row, made, queue>>
    BY <1>4 DEF vars, database, enrollments, sends, view, roster
  <2>2. QED
    BY <2>1, QueueKeeps, FreshOutside DEF Kept, BaseInv
<1>5. QED
  BY <1>1, <1>2, <1>3, <1>4 DEF Next

\* What is fresh is in the hands of one process, and what has a later step has a first
\* one, in every reachable state.
THEOREM FreshInvariant == Spec => []FreshInv /\ []FirstInv
BY BaseInvariant, OrderInvariant, InitFresh, InitFirst, StepFresh, StepFirst, PTL DEF Spec

-------------------------------------------------------------------------------
(***************************************************************************)
(* The count of a run.  As long as its job is neither delivered twice nor  *)
(* stopped after the creation, the job is in one place, the enrollments of *)
(* the run are created once, and they are the ones that are counted.       *)
(***************************************************************************)
Created(r) == {e \in Enrollments : origin[e] = EnrollJob(r)}

Handles(p, r) == job[p] = EnrollJob(r)

RunCounted(r) ==
    /\ queue[EnrollJob(r)] <= 1
    /\ queue[EnrollJob(r)] = 1 => Created(r) = {} /\ \A p \in Processes : ~Handles(p, r)
    /\ \A p, q \in Processes : Handles(p, r) /\ Handles(q, r) => p = q
    /\ \A p \in Processes : Handles(p, r) =>
          /\ pc[p] = "check" => Created(r) = {}
          /\ pc[p] = "count" => Created(r) = made[p]
    /\ (\A p \in Processes : ~(Handles(p, r) /\ pc[p] = "count"))
          => enrolledCount[r] = Cardinality(Created(r))
    /\ r \notin started =>
          /\ queue[EnrollJob(r)] = 0 /\ Created(r) = {}
          /\ \A p \in Processes : ~Handles(p, r)

CountInv == \A r \in Runs : r \notin halted => RunCounted(r)

\* A process moves on with the job of the run, ends it or does something else.
Passes(q, r) ==
    \/ pc'[q] = pc[q] /\ job'[q] = job[q] /\ made'[q] = made[q]
    \/ job[q] # EnrollJob(r) /\ job'[q] # EnrollJob(r)
    \/ pc[q] # "count" /\ (job'[q] # EnrollJob(r) \/ (job[q] = job'[q] /\ pc'[q] \notin {"check", "count"}))

LEMMA CountFrame ==
    ASSUME NEW r \in Runs, RunCounted(r), queue'[EnrollJob(r)] = queue[EnrollJob(r)],
           Created(r)' = Created(r), enrolledCount'[r] = enrolledCount[r],
           r \in started' <=> r \in started, \A q \in Processes : Passes(q, r)
    PROVE  RunCounted(r)'
<1>1. \A q \in Processes :
         /\ Handles(q, r)' => Handles(q, r)
         /\ Handles(q, r)' /\ pc'[q] = "check" => pc[q] = "check"
         /\ Handles(q, r)' /\ pc'[q] = "count" => pc[q] = "count" /\ made'[q] = made[q]
         /\ Handles(q, r) /\ pc[q] = "count" => Handles(q, r)' /\ pc'[q] = "count"
  BY DEF Handles, Passes, EnrollJob
<1> DEFINE C == Created(r)
<1> HIDE DEF C
<1>2. Created(r)' = C /\ Created(r) = C
  BY DEF C
<1>3. queue'[EnrollJob(r)] <= 1
  BY DEF RunCounted
<1>4. queue'[EnrollJob(r)] = 1 => C = {} /\ \A p \in Processes : ~Handles(p, r)'
  BY <1>1, <1>2 DEF RunCounted
<1>5. \A p, q \in Processes : Handles(p, r)' /\ Handles(q, r)' => p = q
  BY <1>1 DEF RunCounted
<1>6. \A p \in Processes : Handles(p, r)' =>
          /\ pc'[p] = "check" => C = {}
          /\ pc'[p] = "count" => C = made'[p]
  BY <1>1, <1>2 DEF RunCounted
<1>7. (\A p \in Processes : ~(Handles(p, r)' /\ pc'[p] = "count"))
          => enrolledCount'[r] = Cardinality(C)
  BY <1>1, <1>2 DEF RunCounted
<1>8. r \notin started' =>
          /\ queue'[EnrollJob(r)] = 0 /\ C = {}
          /\ \A p \in Processes : ~Handles(p, r)'
  BY <1>1, <1>2 DEF RunCounted
<1>9. QED
  BY <1>2, <1>3, <1>4, <1>5, <1>6, <1>7, <1>8 DEF RunCounted, EnrollJob

\* The part of a step that concerns a run, when no other job of it is published.
SameRun(r) ==
    /\ UNCHANGED <<origin, started>> /\ enrolledCount'[r] = enrolledCount[r]
    /\ queue'[EnrollJob(r)] = queue[EnrollJob(r)]

LEMMA SameCreated == ASSUME NEW r, UNCHANGED origin PROVE Created(r)' = Created(r)
BY DEF Created, EnrollJob

LEMMA CountOutside ==
    ASSUME NEW r \in Runs, RunCounted(r), SameRun(r), UNCHANGED <<pc, job, made>>
    PROVE  RunCounted(r)'
BY SameCreated, CountFrame DEF SameRun, Passes

LEMMA CountTurn ==
    ASSUME BaseInv, NEW r \in Runs, RunCounted(r), SameRun(r), NEW p \in Processes,
           NEW step, NEW j, NEW x, NEW m, Turn(p, step, j, x, m),
           \/ job[p] # EnrollJob(r) /\ j # EnrollJob(r)
           \/ pc[p] # "count" /\ (j # EnrollJob(r) \/ (j = job[p] /\ step \notin {"check", "count"}))
    PROVE  RunCounted(r)'
<1>1. \A q \in Processes : Passes(q, r)
  BY Turned DEF Passes, BaseInv
<1>2. QED
  BY <1>1, SameCreated, CountFrame DEF SameRun

LEMMA CountFinish ==
    ASSUME BaseInv, NEW r \in Runs, RunCounted(r), SameRun(r), NEW p \in Processes,
           Finish(p), pc[p] # "count"
    PROVE  RunCounted(r)'
<1>1. PICK step \in {"idle", "returned"} : Turn(p, step, NoJob, NoRow, {})
  BY FinishTurns
<1>2. NoJob # EnrollJob(r)
  BY EnrollJobKinds
<1>3. QED
  BY <1>1, <1>2, CountTurn

LEMMA CountContinue ==
    ASSUME BaseInv, NEW r \in Runs, RunCounted(r), SameRun(r), NEW p \in Processes,
           NEW step, step \notin {"check", "count"}, Continue(p, step), pc[p] # "count"
    PROVE  RunCounted(r)'
<1>1. Turn(p, step, job[p], row[p], made[p])
  BY ContinueTurns DEF BaseInv
<1>2. QED
  BY <1>1, CountTurn

LEMMA EnvironmentCount ==
    ASSUME BaseInv, NEW r \in Runs, RunCounted(r)
    PROVE  /\ \A s \in Runs : StartRun(s) \/ StartRunStops(s) => RunCounted(r)'
           /\ \A b \in BOOLEAN : SetPaused(b) => RunCounted(r)'
           /\ \A c \in Contacts : Unsubscribe(c) \/ Leave(c) \/ RequestStops(c) \/ LoseAddress(c)
                                     => RunCounted(r)'
           /\ \A y \in Rows : \A m \in Messages : \A t \in Reports :
                 Report(y, m, t) => RunCounted(r)'
<1>0. TablesOK /\ EnrollJob(r) \in Jobs
  BY EnrollJobKinds DEF BaseInv
<1>1. ASSUME NEW s \in Runs, StartRun(s) \/ StartRunStops(s)
      PROVE  RunCounted(r)'
  <2>1. /\ UNCHANGED <<origin, enrolledCount, pc, job, made>>
        /\ s \notin started /\ started' = started \cup {s}
        /\ Q!Publish(EnrollJob(s)) \/ UNCHANGED queue
    BY <1>1 DEF StartRun, StartRunStops, EnrollJob, enrollments, view, roster
  <2>2. CASE s = r
    <3>1. /\ queue[EnrollJob(r)] = 0 /\ Created(r) = {}
          /\ \A p \in Processes : ~Handles(p, r)
          /\ enrolledCount[r] = Cardinality(Created(r))
      BY <2>1, <2>2 DEF RunCounted
    <3>2. queue'[EnrollJob(r)] \in {0, 1}
      BY <1>0, <2>1, <2>2, <3>1, WaitingJobs
    <3>3. Created(r)' = Created(r) /\ \A p \in Processes : ~Handles(p, r)'
      BY <2>1, <3>1, SameCreated DEF Handles, EnrollJob
    <3>4. enrolledCount'[r] = Cardinality(Created(r)')
      BY <2>1, <3>1, <3>3
    <3>5. r \in started'
      BY <2>1, <2>2
    <3>6. QED
      BY <3>1, <3>2, <3>3, <3>4, <3>5 DEF RunCounted, EnrollJob
  <2>3. CASE s # r
    <3>1. queue'[EnrollJob(r)] = queue[EnrollJob(r)]
      BY <1>0, <2>1, <2>3, EnrollJobKinds, WaitingJobs
    <3>2. r \in started' <=> r \in started
      BY <2>1, <2>3
    <3>3. QED
      BY <2>1, <3>1, <3>2, SameCreated, CountFrame DEF Passes
  <2>4. QED
    BY <2>2, <2>3
<1>2. (\E b \in BOOLEAN : SetPaused(b))
         \/ (\E c \in Contacts : Unsubscribe(c) \/ Leave(c) \/ RequestStops(c) \/ LoseAddress(c))
         => UNCHANGED <<origin, enrolledCount, started, queue, pc, job, made>>
  BY DEF SetPaused, Unsubscribe, Leave, RequestStops, LoseAddress, enrollments, sequence,
     view, roster
<1>3. UNCHANGED <<origin, enrolledCount, started, queue, pc, job, made>> => RunCounted(r)'
  BY CountOutside DEF SameRun
<1>4. ASSUME NEW y \in Rows, NEW m \in Messages, NEW t \in Reports, Report(y, m, t)
      PROVE  RunCounted(r)'
  <2>1. UNCHANGED <<origin, enrolledCount, started, pc, job, made>>
        /\ Q!Publish(<<"process-delivery-events", y, m, t>>)
    BY <1>4 DEF Report, database, enrollments, sequence, view, roster
  <2>2. <<"process-delivery-events", y, m, t>> \in ReportJobs
    BY DEF ReportJobs
  <2>3. queue'[EnrollJob(r)] = queue[EnrollJob(r)]
    BY <1>0, <2>1, <2>2, JobSets, EnrollJobKinds, WaitingJobs
  <2>4. QED
    BY <2>1, <2>3, CountOutside DEF SameRun
<1>5. QED
  BY <1>1, <1>2, <1>3, <1>4

LEMMA BeginCount ==
    ASSUME BaseInv, NEW r \in Runs, RunCounted(r), NEW w \in Processes
    PROVE  /\ Begin(w) => RunCounted(r)'
           /\ \A S \in SUBSET Contacts : Call(w, S) => RunCounted(r)'
<1>0. TablesOK /\ ProcessesOK /\ EnrollJob(r) \in Jobs
  BY EnrollJobKinds DEF BaseInv
<1>1. pc[w] = "idle" => ~Handles(w, r)
  BY EnrollJobKinds DEF BaseInv, Hands, Holds, Handles
<1>2. ASSUME UNCHANGED database, NEW k \in Jobs \ {EnrollJob(r)}, Q!Take(k) \/ UNCHANGED queue
      PROVE  SameRun(r)
  BY <1>0, <1>2, WaitingJobs DEF SameRun, database, enrollments, sequence
<1>3. ASSUME NEW s \in Runs, BeginEnroll(w, s)
      PROVE  RunCounted(r)'
  <2>1. EnrollJob(s) \in Jobs /\ Q!Take(EnrollJob(s)) /\ UNCHANGED database /\ pc[w] = "idle"
        /\ Turn(w, "check", EnrollJob(s), row[w], made[w])
    BY <1>0, <1>3, EnrollJobKinds DEF BeginEnroll, StartEnrolling, Goto, Turn, view,
       EnrollJob, ProcessesOK
  <2>2. CASE s # r
    BY <1>1, <1>2, <2>1, <2>2, EnrollJobKinds, CountTurn DEF Handles
  <2>3. CASE s = r
    <3>1. queue[EnrollJob(r)] = 1 /\ queue'[EnrollJob(r)] = 0
      <4>1. queue[EnrollJob(r)] \in Nat /\ queue[EnrollJob(r)] > 0
            /\ queue'[EnrollJob(r)] = queue[EnrollJob(r)] - 1
        BY <1>0, <2>1, <2>3, WaitingJobs
      <4>2. QED
        BY <4>1 DEF RunCounted
    <3>2. Created(r) = {} /\ (\A p \in Processes : ~Handles(p, r)) /\ r \in started
          /\ enrolledCount[r] = Cardinality(Created(r))
      BY <3>1 DEF RunCounted
    <3>3. Created(r)' = Created(r) /\ enrolledCount' = enrolledCount /\ started' = started
      BY <2>1, SameCreated DEF database, enrollments, sequence
    <3>4. pc'[w] = "check" /\ \A p \in Processes : Handles(p, r)' => p = w
      BY <1>0, <2>1, <2>3, <3>2, Turned DEF Handles, EnrollJob
    <3>5. QED
      BY <3>1, <3>2, <3>3, <3>4 DEF RunCounted, EnrollJob
  <2>4. QED
    BY <2>2, <2>3
<1>4. ASSUME NEW S \in SUBSET Contacts, Call(w, S)
      PROVE  RunCounted(r)'
  <2>1. UNCHANGED <<database, queue>> /\ pc[w] = "idle" /\ Turn(w, "check", job[w], row[w], made[w])
    BY <1>0, <1>4 DEF Call, StartEnrolling, Goto, Turn, view, ProcessesOK
  <2>2. SameRun(r)
    BY <2>1 DEF SameRun, database, enrollments, sequence
  <2>3. QED
    BY <1>1, <2>1, <2>2, CountTurn DEF Handles
<1>5. ASSUME NEW d \in Enrollments, BeginSchedule(w, d)
      PROVE  RunCounted(r)'
  <2>1. ScheduleJob(d) \in Jobs /\ Q!Take(ScheduleJob(d)) /\ UNCHANGED database /\ pc[w] = "idle"
        /\ Turn(w, "loadNext", ScheduleJob(d), row[w], made[w])
    BY <1>0, <1>5, ScheduleJobKinds DEF BeginSchedule, Goto, Turn, view, roster,
       ScheduleJob, ProcessesOK
  <2>2. ScheduleJob(d) # EnrollJob(r)
    BY ScheduleJobKinds, EnrollJobKinds
  <2>3. QED
    BY <1>1, <1>2, <2>1, <2>2, CountTurn DEF Handles
<1>6. ASSUME NEW y \in Rows, BeginSend(w, y)
      PROVE  RunCounted(r)'
  <2>1. SendJob(y) \in Jobs /\ Q!Take(SendJob(y)) /\ UNCHANGED database /\ pc[w] = "idle"
        /\ Turn(w, "load", SendJob(y), y, made[w])
    BY <1>0, <1>6, JobKinds DEF BeginSend, Goto, Turn, roster, SendJob, ProcessesOK
  <2>2. SendJob(y) # EnrollJob(r)
    BY JobKinds, EnrollJobKinds
  <2>3. QED
    BY <1>1, <1>2, <2>1, <2>2, CountTurn DEF Handles
<1>7. ASSUME NEW y \in Rows, NEW n \in Messages, NEW t \in Reports, BeginReport(w, y, n, t)
      PROVE  RunCounted(r)'
  <2> DEFINE j == <<"process-delivery-events", y, n, t>>
  <2>1. j \in ReportJobs /\ j \in Jobs
    BY DEF ReportJobs, Jobs
  <2>2. Q!Take(j) /\ UNCHANGED database /\ pc[w] = "idle" /\ Turn(w, "match", j, y, made[w])
    BY <1>0, <1>7 DEF BeginReport, Goto, Turn, roster, ProcessesOK
  <2>3. j # EnrollJob(r)
    BY <2>1, EnrollJobKinds
  <2> HIDE DEF j
  <2>4. QED
    BY <1>1, <1>2, <2>1, <2>2, <2>3, CountTurn DEF Handles
<1>8. QED
  BY <1>3, <1>4, <1>5, <1>6, <1>7 DEF Begin

\* The enrolling itself.  Only the process that handles the job of the run creates
\* enrollments for it, and it counts what it has made.
LEMMA CreateCount ==
    ASSUME BaseInv, FreshInv, NEW r \in Runs, RunCounted(r), NEW p \in Processes, Create(p)
    PROVE  RunCounted(r)'
<1> DEFINE eligible == {c \in Contacts : checks[p][c] = "eligible"}
           new == {e \in Enrollments : Contact(e) \in eligible /\ Unused(e)}
<1>0. /\ TablesOK /\ ProcessesOK /\ EnrollJob(r) \in Jobs /\ EnrollJob(r) \in EnrollJobs
      /\ NoJob # EnrollJob(r)
  BY EnrollJobKinds DEF BaseInv
<1>1. UNCHANGED <<queue, started>> /\ pc[p] = "check"
  BY DEF Create, sequence
<1>2. CASE Finish(p) /\ UNCHANGED origin
           /\ enrolledCount' = IF job[p] \in EnrollJobs
                               THEN [enrolledCount EXCEPT ![job[p][2]] = 0] ELSE enrolledCount
  <2>1. CASE ~Handles(p, r)
    <3>1. job[p] \in EnrollJobs => job[p][2] # r
      BY <2>1, KindsOfJobs DEF EnrollJob, Handles
    <3>2. SameRun(r)
      BY <1>0, <1>1, <1>2, <3>1 DEF SameRun, TablesOK
    <3>3. QED
      BY <1>1, <1>2, <3>2, CountFinish
  <2>2. CASE Handles(p, r)
    <3>1. Created(r) = {} /\ queue[EnrollJob(r)] # 1 /\ r \in started
          /\ \A q \in Processes \ {p} : ~Handles(q, r)
      BY <1>1, <2>2 DEF RunCounted
    <3>2. enrolledCount'[r] = 0
      BY <1>0, <1>2, <2>2 DEF Handles, EnrollJob, TablesOK
    <3>3. Created(r)' = {}
      BY <1>2, <3>1, SameCreated
    <3>4. \A q \in Processes : ~Handles(q, r)'
      BY <1>0, <1>2, <3>1 DEF Finish, Handles, EnrollJob, ProcessesOK
    <3>5. queue'[EnrollJob(r)] <= 1 /\ queue'[EnrollJob(r)] # 1
      BY <1>1, <3>1 DEF RunCounted
    <3>6. enrolledCount'[r] = Cardinality(Created(r)')
      BY <3>2, <3>3, FS_EmptySet
    <3>7. QED
      BY <1>1, <3>1, <3>3, <3>4, <3>5, <3>6 DEF RunCounted, EnrollJob
  <2>3. QED
    BY <2>1, <2>2
<1>3. ASSUME origin' = [e \in Enrollments |-> IF e \in new THEN job[p] ELSE origin[e]],
             made' = [made EXCEPT ![p] = new], UNCHANGED <<job, view, enrolledCount>>,
             Goto(p, IF job[p] \in EnrollJobs THEN "count" ELSE "first")
      PROVE  RunCounted(r)'
  <2>1. \A e \in new : e \in Enrollments /\ origin[e] = NoJob
    BY DEF Unused, FreshInv
  <2>2. Turn(p, IF job[p] \in EnrollJobs THEN "count" ELSE "first", job[p], row[p], new)
    BY <1>0, <1>3 DEF Turn, Goto, view, ProcessesOK
  <2>3. CASE ~Handles(p, r)
    <3>1. Created(r)' = Created(r)
      <4>1. \A e \in Enrollments : origin'[e] = EnrollJob(r) <=> origin[e] = EnrollJob(r)
        BY <1>0, <1>3, <2>1, <2>3 DEF Handles
      <4>2. QED
        BY <4>1 DEF Created, EnrollJob
    <3>2. \A q \in Processes : Passes(q, r)
      BY <1>0, <2>2, <2>3, Turned DEF Passes, Handles
    <3>3. QED
      BY <1>1, <1>3, <3>1, <3>2, CountFrame
  <2>4. CASE Handles(p, r)
    <3>1. Created(r) = {} /\ queue[EnrollJob(r)] # 1 /\ queue[EnrollJob(r)] <= 1 /\ r \in started
          /\ \A q \in Processes \ {p} : ~Handles(q, r)
      BY <1>1, <2>4 DEF RunCounted
    <3>2. Created(r)' = new
      <4>1. \A e \in Enrollments : origin'[e] = EnrollJob(r) <=> e \in new
        BY <1>3, <2>4, <3>1 DEF Handles, Created
      <4>2. QED
        BY <4>1 DEF Created, EnrollJob
    <3>3. pc'[p] = "count" /\ made'[p] = new /\ Handles(p, r)'
          /\ \A q \in Processes \ {p} : ~Handles(q, r)'
      BY <1>0, <2>2, <2>4, <3>1, Turned DEF Handles, EnrollJob
    <3> HIDE DEF new
    <3>4. QED
      BY <1>1, <3>1, <3>2, <3>3 DEF RunCounted, EnrollJob
  <2>5. QED
    BY <2>3, <2>4
<1>4. QED
  BY <1>2, <1>3 DEF Create

LEMMA EnrollCount ==
    ASSUME BaseInv, FreshInv, NEW r \in Runs, RunCounted(r), NEW p \in Processes
    PROVE  /\ \A c \in Contacts : CheckPreference(p, c) \/ CheckEnrolled(p, c) => RunCounted(r)'
           /\ Create(p) \/ Count(p) \/ EnrollDone(p) => RunCounted(r)'
           /\ \A e \in Enrollments : FindFirst(p, e) => RunCounted(r)'
<1>0. TablesOK /\ ProcessesOK
  BY DEF BaseInv
<1>1. ASSUME NEW c \in Contacts, CheckPreference(p, c) \/ CheckEnrolled(p, c)
      PROVE  RunCounted(r)'
  <2>1. UNCHANGED <<origin, enrolledCount, started, queue, pc, job, made>>
    BY <1>1 DEF CheckPreference, CheckEnrolled, database, enrollments, sequence
  <2>2. QED
    BY <2>1, CountOutside DEF SameRun
<1>2. ASSUME Count(p)
      PROVE  RunCounted(r)'
  <2>1. /\ UNCHANGED <<origin, started, queue>> /\ pc[p] = "count" /\ job[p] \in EnrollJobs
        /\ enrolledCount' = [enrolledCount EXCEPT ![job[p][2]] = Cardinality(made[p])]
        /\ Turn(p, "first", job[p], row[p], made[p])
    BY <1>0, <1>2, ContinueTurns DEF Count, sequence, BaseInv, Hands, Holds
  <2>2. Created(r)' = Created(r)
    BY <2>1, SameCreated
  <2>3. CASE ~Handles(p, r)
    <3>1. job[p][2] # r
      BY <2>1, <2>3, KindsOfJobs DEF EnrollJob, Handles
    <3>2. SameRun(r)
      BY <1>0, <2>1, <3>1 DEF SameRun, TablesOK
    <3>3. QED
      BY <2>1, <2>3, <3>2, CountTurn DEF Handles
  <2>4. CASE Handles(p, r)
    <3>1. Created(r) = made[p] /\ queue[EnrollJob(r)] # 1 /\ queue[EnrollJob(r)] <= 1 /\ r \in started
          /\ \A q \in Processes \ {p} : ~Handles(q, r)
      BY <2>1, <2>4 DEF RunCounted
    <3>2. enrolledCount'[r] = Cardinality(Created(r))
      BY <1>0, <2>1, <2>4, <3>1 DEF Handles, EnrollJob, TablesOK
    <3>3. pc'[p] = "first" /\ \A q \in Processes \ {p} : ~Handles(q, r)'
      BY <1>0, <2>1, <3>1, Turned DEF Handles, EnrollJob
    <3>4. QED
      BY <2>1, <2>2, <3>1, <3>2, <3>3 DEF RunCounted, EnrollJob
  <2>5. QED
    BY <2>3, <2>4
<1>3. ASSUME EnrollDone(p)
      PROVE  RunCounted(r)'
  <2>1. SameRun(r) /\ pc[p] # "count" /\ Finish(p)
    BY <1>3 DEF EnrollDone, SameRun, database, enrollments, sequence
  <2>2. QED
    BY <2>1, CountFinish
<1>4. ASSUME NEW e \in Enrollments, FindFirst(p, e)
      PROVE  RunCounted(r)'
  <2>1. SameRun(r) /\ pc[p] = "first"
    BY <1>4 DEF FindFirst, SameRun, database, enrollments, sequence
  <2>2. PICK step \in {"insert", "first"} : Turn(p, step, job[p], <<e, 1>>, made[p] \ {e})
    BY <1>0, <1>4 DEF FindFirst, Goto, Turn, ProcessesOK
  <2>3. QED
    BY <2>1, <2>2, CountTurn
<1>5. QED
  BY <1>1, <1>2, <1>3, <1>4, CreateCount

LEMMA HandlersCount ==
    ASSUME BaseInv, FreshInv, NEW r \in Runs, RunCounted(r), NEW p \in Processes
    PROVE  /\ LoadNext(p) \/ Find(p) \/ Insert(p) \/ Publish(p) => RunCounted(r)'
           /\ Load(p) \/ LoadEnrollment(p) \/ LoadSequence(p) => RunCounted(r)'
           /\ CheckBars(p) \/ MarkSkipped(p) \/ ExitEnrollment(p) => RunCounted(r)'
           /\ Mail(p) \/ MarkSent(p) \/ Advance(p) \/ EnqueueNext(p) => RunCounted(r)'
           /\ Match(p) \/ MarkReported(p) \/ Suppress(p) \/ ExitSuppressed(p) => RunCounted(r)'
<1>0. TablesOK /\ ProcessesOK /\ EnrollJob(r) \in Jobs
  BY EnrollJobKinds DEF BaseInv
<1>1. UNCHANGED <<origin, started, enrolledCount, queue>> => SameRun(r)
  BY DEF SameRun
<1>2. ASSUME LoadNext(p)
      PROVE  RunCounted(r)'
  <2>1. SameRun(r) /\ pc[p] = "loadNext"
    BY <1>1, <1>2 DEF LoadNext, database, enrollments, sequence
  <2>2. ASSUME NEW x, row' = [row EXCEPT ![p] = x], Goto(p, "find"), UNCHANGED <<job, roster>>
        PROVE  RunCounted(r)'
    <3>1. Turn(p, "find", job[p], x, made[p])
      BY <1>0, <2>2 DEF Turn, Goto, roster, ProcessesOK
    <3>2. QED
      BY <2>1, <3>1, CountTurn
  <2>3. QED
    BY <1>2, <2>1, <2>2, CountFinish DEF LoadNext
<1>3. ASSUME Find(p)
      PROVE  RunCounted(r)'
  <2>1. SameRun(r) /\ pc[p] = "find"
    BY <1>1, <1>3 DEF Find, database, enrollments, sequence
  <2>2. QED
    BY <1>3, <2>1, CountFinish, CountContinue DEF Find
<1>4. ASSUME Insert(p)
      PROVE  RunCounted(r)'
  <2>1. UNCHANGED <<origin, started, enrolledCount>> /\ pc[p] = "insert"
    BY <1>4 DEF Insert, enrollments, sequence
  <2>2. CASE UNCHANGED queue /\ Continue(p, "publish")
    BY <1>1, <2>1, <2>2, CountContinue
  <2>3. CASE send[row[p]] # "none" /\ Stop(p)
    <3>1. job[p] \in ScheduleJobs
      BY <2>1, <2>3, EnrollerInserts
    <3>2. queue'[EnrollJob(r)] = queue[EnrollJob(r)]
      BY <1>0, <2>3, <3>1, JobSets, EnrollJobKinds, WaitingJobs DEF Stop
    <3>3. QED
      BY <2>1, <2>3, <3>2, CountFinish DEF Stop, SameRun
  <2>4. QED
    BY <1>4, <2>2, <2>3 DEF Insert
<1>5. ASSUME Publish(p)
      PROVE  RunCounted(r)'
  <2>1. UNCHANGED <<origin, started, enrolledCount>> /\ pc[p] = "publish" /\ row[p] \in Rows
        /\ Q!Publish(SendJob(row[p]))
    BY <1>5 DEF Publish, database, enrollments, sequence, BaseInv, Hands, Holds, SendJob
  <2>2. queue'[EnrollJob(r)] = queue[EnrollJob(r)]
    BY <1>0, <2>1, JobKinds, EnrollJobKinds, WaitingJobs
  <2>3. QED
    BY <1>5, <2>1, <2>2, CountFinish, CountContinue DEF Publish, SameRun
<1>6. ASSUME Load(p)
      PROVE  RunCounted(r)'
  <2>1. SameRun(r) /\ pc[p] = "load"
    BY <1>1, <1>6 DEF Load, database, enrollments, sequence
  <2>2. QED
    BY <1>6, <2>1, CountContinue, CountFinish DEF Load
<1>12. ASSUME NEW step \in {"loadSequence", "bars"}, LoadEnrollment(p) \/ LoadSequence(p), Goto(p, step)
      PROVE  RunCounted(r)'
  <2>1. SameRun(r) /\ UNCHANGED <<job, row>> /\ roster' = roster
    BY <1>1, <1>12 DEF LoadEnrollment, LoadSequence, database, enrollments, sequence
  <2>2. pc[p] \in {"loadEnrollment", "loadSequence"}
    BY <1>12 DEF LoadEnrollment, LoadSequence
  <2>3. Turn(p, step, job[p], row[p], made[p])
    BY <1>0, <1>12, <2>1 DEF Goto, Turn, roster, ProcessesOK
  <2>4. QED
    BY <1>12, <2>1, <2>2, <2>3, CountTurn
<1>7. ASSUME CheckBars(p) \/ MarkSkipped(p) \/ ExitEnrollment(p) \/ MarkSent(p) \/ Advance(p)
      PROVE  RunCounted(r)'
  <2>1. SameRun(r) /\ pc[p] # "count"
    BY <1>1, <1>7 DEF CheckBars, MarkSkipped, ExitEnrollment, MarkSent, Advance, database,
       enrollments, sequence
  <2>2. Finish(p) \/ \E step \in SendSteps : Continue(p, step)
    BY <1>7 DEF CheckBars, MarkSkipped, ExitEnrollment, MarkSent, Advance, SendSteps
  <2>3. QED
    BY <2>1, <2>2, CountFinish, CountContinue DEF SendSteps
<1>8. ASSUME Mail(p)
      PROVE  RunCounted(r)'
  <2>1. SameRun(r) /\ pc[p] = "mail" /\ Turn(p, "markSent", job[p], row[p], made[p])
    BY <1>0, <1>1, <1>8 DEF Mail, database, enrollments, sequence, Goto, Turn, roster, ProcessesOK
  <2>2. QED
    BY <2>1, CountTurn
<1>9. ASSUME EnqueueNext(p)
      PROVE  RunCounted(r)'
  <2>1. UNCHANGED <<origin, started, enrolledCount>> /\ pc[p] = "enqueueNext" /\ row[p] \in Rows
        /\ Finish(p) /\ Q!Publish(ScheduleJob(row[p][1]))
    BY <1>9 DEF EnqueueNext, database, enrollments, sequence, BaseInv, Hands, Holds, SendSteps,
       ScheduleJob
  <2>2. queue'[EnrollJob(r)] = queue[EnrollJob(r)]
    BY <1>0, <2>1, RowParts, ScheduleJobKinds, EnrollJobKinds, WaitingJobs
  <2>3. QED
    BY <2>1, <2>2, CountFinish DEF SameRun
<1>10. ASSUME Match(p) \/ MarkReported(p) \/ Suppress(p) \/ ExitSuppressed(p)
      PROVE  RunCounted(r)'
  <2>1. SameRun(r) /\ pc[p] # "count"
    BY <1>1, <1>10 DEF Match, MarkReported, Suppress, ExitSuppressed, database,
       enrollments, sequence
  <2>2. Finish(p) \/ \E step \in ReportSteps : Continue(p, step)
    BY <1>10 DEF Match, MarkReported, Suppress, ExitSuppressed, ReportSteps
  <2>3. QED
    BY <2>1, <2>2, CountFinish, CountContinue DEF ReportSteps
<1>11. QED
  BY <1>2, <1>3, <1>4, <1>5, <1>6, <1>7, <1>8, <1>9, <1>10, <1>12 DEF LoadEnrollment, LoadSequence

\* A process with the job of a run checks contacts or goes on after the creation.
LEMMA EnrollerSteps ==
    ASSUME BaseInv, FreshInv, NEW r \in Runs, NEW p \in Processes, Handles(p, r), pc[p] \in Busy
    PROVE  pc[p] \in {"check"} \cup AfterCreate
<1>1. job[p] \notin ScheduleJobs \cup ReportJobs \cup SendJobs /\ job[p] # NoJob
  BY EnrollJobKinds DEF Handles
<1>2. pc[p] \notin SendSteps
  BY <1>1, RowParts DEF BaseInv, Hands, Holds, SendJobs
<1>3. pc[p] \notin ReportSteps /\ pc[p] # "loadNext" /\ pc[p] # "find"
  BY <1>1 DEF BaseInv, Hands, Holds, FreshInv, EnrollHolds
<1>4. QED
  BY <1>2, <1>3 DEF Busy, EnrollSteps, ScheduleSteps, AfterCreate

LEMMA MishapCount ==
    ASSUME BaseInv, FreshInv, NEW r \in Runs, RunCounted(r), r \notin halted', GoesWrong
    PROVE  RunCounted(r)'
<1>0. TablesOK /\ ProcessesOK /\ EnrollJob(r) \in Jobs
  BY EnrollJobKinds DEF BaseInv
<1>1. ASSUME NEW p \in Processes, Interrupt(p)
      PROVE  RunCounted(r)'
  <2>1. /\ UNCHANGED <<origin, started, enrolledCount>> /\ pc[p] \in Busy /\ Stop(p)
        /\ r \notin CutOff(p)
    BY <1>1 DEF Interrupt, database, enrollments, sequence
  <2>2. CASE ~Handles(p, r)
    <3>1. queue'[EnrollJob(r)] = queue[EnrollJob(r)]
      BY <1>0, <2>1, <2>2, WaitingJobs DEF Stop, Handles
    <3>2. PICK step \in {"idle", "returned"} : Turn(p, step, NoJob, NoRow, {})
      BY <2>1, FinishTurns DEF Stop
    <3>3. NoJob # EnrollJob(r)
      BY EnrollJobKinds
    <3>4. QED
      BY <2>1, <2>2, <3>1, <3>2, <3>3, CountTurn DEF SameRun, Handles
  <2>3. CASE Handles(p, r)
    <3>1. pc[p] = "check"
      <4>1. pc[p] \in AfterCreate => r \in CutOff(p)
        BY <2>3 DEF CutOff, EnrollingRun, Handles, EnrollJob
      <4>2. QED
        BY <2>1, <2>3, <4>1, EnrollerSteps
    <3>2. /\ Created(r) = {} /\ queue[EnrollJob(r)] <= 1 /\ queue[EnrollJob(r)] # 1 /\ r \in started
          /\ enrolledCount[r] = Cardinality(Created(r))
          /\ \A q \in Processes \ {p} : ~Handles(q, r)
      BY <2>3, <3>1 DEF RunCounted
    <3>3. queue'[EnrollJob(r)] <= 1
      <4>1. Q!GiveBack(EnrollJob(r))
        BY <1>0, <2>1, <2>3 DEF Stop, Handles
      <4>2. queue[EnrollJob(r)] = 0
        BY <1>0, <3>2, WaitingJobs
      <4>3. QED
        BY <1>0, <4>1, <4>2, WaitingJobs DEF Q!GiveBack
    <3>4. \A q \in Processes : ~Handles(q, r)'
      <4>1. NoJob # EnrollJob(r)
        BY EnrollJobKinds
      <4>2. QED
        BY <1>0, <2>1, <3>2, <4>1 DEF Stop, Finish, Handles, EnrollJob, ProcessesOK
    <3>5. Created(r)' = Created(r)
      BY <2>1, SameCreated
    <3>6. QED
      BY <2>1, <3>2, <3>3, <3>4, <3>5 DEF RunCounted, EnrollJob
  <2>4. QED
    BY <2>2, <2>3
<1>2. ASSUME NEW w \in Processes, Redeliver(w)
      PROVE  RunCounted(r)'
  <2>1. /\ UNCHANGED <<origin, started, enrolledCount, pc, job, made>>
        /\ Q!Publish(job[w]) /\ job[w] \in Jobs /\ r \notin EnrollingRun(w)
    BY <1>2 DEF Redeliver, database, enrollments, sequence, view, roster
  <2>2. job[w] # EnrollJob(r)
    BY <2>1 DEF EnrollingRun, EnrollJob
  <2>3. queue'[EnrollJob(r)] = queue[EnrollJob(r)]
    BY <1>0, <2>1, <2>2, WaitingJobs
  <2>4. QED
    BY <2>1, <2>3, CountOutside DEF SameRun
<1>3. ASSUME NEW j \in Jobs, Drain(j)
      PROVE  RunCounted(r)'
  <2>1. UNCHANGED <<origin, started, enrolledCount, pc, job, made>> /\ Q!Take(j)
    BY <1>3 DEF Drain, Q!Drain, database, enrollments, sequence, view, roster
  <2>2. CASE j # EnrollJob(r)
    <3>1. queue'[EnrollJob(r)] = queue[EnrollJob(r)]
      BY <1>0, <2>1, <2>2, WaitingJobs
    <3>2. QED
      BY <2>1, <3>1, CountOutside DEF SameRun
  <2>3. CASE j = EnrollJob(r)
    <3>1. queue[EnrollJob(r)] \in Nat /\ queue[EnrollJob(r)] > 0
          /\ queue'[EnrollJob(r)] = queue[EnrollJob(r)] - 1
      BY <1>0, <2>1, <2>3, WaitingJobs
    <3>2. queue[EnrollJob(r)] = 1 /\ queue'[EnrollJob(r)] = 0
      BY <3>1 DEF RunCounted
    <3>3. Created(r)' = Created(r) /\ \A q \in Processes : Handles(q, r)' <=> Handles(q, r)
      BY <2>1, SameCreated DEF Handles, EnrollJob
    <3>4. Created(r) = {} /\ (\A q \in Processes : ~Handles(q, r)) /\ r \in started
          /\ enrolledCount[r] = Cardinality(Created(r))
      BY <3>2 DEF RunCounted
    <3>5. QED
      BY <2>1, <3>2, <3>3, <3>4 DEF RunCounted, EnrollJob
  <2>4. QED
    BY <2>2, <2>3
<1>4. QED
  BY <1>1, <1>2, <1>3, EnvironmentCount DEF GoesWrong, Processes

LEMMA InitCount ==
    ASSUME Init
    PROVE  CountInv
<1>1. ASSUME NEW r \in Runs
      PROVE  RunCounted(r)
  <2>1. queue[EnrollJob(r)] = 0 /\ enrolledCount[r] = 0 /\ \A p \in Processes : ~Handles(p, r)
    BY EnrollJobKinds DEF Init, Q!Empty, Handles
  <2>2. Created(r) = {}
    BY EnrollJobKinds DEF Init, Created
  <2>3. QED
    BY <2>1, <2>2, FS_EmptySet DEF RunCounted
<1>2. QED
  BY <1>1 DEF CountInv

LEMMA StepCount ==
    ASSUME BaseInv, FreshInv, CountInv, [Next]_vars
    PROVE  CountInv'
<1>1. SUFFICES ASSUME NEW r \in Runs, r \notin halted'
               PROVE  RunCounted(r)'
  BY DEF CountInv
<1>2. RunCounted(r)
  BY <1>1, RiskStays DEF CountInv
<1>3. CASE Work
  BY <1>2, <1>3, BeginCount, EnrollCount, HandlersCount DEF Work, Step
<1>4. CASE Environment
  BY <1>2, <1>4, EnvironmentCount, BeginCount DEF Environment, Processes
<1>5. CASE GoesWrong
  BY <1>1, <1>2, <1>5, MishapCount
<1>6. CASE UNCHANGED vars
  <2>1. UNCHANGED <<origin, started, enrolledCount, queue, pc, job, made>>
    BY <1>6 DEF vars, database, enrollments, sequence, view, roster
  <2>2. QED
    BY <1>2, <2>1, CountOutside DEF SameRun
<1>7. QED
  BY <1>3, <1>4, <1>5, <1>6 DEF Next

\* enrollSegmentSnapshot writes down how many contacts a run has enrolled, and the
\* number is right when its job is done: whatever other runs and callers enroll at the
\* same time, whatever is lost, and although the job itself is retried, as long as it is
\* not retried after the enrollments were created or delivered twice.
THEOREM CountsWhatItEnrolled == Spec => []CountIsRight
<1>1. BaseInv /\ CountInv => CountIsRight
  <2>1. SUFFICES ASSUME BaseInv, CountInv, NEW r \in started \ halted,
                        \A p \in Processes : job[p] # EnrollJob(r)
                 PROVE  enrolledCount[r] = Cardinality(Created(r))
    BY DEF CountIsRight, EnrollJob, Created
  <2>2. RunCounted(r)
    BY <2>1 DEF BaseInv, TablesOK, CountInv
  <2>3. QED
    BY <2>1, <2>2 DEF RunCounted, Handles
<1>2. CountInv /\ [Next]_vars /\ BaseInv /\ FreshInv => CountInv'
  BY StepCount
<1>3. Init => CountInv
  BY InitCount
<1>4. QED
  BY <1>1, <1>2, <1>3, BaseInvariant, FreshInvariant, PTL DEF Spec

===============================================================================
