------------------------- MODULE CampaignsOnceProofs -------------------------
(***************************************************************************)
(* Theorems about Campaigns: a step is mailed once, save for the rows that *)
(* a second delivery or a stop before the mark has put at risk, and the    *)
(* status of a step send says whether it was mailed.                       *)
(*                                                                         *)
(* The right to mail a pending row is a token: it is born with the row in  *)
(* the hands of the process that is to publish the job, waits with the job *)
(* in the queue, and is held by the worker that takes the job until the    *)
(* row is no longer pending.                                               *)
(***************************************************************************)
EXTENDS CampaignsProofs

SendJob(x) == <<"send-step", x>>

Later == {"exit", "advance", "enqueueNext"}

Token(p, x) == row[p] = x /\ pc[p] \in {"publish"} \cup BeforeMark

OnceRow(x) ==
    /\ mails[x] <= 1
    /\ send[x] = "none" => queue[SendJob(x)] = 0 /\ \A p \in Processes : ~Token(p, x)
    /\ send[x] = "pending" =>
          /\ queue[SendJob(x)] <= 1
          /\ queue[SendJob(x)] = 1 => \A p \in Processes : ~Token(p, x)
          /\ \A p, q \in Processes : Token(p, x) /\ Token(q, x) => p = q
          /\ mails[x] > 0 => \E p \in Processes : row[p] = x /\ pc[p] = "markSent"
    /\ send[x] \notin Open =>
          \A p \in Processes : Token(p, x) => pc[p] \in {"publish", "load"}
    /\ send[x] = "skipped" => mails[x] = 0
    /\ \A p \in Processes : row[p] = x /\ pc[p] \in Later => send[x] \notin Open

OnceInv == \A x \in Rows : x \notin risked => OnceRow(x)

\* A process at a step with row r has nothing to do with mailing row x.
Uninvolved(step, r, x) == r = x => step \notin {"publish"} \cup BeforeMark \cup Later

LEMMA JobKinds ==
    ASSUME NEW x \in Rows
    PROVE  /\ SendJob(x) \in Jobs
           /\ SendJob(x) \notin EnrollJobs \cup ScheduleJobs \cup ReportJobs \cup {NoJob}
           /\ \A y : SendJob(y) = SendJob(x) => y = x
<1>1. SendJob(x) \in Jobs
  BY DEF SendJob, Jobs, SendJobs
<1>2. SendJob(x) # NoJob
  BY <1>1, NoneAssumption
<1>3. SendJob(x) \notin EnrollJobs /\ SendJob(x) \notin ScheduleJobs
  BY DEF SendJob, EnrollJobs, ScheduleJobs
<1>4. SendJob(x) \notin ReportJobs
  BY DEF SendJob, ReportJobs
<1>5. QED
  BY <1>1, <1>2, <1>3, <1>4 DEF SendJob

\* How publishing or taking a job changes the number of waiting jobs of a row.
LEMMA OtherJobs ==
    ASSUME TablesOK, NEW x \in Rows, NEW j \in Jobs, j # SendJob(x),
           Q!Publish(j) \/ Q!Take(j) \/ Q!GiveBack(j)
    PROVE  queue'[SendJob(x)] = queue[SendJob(x)]
BY JobKinds DEF TablesOK, Q!TypeOK, Q!Publish, Q!Take, Q!GiveBack

LEMMA OwnJobs ==
    ASSUME TablesOK, NEW x \in Rows
    PROVE  /\ queue[SendJob(x)] \in Nat
           /\ Q!Publish(SendJob(x)) => queue'[SendJob(x)] = queue[SendJob(x)] + 1
           /\ Q!Take(SendJob(x)) => /\ queue[SendJob(x)] > 0
                                    /\ queue'[SendJob(x)] = queue[SendJob(x)] - 1
BY JobKinds DEF TablesOK, Q!TypeOK, Q!Publish, Q!Take, Q!Waiting

\* The row is left alone, and whoever moves is done with it or never had to do
\* with it.
LEMMA OnceFrame ==
    ASSUME NEW x \in Rows, OnceRow(x), send'[x] = send[x], mails'[x] = mails[x],
           queue'[SendJob(x)] = queue[SendJob(x)],
           \A q \in Processes :
              \/ pc'[q] = pc[q] /\ row'[q] = row[q]
              \/ Uninvolved(pc'[q], row'[q], x) /\ ~(row[q] = x /\ pc[q] = "markSent")
    PROVE  OnceRow(x)'
<1>1. \A q \in Processes : Token(q, x)' => Token(q, x) /\ pc'[q] = pc[q]
  BY DEF Token, Uninvolved
<1>2. \A q \in Processes : row[q] = x /\ pc[q] = "markSent" =>
                              row'[q] = x /\ pc'[q] = "markSent"
  OBVIOUS
<1>3. \A q \in Processes : row'[q] = x /\ pc'[q] \in Later => row[q] = x /\ pc[q] \in Later
  BY DEF Uninvolved
<1>4. QED
  BY <1>1, <1>2, <1>3 DEF OnceRow

LEMMA OutsideOnce ==
    ASSUME NEW x \in Rows, OnceRow(x), UNCHANGED <<send, mails, pc, row>>,
           queue'[SendJob(x)] = queue[SendJob(x)]
    PROVE  OnceRow(x)'
BY OnceFrame

LEMMA MoveOnce ==
    ASSUME BaseInv, NEW x \in Rows, OnceRow(x), send'[x] = send[x], mails'[x] = mails[x],
           queue'[SendJob(x)] = queue[SendJob(x)],
           NEW p \in Processes, ~(row[p] = x /\ pc[p] = "markSent"),
           NEW step, NEW r, pc' = [pc EXCEPT ![p] = step], row' = [row EXCEPT ![p] = r],
           Uninvolved(step, r, x)
    PROVE  OnceRow(x)'
<1>1. /\ pc'[p] = step /\ row'[p] = r
      /\ \A q \in Processes \ {p} : pc'[q] = pc[q] /\ row'[q] = row[q]
  BY DEF BaseInv, ProcessesOK
<1>2. QED
  BY <1>1, OnceFrame

LEMMA FinishOnce ==
    ASSUME BaseInv, NEW x \in Rows, OnceRow(x), send'[x] = send[x], mails'[x] = mails[x],
           queue'[SendJob(x)] = queue[SendJob(x)],
           NEW p \in Processes, ~(row[p] = x /\ pc[p] = "markSent"), Finish(p)
    PROVE  OnceRow(x)'
<1>1. Uninvolved(IF p \in Workers THEN "idle" ELSE "returned", NoRow, x)
  BY NoneAssumption DEF Uninvolved
<1>2. QED
  BY <1>1, MoveOnce DEF Finish, Goto

LEMMA ContinueOnce ==
    ASSUME BaseInv, NEW x \in Rows, OnceRow(x), send'[x] = send[x], mails'[x] = mails[x],
           queue'[SendJob(x)] = queue[SendJob(x)],
           NEW p \in Processes, ~(row[p] = x /\ pc[p] = "markSent"),
           NEW step, Continue(p, step), Uninvolved(step, row[p], x)
    PROVE  OnceRow(x)'
<1>1. row' = [row EXCEPT ![p] = row[p]]
  BY DEF Continue, view, BaseInv, ProcessesOK
<1>2. QED
  BY <1>1, MoveOnce DEF Continue, Goto

LEMMA EnvironmentOnce ==
    ASSUME BaseInv, NEW x \in Rows, OnceRow(x)
    PROVE  /\ \A r \in Runs : StartRun(r) => OnceRow(x)'
           /\ \A b \in BOOLEAN : SetPaused(b) => OnceRow(x)'
           /\ \A c \in Contacts : Unsubscribe(c) \/ Leave(c) => OnceRow(x)'
           /\ \A y \in Rows : \A m \in Messages : \A t \in Reports :
                 Report(y, m, t) => OnceRow(x)'
<1>1. ASSUME NEW r \in Runs, StartRun(r)
      PROVE  OnceRow(x)'
  <2>1. <<"enroll-segment", r>> \in EnrollJobs
    BY DEF EnrollJobs
  <2>2. queue'[SendJob(x)] = queue[SendJob(x)]
    BY <1>1, <2>1, JobKinds, JobSets, OtherJobs DEF StartRun, BaseInv
  <2>3. QED
    BY <1>1, <2>2, OutsideOnce DEF StartRun, sends, provider, view
<1>2. ASSUME NEW b \in BOOLEAN, SetPaused(b)
      PROVE  OnceRow(x)'
  BY <1>2, OutsideOnce DEF SetPaused, sends, provider, view
<1>3. ASSUME NEW c \in Contacts, Unsubscribe(c) \/ Leave(c)
      PROVE  OnceRow(x)'
  BY <1>3, OutsideOnce DEF Unsubscribe, Leave, sends, provider, view
<1>4. ASSUME NEW y \in Rows, NEW m \in Messages, NEW t \in Reports, Report(y, m, t)
      PROVE  OnceRow(x)'
  <2>1. <<"process-delivery-events", y, m, t>> \in ReportJobs
    BY DEF ReportJobs
  <2>2. queue'[SendJob(x)] = queue[SendJob(x)]
    BY <1>4, <2>1, JobKinds, JobSets, OtherJobs DEF Report, BaseInv
  <2>3. QED
    BY <1>4, <2>2, OutsideOnce DEF Report, database, sends, view
<1>5. QED
  BY <1>1, <1>2, <1>3, <1>4

\* Beginning a job.  The worker that takes the job of a row takes its token.
LEMMA BeginOnce ==
    ASSUME BaseInv, NEW x \in Rows, OnceRow(x), NEW w \in Processes
    PROVE  /\ Begin(w) => OnceRow(x)'
           /\ \A S \in SUBSET Contacts : Call(w, S) => OnceRow(x)'
<1>1. ASSUME NEW S, StartEnrolling(w, S), queue'[SendJob(x)] = queue[SendJob(x)]
      PROVE  OnceRow(x)'
  <2>1. row' = [row EXCEPT ![w] = row[w]] /\ Uninvolved("check", row[w], x)
    BY <1>1 DEF StartEnrolling, view, BaseInv, ProcessesOK, Uninvolved, BeforeMark, Later
  <2>2. QED
    BY <1>1, <2>1, MoveOnce DEF StartEnrolling, Goto, database, sends, provider
<1>2. ASSUME NEW r \in Runs, BeginEnroll(w, r)
      PROVE  OnceRow(x)'
  <2>1. <<"enroll-segment", r>> \in EnrollJobs
    BY DEF EnrollJobs
  <2>2. queue'[SendJob(x)] = queue[SendJob(x)]
    BY <1>2, <2>1, JobKinds, JobSets, OtherJobs DEF BeginEnroll, BaseInv
  <2>3. QED
    BY <1>1, <1>2, <2>2 DEF BeginEnroll
<1>3. ASSUME NEW S \in SUBSET Contacts, Call(w, S)
      PROVE  OnceRow(x)'
  BY <1>1, <1>3 DEF Call
<1>4. ASSUME NEW e \in Enrollments, BeginSchedule(w, e)
      PROVE  OnceRow(x)'
  <2>1. <<"schedule-next-step", e>> \in ScheduleJobs
    BY DEF ScheduleJobs
  <2>2. queue'[SendJob(x)] = queue[SendJob(x)]
    BY <1>4, <2>1, JobKinds, JobSets, OtherJobs DEF BeginSchedule, BaseInv
  <2>3. row' = [row EXCEPT ![w] = row[w]] /\ Uninvolved("loadNext", row[w], x)
    BY <1>4 DEF BeginSchedule, view, BaseInv, ProcessesOK, Uninvolved, BeforeMark, Later
  <2>4. QED
    BY <1>4, <2>2, <2>3, MoveOnce DEF BeginSchedule, Goto, database, sends, provider
<1>5. ASSUME NEW y \in Rows, NEW m \in Messages, NEW t \in Reports, BeginReport(w, y, m, t)
      PROVE  OnceRow(x)'
  <2>1. <<"process-delivery-events", y, m, t>> \in ReportJobs
    BY DEF ReportJobs
  <2>2. queue'[SendJob(x)] = queue[SendJob(x)]
    BY <1>5, <2>1, JobKinds, JobSets, OtherJobs DEF BeginReport, BaseInv
  <2>3. Uninvolved("match", y, x)
    BY DEF Uninvolved, BeforeMark, Later
  <2>4. QED
    BY <1>5, <2>2, <2>3, MoveOnce DEF BeginReport, Goto, database, sends, provider
<1>6. ASSUME NEW y \in Rows, BeginSend(w, y)
      PROVE  OnceRow(x)'
  <2>1. UNCHANGED <<send, mails>> /\ pc[w] = "idle" /\ Q!Take(SendJob(y))
        /\ pc' = [pc EXCEPT ![w] = "load"] /\ row' = [row EXCEPT ![w] = y]
    BY <1>6 DEF BeginSend, Goto, database, sends, provider, SendJob
  <2>2. CASE y # x
    <3>1. queue'[SendJob(x)] = queue[SendJob(x)]
      BY <2>1, <2>2, JobKinds, OtherJobs DEF BaseInv
    <3>2. Uninvolved("load", y, x)
      BY <2>2 DEF Uninvolved
    <3>3. QED
      BY <2>1, <3>1, <3>2, MoveOnce
  <2>3. CASE y = x
    <3>1. queue[SendJob(x)] > 0 /\ queue'[SendJob(x)] = queue[SendJob(x)] - 1
          /\ queue[SendJob(x)] \in Nat
      BY <2>1, <2>3, OwnJobs DEF BaseInv
    <3>2. pc'[w] = "load" /\ row'[w] = x
          /\ \A q \in Processes \ {w} : pc'[q] = pc[q] /\ row'[q] = row[q]
      BY <2>1, <2>3 DEF BaseInv, ProcessesOK
    <3>3. /\ Token(w, x)' /\ w \in Processes
          /\ \A q \in Processes \ {w} : Token(q, x)' <=> Token(q, x)
      BY <3>2 DEF Token, BeforeMark
    <3>4. send[x] # "none"
      BY <3>1 DEF OnceRow
    <3>5. send[x] = "pending" => /\ queue[SendJob(x)] = 1
                                 /\ \A q \in Processes : ~Token(q, x)
                                 /\ ~(mails[x] > 0)
      BY <3>1 DEF OnceRow, Token, BeforeMark
    <3>6. \A q \in Processes : row'[q] = x /\ pc'[q] \in Later => row[q] = x /\ pc[q] \in Later
      BY <3>2 DEF Later
    <3>7. send[x] \notin Open => \A q \in Processes : Token(q, x)' => pc'[q] \in {"publish", "load"}
      BY <3>2, <3>3 DEF OnceRow
    <3>8. QED
      BY <2>1, <3>1, <3>2, <3>3, <3>4, <3>5, <3>6, <3>7 DEF OnceRow
  <2>4. QED
    BY <2>2, <2>3
<1>7. QED
  BY <1>2, <1>3, <1>4, <1>5, <1>6 DEF Begin

LEMMA EnrollOnce ==
    ASSUME BaseInv, NEW x \in Rows, OnceRow(x), NEW p \in Processes
    PROVE  /\ \A c \in Contacts : CheckPreference(p, c) \/ CheckEnrolled(p, c) => OnceRow(x)'
           /\ Create(p) \/ Count(p) \/ EnrollDone(p) => OnceRow(x)'
           /\ \A e \in Enrollments : FindFirst(p, e) => OnceRow(x)'
<1>1. ASSUME NEW c \in Contacts, CheckPreference(p, c) \/ CheckEnrolled(p, c)
      PROVE  OnceRow(x)'
  BY <1>1, OutsideOnce DEF CheckPreference, CheckEnrolled, view, provider, database, sends
<1>2. ASSUME Create(p)
      PROVE  OnceRow(x)'
  <2>1. UNCHANGED <<send, mails, queue>> /\ pc[p] = "check"
    BY <1>2 DEF Create, sends, provider
  <2>2. \/ Finish(p)
        \/ UNCHANGED view /\ \E step \in {"count", "first"} : Goto(p, step)
    BY <1>2 DEF Create
  <2>3. CASE Finish(p)
    BY <2>1, <2>3, FinishOnce
  <2>4. ASSUME UNCHANGED view, NEW step \in {"count", "first"}, Goto(p, step)
        PROVE  OnceRow(x)'
    <3>1. row' = [row EXCEPT ![p] = row[p]] /\ Uninvolved(step, row[p], x)
      BY <2>4 DEF view, BaseInv, ProcessesOK, Uninvolved, BeforeMark, Later
    <3>2. QED
      BY <2>1, <2>4, <3>1, MoveOnce DEF Goto
  <2>5. QED
    BY <2>2, <2>3, <2>4
<1>3. ASSUME Count(p)
      PROVE  OnceRow(x)'
  <2>1. Uninvolved("first", row[p], x)
    BY DEF Uninvolved, BeforeMark, Later
  <2>2. QED
    BY <1>3, <2>1, ContinueOnce DEF Count, sends, provider
<1>4. ASSUME EnrollDone(p)
      PROVE  OnceRow(x)'
  BY <1>4, FinishOnce DEF EnrollDone, provider, database, sends
<1>5. ASSUME NEW e \in Enrollments, FindFirst(p, e)
      PROVE  OnceRow(x)'
  <2>1. Uninvolved(IF send[<<e, 1>>] = "none" THEN "insert" ELSE "first", <<e, 1>>, x)
    BY DEF Uninvolved, BeforeMark, Later
  <2>2. QED
    BY <1>5, <2>1, MoveOnce DEF FindFirst, Goto, database, sends, provider
<1>6. QED
  BY <1>1, <1>2, <1>3, <1>4, <1>5

\* The token of a row is in the hands of one process, and nothing is mailed before
\* that process mails it.
LEMMA OneToken ==
    ASSUME BaseInv, NEW x \in Rows, OnceRow(x), NEW p \in Processes, Token(p, x)
    PROVE  /\ send[x] # "none"
           /\ send[x] = "pending" =>
                 /\ queue[SendJob(x)] = 0
                 /\ \A q \in Processes \ {p} : ~Token(q, x)
                 /\ pc[p] # "markSent" => mails[x] = 0
           /\ pc[p] \notin {"publish", "load"} => send[x] = "pending"
<1>1. queue[SendJob(x)] \in Nat /\ mails[x] \in Nat /\ (send[x] # "none" /\ send[x] # "pending" => send[x] \notin Open)
  BY OwnJobs DEF BaseInv, TablesOK, Open
<1>2. \A q \in Processes : row[q] = x /\ pc[q] = "markSent" => Token(q, x)
  BY DEF Token, BeforeMark
<1>3. QED
  BY <1>1, <1>2 DEF OnceRow

LEMMA ScheduleOnce ==
    ASSUME BaseInv, OrderInv, NEW x \in Rows, OnceRow(x), NEW p \in Processes
    PROVE  LoadNext(p) \/ Find(p) \/ Insert(p) \/ Publish(p) => OnceRow(x)'
<1>1. ASSUME LoadNext(p)
      PROVE  OnceRow(x)'
  <2>1. UNCHANGED <<send, mails, queue>> /\ pc[p] = "loadNext"
    BY <1>1 DEF LoadNext, database, sends, provider
  <2>2. ASSUME NEW r, row' = [row EXCEPT ![p] = r], Goto(p, "find")
        PROVE  OnceRow(x)'
    <3>1. Uninvolved("find", r, x)
      BY DEF Uninvolved, BeforeMark, Later
    <3>2. QED
      BY <2>1, <2>2, <3>1, MoveOnce DEF Goto
  <2>3. QED
    BY <1>1, <2>1, <2>2, FinishOnce DEF LoadNext
<1>2. ASSUME Find(p)
      PROVE  OnceRow(x)'
  <2>1. Uninvolved("insert", row[p], x)
    BY DEF Uninvolved, BeforeMark, Later
  <2>2. QED
    BY <1>2, <2>1, FinishOnce, ContinueOnce DEF Find, database, sends, provider
<1>3. ASSUME Insert(p)
      PROVE  OnceRow(x)'
  <2>1. pc[p] = "insert" /\ UNCHANGED mails /\ row[p] \in Rows
        /\ job[p] \in EnrollJobs \cup ScheduleJobs \cup {NoJob}
    BY <1>3 DEF Insert, provider, BaseInv, Hands, Holds
  <2>2. CASE send[row[p]] = "none" /\ send' = [send EXCEPT ![row[p]] = "pending"]
             /\ Continue(p, "publish") /\ UNCHANGED queue
    <3>1. CASE row[p] # x
      <4>1. send'[x] = send[x] /\ Uninvolved("publish", row[p], x)
        BY <2>1, <2>2, <3>1 DEF BaseInv, TablesOK, Uninvolved
      <4>2. QED
        BY <2>1, <2>2, <4>1, ContinueOnce
    <3>2. CASE row[p] = x
      <4>1. send'[x] = "pending" /\ mails[x] = 0
        BY <2>2, <3>2 DEF BaseInv, TablesOK, OrderInv, OrderTables, MailHasRow
      <4>2. /\ pc'[p] = "publish" /\ row' = row
            /\ \A q \in Processes \ {p} : pc'[q] = pc[q]
        BY <2>2 DEF Continue, Goto, view, BaseInv, ProcessesOK
      <4>3. \A q \in Processes : ~Token(q, x) /\ ~(row[q] = x /\ pc[q] \in Later)
        BY <2>2, <3>2 DEF OnceRow, Open
      <4>4. \A q \in Processes : Token(q, x)' => q = p
        BY <4>2, <4>3 DEF Token
      <4>5. \A q \in Processes : ~(row'[q] = x /\ pc'[q] \in Later)
        BY <4>2, <4>3 DEF Later
      <4>6. queue'[SendJob(x)] = 0
        BY <2>2, <3>2 DEF OnceRow
      <4>7. QED
        BY <2>1, <4>1, <4>4, <4>5, <4>6 DEF OnceRow, Open
    <3>3. QED
      BY <3>1, <3>2
  <2>3. CASE Stop(p) /\ UNCHANGED send
    <3>1. queue'[SendJob(x)] = queue[SendJob(x)]
      BY <2>1, <2>3, JobKinds, OtherJobs DEF Stop, BaseInv
    <3>2. QED
      BY <2>1, <2>3, <3>1, FinishOnce DEF Stop
  <2>4. QED
    BY <1>3, <2>2, <2>3 DEF Insert
<1>4. ASSUME Publish(p)
      PROVE  OnceRow(x)'
  <2>1. /\ pc[p] = "publish" /\ UNCHANGED <<send, mails>> /\ row[p] \in Rows
        /\ Q!Publish(SendJob(row[p]))
    BY <1>4 DEF Publish, database, sends, provider, SendJob, BaseInv, Hands, Holds
  <2>2. \A y \in Rows : Uninvolved("first", y, x)
    BY DEF Uninvolved, BeforeMark, Later
  <2>3. CASE row[p] # x
    <3>1. queue'[SendJob(x)] = queue[SendJob(x)]
      BY <2>1, <2>3, JobKinds, OtherJobs DEF BaseInv
    <3>2. QED
      BY <1>4, <2>1, <2>2, <3>1, FinishOnce, ContinueOnce DEF Publish
  <2>4. CASE row[p] = x
    <3>1. Token(p, x)
      BY <2>1, <2>4 DEF Token
    <3>2. queue'[SendJob(x)] = queue[SendJob(x)] + 1 /\ queue[SendJob(x)] \in Nat
      BY <2>1, <2>4, OwnJobs DEF BaseInv
    <3>3. /\ pc'[p] \in {"idle", "returned", "first"}
          /\ \A q \in Processes \ {p} : pc'[q] = pc[q] /\ row'[q] = row[q]
      BY <1>4 DEF Publish, Finish, Continue, Goto, view, BaseInv, ProcessesOK
    <3>4. \A q \in Processes : Token(q, x)' => q # p /\ Token(q, x) /\ pc'[q] = pc[q]
      BY <3>3 DEF Token, BeforeMark
    <3>5. \A q \in Processes : row'[q] = x /\ pc'[q] \in Later => row[q] = x /\ pc[q] \in Later
      BY <3>3 DEF Later
    <3>6. send[x] = "pending" => mails[x] = 0 /\ queue'[SendJob(x)] = 1
                                 /\ \A q \in Processes : ~Token(q, x)'
      BY <2>1, <3>1, <3>2, <3>4, OneToken
    <3>7. send[x] # "none"
      BY <3>1, OneToken
    <3>8. QED
      BY <2>1, <3>4, <3>5, <3>6, <3>7 DEF OnceRow
  <2>5. QED
    BY <2>3, <2>4
<1>5. QED
  BY <1>1, <1>2, <1>3, <1>4

\* The holder of the token goes on with it.
LEMMA KeepOnce ==
    ASSUME BaseInv, NEW x \in Rows, OnceRow(x), UNCHANGED <<send, queue, row>>,
           mails'[x] = mails[x] \/ mails'[x] = 1,
           NEW p \in Processes, row[p] = x, pc[p] \in BeforeMark \ {"markSent"},
           send[x] = "pending",
           NEW step \in BeforeMark, pc' = [pc EXCEPT ![p] = step],
           mails'[x] # mails[x] => step = "markSent"
    PROVE  OnceRow(x)'
<1>1. Token(p, x)
  BY DEF Token
<1>2. pc'[p] = step /\ \A q \in Processes \ {p} : pc'[q] = pc[q]
  BY DEF BaseInv, ProcessesOK
<1>3. queue[SendJob(x)] = 0 /\ mails[x] = 0 /\ \A q \in Processes \ {p} : ~Token(q, x)
  BY <1>1, OneToken
<1>4. Token(p, x)' /\ \A q \in Processes \ {p} : ~Token(q, x)'
  BY <1>2, <1>3 DEF Token
<1>5. \A q \in Processes : ~(row'[q] = x /\ pc'[q] \in Later)
  BY <1>2 DEF OnceRow, Open, Later, BeforeMark
<1>6. mails'[x] <= 1 /\ (mails'[x] > 0 => row'[p] = x /\ pc'[p] = "markSent")
  BY <1>2, <1>3
<1>7. QED
  BY <1>3, <1>4, <1>5, <1>6 DEF OnceRow, Open

\* The holder of the token settles the row.
LEMMA SettleOnce ==
    ASSUME BaseInv, NEW x \in Rows, OnceRow(x), UNCHANGED <<mails, queue>>,
           NEW p \in Processes, Token(p, x), send[x] = "pending",
           send'[x] \notin Open, send'[x] = "skipped" => mails[x] = 0,
           pc'[p] \notin {"publish"} \cup BeforeMark,
           \A q \in Processes \ {p} : pc'[q] = pc[q] /\ row'[q] = row[q]
    PROVE  OnceRow(x)'
<1>1. \A q \in Processes : ~Token(q, x)'
  BY OneToken DEF Token
<1>2. mails'[x] <= 1
  BY DEF OnceRow
<1>3. QED
  BY <1>1, <1>2 DEF OnceRow, Open

LEMMA SendOnce ==
    ASSUME BaseInv, OrderInv, NEW x \in Rows, OnceRow(x), NEW p \in Processes
    PROVE  /\ Load(p) \/ LoadEnrollment(p) \/ LoadSequence(p) => OnceRow(x)'
           /\ CheckBars(p) \/ MarkSkipped(p) \/ ExitEnrollment(p) => OnceRow(x)'
           /\ Mail(p) \/ MarkSent(p) \/ Advance(p) \/ EnqueueNext(p) => OnceRow(x)'
<1>0. ASSUME pc[p] \in SendSteps
      PROVE  row[p] \in Rows
  BY <1>0 DEF BaseInv, Hands, Holds
\* A row in hand past "load" is pending if it is x.
<1>a. ASSUME pc[p] \in BeforeMark \ {"load"}, row[p] = x
      PROVE  Token(p, x) /\ send[x] = "pending"
  BY <1>a, OneToken DEF Token, BeforeMark
<1>1. ASSUME Load(p)
      PROVE  OnceRow(x)'
  <2>1. pc[p] = "load" /\ UNCHANGED <<send, mails, queue>>
    BY <1>1 DEF Load, database, sends, provider
  <2>2. CASE send[row[p]] = "pending" /\ Continue(p, "loadEnrollment")
    <3>1. /\ pc' = [pc EXCEPT ![p] = "loadEnrollment"]
          /\ row' = [row EXCEPT ![p] = row[p]] /\ UNCHANGED row
      BY <2>2 DEF Continue, Goto, view, BaseInv, ProcessesOK
    <3>2. CASE row[p] = x
      BY <2>1, <2>2, <3>1, <3>2, KeepOnce DEF BeforeMark
    <3>3. CASE row[p] # x
      BY <2>1, <3>1, <3>3, MoveOnce DEF Uninvolved
    <3>4. QED
      BY <3>2, <3>3
  <2>3. QED
    BY <1>1, <2>1, <2>2, FinishOnce DEF Load
<1>b. ASSUME LoadEnrollment(p) \/ LoadSequence(p)
      PROVE  OnceRow(x)'
  <2>1. /\ pc[p] \in {"loadEnrollment", "loadSequence"} /\ UNCHANGED <<send, mails, queue>>
        /\ row' = [row EXCEPT ![p] = row[p]] /\ UNCHANGED row
    BY <1>b DEF LoadEnrollment, LoadSequence, database, sends, provider, BaseInv, ProcessesOK
  <2>2. PICK step \in {"loadSequence", "bars"} : pc' = [pc EXCEPT ![p] = step]
    BY <1>b DEF LoadEnrollment, LoadSequence, Goto
  <2>3. CASE row[p] = x
    BY <1>a, <2>1, <2>2, <2>3, KeepOnce DEF BeforeMark
  <2>4. CASE row[p] # x
    BY <2>1, <2>2, <2>4, MoveOnce DEF Uninvolved
  <2>5. QED
    BY <2>3, <2>4
<1>2. ASSUME CheckBars(p)
      PROVE  OnceRow(x)'
  <2>1. pc[p] = "bars" /\ UNCHANGED <<send, mails, queue>>
    BY <1>2 DEF CheckBars, database, sends, provider
  <2>2. PICK step \in {"skipOut", "mail", "skip"} : Continue(p, step)
    BY <1>2 DEF CheckBars
  <2>3. CASE row[p] = x
    BY <1>a, <2>1, <2>2, <2>3, KeepOnce DEF BeforeMark, Continue, Goto, view
  <2>4. CASE row[p] # x
    BY <2>1, <2>2, <2>4, ContinueOnce DEF Uninvolved
  <2>5. QED
    BY <2>3, <2>4
<1>3. ASSUME MarkSkipped(p)
      PROVE  OnceRow(x)'
  <2>1. pc[p] \in {"skip", "skipOut"} /\ UNCHANGED <<mails, queue>>
        /\ send' = [send EXCEPT ![row[p]] = "skipped"]
        /\ (Finish(p) \/ Continue(p, "exit"))
    BY <1>3 DEF MarkSkipped, provider
  <2>2. row[p] \in Rows
    BY <1>0, <2>1 DEF SendSteps
  <2>3. CASE row[p] = x
    <3>1. Token(p, x) /\ send[x] = "pending" /\ mails[x] = 0
      BY <1>a, <2>1, <2>3, OneToken DEF BeforeMark
    <3>2. send'[x] = "skipped"
      BY <2>1, <2>3 DEF BaseInv, TablesOK
    <3>3. /\ pc'[p] \in {"idle", "returned", "exit"}
          /\ \A q \in Processes \ {p} : pc'[q] = pc[q] /\ row'[q] = row[q]
      BY <2>1 DEF Finish, Continue, Goto, view, BaseInv, ProcessesOK
    <3>4. QED
      BY <2>1, <3>1, <3>2, <3>3, SettleOnce DEF Open, BeforeMark
  <2>4. CASE row[p] # x
    <3>1. send'[x] = send[x] /\ Uninvolved("exit", row[p], x)
      BY <2>1, <2>4 DEF BaseInv, TablesOK, Uninvolved
    <3>2. QED
      BY <2>1, <3>1, FinishOnce, ContinueOnce
  <2>5. QED
    BY <2>3, <2>4
<1>4. ASSUME ExitEnrollment(p)
      PROVE  OnceRow(x)'
  BY <1>4, FinishOnce DEF ExitEnrollment, sends, provider
<1>5. ASSUME Mail(p)
      PROVE  OnceRow(x)'
  <2>1. pc[p] = "mail" /\ UNCHANGED <<send, queue, row>> /\ row[p] \in Rows
        /\ pc' = [pc EXCEPT ![p] = "markSent"] /\ row' = [row EXCEPT ![p] = row[p]]
    BY <1>0, <1>5 DEF Mail, Goto, SendSteps, database, sends, BaseInv, ProcessesOK
  <2>2. mails'[x] = IF row[p] = x THEN mails[x] + 1 ELSE mails[x]
    BY <1>5, <2>1 DEF Mail, BaseInv, TablesOK
  <2>3. CASE row[p] = x
    <3>1. Token(p, x) /\ send[x] = "pending" /\ mails[x] = 0
      BY <1>a, <2>1, <2>3, OneToken DEF BeforeMark
    <3>2. mails'[x] = 1
      BY <2>2, <2>3, <3>1
    <3>3. pc[p] \in BeforeMark \ {"markSent"} /\ "markSent" \in BeforeMark
      BY <2>1 DEF BeforeMark
    <3>4. QED
      BY <2>1, <2>3, <3>1, <3>2, <3>3, KeepOnce
  <2>4. CASE row[p] # x
    BY <2>1, <2>2, <2>4, MoveOnce DEF Uninvolved
  <2>5. QED
    BY <2>3, <2>4
<1>6. ASSUME MarkSent(p)
      PROVE  OnceRow(x)'
  <2>1. pc[p] = "markSent" /\ UNCHANGED <<mails, queue>> /\ row[p] \in Rows
        /\ send' = [send EXCEPT ![row[p]] = "sent"] /\ Continue(p, "advance")
    BY <1>0, <1>6 DEF MarkSent, SendSteps, provider
  <2>2. CASE row[p] = x
    <3>1. Token(p, x) /\ send[x] = "pending"
      BY <1>a, <2>1, <2>2 DEF BeforeMark
    <3>2. send'[x] = "sent"
      BY <2>1, <2>2 DEF BaseInv, TablesOK
    <3>3. /\ pc'[p] = "advance"
          /\ \A q \in Processes \ {p} : pc'[q] = pc[q] /\ row'[q] = row[q]
      BY <2>1 DEF Continue, Goto, view, BaseInv, ProcessesOK
    <3>4. QED
      BY <2>1, <3>1, <3>2, <3>3, SettleOnce DEF Open, BeforeMark
  <2>3. CASE row[p] # x
    <3>1. send'[x] = send[x] /\ Uninvolved("advance", row[p], x)
      BY <2>1, <2>3 DEF BaseInv, TablesOK, Uninvolved
    <3>2. QED
      BY <2>1, <2>3, <3>1, ContinueOnce
  <2>4. QED
    BY <2>2, <2>3
<1>7. ASSUME Advance(p)
      PROVE  OnceRow(x)'
  <2>1. pc[p] = "advance" /\ UNCHANGED <<send, mails, queue>>
        /\ (Finish(p) \/ Continue(p, "enqueueNext"))
    BY <1>7 DEF Advance, sends, provider
  <2>2. CASE Continue(p, "enqueueNext") /\ row[p] = x
    <3>1. /\ pc'[p] = "enqueueNext" /\ row' = row
          /\ \A q \in Processes \ {p} : pc'[q] = pc[q]
      BY <2>2 DEF Continue, Goto, view, BaseInv, ProcessesOK
    <3>2. \A q \in Processes : Token(q, x)' <=> Token(q, x) /\ q # p
      BY <2>1, <3>1 DEF Token, BeforeMark
    <3>3. send[x] \notin Open
      BY <2>1, <2>2 DEF OnceRow, Later
    <3>4. QED
      BY <2>1, <3>1, <3>2, <3>3 DEF OnceRow, Open
  <2>3. CASE Continue(p, "enqueueNext") /\ row[p] # x
    BY <2>1, <2>3, ContinueOnce DEF Uninvolved
  <2>4. QED
    BY <2>1, <2>2, <2>3, FinishOnce
<1>8. ASSUME EnqueueNext(p)
      PROVE  OnceRow(x)'
  <2>1. pc[p] = "enqueueNext" /\ row[p] \in Rows
    BY <1>0, <1>8 DEF EnqueueNext, SendSteps
  <2>2. <<"schedule-next-step", row[p][1]>> \in ScheduleJobs
    BY <2>1, RowParts DEF ScheduleJobs
  <2>3. queue'[SendJob(x)] = queue[SendJob(x)]
    BY <1>8, <2>2, JobKinds, JobSets, OtherJobs DEF EnqueueNext, BaseInv
  <2>4. QED
    BY <1>8, <2>1, <2>3, FinishOnce DEF EnqueueNext, database, sends, provider
<1>9. QED
  BY <1>1, <1>b, <1>2, <1>3, <1>4, <1>5, <1>6, <1>7, <1>8

LEMMA ReportOnce ==
    ASSUME BaseInv, OrderInv, NEW x \in Rows, OnceRow(x), NEW p \in Processes
    PROVE  Match(p) \/ MarkReported(p) \/ Suppress(p) \/ ExitSuppressed(p) => OnceRow(x)'
<1>0. \A step \in ReportSteps : Uninvolved(step, row[p], x)
  BY DEF Uninvolved, ReportSteps, BeforeMark, Later
<1>1. ASSUME Match(p)
      PROVE  OnceRow(x)'
  BY <1>0, <1>1, FinishOnce, ContinueOnce DEF Match, ReportSteps, database, sends, provider
<1>2. ASSUME MarkReported(p)
      PROVE  OnceRow(x)'
  <2>1. pc[p] = "mark" /\ UNCHANGED <<mails, queue>> /\ row[p] \in Rows
        /\ send[row[p]] \notin Open /\ mails[row[p]] > 0
        /\ (Finish(p) \/ Continue(p, "suppress"))
    BY <1>2 DEF MarkReported, provider, BaseInv, Hands, Holds, ReportSteps, OrderInv,
       EveryoneIsSound, Sound, Done
  <2>2. PICK v \in {"delivered", "failed"} : send' = [send EXCEPT ![row[p]] = v]
    BY <1>2 DEF MarkReported
  <2>3. CASE row[p] # x
    <3>1. send'[x] = send[x]
      BY <2>1, <2>2, <2>3 DEF BaseInv, TablesOK
    <3>2. QED
      BY <1>0, <2>1, <3>1, FinishOnce, ContinueOnce DEF ReportSteps
  <2>4. CASE row[p] = x
    <3>1. send'[x] = v
      BY <2>1, <2>2, <2>4 DEF BaseInv, TablesOK
    <3>2. /\ pc'[p] \in {"idle", "returned", "suppress"}
          /\ \A q \in Processes \ {p} : pc'[q] = pc[q] /\ row'[q] = row[q]
      BY <2>1 DEF Finish, Continue, Goto, view, BaseInv, ProcessesOK
    <3>3. \A q \in Processes : Token(q, x)' => Token(q, x) /\ pc'[q] = pc[q]
      BY <3>2 DEF Token, BeforeMark
    <3>4. send[x] \notin Open /\ send'[x] \notin Open /\ send'[x] # "skipped"
      BY <2>1, <2>4, <3>1 DEF Open
    <3>5. mails'[x] <= 1 /\ \A q \in Processes : Token(q, x)' => pc'[q] \in {"publish", "load"}
      BY <2>1, <3>3, <3>4 DEF OnceRow
    <3>6. QED
      BY <3>4, <3>5 DEF OnceRow, Open
  <2>5. QED
    BY <2>3, <2>4
<1>3. ASSUME Suppress(p)
      PROVE  OnceRow(x)'
  BY <1>0, <1>3, ContinueOnce DEF Suppress, ReportSteps, sends, provider
<1>4. ASSUME ExitSuppressed(p)
      PROVE  OnceRow(x)'
  BY <1>4, FinishOnce DEF ExitSuppressed, sends, provider
<1>5. QED
  BY <1>1, <1>2, <1>3, <1>4

\* A row that a mishap touches between its load and its mark is at risk afterwards.
LEMMA MishapOnce ==
    ASSUME BaseInv, NEW x \in Rows, OnceRow(x), x \notin risked', GoesWrong
    PROVE  OnceRow(x)'
<1>1. ASSUME NEW p \in Processes, Interrupt(p)
      PROVE  OnceRow(x)'
  <2>1. /\ UNCHANGED <<send, mails>> /\ Stop(p) /\ ~(row[p] = x /\ pc[p] = "markSent")
        /\ pc[p] \in Busy
    BY <1>1 DEF Interrupt, database, sends, provider
  <2>2. CASE queue'[SendJob(x)] = queue[SendJob(x)]
    BY <2>1, <2>2, FinishOnce DEF Stop
  <2>3. CASE queue'[SendJob(x)] # queue[SendJob(x)]
    <3>1. job[p] = SendJob(x) /\ Q!Publish(SendJob(x))
      BY <2>1, <2>3, OtherJobs DEF Stop, BaseInv, Q!GiveBack
    <3>2. queue'[SendJob(x)] = queue[SendJob(x)] + 1 /\ queue[SendJob(x)] \in Nat
      BY <3>1, OwnJobs DEF BaseInv
    <3>3. pc[p] \in SendSteps /\ row[p] = x
      <4>1. job[p] \notin EnrollJobs \cup ScheduleJobs \cup ReportJobs \cup {NoJob}
        BY <3>1, JobKinds
      <4>2. pc[p] \in SendSteps
        BY <2>1, <4>1 DEF BaseInv, Hands, Holds, Busy, EnrollSteps, ScheduleSteps
      <4>3. QED
        BY <3>1, <4>2, JobKinds DEF BaseInv, Hands, Holds, SendJob
    <3>4. /\ pc'[p] \in {"idle", "returned"}
          /\ \A q \in Processes \ {p} : pc'[q] = pc[q] /\ row'[q] = row[q]
      BY <2>1 DEF Stop, Finish, Goto, BaseInv, ProcessesOK
    <3>5. \A q \in Processes : Token(q, x)' => q # p /\ Token(q, x) /\ pc'[q] = pc[q]
      BY <3>4 DEF Token, BeforeMark
    <3>6. \A q \in Processes : row'[q] = x /\ pc'[q] \in Later => row[q] = x /\ pc[q] \in Later
      BY <3>4 DEF Later
    <3>7. CASE pc[p] \in Later
      <4>1. send[x] \notin Open
        BY <3>3, <3>7 DEF OnceRow
      <4>2. QED
        BY <2>1, <3>5, <3>6, <4>1 DEF OnceRow, Open
    <3>8. CASE pc[p] \notin Later
      <4>1. Token(p, x) /\ pc[p] # "publish"
        BY <2>1, <3>3, <3>8 DEF Token, SendSteps, BeforeMark, Later
      <4>2. send[x] = "pending" => /\ queue'[SendJob(x)] = 1 /\ mails[x] = 0
                                   /\ \A q \in Processes : ~Token(q, x)'
        BY <2>1, <3>2, <3>3, <3>5, <4>1, OneToken
      <4>3. QED
        BY <2>1, <3>5, <3>6, <4>1, <4>2, OneToken DEF OnceRow, Open
    <3>9. QED
      BY <3>7, <3>8
  <2>4. QED
    BY <2>2, <2>3
<1>2. ASSUME NEW w \in Processes, Redeliver(w)
      PROVE  OnceRow(x)'
  <2>1. UNCHANGED <<send, mails, pc, row>> /\ Q!Publish(job[w]) /\ job[w] \in Jobs
        /\ pc[w] \in Busy /\ ~(row[w] = x /\ pc[w] \in BeforeMark)
    BY <1>2 DEF Redeliver, database, sends, provider, view
  <2>2. CASE queue'[SendJob(x)] = queue[SendJob(x)]
    BY <2>1, <2>2, OutsideOnce
  <2>3. CASE queue'[SendJob(x)] # queue[SendJob(x)]
    <3>1. job[w] = SendJob(x)
      BY <2>1, <2>3, OtherJobs DEF BaseInv
    <3>2. job[w] \notin EnrollJobs \cup ScheduleJobs \cup ReportJobs \cup {NoJob}
      BY <3>1, JobKinds
    <3>3. pc[w] \in SendSteps
      BY <2>1, <3>2 DEF BaseInv, Hands, Holds, Busy, EnrollSteps, ScheduleSteps
    <3>4. row[w] = x
      BY <3>1, <3>3, JobKinds DEF BaseInv, Hands, Holds, SendJob
    <3>5. send[x] \notin Open
      BY <2>1, <3>3, <3>4 DEF OnceRow, SendSteps, BeforeMark, Later
    <3>6. \A q \in Processes : Token(q, x)' <=> Token(q, x)
      BY <2>1 DEF Token
    <3>7. QED
      BY <2>1, <3>5, <3>6 DEF OnceRow, Open
  <2>4. QED
    BY <2>2, <2>3
<1>3. ASSUME NEW j \in Jobs, Drain(j)
      PROVE  OnceRow(x)'
  <2>1. UNCHANGED <<send, mails, pc, row>> /\ Q!Take(j)
    BY <1>3 DEF Drain, Q!Drain, database, sends, provider, view
  <2>2. CASE j # SendJob(x)
    BY <2>1, <2>2, OtherJobs, OutsideOnce DEF BaseInv
  <2>3. CASE j = SendJob(x)
    <3>1. queue'[SendJob(x)] = queue[SendJob(x)] - 1 /\ queue[SendJob(x)] > 0
          /\ queue[SendJob(x)] \in Nat
      BY <2>1, <2>3, OwnJobs DEF BaseInv
    <3>2. \A q \in Processes : Token(q, x)' <=> Token(q, x)
      BY <2>1 DEF Token
    <3>3. QED
      BY <2>1, <3>1, <3>2 DEF OnceRow
  <2>4. QED
    BY <2>2, <2>3
<1>4. ASSUME NEW r \in Runs, StartRunStops(r)
      PROVE  OnceRow(x)'
  BY <1>4, OutsideOnce DEF StartRunStops, sends, provider, view
<1>5. ASSUME NEW c \in Contacts, RequestStops(c) \/ LoseAddress(c)
      PROVE  OnceRow(x)'
  BY <1>5, OutsideOnce DEF RequestStops, LoseAddress, sends, provider, view
<1>6. QED
  BY <1>1, <1>2, <1>3, <1>4, <1>5 DEF GoesWrong, Processes

\* What is at risk or halted remains so.
LEMMA RiskStays ==
    ASSUME [Next]_vars
    PROVE  risked \subseteq risked' /\ halted \subseteq halted'
<1>1. CASE Work
  <2>1. ASSUME NEW p \in Processes, Step(p)
        PROVE  UNCHANGED <<risked, halted>>
    <3>1. ASSUME NEW c, CheckPreference(p, c) \/ CheckEnrolled(p, c)
          PROVE  UNCHANGED <<risked, halted>>
      BY <3>1 DEF CheckPreference, CheckEnrolled, history
    <3>2. Create(p) \/ Count(p) \/ EnrollDone(p) => UNCHANGED <<risked, halted>>
      BY DEF Create, Count, EnrollDone, history
    <3>3. ASSUME NEW e, FindFirst(p, e)
          PROVE  UNCHANGED <<risked, halted>>
      BY <3>3 DEF FindFirst, history
    <3>4. LoadNext(p) \/ Find(p) \/ Insert(p) \/ Publish(p) => UNCHANGED <<risked, halted>>
      BY DEF LoadNext, Find, Insert, Publish, history
    <3>a. Load(p) \/ LoadEnrollment(p) \/ LoadSequence(p) => UNCHANGED <<risked, halted>>
      BY DEF Load, LoadEnrollment, LoadSequence, history
    <3>5. CheckBars(p) \/ MarkSkipped(p) \/ ExitEnrollment(p) => UNCHANGED <<risked, halted>>
      BY DEF CheckBars, MarkSkipped, ExitEnrollment, history
    <3>6. Mail(p) \/ MarkSent(p) \/ Advance(p) \/ EnqueueNext(p) => UNCHANGED <<risked, halted>>
      BY DEF Mail, MarkSent, Advance, EnqueueNext, history
    <3>7. Match(p) \/ MarkReported(p) \/ Suppress(p) \/ ExitSuppressed(p) => UNCHANGED <<risked, halted>>
      BY DEF Match, MarkReported, Suppress, ExitSuppressed, history
    <3>8. QED
      BY <2>1, <3>1, <3>2, <3>3, <3>4, <3>a, <3>5, <3>6, <3>7 DEF Step
  <2>2. ASSUME NEW w \in Processes, Begin(w)
        PROVE  UNCHANGED <<risked, halted>>
    BY <2>2 DEF Begin, BeginEnroll, BeginSchedule, BeginSend, BeginReport, StartEnrolling,
       history
  <2>3. QED
    BY <1>1, <2>1, <2>2 DEF Work
<1>2. CASE Environment
  BY <1>2 DEF Environment, StartRun, SetPaused, Unsubscribe, Leave, Report, Call,
     StartEnrolling, history
<1>3. CASE GoesWrong
  BY <1>3 DEF GoesWrong, Interrupt, Redeliver, Drain, StartRunStops, RequestStops,
     LoseAddress
<1>4. CASE UNCHANGED vars
  BY <1>4 DEF vars, history
<1>5. QED
  BY <1>1, <1>2, <1>3, <1>4 DEF Next

LEMMA InitOnce ==
    ASSUME Init
    PROVE  OnceInv
BY JobKinds DEF Init, OnceInv, OnceRow, Token, BeforeMark, Later, Open, Q!Empty

LEMMA StepOnce ==
    ASSUME BaseInv, OrderInv, OnceInv, [Next]_vars
    PROVE  OnceInv'
<1>1. SUFFICES ASSUME NEW x \in Rows, x \notin risked'
               PROVE  OnceRow(x)'
  BY DEF OnceInv
<1>2. OnceRow(x)
  BY <1>1, RiskStays DEF OnceInv
<1>3. CASE Work
  BY <1>2, <1>3, BeginOnce, EnrollOnce, ScheduleOnce, SendOnce, ReportOnce DEF Work, Step
<1>4. CASE Environment
  BY <1>2, <1>4, EnvironmentOnce, BeginOnce DEF Environment, Processes
<1>5. CASE GoesWrong
  BY <1>1, <1>2, <1>5, MishapOnce
<1>6. CASE UNCHANGED vars
  BY <1>2, <1>6, OutsideOnce DEF vars, database, sends, provider, view
<1>7. QED
  BY <1>3, <1>4, <1>5, <1>6 DEF Next

\* A step send that is still to be handled has not been mailed, unless a retry is at risk.
THEOREM OnceInvariant == Spec => []OnceInv
BY BaseInvariant, OrderInvariant, InitOnce, StepOnce, PTL DEF Spec

\* executeStepSend mails a step a second time only when its job was delivered again,
\* or its handler stopped, between reading the row and marking it sent.
THEOREM MailsOnce == Spec => []MailedAtMostOnce
<1>1. BaseInv /\ OnceInv => MailedAtMostOnce
  BY DEF BaseInv, TablesOK, OnceInv, OnceRow, MailedAtMostOnce
<1>2. QED
  BY <1>1, BaseInvariant, OnceInvariant, PTL

\* The status of a step send is a true record: markEmailStepSendSent and the reports
\* of the provider only ever mark what was mailed, and a skipped row was not mailed
\* unless it was at risk.
THEOREM StatusIsTrue == Spec => []StatusFollowsMail
<1>1. BaseInv /\ OrderInv /\ OnceInv => StatusFollowsMail
  BY DEF BaseInv, TablesOK, OrderInv, OrderTables, SentHasMail, OnceInv, OnceRow,
     StatusFollowsMail
<1>2. QED
  BY <1>1, BaseInvariant, OrderInvariant, OnceInvariant, PTL

===============================================================================
