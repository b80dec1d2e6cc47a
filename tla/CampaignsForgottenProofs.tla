---------------------- MODULE CampaignsForgottenProofs -----------------------
(***************************************************************************)
(* Theorems about Campaigns: no active enrollment is forgotten.            *)
(*                                                                         *)
(* An active enrollment is carried from step to step.  The links of the    *)
(* chain are invariants of their own: a fresh enrollment is in the hands   *)
(* of the process that has created it (CampaignsEnrollingProofs), a        *)
(* pending step send has one token, a step whose mail is recorded is       *)
(* advanced by the process that has recorded it, and a step without a row  *)
(* is about to be created.                                                 *)
(***************************************************************************)
EXTENDS CampaignsEnrollingProofs
-------------------------------------------------------------------------------
(***************************************************************************)
(* The shapes of the actions.  Of an action the rest of this module asks   *)
(* only what it does to the enrollments, the step sends and the queue, and *)
(* how its process goes on; that is read off the actions once.             *)
(***************************************************************************)
Takes(p, step, j, x, i, m) == Turn(p, step, j, x, m) /\ at' = [at EXCEPT ![p] = i]

\* The process goes on with all it holds, or with nothing.
GoesOn(p, step) == Takes(p, step, job[p], row[p], at[p], made[p])
Ends(p) == \E step \in {"idle", "returned"} : Takes(p, step, NoJob, NoRow, 0, {})

NobodyMoves == UNCHANGED <<pc, job, row, at, made>>
SameTable == UNCHANGED <<status, index, send, message>>

LEMMA Taken ==
    ASSUME BaseInv, NEW p \in Processes, NEW step, NEW j, NEW x, NEW i, NEW m,
           Takes(p, step, j, x, i, m)
    PROVE  /\ pc'[p] = step /\ job'[p] = j /\ row'[p] = x /\ at'[p] = i /\ made'[p] = m
           /\ \A q \in Processes \ {p} : /\ pc'[q] = pc[q] /\ job'[q] = job[q]
                                         /\ row'[q] = row[q] /\ at'[q] = at[q]
                                         /\ made'[q] = made[q]
BY DEF BaseInv, ProcessesOK, Turn, Takes

LEMMA FinishShape ==
    ASSUME NEW p \in Processes, Finish(p)
    PROVE  Ends(p)
BY DEF Finish, Goto, Turn, Takes, Ends

LEMMA ContinueShape ==
    ASSUME BaseInv, NEW p \in Processes, NEW step, Continue(p, step)
    PROVE  GoesOn(p, step)
BY DEF BaseInv, ProcessesOK, Continue, Goto, Turn, Takes, GoesOn, view, roster

LEMMA BeginShape ==
    ASSUME BaseInv, NEW w \in Processes
    PROVE  /\ \A r \in Runs : BeginEnroll(w, r) =>
                 /\ pc[w] = "idle" /\ SameTable /\ Q!Take(EnrollJob(r))
                 /\ Takes(w, "check", EnrollJob(r), row[w], at[w], made[w])
           /\ \A S \in SUBSET Contacts : Call(w, S) =>
                 /\ pc[w] = "idle" /\ SameTable /\ UNCHANGED queue /\ GoesOn(w, "check")
           /\ \A e \in Enrollments : BeginSchedule(w, e) =>
                 /\ pc[w] = "idle" /\ SameTable /\ Q!Take(ScheduleJob(e))
                 /\ Takes(w, "loadNext", ScheduleJob(e), row[w], at[w], made[w])
           /\ \A x \in Rows : BeginSend(w, x) =>
                 /\ pc[w] = "idle" /\ SameTable /\ Q!Take(SendJob(x))
                 /\ Takes(w, "load", SendJob(x), x, at[w], made[w])
           /\ \A x \in Rows : \A m \in Messages : \A t \in Reports : BeginReport(w, x, m, t) =>
                 LET j == <<"process-delivery-events", x, m, t>>
                 IN /\ pc[w] = "idle" /\ SameTable /\ j \in ReportJobs /\ Q!Take(j)
                    /\ Takes(w, "match", j, x, at[w], made[w])
<1>0. ProcessesOK
  BY DEF BaseInv
<1>1. ASSUME UNCHANGED database
      PROVE  SameTable
  BY <1>1 DEF SameTable, database, enrollments, sends
<1>2. ASSUME NEW r \in Runs, BeginEnroll(w, r)
      PROVE  /\ pc[w] = "idle" /\ SameTable /\ Q!Take(EnrollJob(r))
             /\ Takes(w, "check", EnrollJob(r), row[w], at[w], made[w])
  BY <1>0, <1>1, <1>2 DEF BeginEnroll, StartEnrolling, Goto, Takes, Turn, ProcessesOK, view, EnrollJob
<1>3. ASSUME NEW S \in SUBSET Contacts, Call(w, S)
      PROVE  pc[w] = "idle" /\ SameTable /\ UNCHANGED queue /\ GoesOn(w, "check")
  BY <1>0, <1>1, <1>3 DEF Call, StartEnrolling, Goto, Takes, Turn, GoesOn, ProcessesOK, view
<1>4. ASSUME NEW e \in Enrollments, BeginSchedule(w, e)
      PROVE  /\ pc[w] = "idle" /\ SameTable /\ Q!Take(ScheduleJob(e))
             /\ Takes(w, "loadNext", ScheduleJob(e), row[w], at[w], made[w])
  BY <1>0, <1>1, <1>4 DEF BeginSchedule, Goto, Takes, Turn, ProcessesOK, view, roster, ScheduleJob
<1>5. ASSUME NEW x \in Rows, BeginSend(w, x)
      PROVE  /\ pc[w] = "idle" /\ SameTable /\ Q!Take(SendJob(x))
             /\ Takes(w, "load", SendJob(x), x, at[w], made[w])
  BY <1>0, <1>1, <1>5 DEF BeginSend, Goto, Takes, Turn, ProcessesOK, view, roster, SendJob
<1>6. ASSUME NEW x \in Rows, NEW m \in Messages, NEW t \in Reports, BeginReport(w, x, m, t),
             NEW j, j = <<"process-delivery-events", x, m, t>>
      PROVE  /\ pc[w] = "idle" /\ SameTable /\ j \in ReportJobs /\ Q!Take(j)
             /\ Takes(w, "match", j, x, at[w], made[w])
  BY <1>0, <1>1, <1>6 DEF BeginReport, Goto, Takes, Turn, ProcessesOK, view, roster, ReportJobs
<1>7. QED
  BY <1>2, <1>3, <1>4, <1>5, <1>6

LEMMA EnrollShape ==
    ASSUME BaseInv, NEW p \in Processes
    PROVE  /\ \A c \in Contacts : CheckPreference(p, c) \/ CheckEnrolled(p, c) =>
                 SameTable /\ UNCHANGED queue /\ NobodyMoves
           /\ Create(p) =>
                 /\ pc[p] = "check" /\ UNCHANGED <<index, send, message, queue>>
                 /\ \/ UNCHANGED status /\ Ends(p)
                    \/ \E new \in SUBSET Enrollments, step \in {"count", "first"} :
                          /\ \A e \in new : status[e] = "none"
                          /\ status' = [e \in Enrollments |-> IF e \in new THEN "active" ELSE status[e]]
                          /\ Takes(p, step, job[p], row[p], at[p], new)
           /\ Count(p) => pc[p] = "count" /\ SameTable /\ UNCHANGED queue /\ GoesOn(p, "first")
           /\ \A e \in Enrollments : FindFirst(p, e) =>
                 /\ pc[p] = "first" /\ e \in made[p] /\ SameTable /\ UNCHANGED queue
                 /\ Takes(p, IF send[<<e, 1>>] = "none" THEN "insert" ELSE "first",
                          job[p], <<e, 1>>, at[p], made[p] \ {e})
           /\ EnrollDone(p) =>
                 pc[p] = "first" /\ made[p] = {} /\ SameTable /\ UNCHANGED queue /\ Ends(p)
<1>0. ProcessesOK
  BY DEF BaseInv
<1>1. ASSUME UNCHANGED database
      PROVE  SameTable
  BY <1>1 DEF SameTable, database, enrollments, sends
<1>2. ASSUME NEW c \in Contacts, CheckPreference(p, c) \/ CheckEnrolled(p, c)
      PROVE  SameTable /\ UNCHANGED queue /\ NobodyMoves
  BY <1>1, <1>2 DEF CheckPreference, CheckEnrolled, view, NobodyMoves
<1>3. ASSUME Create(p)
      PROVE  /\ pc[p] = "check" /\ UNCHANGED <<index, send, message, queue>>
             /\ \/ UNCHANGED status /\ Ends(p)
                \/ \E new \in SUBSET Enrollments, step \in {"count", "first"} :
                      /\ \A e \in new : status[e] = "none"
                      /\ status' = [e \in Enrollments |-> IF e \in new THEN "active" ELSE status[e]]
                      /\ Takes(p, step, job[p], row[p], at[p], new)
  <2>1. pc[p] = "check" /\ UNCHANGED <<send, message, queue>>
    BY <1>3 DEF Create, sends
  <2>2. DEFINE eligible == {c \in Contacts : checks[p][c] = "eligible"}
               new == {e \in Enrollments : Contact(e) \in eligible /\ Unused(e)}
  <2>3. CASE eligible = {}
    BY <1>3, <2>1, <2>3, FinishShape DEF Create
  <2>4. CASE eligible # {}
    <3>1. UNCHANGED <<index, job, view>>
          /\ status' = [e \in Enrollments |-> IF e \in new THEN "active" ELSE status[e]]
          /\ made' = [made EXCEPT ![p] = new]
          /\ Goto(p, IF job[p] \in EnrollJobs THEN "count" ELSE "first")
      BY <1>3, <2>4 DEF Create
    <3>2. \A e \in new : status[e] = "none"
      BY DEF Unused
    <3>3. PICK step \in {"count", "first"} : Takes(p, step, job[p], row[p], at[p], new)
      BY <1>0, <3>1 DEF Takes, Turn, Goto, view, ProcessesOK
    <3>4. new \in SUBSET Enrollments
      OBVIOUS
    <3>5. QED
      BY <2>1, <3>1, <3>2, <3>3, <3>4
  <2>5. QED
    BY <2>3, <2>4
<1>4. ASSUME Count(p)
      PROVE  pc[p] = "count" /\ SameTable /\ UNCHANGED queue /\ GoesOn(p, "first")
  BY <1>4, ContinueShape DEF Count, SameTable, sends
<1>5. ASSUME NEW e \in Enrollments, FindFirst(p, e)
      PROVE  /\ pc[p] = "first" /\ e \in made[p] /\ SameTable /\ UNCHANGED queue
             /\ Takes(p, IF send[<<e, 1>>] = "none" THEN "insert" ELSE "first",
                      job[p], <<e, 1>>, at[p], made[p] \ {e})
  BY <1>0, <1>1, <1>5 DEF FindFirst, Goto, Takes, Turn, ProcessesOK
<1>6. ASSUME EnrollDone(p)
      PROVE  pc[p] = "first" /\ made[p] = {} /\ SameTable /\ UNCHANGED queue /\ Ends(p)
  BY <1>1, <1>6, FinishShape DEF EnrollDone
<1>7. QED
  BY <1>2, <1>3, <1>4, <1>5, <1>6

LEMMA ScheduleShape ==
    ASSUME BaseInv, NEW p \in Processes
    PROVE  /\ LoadNext(p) =>
                 /\ pc[p] = "loadNext" /\ SameTable /\ UNCHANGED queue
                 /\ LET e == job[p][2]
                    IN \/ /\ Active(e) /\ index[e] \in Steps
                          /\ Takes(p, "find", job[p], <<e, index[e]>>, at[p], made[p])
                       \/ ~(Active(e) /\ index[e] \in Steps) /\ Ends(p)
           /\ Find(p) =>
                 /\ pc[p] = "find" /\ SameTable /\ UNCHANGED queue
                 /\ \/ send[row[p]] = "none" /\ GoesOn(p, "insert")
                    \/ send[row[p]] # "none" /\ Ends(p)
           /\ Insert(p) =>
                 /\ pc[p] = "insert" /\ UNCHANGED <<status, index, message>> /\ row[p] \in Rows
                 /\ \/ /\ send[row[p]] = "none" /\ send' = [send EXCEPT ![row[p]] = "pending"]
                       /\ UNCHANGED queue /\ GoesOn(p, "publish")
                    \/ /\ send[row[p]] # "none" /\ UNCHANGED send /\ Ends(p)
                       /\ IF job[p] \in Jobs THEN Q!GiveBack(job[p]) ELSE UNCHANGED queue
           /\ Publish(p) =>
                 /\ pc[p] = "publish" /\ SameTable /\ row[p] \in Rows /\ Q!Publish(SendJob(row[p]))
                 /\ (Ends(p) /\ job[p] \in ScheduleJobs) \/ GoesOn(p, "first")
<1>0. ProcessesOK
  BY DEF BaseInv
<1>1. ASSUME UNCHANGED database
      PROVE  SameTable
  BY <1>1 DEF SameTable, database, enrollments, sends
<1>2. ASSUME LoadNext(p), NEW e, e = job[p][2]
      PROVE  /\ pc[p] = "loadNext" /\ SameTable /\ UNCHANGED queue
             /\ \/ /\ Active(e) /\ index[e] \in Steps
                   /\ Takes(p, "find", job[p], <<e, index[e]>>, at[p], made[p])
                \/ ~(Active(e) /\ index[e] \in Steps) /\ Ends(p)
  <2>1. CASE Active(e) /\ index[e] \in Steps
    BY <1>0, <1>1, <1>2, <2>1 DEF LoadNext, Active, Goto, Takes, Turn, roster, ProcessesOK
  <2>2. CASE ~(Active(e) /\ index[e] \in Steps)
    BY <1>1, <1>2, <2>2, FinishShape DEF LoadNext, Active
  <2>3. QED
    BY <2>1, <2>2
<1>3. ASSUME Find(p)
      PROVE  /\ pc[p] = "find" /\ SameTable /\ UNCHANGED queue
             /\ \/ send[row[p]] = "none" /\ GoesOn(p, "insert")
                \/ send[row[p]] # "none" /\ Ends(p)
  BY <1>1, <1>3, FinishShape, ContinueShape DEF Find
<1>4. ASSUME Insert(p)
      PROVE  /\ pc[p] = "insert" /\ UNCHANGED <<status, index, message>> /\ row[p] \in Rows
             /\ \/ /\ send[row[p]] = "none" /\ send' = [send EXCEPT ![row[p]] = "pending"]
                   /\ UNCHANGED queue /\ GoesOn(p, "publish")
                \/ /\ send[row[p]] # "none" /\ UNCHANGED send /\ Ends(p)
                   /\ IF job[p] \in Jobs THEN Q!GiveBack(job[p]) ELSE UNCHANGED queue
  BY <1>4, FinishShape, ContinueShape DEF Insert, Stop, enrollments, BaseInv, Hands, Holds
<1>5. ASSUME Publish(p)
      PROVE  /\ pc[p] = "publish" /\ SameTable /\ row[p] \in Rows /\ Q!Publish(SendJob(row[p]))
             /\ (Ends(p) /\ job[p] \in ScheduleJobs) \/ GoesOn(p, "first")
  BY <1>1, <1>5, FinishShape, ContinueShape DEF Publish, SendJob, BaseInv, Hands, Holds
<1>6. QED
  BY <1>2, <1>3, <1>4, <1>5
LEMMA SendShape ==
    ASSUME BaseInv, NEW p \in Processes
    PROVE  /\ Load(p) =>
                 /\ pc[p] = "load" /\ SameTable /\ UNCHANGED queue
                 /\ \/ send[row[p]] = "pending" /\ GoesOn(p, "loadEnrollment")
                    \/ send[row[p]] # "pending" /\ Ends(p)
           /\ LoadEnrollment(p) =>
                 /\ pc[p] = "loadEnrollment" /\ SameTable /\ UNCHANGED queue
                 /\ Takes(p, "loadSequence", job[p], row[p], index[row[p][1]], made[p])
           /\ LoadSequence(p) =>
                 pc[p] = "loadSequence" /\ SameTable /\ UNCHANGED queue /\ GoesOn(p, "bars")
           /\ CheckBars(p) =>
                 /\ pc[p] = "bars" /\ SameTable /\ UNCHANGED queue
                 /\ \E step \in {"skipOut", "mail", "skip"} : GoesOn(p, step)
           /\ MarkSkipped(p) =>
                 /\ pc[p] \in {"skip", "skipOut"} /\ UNCHANGED <<status, index, message, queue>>
                 /\ send' = [send EXCEPT ![row[p]] = "skipped"]
                 /\ Ends(p) \/ GoesOn(p, "exit")
           /\ ExitEnrollment(p) =>
                 /\ pc[p] = "exit" /\ UNCHANGED <<index, send, message, queue>> /\ Ends(p)
                 /\ status' = [status EXCEPT ![row[p][1]] = "exited"]
           /\ Mail(p) => pc[p] = "mail" /\ SameTable /\ UNCHANGED queue /\ GoesOn(p, "markSent")
           /\ MarkSent(p) =>
                 /\ pc[p] = "markSent" /\ UNCHANGED <<status, index, queue>>
                 /\ send' = [send EXCEPT ![row[p]] = "sent"]
                 /\ message' = [message EXCEPT ![row[p]] = receipt[p]]
                 /\ GoesOn(p, "advance")
           /\ Advance(p) =>
                 /\ pc[p] = "advance" /\ UNCHANGED <<send, message, queue>>
                 /\ index' = [index EXCEPT ![row[p][1]] = at[p] + 1]
                 /\ \/ /\ status' = [status EXCEPT ![row[p][1]] = "completed"] /\ Ends(p)
                    \/ /\ UNCHANGED status /\ at[p] + 1 <= LastStep /\ GoesOn(p, "enqueueNext")
           /\ EnqueueNext(p) =>
                 /\ pc[p] = "enqueueNext" /\ SameTable /\ Ends(p)
                 /\ Q!Publish(ScheduleJob(row[p][1]))
<1>0. ProcessesOK
  BY DEF BaseInv
<1>1. ASSUME UNCHANGED database
      PROVE  SameTable
  BY <1>1 DEF SameTable, database, enrollments, sends
<1>2. ASSUME Load(p)
      PROVE  /\ pc[p] = "load" /\ SameTable /\ UNCHANGED queue
             /\ \/ send[row[p]] = "pending" /\ GoesOn(p, "loadEnrollment")
                \/ send[row[p]] # "pending" /\ Ends(p)
  BY <1>1, <1>2, FinishShape, ContinueShape DEF Load
<1>11. ASSUME LoadEnrollment(p)
       PROVE  /\ pc[p] = "loadEnrollment" /\ SameTable /\ UNCHANGED queue
              /\ Takes(p, "loadSequence", job[p], row[p], index[row[p][1]], made[p])
  BY <1>0, <1>1, <1>11 DEF LoadEnrollment, Goto, Takes, Turn, roster, ProcessesOK
<1>12. ASSUME LoadSequence(p)
       PROVE  pc[p] = "loadSequence" /\ SameTable /\ UNCHANGED queue /\ GoesOn(p, "bars")
  BY <1>0, <1>1, <1>12 DEF LoadSequence, Goto, GoesOn, Takes, Turn, roster, ProcessesOK
<1>3. ASSUME CheckBars(p)
      PROVE  /\ pc[p] = "bars" /\ SameTable /\ UNCHANGED queue
             /\ \E step \in {"skipOut", "mail", "skip"} : GoesOn(p, step)
  BY <1>1, <1>3, ContinueShape DEF CheckBars
<1>4. ASSUME MarkSkipped(p)
      PROVE  /\ pc[p] \in {"skip", "skipOut"} /\ UNCHANGED <<status, index, message, queue>>
             /\ send' = [send EXCEPT ![row[p]] = "skipped"]
             /\ Ends(p) \/ GoesOn(p, "exit")
  BY <1>4, FinishShape, ContinueShape DEF MarkSkipped, enrollments
<1>5. ASSUME ExitEnrollment(p)
      PROVE  /\ pc[p] = "exit" /\ UNCHANGED <<index, send, message, queue>> /\ Ends(p)
             /\ status' = [status EXCEPT ![row[p][1]] = "exited"]
  BY <1>5, FinishShape DEF ExitEnrollment, sends
<1>6. ASSUME Mail(p)
      PROVE  pc[p] = "mail" /\ SameTable /\ UNCHANGED queue /\ GoesOn(p, "markSent")
  BY <1>0, <1>1, <1>6 DEF Mail, Goto, GoesOn, Takes, Turn, roster, ProcessesOK
<1>7. ASSUME MarkSent(p)
      PROVE  /\ pc[p] = "markSent" /\ UNCHANGED <<status, index, queue>>
             /\ send' = [send EXCEPT ![row[p]] = "sent"]
             /\ message' = [message EXCEPT ![row[p]] = receipt[p]]
             /\ GoesOn(p, "advance")
  BY <1>7, ContinueShape DEF MarkSent, enrollments
<1>8. ASSUME Advance(p)
      PROVE  /\ pc[p] = "advance" /\ UNCHANGED <<send, message, queue>>
             /\ index' = [index EXCEPT ![row[p][1]] = at[p] + 1]
             /\ \/ /\ status' = [status EXCEPT ![row[p][1]] = "completed"] /\ Ends(p)
                \/ /\ UNCHANGED status /\ at[p] + 1 <= LastStep /\ GoesOn(p, "enqueueNext")
  BY <1>8, FinishShape, ContinueShape DEF Advance, sends
<1>9. ASSUME EnqueueNext(p)
      PROVE  /\ pc[p] = "enqueueNext" /\ SameTable /\ Ends(p)
             /\ Q!Publish(ScheduleJob(row[p][1]))
  BY <1>1, <1>9, FinishShape DEF EnqueueNext, ScheduleJob
<1>10. QED
  BY <1>2, <1>3, <1>4, <1>5, <1>6, <1>7, <1>8, <1>9, <1>11, <1>12

LEMMA ReportShape ==
    ASSUME BaseInv, NEW p \in Processes
    PROVE  /\ Match(p) =>
                 /\ pc[p] = "match" /\ SameTable /\ UNCHANGED queue
                 /\ \/ message[row[p]] = job[p][3] /\ GoesOn(p, "mark")
                    \/ Ends(p)
           /\ MarkReported(p) =>
                 /\ pc[p] = "mark" /\ UNCHANGED <<status, index, message, queue>>
                 /\ \E v \in {"delivered", "failed"} : send' = [send EXCEPT ![row[p]] = v]
                 /\ Ends(p) \/ GoesOn(p, "suppress")
           /\ Suppress(p) =>
                 pc[p] = "suppress" /\ SameTable /\ UNCHANGED queue /\ GoesOn(p, "leave")
           /\ ExitSuppressed(p) =>
                 /\ pc[p] = "leave" /\ UNCHANGED <<index, send, message, queue>> /\ Ends(p)
                 /\ Exit(Contact(row[p][1]))
<1>1. ASSUME UNCHANGED database
      PROVE  SameTable
  BY <1>1 DEF SameTable, database, enrollments, sends
<1>2. ASSUME Match(p)
      PROVE  /\ pc[p] = "match" /\ SameTable /\ UNCHANGED queue
             /\ \/ message[row[p]] = job[p][3] /\ GoesOn(p, "mark")
                \/ Ends(p)
  BY <1>1, <1>2, FinishShape, ContinueShape DEF Match
<1>3. ASSUME MarkReported(p)
      PROVE  /\ pc[p] = "mark" /\ UNCHANGED <<status, index, message, queue>>
             /\ \E v \in {"delivered", "failed"} : send' = [send EXCEPT ![row[p]] = v]
             /\ Ends(p) \/ GoesOn(p, "suppress")
  BY <1>3, FinishShape, ContinueShape DEF MarkReported, enrollments
<1>4. ASSUME Suppress(p)
      PROVE  pc[p] = "suppress" /\ SameTable /\ UNCHANGED queue /\ GoesOn(p, "leave")
  BY <1>4, ContinueShape DEF Suppress, SameTable, enrollments, sends
<1>5. ASSUME ExitSuppressed(p)
      PROVE  /\ pc[p] = "leave" /\ UNCHANGED <<index, send, message, queue>> /\ Ends(p)
             /\ Exit(Contact(row[p][1]))
  BY <1>5, FinishShape DEF ExitSuppressed, sends
<1>6. QED
  BY <1>2, <1>3, <1>4, <1>5

LEMMA EnvironmentShape ==
    /\ \A r \in Runs : StartRun(r) => SameTable /\ NobodyMoves /\ Q!Publish(EnrollJob(r))
    /\ \A b \in BOOLEAN : SetPaused(b) => SameTable /\ NobodyMoves /\ UNCHANGED queue
    /\ \A c \in Contacts :
          /\ Unsubscribe(c) => SameTable /\ NobodyMoves /\ UNCHANGED queue
          /\ Leave(c) => UNCHANGED <<index, send, message, queue>> /\ NobodyMoves /\ Exit(c)
    /\ \A x \in Rows : \A m \in Messages : \A t \in Reports : Report(x, m, t) =>
          /\ SameTable /\ NobodyMoves
          /\ \E j \in ReportJobs : Q!Publish(j)
<1>1. ASSUME NEW r \in Runs, StartRun(r)
      PROVE  SameTable /\ NobodyMoves /\ Q!Publish(EnrollJob(r))
  BY <1>1 DEF StartRun, SameTable, NobodyMoves, EnrollJob, enrollments, sends, view, roster
<1>2. ASSUME NEW b \in BOOLEAN, SetPaused(b)
      PROVE  SameTable /\ NobodyMoves /\ UNCHANGED queue
  BY <1>2 DEF SetPaused, SameTable, NobodyMoves, enrollments, sends, view, roster
<1>3. ASSUME NEW c \in Contacts
      PROVE  /\ Unsubscribe(c) => SameTable /\ NobodyMoves /\ UNCHANGED queue
             /\ Leave(c) => UNCHANGED <<index, send, message, queue>> /\ NobodyMoves /\ Exit(c)
  BY DEF Unsubscribe, Leave, SameTable, NobodyMoves, enrollments, sends, view, roster
<1>4. ASSUME NEW x \in Rows, NEW m \in Messages, NEW t \in Reports, Report(x, m, t)
      PROVE  SameTable /\ NobodyMoves /\ \E j \in ReportJobs : Q!Publish(j)
  <2>1. <<"process-delivery-events", x, m, t>> \in ReportJobs
    BY DEF ReportJobs
  <2>2. QED
    BY <1>4, <2>1 DEF Report, SameTable, NobodyMoves, database, enrollments, sends, view, roster
<1>5. QED
  BY <1>1, <1>2, <1>3, <1>4

\* A mishap of a process changes no table and halts what CutOff and Dropped say.
LEMMA MishapShape ==
    ASSUME BaseInv
    PROVE  /\ \A p \in Processes : Interrupt(p) =>
                 /\ pc[p] \in Busy /\ SameTable /\ Ends(p)
                 /\ IF job[p] \in Jobs THEN Q!GiveBack(job[p]) ELSE UNCHANGED queue
                 /\ CutOff(p) \subseteq halted' /\ (queue' = queue => Dropped(job[p]) \subseteq halted')
           /\ \A p \in Processes : Redeliver(p) =>
                 /\ pc[p] \in Busy /\ SameTable /\ NobodyMoves /\ job[p] \in Jobs /\ Q!Publish(job[p])
                 /\ pc[p] \in BeforeMark => InHand(p) \subseteq halted'
           /\ \A j \in Jobs : Drain(j) =>
                 SameTable /\ NobodyMoves /\ Q!Take(j) /\ Dropped(j) \subseteq halted'
           /\ \A r \in Runs : StartRunStops(r) => SameTable /\ NobodyMoves /\ UNCHANGED queue
           /\ \A c \in Contacts :
                 RequestStops(c) \/ LoseAddress(c) => SameTable /\ NobodyMoves /\ UNCHANGED queue
<1>1. ASSUME UNCHANGED database
      PROVE  SameTable
  BY <1>1 DEF SameTable, database, enrollments, sends
<1>2. ASSUME NEW p \in Processes, Interrupt(p)
      PROVE  /\ pc[p] \in Busy /\ SameTable /\ Ends(p)
             /\ IF job[p] \in Jobs THEN Q!GiveBack(job[p]) ELSE UNCHANGED queue
             /\ CutOff(p) \subseteq halted' /\ (queue' = queue => Dropped(job[p]) \subseteq halted')
  BY <1>1, <1>2, FinishShape DEF Interrupt, Stop
<1>3. ASSUME NEW p \in Processes, Redeliver(p)
      PROVE  /\ pc[p] \in Busy /\ SameTable /\ NobodyMoves /\ job[p] \in Jobs /\ Q!Publish(job[p])
             /\ pc[p] \in BeforeMark => InHand(p) \subseteq halted'
  BY <1>1, <1>3 DEF Redeliver, NobodyMoves, view, roster
<1>4. ASSUME NEW j \in Jobs, Drain(j)
      PROVE  SameTable /\ NobodyMoves /\ Q!Take(j) /\ Dropped(j) \subseteq halted'
  BY <1>1, <1>4 DEF Drain, Q!Drain, NobodyMoves, view, roster
<1>5. ASSUME NEW r \in Runs, StartRunStops(r)
      PROVE  SameTable /\ NobodyMoves /\ UNCHANGED queue
  BY <1>5 DEF StartRunStops, SameTable, NobodyMoves, enrollments, sends, view, roster
<1>6. ASSUME NEW c \in Contacts, RequestStops(c) \/ LoseAddress(c)
      PROVE  SameTable /\ NobodyMoves /\ UNCHANGED queue
  BY <1>6 DEF RequestStops, LoseAddress, SameTable, NobodyMoves, enrollments, sends, view, roster
<1>7. QED
  BY <1>2, <1>3, <1>4, <1>5, <1>6

-------------------------------------------------------------------------------
(***************************************************************************)
(* The token of a step send.  A pending row has exactly one token, in the  *)
(* queue or in the hands of one process, unless its enrollment is halted:  *)
(* as long as it is pending somebody will send it.  CampaignsOnceProofs    *)
(* has at most one token, for the rows that are not at risk; here none is  *)
(* lost either.                                                            *)
(***************************************************************************)
TokenRow(x) ==
    /\ send[x] = "none" => queue[SendJob(x)] = 0 /\ \A p \in Processes : ~Token(p, x)
    /\ send[x] = "pending" =>
          /\ queue[SendJob(x)] <= 1
          /\ queue[SendJob(x)] = 1 => \A p \in Processes : ~Token(p, x)
          /\ queue[SendJob(x)] = 0 => \E p \in Processes : Token(p, x)
          /\ \A p, q \in Processes : Token(p, x) /\ Token(q, x) => p = q
    /\ send[x] \notin Open => \A p \in Processes : Token(p, x) => pc[p] = "load"
    /\ \A p \in Processes : row[p] = x /\ pc[p] \in Later => send[x] \notin Open

TokenInv == \A x \in Rows : x[1] \notin halted => TokenRow(x)

Bears(step, r, x) == r = x /\ step \in {"publish"} \cup BeforeMark

\* What p is to keep to when it goes on at a step with row r.
Bearing(p, step, r, x) ==
    /\ Bears(step, r, x) => Token(p, x)
    /\ Token(p, x) /\ send[x] = "pending" => Bears(step, r, x)
    /\ send[x] \notin Open /\ Bears(step, r, x) => step = "load"
    /\ r = x /\ step \in Later => send[x] \notin Open

LEMMA TokenFrame ==
    ASSUME NEW x \in Rows, TokenRow(x), send'[x] = send[x],
           queue'[SendJob(x)] = queue[SendJob(x)],
           \A q \in Processes : \/ pc'[q] = pc[q] /\ row'[q] = row[q]
                                \/ Bearing(q, pc'[q], row'[q], x)
    PROVE  TokenRow(x)'
<1>1. \A q \in Processes : Token(q, x)' => Token(q, x)
  BY DEF Bearing, Bears, Token
<1>2. \A q \in Processes : send[x] = "pending" /\ Token(q, x) => Token(q, x)'
  BY DEF Bearing, Bears, Token
<1>3. \A q \in Processes : send[x] \notin Open /\ Token(q, x)' => pc'[q] = "load"
  BY DEF Bearing, Bears, Token, TokenRow
<1>4. \A q \in Processes : row'[q] = x /\ pc'[q] \in Later => send[x] \notin Open
  BY DEF Bearing, TokenRow
<1>5. send[x] = "pending" /\ queue[SendJob(x)] = 0 => \E q \in Processes : Token(q, x)'
  BY <1>2 DEF TokenRow
<1>6. QED
  BY <1>1, <1>3, <1>4, <1>5 DEF TokenRow, SendJob

LEMMA TokenStill ==
    ASSUME NEW x \in Rows, TokenRow(x), NobodyMoves, send'[x] = send[x],
           queue'[SendJob(x)] = queue[SendJob(x)]
    PROVE  TokenRow(x)'
BY TokenFrame DEF NobodyMoves

LEMMA TokenTakes ==
    ASSUME BaseInv, NEW x \in Rows, TokenRow(x), send'[x] = send[x],
           queue'[SendJob(x)] = queue[SendJob(x)], NEW p \in Processes,
           NEW step, NEW j, NEW r, NEW i, NEW m, Takes(p, step, j, r, i, m),
           Bearing(p, step, r, x)
    PROVE  TokenRow(x)'
BY Taken, TokenFrame

LEMMA TokenEnds ==
    ASSUME BaseInv, NEW x \in Rows, TokenRow(x), send'[x] = send[x],
           queue'[SendJob(x)] = queue[SendJob(x)], NEW p \in Processes,
           Ends(p), ~Token(p, x) \/ send[x] # "pending"
    PROVE  TokenRow(x)'
<1>1. PICK step \in {"idle", "returned"} : Takes(p, step, NoJob, NoRow, 0, {})
  BY DEF Ends
<1>2. Bearing(p, step, NoRow, x)
  BY NoneAssumption DEF Bearing, Bears
<1>3. QED
  BY <1>1, <1>2, TokenTakes

\* Jobs that are not those of the row do not concern its token.
LEMMA OtherQueue ==
    ASSUME BaseInv, NEW x \in Rows, NEW j \in Jobs, j # SendJob(x),
           Q!Publish(j) \/ Q!Take(j) \/ Q!GiveBack(j)
    PROVE  queue'[SendJob(x)] = queue[SendJob(x)]
BY OtherJobs DEF BaseInv

\* The token in the hands of one process.
LEMMA HeldToken ==
    ASSUME BaseInv, NEW x \in Rows, TokenRow(x), NEW p \in Processes, Token(p, x)
    PROVE  /\ send[x] # "none"
           /\ send[x] = "pending" =>
                 /\ queue[SendJob(x)] = 0
                 /\ \A q \in Processes \ {p} : ~Token(q, x)
           /\ pc[p] # "load" => send[x] = "pending"
<1>1. queue[SendJob(x)] \in Nat /\ (send[x] # "none" /\ send[x] # "pending" => send[x] \notin Open)
  BY OwnJobs DEF BaseInv, Open
<1>2. QED
  BY <1>1 DEF TokenRow

LEMMA EnvironmentTokens ==
    ASSUME BaseInv, NEW x \in Rows, TokenRow(x)
    PROVE  /\ \A r \in Runs : StartRun(r) => TokenRow(x)'
           /\ \A b \in BOOLEAN : SetPaused(b) => TokenRow(x)'
           /\ \A c \in Contacts : Unsubscribe(c) \/ Leave(c) => TokenRow(x)'
           /\ \A y \in Rows : \A m \in Messages : \A t \in Reports :
                 Report(y, m, t) => TokenRow(x)'
<1>1. ASSUME NEW j \in Jobs \ {SendJob(x)}, Q!Publish(j) \/ UNCHANGED queue, NobodyMoves,
             UNCHANGED send
      PROVE  TokenRow(x)'
  <2>1. queue'[SendJob(x)] = queue[SendJob(x)]
    BY <1>1, OtherQueue
  <2>2. QED
    BY <1>1, <2>1, TokenStill
<1>2. (EnrollJobs \cup ReportJobs \subseteq Jobs) /\ SendJob(x) \notin EnrollJobs \cup ReportJobs
      /\ \A r \in Runs : EnrollJob(r) \in Jobs \ {SendJob(x)}
  BY JobSets, JobKinds, EnrollJobKinds
<1>3. NobodyMoves /\ UNCHANGED <<send, queue>> => TokenRow(x)'
  BY TokenStill
<1>4. ASSUME NEW r \in Runs, StartRun(r)
      PROVE  TokenRow(x)'
  BY <1>1, <1>2, <1>4, EnvironmentShape DEF SameTable
<1>5. ASSUME NEW y \in Rows, NEW m \in Messages, NEW t \in Reports, Report(y, m, t)
      PROVE  TokenRow(x)'
  <2>1. SameTable /\ NobodyMoves /\ \E j \in ReportJobs : Q!Publish(j)
    BY <1>5, EnvironmentShape
  <2>2. QED
    BY <2>1, <1>1, <1>2 DEF SameTable
<1>6. QED
  BY <1>3, <1>4, <1>5, EnvironmentShape DEF SameTable

LEMMA BeginTokens ==
    ASSUME BaseInv, NEW x \in Rows, TokenRow(x), NEW w \in Processes
    PROVE  /\ Begin(w) => TokenRow(x)'
           /\ \A S \in SUBSET Contacts : Call(w, S) => TokenRow(x)'
<1>1. ASSUME UNCHANGED send, queue'[SendJob(x)] = queue[SendJob(x)], pc[w] = "idle",
             NEW step \in {"check", "loadNext", "match", "load"},
             NEW j, NEW r, NEW i, NEW m, Takes(w, step, j, r, i, m), r = x => step # "load"
      PROVE  TokenRow(x)'
  <2>1. Bearing(w, step, r, x)
    BY <1>1 DEF Bearing, Bears, Token, BeforeMark, Later
  <2>2. QED
    BY <1>1, <2>1, TokenTakes
<1>2. ASSUME NEW r \in Runs, BeginEnroll(w, r)
      PROVE  TokenRow(x)'
  <2>1. queue'[SendJob(x)] = queue[SendJob(x)]
    BY <1>2, BeginShape, EnrollJobKinds, JobKinds, OtherQueue
  <2>2. QED
    BY <1>1, <1>2, <2>1, BeginShape DEF SameTable
<1>3. ASSUME NEW S \in SUBSET Contacts, Call(w, S)
      PROVE  TokenRow(x)'
  BY <1>1, <1>3, BeginShape DEF SameTable, GoesOn
<1>4. ASSUME NEW e \in Enrollments, BeginSchedule(w, e)
      PROVE  TokenRow(x)'
  <2>1. queue'[SendJob(x)] = queue[SendJob(x)]
    BY <1>4, BeginShape, ScheduleJobKinds, JobKinds, OtherQueue
  <2>2. QED
    BY <1>1, <1>4, <2>1, BeginShape DEF SameTable
<1>5. ASSUME NEW y \in Rows, NEW m \in Messages, NEW t \in Reports, BeginReport(w, y, m, t)
      PROVE  TokenRow(x)'
  <2>1. PICK j \in ReportJobs : /\ pc[w] = "idle" /\ SameTable /\ Q!Take(j)
                                /\ Takes(w, "match", j, y, at[w], made[w])
    BY <1>5, BeginShape
  <2>2. queue'[SendJob(x)] = queue[SendJob(x)]
    BY <2>1, JobSets, JobKinds, OtherQueue
  <2>3. QED
    BY <1>1, <2>1, <2>2 DEF SameTable
<1>6. ASSUME NEW y \in Rows, BeginSend(w, y)
      PROVE  TokenRow(x)'
  <2>1. /\ pc[w] = "idle" /\ UNCHANGED send /\ Q!Take(SendJob(y))
        /\ Takes(w, "load", SendJob(y), y, at[w], made[w])
    BY <1>6, BeginShape DEF SameTable
  <2>2. CASE y # x
    <3>1. queue'[SendJob(x)] = queue[SendJob(x)]
      BY <2>1, <2>2, JobKinds, OtherQueue
    <3>2. QED
      BY <1>1, <2>1, <2>2, <3>1
  <2>3. CASE y = x
    <3>1. queue[SendJob(x)] > 0 /\ queue'[SendJob(x)] = queue[SendJob(x)] - 1
          /\ queue[SendJob(x)] \in Nat
      BY <2>1, <2>3, OwnJobs DEF BaseInv
    <3>2. /\ pc'[w] = "load" /\ row'[w] = x
          /\ \A q \in Processes \ {w} : pc'[q] = pc[q] /\ row'[q] = row[q]
      BY <2>1, <2>3, Taken
    <3>3. Token(w, x)' /\ \A q \in Processes \ {w} : Token(q, x)' <=> Token(q, x)
      BY <3>2 DEF Token, BeforeMark
    <3>4. send[x] # "none"
      BY <3>1 DEF TokenRow
    <3>5. send[x] = "pending" => /\ queue'[SendJob(x)] = 0
                                 /\ \A q \in Processes : ~Token(q, x)
      BY <3>1 DEF TokenRow
    <3>6. \A q \in Processes : row'[q] = x /\ pc'[q] \in Later => send[x] \notin Open
      BY <3>2 DEF Later, TokenRow
    <3>7. send[x] \notin Open => \A q \in Processes : Token(q, x)' => pc'[q] = "load"
      BY <3>2, <3>3 DEF TokenRow
    <3>8. QED
      BY <2>1, <3>3, <3>4, <3>5, <3>6, <3>7 DEF TokenRow, SendJob
  <2>4. QED
    BY <2>2, <2>3
<1>7. QED
  BY <1>2, <1>3, <1>4, <1>5, <1>6 DEF Begin
\* Somebody moves between steps at which no row is at stake.
LEMMA TokenAside ==
    ASSUME BaseInv, NEW x \in Rows, TokenRow(x), NEW p \in Processes,
           pc[p] \notin {"publish"} \cup BeforeMark, send'[x] = send[x],
           queue'[SendJob(x)] = queue[SendJob(x)],
           \/ Ends(p)
           \/ \E step, r, m : Takes(p, step, job[p], r, at[p], m)
                              /\ step \notin {"publish"} \cup BeforeMark \cup Later
    PROVE  TokenRow(x)'
<1>1. ~Token(p, x)
  BY DEF Token
<1>2. ASSUME NEW step, NEW r, NEW m, Takes(p, step, job[p], r, at[p], m),
             step \notin {"publish"} \cup BeforeMark \cup Later
      PROVE  TokenRow(x)'
  BY <1>1, <1>2, TokenTakes DEF Bearing, Bears
<1>3. QED
  BY <1>1, <1>2, TokenEnds

LEMMA EnrollTokens ==
    ASSUME BaseInv, NEW x \in Rows, TokenRow(x), NEW p \in Processes
    PROVE  /\ \A c \in Contacts : CheckPreference(p, c) \/ CheckEnrolled(p, c) => TokenRow(x)'
           /\ Create(p) \/ Count(p) \/ EnrollDone(p) => TokenRow(x)'
           /\ \A e \in Enrollments : FindFirst(p, e) => TokenRow(x)'
<1>0. \A step \in {"check", "count", "first", "insert"} : step \notin {"publish"} \cup BeforeMark \cup Later
  BY DEF BeforeMark, Later
<1>1. ASSUME NEW c \in Contacts, CheckPreference(p, c) \/ CheckEnrolled(p, c)
      PROVE  TokenRow(x)'
  BY <1>1, EnrollShape, TokenStill DEF SameTable
<1>2. ASSUME Create(p)
      PROVE  TokenRow(x)'
  <2>1. /\ pc[p] = "check" /\ UNCHANGED <<send, queue>>
        /\ \/ Ends(p)
           \/ \E new \in SUBSET Enrollments, step \in {"count", "first"} :
                 Takes(p, step, job[p], row[p], at[p], new)
    BY <1>2, EnrollShape
  <2>2. pc[p] \notin {"publish"} \cup BeforeMark
    BY <1>0, <2>1
  <2>3. ASSUME NEW new, NEW step \in {"count", "first"},
               Takes(p, step, job[p], row[p], at[p], new)
        PROVE  TokenRow(x)'
    BY <1>0, <2>1, <2>2, <2>3, TokenAside
  <2>4. QED
    BY <2>1, <2>2, <2>3, TokenAside
<1>3. ASSUME Count(p)
      PROVE  TokenRow(x)'
  <2>1. pc[p] = "count" /\ UNCHANGED <<send, queue>> /\ GoesOn(p, "first")
    BY <1>3, EnrollShape DEF SameTable
  <2>2. QED
    BY <1>0, <2>1, TokenAside DEF GoesOn
<1>4. ASSUME EnrollDone(p)
      PROVE  TokenRow(x)'
  BY <1>0, <1>4, EnrollShape, TokenAside DEF SameTable
<1>5. ASSUME NEW e \in Enrollments, FindFirst(p, e)
      PROVE  TokenRow(x)'
  <2>1. /\ pc[p] = "first" /\ UNCHANGED <<send, queue>>
        /\ \E step \in {"insert", "first"} : Takes(p, step, job[p], <<e, 1>>, at[p], made[p] \ {e})
    BY <1>5, EnrollShape DEF SameTable
  <2>2. QED
    BY <1>0, <2>1, TokenAside
<1>6. QED
  BY <1>1, <1>2, <1>3, <1>4, <1>5

LEMMA ScheduleTokens ==
    ASSUME BaseInv, NEW x \in Rows, TokenRow(x), NEW p \in Processes
    PROVE  LoadNext(p) \/ Find(p) \/ Insert(p) \/ Publish(p) => TokenRow(x)'
<1>0. \A step \in {"loadNext", "find", "insert", "first"} :
         step \notin {"publish"} \cup BeforeMark \cup Later
  BY DEF BeforeMark, Later
<1>1. ASSUME LoadNext(p)
      PROVE  TokenRow(x)'
  <2>1. /\ pc[p] = "loadNext" /\ UNCHANGED <<send, queue>>
        /\ Ends(p) \/ \E r : Takes(p, "find", job[p], r, at[p], made[p])
    BY <1>1, ScheduleShape DEF SameTable
  <2>2. QED
    BY <1>0, <2>1, TokenAside
<1>2. ASSUME Find(p)
      PROVE  TokenRow(x)'
  <2>1. pc[p] = "find" /\ UNCHANGED <<send, queue>> /\ (Ends(p) \/ GoesOn(p, "insert"))
    BY <1>2, ScheduleShape DEF SameTable
  <2>2. QED
    BY <1>0, <2>1, TokenAside DEF GoesOn
<1>3. ASSUME Insert(p)
      PROVE  TokenRow(x)'
  <2>1. pc[p] = "insert" /\ row[p] \in Rows /\ ~Token(p, x)
        /\ job[p] \in EnrollJobs \cup ScheduleJobs \cup {NoJob}
    BY <1>0, <1>3, ScheduleShape DEF BaseInv, Hands, Holds, Token
  <2>2. CASE send[row[p]] = "none" /\ send' = [send EXCEPT ![row[p]] = "pending"]
             /\ UNCHANGED queue /\ GoesOn(p, "publish")
    <3>1. /\ pc'[p] = "publish" /\ row'[p] = row[p]
          /\ \A q \in Processes \ {p} : pc'[q] = pc[q] /\ row'[q] = row[q]
      BY <2>2, Taken DEF GoesOn
    <3>2. CASE row[p] # x
      <4>1. send'[x] = send[x]
        BY <2>1, <2>2, <3>2 DEF BaseInv, TablesOK
      <4>2. Bearing(p, "publish", row[p], x)
        BY <2>1, <3>2 DEF Bearing, Bears
      <4>3. QED
        BY <2>2, <4>1, <4>2, TokenTakes DEF GoesOn
    <3>3. CASE row[p] = x
      <4>1. send'[x] = "pending" /\ queue'[SendJob(x)] = 0
        BY <2>1, <2>2, <3>3 DEF BaseInv, TablesOK, TokenRow
      <4>2. \A q \in Processes : ~Token(q, x) /\ ~(row[q] = x /\ pc[q] \in Later)
        BY <2>2, <3>3 DEF TokenRow, Open
      <4>3. Token(p, x)' /\ \A q \in Processes \ {p} : ~Token(q, x)'
        BY <3>1, <3>3, <4>2 DEF Token
      <4>4. \A q \in Processes : ~(row'[q] = x /\ pc'[q] \in Later)
        BY <3>1, <4>2 DEF Later
      <4>5. QED
        BY <4>1, <4>3, <4>4 DEF TokenRow, Open, SendJob
    <3>4. QED
      BY <3>2, <3>3
  <2>3. CASE UNCHANGED send /\ Ends(p)
             /\ IF job[p] \in Jobs THEN Q!GiveBack(job[p]) ELSE UNCHANGED queue
    <3>1. queue'[SendJob(x)] = queue[SendJob(x)]
      BY <2>1, <2>3, JobKinds, OtherQueue
    <3>2. QED
      BY <2>1, <2>3, <3>1, TokenEnds
  <2>4. QED
    BY <1>3, <2>2, <2>3, ScheduleShape
<1>4. ASSUME Publish(p)
      PROVE  TokenRow(x)'
  <2>1. /\ pc[p] = "publish" /\ UNCHANGED send /\ row[p] \in Rows /\ Q!Publish(SendJob(row[p]))
        /\ Ends(p) \/ GoesOn(p, "first")
    BY <1>4, ScheduleShape DEF SameTable
  <2>2. CASE row[p] # x
    <3>1. queue'[SendJob(x)] = queue[SendJob(x)]
      BY <2>1, <2>2, JobKinds, OtherQueue
    <3>2. ~Token(p, x) /\ Bearing(p, "first", row[p], x)
      BY <2>2 DEF Token, Bearing, Bears
    <3>3. QED
      BY <2>1, <3>1, <3>2, TokenEnds, TokenTakes DEF GoesOn
  <2>3. CASE row[p] = x
    <3>1. Token(p, x) /\ pc[p] # "load"
      BY <2>1, <2>3 DEF Token
    <3>2. queue'[SendJob(x)] = queue[SendJob(x)] + 1
      BY <2>1, <2>3, OwnJobs DEF BaseInv
    <3>3. send[x] = "pending" /\ queue'[SendJob(x)] = 1
          /\ \A q \in Processes \ {p} : ~Token(q, x)
      BY <3>1, <3>2, HeldToken
    <3>4. /\ pc'[p] \in {"idle", "returned", "first"}
          /\ \A q \in Processes \ {p} : pc'[q] = pc[q] /\ row'[q] = row[q]
      BY <2>1, Taken DEF Ends, GoesOn
    <3>5. \A q \in Processes : ~Token(q, x)'
      BY <3>3, <3>4 DEF Token, BeforeMark
    <3>6. \A q \in Processes : ~(row'[q] = x /\ pc'[q] \in Later)
      BY <3>3, <3>4 DEF Later, TokenRow, Open
    <3>7. QED
      BY <2>1, <3>3, <3>5, <3>6 DEF TokenRow, SendJob
  <2>4. QED
    BY <2>2, <2>3
<1>5. QED
  BY <1>1, <1>2, <1>3, <1>4

\* The holder of the token settles the row.
LEMMA TokenSettles ==
    ASSUME BaseInv, NEW x \in Rows, TokenRow(x), UNCHANGED queue,
           NEW p \in Processes, Token(p, x), send[x] = "pending", send'[x] \notin Open,
           pc'[p] \notin {"publish"} \cup BeforeMark,
           \A q \in Processes \ {p} : pc'[q] = pc[q] /\ row'[q] = row[q]
    PROVE  TokenRow(x)'
<1>1. \A q \in Processes : ~Token(q, x)'
  BY HeldToken DEF Token
<1>2. QED
  BY <1>1 DEF TokenRow, Open, SendJob

LEMMA SendTokens ==
    ASSUME BaseInv, NEW x \in Rows, TokenRow(x), NEW p \in Processes
    PROVE  /\ Load(p) \/ LoadEnrollment(p) \/ LoadSequence(p) => TokenRow(x)'
           /\ CheckBars(p) \/ MarkSkipped(p) \/ ExitEnrollment(p) => TokenRow(x)'
           /\ Mail(p) \/ MarkSent(p) \/ Advance(p) \/ EnqueueNext(p) => TokenRow(x)'
<1>0. pc[p] \in SendSteps => row[p] \in Rows
  BY DEF BaseInv, Hands, Holds
\* Past the load, a row in hand is pending.
<1>a. ASSUME pc[p] \in BeforeMark \ {"load"}, row[p] = x
      PROVE  Token(p, x) /\ send[x] = "pending"
  BY <1>a, HeldToken DEF Token, BeforeMark
<1>b. ASSUME pc[p] \in BeforeMark, send[row[p]] = "pending", UNCHANGED <<send, queue>>,
             NEW step \in BeforeMark, NEW i, Takes(p, step, job[p], row[p], i, made[p])
      PROVE  TokenRow(x)'
  <2>1. Bearing(p, step, row[p], x)
    BY <1>b DEF Bearing, Bears, Token, Open, Later, BeforeMark
  <2>2. QED
    BY <1>b, <2>1, TokenTakes
<1>1. ASSUME Load(p)
      PROVE  TokenRow(x)'
  <2>1. pc[p] = "load" /\ UNCHANGED <<send, queue>>
        /\ \/ send[row[p]] = "pending" /\ GoesOn(p, "loadEnrollment")
           \/ send[row[p]] # "pending" /\ Ends(p)
    BY <1>1, SendShape DEF SameTable
  <2>2. send[row[p]] # "pending" => ~Token(p, x) \/ send[x] # "pending"
    BY DEF Token
  <2>3. QED
    BY <1>b, <2>1, <2>2, TokenEnds DEF BeforeMark, GoesOn
<1>10. ASSUME LoadEnrollment(p) \/ LoadSequence(p)
       PROVE  TokenRow(x)'
  <2>1. /\ pc[p] \in {"loadEnrollment", "loadSequence"} /\ UNCHANGED <<send, queue>>
        /\ \E step \in {"loadSequence", "bars"}, i \in {at[p], index[row[p][1]]} :
                 Takes(p, step, job[p], row[p], i, made[p])
    BY <1>10, SendShape DEF SameTable, GoesOn
  <2>2. PICK step \in {"loadSequence", "bars"}, i \in {at[p], index[row[p][1]]} :
                 Takes(p, step, job[p], row[p], i, made[p])
    BY <2>1
  <2>3. row[p] = x => send[row[p]] = "pending"
    BY <1>a, <2>1 DEF BeforeMark
  <2>4. row[p] # x => Bearing(p, step, row[p], x)
    BY DEF Bearing, Bears, Token
  <2>5. QED
    BY <1>b, <2>1, <2>2, <2>3, <2>4, TokenTakes DEF BeforeMark
<1>2. ASSUME CheckBars(p)
      PROVE  TokenRow(x)'
  <2>1. pc[p] = "bars" /\ UNCHANGED <<send, queue>>
    BY <1>2, SendShape DEF SameTable
  <2>2. PICK step \in {"skipOut", "mail", "skip"} : GoesOn(p, step)
    BY <1>2, SendShape
  <2>3. row[p] = x => send[row[p]] = "pending"
    BY <1>a, <2>1 DEF BeforeMark
  <2>4. row[p] # x => Bearing(p, step, row[p], x)
    BY DEF Bearing, Bears, Token
  <2>5. QED
    BY <1>b, <2>1, <2>2, <2>3, <2>4, TokenTakes DEF BeforeMark, GoesOn
<1>3. ASSUME MarkSkipped(p)
      PROVE  TokenRow(x)'
  <2>1. /\ pc[p] \in {"skip", "skipOut"} /\ UNCHANGED queue /\ row[p] \in Rows
        /\ send' = [send EXCEPT ![row[p]] = "skipped"]
        /\ Ends(p) \/ GoesOn(p, "exit")
    BY <1>0, <1>3, SendShape DEF SendSteps
  <2>2. CASE row[p] = x
    <3>1. Token(p, x) /\ send[x] = "pending"
      BY <1>a, <2>1, <2>2 DEF BeforeMark
    <3>2. send'[x] = "skipped"
      BY <2>1, <2>2 DEF BaseInv, TablesOK
    <3>3. /\ pc'[p] \in {"idle", "returned", "exit"}
          /\ \A q \in Processes \ {p} : pc'[q] = pc[q] /\ row'[q] = row[q]
      BY <2>1, Taken DEF Ends, GoesOn
    <3>4. QED
      BY <2>1, <3>1, <3>2, <3>3, TokenSettles DEF Open, BeforeMark
  <2>3. CASE row[p] # x
    <3>1. send'[x] = send[x] /\ ~Token(p, x) /\ Bearing(p, "exit", row[p], x)
      BY <2>1, <2>3 DEF BaseInv, TablesOK, Token, Bearing, Bears
    <3>2. QED
      BY <2>1, <3>1, TokenEnds, TokenTakes DEF GoesOn
  <2>4. QED
    BY <2>2, <2>3
<1>4. ASSUME ExitEnrollment(p)
      PROVE  TokenRow(x)'
  BY <1>4, SendShape, TokenAside DEF BeforeMark
<1>5. ASSUME Mail(p)
      PROVE  TokenRow(x)'
  <2>1. pc[p] = "mail" /\ UNCHANGED <<send, queue>> /\ GoesOn(p, "markSent")
    BY <1>5, SendShape DEF SameTable
  <2>2. row[p] = x => send[row[p]] = "pending"
    BY <1>a, <2>1 DEF BeforeMark
  <2>3. row[p] # x => Bearing(p, "markSent", row[p], x)
    BY DEF Bearing, Bears, Token
  <2>4. QED
    BY <1>b, <2>1, <2>2, <2>3, TokenTakes DEF BeforeMark, GoesOn
<1>6. ASSUME MarkSent(p)
      PROVE  TokenRow(x)'
  <2>1. pc[p] = "markSent" /\ UNCHANGED queue /\ row[p] \in Rows
        /\ send' = [send EXCEPT ![row[p]] = "sent"] /\ GoesOn(p, "advance")
    BY <1>0, <1>6, SendShape DEF SendSteps
  <2>2. CASE row[p] = x
    <3>1. Token(p, x) /\ send[x] = "pending"
      BY <1>a, <2>1, <2>2 DEF BeforeMark
    <3>2. send'[x] = "sent"
      BY <2>1, <2>2 DEF BaseInv, TablesOK
    <3>3. /\ pc'[p] = "advance"
          /\ \A q \in Processes \ {p} : pc'[q] = pc[q] /\ row'[q] = row[q]
      BY <2>1, Taken DEF GoesOn
    <3>4. QED
      BY <2>1, <3>1, <3>2, <3>3, TokenSettles DEF Open, BeforeMark
  <2>3. CASE row[p] # x
    <3>1. send'[x] = send[x] /\ Bearing(p, "advance", row[p], x)
      BY <2>1, <2>3 DEF BaseInv, TablesOK, Token, Bearing, Bears
    <3>2. QED
      BY <2>1, <3>1, TokenTakes DEF GoesOn
  <2>4. QED
    BY <2>2, <2>3
<1>7. ASSUME Advance(p)
      PROVE  TokenRow(x)'
  <2>1. pc[p] = "advance" /\ UNCHANGED <<send, queue>> /\ (Ends(p) \/ GoesOn(p, "enqueueNext"))
    BY <1>7, SendShape
  <2>2. ~Token(p, x) /\ (row[p] = x => send[x] \notin Open)
    BY <2>1 DEF Token, BeforeMark, TokenRow, Later
  <2>3. Bearing(p, "enqueueNext", row[p], x)
    BY <2>2 DEF Bearing, Bears, BeforeMark
  <2>4. QED
    BY <2>1, <2>2, <2>3, TokenEnds, TokenTakes DEF GoesOn
<1>8. ASSUME EnqueueNext(p)
      PROVE  TokenRow(x)'
  <2>1. pc[p] = "enqueueNext" /\ row[p] \in Rows /\ Ends(p) /\ UNCHANGED send
        /\ Q!Publish(ScheduleJob(row[p][1]))
    BY <1>0, <1>8, SendShape DEF SendSteps, SameTable
  <2>2. queue'[SendJob(x)] = queue[SendJob(x)]
    BY <2>1, RowParts, ScheduleJobKinds, JobKinds, OtherQueue
  <2>3. QED
    BY <2>1, <2>2, TokenAside DEF BeforeMark
<1>9. QED
  BY <1>1, <1>2, <1>3, <1>4, <1>5, <1>6, <1>7, <1>8, <1>10

LEMMA ReportTokens ==
    ASSUME BaseInv, OrderInv, NEW x \in Rows, TokenRow(x), NEW p \in Processes
    PROVE  Match(p) \/ MarkReported(p) \/ Suppress(p) \/ ExitSuppressed(p) => TokenRow(x)'
<1>0. \A step \in ReportSteps : step \notin {"publish"} \cup BeforeMark \cup Later
  BY DEF ReportSteps, BeforeMark, Later
<1>1. ASSUME Match(p)
      PROVE  TokenRow(x)'
  <2>1. pc[p] = "match" /\ UNCHANGED <<send, queue>> /\ (Ends(p) \/ GoesOn(p, "mark"))
    BY <1>1, ReportShape DEF SameTable
  <2>2. QED
    BY <1>0, <2>1, TokenAside DEF ReportSteps, GoesOn
<1>2. ASSUME MarkReported(p)
      PROVE  TokenRow(x)'
  <2>1. pc[p] = "mark" /\ UNCHANGED queue /\ (Ends(p) \/ GoesOn(p, "suppress"))
        /\ row[p] \in Rows /\ send[row[p]] \notin Open
    BY <1>2, ReportShape DEF BaseInv, Hands, Holds, ReportSteps, OrderInv, EveryoneIsSound, Sound, Done
  <2>2. PICK v \in {"delivered", "failed"} : send' = [send EXCEPT ![row[p]] = v]
    BY <1>2, ReportShape
  <2>3. CASE row[p] # x
    <3>1. send'[x] = send[x]
      BY <2>1, <2>2, <2>3 DEF BaseInv, TablesOK
    <3>2. QED
      BY <1>0, <2>1, <3>1, TokenAside DEF ReportSteps, GoesOn
  <2>4. CASE row[p] = x
    <3>1. send[x] \notin Open /\ send'[x] \notin Open
      BY <2>1, <2>2, <2>4 DEF BaseInv, TablesOK, Open
    <3>2. /\ pc'[p] \in {"idle", "returned", "suppress"}
          /\ \A q \in Processes \ {p} : pc'[q] = pc[q] /\ row'[q] = row[q]
      BY <2>1, Taken DEF Ends, GoesOn
    <3>3. \A q \in Processes : Token(q, x)' => pc'[q] = "load"
      BY <3>1, <3>2 DEF Token, BeforeMark, TokenRow
    <3>4. QED
      BY <3>1, <3>3 DEF TokenRow, Open
  <2>5. QED
    BY <2>3, <2>4
<1>3. ASSUME Suppress(p)
      PROVE  TokenRow(x)'
  BY <1>0, <1>3, ReportShape, TokenAside DEF ReportSteps, SameTable, GoesOn
<1>4. ASSUME ExitSuppressed(p)
      PROVE  TokenRow(x)'
  BY <1>0, <1>4, ReportShape, TokenAside DEF ReportSteps
<1>5. QED
  BY <1>1, <1>2, <1>3, <1>4

\* A job of a step send that is handled is in the hands of a worker that has its row.
LEMMA SenderHasRow ==
    ASSUME BaseInv, NEW x \in Rows, NEW p \in Processes, pc[p] \in Busy, job[p] = SendJob(x)
    PROVE  pc[p] \in SendSteps /\ row[p] = x
<1>1. job[p] \notin EnrollJobs \cup ScheduleJobs \cup ReportJobs \cup {NoJob}
  BY JobKinds
<1>2. pc[p] \in SendSteps
  BY <1>1 DEF BaseInv, Hands, Holds, Busy, EnrollSteps, ScheduleSteps
<1>3. QED
  BY <1>2, JobKinds DEF BaseInv, Hands, Holds, SendJob

\* The enrollment of a row that is dropped, or in the hands of who stops.
LEMMA RowDropped ==
    ASSUME NEW x \in Rows
    PROVE  /\ x[1] \in Dropped(SendJob(x))
           /\ \A p \in Processes : row[p] = x => x[1] \in InHand(p)
BY RowParts DEF Dropped, SendJob, InHand

LEMMA MishapTokens ==
    ASSUME BaseInv, NEW x \in Rows, TokenRow(x), x[1] \notin halted', GoesWrong
    PROVE  TokenRow(x)'
<1>1. ASSUME NEW p \in Processes, Interrupt(p)
      PROVE  TokenRow(x)'
  <2>1. /\ pc[p] \in Busy /\ UNCHANGED send /\ Ends(p)
        /\ IF job[p] \in Jobs THEN Q!GiveBack(job[p]) ELSE UNCHANGED queue
        /\ x[1] \notin CutOff(p) /\ (queue' = queue => x[1] \notin Dropped(job[p]))
    BY <1>1, MishapShape DEF SameTable
  <2>2. /\ pc'[p] \in {"idle", "returned"}
        /\ \A q \in Processes \ {p} : pc'[q] = pc[q] /\ row'[q] = row[q]
    BY <2>1, Taken DEF Ends
  <2>3. CASE job[p] # SendJob(x)
    <3>1. queue'[SendJob(x)] = queue[SendJob(x)]
      BY <2>1, <2>3, OtherQueue
    <3>2. ASSUME Token(p, x)
          PROVE  FALSE
      <4>1. pc[p] = "publish" /\ row[p] = x
        BY <2>3, <3>2 DEF Token, BaseInv, Hands, Holds, BeforeMark, SendSteps, SendJob
      <4>2. QED
        BY <2>1, <4>1, RowDropped DEF CutOff
    <3>3. QED
      BY <2>1, <3>1, <3>2, TokenEnds
  <2>4. CASE job[p] = SendJob(x)
    <3>1. pc[p] \in SendSteps /\ row[p] = x
      BY <2>1, <2>4, SenderHasRow
    <3>2. queue' # queue
      BY <2>1, <2>4, RowDropped
    <3>3. queue'[SendJob(x)] = queue[SendJob(x)] + 1
      BY <2>1, <2>4, <3>2, OwnJobs DEF BaseInv, Q!GiveBack
    <3>4. \A q \in Processes : Token(q, x)' => q # p /\ Token(q, x) /\ pc'[q] = pc[q]
      BY <2>2 DEF Token, BeforeMark
    <3>5. \A q \in Processes : row'[q] = x /\ pc'[q] \in Later => send[x] \notin Open
      BY <2>2 DEF Later, TokenRow
    <3>6. CASE send[x] \notin Open
      BY <2>1, <3>4, <3>6 DEF TokenRow, Open
    <3>7. CASE send[x] \in Open
      <4>1. Token(p, x)
        BY <3>1, <3>7 DEF TokenRow, Token, SendSteps, BeforeMark, Later
      <4>2. send[x] = "pending" /\ queue'[SendJob(x)] = 1 /\ \A q \in Processes : ~Token(q, x)'
        BY <3>3, <3>4, <3>7, <4>1, HeldToken DEF Open
      <4>3. QED
        BY <2>1, <3>5, <4>2 DEF TokenRow, SendJob
    <3>8. QED
      BY <3>6, <3>7
  <2>5. QED
    BY <2>3, <2>4
<1>2. ASSUME NEW w \in Processes, Redeliver(w)
      PROVE  TokenRow(x)'
  <2>1. /\ pc[w] \in Busy /\ UNCHANGED send /\ NobodyMoves /\ job[w] \in Jobs /\ Q!Publish(job[w])
        /\ pc[w] \in BeforeMark => x[1] \notin InHand(w)
    BY <1>2, MishapShape DEF SameTable
  <2>2. CASE job[w] # SendJob(x)
    <3>1. queue'[SendJob(x)] = queue[SendJob(x)]
      BY <2>1, <2>2, OtherQueue
    <3>2. QED
      BY <2>1, <3>1, TokenStill
  <2>3. CASE job[w] = SendJob(x)
    <3>1. pc[w] \in SendSteps /\ row[w] = x
      BY <2>1, <2>3, SenderHasRow
    <3>2. pc[w] \in Later
      BY <2>1, <3>1, RowDropped DEF SendSteps, BeforeMark, Later
    <3>3. send[x] \notin Open
      BY <3>1, <3>2 DEF TokenRow
    <3>4. \A q \in Processes : Token(q, x)' <=> Token(q, x)
      BY <2>1 DEF Token, NobodyMoves
    <3>5. QED
      BY <2>1, <3>3, <3>4 DEF TokenRow, Open, NobodyMoves
  <2>4. QED
    BY <2>2, <2>3
<1>3. ASSUME NEW j \in Jobs, Drain(j)
      PROVE  TokenRow(x)'
  <2>1. UNCHANGED send /\ NobodyMoves /\ Q!Take(j) /\ j # SendJob(x)
    BY <1>3, MishapShape, RowDropped DEF SameTable
  <2>2. queue'[SendJob(x)] = queue[SendJob(x)]
    BY <2>1, OtherQueue
  <2>3. QED
    BY <2>1, <2>2, TokenStill
<1>4. SameTable /\ NobodyMoves /\ UNCHANGED queue => TokenRow(x)'
  BY TokenStill DEF SameTable
<1>5. QED
  BY <1>1, <1>2, <1>3, <1>4, MishapShape DEF GoesWrong, Processes

LEMMA InitTokens ==
    ASSUME Init
    PROVE  TokenInv
BY JobKinds DEF Init, TokenInv, TokenRow, Token, BeforeMark, Later, Open, Q!Empty

LEMMA StepTokens ==
    ASSUME BaseInv, OrderInv, TokenInv, [Next]_vars
    PROVE  TokenInv'
<1>1. SUFFICES ASSUME NEW x \in Rows, x[1] \notin halted'
               PROVE  TokenRow(x)'
  BY DEF TokenInv
<1>2. TokenRow(x)
  BY <1>1, RiskStays DEF TokenInv
<1>3. CASE Work
  BY <1>2, <1>3, BeginTokens, EnrollTokens, ScheduleTokens, SendTokens, ReportTokens DEF Work, Step
<1>4. CASE Environment
  BY <1>2, <1>4, EnvironmentTokens, BeginTokens DEF Environment, Processes
<1>5. CASE GoesWrong
  BY <1>1, <1>2, <1>5, MishapTokens
<1>6. CASE UNCHANGED vars
  <2>1. NobodyMoves /\ UNCHANGED <<send, queue>>
    BY <1>6 DEF vars, database, sends, view, roster, NobodyMoves
  <2>2. QED
    BY <1>2, <2>1, TokenStill
<1>7. QED
  BY <1>3, <1>4, <1>5, <1>6 DEF Next

\* A pending step send is never lost: one job or one process has it, until its
\* enrollment is halted.
THEOREM TokenInvariant == Spec => []TokenInv
BY BaseInvariant, OrderInvariant, InitTokens, StepTokens, PTL DEF Spec

-------------------------------------------------------------------------------
(***************************************************************************)
(* The step index.  Without a halt it is set once per step and only        *)
(* forward, by the process that has recorded the mail of the step the      *)
(* enrollment is at; a recorded step that the index has not passed is in   *)
(* the hands of that process.                                              *)
(***************************************************************************)
Recorded == {"sent", "delivered", "failed"}

\* What a process at a step knows of its row and the index it has read.
Ahead(step, r, a, x, i, s) ==
    r = x =>
        /\ step = "mark" => s[x] \in Recorded
        /\ step \in BeforeMark \ {"load", "loadEnrollment"} => a = x[2]
        /\ step = "advance" => a = x[2] /\ i[x[1]] = x[2]
        /\ step \in {"find", "insert"} => x[2] <= i[x[1]]

AtAdvance(p, x) == row[p] = x /\ pc[p] = "advance"

ForwardRow(x) ==
    /\ \A p \in Processes : Ahead(pc[p], row[p], at[p], x, index, send)
    /\ \A p, q \in Processes : AtAdvance(p, x) /\ AtAdvance(q, x) => p = q
    /\ message[x] > 0 => send[x] \in Recorded
    /\ send[x] # "none" => x[2] <= index[x[1]]
    /\ send[x] \in Recorded /\ index[x[1]] = x[2] => \E p \in Processes : AtAdvance(p, x)

ForwardInv == \A x \in Rows : x[1] \notin halted => ForwardRow(x)

\* A handler is outrun only where a job was handled twice.
OutrunIsHalted == outrun \subseteq halted

\* The tables keep what ForwardRow says of a row.
RowKept(x) ==
    /\ index'[x[1]] = index[x[1]]
    /\ message'[x] = message[x]
    /\ send'[x] \in Recorded <=> send[x] \in Recorded
    /\ send'[x] # "none" => send[x] # "none" \/ x[2] <= index[x[1]]

LEMMA ForwardFrame ==
    ASSUME NEW x \in Rows, ForwardRow(x), RowKept(x),
           \A q \in Processes :
              \/ pc'[q] = pc[q] /\ row'[q] = row[q] /\ at'[q] = at[q]
              \/ /\ Ahead(pc'[q], row'[q], at'[q], x, index, send)
                 /\ AtAdvance(q, x)' <=> AtAdvance(q, x)
    PROVE  ForwardRow(x)'
<1>1. \A q \in Processes : AtAdvance(q, x)' <=> AtAdvance(q, x)
  BY DEF AtAdvance
<1>2. \A q \in Processes : Ahead(pc'[q], row'[q], at'[q], x, index, send)
  BY DEF ForwardRow
<1>3. \A q \in Processes : Ahead(pc[q], row[q], at[q], x, index, send)'
  BY <1>2 DEF Ahead, RowKept
<1>4. QED
  BY <1>1, <1>3 DEF ForwardRow, RowKept

LEMMA ForwardStill ==
    ASSUME NEW x \in Rows, ForwardRow(x), RowKept(x), NobodyMoves
    PROVE  ForwardRow(x)'
BY ForwardFrame DEF NobodyMoves

LEMMA ForwardTakes ==
    ASSUME BaseInv, NEW x \in Rows, ForwardRow(x), RowKept(x), NEW p \in Processes,
           NEW step, NEW j, NEW r, NEW i, NEW m, Takes(p, step, j, r, i, m),
           Ahead(step, r, i, x, index, send), ~AtAdvance(p, x), step # "advance" \/ r # x
    PROVE  ForwardRow(x)'
<1>1. pc'[p] = step /\ row'[p] = r /\ at'[p] = i
      /\ \A q \in Processes \ {p} : pc'[q] = pc[q] /\ row'[q] = row[q] /\ at'[q] = at[q]
  BY Taken
<1>2. AtAdvance(p, x)' <=> AtAdvance(p, x)
  BY <1>1 DEF AtAdvance
<1>3. QED
  BY <1>1, <1>2, ForwardFrame

LEMMA ForwardEnds ==
    ASSUME BaseInv, NEW x \in Rows, ForwardRow(x), RowKept(x), NEW p \in Processes,
           Ends(p), ~AtAdvance(p, x)
    PROVE  ForwardRow(x)'
<1>1. PICK step \in {"idle", "returned"} : Takes(p, step, NoJob, NoRow, 0, {})
  BY DEF Ends
<1>2. Ahead(step, NoRow, 0, x, index, send) /\ NoRow # x
  BY NoneAssumption DEF Ahead
<1>3. QED
  BY <1>1, <1>2, ForwardTakes

LEMMA SameTableKept ==
    ASSUME NEW x \in Rows
    PROVE  /\ SameTable => RowKept(x)
           /\ UNCHANGED <<index, send, message>> => RowKept(x)
BY DEF SameTable, RowKept

\* Steps at which nothing is known of the row.
Unknowing == {"idle", "returned", "check", "count", "first", "loadNext", "publish", "load",
              "loadEnrollment", "exit", "enqueueNext", "match", "suppress", "leave"}

LEMMA UnknowingAhead ==
    ASSUME NEW step \in Unknowing, NEW r, NEW a, NEW x, NEW i, NEW s
    PROVE  Ahead(step, r, a, x, i, s) /\ step # "advance"
BY DEF Unknowing, Ahead, BeforeMark

LEMMA BeginForward ==
    ASSUME BaseInv, NEW x \in Rows, ForwardRow(x), NEW w \in Processes
    PROVE  /\ Begin(w) => ForwardRow(x)'
           /\ \A S \in SUBSET Contacts : Call(w, S) => ForwardRow(x)'
<1>1. ASSUME SameTable, pc[w] = "idle", NEW step \in {"check", "loadNext", "match", "load"},
             NEW j, NEW r, NEW i, NEW m, Takes(w, step, j, r, i, m)
      PROVE  ForwardRow(x)'
  <2>1. step \in Unknowing /\ ~AtAdvance(w, x)
    BY <1>1 DEF Unknowing, AtAdvance
  <2>2. QED
    BY <1>1, <2>1, UnknowingAhead, SameTableKept, ForwardTakes
<1>2. ASSUME NEW r \in Runs, BeginEnroll(w, r)
      PROVE  ForwardRow(x)'
  BY <1>1, <1>2, BeginShape
<1>3. ASSUME NEW S \in SUBSET Contacts, Call(w, S)
      PROVE  ForwardRow(x)'
  BY <1>1, <1>3, BeginShape DEF GoesOn
<1>4. ASSUME NEW e \in Enrollments, BeginSchedule(w, e)
      PROVE  ForwardRow(x)'
  BY <1>1, <1>4, BeginShape
<1>5. ASSUME NEW y \in Rows, BeginSend(w, y)
      PROVE  ForwardRow(x)'
  BY <1>1, <1>5, BeginShape
<1>6. ASSUME NEW y \in Rows, NEW m \in Messages, NEW t \in Reports, BeginReport(w, y, m, t)
      PROVE  ForwardRow(x)'
  BY <1>1, <1>6, BeginShape
<1>7. QED
  BY <1>2, <1>3, <1>4, <1>5, <1>6 DEF Begin

LEMMA EnrollForward ==
    ASSUME BaseInv, WithinInv, NEW x \in Rows, ForwardRow(x), NEW p \in Processes
    PROVE  /\ \A c \in Contacts : CheckPreference(p, c) \/ CheckEnrolled(p, c) => ForwardRow(x)'
           /\ Create(p) \/ Count(p) \/ EnrollDone(p) => ForwardRow(x)'
           /\ \A e \in Enrollments : FindFirst(p, e) => ForwardRow(x)'
<1>0. pc[p] \in {"check", "count", "first"} => ~AtAdvance(p, x)
  BY DEF AtAdvance
<1>7. \A e \in Enrollments : 1 <= index[e]
  BY DEF WithinInv, IndexWithin
<1>1. ASSUME NEW c \in Contacts, CheckPreference(p, c) \/ CheckEnrolled(p, c)
      PROVE  ForwardRow(x)'
  BY <1>1, EnrollShape, SameTableKept, ForwardStill
<1>2. ASSUME Create(p)
      PROVE  ForwardRow(x)'
  <2>1. /\ pc[p] = "check" /\ UNCHANGED <<index, send, message>>
        /\ \/ Ends(p)
           \/ \E new \in SUBSET Enrollments, step \in {"count", "first"} :
                 Takes(p, step, job[p], row[p], at[p], new)
    BY <1>2, EnrollShape
  <2>2. ASSUME NEW new, NEW step \in {"count", "first"}, Takes(p, step, job[p], row[p], at[p], new)
        PROVE  ForwardRow(x)'
    <3>1. step \in Unknowing
      BY DEF Unknowing
    <3>2. QED
      BY <1>0, <2>1, <2>2, <3>1, UnknowingAhead, SameTableKept, ForwardTakes
  <2>3. QED
    BY <1>0, <2>1, <2>2, SameTableKept, ForwardEnds
<1>3. ASSUME Count(p)
      PROVE  ForwardRow(x)'
  <2>1. pc[p] = "count" /\ SameTable /\ GoesOn(p, "first") /\ "first" \in Unknowing
    BY <1>3, EnrollShape DEF Unknowing
  <2>2. QED
    BY <1>0, <2>1, UnknowingAhead, SameTableKept, ForwardTakes DEF GoesOn
<1>4. ASSUME EnrollDone(p)
      PROVE  ForwardRow(x)'
  BY <1>0, <1>4, EnrollShape, SameTableKept, ForwardEnds
<1>5. ASSUME NEW e \in Enrollments, FindFirst(p, e)
      PROVE  ForwardRow(x)'
  <2>1. PICK step \in {"insert", "first"} : Takes(p, step, job[p], <<e, 1>>, at[p], made[p] \ {e})
    BY <1>5, EnrollShape
  <2>2. pc[p] = "first" /\ RowKept(x)
    BY <1>5, EnrollShape, SameTableKept
  <2>3. Ahead(step, <<e, 1>>, at[p], x, index, send)
    BY <1>7 DEF Ahead, BeforeMark
  <2>4. QED
    BY <1>0, <2>1, <2>2, <2>3, ForwardTakes
<1>6. QED
  BY <1>1, <1>2, <1>3, <1>4, <1>5

LEMMA ScheduleForward ==
    ASSUME BaseInv, OrderInv, NEW x \in Rows, ForwardRow(x), NEW p \in Processes
    PROVE  LoadNext(p) \/ Find(p) \/ Insert(p) \/ Publish(p) => ForwardRow(x)'
<1>0. pc[p] \in ScheduleSteps => ~AtAdvance(p, x)
  BY DEF AtAdvance, ScheduleSteps
<1>1. ASSUME LoadNext(p)
      PROVE  ForwardRow(x)'
  <2>1. pc[p] = "loadNext" /\ SameTable
    BY <1>1, ScheduleShape
  <2>2. ASSUME NEW e, index[e] \in Steps, Takes(p, "find", job[p], <<e, index[e]>>, at[p], made[p])
        PROVE  ForwardRow(x)'
    <3>1. Ahead("find", <<e, index[e]>>, at[p], x, index, send)
      BY <2>2 DEF Ahead, BeforeMark, Steps
    <3>2. QED
      BY <1>0, <2>1, <2>2, <3>1, SameTableKept, ForwardTakes DEF ScheduleSteps
  <2>3. QED
    BY <1>0, <1>1, <2>1, <2>2, ScheduleShape, SameTableKept, ForwardEnds DEF ScheduleSteps
<1>2. ASSUME Find(p)
      PROVE  ForwardRow(x)'
  <2>1. pc[p] = "find" /\ SameTable /\ (Ends(p) \/ GoesOn(p, "insert"))
    BY <1>2, ScheduleShape
  <2>2. Ahead("insert", row[p], at[p], x, index, send)
    BY <2>1 DEF ForwardRow, Ahead, BeforeMark
  <2>3. QED
    BY <1>0, <2>1, <2>2, SameTableKept, ForwardEnds, ForwardTakes DEF ScheduleSteps, GoesOn
<1>3. ASSUME Insert(p)
      PROVE  ForwardRow(x)'
  <2>1. /\ pc[p] = "insert" /\ UNCHANGED <<index, message>> /\ row[p] \in Rows
        /\ \/ /\ send[row[p]] = "none" /\ send' = [send EXCEPT ![row[p]] = "pending"]
              /\ GoesOn(p, "publish")
           \/ UNCHANGED send /\ Ends(p)
    BY <1>3, ScheduleShape
  <2>2. row[p] = x => x[2] <= index[x[1]]
    BY <2>1 DEF ForwardRow, Ahead
  <2>3. RowKept(x)
    BY <2>1, <2>2 DEF RowKept, Recorded, BaseInv, TablesOK
  <2>4. "publish" \in Unknowing
    BY DEF Unknowing
  <2>5. QED
    BY <1>0, <2>1, <2>3, <2>4, UnknowingAhead, ForwardEnds, ForwardTakes DEF ScheduleSteps, GoesOn
<1>4. ASSUME Publish(p)
      PROVE  ForwardRow(x)'
  <2>1. pc[p] = "publish" /\ SameTable /\ (Ends(p) \/ GoesOn(p, "first")) /\ "first" \in Unknowing
    BY <1>4, ScheduleShape DEF Unknowing
  <2>2. QED
    BY <1>0, <2>1, UnknowingAhead, SameTableKept, ForwardEnds, ForwardTakes DEF ScheduleSteps, GoesOn
<1>5. QED
  BY <1>1, <1>2, <1>3, <1>4
\* A pending row is the step its enrollment is at.
LEMMA PendingIsNext ==
    ASSUME BaseInv, OrderInv, NEW x \in Rows, x[1] \notin outrun, ForwardRow(x), send[x] = "pending"
    PROVE  index[x[1]] = x[2]
<1>1. x[1] \in Enrollments /\ x[2] \in Steps /\ x = <<x[1], x[2]>>
  BY RowParts
<1>2. ~(x[2] < index[x[1]])
  BY <1>1 DEF OrderInv, OrderTables, IndexFollowsDone, Done, Open
<1>3. x[2] <= index[x[1]] /\ index[x[1]] \in Nat /\ x[2] \in Nat
  BY <1>1 DEF ForwardRow, BaseInv, TablesOK, Steps
<1>4. QED
  BY <1>2, <1>3

\* Past its load, the row in hand is pending and the step its enrollment is at; and so
\* is the index that has been read for it.
LEMMA HeldRow ==
    ASSUME BaseInv, OrderInv, NEW x \in Rows, x[1] \notin outrun, TokenRow(x), ForwardRow(x),
           NEW p \in Processes, row[p] = x, pc[p] \in BeforeMark \ {"load"}
    PROVE  /\ send[x] = "pending" /\ index[x[1]] = x[2]
           /\ pc[p] # "loadEnrollment" => at[p] = x[2]
<1>1. send[x] = "pending"
  BY HeldToken DEF Token, BeforeMark
<1>2. pc[p] # "loadEnrollment" => at[p] = x[2]
  BY DEF ForwardRow, Ahead
<1>3. QED
  BY <1>1, <1>2, PendingIsNext

LEMMA AdvanceForward ==
    ASSUME BaseInv, NEW x \in Rows, NEW p \in Processes, Advance(p),
           \A y \in Rows : y[1] = x[1] => ForwardRow(y)
    PROVE  ForwardRow(x)'
<1>1. /\ pc[p] = "advance" /\ UNCHANGED <<send, message>> /\ row[p] \in Rows
      /\ index' = [index EXCEPT ![row[p][1]] = at[p] + 1]
      /\ Ends(p) \/ GoesOn(p, "enqueueNext")
  BY SendShape DEF BaseInv, Hands, Holds, SendSteps
<1>2. ForwardRow(x) /\ "enqueueNext" \in Unknowing
  BY DEF Unknowing
<1>3. CASE row[p][1] # x[1]
  <2>1. RowKept(x) /\ ~AtAdvance(p, x) /\ row[p] # x
    BY <1>1, <1>3, RowParts DEF RowKept, AtAdvance, BaseInv, TablesOK
  <2>2. QED
    BY <1>1, <1>2, <2>1, UnknowingAhead, ForwardEnds, ForwardTakes DEF GoesOn
<1>4. CASE row[p][1] = x[1]
  <2>1. ForwardRow(row[p])
    BY <1>1, <1>4
  <2>2. at[p] = row[p][2] /\ index[x[1]] = row[p][2] /\ row[p][2] \in Nat /\ x[1] \in Enrollments
    BY <1>1, <1>4, <2>1, RowParts DEF ForwardRow, Ahead, Steps
  <2>3. index'[x[1]] = index[x[1]] + 1 /\ index[x[1]] \in Nat /\ x[2] \in Nat
    BY <1>1, <1>4, <2>2, RowParts DEF BaseInv, TablesOK, Steps
  <2>4. /\ pc'[p] \in Unknowing
        /\ \A q \in Processes \ {p} : pc'[q] = pc[q] /\ row'[q] = row[q] /\ at'[q] = at[q]
    BY <1>1, Taken DEF Ends, GoesOn, Unknowing
  <2>5. ASSUME NEW q \in Processes \ {p}, AtAdvance(q, x)
        PROVE  FALSE
    <3>1. index[x[1]] = x[2]
      BY <1>2, <2>5 DEF ForwardRow, Ahead, AtAdvance
    <3>2. row[p] = x
      BY <1>1, <1>4, <2>2, <3>1, RowParts
    <3>3. AtAdvance(p, x)
      BY <1>1, <3>2 DEF AtAdvance
    <3>4. QED
      BY <1>2, <2>5, <3>3 DEF ForwardRow
  <2>6. \A q \in Processes : ~AtAdvance(q, x)'
    BY <2>4, <2>5, UnknowingAhead DEF AtAdvance
  <2>7. ASSUME NEW q \in Processes
        PROVE  Ahead(pc'[q], row'[q], at'[q], x, index', send')
    <3>1. CASE q = p
      BY <2>4, <3>1, UnknowingAhead
    <3>2. CASE q # p
      <4>1. Ahead(pc[q], row[q], at[q], x, index, send) /\ ~(row[q] = x /\ pc[q] = "advance")
        BY <1>2, <2>5, <3>2 DEF ForwardRow, AtAdvance
      <4>2. x[2] <= index[x[1]] => x[2] <= index'[x[1]]
        BY <2>3
      <4>3. QED
        BY <1>1, <2>4, <3>2, <4>1, <4>2 DEF Ahead
    <3>3. QED
      BY <3>1, <3>2
  <2>8. send[x] # "none" => x[2] <= index'[x[1]] /\ index'[x[1]] # x[2]
    BY <1>2, <2>3 DEF ForwardRow
  <2>9. message'[x] > 0 => send'[x] \in Recorded
    BY <1>1, <1>2 DEF ForwardRow
  <2>10. \A q \in Processes : Ahead(pc[q], row[q], at[q], x, index, send)'
    BY <2>7 DEF Ahead
  <2>11. send'[x] \in Recorded => send[x] # "none"
    BY <1>1 DEF Recorded
  <2>12. QED
    BY <1>1, <2>6, <2>8, <2>9, <2>10, <2>11 DEF ForwardRow
<1>5. QED
  BY <1>3, <1>4

LEMMA SendForward ==
    ASSUME BaseInv, OrderInv, NEW x \in Rows, x[1] \notin outrun, TokenRow(x), ForwardRow(x),
           NEW p \in Processes
    PROVE  /\ Load(p) \/ LoadEnrollment(p) \/ LoadSequence(p) => ForwardRow(x)'
           /\ CheckBars(p) \/ MarkSkipped(p) \/ ExitEnrollment(p) => ForwardRow(x)'
           /\ Mail(p) \/ MarkSent(p) \/ EnqueueNext(p) => ForwardRow(x)'
<1>0. /\ pc[p] # "advance" => ~AtAdvance(p, x)
      /\ pc[p] \in SendSteps => row[p] \in Rows
  BY DEF AtAdvance, BaseInv, Hands, Holds
<1>1. ASSUME Load(p)
      PROVE  ForwardRow(x)'
  <2>1. pc[p] = "load" /\ SameTable /\ (Ends(p) \/ GoesOn(p, "loadEnrollment"))
    BY <1>1, SendShape
  <2>2. "loadEnrollment" \in Unknowing
    BY DEF Unknowing
  <2>3. QED
    BY <1>0, <2>1, <2>2, UnknowingAhead, SameTableKept, ForwardEnds, ForwardTakes DEF GoesOn
<1>8. ASSUME LoadEnrollment(p)
      PROVE  ForwardRow(x)'
  <2>1. /\ pc[p] = "loadEnrollment" /\ SameTable
        /\ Takes(p, "loadSequence", job[p], row[p], index[row[p][1]], made[p])
    BY <1>8, SendShape
  <2>2. row[p] = x => index[x[1]] = x[2]
    BY <2>1, HeldRow DEF BeforeMark
  <2>3. Ahead("loadSequence", row[p], index[row[p][1]], x, index, send)
    BY <2>2 DEF Ahead
  <2>4. QED
    BY <1>0, <2>1, <2>3, SameTableKept, ForwardTakes
<1>2. ASSUME LoadSequence(p) \/ CheckBars(p) \/ Mail(p)
      PROVE  ForwardRow(x)'
  <2>1. pc[p] \in {"loadSequence", "bars", "mail"} /\ SameTable
        /\ \E step \in {"bars", "skipOut", "mail", "skip", "markSent"} : GoesOn(p, step)
    BY <1>2, SendShape
  <2>2. PICK step \in {"bars", "skipOut", "mail", "skip", "markSent"} : GoesOn(p, step)
    BY <2>1
  <2>3. Ahead(step, row[p], at[p], x, index, send)
    BY <2>1 DEF ForwardRow, Ahead, BeforeMark
  <2>4. QED
    BY <1>0, <2>1, <2>2, <2>3, SameTableKept, ForwardTakes DEF GoesOn
<1>3. ASSUME MarkSkipped(p)
      PROVE  ForwardRow(x)'
  <2>1. /\ pc[p] \in {"skip", "skipOut"} /\ UNCHANGED <<index, message>>
        /\ send' = [send EXCEPT ![row[p]] = "skipped"]
        /\ Ends(p) \/ GoesOn(p, "exit")
    BY <1>3, SendShape
  <2>2. row[p] = x => send[x] = "pending"
    BY <2>1, HeldRow DEF BeforeMark
  <2>3. RowKept(x)
    BY <2>1, <2>2 DEF RowKept, Recorded, BaseInv, TablesOK
  <2>4. "exit" \in Unknowing
    BY DEF Unknowing
  <2>5. QED
    BY <1>0, <2>1, <2>3, <2>4, UnknowingAhead, ForwardEnds, ForwardTakes DEF GoesOn
<1>4. ASSUME ExitEnrollment(p)
      PROVE  ForwardRow(x)'
  BY <1>0, <1>4, SendShape, SameTableKept, ForwardEnds
<1>5. ASSUME MarkSent(p)
      PROVE  ForwardRow(x)'
  <2>1. /\ pc[p] = "markSent" /\ UNCHANGED index /\ GoesOn(p, "advance") /\ row[p] \in Rows
        /\ send' = [send EXCEPT ![row[p]] = "sent"]
        /\ message' = [message EXCEPT ![row[p]] = receipt[p]]
    BY <1>0, <1>5, SendShape DEF SendSteps
  <2>2. CASE row[p] # x
    <3>1. RowKept(x) /\ Ahead("advance", row[p], at[p], x, index, send)
      BY <2>1, <2>2 DEF RowKept, Ahead, BaseInv, TablesOK
    <3>2. QED
      BY <1>0, <2>1, <2>2, <3>1, ForwardTakes DEF GoesOn
  <2>3. CASE row[p] = x
    <3>1. send[x] = "pending" /\ at[p] = x[2] /\ index[x[1]] = x[2] /\ send'[x] = "sent"
      BY <2>1, <2>3, HeldRow DEF BeforeMark, BaseInv, TablesOK
    <3>2. /\ pc'[p] = "advance" /\ row'[p] = x /\ at'[p] = x[2]
          /\ \A q \in Processes \ {p} : pc'[q] = pc[q] /\ row'[q] = row[q] /\ at'[q] = at[q]
      BY <2>1, <2>3, <3>1, Taken DEF GoesOn
    <3>3. \A q \in Processes : ~AtAdvance(q, x)
      BY <3>1 DEF AtAdvance, TokenRow, Later, Open
    <3>4. \A q \in Processes : AtAdvance(q, x)' <=> q = p
      BY <3>2, <3>3 DEF AtAdvance
    <3>5. ASSUME NEW q \in Processes
          PROVE  Ahead(pc[q], row[q], at[q], x, index, send)'
      BY <2>1, <3>1, <3>2 DEF ForwardRow, Ahead, Recorded, BeforeMark
    <3>6. x[2] <= index'[x[1]]
      BY <2>1, <3>1 DEF ForwardRow
    <3>7. QED
      BY <3>1, <3>4, <3>5, <3>6 DEF ForwardRow, Recorded
  <2>4. QED
    BY <2>2, <2>3
<1>6. ASSUME EnqueueNext(p)
      PROVE  ForwardRow(x)'
  BY <1>0, <1>6, SendShape, SameTableKept, ForwardEnds
<1>7. QED
  BY <1>1, <1>2, <1>3, <1>4, <1>5, <1>6, <1>8

LEMMA ReportForward ==
    ASSUME BaseInv, NEW x \in Rows, ForwardRow(x), NEW p \in Processes
    PROVE  Match(p) \/ MarkReported(p) \/ Suppress(p) \/ ExitSuppressed(p) => ForwardRow(x)'
<1>0. pc[p] # "advance" => ~AtAdvance(p, x)
  BY DEF AtAdvance
<1>1. ASSUME Match(p)
      PROVE  ForwardRow(x)'
  <2>1. pc[p] = "match" /\ SameTable /\ job[p] \in ReportJobs
    BY <1>1, ReportShape DEF BaseInv, Hands, Holds, ReportSteps
  <2>2. CASE message[row[p]] = job[p][3] /\ GoesOn(p, "mark")
    <3>1. job[p][3] > 0
      BY <2>1, JobPayloads DEF Messages
    <3>2. Ahead("mark", row[p], at[p], x, index, send)
      BY <2>2, <3>1 DEF ForwardRow, Ahead, BeforeMark
    <3>3. QED
      BY <1>0, <2>1, <2>2, <3>2, SameTableKept, ForwardTakes DEF GoesOn
  <2>3. QED
    BY <1>0, <1>1, <2>1, <2>2, ReportShape, SameTableKept, ForwardEnds
<1>2. ASSUME MarkReported(p)
      PROVE  ForwardRow(x)'
  <2>1. /\ pc[p] = "mark" /\ UNCHANGED <<index, message>>
        /\ Ends(p) \/ GoesOn(p, "suppress")
    BY <1>2, ReportShape
  <2>2. PICK v \in {"delivered", "failed"} : send' = [send EXCEPT ![row[p]] = v]
    BY <1>2, ReportShape
  <2>3. row[p] = x => send[x] \in Recorded
    BY <2>1 DEF ForwardRow, Ahead
  <2>4. RowKept(x)
    BY <2>1, <2>2, <2>3 DEF RowKept, Recorded, BaseInv, TablesOK
  <2>5. "suppress" \in Unknowing
    BY DEF Unknowing
  <2>6. QED
    BY <1>0, <2>1, <2>4, <2>5, UnknowingAhead, ForwardEnds, ForwardTakes DEF GoesOn
<1>3. ASSUME Suppress(p)
      PROVE  ForwardRow(x)'
  <2>1. pc[p] = "suppress" /\ SameTable /\ GoesOn(p, "leave") /\ "leave" \in Unknowing
    BY <1>3, ReportShape DEF Unknowing
  <2>2. QED
    BY <1>0, <2>1, UnknowingAhead, SameTableKept, ForwardTakes DEF GoesOn
<1>4. ASSUME ExitSuppressed(p)
      PROVE  ForwardRow(x)'
  BY <1>0, <1>4, ReportShape, SameTableKept, ForwardEnds
<1>5. QED
  BY <1>1, <1>2, <1>3, <1>4

LEMMA MishapForward ==
    ASSUME BaseInv, NEW x \in Rows, ForwardRow(x), x[1] \notin halted', GoesWrong
    PROVE  ForwardRow(x)'
<1>1. ASSUME NEW p \in Processes, Interrupt(p)
      PROVE  ForwardRow(x)'
  <2>1. SameTable /\ Ends(p) /\ x[1] \notin CutOff(p)
    BY <1>1, MishapShape
  <2>2. ~AtAdvance(p, x)
    BY <2>1, RowDropped DEF AtAdvance, CutOff
  <2>3. QED
    BY <2>1, <2>2, SameTableKept, ForwardEnds
<1>2. SameTable /\ NobodyMoves => ForwardRow(x)'
  BY SameTableKept, ForwardStill
<1>3. QED
  BY <1>1, <1>2, MishapShape DEF GoesWrong, Processes

LEMMA EnvironmentForward ==
    ASSUME NEW x \in Rows, ForwardRow(x)
    PROVE  /\ \A r \in Runs : StartRun(r) => ForwardRow(x)'
           /\ \A b \in BOOLEAN : SetPaused(b) => ForwardRow(x)'
           /\ \A c \in Contacts : Unsubscribe(c) \/ Leave(c) => ForwardRow(x)'
           /\ \A y \in Rows : \A m \in Messages : \A t \in Reports :
                 Report(y, m, t) => ForwardRow(x)'
BY EnvironmentShape, SameTableKept, ForwardStill

LEMMA InitForward ==
    ASSUME Init
    PROVE  ForwardInv
BY NoneAssumption DEF Init, ForwardInv, ForwardRow, Ahead, AtAdvance, BeforeMark, Recorded

\* Whoever reads an enrollment for a pending step send finds it at that step.
LEMMA StepOutrun ==
    ASSUME BaseInv, OrderInv, TokenInv, ForwardInv, OutrunIsHalted, [Next]_vars
    PROVE  OutrunIsHalted'
<1>1. halted \subseteq halted'
  BY RiskStays
<1>2. outrun' = outrun => OutrunIsHalted'
  BY <1>1 DEF OutrunIsHalted
<1>3. ASSUME NEW p \in Processes, LoadEnrollment(p)
      PROVE  OutrunIsHalted'
  <2>1. /\ pc[p] = "loadEnrollment" /\ row[p] \in Rows
        /\ outrun' = IF index[row[p][1]] > row[p][2] THEN outrun \cup {row[p][1]} ELSE outrun
    BY <1>3 DEF LoadEnrollment, BaseInv, Hands, Holds, SendSteps
  <2>2. CASE row[p][1] \in halted
    BY <1>1, <2>1, <2>2 DEF OutrunIsHalted
  <2>3. CASE row[p][1] \notin halted
    <3>1. TokenRow(row[p]) /\ ForwardRow(row[p]) /\ row[p][1] \notin outrun
      BY <2>1, <2>3 DEF TokenInv, ForwardInv, OutrunIsHalted
    <3>2. index[row[p][1]] = row[p][2] /\ row[p][2] \in Nat
      BY <2>1, <3>1, HeldRow, RowParts DEF BeforeMark, Steps
    <3>3. outrun' = outrun
      BY <2>1, <3>2
    <3>4. QED
      BY <1>2, <3>3
  <2>4. QED
    BY <2>2, <2>3
<1>4. QED
  BY <1>2, <1>3, OutrunFrame

LEMMA StepForward ==
    ASSUME BaseInv, WithinInv, OrderInv, TokenInv, ForwardInv, OutrunIsHalted, [Next]_vars
    PROVE  ForwardInv'
<1>1. SUFFICES ASSUME NEW x \in Rows, x[1] \notin halted'
               PROVE  ForwardRow(x)'
  BY DEF ForwardInv
<1>2. /\ ForwardRow(x) /\ TokenRow(x) /\ \A y \in Rows : y[1] = x[1] => ForwardRow(y)
      /\ x[1] \notin outrun
  BY <1>1, RiskStays DEF ForwardInv, TokenInv, OutrunIsHalted
<1>3. CASE Work
  BY <1>2, <1>3, BeginForward, EnrollForward, ScheduleForward, SendForward, AdvanceForward,
     ReportForward DEF Work, Step
<1>4. CASE Environment
  BY <1>2, <1>4, EnvironmentForward, BeginForward DEF Environment, Processes
<1>5. CASE GoesWrong
  BY <1>1, <1>2, <1>5, MishapForward
<1>6. CASE UNCHANGED vars
  <2>1. SameTable /\ NobodyMoves
    BY <1>6 DEF vars, database, enrollments, sends, view, roster, NobodyMoves, SameTable
  <2>2. QED
    BY <1>2, <2>1, SameTableKept, ForwardStill
<1>7. QED
  BY <1>3, <1>4, <1>5, <1>6 DEF Next

\* The step index only goes forward and is set by one process at a time: whoever is
\* about to advance an enrollment has recorded the mail of the step it is at, and has
\* read the enrollment while it was there.
THEOREM ForwardInvariant == Spec => []ForwardInv /\ []OutrunIsHalted
<1>1. Init => OutrunIsHalted
  BY DEF Init, OutrunIsHalted
<1>2. QED
  BY <1>1, BaseInvariant, WithinInvariant, OrderInvariant, TokenInvariant, InitForward,
     StepForward, StepOutrun, PTL DEF Spec

-------------------------------------------------------------------------------
(***************************************************************************)
(* The next step.  While the step an active enrollment is at has no row,   *)
(* somebody is about to create it: a job to schedule it waits or is being  *)
(* handled, or the process that has created the enrollment, or advanced    *)
(* it, has still to see to it.                                             *)
(***************************************************************************)
Begins(step, j, x, m, e, i) ==
    \/ FreshAt(step, j, x, m, e)
    \/ j = ScheduleJob(e) /\ step = "loadNext"
    \/ step \in {"find", "insert"} /\ x = <<e, i>>
    \/ step = "enqueueNext" /\ x[1] = e

Begun(e) ==
    \/ queue[ScheduleJob(e)] > 0
    \/ \E p \in Processes : Begins(pc[p], job[p], row[p], made[p], e, index[e])

Unbegun(e) == index[e] \in Steps /\ send[<<e, index[e]>>] = "none"

Going(e) == Active(e) => index[e] \in Steps /\ (Unbegun(e) => Begun(e))

BegunInv == \A e \in Enrollments : e \notin halted => Going(e)

\* The enrollment is not activated, stays at its step, and its queue keeps its job.
EnrollmentKept(e) ==
    /\ Active(e)' => Active(e)
    /\ index'[e] = index[e]
    /\ Unbegun(e)' => Unbegun(e)
    /\ queue[ScheduleJob(e)] > 0 => queue'[ScheduleJob(e)] > 0

LEMMA SchedulesKept ==
    ASSUME BaseInv, NEW e \in Enrollments
    PROVE  /\ queue[ScheduleJob(e)] \in Nat
           /\ UNCHANGED queue => queue'[ScheduleJob(e)] = queue[ScheduleJob(e)]
           /\ \A j \in Jobs : /\ Q!Publish(j) \/ Q!GiveBack(j) =>
                                   (queue[ScheduleJob(e)] > 0 => queue'[ScheduleJob(e)] > 0)
                              /\ j # ScheduleJob(e) /\ Q!Take(j) =>
                                   queue'[ScheduleJob(e)] = queue[ScheduleJob(e)]
           /\ Q!Publish(ScheduleJob(e)) => queue'[ScheduleJob(e)] > 0
<1>1. TablesOK /\ ScheduleJob(e) \in Jobs
  BY ScheduleJobKinds DEF BaseInv
<1>2. \A j \in Jobs : Q!Publish(j) => queue'[ScheduleJob(e)] \in {queue[ScheduleJob(e)], queue[ScheduleJob(e)] + 1}
  BY <1>1, WaitingJobs
<1>3. queue[ScheduleJob(e)] \in Nat /\ (Q!Publish(ScheduleJob(e)) => queue'[ScheduleJob(e)] = queue[ScheduleJob(e)] + 1)
  BY <1>1, WaitingJobs
<1>4. \A j \in Jobs : j # ScheduleJob(e) /\ Q!Take(j) => queue'[ScheduleJob(e)] = queue[ScheduleJob(e)]
  BY <1>1, WaitingJobs
<1>5. QED
  BY <1>2, <1>3, <1>4 DEF Q!GiveBack

LEMMA BegunFrame ==
    ASSUME NEW e \in Enrollments, Going(e), EnrollmentKept(e),
           \A q \in Processes :
              \/ pc'[q] = pc[q] /\ job'[q] = job[q] /\ row'[q] = row[q] /\ made'[q] = made[q]
              \/ /\ Active(e) /\ Active(e)' /\ Unbegun(e) /\ Unbegun(e)' /\ index[e] \in Steps
                 /\ Begins(pc[q], job[q], row[q], made[q], e, index[e])
                 => \/ Begins(pc'[q], job'[q], row'[q], made'[q], e, index[e])
                    \/ queue'[ScheduleJob(e)] > 0
    PROVE  Going(e)'
<1>1. SUFFICES ASSUME Active(e)'
               PROVE  index'[e] \in Steps /\ (Unbegun(e)' => Begun(e)')
  BY DEF Going, Active
<1>2. Active(e) /\ index[e] \in Steps /\ (Unbegun(e) => Begun(e))
  BY <1>1 DEF Going, EnrollmentKept
<1>3. ASSUME Unbegun(e)'
      PROVE  Begun(e)'
  <2>1. Begun(e) /\ Unbegun(e)
    BY <1>2, <1>3 DEF EnrollmentKept
  <2>2. CASE queue[ScheduleJob(e)] > 0
    BY <2>2 DEF EnrollmentKept, Begun, ScheduleJob
  <2>3. ASSUME NEW q \in Processes, Begins(pc[q], job[q], row[q], made[q], e, index[e])
        PROVE  Begun(e)'
    <3>1. \/ Begins(pc'[q], job'[q], row'[q], made'[q], e, index'[e])
          \/ queue'[ScheduleJob(e)] > 0
      BY <1>1, <1>2, <1>3, <2>1, <2>3 DEF EnrollmentKept
    <3>2. QED
      BY <3>1 DEF Begun, ScheduleJob, Begins, FreshAt
  <2>4. QED
    BY <2>1, <2>2, <2>3 DEF Begun
<1>4. QED
  BY <1>2, <1>3 DEF EnrollmentKept

LEMMA BegunStill ==
    ASSUME NEW e \in Enrollments, Going(e), EnrollmentKept(e), NobodyMoves
    PROVE  Going(e)'
BY BegunFrame DEF NobodyMoves

LEMMA BegunTakes ==
    ASSUME BaseInv, NEW e \in Enrollments, Going(e), EnrollmentKept(e), NEW p \in Processes,
           NEW step, NEW j, NEW r, NEW i, NEW m, Takes(p, step, j, r, i, m),
           /\ Active(e) /\ Active(e)' /\ Unbegun(e) /\ Unbegun(e)' /\ index[e] \in Steps
           /\ Begins(pc[p], job[p], row[p], made[p], e, index[e])
           => Begins(step, j, r, m, e, index[e]) \/ queue'[ScheduleJob(e)] > 0
    PROVE  Going(e)'
<1>1. /\ pc'[p] = step /\ job'[p] = j /\ row'[p] = r /\ made'[p] = m
      /\ \A q \in Processes \ {p} : /\ pc'[q] = pc[q] /\ job'[q] = job[q]
                                    /\ row'[q] = row[q] /\ made'[q] = made[q]
  BY Taken
<1>2. QED
  BY <1>1, BegunFrame

LEMMA BegunEnds ==
    ASSUME BaseInv, NEW e \in Enrollments, Going(e), EnrollmentKept(e), NEW p \in Processes,
           Ends(p),
           /\ Active(e) /\ Active(e)' /\ Unbegun(e) /\ Unbegun(e)' /\ index[e] \in Steps
           /\ Begins(pc[p], job[p], row[p], made[p], e, index[e])
           => queue'[ScheduleJob(e)] > 0
    PROVE  Going(e)'
BY BegunTakes DEF Ends

\* Tables that are left alone, or of which only rows change that exist.
LEMMA SameEnrollment ==
    ASSUME BaseInv, NEW e \in Enrollments,
           queue[ScheduleJob(e)] > 0 => queue'[ScheduleJob(e)] > 0
    PROVE  /\ SameTable => EnrollmentKept(e)
           /\ /\ UNCHANGED index /\ (Active(e)' => Active(e))
              /\ \/ UNCHANGED send
                 \/ \E v \in {"pending", "skipped", "sent", "delivered", "failed"}, y \in Rows :
                       send' = [send EXCEPT ![y] = v]
              => EnrollmentKept(e)
<1>1. SameTable => EnrollmentKept(e)
  BY DEF SameTable, EnrollmentKept, Active, Unbegun
<1>2. ASSUME UNCHANGED index, Active(e)' => Active(e),
             \/ UNCHANGED send
             \/ \E v \in {"pending", "skipped", "sent", "delivered", "failed"}, y \in Rows :
                   send' = [send EXCEPT ![y] = v]
      PROVE  EnrollmentKept(e)
  <2>1. Unbegun(e)' => Unbegun(e)
    BY <1>2 DEF Unbegun, BaseInv, TablesOK, Rows
  <2>2. QED
    BY <1>2, <2>1 DEF EnrollmentKept
<1>3. QED
  BY <1>1, <1>2
LEMMA NotBeginning ==
    ASSUME FreshInv, NEW p \in Processes, NEW e \in Enrollments,
           Begins(pc[p], job[p], row[p], made[p], e, index[e])
    PROVE  /\ pc[p] \in AfterCreate \cup {"loadNext", "find", "enqueueNext"}
           /\ pc[p] \in {"loadNext", "find", "enqueueNext"} \/ job[p] \in ScheduleJobs => made[p] = {}
BY DEF FreshInv, EnrollHolds, Begins, FreshAt, AfterCreate

\* A process that has not begun anything moves, and the tables of the enrollment are kept.
LEMMA BegunAside ==
    ASSUME BaseInv, FreshInv, NEW e \in Enrollments, Going(e), EnrollmentKept(e),
           NEW p \in Processes, pc[p] \notin AfterCreate \cup {"loadNext", "find", "enqueueNext"},
           Ends(p) \/ \E step, j, r, i, m : Takes(p, step, j, r, i, m)
    PROVE  Going(e)'
<1>1. ~Begins(pc[p], job[p], row[p], made[p], e, index[e])
  BY NotBeginning
<1>2. PICK step, j, r, i, m : Takes(p, step, j, r, i, m)
  BY DEF Ends
<1>3. QED
  BY <1>1, <1>2, BegunTakes

LEMMA FirstIndex ==
    ASSUME FirstInv, NEW e \in Enrollments, send[<<e, 1>>] = "none"
    PROVE  index[e] = 1
BY DEF FirstInv

LEMMA EnvironmentBegun ==
    ASSUME BaseInv, NEW e \in Enrollments, Going(e)
    PROVE  /\ \A r \in Runs : StartRun(r) => Going(e)'
           /\ \A b \in BOOLEAN : SetPaused(b) => Going(e)'
           /\ \A c \in Contacts : Unsubscribe(c) \/ Leave(c) => Going(e)'
           /\ \A y \in Rows : \A m \in Messages : \A t \in Reports :
                 Report(y, m, t) => Going(e)'
<1>1. SameTable /\ NobodyMoves /\ (UNCHANGED queue \/ \E j \in Jobs : Q!Publish(j)) => Going(e)'
  BY SchedulesKept, SameEnrollment, BegunStill
<1>2. ASSUME NEW r \in Runs, StartRun(r)
      PROVE  Going(e)'
  BY <1>1, <1>2, EnvironmentShape, EnrollJobKinds
<1>3. ASSUME NEW c \in Contacts, Leave(c)
      PROVE  Going(e)'
  <2>1. UNCHANGED <<index, send, queue>> /\ NobodyMoves /\ Exit(c)
    BY <1>3, EnvironmentShape
  <2>2. Active(e)' => Active(e)
    BY <2>1 DEF Exit, Active
  <2>3. QED
    BY <2>1, <2>2, SchedulesKept, SameEnrollment, BegunStill
<1>4. ASSUME NEW y \in Rows, NEW m \in Messages, NEW t \in Reports, Report(y, m, t)
      PROVE  Going(e)'
  BY <1>1, <1>4, EnvironmentShape, JobSets
<1>5. QED
  BY <1>1, <1>2, <1>3, <1>4, EnvironmentShape

LEMMA BeginBegun ==
    ASSUME BaseInv, FreshInv, NEW e \in Enrollments, Going(e), NEW w \in Processes
    PROVE  /\ Begin(w) => Going(e)'
           /\ \A S \in SUBSET Contacts : Call(w, S) => Going(e)'
<1>0. "idle" \notin AfterCreate \cup {"loadNext", "find", "enqueueNext"}
  BY DEF AfterCreate
<1>1. ASSUME pc[w] = "idle", SameTable, NEW k \in Jobs, k # ScheduleJob(e),
             Q!Take(k) \/ UNCHANGED queue,
             NEW step, NEW j, NEW r, NEW i, NEW m, Takes(w, step, j, r, i, m)
      PROVE  Going(e)'
  <2>1. EnrollmentKept(e)
    BY <1>1, SchedulesKept, SameEnrollment
  <2>2. QED
    BY <1>0, <1>1, <2>1, BegunAside
<1>2. ASSUME NEW r \in Runs, BeginEnroll(w, r)
      PROVE  Going(e)'
  BY <1>1, <1>2, BeginShape, EnrollJobKinds, ScheduleJobKinds
<1>3. ASSUME NEW S \in SUBSET Contacts, Call(w, S)
      PROVE  Going(e)'
  <2>1. pc[w] = "idle" /\ SameTable /\ UNCHANGED queue /\ GoesOn(w, "check")
    BY <1>3, BeginShape
  <2>2. EnrollmentKept(e)
    BY <2>1, SchedulesKept, SameEnrollment
  <2>3. QED
    BY <1>0, <2>1, <2>2, BegunAside DEF GoesOn
<1>4. ASSUME NEW d \in Enrollments, BeginSchedule(w, d)
      PROVE  Going(e)'
  <2>1. /\ pc[w] = "idle" /\ SameTable /\ Q!Take(ScheduleJob(d))
        /\ Takes(w, "loadNext", ScheduleJob(d), row[w], at[w], made[w])
    BY <1>4, BeginShape
  <2>2. CASE d # e
    BY <1>1, <2>1, <2>2, ScheduleJobKinds
  <2>3. CASE d = e
    <3>1. pc'[w] = "loadNext" /\ job'[w] = ScheduleJob(e)
      BY <2>1, <2>3, Taken
    <3>2. Begun(e)'
      BY <3>1 DEF Begun, Begins, ScheduleJob
    <3>3. Active(e)' => index'[e] \in Steps
      BY <2>1 DEF SameTable, Going, Active
    <3>4. QED
      BY <3>2, <3>3 DEF Going
  <2>4. QED
    BY <2>2, <2>3
<1>5. ASSUME NEW y \in Rows, BeginSend(w, y)
      PROVE  Going(e)'
  BY <1>1, <1>5, BeginShape, JobKinds, ScheduleJobKinds
<1>6. ASSUME NEW y \in Rows, NEW m \in Messages, NEW t \in Reports, BeginReport(w, y, m, t)
      PROVE  Going(e)'
  <2>1. PICK j \in ReportJobs : /\ pc[w] = "idle" /\ SameTable /\ Q!Take(j)
                                /\ Takes(w, "match", j, y, at[w], made[w])
    BY <1>6, BeginShape
  <2>2. QED
    BY <1>1, <2>1, JobSets, ScheduleJobKinds
<1>7. QED
  BY <1>2, <1>3, <1>4, <1>5, <1>6 DEF Begin

LEMMA EnrollBegun ==
    ASSUME BaseInv, FirstInv, FreshInv, NEW e \in Enrollments, Going(e), NEW p \in Processes
    PROVE  /\ \A c \in Contacts : CheckPreference(p, c) \/ CheckEnrolled(p, c) => Going(e)'
           /\ Create(p) \/ Count(p) \/ EnrollDone(p) => Going(e)'
           /\ \A d \in Enrollments : FindFirst(p, d) => Going(e)'
<1>0. SameTable /\ UNCHANGED queue => EnrollmentKept(e)
  BY SchedulesKept, SameEnrollment
<1>1. ASSUME NEW c \in Contacts, CheckPreference(p, c) \/ CheckEnrolled(p, c)
      PROVE  Going(e)'
  BY <1>0, <1>1, EnrollShape, BegunStill
<1>2. ASSUME Create(p)
      PROVE  Going(e)'
  <2>1. pc[p] = "check" /\ UNCHANGED <<index, send, message, queue>>
        /\ "check" \notin AfterCreate \cup {"loadNext", "find", "enqueueNext"}
    BY <1>2, EnrollShape DEF AfterCreate
  <2>2. CASE UNCHANGED status /\ Ends(p)
    <3>1. EnrollmentKept(e)
      BY <1>0, <2>1, <2>2 DEF SameTable
    <3>2. QED
      BY <2>1, <2>2, <3>1, BegunAside
  <2>3. ASSUME NEW new \in SUBSET Enrollments, NEW step \in {"count", "first"},
               \A d \in new : status[d] = "none",
               status' = [d \in Enrollments |-> IF d \in new THEN "active" ELSE status[d]],
               Takes(p, step, job[p], row[p], at[p], new)
        PROVE  Going(e)'
    <3>1. CASE e \in new
      <4>1. index[e] = 1 /\ index'[e] = 1 /\ 1 \in Steps
        <5>1. send[<<e, 1>>] = "none"
          BY <2>3, <3>1 DEF FreshInv
        <5>2. QED
          BY <2>1, <5>1, FirstIndex, StepAssumption DEF Steps
      <4>2. made'[p] = new
        BY <2>3, Taken
      <4>3. Begun(e)'
        BY <3>1, <4>2 DEF Begun, Begins, FreshAt
      <4>4. QED
        BY <4>1, <4>3 DEF Going
    <3>2. CASE e \notin new
      <4>1. EnrollmentKept(e)
        BY <2>1, <2>3, <3>2, SchedulesKept, SameEnrollment DEF Active
      <4>2. QED
        BY <2>1, <2>3, <4>1, BegunAside
    <3>3. QED
      BY <3>1, <3>2
  <2>4. QED
    BY <1>2, <2>2, <2>3, EnrollShape
<1>3. ASSUME Count(p)
      PROVE  Going(e)'
  <2>1. pc[p] = "count" /\ EnrollmentKept(e) /\ GoesOn(p, "first")
    BY <1>0, <1>3, EnrollShape
  <2>2. Begins(pc[p], job[p], row[p], made[p], e, index[e])
        => Begins("first", job[p], row[p], made[p], e, index[e])
    BY <2>1 DEF Begins, FreshAt
  <2>3. QED
    BY <2>1, <2>2, BegunTakes DEF GoesOn
<1>4. ASSUME EnrollDone(p)
      PROVE  Going(e)'
  <2>1. pc[p] = "first" /\ made[p] = {} /\ EnrollmentKept(e) /\ Ends(p)
    BY <1>0, <1>4, EnrollShape
  <2>2. ~Begins(pc[p], job[p], row[p], made[p], e, index[e])
    BY <2>1 DEF Begins, FreshAt
  <2>3. QED
    BY <2>1, <2>2, BegunEnds
<1>5. ASSUME NEW d \in Enrollments, FindFirst(p, d)
      PROVE  Going(e)'
  <2>1. /\ pc[p] = "first" /\ d \in made[p] /\ EnrollmentKept(e)
        /\ Takes(p, IF send[<<d, 1>>] = "none" THEN "insert" ELSE "first",
                 job[p], <<d, 1>>, at[p], made[p] \ {d})
    BY <1>0, <1>5, EnrollShape
  <2>2. send[<<d, 1>>] = "none" /\ job[p] \notin ScheduleJobs
    BY <2>1, KindsOfJobs DEF FreshInv, Fresh, FreshAt, BaseInv, Hands, Holds
  <2>3. Begins(pc[p], job[p], row[p], made[p], e, index[e])
        => Begins("insert", job[p], <<d, 1>>, made[p] \ {d}, e, index[e])
    BY <2>1, <2>2 DEF Begins, FreshAt
  <2>4. QED
    BY <2>1, <2>2, <2>3, BegunTakes
<1>6. QED
  BY <1>1, <1>2, <1>3, <1>4, <1>5

LEMMA ScheduleBegun ==
    ASSUME BaseInv, FirstInv, FreshInv, NEW e \in Enrollments, Going(e), NEW p \in Processes
    PROVE  LoadNext(p) \/ Find(p) \/ Insert(p) \/ Publish(p) => Going(e)'
<1>0. SameTable /\ UNCHANGED queue => EnrollmentKept(e)
  BY SchedulesKept, SameEnrollment
<1>1. ASSUME LoadNext(p)
      PROVE  Going(e)'
  <2>1. pc[p] = "loadNext" /\ EnrollmentKept(e)
    BY <1>0, <1>1, ScheduleShape
  <2>2. ASSUME Begins(pc[p], job[p], row[p], made[p], e, index[e])
        PROVE  job[p][2] = e
    BY <2>1, <2>2, NotBeginning DEF Begins, FreshAt, ScheduleJob
  <2>3. ASSUME NEW d, d = job[p][2], Takes(p, "find", job[p], <<d, index[d]>>, at[p], made[p])
        PROVE  Going(e)'
    <3>1. Begins(pc[p], job[p], row[p], made[p], e, index[e])
          => Begins("find", job[p], <<d, index[d]>>, made[p], e, index[e])
      BY <2>2, <2>3 DEF Begins
    <3>2. QED
      BY <2>1, <2>3, <3>1, BegunTakes
  <2>4. ASSUME ~(Active(job[p][2]) /\ index[job[p][2]] \in Steps), Ends(p)
        PROVE  Going(e)'
    BY <2>1, <2>2, <2>4, BegunEnds
  <2>5. QED
    BY <1>1, <2>3, <2>4, ScheduleShape
<1>2. ASSUME Find(p)
      PROVE  Going(e)'
  <2>1. pc[p] = "find" /\ EnrollmentKept(e)
        /\ (GoesOn(p, "insert") \/ (send[row[p]] # "none" /\ Ends(p)))
    BY <1>0, <1>2, ScheduleShape
  <2>2. Begins(pc[p], job[p], row[p], made[p], e, index[e]) => row[p] = <<e, index[e]>>
    BY <2>1, NotBeginning DEF Begins, FreshAt
  <2>3. CASE GoesOn(p, "insert")
    <3>1. Begins(pc[p], job[p], row[p], made[p], e, index[e])
          => Begins("insert", job[p], row[p], made[p], e, index[e])
      BY <2>2 DEF Begins
    <3>2. QED
      BY <2>1, <2>3, <3>1, BegunTakes DEF GoesOn
  <2>4. CASE send[row[p]] # "none" /\ Ends(p)
    BY <2>1, <2>2, <2>4, BegunEnds DEF Unbegun
  <2>5. QED
    BY <2>1, <2>3, <2>4
<1>3. ASSUME Insert(p)
      PROVE  Going(e)'
  <2>1. pc[p] = "insert" /\ UNCHANGED <<status, index, message>> /\ row[p] \in Rows
    BY <1>3, ScheduleShape
  <2>2. CASE /\ send[row[p]] = "none" /\ send' = [send EXCEPT ![row[p]] = "pending"]
             /\ UNCHANGED queue /\ GoesOn(p, "publish")
    <3>1. EnrollmentKept(e)
      BY <2>1, <2>2, SchedulesKept, SameEnrollment DEF Active
    <3>2. Unbegun(e)' => row[p] # <<e, index[e]>>
      BY <2>1, <2>2 DEF Unbegun, BaseInv, TablesOK
    <3>3. Begins(pc[p], job[p], row[p], made[p], e, index[e]) /\ Unbegun(e) /\ Unbegun(e)'
          => e \in made[p]
      <4>1. row[p] = <<e, 1>> => row[p] = <<e, index[e]>>
        BY <2>2, FirstIndex
      <4>2. Begins(pc[p], job[p], row[p], made[p], e, index[e])
            => e \in made[p] \/ row[p] = <<e, 1>> \/ row[p] = <<e, index[e]>>
        BY <2>1 DEF Begins, FreshAt
      <4>3. QED
        BY <3>2, <4>1, <4>2
    <3>4. QED
      BY <2>2, <3>1, <3>3, BegunTakes DEF GoesOn, Begins, FreshAt
  <2>3. CASE /\ send[row[p]] # "none" /\ UNCHANGED send /\ Ends(p)
             /\ IF job[p] \in Jobs THEN Q!GiveBack(job[p]) ELSE UNCHANGED queue
    <3>1. EnrollmentKept(e)
      BY <2>1, <2>3, SchedulesKept, SameEnrollment DEF SameTable
    <3>2. job[p] \in ScheduleJobs /\ made[p] = {}
      BY <2>1, <2>3, EnrollerInserts DEF FreshInv, EnrollHolds
    <3>3. Begins(pc[p], job[p], row[p], made[p], e, index[e]) => row[p] = <<e, index[e]>>
      BY <2>1, <3>2 DEF Begins, FreshAt
    <3>4. QED
      BY <2>3, <3>1, <3>3, BegunEnds DEF Unbegun
  <2>4. QED
    BY <1>3, <2>2, <2>3, ScheduleShape
<1>4. ASSUME Publish(p)
      PROVE  Going(e)'
  <2>1. /\ pc[p] = "publish" /\ SameTable /\ row[p] \in Rows /\ Q!Publish(SendJob(row[p]))
        /\ (Ends(p) /\ job[p] \in ScheduleJobs) \/ GoesOn(p, "first")
    BY <1>4, ScheduleShape
  <2>2. EnrollmentKept(e)
    BY <2>1, JobKinds, SchedulesKept, SameEnrollment
  <2>3. Begins(pc[p], job[p], row[p], made[p], e, index[e]) => e \in made[p]
    BY <2>1 DEF Begins, FreshAt
  <2>4. job[p] \in ScheduleJobs => made[p] = {}
    BY DEF FreshInv, EnrollHolds
  <2>5. e \in made[p] => Begins("first", job[p], row[p], made[p], e, index[e])
    BY DEF Begins, FreshAt
  <2>6. QED
    BY <2>1, <2>2, <2>3, <2>4, <2>5, BegunEnds, BegunTakes DEF GoesOn
<1>5. QED
  BY <1>1, <1>2, <1>3, <1>4

LEMMA SendBegun ==
    ASSUME BaseInv, WithinInv, FreshInv, NEW e \in Enrollments, Going(e), NEW p \in Processes
    PROVE  /\ Load(p) \/ LoadEnrollment(p) \/ LoadSequence(p) => Going(e)'
           /\ CheckBars(p) \/ MarkSkipped(p) \/ ExitEnrollment(p) => Going(e)'
           /\ Mail(p) \/ MarkSent(p) \/ Advance(p) \/ EnqueueNext(p) => Going(e)'
<1>0. SameTable /\ UNCHANGED queue => EnrollmentKept(e)
  BY SchedulesKept, SameEnrollment
<1>1. pc[p] \in SendSteps \ {"enqueueNext"}
      => pc[p] \notin AfterCreate \cup {"loadNext", "find", "enqueueNext"} /\ row[p] \in Rows
  BY DEF SendSteps, AfterCreate, BaseInv, Hands, Holds
<1>2. ASSUME Load(p) \/ LoadEnrollment(p) \/ LoadSequence(p) \/ CheckBars(p) \/ Mail(p)
      PROVE  Going(e)'
  <2>1. pc[p] \in {"load", "loadEnrollment", "loadSequence", "bars", "mail"} /\ SameTable /\ UNCHANGED queue
        /\ (Ends(p) \/ \E step, j, r, i, m : Takes(p, step, j, r, i, m))
    BY <1>2, SendShape DEF GoesOn
  <2>2. QED
    BY <1>0, <1>1, <2>1, BegunAside DEF SendSteps
<1>3. ASSUME MarkSkipped(p) \/ MarkSent(p)
      PROVE  Going(e)'
  <2>1. pc[p] \in {"skip", "skipOut", "markSent"} /\ UNCHANGED <<status, index, queue>>
        /\ (\E v \in {"skipped", "sent"} : send' = [send EXCEPT ![row[p]] = v])
        /\ (Ends(p) \/ \E step, j, r, i, m : Takes(p, step, j, r, i, m))
    BY <1>3, SendShape DEF GoesOn
  <2>2. row[p] \in Rows /\ pc[p] \notin AfterCreate \cup {"loadNext", "find", "enqueueNext"}
    BY <1>1, <2>1 DEF SendSteps
  <2>3. EnrollmentKept(e)
    BY <2>1, <2>2, SchedulesKept, SameEnrollment DEF Active
  <2>4. QED
    BY <2>1, <2>2, <2>3, BegunAside
<1>4. ASSUME ExitEnrollment(p)
      PROVE  Going(e)'
  <2>1. /\ pc[p] = "exit" /\ UNCHANGED <<index, send, queue>> /\ Ends(p) /\ row[p] \in Rows
        /\ status' = [status EXCEPT ![row[p][1]] = "exited"]
    BY <1>1, <1>4, SendShape DEF SendSteps
  <2>2. Active(e)' => Active(e)
    BY <2>1 DEF Active, BaseInv, TablesOK
  <2>3. EnrollmentKept(e)
    BY <2>1, <2>2, SchedulesKept, SameEnrollment
  <2>4. QED
    BY <1>1, <2>1, <2>3, BegunAside DEF SendSteps
<1>5. ASSUME Advance(p)
      PROVE  Going(e)'
  <2>1. /\ pc[p] = "advance" /\ UNCHANGED <<send, message, queue>> /\ row[p] \in Rows
        /\ index' = [index EXCEPT ![row[p][1]] = at[p] + 1]
        /\ \/ status' = [status EXCEPT ![row[p][1]] = "completed"] /\ Ends(p)
           \/ UNCHANGED status /\ at[p] + 1 <= LastStep /\ GoesOn(p, "enqueueNext")
    BY <1>1, <1>5, SendShape DEF SendSteps
  <2>2. CASE row[p][1] # e
    <3>1. index'[e] = index[e] /\ status'[e] = status[e]
      BY <2>1, <2>2, RowParts DEF BaseInv, TablesOK
    <3>2. EnrollmentKept(e)
      BY <2>1, <3>1, SchedulesKept DEF EnrollmentKept, Active, Unbegun
    <3>3. QED
      BY <1>1, <2>1, <3>2, BegunAside DEF SendSteps, GoesOn
  <2>3. CASE row[p][1] = e
    <3>1. CASE status' = [status EXCEPT ![row[p][1]] = "completed"]
      BY <2>3, <3>1 DEF Going, Active, BaseInv, TablesOK
    <3>2. CASE at[p] + 1 <= LastStep /\ GoesOn(p, "enqueueNext")
      <4>1. index'[e] \in Steps
        BY <2>1, <2>3, <3>2, StepAssumption DEF BaseInv, TablesOK, ProcessesOK, Steps
      <4>2. pc'[p] = "enqueueNext" /\ row'[p] = row[p]
        BY <3>2, Taken DEF GoesOn
      <4>3. Begun(e)'
        BY <2>3, <4>2 DEF Begun, Begins
      <4>4. QED
        BY <4>1, <4>3 DEF Going
    <3>3. QED
      BY <2>1, <3>1, <3>2
  <2>4. QED
    BY <2>2, <2>3
<1>6. ASSUME EnqueueNext(p)
      PROVE  Going(e)'
  <2>1. pc[p] = "enqueueNext" /\ SameTable /\ Ends(p) /\ row[p] \in Rows
        /\ Q!Publish(ScheduleJob(row[p][1]))
    BY <1>6, SendShape DEF BaseInv, Hands, Holds, SendSteps
  <2>2. EnrollmentKept(e)
    BY <2>1, RowParts, ScheduleJobKinds, SchedulesKept, SameEnrollment
  <2>3. Begins(pc[p], job[p], row[p], made[p], e, index[e]) => row[p][1] = e
    BY <2>1, NotBeginning DEF Begins, FreshAt
  <2>4. QED
    BY <2>1, <2>2, <2>3, SchedulesKept, BegunEnds
<1>7. QED
  BY <1>2, <1>3, <1>4, <1>5, <1>6

LEMMA ReportBegun ==
    ASSUME BaseInv, FreshInv, NEW e \in Enrollments, Going(e), NEW p \in Processes
    PROVE  Match(p) \/ MarkReported(p) \/ Suppress(p) \/ ExitSuppressed(p) => Going(e)'
<1>0. pc[p] \in ReportSteps
      => pc[p] \notin AfterCreate \cup {"loadNext", "find", "enqueueNext"} /\ row[p] \in Rows
  BY DEF ReportSteps, AfterCreate, BaseInv, Hands, Holds
<1>1. ASSUME Match(p) \/ Suppress(p)
      PROVE  Going(e)'
  <2>1. pc[p] \in {"match", "suppress"} /\ SameTable /\ UNCHANGED queue
        /\ (Ends(p) \/ \E step, j, r, i, m : Takes(p, step, j, r, i, m))
    BY <1>1, ReportShape DEF GoesOn
  <2>2. EnrollmentKept(e)
    BY <2>1, SchedulesKept, SameEnrollment
  <2>3. QED
    BY <1>0, <2>1, <2>2, BegunAside DEF ReportSteps
<1>2. ASSUME MarkReported(p)
      PROVE  Going(e)'
  <2>1. pc[p] = "mark" /\ UNCHANGED <<status, index, queue>> /\ row[p] \in Rows
        /\ (\E v \in {"delivered", "failed"} : send' = [send EXCEPT ![row[p]] = v])
        /\ (Ends(p) \/ \E step, j, r, i, m : Takes(p, step, j, r, i, m))
    BY <1>0, <1>2, ReportShape DEF GoesOn, ReportSteps
  <2>2. EnrollmentKept(e)
    BY <2>1, SchedulesKept, SameEnrollment DEF Active
  <2>3. QED
    BY <1>0, <2>1, <2>2, BegunAside DEF ReportSteps
<1>3. ASSUME ExitSuppressed(p)
      PROVE  Going(e)'
  <2>1. pc[p] = "leave" /\ UNCHANGED <<index, send, queue>> /\ Ends(p) /\ Exit(Contact(row[p][1]))
    BY <1>3, ReportShape
  <2>2. Active(e)' => Active(e)
    BY <2>1 DEF Exit, Active
  <2>3. EnrollmentKept(e)
    BY <2>1, <2>2, SchedulesKept, SameEnrollment
  <2>4. QED
    BY <1>0, <2>1, <2>3, BegunAside DEF ReportSteps
<1>4. QED
  BY <1>1, <1>2, <1>3

\* Whoever has begun the next step of an enrollment and stops either gives back the job
\* that schedules it, or halts it.
LEMMA BeginnerStops ==
    ASSUME BaseInv, FreshInv, NEW e \in Enrollments, NEW p \in Processes, index[e] \in Steps,
           Begins(pc[p], job[p], row[p], made[p], e, index[e])
    PROVE  e \in CutOff(p) \/ job[p] = ScheduleJob(e)
<1>1. CASE e \in made[p]
  BY <1>1 DEF CutOff, FreshInv, EnrollHolds
<1>2. CASE pc[p] = "insert" /\ job[p] \notin ScheduleJobs /\ row[p] = <<e, 1>>
  BY <1>2, StepAssumption DEF CutOff, InHand, Steps
<1>3. CASE pc[p] \in {"find", "insert"} /\ row[p] = <<e, index[e]>>
  <2>1. CASE job[p] \in ScheduleJobs
    <3>1. job[p][2] = e
      BY <1>3, <2>1 DEF FreshInv, EnrollHolds
    <3>2. QED
      BY <2>1, <3>1, KindsOfJobs DEF ScheduleJob
  <2>2. CASE job[p] \notin ScheduleJobs
    <3>1. pc[p] = "insert"
      BY <1>3, <2>2 DEF FreshInv, EnrollHolds
    <3>2. QED
      BY <1>3, <2>2, <3>1 DEF CutOff, InHand
  <2>3. QED
    BY <2>1, <2>2
<1>4. CASE pc[p] = "enqueueNext" /\ row[p][1] = e
  <2>1. row[p] \in Rows
    BY <1>4 DEF BaseInv, Hands, Holds, SendSteps
  <2>2. QED
    BY <1>4, <2>1, RowDropped DEF CutOff
<1>5. QED
  BY <1>1, <1>2, <1>3, <1>4 DEF Begins, FreshAt

LEMMA MishapBegun ==
    ASSUME BaseInv, FreshInv, NEW e \in Enrollments, Going(e), e \notin halted', GoesWrong
    PROVE  Going(e)'
<1>0. ScheduleJob(e) \in Jobs /\ e \in Dropped(ScheduleJob(e))
  BY ScheduleJobKinds DEF Dropped, ScheduleJob
<1>1. ASSUME NEW p \in Processes, Interrupt(p)
      PROVE  Going(e)'
  <2>1. /\ SameTable /\ Ends(p)
        /\ IF job[p] \in Jobs THEN Q!GiveBack(job[p]) ELSE UNCHANGED queue
        /\ e \notin CutOff(p) /\ (queue' = queue => e \notin Dropped(job[p]))
    BY <1>1, MishapShape
  <2>2. EnrollmentKept(e)
    BY <2>1, SchedulesKept, SameEnrollment
  <2>3. ASSUME index[e] \in Steps, Begins(pc[p], job[p], row[p], made[p], e, index[e])
        PROVE  queue'[ScheduleJob(e)] > 0
    <3>1. job[p] = ScheduleJob(e)
      BY <2>1, <2>3, BeginnerStops
    <3>2. Q!Publish(ScheduleJob(e))
      BY <1>0, <2>1, <3>1 DEF Q!GiveBack
    <3>3. QED
      BY <3>2, SchedulesKept
  <2>4. QED
    BY <2>1, <2>2, <2>3, BegunEnds
<1>2. ASSUME NEW w \in Processes, Redeliver(w)
      PROVE  Going(e)'
  BY <1>2, MishapShape, SchedulesKept, SameEnrollment, BegunStill
<1>3. ASSUME NEW j \in Jobs, Drain(j)
      PROVE  Going(e)'
  <2>1. SameTable /\ NobodyMoves /\ Q!Take(j) /\ j # ScheduleJob(e)
    BY <1>0, <1>3, MishapShape
  <2>2. EnrollmentKept(e)
    BY <2>1, SchedulesKept, SameEnrollment
  <2>3. QED
    BY <2>1, <2>2, BegunStill
<1>4. SameTable /\ NobodyMoves /\ UNCHANGED queue => Going(e)'
  BY SchedulesKept, SameEnrollment, BegunStill
<1>5. QED
  BY <1>1, <1>2, <1>3, <1>4, MishapShape DEF GoesWrong, Processes

LEMMA InitBegun ==
    ASSUME Init
    PROVE  BegunInv
BY DEF Init, BegunInv, Going, Active

LEMMA StepBegun ==
    ASSUME BaseInv, WithinInv, FirstInv, FreshInv, BegunInv, [Next]_vars
    PROVE  BegunInv'
<1>1. SUFFICES ASSUME NEW e \in Enrollments, e \notin halted'
               PROVE  Going(e)'
  BY DEF BegunInv
<1>2. Going(e)
  BY <1>1, RiskStays DEF BegunInv
<1>3. CASE Work
  BY <1>2, <1>3, BeginBegun, EnrollBegun, ScheduleBegun, SendBegun, ReportBegun DEF Work, Step
<1>4. CASE Environment
  BY <1>2, <1>4, EnvironmentBegun, BeginBegun DEF Environment, Processes
<1>5. CASE GoesWrong
  BY <1>1, <1>2, <1>5, MishapBegun
<1>6. CASE UNCHANGED vars
  <2>1. SameTable /\ NobodyMoves /\ UNCHANGED queue
    BY <1>6 DEF vars, database, enrollments, sends, view, roster, NobodyMoves, SameTable
  <2>2. QED
    BY <1>2, <2>1, SchedulesKept, SameEnrollment, BegunStill
<1>7. QED
  BY <1>3, <1>4, <1>5, <1>6 DEF Next

\* A step that has no row yet is about to get one, by a waiting job or by a process
\* on its way to scheduleNextStep, as long as its enrollment is active and unhalted.
THEOREM BegunInvariant == Spec => []BegunInv
BY BaseInvariant, WithinInvariant, FreshInvariant, InitBegun, StepBegun, PTL DEF Spec

\* Retries never lose an active enrollment.  Somebody is to create, schedule, send or
\* follow up the step it is at, or the step was skipped: executeStepSend and
\* scheduleNextStep leave it behind only if one of them stops between a write and the
\* job that is to follow from it, a job is given up, or a send job is handled twice.
THEOREM NoneIsLost == Spec => []NoneIsForgotten
<1>1. BaseInv /\ OrderInv /\ FreshInv /\ TokenInv /\ ForwardInv /\ BegunInv => NoneIsForgotten
  <2>1. SUFFICES ASSUME BaseInv, OrderInv, FreshInv, TokenInv, ForwardInv, BegunInv,
                        NEW e \in Enrollments, Active(e), e \notin halted
                 PROVE  Carried(e) \/ Stranded(e)
    BY DEF NoneIsForgotten
  <2>2. PICK k \in Steps : k = index[e]
    BY <2>1 DEF BegunInv, Going
  <2>3. <<e, k>> \in Rows /\ TokenRow(<<e, k>>) /\ ForwardRow(<<e, k>>)
    BY <2>1 DEF Rows, TokenInv, ForwardInv
  <2>4. CASE send[<<e, k>>] = "none"
    <3>1. Begun(e)
      BY <2>1, <2>2, <2>4 DEF BegunInv, Going, Unbegun
    <3>2. CASE queue[ScheduleJob(e)] > 0
      BY <3>2 DEF Carried, Q!Waiting, ScheduleJob
    <3>3. ASSUME NEW p \in Processes, Begins(pc[p], job[p], row[p], made[p], e, index[e])
          PROVE  Carried(e)
      <4>1. CASE e \in made[p] \/ job[p] = ScheduleJob(e)
        BY <4>1 DEF Carried, ScheduleJob
      <4>2. CASE pc[p] = "insert" /\ \E i \in Steps : row[p] = <<e, i>>
        BY <4>2 DEF Carried
      <4>3. CASE pc[p] = "enqueueNext" /\ row[p][1] = e
        <5>1. row[p] \in Rows
          BY <2>1, <4>3 DEF BaseInv, Hands, Holds, SendSteps
        <5>2. QED
          BY <4>3, <5>1, RowParts DEF Carried
      <4>4. CASE pc[p] = "find" /\ row[p] = <<e, k>>
        <5>1. job[p] \in ScheduleJobs /\ job[p][2] = e
          BY <2>1, <4>4 DEF FreshInv, EnrollHolds
        <5>2. QED
          BY <4>1, <5>1, KindsOfJobs DEF ScheduleJob
      <4>5. QED
        BY <2>2, <3>3, <4>1, <4>2, <4>3, <4>4, StepAssumption DEF Begins, FreshAt, Steps
    <3>4. QED
      BY <3>1, <3>2, <3>3 DEF Begun
  <2>5. CASE send[<<e, k>>] = "pending"
    <3>1. CASE queue[SendJob(<<e, k>>)] > 0
      BY <2>5, <3>1 DEF Carried, Q!Waiting, SendJob
    <3>2. CASE queue[SendJob(<<e, k>>)] = 0
      BY <2>3, <2>5, <3>2 DEF TokenRow, Token, Carried
    <3>3. QED
      BY <2>1, <2>3, <3>1, <3>2, OwnJobs DEF BaseInv
  <2>6. CASE send[<<e, k>>] = "skipped"
    BY <2>6 DEF Stranded
  <2>7. CASE send[<<e, k>>] \in Recorded
    <3>1. PICK p \in Processes : row[p] = <<e, k>> /\ pc[p] = "advance"
      BY <2>2, <2>3, <2>7 DEF ForwardRow, AtAdvance
    <3>2. QED
      BY <3>1 DEF Carried
  <2>8. QED
    BY <2>1, <2>3, <2>4, <2>5, <2>6, <2>7 DEF BaseInv, TablesOK, Recorded
<1>2. QED
  BY <1>1, BaseInvariant, OrderInvariant, FreshInvariant, TokenInvariant, ForwardInvariant,
     BegunInvariant, PTL
===============================================================================
