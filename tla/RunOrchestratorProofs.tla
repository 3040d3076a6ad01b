------------------------ MODULE RunOrchestratorProofs ------------------------
(***************************************************************************)
(* Proofs about RunOrchestrator, for any bounds on runs, jobs, attempts,   *)
(* answers and faults.                                                     *)
(*                                                                         *)
(* The rows.  TriagingIsWorkedOn speaks of the newest run; it is inductive *)
(* only together with what the other statuses say of that run, and with    *)
(* the fact that every earlier run is over: else a failure, a sweep or a   *)
(* late result of an old run could move the remark (RowInv).               *)
(*                                                                         *)
(* The answers of the PM.  That a proposal has heard every rejection needs *)
(* the whole way of an answer: the request on its way to the queue, the    *)
(* job, the checkpoint it resumes from and the graph it finds still at     *)
(* work.  HeardInv says that a run has one such driver at a time and what  *)
(* each of the places knows when it has come that far.                     *)
(***************************************************************************)
EXTENDS RunOrchestrator, SetLemmas

RunRow  == [mode : Mode, status : RunStatus]
JobRow  == [state : {"absent", "queued", "running"}, run : Run,
            action : {"start"} \cup Answer, attempts : 0..MaxAttempts]
ExecRow == [step : Step, heard : Nat]

-----------------------------------------------------------------------------
(* The tables and what writes to one of their rows.                        *)
LEMMA Tables ==
  ASSUME TypeOK
  PROVE  /\ status \in Status /\ runs \in [Run -> RunRow] /\ rejected \in [Run -> 0..MaxRejects]
         /\ rejected \in [Run -> Nat]
         /\ shown \in Nat /\ jobs \in [Job -> JobRow] /\ saved \in [Run -> Checkpoint]
         /\ exec \in [Job -> ExecRow] /\ tail \subseteq Task
         /\ cancel \in [Run -> {"no", "aborted", "unqueued", "cancelled"}]
         /\ faults \in 0..MaxFaults /\ faults \in Nat
<1>1. \A n : 0..n \subseteq Nat
  OBVIOUS
<1> QED  BY <1>1 DEF TypeOK, RunRow, JobRow, ExecRow

LEMMA Untyped ==
  ASSUME status' \in Status, runs' \in [Run -> RunRow], rejected' \in [Run -> 0..MaxRejects],
         shown' \in Nat, jobs' \in [Job -> JobRow], saved' \in [Run -> Checkpoint],
         exec' \in [Job -> ExecRow], tail' \subseteq Task,
         cancel' \in [Run -> {"no", "aborted", "unqueued", "cancelled"}],
         faults' \in 0..MaxFaults
  PROVE  TypeOK'
BY DEF TypeOK, RunRow, JobRow, ExecRow

LEMMA SetRunOne ==
  ASSUME TypeOK, NEW r \in Run, NEW s \in RunStatus, SetRun(r, s)
  PROVE  /\ runs' \in [Run -> RunRow]
         /\ runs'[r] = [mode |-> runs[r].mode, status |-> s]
         /\ \A q \in Run : q # r => runs'[q] = runs[q]
<1>1. PICK o : o = runs[r] /\ o \in RunRow
  BY Tables
<1>2. PICK n : n = [o EXCEPT !.status = s]
  OBVIOUS
<1>3. n = [mode |-> o.mode, status |-> s] /\ n \in RunRow
  BY <1>1, <1>2 DEF RunRow
<1>4. runs' = [runs EXCEPT ![r] = n]
  BY <1>1, <1>2 DEF SetRun
<1> QED  BY <1>1, <1>3, <1>4, Tables

LEMMA SetExecOne ==
  ASSUME TypeOK, NEW j \in Job, NEW s \in Step, NEW h \in Nat, SetExec(j, s, h)
  PROVE  /\ exec' \in [Job -> ExecRow]
         /\ exec'[j] = [step |-> s, heard |-> h]
         /\ \A i \in Job : i # j => exec'[i] = exec[i]
BY Tables DEF SetExec, ExecRow

LEMMA SetSavedOne ==
  ASSUME TypeOK, NEW r \in Run, NEW at \in {"none", "work", "propose", "hitl", "end"}, NEW h \in Nat,
         SetSaved(r, at, h)
  PROVE  /\ saved' \in [Run -> Checkpoint]
         /\ saved'[r] = [at |-> at, heard |-> h]
         /\ \A q \in Run : q # r => saved'[q] = saved[q]
BY Tables DEF SetSaved, Checkpoint

LEMMA MyRunIsRun == ASSUME TypeOK, NEW j \in Job  PROVE MyRun(j) \in Run
BY Tables DEF MyRun, JobRow

LEMMA StatusesAreRows ==
  ASSUME NEW m \in Mode
  PROVE  Busy(m) \in Status /\ Waiting(m) \in Status /\ Back(m) \in Status
BY DEF Busy, Waiting, Back, Status, Startable

LEMMA NoneAreRows ==
  ASSUME MaxRuns \in Nat \ {0}, MaxAttempts \in Nat
  PROVE  NoExec \in ExecRow /\ NoJob \in JobRow /\ Nowhere \in Checkpoint
BY DEF NoExec, ExecRow, Step, NoJob, JobRow, Run, Nowhere, Checkpoint

(* Where a resumption goes on is always a node with work to do, or the end.*)
LEMMA ResumedAt ==
  ASSUME TypeOK, NEW j \in Job
  PROVE  \E at \in {"work", "propose", "end"}, h \in Nat :
            Resumed(j) = [at |-> at, heard |-> h]
<1>1. PICK r \in Run, c \in Checkpoint : r = MyRun(j) /\ c = saved[r] /\ rejected[r] \in Nat
  BY Tables, MyRunIsRun
<1>2. c = [at |-> c.at, heard |-> c.heard] /\ c.heard \in Nat
      /\ c.at \in {"none", "work", "propose", "hitl", "end"}
  BY <1>1 DEF Checkpoint
<1>3. CASE c.at \in {"work", "propose"}
  BY <1>1, <1>2, <1>3 DEF Resumed
<1>4. CASE c.at \notin {"work", "propose"} /\ jobs[j].action = "reject"
  <2>1. PICK h \in Nat : h = IF c.at = "hitl" THEN c.heard + 1 ELSE rejected[r]
    BY <1>1, <1>2
  <2>2. Resumed(j) = [at |-> "work", heard |-> h]
    BY <1>1, <1>4, <2>1 DEF Resumed
  <2> QED  BY <2>2
<1>5. CASE c.at \notin {"work", "propose"} /\ jobs[j].action # "reject"
  <2>1. Resumed(j) = [at |-> "end", heard |-> c.heard]
    BY <1>1, <1>5 DEF Resumed
  <2> QED  BY <1>2, <2>1
<1> QED  BY <1>3, <1>4, <1>5

LEMMA FaultsCounted == ASSUME TypeOK, Fault  PROVE faults' \in 0..MaxFaults
<1>1. faults \in 0..MaxFaults /\ MaxFaults \in Nat
  BY OrchestratorAssumption DEF TypeOK
<1> QED  BY <1>1 DEF Fault

LEMMA PeopleKeepTypes == ASSUME TypeOK, People  PROVE TypeOK'
<1> USE Tables
<1>1. ASSUME NEW m \in Mode, NEW from, Begin(m, from)  PROVE TypeOK'
  <2>1. PICK r \in Run : /\ runs' = [runs EXCEPT ![r] = [mode |-> m, status |-> "running"]]
                         /\ Reply([run |-> r, action |-> "start"])
    BY <1>1 DEF Begin
  <2>2. runs' \in [Run -> RunRow]
    BY <2>1 DEF RunRow, RunStatus
  <2>3. tail' \subseteq Task
    BY <2>1 DEF Reply, Task
  <2>4. /\ status' = Busy(m)
        /\ UNCHANGED <<rejected, shown, jobs, saved, exec, cancel, faults>>
    BY <1>1 DEF Begin
  <2> QED  BY <2>2, <2>3, <2>4, StatusesAreRows, Untyped
<1>2. ASSUME NEW r \in Run, RejectBinding(r)  PROVE TypeOK'
  <2>1. /\ status' = "triaging" /\ SetRun(r, "running") /\ rejected[r] < MaxRejects
        /\ rejected' = [rejected EXCEPT ![r] = @ + 1] /\ Reply([run |-> r, action |-> "reject"])
        /\ UNCHANGED <<shown, jobs, saved, exec, cancel, faults>>
    BY <1>2 DEF RejectBinding
  <2>2. runs' \in [Run -> RunRow]
    BY <2>1, SetRunOne DEF RunStatus
  <2>3. rejected' \in [Run -> 0..MaxRejects]
    <3>1. rejected[r] \in 0..MaxRejects /\ rejected \in [Run -> 0..MaxRejects]
      OBVIOUS
    <3>2. rejected[r] + 1 \in 0..MaxRejects
      BY <2>1, <3>1, OrchestratorAssumption
    <3> QED  BY <2>1, <3>1, <3>2
  <2>4. tail' \subseteq Task
    BY <2>1 DEF Reply, Task, Answer
  <2> QED  BY <2>1, <2>2, <2>3, <2>4, Untyped DEF Status
<1>3. ASSUME NEW r \in Run, NEW from, NEW to \in Status, Decide(r, from, to)  PROVE TypeOK'
  <2>1. /\ status' = to /\ SetRun(r, "persisted") /\ Reply([run |-> r, action |-> "accept"])
        /\ UNCHANGED <<rejected, shown, jobs, saved, exec, cancel, faults>>
    BY <1>3 DEF Decide
  <2>2. runs' \in [Run -> RunRow]
    BY <2>1, SetRunOne DEF RunStatus
  <2>3. tail' \subseteq Task
    BY <2>1 DEF Reply, Task, Answer
  <2> QED  BY <2>1, <2>2, <2>3, Untyped
<1>4. CASE ReadyForRetest
  BY <1>4, Untyped DEF ReadyForRetest, Status
<1>5. ASSUME NEW r \in Run, AbortRun(r)  PROVE TypeOK'
  <2>1. /\ cancel' = [cancel EXCEPT ![r] = "aborted"] /\ exec' = [j \in Job |-> AbortedExec(j, r)]
        /\ UNCHANGED <<status, runs, rejected, shown, jobs, tail, faults>>
    BY <1>5 DEF AbortRun
  <2>2. ASSUME NEW j \in Job  PROVE AbortedExec(j, r) \in ExecRow
    <3>1. PICK o \in ExecRow : o = exec[j]
      OBVIOUS
    <3>2. AbortedExec(j, r) \in {o, [o EXCEPT !.step = "stray"], [o EXCEPT !.step = "returned"]}
      BY <3>1 DEF AbortedExec
    <3>3. ASSUME NEW s \in {"stray", "returned"}  PROVE [o EXCEPT !.step = s] \in ExecRow
      BY DEF ExecRow, Step
    <3> QED  BY <3>2, <3>3
  <2>3. saved' \in [Run -> Checkpoint]
    <3>1. CASE UNCHANGED saved
      BY <3>1
    <3>2. ASSUME NEW j \in Job, SetSaved(r, "hitl", exec[j].heard)  PROVE saved' \in [Run -> Checkpoint]
      <4>1. exec[j].heard \in Nat
        BY DEF ExecRow
      <4> QED  BY <3>2, <4>1, SetSavedOne
    <3> QED  BY <1>5, <3>1, <3>2 DEF AbortRun
  <2> QED  BY <2>1, <2>2, <2>3, Untyped
<1>6. ASSUME NEW r \in Run, CancelByRun(r)  PROVE TypeOK'
  <2>1. jobs' \in [Job -> JobRow]
    BY <1>6, NoneAreRows, OrchestratorAssumption DEF CancelByRun
  <2>2. cancel' \in [Run -> {"no", "aborted", "unqueued", "cancelled"}]
    BY <1>6 DEF CancelByRun
  <2> QED  BY <1>6, <2>1, <2>2, Untyped DEF CancelByRun
<1>7. ASSUME NEW r \in Run, CancelRun(r)  PROVE TypeOK'
  <2>1. runs' \in [Run -> RunRow]
    BY <1>7, SetRunOne DEF CancelRun, RunStatus
  <2>2. runs[r].mode \in Mode
    BY DEF RunRow
  <2>3. status' \in Status
    BY <1>7, <2>2, StatusesAreRows DEF CancelRun
  <2>4. cancel' \in [Run -> {"no", "aborted", "unqueued", "cancelled"}]
    BY <1>7 DEF CancelRun
  <2> QED  BY <1>7, <2>1, <2>3, <2>4, Untyped DEF CancelRun
<1>8. ASSUME NEW r \in Run, DeleteThread(r)  PROVE TypeOK'
  BY <1>8, NoneAreRows, OrchestratorAssumption, Untyped DEF DeleteThread
<1>9. {"defect", "cannot_tell", "closed"} \subseteq Status /\ {"triage", "retest"} = Mode
  BY DEF Status, Startable, Mode
<1> QED  BY <1>1, <1>2, <1>3, <1>4, <1>5, <1>6, <1>7, <1>8, <1>9
         DEF People, StartTriage, StartRetest, Verdict, Close, NotFixed

LEMMA WorkerKeepsTypes ==
  ASSUME TypeOK, NEW j \in Job, Worker(j) \/ HandlerThrows(j) \/ Requeue(j)
  PROVE  TypeOK'
<1> USE Tables, MyRunIsRun
<1>0. /\ \A s \in {"queued", "running"}, n \in 0..MaxAttempts :
           [jobs[j] EXCEPT !.state = s, !.attempts = n] \in JobRow
      /\ \A s \in {"queued", "running"} : [jobs[j] EXCEPT !.state = s] \in JobRow
      /\ NoJob \in JobRow /\ NoExec \in ExecRow /\ Nowhere \in Checkpoint
      /\ exec[j].heard \in Nat /\ MyRun(j) \in Run
  <2>1. PICK o \in JobRow : o = jobs[j]
    OBVIOUS
  <2>2. ASSUME NEW s \in {"queued", "running"}, NEW n \in 0..MaxAttempts
        PROVE  [o EXCEPT !.state = s, !.attempts = n] \in JobRow
    BY DEF JobRow
  <2>3. ASSUME NEW s \in {"queued", "running"}  PROVE [o EXCEPT !.state = s] \in JobRow
    BY DEF JobRow
  <2>4. exec[j].heard \in Nat
    BY DEF ExecRow
  <2> QED  BY <2>1, <2>2, <2>3, <2>4, NoneAreRows, OrchestratorAssumption
<1>1. CASE Claim(j)
  <2>1. PICK n : n = Counted(jobs[j].attempts)
    OBVIOUS
  <2>2. n \in 0..MaxAttempts
    <3>1. jobs[j].attempts \in 0..MaxAttempts /\ MaxAttempts \in Nat
      BY OrchestratorAssumption DEF JobRow
    <3> QED  BY <2>1, <3>1 DEF Counted
  <2>3. jobs' = [jobs EXCEPT ![j].state = "running", ![j].attempts = n]
    BY <1>1, <2>1 DEF Claim
  <2>4. jobs' = [jobs EXCEPT ![j] = [jobs[j] EXCEPT !.state = "running", !.attempts = n]]
    BY <2>3
  <2>5. jobs' \in [Job -> JobRow]
    <3>1. [jobs[j] EXCEPT !.state = "running", !.attempts = n] \in JobRow
      BY <1>0, <2>2, Zenon
    <3> QED  BY <2>4, <3>1
  <2>6. exec' \in [Job -> ExecRow]
    BY <1>1, SetExecOne DEF Claim, Step
  <2> QED  BY <1>1, <2>5, <2>6, Untyped DEF Claim
<1>2. CASE ExecuteJob(j) \/ StrayEnds(j)
  <2>1. exec' \in [Job -> ExecRow]
    BY <1>2, SetExecOne DEF ExecuteJob, StrayEnds, Step
  <2> QED  BY <1>2, <2>1, Untyped DEF ExecuteJob, StrayEnds
<1>3. CASE StartGraph(j)
  <2>1. exec' \in [Job -> ExecRow] /\ saved' \in [Run -> Checkpoint]
    BY <1>0, <1>3, SetExecOne, SetSavedOne DEF StartGraph, Step
  <2> QED  BY <1>3, <2>1, Untyped DEF StartGraph
<1>4. CASE ResumeGraph(j)
  <2>1. PICK at \in {"work", "propose", "end"}, h \in Nat : Resumed(j) = [at |-> at, heard |-> h]
    BY ResumedAt
  <2>2. [at |-> at, heard |-> h] \in Checkpoint
    BY DEF Checkpoint
  <2>3. /\ SetExec(j, IF at = "end" THEN "returned" ELSE at, h)
        /\ saved' = saved \/ saved' = [saved EXCEPT ![MyRun(j)] = [at |-> at, heard |-> h]]
        /\ UNCHANGED <<status, runs, rejected, shown, jobs, tail, cancel, faults>>
    BY <1>4, <2>1 DEF ResumeGraph
  <2>4. exec' \in [Job -> ExecRow]
    <3>1. PICK s \in Step : s = IF at = "end" THEN "returned" ELSE at
      BY DEF Step
    <3> QED  BY <2>3, <3>1, SetExecOne
  <2>5. saved' \in [Run -> Checkpoint]
    BY <1>0, <2>2, <2>3
  <2> QED  BY <2>3, <2>4, <2>5, Untyped
<1>5. CASE Work(j) \/ Pause(j)
  <2>1. exec' \in [Job -> ExecRow] /\ saved' \in [Run -> Checkpoint]
    BY <1>0, <1>5, SetExecOne, SetSavedOne DEF Work, Pause, Step
  <2> QED  BY <1>5, <2>1, Untyped DEF Work, Pause
<1>6. CASE Propose(j) \/ StrayPropose(j)
  <2>1. PICK next \in {"proposed", "returned"} : ApplyResult(j, next)
    BY <1>6 DEF Propose, StrayPropose
  <2>2. runs[MyRun(j)].mode \in Mode
    BY <1>0 DEF RunRow
  <2>3. /\ status' \in Status /\ shown' \in Nat
        /\ UNCHANGED <<rejected, jobs, saved, tail, cancel, faults>>
    BY <1>0, <2>1, <2>2, StatusesAreRows DEF ApplyResult
  <2>4. exec' \in [Job -> ExecRow] /\ runs' \in [Run -> RunRow]
    BY <1>0, <2>1, SetExecOne, SetRunOne DEF ApplyResult, Step, RunStatus
  <2> QED  BY <2>3, <2>4, Untyped
<1>7. CASE Fails(j)
  <2>1. exec' \in [Job -> ExecRow]
    BY <1>7, SetExecOne DEF Fails, Step
  <2>2. faults' \in 0..MaxFaults
    BY <1>7, FaultsCounted DEF Fails
  <2>3. status' \in Status /\ runs' \in [Run -> RunRow]
    BY <1>0, <1>7, SetRunOne DEF Fails, FailRun, RunStatus, Status, Startable
  <2> QED  BY <1>7, <2>1, <2>2, <2>3, Untyped DEF Fails
<1>8. CASE Retry(j) \/ Requeue(j)
  <2>1. jobs' = [jobs EXCEPT ![j] = [jobs[j] EXCEPT !.state = "queued"]]
    BY <1>8 DEF Retry, Requeue
  <2>2. jobs' \in [Job -> JobRow]
    BY <1>0, <2>1
  <2>3. exec' \in [Job -> ExecRow]
    BY <1>0, <1>8 DEF Retry, Requeue
  <2> QED  BY <1>8, <2>2, <2>3, Untyped DEF Retry, Requeue
<1>9. CASE HandlerThrows(j)
  <2>1. exec' \in [Job -> ExecRow] /\ faults' \in 0..MaxFaults
    BY <1>9, SetExecOne, FaultsCounted DEF HandlerThrows, Step
  <2> QED  BY <1>9, <2>1, Untyped DEF HandlerThrows
<1>10. CASE FinishJob(j)
  <2>1. exec' \in [Job -> ExecRow] /\ jobs' \in [Job -> JobRow]
    BY <1>0, <1>10 DEF FinishJob
  <2> QED  BY <1>10, <2>1, Untyped DEF FinishJob
<1> QED  BY <1>1, <1>2, <1>3, <1>4, <1>5, <1>6, <1>7, <1>8, <1>9, <1>10 DEF Worker, Graph

LEMMA OthersKeepTypes ==
  ASSUME TypeOK,
         \/ Crash \/ UNCHANGED vars
         \/ \E t \in tail : Enqueue(t) \/ EnqueueFails(t)
         \/ \E r \in Run : FailStaleRun(r) \/ PruneCheckpoints(r)
  PROVE  TypeOK'
<1> USE Tables
<1>1. NoExec \in ExecRow /\ Nowhere \in Checkpoint
  BY NoneAreRows, OrchestratorAssumption
<1>2. CASE Crash
  <2>1. /\ exec' \in [Job -> ExecRow] /\ tail' \subseteq Task
        /\ cancel' \in [Run -> {"no", "aborted", "unqueued", "cancelled"}]
    BY <1>1, <1>2 DEF Crash
  <2> QED  BY <1>2, <2>1, FaultsCounted, Untyped DEF Crash
<1>3. CASE UNCHANGED vars
  BY <1>3 DEF vars, TypeOK
<1>4. ASSUME NEW t \in tail, Enqueue(t)  PROVE TypeOK'
  <2>1. PICK j \in Job : jobs' = [jobs EXCEPT ![j] = [state |-> "queued", run |-> t.run,
                                                      action |-> t.action, attempts |-> 0]]
    BY <1>4 DEF Enqueue
  <2>2. t.run \in Run /\ t.action \in {"start"} \cup Answer
    BY DEF Task
  <2>3. jobs' \in [Job -> JobRow]
    <3>1. 0 \in 0..MaxAttempts
      BY OrchestratorAssumption
    <3>2. [state |-> "queued", run |-> t.run, action |-> t.action, attempts |-> 0] \in JobRow
      BY <2>2, <3>1 DEF JobRow
    <3> QED  BY <2>1, <3>2
  <2> QED  BY <1>4, <2>3, Untyped DEF Enqueue
<1>5. ASSUME NEW t \in tail, EnqueueFails(t)  PROVE TypeOK'
  BY <1>5, FaultsCounted, Untyped DEF EnqueueFails
<1>6. ASSUME NEW r \in Run, FailStaleRun(r)  PROVE TypeOK'
  <2>1. status' \in Status /\ runs' \in [Run -> RunRow]
    BY <1>6, SetRunOne DEF FailStaleRun, FailRun, RunStatus, Status, Startable
  <2> QED  BY <1>6, <2>1, Untyped DEF FailStaleRun
<1>7. ASSUME NEW r \in Run, PruneCheckpoints(r)  PROVE TypeOK'
  BY <1>1, <1>7, Untyped DEF PruneCheckpoints
<1> QED  BY <1>2, <1>3, <1>4, <1>5, <1>6, <1>7

LEMMA TypeStep == TypeOK /\ [Next]_vars => TypeOK'
BY PeopleKeepTypes, WorkerKeepsTypes, OthersKeepTypes DEF Next

LEMMA TypesBegin == Init => TypeOK
<1> SUFFICES ASSUME Init  PROVE TypeOK
  OBVIOUS
<1>1. NoExec \in ExecRow /\ NoJob \in JobRow /\ Nowhere \in Checkpoint
  BY NoneAreRows, OrchestratorAssumption
<1>2. runs \in [Run -> RunRow] /\ status \in Status
  BY DEF Init, RunRow, Mode, RunStatus, Status, Startable
<1>3. jobs \in [Job -> JobRow] /\ exec \in [Job -> ExecRow] /\ saved \in [Run -> Checkpoint]
  BY <1>1 DEF Init
<1>4. rejected \in [Run -> 0..MaxRejects] /\ faults \in 0..MaxFaults
  BY OrchestratorAssumption DEF Init
<1> QED  BY <1>2, <1>3, <1>4 DEF Init, TypeOK, RunRow, JobRow, ExecRow

LEMMA SpecSteps == Spec => Init /\ [][Next]_vars
BY DEF Spec

(* The rows, the checkpoints and the memory of the process keep their      *)
(* types through every failure and crash.                                  *)
THEOREM OrchestratorTypes == Spec => []TypeOK
BY TypesBegin, TypeStep, SpecSteps, PTL

-----------------------------------------------------------------------------
(* The rows                                                                *)

(* What the status of the remark says of its newest run.                   *)
Agrees(st, row) ==
  /\ st = "triaging" <=> row.mode = "triage" /\ row.status = "running"
  /\ st = "awaiting_pm" <=> row.mode = "triage" /\ row.status = "awaiting_human"
  /\ st = "awaiting_business_close" <=> row.mode = "retest" /\ row.status = "awaiting_human"
  /\ row.mode = "retest" /\ row.status = "running" => st = "ready_for_retest"

Unattended == {"imported", "cannot_tell", "defect", "ready_for_retest", "closed"}

OlderAreOver ==
  \A r \in Run : Created(r) => \A s \in 1..(r - 1) : runs[s].status \in Ended

NewestAgrees == \A r \in Run : Newest(r) => Agrees(status, runs[r])

RowInv ==
  /\ TypeOK /\ OlderAreOver /\ NewestAgrees
  /\ (\A r \in Run : ~Created(r)) => status \in Unattended

(* What any step does to the two tables.                                   *)
Follows(a, b) ==
  \/ a = "running" /\ b \in {"awaiting_human", "failed", "cancelled"}
  \/ a = "awaiting_human" /\ b \in {"running", "persisted", "cancelled"}

BeginsRun(r, m) ==
  /\ ~Created(r) /\ \A s \in Run : Created(s) => runs[s].status \in Ended
  /\ \A s \in 1..(r - 1) : Created(s)
  /\ runs' = [runs EXCEPT ![r] = [mode |-> m, status |-> "running"]]
  /\ status' = Busy(m)

MovesRun(r, s) ==
  /\ Newest(r) /\ Follows(runs[r].status, s)
  /\ runs' \in [Run -> RunRow]
  /\ runs'[r] = [mode |-> runs[r].mode, status |-> s]
  /\ \A q \in Run : q # r => runs'[q] = runs[q]
  /\ Agrees(status', [mode |-> runs[r].mode, status |-> s])

RowStep ==
  \/ UNCHANGED <<status, runs>>
  \/ status = "defect" /\ status' = "ready_for_retest" /\ UNCHANGED runs
  \/ \E r \in Run, m \in Mode : BeginsRun(r, m)
  \/ \E r \in Run, s \in RunStatus : MovesRun(r, s)

LEMMA EarlierRun ==
  ASSUME NEW r \in Run, NEW s \in 1..(r - 1)
  PROVE  s \in Run /\ s < r
BY OrchestratorAssumption DEF Run

LEMMA ActiveIsNewest ==
  ASSUME RowInv, NEW r \in Run, runs[r].status \in Active
  PROVE  Newest(r) /\ Created(r) /\ Agrees(status, runs[r])
<1>1. Created(r)
  BY DEF Created, Active
<1>2. ASSUME NEW s \in Run, Created(s), ~(s <= r)  PROVE FALSE
  <2>1. r \in 1..(s - 1)
    BY <1>2 DEF Run
  <2> QED  BY <1>2, <2>1 DEF RowInv, OlderAreOver, Active, Ended
<1> QED  BY <1>1, <1>2 DEF Newest, RowInv, NewestAgrees

LEMMA OneNewest ==
  ASSUME NEW r \in Run, NEW s \in Run, Newest(r), Newest(s)
  PROVE  r = s
BY DEF Newest, Run

LEMMA NewestIs ==
  ASSUME RowInv, NEW r \in Run, Newest(r)
  PROVE  /\ Agrees(status, runs[r]) /\ runs[r] \in RunRow /\ runs[r].status # "none"
         /\ runs[r] = [mode |-> runs[r].mode, status |-> runs[r].status]
         /\ \A s \in Run : Created(s) /\ s # r => runs[s].status \in Ended
<1>1. runs[r] \in RunRow
  BY Tables DEF RowInv
<1>2. ASSUME NEW s \in Run, Created(s), s # r  PROVE runs[s].status \in Ended
  <2>1. s \in 1..(r - 1)
    BY <1>2 DEF Newest, Run
  <2> QED  BY <2>1 DEF RowInv, OlderAreOver, Newest
<1> QED  BY <1>1, <1>2 DEF RowInv, NewestAgrees, Newest, Created, RunRow

LEMMA RowStepKeeps == ASSUME RowInv, TypeOK', RowStep  PROVE RowInv'
<1>1. CASE UNCHANGED <<status, runs>>
  BY <1>1 DEF RowInv, OlderAreOver, NewestAgrees, Newest, Created
<1>2. CASE status = "defect" /\ status' = "ready_for_retest" /\ UNCHANGED runs
  <2>1. \A row : Agrees("defect", row) => Agrees("ready_for_retest", row)
    BY DEF Agrees
  <2> QED  BY <1>2, <2>1 DEF RowInv, OlderAreOver, NewestAgrees, Newest, Created, Unattended
<1>3. ASSUME NEW r \in Run, NEW m \in Mode, BeginsRun(r, m)  PROVE RowInv'
  <2>1. /\ runs'[r] = [mode |-> m, status |-> "running"] /\ status' = Busy(m)
        /\ \A q \in Run : q # r => runs'[q] = runs[q]
    BY <1>3, Tables DEF BeginsRun, RowInv
  <2>2. Created(r)' /\ \A q \in Run : q # r => (Created(q)' <=> Created(q))
    BY <2>1 DEF Created
  <2>3. ASSUME NEW q \in Run, Created(q)  PROVE q < r
    <3>1. CASE r < q
      <4>1. r \in 1..(q - 1)
        BY <3>1 DEF Run
      <4>2. runs[r].status \in Ended
        BY <2>3, <4>1 DEF RowInv, OlderAreOver
      <4> QED  BY <1>3, <4>2 DEF BeginsRun, Created, Ended
    <3>2. q # r
      BY <1>3, <2>3 DEF BeginsRun
    <3> QED  BY <3>1, <3>2 DEF Run
  <2>4. ASSUME NEW q \in Run, Newest(q)'  PROVE q = r
    BY <2>2, <2>3, <2>4 DEF Newest, Run
  <2>5. Agrees(status', runs'[r])
    BY <2>1 DEF Agrees, Busy, Mode
  <2>6. ASSUME NEW q \in Run, Created(q)', NEW s \in 1..(q - 1)  PROVE runs'[s].status \in Ended
    <3>1. s \in Run /\ s # r /\ Created(s)
      <4>1. CASE q = r
        BY <1>3, <4>1, EarlierRun DEF BeginsRun, Run
      <4>2. CASE q # r
        <5>1. Created(q) /\ q < r /\ runs[s].status \in Ended
          BY <2>2, <2>3, <2>6, <4>2 DEF RowInv, OlderAreOver
        <5>2. s \in Run /\ s < q
          BY EarlierRun
        <5> QED  BY <5>1, <5>2 DEF Run, Created, Ended
      <4> QED  BY <4>1, <4>2
    <3>2. runs[s].status \in Ended /\ runs'[s] = runs[s]
      BY <1>3, <2>1, <3>1 DEF BeginsRun
    <3> QED  BY <3>2
  <2>7. OlderAreOver' /\ NewestAgrees'
    BY <2>4, <2>5, <2>6 DEF OlderAreOver, NewestAgrees
  <2> QED  BY <2>2, <2>7 DEF RowInv
<1>4. ASSUME NEW r \in Run, NEW s \in RunStatus, MovesRun(r, s)  PROVE RowInv'
  <2>1. /\ runs'[r] = [mode |-> runs[r].mode, status |-> s]
        /\ \A q \in Run : q # r => runs'[q] = runs[q]
        /\ Newest(r) /\ s # "none" /\ Agrees(status', runs'[r])
    BY <1>4 DEF MovesRun, Follows
  <2>2. \A q \in Run : Created(q)' <=> Created(q)
    BY <2>1 DEF Created, Newest
  <2>3. \A q \in Run : Newest(q)' <=> Newest(q)
    BY <2>2 DEF Newest
  <2>4. ASSUME NEW q \in Run, Created(q), NEW p \in 1..(q - 1)  PROVE runs'[p].status \in Ended
    <3>1. p \in Run /\ p < q /\ q <= r
      BY <2>1, <2>4, EarlierRun DEF Newest
    <3>2. p # r /\ runs[p].status \in Ended
      BY <2>4, <3>1 DEF Run, RowInv, OlderAreOver
    <3> QED  BY <2>1, <3>1, <3>2
  <2>5. NewestAgrees'
    BY <2>1, <2>3, OneNewest DEF NewestAgrees
  <2>6. OlderAreOver'
    BY <2>2, <2>4 DEF OlderAreOver
  <2> QED  BY <2>1, <2>2, <2>5, <2>6 DEF RowInv, Newest
<1> QED  BY <1>1, <1>2, <1>3, <1>4 DEF RowStep

LEMMA FailRunSteps == ASSUME RowInv, NEW r \in Run, FailRun(r)  PROVE RowStep
<1>1. CASE runs[r].status # "running"
  BY <1>1 DEF FailRun, RowStep
<1>2. CASE runs[r].status = "running"
  <2>1. Newest(r) /\ Agrees(status, runs[r]) /\ SetRun(r, "failed")
    BY <1>2, ActiveIsNewest DEF FailRun, Active
  <2>2. Agrees(status', [mode |-> runs[r].mode, status |-> "failed"])
    <3>1. status' = IF runs[r].mode = "triage" /\ status = "triaging" THEN "imported" ELSE status
      BY <1>2 DEF FailRun
    <3> QED  BY <1>2, <2>1, <3>1 DEF Agrees
  <2>3. MovesRun(r, "failed")
    BY <1>2, <2>1, <2>2, SetRunOne DEF MovesRun, Follows, RunStatus, RowInv
  <2> QED  BY <2>3 DEF RowStep, RunStatus
<1> QED  BY <1>1, <1>2

LEMMA ResultSteps ==
  ASSUME RowInv, NEW j \in Job, NEW next, ApplyResult(j, next)
  PROVE  /\ RowStep /\ Newest(MyRun(j)) /\ MyRun(j) \in Run /\ runs[MyRun(j)].status = "running"
         /\ MovesRun(MyRun(j), "awaiting_human") /\ shown' = exec[j].heard
<1>1. PICK r \in Run : r = MyRun(j)
  BY MyRunIsRun DEF RowInv
<1>2. /\ status = Busy(runs[r].mode) /\ runs[r].status = "running"
      /\ status' = Waiting(runs[r].mode) /\ SetRun(r, "awaiting_human")
  BY <1>1 DEF ApplyResult, Accepts
<1>3. Newest(r) /\ runs[r] \in RunRow
  BY <1>2, ActiveIsNewest, NewestIs DEF Active
<1>4. Agrees(status', [mode |-> runs[r].mode, status |-> "awaiting_human"])
  BY <1>2, <1>3 DEF Agrees, Waiting, RunRow, Mode
<1>5. MovesRun(r, "awaiting_human")
  BY <1>2, <1>3, <1>4, SetRunOne DEF MovesRun, Follows, RunStatus, RowInv
<1> QED  BY <1>1, <1>2, <1>3, <1>5 DEF RowStep, RunStatus, ApplyResult

LEMMA BeginSteps ==
  ASSUME RowInv, NEW m \in Mode, NEW from, Begin(m, from),
         from \subseteq {"imported", "cannot_tell", "ready_for_retest"}
  PROVE  \E r \in Run : BeginsRun(r, m) /\ Reply([run |-> r, action |-> "start"])
<1>1. PICK r \in Run : /\ ~Created(r) /\ \A s \in 1..(r - 1) : Created(s)
                       /\ runs' = [runs EXCEPT ![r] = [mode |-> m, status |-> "running"]]
                       /\ Reply([run |-> r, action |-> "start"])
  BY DEF Begin
<1>2. status \in {"imported", "cannot_tell", "ready_for_retest"} /\ status' = Busy(m)
  BY DEF Begin
<1>3. ASSUME NEW s \in Run, Created(s)  PROVE runs[s].status \in Ended
  <2>1. CASE runs[s].status \in Active
    <3>1. Agrees(status, runs[s]) /\ runs[s] \in RunRow
      BY <2>1, ActiveIsNewest, NewestIs
    <3>2. runs[s] = [mode |-> "retest", status |-> "running"]
      BY <1>2, <2>1, <3>1 DEF Agrees, Active, RunRow, Mode
    <3> QED  BY <3>2 DEF Begin
  <2>2. runs[s].status \in RunStatus \ {"none"}
    BY <1>3, Tables DEF RowInv, RunRow, Created
  <2> QED  BY <2>1, <2>2 DEF Active, Ended, RunStatus
<1> QED  BY <1>1, <1>2, <1>3 DEF BeginsRun

LEMMA DecideSteps ==
  ASSUME RowInv, NEW r \in Run, NEW from \in {"awaiting_pm", "awaiting_business_close"},
         NEW to \in {"defect", "cannot_tell", "closed"}, Decide(r, from, to)
  PROVE  MovesRun(r, "persisted")
<1>1. Newest(r) /\ status = from /\ status' = to /\ SetRun(r, "persisted")
  BY DEF Decide
<1>2. runs[r].status = "awaiting_human" /\ runs[r] \in RunRow
  BY <1>1, NewestIs DEF Agrees
<1>3. Agrees(status', [mode |-> runs[r].mode, status |-> "persisted"])
  BY <1>1 DEF Agrees
<1> QED  BY <1>1, <1>2, <1>3, SetRunOne DEF MovesRun, Follows, RunStatus, RowInv

LEMMA RejectSteps ==
  ASSUME RowInv, NEW r \in Run, RejectBinding(r)
  PROVE  MovesRun(r, "running") /\ runs[r].status = "awaiting_human"
<1>1. Newest(r) /\ status = "awaiting_pm" /\ status' = "triaging" /\ SetRun(r, "running")
  BY DEF RejectBinding
<1>2. runs[r].status = "awaiting_human" /\ runs[r].mode = "triage"
  BY <1>1, NewestIs DEF Agrees
<1>3. Agrees(status', [mode |-> runs[r].mode, status |-> "running"])
  BY <1>1, <1>2 DEF Agrees
<1> QED  BY <1>1, <1>2, <1>3, SetRunOne DEF MovesRun, Follows, RunStatus, RowInv

LEMMA CancelSteps ==
  ASSUME RowInv, NEW r \in Run, CancelRun(r)
  PROVE  \/ /\ runs[r].status \notin Active /\ UNCHANGED <<status, runs>>
            /\ cancel' = [cancel EXCEPT ![r] = "no"]
         \/ /\ MovesRun(r, "cancelled") /\ cancel' = [cancel EXCEPT ![r] = "cancelled"]
<1>1. CASE runs[r].status \notin Active
  BY <1>1 DEF CancelRun
<1>2. CASE runs[r].status \in Active
  <2>1. Newest(r) /\ Agrees(status, runs[r]) /\ SetRun(r, "cancelled") /\ runs[r] \in RunRow
    BY <1>2, ActiveIsNewest, NewestIs DEF CancelRun
  <2>2. status' = (IF status \in {Busy(runs[r].mode), Waiting(runs[r].mode)}
                   THEN Back(runs[r].mode) ELSE status)
    BY <1>2, <2>1 DEF CancelRun
  <2>3. Agrees(status', [mode |-> runs[r].mode, status |-> "cancelled"])
    BY <1>2, <2>1, <2>2 DEF Agrees, Active, RunRow, Mode, Busy, Waiting, Back
  <2>4. MovesRun(r, "cancelled")
    BY <1>2, <2>1, <2>3, SetRunOne DEF MovesRun, Follows, RunStatus, Active, RowInv
  <2> QED  BY <1>2, <2>4 DEF CancelRun
<1> QED  BY <1>1, <1>2

LEMMA RowsMove == ASSUME RowInv, [Next]_vars  PROVE RowStep
<1>1. CASE StartTriage \/ StartRetest
  <2>1. \E m \in Mode, r \in Run : BeginsRun(r, m)
    BY <1>1, BeginSteps DEF StartTriage, StartRetest, Startable, Mode
  <2> QED  BY <2>1 DEF RowStep
<1>2. CASE ReadyForRetest
  BY <1>2 DEF ReadyForRetest, RowStep
<1>3. ASSUME NEW r \in Run, RejectBinding(r) \/ Verdict(r) \/ Close(r) \/ NotFixed(r) \/ CancelRun(r)
      PROVE  RowStep
  BY <1>3, RejectSteps, DecideSteps, CancelSteps
     DEF RowStep, RunStatus, Verdict, Close, NotFixed
<1>4. ASSUME NEW r \in Run, AbortRun(r) \/ CancelByRun(r) \/ DeleteThread(r) \/ PruneCheckpoints(r)
      PROVE  RowStep
  BY <1>4 DEF AbortRun, CancelByRun, DeleteThread, PruneCheckpoints, RowStep
<1>5. ASSUME NEW r \in Run, FailStaleRun(r)  PROVE RowStep
  BY <1>5, FailRunSteps DEF FailStaleRun
<1>6. ASSUME NEW j \in Job, Propose(j) \/ StrayPropose(j)  PROVE RowStep
  BY <1>6, ResultSteps DEF Propose, StrayPropose
<1>7. ASSUME NEW j \in Job, Fails(j)  PROVE RowStep
  BY <1>7, FailRunSteps, MyRunIsRun DEF Fails, RowStep, RowInv
<1>8. ASSUME NEW j \in Job,
             \/ Claim(j) \/ ExecuteJob(j) \/ StartGraph(j) \/ ResumeGraph(j) \/ Work(j) \/ Pause(j)
             \/ Retry(j) \/ StrayEnds(j) \/ FinishJob(j) \/ HandlerThrows(j) \/ Requeue(j)
      PROVE  RowStep
  BY <1>8 DEF Claim, ExecuteJob, StartGraph, ResumeGraph, Work, Pause, Retry, StrayEnds, FinishJob,
     HandlerThrows, Requeue, RowStep
<1>9. ASSUME NEW t \in tail, Enqueue(t) \/ EnqueueFails(t)  PROVE RowStep
  BY <1>9 DEF Enqueue, EnqueueFails, RowStep
<1>10. CASE Crash \/ UNCHANGED vars
  BY <1>10 DEF Crash, vars, RowStep
<1> QED  BY <1>1, <1>2, <1>3, <1>4, <1>5, <1>6, <1>7, <1>8, <1>9, <1>10
         DEF Next, People, Worker, Graph

LEMMA RowsBegin == Init => RowInv
<1> SUFFICES ASSUME Init  PROVE RowInv
  OBVIOUS
<1>1. \A r \in Run : runs[r] = [mode |-> "triage", status |-> "none"]
  BY DEF Init
<1>2. \A r \in Run : ~Created(r)
  BY <1>1 DEF Created
<1>3. status \in Unattended
  BY DEF Init, Unattended
<1> QED  BY <1>2, <1>3, TypesBegin DEF RowInv, OlderAreOver, NewestAgrees, Newest

LEMMA RowsKeep == RowInv /\ [Next]_vars => RowInv'
<1> SUFFICES ASSUME RowInv, [Next]_vars  PROVE RowInv'
  OBVIOUS
<1>1. TypeOK'
  BY TypeStep DEF RowInv
<1> QED  BY <1>1, RowsMove, RowStepKeeps

(* The inductive invariant of the rows: earlier runs are over, and the     *)
(* status of the remark and that of its newest run say the same.           *)
THEOREM RowInvHolds == Spec => []RowInv
BY RowsBegin, RowsKeep, SpecSteps, PTL

(* No failure, cancellation, sweep, late result or crash leaves a remark   *)
(* in `triaging` without its newest run at work, nor a triage at work      *)
(* under another status (remarks.service.ts failRun, cancelRun,            *)
(* applyProposal; agent.service.ts).                                       *)
THEOREM TriagingStaysWorkedOn == Spec => []TriagingIsWorkedOn
<1>1. RowInv => TriagingIsWorkedOn
  <2> SUFFICES ASSUME RowInv  PROVE TriagingIsWorkedOn
    OBVIOUS
  <2>1. ASSUME NEW r \in Run, Newest(r)
        PROVE  status = "triaging" <=> runs[r] = [mode |-> "triage", status |-> "running"]
    <3>1. Agrees(status, runs[r])
          /\ runs[r] = [mode |-> runs[r].mode, status |-> runs[r].status]
      BY <2>1, NewestIs
    <3> QED  BY <3>1 DEF Agrees
  <2>2. ASSUME status = "triaging"  PROVE \E r \in Run : Newest(r)
    <3>1. \E r \in Run : Created(r)
      BY <2>2 DEF RowInv, Unattended
    <3>2. PICK r \in {s \in Run : Created(s)} : \A s \in {q \in Run : Created(q)} : s <= r
      <4>1. IsFiniteSet(Run) /\ Run \subseteq Nat
        BY FS_Interval, OrchestratorAssumption DEF Run
      <4>2. IsFiniteSet({s \in Run : Created(s)})
        BY <4>1, FS_Subset
      <4> QED  BY <3>1, <4>1, <4>2, FiniteHasLargest
    <3> QED  BY <3>2 DEF Newest
  <2> QED  BY <2>1, <2>2 DEF TriagingIsWorkedOn
<1> QED  BY <1>1, RowInvHolds, PTL

-----------------------------------------------------------------------------
(* The promise                                                             *)
LEMMA StatesOfRuns ==
  ASSUME NEW r \in Run
  PROVE  /\ runs[r].status = "none" => StateOf(r) = "absent"
         /\ runs[r].status = "running" => StateOf(r) = "working"
         /\ runs[r].status = "awaiting_human" => StateOf(r) = "waiting"
         /\ runs[r].status \in Ended => StateOf(r) = "over"
         /\ runs'[r].status = "none" => StateOf(r)' = "absent"
         /\ runs'[r].status = "running" => StateOf(r)' = "working"
         /\ runs'[r].status = "awaiting_human" => StateOf(r)' = "waiting"
         /\ runs'[r].status \in Ended => StateOf(r)' = "over"
BY DEF StateOf, Ended

LEMMA OneStateMoves ==
  ASSUME NEW r \in Run, \A q \in Run : q # r => runs'[q] = runs[q], NEW to, StateOf(r)' = to
  PROVE  [q \in Run |-> StateOf(q)]' = [[q \in Run |-> StateOf(q)] EXCEPT ![r] = to]
<1>1. \A q \in Run : q # r => StateOf(q)' = StateOf(q)
  BY DEF StateOf
<1> QED  BY <1>1

(* A run works, waits for a person, works again when sent back, ends, and  *)
(* stays ended, whatever crashes, retries, cancellations and sweeps do     *)
(* between its writes: the safety half of RunPromise.                      *)
THEOREM RunPromiseIsKept == Spec => P!Safety
<1>1. Init => P!Init
  <2> SUFFICES ASSUME Init  PROVE P!Init
    OBVIOUS
  <2>1. \A r \in Run : runs[r].status = "none"
    BY DEF Init
  <2>2. \A r \in Run : StateOf(r) = "absent"
    BY <2>1, StatesOfRuns
  <2> QED  BY <2>2 DEF P!Init
<1>2. RowInv /\ [Next]_vars => [P!Next]_[r \in Run |-> StateOf(r)]
  <2> SUFFICES ASSUME RowInv, [Next]_vars
               PROVE  \/ P!Next
                      \/ [r \in Run |-> StateOf(r)]' = [r \in Run |-> StateOf(r)]
    OBVIOUS
  <2>1. CASE UNCHANGED runs
    <3>1. \A r \in Run : StateOf(r)' = StateOf(r)
      BY <2>1 DEF StateOf
    <3> QED  BY <3>1
  <2>2. ASSUME NEW r \in Run, NEW m \in Mode, BeginsRun(r, m)  PROVE P!Next
    <3>1. runs'[r].status = "running" /\ \A q \in Run : q # r => runs'[q] = runs[q]
      BY <2>2, Tables DEF BeginsRun, RowInv
    <3>2. StateOf(r) = "absent" /\ StateOf(r)' = "working"
      BY <2>2, <3>1, StatesOfRuns DEF BeginsRun, Created
    <3>3. P!Begin(r)
      BY <3>1, <3>2, OneStateMoves DEF P!Begin, P!Move
    <3> QED  BY <3>3 DEF P!Next
  <2>3. ASSUME NEW r \in Run, NEW s \in RunStatus, MovesRun(r, s)  PROVE P!Next
    <3>1. /\ runs'[r].status = s /\ \A q \in Run : q # r => runs'[q] = runs[q]
          /\ Follows(runs[r].status, s)
      BY <2>3 DEF MovesRun
    <3>2. CASE runs[r].status = "running" /\ s = "awaiting_human"
      <4>1. StateOf(r) = "working" /\ StateOf(r)' = "waiting"
        BY <3>1, <3>2, StatesOfRuns
      <4>2. P!Wait(r)
        BY <3>1, <4>1, OneStateMoves DEF P!Wait, P!Move
      <4> QED  BY <4>2 DEF P!Next
    <3>3. CASE runs[r].status = "awaiting_human" /\ s = "running"
      <4>1. StateOf(r) = "waiting" /\ StateOf(r)' = "working"
        BY <3>1, <3>3, StatesOfRuns
      <4>2. P!Resume(r)
        BY <3>1, <4>1, OneStateMoves DEF P!Resume, P!Move
      <4> QED  BY <4>2 DEF P!Next
    <3>4. CASE runs[r].status \in Active /\ s \in Ended
      <4>1. StateOf(r) \in {"working", "waiting"} /\ StateOf(r)' = "over"
        BY <3>1, <3>4, StatesOfRuns DEF Active
      <4>2. P!End(r)
        BY <3>1, <4>1, OneStateMoves DEF P!End, P!Move
      <4> QED  BY <4>2 DEF P!Next
    <3> QED  BY <3>1, <3>2, <3>3, <3>4 DEF Follows, Active, Ended
  <2> QED  BY <2>1, <2>2, <2>3, RowsMove DEF RowStep
<1> QED  BY <1>1, <1>2, SpecSteps, RowInvHolds, PTL DEF P!Safety

-----------------------------------------------------------------------------
(* The way of an answer, while nothing has failed                          *)

(* A run at work or waiting whose cancellation nobody has asked for.       *)
Followed(r) == runs[r].status \in Active /\ cancel[r] = "no"

Untouched == {"none", "claimed", "checked"}
AtNode    == {"work", "propose"}

(* The job that takes the run on, and one whose proposal has committed and *)
(* whose pause is not saved yet.                                           *)
Drives(j, r) == jobs[j].state # "absent" /\ MyRun(j) = r /\ exec[j].step \in Untouched \cup AtNode
Proposes(j, r) == MyRun(j) = r /\ exec[j].step = "proposed"

JobFits(j) ==
  /\ exec[j].step = "none" <=> jobs[j].state # "running"
  /\ jobs[j].state # "absent" =>
       /\ Created(MyRun(j))
       /\ jobs[j].action = "accept" => runs[MyRun(j)].status \in Ended
  /\ exec[j].step = "stray" => ~Followed(MyRun(j))

TaskFits(t) ==
  /\ Created(t.run)
  /\ t.action = "accept" => runs[t.run].status \in Ended

RunFits(r) ==
  /\ cancel[r] # "no" => Created(r)
  /\ cancel[r] = "cancelled" => runs[r].status = "cancelled"
  /\ ~Created(r) => rejected[r] = 0

PiecesFit ==
  /\ \A j \in Job : JobFits(j)
  /\ \A t \in tail : TaskFits(t)
  /\ \A r \in Run : RunFits(r)

(* What an answer finds when it comes to the graph: a start nothing of its *)
(* own; a rejection what it was cut off from, the pause, or the proposal   *)
(* that is about to pause.                                                 *)
Finds(r, action) ==
  /\ action = "start" => rejected[r] = 0 /\ \A j \in Job : ~Proposes(j, r)
  /\ action = "reject" =>
       /\ rejected[r] > 0
       /\ \/ saved[r] = [at |-> "work", heard |-> rejected[r]]
          \/ saved[r] = [at |-> "hitl", heard |-> rejected[r] - 1]
          \/ \E j \in Job : Proposes(j, r) /\ exec[j].heard = rejected[r] - 1

OneDriver(r) ==
  /\ \A t, u \in tail : t.run = r /\ u.run = r => t = u
  /\ \A t \in tail, j \in Job : ~(t.run = r /\ Drives(j, r))
  /\ \A i, j \in Job : Drives(i, r) /\ Drives(j, r) => i = j
  /\ \A t \in tail : t.run = r => runs[r].status = "running"
  /\ \A j \in Job : Drives(j, r) => runs[r].status = "running"

Instructed(r) ==
  /\ \A t \in tail : t.run = r => Finds(r, t.action)
  /\ \A j \in Job : Drives(j, r) /\ exec[j].step \in Untouched => Finds(r, jobs[j].action)

HasHeard(r) ==
  \A j \in Job :
    Drives(j, r) /\ exec[j].step \in AtNode =>
      /\ exec[j].heard = rejected[r]
      /\ saved[r] = [at |-> exec[j].step, heard |-> rejected[r]]
      /\ jobs[j].action = "start" <=> rejected[r] = 0
      /\ \A i \in Job : ~Proposes(i, r)

PausesRight(r) ==
  /\ \A j \in Job : Proposes(j, r) =>
       \/ runs[r].status = "awaiting_human" /\ exec[j].heard = rejected[r]
       \/ runs[r].status = "running" /\ exec[j].heard = rejected[r] - 1
  /\ runs[r].status = "awaiting_human" =>
       /\ shown = rejected[r]
       /\ \/ saved[r] = [at |-> "hitl", heard |-> rejected[r]]
          \/ \E j \in Job : Proposes(j, r) /\ exec[j].heard = rejected[r]

OnItsWay(r) == OneDriver(r) /\ Instructed(r) /\ HasHeard(r) /\ PausesRight(r)

HeardInv ==
  /\ RowInv
  /\ faults = 0 => PiecesFit /\ \A r \in Run : Followed(r) => OnItsWay(r)

-----------------------------------------------------------------------------
(* What has ended stays as it is, and nobody follows it again.             *)
LEMMA EndedStay ==
  ASSUME RowInv, [Next]_vars, NEW r \in Run
  PROVE  /\ Created(r) => Created(r)'
         /\ runs[r].status \in Ended => runs'[r] = runs[r]
         /\ runs'[r].status \in Active =>
              runs[r].status \in Active \/ \E m \in Mode : BeginsRun(r, m)
<1>1. CASE UNCHANGED runs
  BY <1>1 DEF Created
<1>2. ASSUME NEW q \in Run, NEW m \in Mode, BeginsRun(q, m)
      PROVE  /\ Created(r) => Created(r)'
             /\ runs[r].status \in Ended => runs'[r] = runs[r]
             /\ runs'[r].status \in Active =>
                  runs[r].status \in Active \/ \E n \in Mode : BeginsRun(r, n)
  <2>1. /\ runs'[q] = [mode |-> m, status |-> "running"] /\ runs[q].status = "none"
        /\ \A p \in Run : p # q => runs'[p] = runs[p]
    BY <1>2, Tables DEF BeginsRun, RowInv, Created
  <2>2. CASE r = q
    BY <1>2, <2>1, <2>2 DEF Created, Ended
  <2>3. CASE r # q
    BY <2>1, <2>3 DEF Created
  <2> QED  BY <2>2, <2>3
<1>3. ASSUME NEW q \in Run, NEW s \in RunStatus, MovesRun(q, s)
      PROVE  /\ Created(r) => Created(r)'
             /\ runs[r].status \in Ended => runs'[r] = runs[r]
             /\ runs'[r].status \in Active => runs[r].status \in Active
  <2>1. /\ runs'[q].status = s /\ Follows(runs[q].status, s)
        /\ \A p \in Run : p # q => runs'[p] = runs[p]
    BY <1>3 DEF MovesRun
  <2> QED  BY <2>1 DEF Follows, Created, Ended, Active
<1> QED  BY <1>1, <1>2, <1>3, RowsMove DEF RowStep

LEMMA JobsOnRuns == ASSUME TypeOK, NEW j \in Job  PROVE MyRun(j) \in Run /\ jobs[j].run \in Run
                                                        /\ MyRun(j) = jobs[j].run
BY MyRunIsRun DEF MyRun

LEMMA ClaimOne ==
  ASSUME TypeOK, NEW j \in Job, Claim(j)
  PROVE  /\ jobs'[j].state = "running" /\ jobs'[j].run = jobs[j].run
         /\ jobs'[j].action = jobs[j].action
         /\ exec'[j].step = "claimed" /\ jobs[j].state # "absent"
         /\ \A k \in Job : k # j => jobs'[k] = jobs[k] /\ exec'[k] = exec[k]
<1>1. PICK o, k : o = jobs[j] /\ o \in JobRow /\ k = Counted(o.attempts)
  BY Tables
<1>2. PICK n : n = [o EXCEPT !.state = "running", !.attempts = k]
  OBVIOUS
<1>3. n.state = "running" /\ n.run = o.run /\ n.action = o.action
  BY <1>1, <1>2 DEF JobRow
<1>4. jobs' = [jobs EXCEPT ![j].state = "running", ![j].attempts = k] /\ o.state = "queued"
  BY <1>1 DEF Claim
<1>5. jobs' = [jobs EXCEPT ![j] = n]
  BY <1>1, <1>2, <1>4, Tables
<1>6. exec' = [exec EXCEPT ![j] = [step |-> "claimed", heard |-> 0]]
  BY DEF Claim, SetExec
<1> QED  BY <1>1, <1>3, <1>4, <1>5, <1>6, Tables

LEMMA RetryOne ==
  ASSUME TypeOK, NEW j \in Job, Retry(j)
  PROVE  /\ jobs'[j].state = "queued" /\ jobs'[j].run = jobs[j].run
         /\ jobs'[j].action = jobs[j].action
         /\ exec'[j].step = "none" /\ exec[j].step = "work"
         /\ \A k \in Job : k # j => jobs'[k] = jobs[k] /\ exec'[k] = exec[k]
<1>1. PICK o, n : o = jobs[j] /\ o \in JobRow /\ n = [o EXCEPT !.state = "queued"]
  BY Tables
<1>2. n.state = "queued" /\ n.run = o.run /\ n.action = o.action
  BY <1>1 DEF JobRow
<1>3. jobs' = [jobs EXCEPT ![j] = n] /\ exec' = [exec EXCEPT ![j] = NoExec] /\ exec[j].step = "work"
  BY <1>1 DEF Retry
<1> QED  BY <1>1, <1>2, <1>3, Tables DEF NoExec

(* What a step does to one job.                                            *)
JobStep(i) ==
  \/ jobs'[i] = jobs[i] /\ exec'[i] = exec[i]
  \/ jobs'[i].state = "absent" /\ exec'[i].step = "none"
  \/ /\ jobs'[i].state = "queued" /\ exec'[i].step = "none"
     /\ \E t \in tail : jobs'[i].run = t.run /\ jobs'[i].action = t.action
  \/ /\ jobs[i].state # "absent" /\ jobs'[i].state # "absent"
     /\ jobs'[i].run = jobs[i].run /\ jobs'[i].action = jobs[i].action
     /\ exec'[i].step = "none" <=> jobs'[i].state # "running"
     /\ exec'[i].step = "stray" => exec[i].step = "stray" \/ cancel'[jobs[i].run] # "no"

LEMMA JobsStep ==
  ASSUME RowInv, PiecesFit, faults = 0, faults' = 0, [Next]_vars, NEW i \in Job
  PROVE  JobStep(i)
<1> USE DEF JobStep
<1>0. ~Fault /\ JobFits(i) /\ jobs \in [Job -> JobRow] /\ exec \in [Job -> ExecRow] /\ TypeOK
      /\ cancel \in [Run -> {"no", "aborted", "unqueued", "cancelled"}]
  BY Tables DEF Fault, PiecesFit, RowInv
<1>1. CASE UNCHANGED <<jobs, exec>>
  BY <1>1
<1>2. ASSUME NEW r \in Run, AbortRun(r)  PROVE JobStep(i)
  <2>1. exec'[i] = AbortedExec(i, r) /\ UNCHANGED jobs /\ cancel'[r] = "aborted"
    BY <1>0, <1>2 DEF AbortRun
  <2>2. CASE MyRun(i) # r \/ exec[i].step \notin Invoking
    BY <2>1, <2>2 DEF AbortedExec
  <2>3. CASE MyRun(i) = r /\ exec[i].step \in Invoking
    <3>1. exec'[i].step \in {"stray", "returned"}
      BY <1>0, <2>1, <2>3 DEF AbortedExec, ExecRow
    <3>2. jobs[i].state = "running"
      BY <1>0, <2>3 DEF JobFits, Invoking
    <3> QED  BY <2>1, <2>3, <3>1, <3>2 DEF MyRun
  <2> QED  BY <2>2, <2>3
<1>3. ASSUME NEW r \in Run, CancelByRun(r)  PROVE JobStep(i)
  <2>1. exec'[i] = exec[i] /\ jobs'[i] = IF MyRun(i) = r /\ jobs[i].state = "queued" THEN NoJob ELSE jobs[i]
    BY <1>3 DEF CancelByRun
  <2> QED  BY <1>0, <2>1 DEF JobFits, NoJob
<1>4. ASSUME NEW t \in tail, Enqueue(t)  PROVE JobStep(i)
  <2>1. PICK j \in Job : /\ jobs[j].state = "absent"
                         /\ jobs' = [jobs EXCEPT ![j] = [state |-> "queued", run |-> t.run,
                                                         action |-> t.action, attempts |-> 0]]
    BY <1>4 DEF Enqueue
  <2>2. UNCHANGED exec
    BY <1>4 DEF Enqueue
  <2>3. CASE i # j
    BY <1>0, <2>1, <2>2, <2>3
  <2>4. CASE i = j
    BY <1>0, <2>1, <2>2, <2>4 DEF JobFits
  <2> QED  BY <2>3, <2>4
<1>5. ASSUME NEW j \in Job, Worker(j) \/ HandlerThrows(j) \/ Requeue(j)  PROVE JobStep(i)
  <2>0. JobFits(j) /\ exec[j] \in ExecRow /\ jobs[j] \in JobRow
    BY <1>0 DEF PiecesFit
  <2>1. CASE Claim(j)
    <3>1. /\ jobs'[j].state = "running" /\ jobs'[j].run = jobs[j].run /\ jobs'[j].action = jobs[j].action
          /\ exec'[j].step = "claimed" /\ jobs[j].state # "absent"
          /\ \A k \in Job : k # j => jobs'[k] = jobs[k] /\ exec'[k] = exec[k]
      BY <1>0, <2>1, ClaimOne
    <3> QED  BY <3>1
  <2>2. ASSUME NEW s \in Step \ {"none", "stray"}, NEW h \in Nat, SetExec(j, s, h), UNCHANGED jobs,
               exec[j].step # "none"
        PROVE  JobStep(i)
    <3>1. exec'[j].step = s /\ \A k \in Job : k # j => exec'[k] = exec[k]
      BY <1>0, <2>2 DEF SetExec
    <3> QED  BY <2>0, <2>2, <3>1 DEF JobFits
  <2>3. exec[j].heard \in Nat
    BY <2>0 DEF ExecRow
  <2>4. CASE ExecuteJob(j) \/ StartGraph(j) \/ Work(j) \/ StrayEnds(j) \/ Pause(j) \/ Fails(j)
             \/ Propose(j) \/ StrayPropose(j)
    BY <2>2, <2>3, <2>4 DEF ExecuteJob, StartGraph, Work, StrayEnds, Pause, Fails, Propose,
       StrayPropose, ApplyResult, Step
  <2>5. CASE ResumeGraph(j)
    <3>1. PICK at \in {"work", "propose", "end"}, h \in Nat : Resumed(j) = [at |-> at, heard |-> h]
      BY <1>0, ResumedAt
    <3>2. PICK s \in Step \ {"none", "stray"} : s = IF at = "end" THEN "returned" ELSE at
      BY DEF Step
    <3>3. SetExec(j, s, h) /\ UNCHANGED jobs /\ exec[j].step # "none"
      BY <2>5, <3>1, <3>2 DEF ResumeGraph
    <3> QED  BY <2>2, <3>3
  <2>6. CASE Retry(j)
    <3>1. /\ jobs'[j].state = "queued" /\ jobs'[j].run = jobs[j].run /\ jobs'[j].action = jobs[j].action
          /\ exec'[j].step = "none" /\ exec[j].step = "work"
          /\ \A k \in Job : k # j => jobs'[k] = jobs[k] /\ exec'[k] = exec[k]
      BY <1>0, <2>6, RetryOne
    <3> QED  BY <2>0, <3>1 DEF JobFits
  <2>7. CASE FinishJob(j)
    BY <1>0, <2>7 DEF FinishJob, NoJob, NoExec
  <2>8. ~HandlerThrows(j) /\ ~Requeue(j)
    BY <1>0, <2>0 DEF HandlerThrows, Requeue, JobFits, NoExec
  <2> QED  BY <1>5, <2>1, <2>4, <2>5, <2>6, <2>7, <2>8 DEF Worker, Graph
<1>6. CASE People /\ UNCHANGED <<jobs, exec>>
  BY <1>6
<1>7. ASSUME NEW r \in Run, \/ RejectBinding(r) \/ Verdict(r) \/ Close(r) \/ NotFixed(r)
                            \/ CancelRun(r) \/ DeleteThread(r) \/ FailStaleRun(r) \/ PruneCheckpoints(r)
      PROVE  UNCHANGED <<jobs, exec>>
  BY <1>7 DEF RejectBinding, Verdict, Close, NotFixed, Decide, CancelRun, DeleteThread,
     FailStaleRun, PruneCheckpoints
<1>8. CASE StartTriage \/ StartRetest \/ ReadyForRetest \/ UNCHANGED vars
  BY <1>1, <1>8 DEF StartTriage, StartRetest, Begin, ReadyForRetest, vars
<1>9. ~Crash /\ \A t \in tail : ~EnqueueFails(t)
  BY <1>0 DEF Crash, EnqueueFails
<1> QED  BY <1>1, <1>2, <1>3, <1>4, <1>5, <1>7, <1>8, <1>9 DEF Next, People

(* A cancellation is over when its run is.                                 *)
LEMMA CancelsEnd ==
  ASSUME RowInv, PiecesFit, faults = 0, faults' = 0, [Next]_vars, NEW r \in Run
  PROVE  /\ cancel'[r] = "no" /\ cancel[r] # "no" => runs'[r].status \notin Active
         /\ cancel'[r] # "no" /\ cancel[r] = "no" => Created(r)
         /\ cancel'[r] = "cancelled" =>
              cancel[r] = "cancelled" \/ runs'[r].status = "cancelled"
<1>0. ~Fault /\ RunFits(r) /\ cancel \in [Run -> {"no", "aborted", "unqueued", "cancelled"}]
  BY Tables DEF Fault, PiecesFit, RowInv
<1>1. CASE UNCHANGED cancel
  BY <1>1
<1>2. ASSUME NEW q \in Run, AbortRun(q) \/ CancelByRun(q)
      PROVE  /\ cancel'[q] \in {"aborted", "unqueued"} /\ Created(q)
             /\ \A p \in Run : p # q => cancel'[p] = cancel[p]
  <2>1. RunFits(q)
    BY DEF PiecesFit
  <2> QED  BY <1>0, <1>2, <2>1 DEF AbortRun, CancelByRun, RunFits, Newest
<1>3. ASSUME NEW q \in Run, CancelRun(q)
      PROVE  /\ cancel[q] # "no"
             /\ \/ cancel'[q] = "no" /\ runs'[q].status \notin Active
                \/ cancel'[q] = "cancelled" /\ runs'[q].status = "cancelled"
             /\ \A p \in Run : p # q => cancel'[p] = cancel[p]
  <2>1. cancel[q] = "unqueued"
    BY <1>3 DEF CancelRun
  <2>2. CASE /\ runs[q].status \notin Active /\ UNCHANGED <<status, runs>>
             /\ cancel' = [cancel EXCEPT ![q] = "no"]
    BY <1>0, <2>1, <2>2
  <2>3. CASE MovesRun(q, "cancelled") /\ cancel' = [cancel EXCEPT ![q] = "cancelled"]
    <3>1. runs'[q].status = "cancelled"
      BY <2>3 DEF MovesRun
    <3> QED  BY <1>0, <2>1, <2>3, <3>1
  <2> QED  BY <1>3, <2>2, <2>3, CancelSteps
<1>4. ASSUME NEW q \in Run, DeleteThread(q)
      PROVE  /\ cancel[q] # "no" /\ cancel'[q] = "no" /\ runs'[q].status \notin Active
             /\ \A p \in Run : p # q => cancel'[p] = cancel[p]
  <2>1. RunFits(q) /\ cancel[q] = "cancelled" /\ UNCHANGED runs
    BY <1>4 DEF PiecesFit, DeleteThread
  <2>2. cancel' = [cancel EXCEPT ![q] = "no"]
    BY <1>4 DEF DeleteThread
  <2> QED  BY <1>0, <2>1, <2>2 DEF RunFits, Active
<1>5. ASSUME NEW q \in Run, RejectBinding(q) \/ Verdict(q) \/ Close(q) \/ NotFixed(q)
                            \/ FailStaleRun(q) \/ PruneCheckpoints(q)
      PROVE  UNCHANGED cancel
  BY <1>5 DEF RejectBinding, Verdict, Close, NotFixed, Decide, FailStaleRun, PruneCheckpoints
<1>6. CASE StartTriage \/ StartRetest \/ ReadyForRetest \/ UNCHANGED vars
  BY <1>1, <1>6 DEF StartTriage, StartRetest, Begin, ReadyForRetest, vars
<1>7. ASSUME NEW j \in Job, Worker(j) \/ HandlerThrows(j) \/ Requeue(j)  PROVE UNCHANGED cancel
  BY <1>7 DEF Worker, Graph, Claim, ExecuteJob, StartGraph, ResumeGraph, Work, Propose, Pause, Retry,
     Fails, StrayPropose, StrayEnds, FinishJob, ApplyResult, HandlerThrows, Requeue
<1>8. ASSUME NEW t \in tail, Enqueue(t) \/ EnqueueFails(t)  PROVE UNCHANGED cancel
  BY <1>8 DEF Enqueue, EnqueueFails
<1>9. ~Crash
  BY <1>0 DEF Crash
<1>10. ASSUME NEW q \in Run, AbortRun(q) \/ CancelByRun(q) \/ CancelRun(q) \/ DeleteThread(q)
       PROVE  /\ cancel'[r] = "no" /\ cancel[r] # "no" => runs'[r].status \notin Active
              /\ cancel'[r] # "no" /\ cancel[r] = "no" => Created(r)
              /\ cancel'[r] = "cancelled" =>
                   cancel[r] = "cancelled" \/ runs'[r].status = "cancelled"
  BY <1>2, <1>3, <1>4, <1>10
<1> QED  BY <1>1, <1>5, <1>6, <1>7, <1>8, <1>9, <1>10 DEF Next, People

LEMMA StaysUnfollowed ==
  ASSUME RowInv, PiecesFit, faults = 0, faults' = 0, [Next]_vars, NEW r \in Run,
         Created(r), ~Followed(r)
  PROVE  ~Followed(r)'
<1> SUFFICES ASSUME runs'[r].status \in Active, cancel'[r] = "no"  PROVE FALSE
  BY DEF Followed
<1>1. runs[r].status \in Active
  BY EndedStay DEF BeginsRun
<1>2. cancel[r] # "no"
  BY <1>1 DEF Followed
<1> QED  BY <1>2, CancelsEnd

LEMMA TasksStep ==
  ASSUME RowInv, [Next]_vars, NEW t \in tail'
  PROVE  t \in tail \/ TaskFits(t)'
<1>1. CASE UNCHANGED tail
  BY <1>1
<1>2. ASSUME NEW r \in Run, NEW m \in Mode, BeginsRun(r, m), Reply([run |-> r, action |-> "start"])
      PROVE  t \in tail \/ TaskFits(t)'
  <2>1. runs'[r] = [mode |-> m, status |-> "running"]
    BY <1>2, Tables DEF BeginsRun, RowInv
  <2>2. t \in tail \/ t = [run |-> r, action |-> "start"]
    BY <1>2 DEF Reply
  <2> QED  BY <2>1, <2>2 DEF TaskFits, Created
<1>3. CASE StartTriage \/ StartRetest
  BY <1>2, <1>3, BeginSteps DEF StartTriage, StartRetest, Startable, Mode
<1>4. ASSUME NEW r \in Run, RejectBinding(r)  PROVE t \in tail \/ TaskFits(t)'
  <2>1. t \in tail \/ t = [run |-> r, action |-> "reject"]
    BY <1>4 DEF Reply, RejectBinding
  <2>2. MovesRun(r, "running")
    BY <1>4, RejectSteps
  <2>3. runs'[r].status = "running"
    BY <2>2 DEF MovesRun
  <2> QED  BY <2>1, <2>3 DEF TaskFits, Created
<1>5. ASSUME NEW r \in Run, Verdict(r) \/ Close(r) \/ NotFixed(r)  PROVE t \in tail \/ TaskFits(t)'
  <2>1. MovesRun(r, "persisted")
    BY <1>5, DecideSteps DEF Verdict, Close, NotFixed
  <2>2. t \in tail \/ t = [run |-> r, action |-> "accept"]
    BY <1>5 DEF Reply, Verdict, Close, NotFixed, Decide
  <2>3. runs'[r].status = "persisted"
    BY <2>1 DEF MovesRun
  <2> QED  BY <2>2, <2>3 DEF TaskFits, Created, Ended
<1>6. ASSUME NEW r \in Run, AbortRun(r) \/ CancelByRun(r) \/ CancelRun(r) \/ DeleteThread(r)
                            \/ FailStaleRun(r) \/ PruneCheckpoints(r)
      PROVE  UNCHANGED tail
  BY <1>6 DEF AbortRun, CancelByRun, CancelRun, DeleteThread, FailStaleRun, PruneCheckpoints
<1>7. ASSUME NEW j \in Job, Worker(j) \/ HandlerThrows(j) \/ Requeue(j)  PROVE UNCHANGED tail
  BY <1>7 DEF Worker, Graph, Claim, ExecuteJob, StartGraph, ResumeGraph, Work, Propose, Pause, Retry,
     Fails, StrayPropose, StrayEnds, FinishJob, ApplyResult, HandlerThrows, Requeue
<1>8. CASE ReadyForRetest \/ UNCHANGED vars
  BY <1>1, <1>8 DEF ReadyForRetest, vars
<1>9. ASSUME Crash \/ \E u \in tail : Enqueue(u) \/ EnqueueFails(u)  PROVE t \in tail
  BY <1>9 DEF Crash, Enqueue, EnqueueFails
<1> QED  BY <1>1, <1>3, <1>4, <1>5, <1>6, <1>7, <1>8, <1>9 DEF Next, People

LEMMA RejectedStep ==
  ASSUME [Next]_vars
  PROVE  UNCHANGED rejected \/ \E r \in Run : RejectBinding(r)
<1>1. ASSUME NEW r \in Run, \/ Verdict(r) \/ Close(r) \/ NotFixed(r)
                            \/ AbortRun(r) \/ CancelByRun(r) \/ CancelRun(r) \/ DeleteThread(r)
                            \/ FailStaleRun(r) \/ PruneCheckpoints(r)
      PROVE  UNCHANGED rejected
  BY <1>1 DEF Verdict, Close, NotFixed, Decide, AbortRun, CancelByRun, CancelRun, DeleteThread,
     FailStaleRun, PruneCheckpoints
<1>2. ASSUME NEW j \in Job, Worker(j) \/ HandlerThrows(j) \/ Requeue(j)  PROVE UNCHANGED rejected
  BY <1>2 DEF Worker, Graph, Claim, ExecuteJob, StartGraph, ResumeGraph, Work, Propose, Pause, Retry,
     Fails, StrayPropose, StrayEnds, FinishJob, ApplyResult, HandlerThrows, Requeue
<1>3. ASSUME NEW t \in tail, Enqueue(t) \/ EnqueueFails(t)  PROVE UNCHANGED rejected
  BY <1>3 DEF Enqueue, EnqueueFails
<1>4. CASE StartTriage \/ StartRetest \/ ReadyForRetest \/ Crash \/ UNCHANGED vars
  BY <1>4 DEF StartTriage, StartRetest, Begin, ReadyForRetest, Crash, vars
<1> QED  BY <1>1, <1>2, <1>3, <1>4 DEF Next, People

LEMMA PiecesKeep ==
  ASSUME RowInv, PiecesFit, faults = 0, faults' = 0, [Next]_vars
  PROVE  PiecesFit'
<1>0. TypeOK /\ TypeOK'
  BY TypeStep DEF RowInv
<1>1. ASSUME NEW t \in tail  PROVE TaskFits(t)'
  <2>1. PICK r \in Run : r = t.run
    BY <1>0, Tables DEF Task
  <2> QED  BY <2>1, EndedStay DEF PiecesFit, TaskFits, Created
<1>2. ASSUME NEW t \in tail'  PROVE TaskFits(t)'
  BY <1>1, <1>2, TasksStep
<1>3. ASSUME NEW j \in Job  PROVE JobFits(j)'
  <2>1. PICK q \in Run : q = jobs[j].run /\ q = MyRun(j)
    BY <1>0, JobsOnRuns
  <2>2. JobFits(j) /\ JobStep(j)
    BY JobsStep DEF PiecesFit
  <2>3. /\ Created(q) => Created(q)' /\ (~Followed(q) => ~Followed(q)')
        /\ runs[q].status \in Ended => runs'[q].status \in Ended
    BY EndedStay, StaysUnfollowed
  <2>4. jobs[j].state # "absent" => Created(q)
    BY <2>1, <2>2 DEF JobFits
  <2>5. exec[j].step = "stray" => ~Followed(q)'
    BY <2>1, <2>2, <2>3, <2>4 DEF JobFits
  <2>6. CASE jobs'[j] = jobs[j] /\ exec'[j] = exec[j]
    <3>1. MyRun(j)' = q
      BY <2>1, <2>6 DEF MyRun
    <3> QED  BY <2>1, <2>2, <2>3, <2>4, <2>5, <2>6, <3>1 DEF JobFits
  <2>7. CASE jobs'[j].state = "absent" /\ exec'[j].step = "none"
    BY <2>7 DEF JobFits
  <2>8. ASSUME jobs'[j].state = "queued", exec'[j].step = "none",
               NEW t \in tail, jobs'[j].run = t.run, jobs'[j].action = t.action
        PROVE  JobFits(j)'
    BY <1>1, <2>8 DEF JobFits, MyRun, TaskFits
  <2>9. CASE /\ jobs[j].state # "absent" /\ jobs'[j].state # "absent"
             /\ jobs'[j].run = jobs[j].run /\ jobs'[j].action = jobs[j].action
             /\ exec'[j].step = "none" <=> jobs'[j].state # "running"
             /\ exec'[j].step = "stray" => exec[j].step = "stray" \/ cancel'[jobs[j].run] # "no"
    <3>1. MyRun(j)' = q
      BY <2>1, <2>9 DEF MyRun
    <3>2. exec'[j].step = "stray" => ~Followed(q)'
      BY <2>1, <2>5, <2>9 DEF Followed
    <3>3. Created(q)' /\ (jobs'[j].action = "accept" => runs'[q].status \in Ended)
      BY <2>1, <2>2, <2>3, <2>4, <2>9 DEF JobFits
    <3> QED  BY <2>9, <3>1, <3>2, <3>3 DEF JobFits
  <2> QED  BY <2>2, <2>6, <2>7, <2>8, <2>9 DEF JobStep
<1>4. ASSUME NEW r \in Run  PROVE RunFits(r)'
  <2>1. RunFits(r)
    BY DEF PiecesFit
  <2>2. cancel'[r] # "no" => Created(r)'
    BY <2>1, CancelsEnd, EndedStay DEF RunFits
  <2>3. cancel'[r] = "cancelled" => runs'[r].status = "cancelled"
    BY <2>1, CancelsEnd, EndedStay DEF RunFits, Ended
  <2>4. ~Created(r)' => rejected'[r] = 0
    <3>1. CASE UNCHANGED rejected
      BY <2>1, <3>1, EndedStay DEF RunFits
    <3>2. ASSUME NEW q \in Run, RejectBinding(q)  PROVE ~Created(r)' => rejected'[r] = 0
      <4>1. Created(q) /\ rejected' = [rejected EXCEPT ![q] = @ + 1]
        BY <3>2 DEF RejectBinding, Newest
      <4> QED  BY <1>0, <2>1, <4>1, EndedStay, Tables DEF RunFits
    <3> QED  BY <3>1, <3>2, RejectedStep
  <2> QED  BY <2>2, <2>3, <2>4 DEF RunFits
<1> QED  BY <1>2, <1>3, <1>4 DEF PiecesFit

-----------------------------------------------------------------------------
(* Steps that leave the way of a run's answer alone.                       *)
SameView(r) ==
  /\ runs'[r] = runs[r] /\ rejected'[r] = rejected[r] /\ saved'[r] = saved[r]
  /\ runs[r].status = "awaiting_human" => shown' = shown
  /\ \A t \in tail' : t.run = r => t \in tail
  /\ \A j \in Job : /\ Proposes(j, r)' <=> Proposes(j, r)
                    /\ Proposes(j, r) => exec'[j].heard = exec[j].heard
  /\ \A j \in Job : Drives(j, r)' =>
       /\ Drives(j, r) /\ jobs'[j].action = jobs[j].action
       /\ \/ exec'[j] = exec[j]
          \/ exec[j].step \in Untouched /\ exec'[j].step \in Untouched

LEMMA FindsStill ==
  ASSUME NEW r \in Run, NEW action, Finds(r, action), SameView(r)
  PROVE  Finds(r, action)'
BY DEF SameView, Finds

LEMMA SameViewKeeps ==
  ASSUME NEW r \in Run, OnItsWay(r), SameView(r)
  PROVE  OnItsWay(r)'
<1>1. OneDriver(r)'
  BY DEF OnItsWay, OneDriver, SameView
<1>2. Instructed(r)'
  <2>1. ASSUME NEW t \in tail', t.run = r  PROVE Finds(r, t.action)'
    BY <2>1, FindsStill DEF OnItsWay, Instructed, SameView
  <2>2. ASSUME NEW j \in Job, Drives(j, r)', exec'[j].step \in Untouched
        PROVE  Finds(r, jobs[j].action)' /\ jobs'[j].action = jobs[j].action
    <3>1. /\ Drives(j, r) /\ exec[j].step \in Untouched /\ jobs'[j].action = jobs[j].action
      BY <2>2 DEF SameView
    <3>2. PICK a : a = jobs[j].action /\ Finds(r, a)
      BY <3>1 DEF OnItsWay, Instructed
    <3>3. Finds(r, a)'
      BY <3>2, FindsStill
    <3> QED  BY <3>1, <3>2, <3>3 DEF Finds
  <2> QED  BY <2>1, <2>2 DEF Instructed, Finds
<1>3. HasHeard(r)'
  <2> SUFFICES ASSUME NEW j \in Job, Drives(j, r)', exec'[j].step \in AtNode
               PROVE  /\ exec'[j].heard = rejected'[r]
                      /\ saved'[r] = [at |-> exec'[j].step, heard |-> rejected'[r]]
                      /\ jobs'[j].action = "start" <=> rejected'[r] = 0
                      /\ \A i \in Job : ~Proposes(i, r)'
    BY DEF HasHeard
  <2>1. /\ Drives(j, r) /\ jobs'[j].action = jobs[j].action /\ exec'[j] = exec[j]
        /\ saved'[r] = saved[r] /\ rejected'[r] = rejected[r]
        /\ \A i \in Job : Proposes(i, r)' <=> Proposes(i, r)
    BY DEF SameView, Untouched, AtNode
  <2>2. /\ exec[j].heard = rejected[r]
        /\ saved[r] = [at |-> exec[j].step, heard |-> rejected[r]]
        /\ jobs[j].action = "start" <=> rejected[r] = 0
        /\ \A i \in Job : ~Proposes(i, r)
    BY <2>1 DEF OnItsWay, HasHeard
  <2> QED  BY <2>1, <2>2
<1>4. PausesRight(r)'
  BY DEF OnItsWay, PausesRight, SameView
<1> QED  BY <1>1, <1>2, <1>3, <1>4 DEF OnItsWay

(* One job changes, and neither proposes for the run nor drives it on.     *)
LEMMA JobAside ==
  ASSUME NEW r \in Run, NEW j \in Job,
         \A k \in Job : k # j => jobs'[k] = jobs[k] /\ exec'[k] = exec[k],
         ~Proposes(j, r), ~Proposes(j, r)', ~Drives(j, r)',
         runs'[r] = runs[r], rejected'[r] = rejected[r], saved'[r] = saved[r], tail' = tail,
         runs[r].status = "awaiting_human" => shown' = shown
  PROVE  SameView(r)
<1>1. ASSUME NEW k \in Job, k # j
      PROVE  /\ Proposes(k, r)' <=> Proposes(k, r)
             /\ Drives(k, r)' <=> Drives(k, r)
             /\ exec'[k] = exec[k] /\ jobs'[k] = jobs[k]
  BY <1>1 DEF Proposes, Drives, MyRun
<1> QED  BY <1>1 DEF SameView

(* Neither jobs nor what the process does with them change.                *)
LEMMA JobsAside ==
  ASSUME NEW r \in Run, UNCHANGED <<jobs, exec, shown>>,
         \A t \in tail' : t.run = r => t \in tail,
         runs'[r] = runs[r], rejected'[r] = rejected[r], saved'[r] = saved[r]
  PROVE  SameView(r)
<1>1. ASSUME NEW k \in Job
      PROVE  (Proposes(k, r)' <=> Proposes(k, r)) /\ (Drives(k, r)' <=> Drives(k, r))
  BY DEF Proposes, Drives, MyRun
<1> QED  BY <1>1 DEF SameView

(* The only run at work or waiting is the newest one.                      *)
LEMMA FollowedIsOne ==
  ASSUME RowInv, NEW r \in Run, Followed(r), NEW q \in Run,
         runs[q].status \in Active \/ Newest(q)
  PROVE  q = r
BY ActiveIsNewest, OneNewest DEF Followed

LEMMA FollowedBefore ==
  ASSUME RowInv, PiecesFit, faults = 0, faults' = 0, [Next]_vars, NEW r \in Run, Followed(r)'
  PROVE  Followed(r) \/ \E m \in Mode : BeginsRun(r, m)
<1>1. runs'[r].status \in Active /\ cancel'[r] = "no"
  BY DEF Followed
<1>2. cancel[r] = "no"
  BY <1>1, CancelsEnd
<1> QED  BY <1>1, <1>2, EndedStay DEF Followed

-----------------------------------------------------------------------------
(* Answers given and sent on their way.                                    *)
LEMMA BeginsOnItsWay ==
  ASSUME RowInv, PiecesFit, NEW r \in Run, StartTriage \/ StartRetest,
         NEW m \in Mode, BeginsRun(r, m)
  PROVE  OnItsWay(r)'
<1>0. TypeOK /\ ~Created(r)
  BY DEF RowInv, BeginsRun
<1>1. PICK q \in Run, n \in Mode : BeginsRun(q, n) /\ Reply([run |-> q, action |-> "start"])
  BY BeginSteps DEF StartTriage, StartRetest, Startable, Mode
<1>2. runs' = [runs EXCEPT ![r] = [mode |-> m, status |-> "running"]]
      /\ runs' = [runs EXCEPT ![q] = [mode |-> n, status |-> "running"]] /\ ~Created(q)
  BY <1>1 DEF BeginsRun
<1>3. q = r
  <2>1. runs'[r].status = "running" /\ runs[r].status = "none"
    BY <1>0, <1>2, Tables DEF Created
  <2> QED  BY <1>2, <2>1, Tables
<1>4. UNCHANGED <<rejected, shown, jobs, saved, exec, cancel, faults>>
  BY DEF StartTriage, StartRetest, Begin
<1>5. /\ tail' = tail \cup {[run |-> r, action |-> "start"]}
      /\ \A t \in tail : t.run # r
  BY <1>0, <1>1, <1>3 DEF Reply, PiecesFit, TaskFits
<1>6. ASSUME NEW j \in Job  PROVE ~Drives(j, r)' /\ ~Proposes(j, r)'
  <2>1. JobFits(j)
    BY DEF PiecesFit
  <2>2. jobs[j].state = "absent" \/ MyRun(j) # r
    BY <1>0, <2>1 DEF JobFits
  <2> QED  BY <1>4, <2>1, <2>2 DEF Drives, Proposes, MyRun, JobFits
<1>7. runs'[r].status = "running" /\ rejected'[r] = 0
  <2>1. rejected[r] = 0
    BY <1>0 DEF PiecesFit, RunFits
  <2> QED  BY <1>0, <1>2, <1>4, <2>1, Tables
<1>8. OneDriver(r)'
  BY <1>5, <1>6, <1>7 DEF OneDriver
<1>9. Instructed(r)'
  BY <1>5, <1>6, <1>7 DEF Instructed, Finds
<1>10. HasHeard(r)' /\ PausesRight(r)'
  BY <1>6, <1>7 DEF HasHeard, PausesRight
<1> QED  BY <1>8, <1>9, <1>10 DEF OnItsWay

LEMMA RejectsOnItsWay ==
  ASSUME RowInv, NEW r \in Run, RejectBinding(r), OnItsWay(r)
  PROVE  OnItsWay(r)'
<1>0. TypeOK /\ rejected[r] \in Nat
  BY Tables DEF RowInv
<1>1. MovesRun(r, "running") /\ runs[r].status = "awaiting_human"
  BY RejectSteps
<1>2. runs'[r].status = "running"
  BY <1>1 DEF MovesRun
<1>3. rejected' = [rejected EXCEPT ![r] = @ + 1] /\ Reply([run |-> r, action |-> "reject"])
      /\ UNCHANGED <<shown, jobs, saved, exec>>
  BY DEF RejectBinding
<1>4. rejected'[r] = rejected[r] + 1
  BY <1>0, <1>3, Tables
<1>5. \A j \in Job : (Drives(j, r)' <=> Drives(j, r)) /\ (Proposes(j, r)' <=> Proposes(j, r))
  BY <1>3 DEF Drives, Proposes, MyRun
<1>6. (\A j \in Job : ~Drives(j, r)) /\ (\A t \in tail : t.run # r)
  BY <1>1 DEF OnItsWay, OneDriver
<1>7. tail' = tail \cup {[run |-> r, action |-> "reject"]}
  BY <1>3 DEF Reply
<1>8. /\ \A j \in Job : Proposes(j, r) => exec[j].heard = rejected[r]
      /\ \/ saved[r] = [at |-> "hitl", heard |-> rejected[r]]
         \/ \E j \in Job : Proposes(j, r) /\ exec[j].heard = rejected[r]
  BY <1>1 DEF OnItsWay, PausesRight
<1>9. rejected'[r] > 0 /\ rejected'[r] - 1 = rejected[r] /\ UNCHANGED <<saved, exec>>
  BY <1>0, <1>3, <1>4
<1>10. Finds(r, "reject")'
  BY <1>5, <1>8, <1>9 DEF Finds
<1>11. OneDriver(r)'
  BY <1>2, <1>5, <1>6, <1>7 DEF OneDriver
<1>12. Instructed(r)'
  BY <1>5, <1>6, <1>7, <1>10 DEF Instructed
<1>13. HasHeard(r)' /\ PausesRight(r)'
  BY <1>2, <1>5, <1>6, <1>8, <1>9 DEF HasHeard, PausesRight
<1> QED  BY <1>11, <1>12, <1>13 DEF OnItsWay

LEMMA EnqueuesOnItsWay ==
  ASSUME RowInv, PiecesFit, NEW r \in Run, OnItsWay(r), NEW t \in tail, Enqueue(t)
  PROVE  OnItsWay(r)'
<1>0. TypeOK /\ jobs \in [Job -> JobRow]
  BY Tables DEF RowInv
<1>1. PICK j \in Job : /\ jobs[j].state = "absent"
                       /\ jobs' = [jobs EXCEPT ![j] = [state |-> "queued", run |-> t.run,
                                                       action |-> t.action, attempts |-> 0]]
  BY DEF Enqueue
<1>2. tail' = tail \ {t} /\ UNCHANGED <<status, runs, rejected, shown, saved, exec>>
  BY DEF Enqueue
<1>3. JobFits(j) /\ exec[j].step = "none"
  BY <1>1 DEF PiecesFit, JobFits
<1>4. /\ jobs'[j].state = "queued" /\ jobs'[j].run = t.run /\ jobs'[j].action = t.action
      /\ \A k \in Job : k # j => jobs'[k] = jobs[k]
  BY <1>0, <1>1
<1>5. /\ ~Proposes(j, r) /\ ~Proposes(j, r)' /\ ~Drives(j, r)
      /\ Drives(j, r)' <=> t.run = r
  BY <1>1, <1>2, <1>3, <1>4 DEF Proposes, Drives, MyRun, Untouched
<1>6. \A k \in Job : k # j => (Drives(k, r)' <=> Drives(k, r)) /\ (Proposes(k, r)' <=> Proposes(k, r))
  BY <1>2, <1>4 DEF Proposes, Drives, MyRun
<1>7. CASE t.run # r
  <2>1. \A u \in tail' : u.run = r => u \in tail
    BY <1>2
  <2>2. SameView(r)
    BY <1>2, <1>4, <1>5, <1>6, <1>7, <2>1 DEF SameView
  <2> QED  BY <2>2, SameViewKeeps
<1>8. CASE t.run = r
  <2>1. /\ runs[r].status = "running" /\ \A k \in Job : ~Drives(k, r)
        /\ \A u \in tail : u.run = r => u = t
        /\ Finds(r, t.action)
    BY <1>8 DEF OnItsWay, OneDriver, Instructed
  <2>2. PICK a : a = t.action /\ Finds(r, a)
    BY <2>1
  <2>3. Finds(r, a)'
    BY <1>2, <1>5, <1>6, <2>2 DEF Finds
  <2>4. \A k \in Job : Drives(k, r)' <=> k = j
    BY <1>5, <1>6, <1>8, <2>1
  <2>5. \A u \in tail' : u.run # r
    BY <1>2, <2>1
  <2>6. OneDriver(r)'
    BY <1>2, <2>1, <2>4, <2>5 DEF OneDriver
  <2>7. Instructed(r)'
    <3>1. jobs'[j].action = a
      BY <1>4, <2>2
    <3>2. Finds(r, jobs[j].action)'
      BY <2>3, <3>1 DEF Finds
    <3> QED  BY <2>4, <2>5, <3>2 DEF Instructed
  <2>8. HasHeard(r)'
    BY <1>2, <1>3, <2>4 DEF HasHeard, AtNode
  <2>9. PausesRight(r)'
    <3>1. \A k \in Job : Proposes(k, r)' <=> Proposes(k, r)
      BY <1>5, <1>6
    <3>2. PausesRight(r)
      BY DEF OnItsWay
    <3> QED  BY <1>2, <3>1, <3>2 DEF PausesRight
  <2> QED  BY <2>6, <2>7, <2>8, <2>9 DEF OnItsWay
<1> QED  BY <1>7, <1>8

-----------------------------------------------------------------------------
(* The steps of the graph that works for a run.                            *)
LEMMA TheDriver ==
  ASSUME RowInv, PiecesFit, NEW r \in Run, OnItsWay(r), NEW j \in Job, MyRun(j) = r,
         exec[j].step \in {"claimed", "checked"} \cup AtNode
  PROVE  /\ Drives(j, r) /\ runs[r].status = "running" /\ jobs[j].state = "running"
         /\ \A t \in tail : t.run # r
         /\ \A i \in Job : Drives(i, r) => i = j
         /\ jobs[j].action # "accept"
<1>1. JobFits(j)
  BY DEF PiecesFit
<1>2. jobs[j].state = "running" /\ Drives(j, r)
  BY <1>1 DEF JobFits, AtNode, Drives, Untouched
<1>3. /\ runs[r].status = "running" /\ \A t \in tail : t.run # r
      /\ \A i \in Job : Drives(i, r) => i = j
  BY <1>2 DEF OnItsWay, OneDriver
<1> QED  BY <1>1, <1>2, <1>3 DEF JobFits, Ended

LEMMA NodeOnItsWay ==
  ASSUME RowInv, PiecesFit, NEW r \in Run, OnItsWay(r), NEW j \in Job, MyRun(j) = r,
         exec[j].step \in {"claimed", "checked"} \cup AtNode,
         NEW s \in AtNode, SetExec(j, s, rejected[r]), SetSaved(r, s, rejected[r]),
         UNCHANGED <<runs, rejected, shown, jobs, tail>>,
         jobs[j].action = "start" <=> rejected[r] = 0,
         \A i \in Job : ~Proposes(i, r)
  PROVE  OnItsWay(r)'
<1>0. TypeOK
  BY DEF RowInv
<1>1. /\ Drives(j, r) /\ runs[r].status = "running" /\ \A t \in tail : t.run # r
      /\ \A i \in Job : Drives(i, r) => i = j
  BY TheDriver
<1>2. /\ exec'[j] = [step |-> s, heard |-> rejected[r]]
      /\ \A i \in Job : i # j => exec'[i] = exec[i]
      /\ saved'[r] = [at |-> s, heard |-> rejected[r]]
  BY <1>0, Tables DEF SetExec, SetSaved
<1>3. Drives(j, r)' /\ ~Proposes(j, r)'
  BY <1>1, <1>2 DEF Drives, Proposes, MyRun, AtNode
<1>4. \A i \in Job : i # j => ~Drives(i, r)' /\ ~Proposes(i, r)'
  BY <1>1, <1>2 DEF Drives, Proposes, MyRun
<1>5. OneDriver(r)'
  BY <1>1, <1>3, <1>4 DEF OneDriver
<1>6. Instructed(r)'
  BY <1>1, <1>2, <1>4 DEF Instructed, Untouched, AtNode
<1>7. HasHeard(r)'
  BY <1>2, <1>3, <1>4 DEF HasHeard
<1>8. PausesRight(r)'
  BY <1>1, <1>3, <1>4 DEF PausesRight
<1> QED  BY <1>5, <1>6, <1>7, <1>8 DEF OnItsWay

LEMMA StartOnItsWay ==
  ASSUME RowInv, PiecesFit, NEW r \in Run, OnItsWay(r), NEW j \in Job, MyRun(j) = r, StartGraph(j)
  PROVE  OnItsWay(r)'
<1>1. /\ exec[j].step = "checked" /\ jobs[j].action = "start"
      /\ SetSaved(r, "work", 0) /\ SetExec(j, "work", 0)
      /\ UNCHANGED <<runs, rejected, shown, jobs, tail>>
  BY DEF StartGraph
<1>2. Drives(j, r)
  BY <1>1, TheDriver
<1>3. rejected[r] = 0 /\ \A i \in Job : ~Proposes(i, r)
  BY <1>1, <1>2 DEF OnItsWay, Instructed, Untouched, Finds
<1> QED  BY <1>1, <1>3, NodeOnItsWay DEF AtNode

LEMMA ResumeOnItsWay ==
  ASSUME RowInv, PiecesFit, NEW r \in Run, OnItsWay(r), NEW j \in Job, MyRun(j) = r, ResumeGraph(j)
  PROVE  OnItsWay(r)'
<1>0. TypeOK /\ rejected[r] \in Nat /\ saved[r] \in Checkpoint
  BY Tables DEF RowInv
<1>1. /\ exec[j].step = "checked" /\ jobs[j].action \in Answer /\ Settled(r)
      /\ SetExec(j, IF Resumed(j).at = "end" THEN "returned" ELSE Resumed(j).at, Resumed(j).heard)
      /\ IF saved[r].at = "none" /\ Resumed(j).at = "end"
         THEN UNCHANGED saved ELSE saved' = [saved EXCEPT ![r] = Resumed(j)]
      /\ UNCHANGED <<runs, rejected, shown, jobs, tail>>
  BY DEF ResumeGraph
<1>2. Drives(j, r) /\ jobs[j].action = "reject"
  BY <1>1, TheDriver DEF Answer
<1>3. \A i \in Job : ~Proposes(i, r)
  BY <1>1 DEF Settled, Invoked, Proposes, Invoking
<1>4. /\ rejected[r] > 0
      /\ \/ saved[r] = [at |-> "work", heard |-> rejected[r]]
         \/ saved[r] = [at |-> "hitl", heard |-> rejected[r] - 1]
  BY <1>1, <1>2, <1>3 DEF OnItsWay, Instructed, Untouched, Finds
<1>5. Resumed(j) = [at |-> "work", heard |-> rejected[r]]
  <2>1. CASE saved[r] = [at |-> "work", heard |-> rejected[r]]
    BY <2>1 DEF Resumed
  <2>2. CASE saved[r] = [at |-> "hitl", heard |-> rejected[r] - 1]
    <3>1. saved[r].at = "hitl" /\ saved[r].heard + 1 = rejected[r]
      BY <1>0, <2>2
    <3> QED  BY <1>2, <3>1 DEF Resumed
  <2> QED  BY <1>4, <2>1, <2>2
<1>6. PICK c : c = Resumed(j) /\ c.at = "work" /\ c.heard = rejected[r]
  BY <1>5
<1>7. SetExec(j, "work", rejected[r]) /\ SetSaved(r, "work", rejected[r])
  BY <1>1, <1>5, <1>6 DEF SetExec, SetSaved
<1>8. ~(jobs[j].action = "start") /\ ~(rejected[r] = 0)
  BY <1>0, <1>2, <1>4
<1> QED  BY <1>1, <1>3, <1>7, <1>8, NodeOnItsWay DEF AtNode

LEMMA WorkOnItsWay ==
  ASSUME RowInv, PiecesFit, NEW r \in Run, OnItsWay(r), NEW j \in Job, MyRun(j) = r, Work(j)
  PROVE  OnItsWay(r)'
<1>1. /\ exec[j].step = "work"
      /\ SetExec(j, "propose", exec[j].heard) /\ SetSaved(r, "propose", exec[j].heard)
      /\ UNCHANGED <<runs, rejected, shown, jobs, tail>>
  BY DEF Work
<1>2. Drives(j, r)
  BY <1>1, TheDriver DEF AtNode
<1>3. /\ exec[j].heard = rejected[r] /\ (jobs[j].action = "start" <=> rejected[r] = 0)
      /\ \A i \in Job : ~Proposes(i, r)
  BY <1>1, <1>2 DEF OnItsWay, HasHeard, AtNode
<1> QED  BY <1>1, <1>3, NodeOnItsWay DEF AtNode

LEMMA ProposeOnItsWay ==
  ASSUME RowInv, PiecesFit, NEW r \in Run, OnItsWay(r), NEW j \in Job, MyRun(j) = r, Propose(j)
  PROVE  OnItsWay(r)'
<1>0. TypeOK
  BY DEF RowInv
<1>1. exec[j].step = "propose" /\ ApplyResult(j, "proposed")
  BY DEF Propose
<1>2. MovesRun(r, "awaiting_human") /\ shown' = exec[j].heard
  BY <1>1, ResultSteps
<1>3. runs'[r].status = "awaiting_human"
  BY <1>2 DEF MovesRun
<1>4. SetExec(j, "proposed", exec[j].heard) /\ UNCHANGED <<rejected, jobs, saved, tail>>
  BY <1>1 DEF ApplyResult
<1>5. /\ Drives(j, r) /\ \A t \in tail : t.run # r
      /\ \A i \in Job : Drives(i, r) => i = j
  BY <1>1, TheDriver DEF AtNode
<1>6. exec[j].heard = rejected[r] /\ \A i \in Job : ~Proposes(i, r)
  BY <1>1, <1>5 DEF OnItsWay, HasHeard, AtNode
<1>7. /\ exec'[j] = [step |-> "proposed", heard |-> rejected[r]]
      /\ \A i \in Job : i # j => exec'[i] = exec[i]
  BY <1>0, <1>4, <1>6, Tables DEF SetExec
<1>8. \A i \in Job : ~Drives(i, r)' /\ (Proposes(i, r)' <=> i = j)
  BY <1>4, <1>5, <1>6, <1>7 DEF Drives, Proposes, MyRun, Untouched, AtNode
<1>9. OneDriver(r)' /\ Instructed(r)' /\ HasHeard(r)'
  BY <1>4, <1>5, <1>8 DEF OneDriver, Instructed, HasHeard
<1>10. PausesRight(r)'
  BY <1>2, <1>3, <1>4, <1>6, <1>7, <1>8 DEF PausesRight
<1> QED  BY <1>9, <1>10 DEF OnItsWay

LEMMA PauseOnItsWay ==
  ASSUME RowInv, PiecesFit, NEW r \in Run, OnItsWay(r), NEW j \in Job, MyRun(j) = r, Pause(j)
  PROVE  OnItsWay(r)'
<1>0. TypeOK /\ exec[j].heard \in Nat
  BY Tables DEF RowInv, ExecRow
<1>1. /\ exec[j].step = "proposed"
      /\ SetExec(j, "returned", 0) /\ SetSaved(r, "hitl", exec[j].heard)
      /\ UNCHANGED <<runs, rejected, shown, jobs, tail>>
  BY DEF Pause
<1>2. /\ exec'[j].step = "returned" /\ \A i \in Job : i # j => exec'[i] = exec[i]
      /\ saved'[r] = [at |-> "hitl", heard |-> exec[j].heard]
  BY <1>0, <1>1, Tables DEF SetExec, SetSaved
<1>3. Proposes(j, r) /\ ~Drives(j, r) /\ ~Drives(j, r)' /\ ~Proposes(j, r)'
  BY <1>1, <1>2 DEF Proposes, Drives, MyRun, Untouched, AtNode
<1>4. \A i \in Job : i # j => (Drives(i, r)' <=> Drives(i, r)) /\ (Proposes(i, r)' <=> Proposes(i, r))
  BY <1>1, <1>2 DEF Proposes, Drives, MyRun
<1>5. OneDriver(r)'
  BY <1>1, <1>3, <1>4 DEF OnItsWay, OneDriver
<1>6. \A i \in Job : Drives(i, r) => exec[i].step \notin AtNode
  BY <1>3 DEF OnItsWay, HasHeard
<1>7. HasHeard(r)'
  BY <1>2, <1>3, <1>4, <1>6 DEF HasHeard
<1>8. CASE runs[r].status = "awaiting_human" /\ exec[j].heard = rejected[r]
  <2>1. /\ \A i \in Job : ~Drives(i, r)' /\ \A t \in tail' : t.run # r
    BY <1>1, <1>3, <1>4, <1>8 DEF OnItsWay, OneDriver
  <2>2. Instructed(r)'
    BY <2>1 DEF Instructed
  <2>3. PausesRight(r)'
    BY <1>1, <1>2, <1>3, <1>4, <1>8 DEF OnItsWay, PausesRight
  <2> QED  BY <1>5, <1>7, <2>2, <2>3 DEF OnItsWay
<1>9. CASE runs[r].status = "running" /\ exec[j].heard = rejected[r] - 1
  <2>1. ASSUME NEW a, Finds(r, a)  PROVE Finds(r, a)'
    <3>1. a # "start"
      BY <1>3, <2>1 DEF Finds
    <3> QED  BY <1>1, <1>2, <1>9, <2>1, <3>1 DEF Finds
  <2>2. ASSUME NEW t \in tail', t.run = r  PROVE Finds(r, t.action)'
    BY <1>1, <2>1, <2>2 DEF OnItsWay, Instructed
  <2>3. ASSUME NEW i \in Job, Drives(i, r)', exec'[i].step \in Untouched
        PROVE  Finds(r, jobs[i].action)' /\ jobs'[i].action = jobs[i].action
    <3>1. Drives(i, r) /\ exec[i].step \in Untouched
      BY <1>2, <1>3, <1>4, <2>3
    <3>2. PICK a : a = jobs[i].action /\ Finds(r, a)
      BY <3>1 DEF OnItsWay, Instructed
    <3>3. Finds(r, a)'
      BY <2>1, <3>2
    <3> QED  BY <1>1, <3>2, <3>3 DEF Finds
  <2>4. Instructed(r)'
    BY <2>2, <2>3 DEF Instructed, Finds
  <2>5. PausesRight(r)'
    BY <1>1, <1>2, <1>3, <1>4, <1>9 DEF OnItsWay, PausesRight
  <2> QED  BY <1>5, <1>7, <2>4, <2>5 DEF OnItsWay
<1> QED  BY <1>3, <1>8, <1>9 DEF OnItsWay, PausesRight

LEMMA RetryOnItsWay ==
  ASSUME RowInv, PiecesFit, NEW r \in Run, OnItsWay(r), NEW j \in Job, MyRun(j) = r, Retry(j)
  PROVE  OnItsWay(r)'
<1>0. TypeOK /\ rejected[r] \in Nat
  BY Tables DEF RowInv
<1>1. /\ jobs'[j].state = "queued" /\ jobs'[j].run = jobs[j].run
      /\ jobs'[j].action = jobs[j].action
      /\ exec'[j].step = "none" /\ exec[j].step = "work"
      /\ \A k \in Job : k # j => jobs'[k] = jobs[k] /\ exec'[k] = exec[k]
  BY <1>0, RetryOne
<1>2. UNCHANGED <<runs, rejected, shown, saved, tail>>
  BY DEF Retry
<1>3. /\ Drives(j, r) /\ runs[r].status = "running" /\ \A t \in tail : t.run # r
      /\ \A i \in Job : Drives(i, r) => i = j
      /\ jobs[j].action # "accept"
  BY <1>1, TheDriver DEF AtNode
<1>4. /\ saved[r] = [at |-> "work", heard |-> rejected[r]]
      /\ jobs[j].action = "start" <=> rejected[r] = 0
      /\ \A i \in Job : ~Proposes(i, r)
  BY <1>1, <1>3 DEF OnItsWay, HasHeard, AtNode
<1>5. \A i \in Job : ~Proposes(i, r)' /\ (Drives(i, r)' <=> i = j)
  BY <1>1, <1>3, <1>4 DEF Proposes, Drives, MyRun, Untouched
<1>6. Finds(r, jobs[j].action)'
  BY <1>0, <1>1, <1>2, <1>4, <1>5 DEF Finds
<1>7. OneDriver(r)'
  BY <1>2, <1>3, <1>5 DEF OneDriver
<1>8. Instructed(r)'
  BY <1>2, <1>3, <1>5, <1>6 DEF Instructed, Finds
<1>9. HasHeard(r)' /\ PausesRight(r)'
  BY <1>1, <1>2, <1>3, <1>5 DEF HasHeard, PausesRight, AtNode
<1> QED  BY <1>7, <1>8, <1>9 DEF OnItsWay

(* A job on its way to the graph, of whichever run.                        *)
LEMMA JobComesNearer ==
  ASSUME NEW r \in Run, NEW j \in Job,
         \A k \in Job : k # j => jobs'[k] = jobs[k] /\ exec'[k] = exec[k],
         jobs[j].state # "absent", jobs'[j].run = jobs[j].run, jobs'[j].action = jobs[j].action,
         exec[j].step \in Untouched, exec'[j].step \in Untouched \cup {"returned"},
         UNCHANGED <<runs, rejected, shown, saved, tail>>
  PROVE  SameView(r)
<1>1. ASSUME NEW k \in Job, k # j
      PROVE  /\ Proposes(k, r)' <=> Proposes(k, r)
             /\ Drives(k, r)' <=> Drives(k, r)
             /\ exec'[k] = exec[k] /\ jobs'[k] = jobs[k]
  BY <1>1 DEF Proposes, Drives, MyRun
<1>2. ~Proposes(j, r) /\ ~Proposes(j, r)'
  BY DEF Proposes, Untouched
<1>3. Drives(j, r)' => Drives(j, r) /\ exec'[j].step \in Untouched
  BY DEF Drives, MyRun, Untouched, AtNode
<1> QED  BY <1>1, <1>2, <1>3 DEF SameView

LEMMA OtherWorkerKeeps ==
  ASSUME RowInv, PiecesFit, faults' = 0, faults = 0, NEW r \in Run, Followed(r), OnItsWay(r),
         NEW j \in Job, MyRun(j) # r,
         Graph(j) \/ StrayPropose(j)
  PROVE  OnItsWay(r)'
<1>0. TypeOK /\ ~Fault /\ exec[j].heard \in Nat
  BY Tables DEF RowInv, Fault, ExecRow
<1>1. PICK q \in Run : q = MyRun(j) /\ q = jobs[j].run
  BY <1>0, JobsOnRuns
<1>2. runs[q].status \notin Active
  BY <1>1, FollowedIsOne
<1>3. ~Propose(j) /\ ~StrayPropose(j)
  BY <1>1, <1>2 DEF Propose, StrayPropose, ApplyResult, Accepts, Active
<1>4. ASSUME SameView(r)  PROVE OnItsWay(r)'
  BY <1>4, SameViewKeeps
<1>5. ASSUME \A k \in Job : k # j => jobs'[k] = jobs[k] /\ exec'[k] = exec[k],
             jobs'[j].run = jobs[j].run, saved'[r] = saved[r],
             UNCHANGED <<runs, rejected, shown, tail>>
      PROVE  OnItsWay(r)'
  <2>1. /\ ~Proposes(j, r) /\ ~Proposes(j, r)' /\ ~Drives(j, r)'
    BY <1>5 DEF Proposes, Drives, MyRun
  <2> QED  BY <1>4, <1>5, <2>1, JobAside
<1>6. ASSUME NEW s \in Step, NEW h \in Nat, SetExec(j, s, h)
      PROVE  \A k \in Job : k # j => exec'[k] = exec[k]
  BY <1>0, <1>6, SetExecOne
<1>7. ASSUME NEW c, saved' = [saved EXCEPT ![q] = c] \/ UNCHANGED saved
      PROVE  saved'[r] = saved[r]
  BY <1>0, <1>1, <1>7, Tables
<1>8. CASE StartGraph(j) \/ Work(j) \/ Pause(j)
  <2>1. PICK s \in Step, h \in Nat : SetExec(j, s, h)
    BY <1>0, <1>8 DEF StartGraph, Work, Pause, Step
  <2>2. \E c : saved' = [saved EXCEPT ![q] = c]
    BY <1>1, <1>8 DEF StartGraph, Work, Pause, SetSaved
  <2>3. UNCHANGED <<jobs, runs, rejected, shown, tail>>
    BY <1>8 DEF StartGraph, Work, Pause
  <2> QED  BY <1>5, <1>6, <1>7, <2>1, <2>2, <2>3
<1>9. CASE ResumeGraph(j)
  <2>1. PICK at \in {"work", "propose", "end"}, h \in Nat : Resumed(j) = [at |-> at, heard |-> h]
    BY <1>0, ResumedAt
  <2>2. PICK s \in Step : s = IF at = "end" THEN "returned" ELSE at
    BY DEF Step
  <2>3. SetExec(j, s, h) /\ UNCHANGED <<jobs, runs, rejected, shown, tail>>
    BY <1>9, <2>1, <2>2 DEF ResumeGraph
  <2>4. \E c : saved' = [saved EXCEPT ![q] = c] \/ UNCHANGED saved
    BY <1>1, <1>9 DEF ResumeGraph
  <2> QED  BY <1>5, <1>6, <1>7, <2>3, <2>4
<1>10. CASE Retry(j)
  <2>1. /\ jobs'[j].run = jobs[j].run
        /\ \A k \in Job : k # j => jobs'[k] = jobs[k] /\ exec'[k] = exec[k]
    BY <1>0, <1>10, RetryOne
  <2> QED  BY <1>5, <1>10, <2>1 DEF Retry
<1>11. CASE Fails(j)
  <2>1. UNCHANGED runs
    BY <1>0, <1>1, <1>2, <1>11 DEF Fails, FailRun, Active
  <2>2. SetExec(j, "returned", 0) /\ UNCHANGED <<rejected, shown, jobs, saved, tail>>
    BY <1>11 DEF Fails
  <2> QED  BY <1>5, <1>6, <2>1, <2>2 DEF Step
<1> QED  BY <1>3, <1>8, <1>9, <1>10, <1>11 DEF Graph

LEMMA WorkerOnItsWay ==
  ASSUME RowInv, PiecesFit, faults = 0, faults' = 0, NEW r \in Run, Followed(r), OnItsWay(r),
         Followed(r)', NEW j \in Job, Worker(j)
  PROVE  OnItsWay(r)'
<1>0. TypeOK /\ ~Fault /\ JobFits(j)
  BY DEF RowInv, Fault, PiecesFit
<1>1. CASE Claim(j)
  <2>1. /\ jobs'[j].run = jobs[j].run /\ jobs'[j].action = jobs[j].action
        /\ exec'[j].step = "claimed" /\ jobs[j].state # "absent"
        /\ \A k \in Job : k # j => jobs'[k] = jobs[k] /\ exec'[k] = exec[k]
    BY <1>0, <1>1, ClaimOne
  <2>2. exec[j].step = "none" /\ UNCHANGED <<runs, rejected, shown, saved, tail>>
    BY <1>1 DEF Claim, NoExec
  <2>3. SameView(r)
    BY <2>1, <2>2, JobComesNearer DEF Untouched
  <2> QED  BY <2>3, SameViewKeeps
<1>2. CASE ExecuteJob(j)
  <2>1. PICK s \in {"checked", "returned"} : SetExec(j, s, 0)
    BY <1>2 DEF ExecuteJob
  <2>2. exec'[j].step = s /\ \A k \in Job : k # j => exec'[k] = exec[k]
    BY <1>0, <2>1, Tables DEF SetExec
  <2>3. exec[j].step = "claimed" /\ jobs[j].state # "absent"
        /\ UNCHANGED <<jobs, runs, rejected, shown, saved, tail>>
    BY <1>0, <1>2 DEF ExecuteJob, JobFits
  <2>4. SameView(r)
    BY <2>2, <2>3, JobComesNearer DEF Untouched
  <2> QED  BY <2>4, SameViewKeeps
<1>3. CASE StrayEnds(j) \/ FinishJob(j)
  <2>1. \A k \in Job : k # j => jobs'[k] = jobs[k] /\ exec'[k] = exec[k]
    BY <1>0, <1>3, Tables DEF StrayEnds, FinishJob, SetExec
  <2>2. exec[j].step \in {"stray", "returned"} /\ UNCHANGED <<runs, rejected, shown, saved, tail>>
    BY <1>3 DEF StrayEnds, FinishJob
  <2>3. exec'[j].step = "returned" \/ (jobs'[j].state = "absent" /\ exec'[j].step = "none")
    <3>1. CASE StrayEnds(j)
      BY <1>0, <3>1, Tables DEF StrayEnds, SetExec
    <3>2. CASE FinishJob(j)
      BY <1>0, <3>2, Tables DEF FinishJob, NoJob, NoExec
    <3> QED  BY <1>3, <3>1, <3>2
  <2>4. ~Proposes(j, r) /\ ~Proposes(j, r)' /\ ~Drives(j, r)'
    BY <2>2, <2>3 DEF Proposes, Drives, Untouched, AtNode
  <2>5. SameView(r)
    BY <2>1, <2>2, <2>4, JobAside
  <2> QED  BY <2>5, SameViewKeeps
<1>4. CASE MyRun(j) # r /\ (Graph(j) \/ StrayPropose(j))
  BY <1>4, OtherWorkerKeeps
<1>5. ASSUME MyRun(j) = r, Fails(j)  PROVE FALSE
  <2>1. runs[r].status = "running"
    BY <1>5, TheDriver DEF Fails, AtNode
  <2>2. SetRun(r, "failed")
    BY <1>0, <1>5, <2>1 DEF Fails, FailRun
  <2>3. runs'[r] = [mode |-> runs[r].mode, status |-> "failed"]
    BY <1>0, <2>2, SetRunOne DEF RunStatus
  <2> QED  BY <2>3 DEF Followed, Active
<1>6. ASSUME MyRun(j) = r, StrayPropose(j)  PROVE FALSE
  BY <1>0, <1>6 DEF StrayPropose, JobFits
<1>7. CASE MyRun(j) = r /\ (Graph(j) \/ StrayPropose(j))
  BY <1>5, <1>6, <1>7, StartOnItsWay, ResumeOnItsWay, WorkOnItsWay, ProposeOnItsWay, PauseOnItsWay,
     RetryOnItsWay DEF Graph
<1> QED  BY <1>1, <1>2, <1>3, <1>4, <1>7 DEF Worker

(* Only the two requests begin a run.                                      *)
LEMMA BegunByPeople ==
  ASSUME RowInv, [Next]_vars, NEW r \in Run, NEW m \in Mode, BeginsRun(r, m)
  PROVE  StartTriage \/ StartRetest
<1>0. ~Created(r) /\ Created(r)'
  BY Tables DEF BeginsRun, RowInv, Created
<1>1. ASSUME UNCHANGED runs  PROVE FALSE
  BY <1>0, <1>1 DEF Created
<1>2. ASSUME NEW q \in Run, NEW s \in RunStatus, MovesRun(q, s)  PROVE FALSE
  BY <1>0, <1>2 DEF MovesRun, Newest, Created
<1>3. ASSUME NEW q \in Run, FailRun(q)  PROVE FALSE
  <2>1. CASE runs[q].status # "running"
    BY <1>1, <1>3, <2>1 DEF FailRun
  <2>2. CASE runs[q].status = "running"
    <3>1. SetRun(q, "failed") /\ q # r
      BY <1>0, <1>3, <2>2 DEF FailRun, Created
    <3>2. runs'[r] = runs[r]
      BY <3>1, SetRunOne DEF RunStatus, RowInv
    <3> QED  BY <1>0, <3>2 DEF Created
  <2> QED  BY <2>1, <2>2
<1>4. ASSUME NEW q \in Run, RejectBinding(q) \/ Verdict(q) \/ Close(q) \/ NotFixed(q) \/ CancelRun(q)
      PROVE  FALSE
  BY <1>1, <1>2, <1>4, RejectSteps, DecideSteps, CancelSteps DEF RunStatus, Verdict, Close, NotFixed
<1>5. ASSUME NEW q \in Run, AbortRun(q) \/ CancelByRun(q) \/ DeleteThread(q) \/ PruneCheckpoints(q)
      PROVE  FALSE
  BY <1>1, <1>5 DEF AbortRun, CancelByRun, DeleteThread, PruneCheckpoints
<1>6. ASSUME NEW q \in Run, FailStaleRun(q)  PROVE FALSE
  BY <1>3, <1>6 DEF FailStaleRun
<1>7. ASSUME NEW j \in Job, Propose(j) \/ StrayPropose(j)  PROVE FALSE
  <2>1. PICK q \in Run : q = MyRun(j) /\ MovesRun(q, "awaiting_human")
    BY <1>7, ResultSteps DEF Propose, StrayPropose
  <2> QED  BY <1>2, <2>1 DEF RunStatus
<1>8. ASSUME NEW j \in Job, Fails(j)  PROVE FALSE
  <2>1. PICK q \in Run : q = MyRun(j)
    BY MyRunIsRun DEF RowInv
  <2> QED  BY <1>1, <1>3, <1>8, <2>1 DEF Fails
<1>9. ASSUME NEW j \in Job,
             \/ Claim(j) \/ ExecuteJob(j) \/ StartGraph(j) \/ ResumeGraph(j) \/ Work(j) \/ Pause(j)
             \/ Retry(j) \/ StrayEnds(j) \/ FinishJob(j) \/ HandlerThrows(j) \/ Requeue(j)
      PROVE  FALSE
  BY <1>1, <1>9 DEF Claim, ExecuteJob, StartGraph, ResumeGraph, Work, Pause, Retry, StrayEnds,
     FinishJob, HandlerThrows, Requeue
<1>10. ASSUME NEW t \in tail, Enqueue(t) \/ EnqueueFails(t)  PROVE FALSE
  BY <1>1, <1>10 DEF Enqueue, EnqueueFails
<1>11. ASSUME Crash \/ UNCHANGED vars \/ ReadyForRetest  PROVE FALSE
  BY <1>1, <1>11 DEF Crash, vars, ReadyForRetest
<1> QED  BY <1>4, <1>5, <1>6, <1>7, <1>8, <1>9, <1>10, <1>11 DEF Next, People, Worker, Graph

-----------------------------------------------------------------------------
(* What the people and the sweeps do.                                      *)
LEMMA UnqueuesAside ==
  ASSUME PiecesFit, TypeOK, NEW r \in Run, NEW q \in Run, q # r, CancelByRun(q)
  PROVE  SameView(r)
<1>1. /\ jobs' = [j \in Job |-> IF MyRun(j) = q /\ jobs[j].state = "queued" THEN NoJob ELSE jobs[j]]
      /\ UNCHANGED <<runs, rejected, shown, saved, exec, tail>>
  BY DEF CancelByRun
<1>2. ASSUME NEW k \in Job
      PROVE  /\ Proposes(k, r)' <=> Proposes(k, r)
             /\ Drives(k, r)' => Drives(k, r) /\ jobs'[k].action = jobs[k].action
  <2>1. JobFits(k)
    BY DEF PiecesFit
  <2>2. CASE MyRun(k) = q /\ jobs[k].state = "queued"
    <3>1. jobs'[k].state = "absent" /\ exec[k].step = "none"
      BY <1>1, <2>1, <2>2 DEF NoJob, JobFits
    <3> QED  BY <1>1, <2>2, <3>1 DEF Proposes, Drives
  <2>3. CASE ~(MyRun(k) = q /\ jobs[k].state = "queued")
    <3>1. jobs'[k] = jobs[k]
      BY <1>1, <2>3
    <3> QED  BY <1>1, <3>1 DEF Proposes, Drives, MyRun
  <2> QED  BY <2>2, <2>3
<1> QED  BY <1>1, <1>2 DEF SameView

LEMMA PeopleOnItsWay ==
  ASSUME RowInv, PiecesFit, NEW r \in Run, Followed(r), OnItsWay(r), Followed(r)', People
  PROVE  OnItsWay(r)'
<1>0. /\ TypeOK /\ Created(r) /\ runs[r].status \in Active /\ cancel[r] = "no"
      /\ runs'[r].status \in Active /\ cancel'[r] = "no"
  BY DEF RowInv, Followed, Created, Active
<1>1. CASE ReadyForRetest
  <2>1. SameView(r)
    BY <1>1, JobsAside DEF ReadyForRetest
  <2> QED  BY <2>1, SameViewKeeps
<1>2. ASSUME StartTriage \/ StartRetest  PROVE FALSE
  <2>1. \E q \in Run, m \in Mode : BeginsRun(q, m)
    BY <1>2, BeginSteps DEF StartTriage, StartRetest, Startable, Mode
  <2> QED  BY <1>0, <2>1 DEF BeginsRun, Active, Ended
<1>3. ASSUME NEW q \in Run, RejectBinding(q)  PROVE OnItsWay(r)'
  <2>1. q = r
    BY <1>3, FollowedIsOne DEF RejectBinding
  <2> QED  BY <1>3, <2>1, RejectsOnItsWay
<1>4. ASSUME NEW q \in Run, Verdict(q) \/ Close(q) \/ NotFixed(q)  PROVE FALSE
  <2>1. MovesRun(q, "persisted")
    BY <1>4, DecideSteps DEF Verdict, Close, NotFixed
  <2>2. q = r /\ runs'[q].status = "persisted"
    BY <2>1, FollowedIsOne DEF MovesRun
  <2> QED  BY <1>0, <2>2 DEF Active
<1>5. ASSUME NEW q \in Run, AbortRun(q)  PROVE FALSE
  <2>1. q = r /\ cancel' = [cancel EXCEPT ![q] = "aborted"]
    BY <1>5, FollowedIsOne DEF AbortRun
  <2> QED  BY <1>0, <2>1, Tables
<1>6. ASSUME NEW q \in Run, CancelByRun(q)  PROVE OnItsWay(r)'
  <2>1. q # r
    BY <1>0, <1>6 DEF CancelByRun
  <2> QED  BY <1>0, <1>6, <2>1, UnqueuesAside, SameViewKeeps
<1>7. ASSUME NEW q \in Run, CancelRun(q)  PROVE OnItsWay(r)'
  <2>1. q # r
    BY <1>0, <1>7 DEF CancelRun
  <2>2. ~MovesRun(q, "cancelled")
    BY <2>1, FollowedIsOne DEF MovesRun
  <2>3. UNCHANGED runs
    BY <1>7, <2>2, CancelSteps
  <2>4. SameView(r)
    BY <1>7, <2>3, JobsAside DEF CancelRun
  <2> QED  BY <2>4, SameViewKeeps
<1>8. ASSUME NEW q \in Run, DeleteThread(q)  PROVE OnItsWay(r)'
  <2>1. q # r /\ saved' = [saved EXCEPT ![q] = Nowhere]
    BY <1>0, <1>8 DEF DeleteThread
  <2>2. saved'[r] = saved[r]
    BY <1>0, <2>1, Tables
  <2>3. SameView(r)
    BY <1>8, <2>2, JobsAside DEF DeleteThread
  <2> QED  BY <2>3, SameViewKeeps
<1> QED  BY <1>1, <1>2, <1>3, <1>4, <1>5, <1>6, <1>7, <1>8 DEF People

LEMMA SweepsOnItsWay ==
  ASSUME RowInv, PiecesFit, NEW r \in Run, Followed(r), OnItsWay(r), Followed(r)',
         NEW q \in Run, FailStaleRun(q) \/ PruneCheckpoints(q)
  PROVE  OnItsWay(r)'
<1>0. TypeOK /\ runs[r].status \in Active /\ runs'[r].status \in Active
  BY DEF RowInv, Followed
<1>1. ASSUME FailStaleRun(q)  PROVE FALSE
  <2>1. runs[q].status = "running" /\ SetRun(q, "failed")
    BY <1>1 DEF FailStaleRun, Orphan, FailRun
  <2>2. q = r
    BY <2>1, FollowedIsOne DEF Active
  <2>3. runs'[q] = [mode |-> runs[q].mode, status |-> "failed"]
    BY <1>0, <2>1, SetRunOne DEF RunStatus
  <2> QED  BY <1>0, <2>2, <2>3 DEF Active
<1>2. CASE PruneCheckpoints(q)
  <2>1. q # r /\ saved' = [saved EXCEPT ![q] = Nowhere]
    BY <1>0, <1>2 DEF PruneCheckpoints, Active, Ended
  <2>2. saved'[r] = saved[r]
    BY <1>0, <2>1, Tables
  <2>3. SameView(r)
    BY <1>2, <2>2, JobsAside DEF PruneCheckpoints
  <2> QED  BY <2>3, SameViewKeeps
<1> QED  BY <1>1, <1>2

-----------------------------------------------------------------------------
LEMMA OnItsWayKeeps ==
  ASSUME RowInv, PiecesFit, faults = 0, faults' = 0, [Next]_vars,
         NEW r \in Run, Followed(r), OnItsWay(r), Followed(r)'
  PROVE  OnItsWay(r)'
<1>1. ~Fault
  BY DEF Fault
<1>2. CASE UNCHANGED vars
  <2>1. SameView(r)
    BY <1>2, JobsAside DEF vars
  <2> QED  BY <2>1, SameViewKeeps
<1>3. ASSUME NEW j \in Job, HandlerThrows(j) \/ Requeue(j)  PROVE FALSE
  BY <1>1, <1>3 DEF HandlerThrows, Requeue, PiecesFit, JobFits, NoExec
<1>4. ~Crash /\ \A t \in tail : ~EnqueueFails(t)
  BY <1>1 DEF Crash, EnqueueFails
<1> QED  BY <1>2, <1>3, <1>4, PeopleOnItsWay, WorkerOnItsWay, SweepsOnItsWay, EnqueuesOnItsWay DEF Next

LEMMA HeardBegins == Init => HeardInv
<1> SUFFICES ASSUME Init  PROVE HeardInv
  OBVIOUS
<1>1. /\ \A r \in Run : runs[r].status = "none" /\ cancel[r] = "no" /\ rejected[r] = 0
      /\ \A j \in Job : jobs[j].state = "absent" /\ exec[j].step = "none"
      /\ tail = {}
  BY DEF Init, NoJob, NoExec
<1>2. PiecesFit
  BY <1>1 DEF PiecesFit, JobFits, TaskFits, RunFits
<1>3. \A r \in Run : ~Followed(r)
  BY <1>1 DEF Followed, Active
<1> QED  BY <1>2, <1>3, RowsBegin DEF HeardInv

LEMMA HeardKeeps == HeardInv /\ [Next]_vars => HeardInv'
<1> SUFFICES ASSUME HeardInv, [Next]_vars  PROVE HeardInv'
  OBVIOUS
<1>1. RowInv /\ RowInv' /\ TypeOK
  BY RowsKeep DEF HeardInv, RowInv
<1>2. faults' = 0 => faults = 0
  <2>1. faults \in Nat
    BY <1>1, Tables
  <2>2. faults' = faults \/ faults' = faults + 1
    <3>1. ASSUME NEW r \in Run, FailStaleRun(r) \/ PruneCheckpoints(r)  PROVE faults' = faults
      BY <3>1 DEF FailStaleRun, PruneCheckpoints
    <3>2. ASSUME NEW j \in Job, Worker(j) \/ HandlerThrows(j) \/ Requeue(j)
          PROVE  faults' = faults \/ faults' = faults + 1
      BY <3>2 DEF Worker, Graph, Claim, ExecuteJob, StartGraph, ResumeGraph, Work, Propose, Pause,
         Retry, Fails, StrayPropose, StrayEnds, FinishJob, ApplyResult, HandlerThrows, Requeue, Fault
    <3>3. ASSUME NEW t \in tail, Enqueue(t) \/ EnqueueFails(t)
          PROVE  faults' = faults \/ faults' = faults + 1
      BY <3>3 DEF Enqueue, EnqueueFails, Fault
    <3>4. ASSUME People  PROVE faults' = faults
      BY <3>4 DEF People, StartTriage, StartRetest, Begin, ReadyForRetest, RejectBinding, Verdict,
         Close, NotFixed, Decide, AbortRun, CancelByRun, CancelRun, DeleteThread
    <3>5. CASE Crash \/ UNCHANGED vars
      BY <3>5 DEF Crash, Fault, vars
    <3> QED  BY <3>1, <3>2, <3>3, <3>4, <3>5 DEF Next
  <2> QED  BY <2>1, <2>2
<1>3. ASSUME faults' = 0  PROVE PiecesFit' /\ \A r \in Run : Followed(r)' => OnItsWay(r)'
  <2>1. faults = 0 /\ PiecesFit
    BY <1>2, <1>3 DEF HeardInv
  <2>2. PiecesFit'
    BY <1>1, <1>3, <2>1, PiecesKeep
  <2>3. ASSUME NEW r \in Run, Followed(r)'  PROVE OnItsWay(r)'
    <3>1. CASE Followed(r)
      <4>1. OnItsWay(r)
        BY <2>1, <3>1 DEF HeardInv
      <4> QED  BY <1>1, <1>3, <2>1, <2>3, <3>1, <4>1, OnItsWayKeeps
    <3>2. ASSUME NEW m \in Mode, BeginsRun(r, m)  PROVE OnItsWay(r)'
      <4>1. StartTriage \/ StartRetest
        BY <1>1, <2>1, <3>2, BegunByPeople
      <4> QED  BY <1>1, <2>1, <3>2, <4>1, BeginsOnItsWay
    <3> QED  BY <1>1, <1>3, <2>1, <2>3, <3>1, <3>2, FollowedBefore
  <2> QED  BY <2>2, <2>3
<1> QED  BY <1>1, <1>3 DEF HeardInv

(* The answer to a rejection is somewhere on its way until the proposal    *)
(* that has heard it is on the card.                                       *)
THEOREM HeardInvHolds == Spec => []HeardInv
BY HeardBegins, HeardKeeps, SpecSteps, PTL

(* While nothing has failed, the proposal the PM sees has heard every      *)
(* `not that citation` given to its run: no resumption finds the graph on  *)
(* its way to the pause, and none finds another one at work (resumeGraph   *)
(* waits for `running`, rejectBinding and its job are one answer).         *)
THEOREM RejectionsAreHeard == Spec => []RejectionIsHeard
<1>1. HeardInv => RejectionIsHeard
  <2> SUFFICES ASSUME HeardInv, status = "awaiting_pm", faults = 0,
                      NEW r \in Run, Newest(r), cancel[r] = "no"
               PROVE  shown = rejected[r]
    BY DEF RejectionIsHeard
  <2>1. RowInv
    BY DEF HeardInv
  <2>2. runs[r].status = "awaiting_human"
    BY <2>1, NewestIs DEF Agrees
  <2>3. OnItsWay(r)
    BY <2>2 DEF HeardInv, Followed, Active
  <2> QED  BY <2>2, <2>3 DEF OnItsWay, PausesRight
<1> QED  BY <1>1, HeardInvHolds, PTL
=============================================================================
