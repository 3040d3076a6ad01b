--------------------------- MODULE RunOrchestrator ---------------------------
(***************************************************************************)
(* The agent runs of one remark across the four places that know of them:  *)
(* the rows of the remark and its runs, the queue, the checkpoints of the  *)
(* graph, and the memory of the process                                    *)
(* (src/apps/api/src/agent/agent.service.ts and prisma-checkpointer.ts).   *)
(*                                                                         *)
(* The four are written one after the other, never together, and the       *)
(* process may die between any two writes.  One call of RemarksService is  *)
(* one step here: what may happen inside it is the subject of              *)
(* RemarkLifecycle.  The queue is reduced to its promise (JobPromise) plus *)
(* attempts and redelivery after a crash.  A graph is reduced to what its  *)
(* checkpoints tell apart: work (nodes without side effects), the one node *)
(* that writes (propose, apply_retest), the pause for a person, the end.   *)
(* There is one API process; a crash and its restart are one step, and a   *)
(* deployment that aborts a job is such a crash.                           *)
(***************************************************************************)
EXTENDS Integers, FiniteSets

CONSTANTS
  MaxRuns,      \* bound on the AgentRun rows of the remark
  NJobs,        \* bound on the unsettled rows of table Job
  MaxAttempts,  \* GRAPH_MAX_ATTEMPTS
  MaxRejects,   \* bound on the answers `not that citation`
  MaxFaults     \* bound on crashes and failed database calls

Run == 1..MaxRuns
Job == 1..NJobs

ASSUME OrchestratorAssumption ==
  /\ MaxRuns \in Nat \ {0} /\ NJobs \in Nat /\ MaxAttempts \in Nat \ {0}
  /\ MaxRejects \in Nat /\ MaxFaults \in Nat

VARIABLES
  status,    \* Remark.status
  runs,      \* AgentRun rows, numbered in creation order
  rejected,  \* how often `not that citation` was the answer to a run
  shown,     \* how many of these answers the proposal on the card has heard
  jobs,      \* rows of table Job of kind `graph` that are not settled
  saved,     \* the newest checkpoint of each run's thread
  exec,      \* what the process is doing with a job
  tail,      \* requests that have committed and still have to enqueue
  cancel,    \* how far a cancellation of a run has come
  faults     \* crashes and failed database calls so far

rows == <<status, runs, rejected, shown>>
vars == <<status, runs, rejected, shown, jobs, saved, exec, tail, cancel, faults>>

-----------------------------------------------------------------------------
(* Values.                                                                 *)

Mode == {"triage", "retest"}
RunStatus == {"none", "running", "awaiting_human", "persisted", "failed", "cancelled"}
Active == {"running", "awaiting_human"}
Ended  == {"persisted", "failed", "cancelled"}

Startable == {"imported", "cannot_tell"}
Status == Startable \cup {"triaging", "awaiting_pm", "defect",
                          "ready_for_retest", "awaiting_business_close", "closed"}

(* The status while the graph of this mode works, while it waits for a     *)
(* person, and the one a cancelled run goes back to.                       *)
Busy(m)    == IF m = "triage" THEN "triaging" ELSE "ready_for_retest"
Waiting(m) == IF m = "triage" THEN "awaiting_pm" ELSE "awaiting_business_close"
Back(m)    == IF m = "triage" THEN "imported" ELSE "ready_for_retest"

Answer == {"reject", "accept"}
Task   == [run : Run, action : {"start"} \cup Answer]

(* A checkpoint by the node it continues with.  heard: how many rejections *)
(* are in the graph's state (excludeChunkIds, humanComment); a redelivery  *)
(* after a crash may apply one of them again, so it may exceed rejected.   *)
Nowhere == [at |-> "none", heard |-> 0]
Checkpoint == [at : {"none", "work", "propose", "hitl", "end"}, heard : Nat]

(* checked: executeJob has read the status of the run; work, propose: the  *)
(* graph is there; proposed: the write of propose has committed, its       *)
(* checkpoint has not; stray: the invocation was aborted while propose was *)
(* under way; returned: the handler is done, the row of the job is not.    *)
Step == {"none", "claimed", "checked", "work", "propose", "proposed", "stray", "returned"}
Invoking == {"work", "propose", "proposed"}

NoExec == [step |-> "none", heard |-> 0]
NoJob  == [state |-> "absent", run |-> 1, action |-> "start", attempts |-> 0]

TypeOK ==
  /\ status \in Status
  /\ runs \in [Run -> [mode : Mode, status : RunStatus]]
  /\ rejected \in [Run -> 0..MaxRejects]
  /\ shown \in Nat
  /\ jobs \in [Job -> [state : {"absent", "queued", "running"}, run : Run,
                       action : {"start"} \cup Answer, attempts : 0..MaxAttempts]]
  /\ saved \in [Run -> Checkpoint]
  /\ exec \in [Job -> [step : Step, heard : Nat]]
  /\ tail \subseteq Task
  /\ cancel \in [Run -> {"no", "aborted", "unqueued", "cancelled"}]
  /\ faults \in 0..MaxFaults

-----------------------------------------------------------------------------
Created(r) == runs[r].status # "none"
Newest(r)  == Created(r) /\ \A s \in Run : Created(s) => s <= r

SetRun(r, s) == runs' = [runs EXCEPT ![r].status = s]

(* Rows left for the jobs of requests that have not enqueued yet.          *)
Room == Cardinality({j \in Job : jobs[j].state = "absent"}) > Cardinality(tail)

Reply(task) == tail' = tail \cup {task}

Fault == faults < MaxFaults /\ faults' = faults + 1

MyRun(j) == jobs[j].run
SetExec(j, s, h) == exec' = [exec EXCEPT ![j] = [step |-> s, heard |-> h]]
SetSaved(r, at, h) == saved' = [saved EXCEPT ![r] = [at |-> at, heard |-> h]]

(* Is a graph of this run being invoked: the map `running` of the service. *)
Invoked(r) == \E j \in Job : exec[j].step \in Invoking /\ MyRun(j) = r

(* A remark whose earlier runs, if it had any, are over.                   *)
Init ==
  /\ status \in {"imported", "ready_for_retest"}
  /\ runs = [r \in Run |-> [mode |-> "triage", status |-> "none"]]
  /\ rejected = [r \in Run |-> 0]
  /\ shown = 0
  /\ jobs = [j \in Job |-> NoJob]
  /\ saved = [r \in Run |-> Nowhere]
  /\ exec = [j \in Job |-> NoExec]
  /\ tail = {}
  /\ cancel = [r \in Run |-> "no"]
  /\ faults = 0

-----------------------------------------------------------------------------
(* The people.  Each request commits first and enqueues afterwards.        *)

Begin(m, from) ==
  /\ status \in from /\ Room
  /\ \A r \in Run : runs[r] # [mode |-> "retest", status |-> "running"]
  /\ \E r \in Run :
       /\ ~Created(r) /\ \A s \in 1..(r - 1) : Created(s)
       /\ runs' = [runs EXCEPT ![r] = [mode |-> m, status |-> "running"]]
       /\ Reply([run |-> r, action |-> "start"])
  /\ status' = Busy(m)
  /\ UNCHANGED <<rejected, shown, jobs, saved, exec, cancel, faults>>

StartTriage == Begin("triage", Startable)
StartRetest == Begin("retest", {"ready_for_retest"})

RejectBinding(r) ==
  /\ status = "awaiting_pm" /\ Newest(r) /\ Room
  /\ rejected[r] < MaxRejects
  /\ status' = "triaging"
  /\ SetRun(r, "running")
  /\ rejected' = [rejected EXCEPT ![r] = @ + 1]
  /\ Reply([run |-> r, action |-> "reject"])
  /\ UNCHANGED <<shown, jobs, saved, exec, cancel, faults>>

(* A decision on the newest run: of the PM, or of the customer on a retest.*)
Decide(r, from, to) ==
  /\ status = from /\ Newest(r) /\ Room
  /\ status' = to
  /\ SetRun(r, "persisted")
  /\ Reply([run |-> r, action |-> "accept"])
  /\ UNCHANGED <<rejected, shown, jobs, saved, exec, cancel, faults>>

Verdict(r)  == \E code \in {"defect", "cannot_tell"} : Decide(r, "awaiting_pm", code)
Close(r)    == Decide(r, "awaiting_business_close", "closed")
NotFixed(r) == Decide(r, "awaiting_business_close", "defect")

ReadyForRetest ==
  /\ status = "defect"
  /\ status' = "ready_for_retest"
  /\ UNCHANGED <<runs, rejected, shown, jobs, saved, exec, tail, cancel, faults>>

(* The second half of a request.                                           *)
Enqueue(t) ==
  /\ t \in tail
  /\ \E j \in Job :
       /\ jobs[j].state = "absent" /\ \A i \in 1..(j - 1) : jobs[i].state # "absent"
       /\ jobs' = [jobs EXCEPT ![j] = [state |-> "queued", run |-> t.run,
                                       action |-> t.action, attempts |-> 0]]
  /\ tail' = tail \ {t}
  /\ UNCHANGED <<status, runs, rejected, shown, saved, exec, cancel, faults>>

EnqueueFails(t) ==
  /\ t \in tail
  /\ Fault
  /\ tail' = tail \ {t}
  /\ UNCHANGED <<status, runs, rejected, shown, jobs, saved, exec, cancel>>

-----------------------------------------------------------------------------
(* run.cancel, step by step: abort, take jobs out of the queue, wait (for  *)
(* at most five seconds, so no guard), write, delete the checkpoints.      *)

(* An aborted invocation ends at once.  A write of its node may still      *)
(* commit later; its last checkpoint is written or not.                    *)
AbortedExec(j, r) ==
  IF MyRun(j) # r \/ exec[j].step \notin Invoking THEN exec[j]
  ELSE IF exec[j].step = "propose" THEN [exec[j] EXCEPT !.step = "stray"]
  ELSE [exec[j] EXCEPT !.step = "returned"]

AbortRun(r) ==
  /\ cancel[r] = "no" /\ Newest(r) /\ runs[r].status \in Active
  /\ cancel' = [cancel EXCEPT ![r] = "aborted"]
  /\ exec' = [j \in Job |-> AbortedExec(j, r)]
  /\ \/ UNCHANGED saved
     \/ \E j \in Job : /\ MyRun(j) = r /\ exec[j].step = "proposed"
                       /\ SetSaved(r, "hitl", exec[j].heard)
  /\ UNCHANGED <<status, runs, rejected, shown, jobs, tail, faults>>

CancelByRun(r) ==
  /\ cancel[r] = "aborted"
  /\ cancel' = [cancel EXCEPT ![r] = "unqueued"]
  /\ jobs' = [j \in Job |-> IF MyRun(j) = r /\ jobs[j].state = "queued"
                            THEN NoJob ELSE jobs[j]]
  /\ UNCHANGED <<status, runs, rejected, shown, saved, exec, tail, faults>>

CancelRun(r) ==
  LET m     == runs[r].mode
      stops == runs[r].status \in Active
  IN
  /\ cancel[r] = "unqueued"
  /\ IF stops THEN SetRun(r, "cancelled") ELSE UNCHANGED runs
  /\ status' = IF stops /\ Newest(r) /\ status \in {Busy(m), Waiting(m)}
               THEN Back(m) ELSE status
  /\ cancel' = [cancel EXCEPT ![r] = IF stops THEN "cancelled" ELSE "no"]
  /\ UNCHANGED <<rejected, shown, jobs, saved, exec, tail, faults>>

DeleteThread(r) ==
  /\ cancel[r] = "cancelled"
  /\ cancel' = [cancel EXCEPT ![r] = "no"]
  /\ saved' = [saved EXCEPT ![r] = Nowhere]
  /\ UNCHANGED <<status, runs, rejected, shown, jobs, exec, tail, faults>>

-----------------------------------------------------------------------------
(* The worker.                                                             *)

(* Mutant: attempts are counted for ever.                                  *)
CountedOn(n) == n + 1

(* Attempts beyond the last one (a crash gives none back) are not told     *)
(* apart.                                                                  *)
Counted(n) == IF n < MaxAttempts THEN n + 1 ELSE n

Claim(j) ==
  /\ jobs[j].state = "queued" /\ exec[j] = NoExec
  /\ jobs' = [jobs EXCEPT ![j].state = "running", ![j].attempts = Counted(@)]
  /\ SetExec(j, "claimed", 0)
  /\ UNCHANGED <<status, runs, rejected, shown, saved, tail, cancel, faults>>

(* What executeJob answers to the status of the run.                       *)
Wanted(j) ==
  /\ runs[MyRun(j)].status \notin {"none", "cancelled", "failed"}
  /\ jobs[j].action = "start" => runs[MyRun(j)].status = "running"

ExecuteJob(j) ==
  /\ exec[j].step = "claimed"
  /\ SetExec(j, IF Wanted(j) THEN "checked" ELSE "returned", 0)
  /\ UNCHANGED <<status, runs, rejected, shown, jobs, saved, tail, cancel, faults>>

(* A start begins on a clean thread: a retry deletes what its predecessor  *)
(* has left.                                                               *)
StartGraph(j) ==
  /\ exec[j].step = "checked" /\ jobs[j].action = "start"
  /\ SetSaved(MyRun(j), "work", 0)
  /\ SetExec(j, "work", 0)
  /\ UNCHANGED <<status, runs, rejected, shown, jobs, tail, cancel, faults>>

(* Mutant: a resumption does not wait for the invocation before it.        *)
SettledAtOnce(r) == TRUE

Settled(r) == ~Invoked(r)

(* Where a resumption takes the graph up, by the checkpoint it finds.      *)
(* Without one, a rejection starts over with everything cited so far       *)
(* excluded (`fallback`); every other answer has nothing left to do.       *)
Resumed(j) ==
  LET r == MyRun(j)
      c == saved[r]
  IN
  IF c.at \in {"work", "propose"} THEN c
  ELSE IF jobs[j].action = "reject"
       THEN [at |-> "work", heard |-> IF c.at = "hitl" THEN c.heard + 1 ELSE rejected[r]]
       ELSE [at |-> "end", heard |-> c.heard]

ResumeGraph(j) ==
  LET r == MyRun(j)
      c == Resumed(j)
  IN
  /\ exec[j].step = "checked" /\ jobs[j].action \in Answer
  /\ Settled(r)
  /\ SetExec(j, IF c.at = "end" THEN "returned" ELSE c.at, c.heard)
  /\ IF saved[r].at = "none" /\ c.at = "end" THEN UNCHANGED saved
                                              ELSE saved' = [saved EXCEPT ![r] = c]
  /\ UNCHANGED <<status, runs, rejected, shown, jobs, tail, cancel, faults>>

(* The nodes before propose: search, vision, classify, draft, the gate.    *)
Work(j) ==
  /\ exec[j].step = "work"
  /\ SetExec(j, "propose", exec[j].heard)
  /\ SetSaved(MyRun(j), "propose", exec[j].heard)
  /\ UNCHANGED <<status, runs, rejected, shown, jobs, tail, cancel, faults>>

(* applyProposal and applyRetest accept the result.                        *)
Accepts(r) == status = Busy(runs[r].mode) /\ runs[r].status = "running"

ApplyResult(j, next) ==
  /\ Accepts(MyRun(j))
  /\ status' = Waiting(runs[MyRun(j)].mode)
  /\ SetRun(MyRun(j), "awaiting_human")
  /\ shown' = exec[j].heard
  /\ SetExec(j, next, exec[j].heard)
  /\ UNCHANGED <<rejected, jobs, saved, tail, cancel, faults>>

Propose(j) == exec[j].step = "propose" /\ ApplyResult(j, "proposed")

(* The node of an aborted invocation goes on, and commits or does not.     *)
StrayPropose(j) == exec[j].step = "stray" /\ ApplyResult(j, "returned")

StrayEnds(j) ==
  /\ exec[j].step = "stray"
  /\ SetExec(j, "returned", 0)
  /\ UNCHANGED <<status, runs, rejected, shown, jobs, saved, tail, cancel, faults>>

(* The checkpoint of propose, and the pause.                               *)
Pause(j) ==
  /\ exec[j].step = "proposed"
  /\ SetSaved(MyRun(j), "hitl", exec[j].heard)
  /\ SetExec(j, "returned", 0)
  /\ UNCHANGED <<status, runs, rejected, shown, jobs, tail, cancel, faults>>

(* Mutant: a failing triage leaves the remark as it is.                    *)
FailRunOnly(r) == /\ UNCHANGED status
                  /\ IF runs[r].status = "running" THEN SetRun(r, "failed") ELSE UNCHANGED runs

(* failRun: only a running run fails.                                      *)
FailRun(r) ==
  IF runs[r].status # "running" THEN UNCHANGED <<status, runs>>
  ELSE /\ SetRun(r, "failed")
       /\ status' = IF runs[r].mode = "triage" /\ status = "triaging"
                    THEN "imported" ELSE status

(* A failure the model or the files caused, or the 409 of a result nobody  *)
(* waits for.  The write of failRun may itself fail and is then dropped.   *)
Fails(j) ==
  /\ \/ exec[j].step = "work"
     \/ exec[j].step = "propose" /\ ~Accepts(MyRun(j))
  /\ \/ FailRun(MyRun(j)) /\ UNCHANGED faults
     \/ Fault /\ UNCHANGED <<status, runs>>
  /\ SetExec(j, "returned", 0)
  /\ UNCHANGED <<rejected, shown, jobs, saved, tail, cancel>>

(* A temporary failure while attempts are left: the run stays running.     *)
Retry(j) ==
  /\ exec[j].step = "work" /\ jobs[j].attempts < MaxAttempts
  /\ jobs' = [jobs EXCEPT ![j].state = "queued"]
  /\ exec' = [exec EXCEPT ![j] = NoExec]
  /\ UNCHANGED <<status, runs, rejected, shown, saved, tail, cancel, faults>>

(* executeJob itself throws (its own reads and deletes fail).              *)
HandlerThrows(j) ==
  /\ exec[j].step \in {"claimed", "checked"}
  /\ Fault
  /\ SetExec(j, "returned", 0)
  /\ UNCHANGED <<status, runs, rejected, shown, jobs, saved, tail, cancel>>

FinishJob(j) ==
  /\ exec[j].step = "returned"
  /\ jobs' = [jobs EXCEPT ![j] = NoJob]
  /\ exec' = [exec EXCEPT ![j] = NoExec]
  /\ UNCHANGED <<status, runs, rejected, shown, saved, tail, cancel, faults>>

-----------------------------------------------------------------------------
(* The process dies with everything in its memory, and is started again.   *)
Crash ==
  /\ Fault
  /\ exec' = [j \in Job |-> NoExec]
  /\ tail' = {}
  /\ cancel' = [r \in Run |-> "no"]
  /\ UNCHANGED <<status, runs, rejected, shown, jobs, saved>>

(* requeueStale: a running job nobody works on goes back to the queue.     *)
Requeue(j) ==
  /\ jobs[j].state = "running" /\ exec[j] = NoExec
  /\ jobs' = [jobs EXCEPT ![j].state = "queued"]
  /\ UNCHANGED <<status, runs, rejected, shown, saved, exec, tail, cancel, faults>>

(* Mutant: the sweep looks for remarks in `triaging` only.                 *)
OrphanTriage(r) ==
  /\ status = "triaging" /\ runs[r].status = "running"
  /\ \A t \in tail : t.run # r
  /\ \A j \in Job : MyRun(j) = r => jobs[j].state \notin {"queued", "running"}

(* failStaleRuns: running for ten minutes, no job, nothing written lately  *)
(* (so no request is between its commit and its enqueue).                  *)
Orphan(r) ==
  /\ runs[r].status = "running"
  /\ \A t \in tail : t.run # r
  /\ \A j \in Job : MyRun(j) = r => jobs[j].state \notin {"queued", "running"}

FailStaleRun(r) ==
  /\ Orphan(r)
  /\ FailRun(r)
  /\ UNCHANGED <<rejected, shown, jobs, saved, exec, tail, cancel, faults>>

(* pruneCheckpoints: by the age of the run, whatever still waits for it.   *)
PruneCheckpoints(r) ==
  /\ runs[r].status \in Ended /\ saved[r] # Nowhere
  /\ saved' = [saved EXCEPT ![r] = Nowhere]
  /\ UNCHANGED <<status, runs, rejected, shown, jobs, exec, tail, cancel, faults>>

-----------------------------------------------------------------------------
People ==
  \/ StartTriage \/ StartRetest \/ ReadyForRetest
  \/ \E r \in Run : \/ RejectBinding(r) \/ Verdict(r) \/ Close(r) \/ NotFixed(r)
                    \/ AbortRun(r) \/ CancelByRun(r) \/ CancelRun(r) \/ DeleteThread(r)

Graph(j) ==
  \/ StartGraph(j) \/ ResumeGraph(j) \/ Work(j) \/ Propose(j) \/ Pause(j)
  \/ Retry(j) \/ Fails(j)

Worker(j) == Claim(j) \/ ExecuteJob(j) \/ Graph(j) \/ StrayPropose(j) \/ StrayEnds(j)
             \/ FinishJob(j)

Next ==
  \/ People \/ Crash
  \/ \E t \in tail : Enqueue(t) \/ EnqueueFails(t)
  \/ \E j \in Job : Worker(j) \/ HandlerThrows(j) \/ Requeue(j)
  \/ \E r \in Run : FailStaleRun(r) \/ PruneCheckpoints(r)

(* A request that has committed goes on to enqueue, the worker takes and   *)
(* finishes jobs (a run has a deadline), the sweeps run on their timers.   *)
(* Nobody makes a person decide, cancel or start anything.                 *)
Fairness ==
  /\ \A t \in Task : WF_vars(Enqueue(t))
  /\ \A j \in Job : WF_vars(Worker(j)) /\ WF_vars(Requeue(j))
  /\ \A r \in Run : WF_vars(FailStaleRun(r))

Spec == Init /\ [][Next]_vars /\ Fairness

-----------------------------------------------------------------------------
(* A remark shows `triaging` exactly as long as its newest run is a triage *)
(* at work: no failure, cancellation, sweep or crash strands it there.     *)
TriagingIsWorkedOn ==
  status = "triaging" <=>
    \E r \in Run : Newest(r) /\ runs[r] = [mode |-> "triage", status |-> "running"]

(* The proposal the PM sees has heard every `not that citation` given to   *)
(* its run: the resumption found the pause, not the graph on its way       *)
(* there.  Excepted are a process that has died, a call that has failed,   *)
(* and a run whose cancellation has aborted its graph and not yet written: *)
(* propose may commit in between and leave no pause behind.                *)
RejectionIsHeard ==
  status = "awaiting_pm" /\ faults = 0 =>
    \A r \in Run : Newest(r) /\ cancel[r] = "no" => shown = rejected[r]

StateOf(r) ==
  CASE runs[r].status = "none"           -> "absent"
    [] runs[r].status = "running"        -> "working"
    [] runs[r].status = "awaiting_human" -> "waiting"
    [] OTHER                             -> "over"

P == INSTANCE RunPromise WITH state <- [r \in Run |-> StateOf(r)]

(* Every run that is begun ends or waits for a person, whatever crashes in *)
(* between, and what has ended is not revived.                             *)
KeepsRunPromise == P!Spec
=============================================================================
