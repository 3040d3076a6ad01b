------------------------------ MODULE JobQueue ------------------------------
(***************************************************************************)
(* The background queue: table Job in Postgres and one worker in every API *)
(* process (src/apps/api/src/jobs/jobs.service.ts).                        *)
(*                                                                         *)
(* The row of a job and what a process holds in memory about it are        *)
(* separate pieces of state, and a process may die between any two steps.  *)
(* Two processes overlap during a deployment: the new container starts     *)
(* before the old one is stopped.                                          *)
(*                                                                         *)
(* Time is reduced to one bit per row, `fresh`: lockedAt is younger than   *)
(* STALE_LOCK_MS.  A live process renews it every HEARTBEAT_MS, and a      *)
(* stopping one is gone before it expires (25 s of waiting after the last  *)
(* beat, against 60 s), so a row held by a live process stays fresh.  An   *)
(* installation of one process (Solo) does not need that assumption: beats *)
(* may be late and last writes slow there.                                 *)
(* Back-off before a retry only delays the next claim and is left out.     *)
(***************************************************************************)
EXTENDS Integers, FiniteSets

CONSTANTS
  Proc,         \* API processes
  NJobs,        \* bound on the rows; they are numbered in order of createdAt
  Kind,         \* kinds of jobs with a handler
  Project,      \* projects
  Workload,     \* what may be asked of the queue: kind and project of every job
  KindLimit,    \* [Kind -> Nat], 0 for no limit: maxConcurrent
  PairLimit,    \* [Kind -> Nat], 0 for no limit: maxPerProject
  Concurrency,  \* slots of a worker
  MaxAttempts,  \* Job.maxAttempts
  MaxFaults     \* bound on crashes, deployments and lost writes together

Job  == 1..NJobs
Work == [kind : Kind, project : Project \cup {"none"}]

ASSUME QueueAssumption ==
  /\ NJobs \in Nat /\ Concurrency \in Nat \ {0} /\ MaxAttempts \in Nat \ {0}
  /\ MaxFaults \in Nat /\ "none" \notin Project
  /\ Workload \subseteq [Job -> Work]
  /\ KindLimit \in [Kind -> Nat] /\ PairLimit \in [Kind -> Nat]

VARIABLES
  rows,       \* the table Job
  proc,       \* up, draining (SIGTERM received), down, or absent for ever
  hand,       \* what a process is doing with a job
  completed,  \* jobs whose handler has returned with its work done
  faults      \* crashes, deployments and lost writes so far

vars == <<rows, proc, hand, completed, faults>>

Finished == {"done", "failed", "cancelled"}

(* What a process has in hand of a job.  claimed: the claim has committed  *)
(* and its answer is on its way; working: the handler runs; aborted: it    *)
(* runs on, its signal is aborted; done, failed, retry: the handler has    *)
(* returned and the last write of the row is on its way.                   *)
LastWrite == {"done", "failed", "retry"}
Hand == {"none", "claimed", "working", "aborted"} \cup LastWrite

TypeOK ==
  /\ rows \in [Job -> [work : Work, status : Finished \cup {"absent", "queued", "running"},
                       attempts : Nat, fresh : BOOLEAN]]
  /\ proc \in [Proc -> {"up", "draining", "down", "absent"}]
  /\ hand \in [Proc -> [Job -> Hand]]
  /\ completed \subseteq Job
  /\ faults \in 0..MaxFaults

-----------------------------------------------------------------------------
(* The map `active` of a process.                                          *)
Active(p) == {j \in Job : hand[p][j] \notin {"none", "claimed"}}
OfKind(p, k)    == {j \in Active(p) : rows[j].work.kind = k}
OfPair(p, k, x) == {j \in OfKind(p, k) : rows[j].work.project = x}

Full(limit, n) == limit # 0 /\ n >= limit

(* Mutant: one job more than the limit.                                    *)
FullOneLate(limit, n) == limit # 0 /\ n > limit

Reached(limit, n) == Full(limit, n)

(* The kinds and the pairs (kind, project) a claim of p leaves out.        *)
Saturated(p, j) ==
  LET k == rows[j].work.kind
      x == rows[j].work.project
  IN
  \/ Reached(KindLimit[k], Cardinality(OfKind(p, k)))
  \/ x # "none" /\ Reached(PairLimit[k], Cardinality(OfPair(p, k, x)))

Claimable(p) == {j \in Job : rows[j].status = "queued" /\ ~Saturated(p, j)}

Oldest(S) == CHOOSE j \in S : \A i \in S : j <= i

Queue(j) == [rows[j] EXCEPT !.status = "queued", !.fresh = FALSE]

SetHand(p, j, h) == hand' = [hand EXCEPT ![p][j] = h]
SetRow(j, r)     == rows' = [rows EXCEPT ![j] = r]

Fault == faults < MaxFaults /\ faults' = faults + 1

(* Nobody but this one process ever works on the queue.                    *)
Solo == \E p \in Proc : \A q \in Proc \ {p} : proc[q] = "absent"

-----------------------------------------------------------------------------
Init ==
  /\ \E w \in Workload : rows = [j \in Job |-> [work |-> w[j], status |-> "absent",
                                                attempts |-> 0, fresh |-> FALSE]]
  /\ \/ proc = [p \in Proc |-> "up"]
     \/ LET p == CHOOSE p \in Proc : TRUE IN
          proc = [q \in Proc |-> IF q = p THEN "up" ELSE "absent"]
  /\ hand = [p \in Proc |-> [j \in Job |-> "none"]]
  /\ completed = {}
  /\ faults = 0

(* By a request, or by a handler, which may still run while its process    *)
(* stops.                                                                  *)
Enqueue(j) ==
  /\ \E p \in Proc : proc[p] \in {"up", "draining"}
  /\ rows[j].status = "absent"
  /\ \A i \in 1..(j - 1) : rows[i].status # "absent"
  /\ SetRow(j, [rows[j] EXCEPT !.status = "queued"])
  /\ UNCHANGED <<proc, hand, completed, faults>>

(* cancelByRun: only a job nobody has started.  A stopping process has     *)
(* closed its HTTP server before it stops the queue.                       *)
Cancel(j) ==
  /\ \E p \in Proc : proc[p] = "up"
  /\ rows[j].status = "queued"
  /\ SetRow(j, [rows[j] EXCEPT !.status = "cancelled"])
  /\ UNCHANGED <<proc, hand, completed, faults>>

(* poll and claim.  A poll waits for each claim before it starts another.  *)
Claim(p) ==
  LET j == Oldest(Claimable(p)) IN
  /\ proc[p] = "up"
  /\ \A i \in Job : hand[p][i] # "claimed"
  /\ Cardinality(Active(p)) < Concurrency
  /\ Claimable(p) # {}
  /\ SetRow(j, [rows[j] EXCEPT !.status = "running", !.attempts = @ + 1, !.fresh = TRUE])
  /\ SetHand(p, j, "claimed")
  /\ UNCHANGED <<proc, completed, faults>>

(* execute starts the handler even if the process has begun to stop while  *)
(* the claim was under way.                                                *)
Execute(p, j) ==
  /\ hand[p][j] = "claimed"
  /\ SetHand(p, j, "working")
  /\ UNCHANGED <<rows, proc, completed, faults>>

HandlerDone(p, j) ==
  /\ hand[p][j] = "working"
  /\ SetHand(p, j, "done")
  /\ completed' = completed \cup {j}
  /\ UNCHANGED <<rows, proc, faults>>

(* RetryJobError is retried while attempts are left.                       *)
AfterError(j, temporary) ==
  IF temporary /\ rows[j].attempts < MaxAttempts THEN "retry" ELSE "failed"

HandlerThrows(p, j) ==
  /\ hand[p][j] = "working"
  /\ \E temporary \in BOOLEAN : SetHand(p, j, AfterError(j, temporary))
  /\ UNCHANGED <<rows, proc, completed, faults>>

(* Mutant: the end of an aborted handler is taken for success.             *)
AfterAbortDone == "done"

(* An aborted handler ends, and leaves the row to whoever aborted it.      *)
AfterAbort == "none"

HandlerStops(p, j) ==
  /\ hand[p][j] = "aborted"
  /\ SetHand(p, j, AfterAbort)
  /\ UNCHANGED <<rows, proc, completed, faults>>

(* Mutant: the outcome of the handler is stored as it is.                  *)
OutcomeVerbatim(p, j) == [rows[j] EXCEPT !.status = hand[p][j], !.fresh = FALSE]

Outcome(p, j) ==
  IF hand[p][j] = "retry" THEN Queue(j)
  ELSE [rows[j] EXCEPT !.status = hand[p][j], !.fresh = FALSE]

(* The last write goes by the id alone: whatever the row holds by then.    *)
Finish(p, j) ==
  /\ hand[p][j] \in LastWrite
  /\ SetRow(j, Outcome(p, j))
  /\ SetHand(p, j, "none")
  /\ UNCHANGED <<proc, completed, faults>>

(* The write is refused: for `done` the error is handled like one of the   *)
(* handler, the others are swallowed.                                      *)
LoseWrite(p, j) ==
  /\ hand[p][j] \in LastWrite
  /\ Fault
  /\ SetHand(p, j, IF hand[p][j] = "done" THEN "failed" ELSE "none")
  /\ UNCHANGED <<rows, proc, completed>>

(* The answer to a claim that has committed never arrives: poll fails.     *)
LoseClaim(p, j) ==
  /\ hand[p][j] = "claimed"
  /\ Fault
  /\ SetHand(p, j, "none")
  /\ UNCHANGED <<rows, proc, completed>>

-----------------------------------------------------------------------------
(* The lock of a row expires.                                              *)
Age(j) ==
  /\ rows[j].status = "running" /\ rows[j].fresh
  /\ \A p \in Proc : \/ hand[p][j] = "none"
                     \/ Solo /\ hand[p][j] # "claimed"
  /\ SetRow(j, [rows[j] EXCEPT !.fresh = FALSE])
  /\ UNCHANGED <<proc, hand, completed, faults>>

Beating(p) == {j \in Active(p) : rows[j].status = "running" /\ ~rows[j].fresh}

Beat(p) ==
  /\ proc[p] = "up"
  /\ Beating(p) # {}
  /\ rows' = [j \in Job |-> [rows[j] EXCEPT !.fresh = @ \/ j \in Beating(p)]]
  /\ UNCHANGED <<proc, hand, completed, faults>>

Stale(j) == rows[j].status = "running" /\ ~rows[j].fresh

(* Mutants: the sweep forgets what the process itself has in hand, or      *)
(* leaves a job alone whose attempts are used up.                          *)
OrphansOwnToo(p) == {j \in Job : Stale(j)}
OrphansCapped(p) == {j \in Job \ Active(p) : Stale(j) /\ rows[j].attempts < MaxAttempts}

Orphans(p) == {j \in Job \ Active(p) : Stale(j)}

(* requeueStale, on start and every minute: attempts are not looked at.    *)
Sweep(p) ==
  /\ proc[p] = "up"
  /\ Orphans(p) # {}
  /\ rows' = [j \in Job |-> IF j \in Orphans(p) THEN Queue(j) ELSE rows[j]]
  /\ UNCHANGED <<proc, hand, completed, faults>>

-----------------------------------------------------------------------------
(* SIGTERM: no more claims, beats or sweeps; what runs may finish.         *)
Drain(p) ==
  /\ proc[p] = "up"
  /\ Fault
  /\ proc' = [proc EXCEPT ![p] = "draining"]
  /\ UNCHANGED <<rows, hand, completed>>

Return(j) == IF rows[j].status = "running" THEN Queue(j) ELSE rows[j]

(* After 25 s: abort the job, then put its row back; this write may fail.  *)
GiveUp(p, j) ==
  /\ proc[p] = "draining"
  /\ \/ /\ hand[p][j] = "working"
        /\ SetHand(p, j, "aborted")
     \/ /\ hand[p][j] \in LastWrite /\ Solo
        /\ rows[j].status = "running"
        /\ UNCHANGED hand
  /\ \/ SetRow(j, Return(j)) /\ UNCHANGED faults
     \/ Fault /\ UNCHANGED rows
  /\ UNCHANGED <<proc, completed>>

Die(p) ==
  /\ proc' = [proc EXCEPT ![p] = "down"]
  /\ hand' = [hand EXCEPT ![p] = [j \in Job |-> "none"]]
  /\ UNCHANGED <<rows, completed>>

Exit(p) ==
  /\ proc[p] = "draining"
  /\ \A j \in Job : \/ hand[p][j] \in {"none", "claimed", "aborted"}
                    \/ Solo /\ hand[p][j] \in LastWrite
  /\ Die(p)
  /\ UNCHANGED faults

Crash(p) ==
  /\ proc[p] \in {"up", "draining"}
  /\ Fault
  /\ Die(p)

Start(p) ==
  /\ proc[p] = "down"
  /\ proc' = [proc EXCEPT ![p] = "up"]
  /\ UNCHANGED <<rows, hand, completed, faults>>

-----------------------------------------------------------------------------
Handle(p, j) ==
  \/ Execute(p, j) \/ HandlerDone(p, j) \/ HandlerThrows(p, j)
  \/ HandlerStops(p, j) \/ Finish(p, j)

Next ==
  \/ \E j \in Job : Enqueue(j) \/ Cancel(j) \/ Age(j)
  \/ \E p \in Proc :
       \/ Claim(p) \/ Beat(p) \/ Sweep(p)
       \/ Drain(p) \/ Exit(p) \/ Crash(p) \/ Start(p)
       \/ \E j \in Job : Handle(p, j) \/ LoseClaim(p, j) \/ LoseWrite(p, j) \/ GiveUp(p, j)

(* The timers fire again and again, a handler returns in the end (its      *)
(* calls to the model have deadlines), a stopping process stops and the    *)
(* container is started again.                                             *)
Fairness ==
  /\ \A j \in Job : WF_vars(Age(j))
  /\ \A p \in Proc :
       /\ WF_vars(Claim(p)) /\ WF_vars(Sweep(p))
       /\ WF_vars(Exit(p)) /\ WF_vars(Start(p))
       /\ \A j \in Job : WF_vars(Handle(p, j))

Spec == Init /\ [][Next]_vars /\ Fairness

-----------------------------------------------------------------------------
(* A job is never claimed while some process runs its handler or is about  *)
(* to write its outcome: only an aborted handler has lost its job.  The    *)
(* claim locks the row, live rows are never swept, and a stopping process  *)
(* gives a row back only when it aborts the handler.                       *)
Busy(j) == \E p \in Proc : hand[p][j] \notin {"none", "aborted"}

NeverTakenTwice ==
  [][\A j \in Job : rows'[j].attempts # rows[j].attempts => ~Busy(j)]_vars

(* No process runs more jobs of a kind, of a kind in one project, or in    *)
(* all than it was told to, whatever comes back to the queue meanwhile;    *)
(* and only a crash, a stop or a lost write gives a job an attempt beyond  *)
(* maxAttempts, each of them at most one.                                  *)
LimitsHeld ==
  /\ \A j \in Job : rows[j].attempts <= MaxAttempts + faults
  /\ \A p \in Proc :
       /\ Cardinality(Active(p)) <= Concurrency
       /\ \A k \in Kind :
            /\ KindLimit[k] # 0 => Cardinality(OfKind(p, k)) <= KindLimit[k]
            /\ PairLimit[k] # 0 =>
                 \A x \in Project : Cardinality(OfPair(p, k, x)) <= PairLimit[k]

(* A row says `done` only if a handler has really finished the work: an    *)
(* aborted or lost run never counts as success.                            *)
DoneIsComplete == \A j \in Job : rows[j].status = "done" => j \in completed

(* The queue keeps its promise: an accepted job is settled once and for    *)
(* all, and it is settled in the end.                                      *)
Owed(j) ==
  IF rows[j].status = "absent" THEN "absent"
  ELSE IF rows[j].status \in Finished THEN "settled" ELSE "owed"

P == INSTANCE JobPromise WITH state <- [j \in Job |-> Owed(j)]

KeepsThePromise == P!Spec
=============================================================================
