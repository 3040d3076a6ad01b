---------------------------- MODULE JobQueueProofs ----------------------------
(***************************************************************************)
(* Theorems about JobQueue, for any number of processes and jobs, any      *)
(* workload, any limits and any number of faults.                          *)
(*                                                                         *)
(* The row of a job and what a process holds of it are separate, so the    *)
(* invariant ties them together: who holds a job holds it alone, under a   *)
(* row that is running and whose lock is fresh - or, in an installation of *)
(* one process, under one that nobody else can sweep or claim.  Attempts   *)
(* are paid for: a row that is free to be taken has one left, or a fault   *)
(* has given it one.                                                       *)
(***************************************************************************)
EXTENDS JobQueue, SetLemmas

Row == [work : Work, status : Finished \cup {"absent", "queued", "running"},
        attempts : Nat, fresh : BOOLEAN]

(* A process that may still write the row of the job.                      *)
Holds(p, j) == hand[p][j] \notin {"none", "aborted"}

(* A stopping process alone in its installation has given the job back     *)
(* while its last write was under way.                                     *)
GivenBack(p, j) ==
  /\ Solo /\ proc[p] = "draining"
  /\ rows[j].status = "queued" /\ hand[p][j] \in LastWrite

HandsFitRows ==
  \A p \in Proc, j \in Job :
    /\ proc[p] \in {"down", "absent"} => hand[p][j] = "none"
    /\ Holds(p, j) =>
         /\ rows[j].status = "running" \/ GivenBack(p, j)
         /\ rows[j].fresh \/ (Solo /\ hand[p][j] # "claimed")
    /\ hand[p][j] = "done" => j \in completed
    /\ hand[p][j] = "retry" => rows[j].attempts < MaxAttempts

HeldOnce == \A j \in Job : \A p, q \in Proc : Holds(p, j) /\ Holds(q, j) => p = q

OwnershipInv == TypeOK /\ HandsFitRows /\ HeldOnce /\ DoneIsComplete

-----------------------------------------------------------------------------
LEMMA HandMoves ==
  ASSUME TypeOK, NEW p \in Proc, NEW j \in Job, NEW h \in Hand, SetHand(p, j, h)
  PROVE  /\ hand' \in [Proc -> [Job -> Hand]] /\ hand'[p][j] = h
         /\ \A q \in Proc, i \in Job : q # p \/ i # j => hand'[q][i] = hand[q][i]
BY DEF TypeOK, SetHand

LEMMA RowMoves ==
  ASSUME TypeOK, NEW j \in Job, NEW r \in Row, SetRow(j, r)
  PROVE  /\ rows' \in [Job -> Row] /\ rows'[j] = r
         /\ \A i \in Job : i # j => rows'[i] = rows[i]
BY DEF TypeOK, SetRow, Row

LEMMA RowFields ==
  ASSUME TypeOK, NEW j \in Job
  PROVE  /\ rows[j] \in Row /\ rows[j].attempts \in Nat /\ rows[j].fresh \in BOOLEAN
         /\ rows[j].status \in Finished \cup {"absent", "queued", "running"}
BY DEF TypeOK, Row

(* Whether an installation has one process never changes.                  *)
LEMMA SoloStays ==
  ASSUME TypeOK, [Next]_vars
  PROVE  /\ proc' \in [Proc -> {"up", "draining", "down", "absent"}]
         /\ \A p \in Proc : proc'[p] = "absent" <=> proc[p] = "absent"
         /\ Solo' = Solo
<1>1. /\ proc' \in [Proc -> {"up", "draining", "down", "absent"}]
      /\ \A p \in Proc : proc'[p] = "absent" <=> proc[p] = "absent"
  BY DEF TypeOK, Next, vars, Enqueue, Cancel, Age, Claim, Beat, Sweep, Drain, Exit, Crash, Start,
     Die, Handle, Execute, HandlerDone, HandlerThrows, HandlerStops, Finish, LoseClaim, LoseWrite,
     GiveUp
<1> QED  BY <1>1 DEF Solo

(* In such an installation nobody else holds anything.                     *)
LEMMA SoloIsAlone ==
  ASSUME OwnershipInv, Solo, NEW p \in Proc, proc[p] # "absent", NEW q \in Proc, q # p, NEW j \in Job
  PROVE  proc[q] = "absent" /\ hand[q][j] = "none"
BY DEF Solo, OwnershipInv, HandsFitRows

LEMMA OldestIsOne ==
  ASSUME NEW S \in SUBSET Job, S # {}
  PROVE  Oldest(S) \in S
<1>1. S \in SUBSET Nat
  BY QueueAssumption DEF Job
<1> QED  BY <1>1, LeastNatural DEF Oldest

LEMMA ClaimTakes ==
  ASSUME OwnershipInv, NEW p \in Proc, Claim(p)
  PROVE  \E j \in Job :
           /\ proc[p] = "up" /\ rows[j].status = "queued" /\ ~Saturated(p, j)
           /\ \A q \in Proc : ~Holds(q, j)
           /\ SetRow(j, [rows[j] EXCEPT !.status = "running", !.attempts = @ + 1, !.fresh = TRUE])
           /\ SetHand(p, j, "claimed")
<1>1. PICK j \in Job : j = Oldest(Claimable(p)) /\ j \in Claimable(p)
  BY OldestIsOne DEF Claim, Claimable
<1>2. rows[j].status = "queued" /\ ~Saturated(p, j) /\ proc[p] = "up"
  BY <1>1 DEF Claimable, Claim
<1>3. ASSUME NEW q \in Proc, Holds(q, j)  PROVE FALSE
  <2>1. GivenBack(q, j)
    BY <1>2, <1>3 DEF OwnershipInv, HandsFitRows
  <2>2. q # p
    BY <1>2, <2>1 DEF GivenBack
  <2> QED  BY <1>2, <2>1, <2>2, SoloIsAlone DEF GivenBack
<1> QED  BY <1>1, <1>2, <1>3 DEF Claim

-----------------------------------------------------------------------------
(* A step of the handler of one job, or the loss of its answer.            *)
LEMMA HandStepKeepsOwner ==
  ASSUME OwnershipInv, [Next]_vars, NEW p \in Proc, NEW j \in Job, NEW h \in Hand, SetHand(p, j, h),
         UNCHANGED <<rows, proc>>, hand[p][j] # "none", completed \subseteq completed',
         completed' \subseteq Job, faults' \in 0..MaxFaults,
         h \notin {"none", "aborted"} => Holds(p, j) /\ h # "claimed",
         GivenBack(p, j) => h \in LastWrite \cup {"none"},
         h = "done" => j \in completed',
         h = "retry" => rows[j].attempts < MaxAttempts
  PROVE  OwnershipInv'
<1>1. /\ hand' \in [Proc -> [Job -> Hand]] /\ hand'[p][j] = h
      /\ \A q \in Proc, i \in Job : q # p \/ i # j => hand'[q][i] = hand[q][i]
  BY HandMoves DEF OwnershipInv
<1>2. TypeOK'
  BY <1>1 DEF OwnershipInv, TypeOK
<1>3. Solo' = Solo
  BY SoloStays DEF OwnershipInv
<1>4. HandsFitRows'
  <2> SUFFICES ASSUME NEW q \in Proc, NEW i \in Job
               PROVE  /\ proc[q] \in {"down", "absent"} => hand'[q][i] = "none"
                      /\ Holds(q, i)' =>
                           /\ rows[i].status = "running" \/ GivenBack(q, i)'
                           /\ rows[i].fresh \/ (Solo /\ hand'[q][i] # "claimed")
                      /\ hand'[q][i] = "done" => i \in completed'
                      /\ hand'[q][i] = "retry" => rows[i].attempts < MaxAttempts
    BY <1>3 DEF HandsFitRows
  <2>1. CASE q # p \/ i # j
    BY <1>1, <1>3, <2>1 DEF OwnershipInv, HandsFitRows, Holds, GivenBack
  <2>2. CASE q = p /\ i = j
    <3>1. proc[p] \notin {"down", "absent"}
      BY DEF OwnershipInv, HandsFitRows
    <3>2. h \notin {"none", "aborted"} =>
            /\ rows[j].status = "running" \/ GivenBack(p, j)
            /\ rows[j].fresh \/ Solo
      BY DEF OwnershipInv, HandsFitRows
    <3> QED  BY <1>1, <1>3, <2>2, <3>1, <3>2 DEF Holds, GivenBack, LastWrite
  <2> QED  BY <2>1, <2>2
<1>5. HeldOnce'
  BY <1>1 DEF OwnershipInv, HeldOnce, Holds
<1> QED  BY <1>2, <1>4, <1>5 DEF OwnershipInv, DoneIsComplete

LEMMA HandlersKeepOwner ==
  ASSUME OwnershipInv, [Next]_vars, NEW p \in Proc, NEW j \in Job,
         \/ Execute(p, j) \/ HandlerDone(p, j) \/ HandlerThrows(p, j) \/ HandlerStops(p, j)
         \/ LoseClaim(p, j) \/ LoseWrite(p, j)
  PROVE  OwnershipInv'
<1>1. faults' \in 0..MaxFaults
  BY QueueAssumption DEF Execute, HandlerDone, HandlerThrows, HandlerStops, LoseClaim, LoseWrite,
     Fault, OwnershipInv, TypeOK
<1>2. UNCHANGED <<rows, proc>> /\ hand[p][j] # "none"
  BY DEF Execute, HandlerDone, HandlerThrows, HandlerStops, LoseClaim, LoseWrite, LastWrite
<1>3. completed' \in SUBSET Job /\ completed \subseteq completed'
  BY DEF Execute, HandlerDone, HandlerThrows, HandlerStops, LoseClaim, LoseWrite,
     OwnershipInv, TypeOK
<1>4. \E h \in Hand :
        /\ SetHand(p, j, h)
        /\ h \notin {"none", "aborted"} => Holds(p, j) /\ h # "claimed"
        /\ GivenBack(p, j) => h \in LastWrite \cup {"none"}
        /\ h = "done" => j \in completed'
        /\ h = "retry" => rows[j].attempts < MaxAttempts
  BY DEF Execute, HandlerDone, HandlerThrows, HandlerStops, LoseClaim, LoseWrite, AfterError,
     AfterAbort, Hand, LastWrite, Holds, GivenBack
<1> QED  BY <1>1, <1>2, <1>3, <1>4, HandStepKeepsOwner

(* Rows change that nobody holds, or the lock of a row only.               *)
OnlyLocksOfHeldRows ==
  \A j \in Job :
    \/ \A q \in Proc : ~Holds(q, j)
    \/ /\ rows'[j].status = rows[j].status /\ rows'[j].attempts = rows[j].attempts
       /\ rows[j].fresh =>
            rows'[j].fresh \/ (Solo /\ \A q \in Proc : hand[q][j] # "claimed")

NoMoreDone == \A j \in Job : rows'[j].status = "done" => rows[j].status = "done"

LEMMA RowsKeepOwner ==
  ASSUME OwnershipInv, [Next]_vars, rows' \in [Job -> Row],
         UNCHANGED <<proc, hand, completed, faults>>, NoMoreDone, OnlyLocksOfHeldRows
  PROVE  OwnershipInv'
<1>1. TypeOK' /\ Solo' = Solo
  BY SoloStays DEF OwnershipInv, TypeOK, Row
<1>2. HandsFitRows'
  <2> SUFFICES ASSUME NEW q \in Proc, NEW j \in Job
               PROVE  /\ proc[q] \in {"down", "absent"} => hand[q][j] = "none"
                      /\ Holds(q, j) =>
                           /\ rows'[j].status = "running" \/ GivenBack(q, j)'
                           /\ rows'[j].fresh \/ (Solo /\ hand[q][j] # "claimed")
                      /\ hand[q][j] = "done" => j \in completed
                      /\ hand[q][j] = "retry" => rows'[j].attempts < MaxAttempts
    BY <1>1 DEF HandsFitRows, Holds
  <2>1. CASE ~Holds(q, j)
    BY <2>1 DEF OwnershipInv, HandsFitRows, Holds
  <2>2. CASE Holds(q, j)
    BY <1>1, <2>2 DEF OwnershipInv, HandsFitRows, GivenBack, OnlyLocksOfHeldRows
  <2> QED  BY <2>1, <2>2
<1>3. HeldOnce'
  BY DEF OwnershipInv, HeldOnce, Holds
<1> QED  BY <1>1, <1>2, <1>3 DEF OwnershipInv, DoneIsComplete, NoMoreDone

LEMMA SweepsKeepOwner ==
  ASSUME OwnershipInv, [Next]_vars, NEW p \in Proc, Sweep(p) \/ Beat(p)
  PROVE  OwnershipInv'
<1>1. UNCHANGED <<proc, hand, completed, faults>> /\ proc[p] = "up"
  BY DEF Sweep, Beat
<1>2. CASE Beat(p)
  <2>1. rows' = [j \in Job |-> [rows[j] EXCEPT !.fresh = @ \/ j \in Beating(p)]]
    BY <1>2 DEF Beat
  <2>2. \A j \in Job : /\ rows'[j] \in Row /\ rows'[j].status = rows[j].status
                       /\ rows'[j].attempts = rows[j].attempts
                       /\ rows[j].fresh => rows'[j].fresh
    BY <2>1 DEF OwnershipInv, TypeOK, Row
  <2>3. rows' \in [Job -> Row]
    BY <2>1, <2>2
  <2>4. NoMoreDone /\ OnlyLocksOfHeldRows
    BY <2>2 DEF NoMoreDone, OnlyLocksOfHeldRows
  <2> QED  BY <1>1, <2>3, <2>4, RowsKeepOwner
<1>3. CASE Sweep(p)
  <2>1. rows' = [j \in Job |-> IF j \in Orphans(p) THEN Queue(j) ELSE rows[j]]
    BY <1>3 DEF Sweep
  <2>2. \A j \in Job : Queue(j) \in Row /\ Queue(j).status = "queued"
    BY DEF Queue, OwnershipInv, TypeOK, Row
  <2>3. rows' \in [Job -> Row]
    BY <2>1, <2>2, RowFields DEF OwnershipInv
  <2>4. ASSUME NEW j \in Orphans(p), NEW q \in Proc, Holds(q, j)  PROVE FALSE
    <3>1. rows[j].status = "running" /\ ~rows[j].fresh /\ j \in Job /\ j \notin Active(p)
      BY <2>4 DEF Orphans, Stale
    <3>2. Solo /\ hand[q][j] # "claimed"
      BY <2>4, <3>1 DEF OwnershipInv, HandsFitRows
    <3>3. q = p
      BY <1>1, <2>4, <3>1, <3>2, SoloIsAlone DEF Holds
    <3> QED  BY <2>4, <3>1, <3>2, <3>3 DEF Active, Holds
  <2>5. NoMoreDone
    BY <2>1, <2>2 DEF NoMoreDone
  <2>6. OnlyLocksOfHeldRows
    BY <2>1, <2>4 DEF OnlyLocksOfHeldRows
  <2> QED  BY <1>1, <2>3, <2>5, <2>6, RowsKeepOwner
<1> QED  BY <1>2, <1>3

LEMMA RowActionsKeepOwner ==
  ASSUME OwnershipInv, [Next]_vars, NEW j \in Job, Enqueue(j) \/ Cancel(j) \/ Age(j)
  PROVE  OwnershipInv'
<1>1. UNCHANGED <<proc, hand, completed, faults>>
  BY DEF Enqueue, Cancel, Age
<1>2. PICK r \in Row :
        /\ SetRow(j, r) /\ r.status # "done"
        /\ Age(j) => r.status = rows[j].status /\ r.attempts = rows[j].attempts
  <2>1. rows[j] \in Row
    BY RowFields DEF OwnershipInv
  <2>2. CASE Age(j)
    <3>1. [rows[j] EXCEPT !.fresh = FALSE] \in Row
      BY <2>1 DEF Row
    <3> QED  BY <2>1, <2>2, <3>1 DEF Age, Row
  <2>3. CASE ~Age(j)
    <3>1. \A st \in {"queued", "cancelled"} : [rows[j] EXCEPT !.status = st] \in Row
      BY <2>1 DEF Row, Finished
    <3> QED  BY <2>1, <2>3, <3>1 DEF Enqueue, Cancel, Row
  <2> QED  BY <2>2, <2>3
<1>3. rows' \in [Job -> Row] /\ rows'[j] = r /\ \A i \in Job : i # j => rows'[i] = rows[i]
  BY <1>2, RowMoves DEF OwnershipInv
<1>4. NoMoreDone
  BY <1>2, <1>3 DEF NoMoreDone
<1>5. CASE Age(j)
  <2>1. OnlyLocksOfHeldRows
    BY <1>2, <1>3, <1>5 DEF Age, Holds, OnlyLocksOfHeldRows
  <2> QED  BY <1>1, <1>3, <1>4, <2>1, RowsKeepOwner
<1>6. ASSUME Enqueue(j) \/ Cancel(j), NEW q \in Proc, Holds(q, j)  PROVE FALSE
  <2>1. GivenBack(q, j) /\ Cancel(j)
    BY <1>6 DEF OwnershipInv, HandsFitRows, Enqueue, Cancel, GivenBack
  <2>2. PICK p \in Proc : proc[p] = "up"
    BY <2>1 DEF Cancel
  <2> QED  BY <2>1, <2>2, SoloIsAlone DEF GivenBack
<1>7. CASE Enqueue(j) \/ Cancel(j)
  <2>1. OnlyLocksOfHeldRows
    BY <1>3, <1>6, <1>7 DEF OnlyLocksOfHeldRows
  <2> QED  BY <1>1, <1>3, <1>4, <2>1, RowsKeepOwner
<1> QED  BY <1>5, <1>7

-----------------------------------------------------------------------------
LEMMA ClaimKeepsOwner ==
  ASSUME OwnershipInv, [Next]_vars, NEW p \in Proc, Claim(p)
  PROVE  OwnershipInv'
<1>1. PICK j \in Job :
        /\ proc[p] = "up" /\ rows[j].status = "queued"
        /\ \A q \in Proc : ~Holds(q, j)
        /\ SetRow(j, [rows[j] EXCEPT !.status = "running", !.attempts = @ + 1, !.fresh = TRUE])
        /\ SetHand(p, j, "claimed")
  BY ClaimTakes
<1>2. UNCHANGED <<proc, completed, faults>> /\ Solo' = Solo
  BY SoloStays DEF Claim, OwnershipInv
<1>3. PICK r \in Row : /\ SetRow(j, r) /\ r.status = "running" /\ r.fresh
                       /\ r.attempts = rows[j].attempts + 1
  <2>1. PICK r : r = [rows[j] EXCEPT !.status = "running", !.attempts = @ + 1, !.fresh = TRUE]
    OBVIOUS
  <2>2. rows[j] \in Row /\ rows[j].attempts + 1 \in Nat
    BY RowFields DEF OwnershipInv
  <2>3. /\ r.status = "running" /\ r.fresh = TRUE /\ r.attempts = rows[j].attempts + 1
        /\ r.work = rows[j].work
        /\ r = [work |-> r.work, status |-> r.status, attempts |-> r.attempts, fresh |-> r.fresh]
    BY <2>1, <2>2 DEF Row
  <2>4. r \in Row
    BY <2>2, <2>3 DEF Row
  <2> QED  BY <1>1, <2>1, <2>3, <2>4
<1>4. rows' \in [Job -> Row] /\ rows'[j] = r /\ \A i \in Job : i # j => rows'[i] = rows[i]
  BY <1>3, RowMoves DEF OwnershipInv
<1>5. /\ hand' \in [Proc -> [Job -> Hand]] /\ hand'[p][j] = "claimed"
      /\ \A q \in Proc, i \in Job : q # p \/ i # j => hand'[q][i] = hand[q][i]
  BY <1>1, HandMoves DEF OwnershipInv, Hand
<1>6. TypeOK' /\ HeldOnce' /\ DoneIsComplete'
  <2>1. TypeOK'
    BY <1>2, <1>4, <1>5 DEF OwnershipInv, TypeOK, Row
  <2>2. HeldOnce'
    BY <1>1, <1>5 DEF OwnershipInv, HeldOnce, Holds
  <2>3. DoneIsComplete'
    BY <1>2, <1>3, <1>4 DEF OwnershipInv, DoneIsComplete
  <2> QED  BY <2>1, <2>2, <2>3
<1>7. HandsFitRows'
  <2> SUFFICES ASSUME NEW q \in Proc, NEW i \in Job
               PROVE  /\ proc[q] \in {"down", "absent"} => hand'[q][i] = "none"
                      /\ Holds(q, i)' =>
                           /\ rows'[i].status = "running" \/ GivenBack(q, i)'
                           /\ rows'[i].fresh \/ (Solo /\ hand'[q][i] # "claimed")
                      /\ hand'[q][i] = "done" => i \in completed
                      /\ hand'[q][i] = "retry" => rows'[i].attempts < MaxAttempts
    BY <1>2 DEF HandsFitRows
  <2>1. CASE i # j
    BY <1>2, <1>4, <1>5, <2>1 DEF OwnershipInv, HandsFitRows, Holds, GivenBack
  <2>2. CASE i = j /\ q = p
    BY <1>1, <1>3, <1>4, <1>5, <2>2
  <2>3. CASE i = j /\ q # p
    <3>1. hand'[q][j] = hand[q][j] /\ hand[q][j] \in {"none", "aborted"}
      BY <1>1, <1>5, <2>3 DEF Holds
    <3> QED  BY <2>3, <3>1 DEF OwnershipInv, HandsFitRows, Holds
  <2> QED  BY <2>1, <2>2, <2>3
<1> QED  BY <1>6, <1>7 DEF OwnershipInv

(* The last write of who holds the job.                                    *)
LEMMA FinishKeepsOwner ==
  ASSUME OwnershipInv, [Next]_vars, NEW p \in Proc, NEW j \in Job, Finish(p, j)
  PROVE  OwnershipInv'
<1>1. UNCHANGED <<proc, completed, faults>> /\ Solo' = Solo /\ Holds(p, j)
  BY SoloStays DEF Finish, OwnershipInv, Holds, LastWrite
<1>2. PICK r \in Row : SetRow(j, r) /\ (r.status = "done" => hand[p][j] = "done")
  <2>1. SetRow(j, Outcome(p, j)) /\ hand[p][j] \in LastWrite
    BY DEF Finish
  <2>2. Outcome(p, j) \in Row /\ (Outcome(p, j).status = "done" => hand[p][j] = "done")
    BY <2>1 DEF Outcome, Queue, OwnershipInv, TypeOK, Row, LastWrite, Finished
  <2> QED  BY <2>1, <2>2
<1>3. rows' \in [Job -> Row] /\ rows'[j] = r /\ \A i \in Job : i # j => rows'[i] = rows[i]
  BY <1>2, RowMoves DEF OwnershipInv
<1>4. /\ hand' \in [Proc -> [Job -> Hand]] /\ hand'[p][j] = "none"
      /\ \A q \in Proc, i \in Job : q # p \/ i # j => hand'[q][i] = hand[q][i]
  BY HandMoves DEF Finish, OwnershipInv, Hand
<1>5. TypeOK' /\ HeldOnce'
  <2>1. TypeOK'
    BY <1>1, <1>3, <1>4 DEF OwnershipInv, TypeOK, Row
  <2>2. HeldOnce'
    BY <1>4 DEF OwnershipInv, HeldOnce, Holds
  <2> QED  BY <2>1, <2>2
<1>6. DoneIsComplete'
  BY <1>1, <1>2, <1>3 DEF OwnershipInv, HandsFitRows, DoneIsComplete
<1>7. HandsFitRows'
  <2> SUFFICES ASSUME NEW q \in Proc, NEW i \in Job
               PROVE  /\ proc[q] \in {"down", "absent"} => hand'[q][i] = "none"
                      /\ Holds(q, i)' =>
                           /\ rows'[i].status = "running" \/ GivenBack(q, i)'
                           /\ rows'[i].fresh \/ (Solo /\ hand'[q][i] # "claimed")
                      /\ hand'[q][i] = "done" => i \in completed
                      /\ hand'[q][i] = "retry" => rows'[i].attempts < MaxAttempts
    BY <1>1 DEF HandsFitRows
  <2>1. CASE i # j
    BY <1>1, <1>3, <1>4, <2>1 DEF OwnershipInv, HandsFitRows, Holds, GivenBack
  <2>2. CASE i = j
    <3>1. hand'[q][j] \in {"none", "aborted"}
      BY <1>1, <1>4 DEF OwnershipInv, HeldOnce, Holds
    <3>2. proc[q] \in {"down", "absent"} => hand'[q][j] = "none"
      BY <1>4 DEF OwnershipInv, HandsFitRows
    <3> QED  BY <2>2, <3>1, <3>2 DEF Holds
  <2> QED  BY <2>1, <2>2
<1> QED  BY <1>5, <1>6, <1>7 DEF OwnershipInv

(* A stopping process gives a job back.                                    *)
LEMMA GiveUpKeepsOwner ==
  ASSUME OwnershipInv, [Next]_vars, NEW p \in Proc, NEW j \in Job, GiveUp(p, j)
  PROVE  OwnershipInv'
<1>1. /\ UNCHANGED <<proc, completed>> /\ Solo' = Solo /\ proc[p] = "draining" /\ Holds(p, j)
      /\ faults' \in 0..MaxFaults
  BY QueueAssumption, SoloStays DEF GiveUp, OwnershipInv, Holds, LastWrite, Fault, TypeOK
<1>2. \E r \in Row : /\ SetRow(j, r) /\ r.attempts = rows[j].attempts
                     /\ r = rows[j] \/ (r.status = "queued" /\ rows[j].status = "running")
  <2>1. rows[j] \in Row /\ Return(j) \in Row
    BY RowFields DEF OwnershipInv, Return, Queue, Row
  <2>2. CASE SetRow(j, Return(j))
    BY <2>1, <2>2 DEF Return, Queue, Row
  <2>3. CASE UNCHANGED rows
    <3>1. SetRow(j, rows[j])
      BY <2>3 DEF SetRow, OwnershipInv, TypeOK
    <3> QED  BY <2>1, <3>1
  <2> QED  BY <2>2, <2>3 DEF GiveUp
<1>3. PICK r \in Row : /\ SetRow(j, r) /\ r.attempts = rows[j].attempts
                       /\ r = rows[j] \/ (r.status = "queued" /\ rows[j].status = "running")
  BY <1>2
<1>4. rows' \in [Job -> Row] /\ rows'[j] = r /\ \A i \in Job : i # j => rows'[i] = rows[i]
  BY <1>3, RowMoves DEF OwnershipInv
<1>5. DoneIsComplete'
  BY <1>1, <1>3, <1>4 DEF OwnershipInv, DoneIsComplete
<1>6. CASE SetHand(p, j, "aborted")
  <2>1. /\ hand' \in [Proc -> [Job -> Hand]] /\ hand'[p][j] = "aborted"
        /\ \A q \in Proc, i \in Job : q # p \/ i # j => hand'[q][i] = hand[q][i]
    BY <1>6, HandMoves DEF OwnershipInv, Hand
  <2>2. TypeOK'
    BY <1>1, <1>4, <2>1 DEF OwnershipInv, TypeOK, Row
  <2>3. HeldOnce'
    BY <2>1 DEF OwnershipInv, HeldOnce, Holds
  <2>4. ASSUME NEW q \in Proc, NEW i \in Job
        PROVE  /\ proc[q] \in {"down", "absent"} => hand'[q][i] = "none"
               /\ Holds(q, i)' =>
                    /\ rows'[i].status = "running" \/ GivenBack(q, i)'
                    /\ rows'[i].fresh \/ (Solo /\ hand'[q][i] # "claimed")
               /\ hand'[q][i] = "done" => i \in completed
               /\ hand'[q][i] = "retry" => rows'[i].attempts < MaxAttempts
    <3>1. CASE i # j
      BY <1>1, <1>4, <2>1, <3>1 DEF OwnershipInv, HandsFitRows, Holds, GivenBack
    <3>2. CASE i = j
      <4>1. hand'[q][j] \in {"none", "aborted"}
        BY <1>1, <2>1 DEF OwnershipInv, HeldOnce, Holds
      <4>2. proc[q] \in {"down", "absent"} => hand'[q][j] = "none"
        BY <1>1, <2>1 DEF OwnershipInv, HandsFitRows
      <4> QED  BY <3>2, <4>1, <4>2 DEF Holds
    <3> QED  BY <3>1, <3>2
  <2> QED  BY <1>1, <1>5, <2>2, <2>3, <2>4 DEF OwnershipInv, HandsFitRows
<1>7. CASE hand[p][j] \in LastWrite /\ Solo /\ UNCHANGED hand
  <2>1. TypeOK' /\ HeldOnce'
    BY <1>1, <1>4, <1>7 DEF OwnershipInv, TypeOK, Row, HeldOnce, Holds
  <2>2. ASSUME NEW q \in Proc, NEW i \in Job
        PROVE  /\ proc[q] \in {"down", "absent"} => hand[q][i] = "none"
               /\ Holds(q, i) =>
                    /\ rows'[i].status = "running" \/ GivenBack(q, i)'
                    /\ rows'[i].fresh \/ (Solo /\ hand[q][i] # "claimed")
               /\ hand[q][i] = "done" => i \in completed
               /\ hand[q][i] = "retry" => rows'[i].attempts < MaxAttempts
    <3>1. CASE i # j
      BY <1>1, <1>4, <1>7, <3>1 DEF OwnershipInv, HandsFitRows, Holds, GivenBack
    <3>2. CASE i = j /\ q = p
      BY <1>1, <1>3, <1>4, <1>7, <3>2 DEF OwnershipInv, HandsFitRows, Holds, GivenBack, LastWrite
    <3>3. CASE i = j /\ q # p
      BY <1>1, <1>7, <3>3, SoloIsAlone DEF Holds
    <3> QED  BY <3>1, <3>2, <3>3
  <2> QED  BY <1>1, <1>5, <1>7, <2>1, <2>2 DEF OwnershipInv, HandsFitRows, Holds
<1> QED  BY <1>6, <1>7 DEF GiveUp

(* A process stops, dies or starts.                                        *)
LEMMA ProcessesKeepOwner ==
  ASSUME OwnershipInv, [Next]_vars, NEW p \in Proc, Drain(p) \/ Exit(p) \/ Crash(p) \/ Start(p)
  PROVE  OwnershipInv'
<1>1. /\ UNCHANGED <<rows, completed>> /\ Solo' = Solo
      /\ proc' \in [Proc -> {"up", "draining", "down", "absent"}]
      /\ faults' \in 0..MaxFaults
  BY QueueAssumption, SoloStays
     DEF Drain, Exit, Crash, Start, Die, Fault, OwnershipInv, TypeOK
<1>2. \A q \in Proc : q # p => proc'[q] = proc[q]
  BY DEF Drain, Exit, Crash, Start, Die, OwnershipInv, TypeOK
<1>3. CASE Drain(p) \/ Start(p)
  <2>1. UNCHANGED hand
    BY <1>3 DEF Drain, Start
  <2>2. proc[p] \in {"up", "down"} /\ proc'[p] \in {"draining", "up"}
    BY <1>3 DEF Drain, Start, OwnershipInv, TypeOK
  <2>3. TypeOK' /\ HeldOnce' /\ DoneIsComplete'
    BY <1>1, <2>1 DEF OwnershipInv, TypeOK, HeldOnce, Holds, DoneIsComplete
  <2>4. HandsFitRows'
    BY <1>1, <1>2, <2>1, <2>2 DEF OwnershipInv, HandsFitRows, Holds, GivenBack
  <2> QED  BY <2>3, <2>4 DEF OwnershipInv
<1>4. CASE Exit(p) \/ Crash(p)
  <2>1. Die(p)
    BY <1>4 DEF Exit, Crash
  <2>2. /\ hand' \in [Proc -> [Job -> Hand]]
        /\ \A j \in Job : hand'[p][j] = "none"
        /\ \A q \in Proc : q # p => hand'[q] = hand[q]
    BY <2>1 DEF Die, OwnershipInv, TypeOK, Hand
  <2>3. TypeOK' /\ HeldOnce' /\ DoneIsComplete'
    BY <1>1, <2>2 DEF OwnershipInv, TypeOK, HeldOnce, Holds, DoneIsComplete
  <2>4. ASSUME NEW q \in Proc, NEW i \in Job
        PROVE  /\ proc'[q] \in {"down", "absent"} => hand'[q][i] = "none"
               /\ Holds(q, i)' =>
                    /\ rows[i].status = "running" \/ GivenBack(q, i)'
                    /\ rows[i].fresh \/ (Solo /\ hand'[q][i] # "claimed")
               /\ hand'[q][i] = "done" => i \in completed
               /\ hand'[q][i] = "retry" => rows[i].attempts < MaxAttempts
    <3>1. CASE q = p
      BY <2>2, <3>1 DEF Holds
    <3>2. CASE q # p
      BY <1>1, <1>2, <2>2, <3>2 DEF OwnershipInv, HandsFitRows, Holds, GivenBack
    <3> QED  BY <3>1, <3>2
  <2> QED  BY <1>1, <2>3, <2>4 DEF OwnershipInv, HandsFitRows
<1> QED  BY <1>3, <1>4

LEMMA OwnershipStep == OwnershipInv /\ [Next]_vars => OwnershipInv'
<1> SUFFICES ASSUME OwnershipInv, [Next]_vars PROVE OwnershipInv'
  OBVIOUS
<1>1. CASE UNCHANGED vars
  BY <1>1 DEF vars, OwnershipInv, TypeOK, HandsFitRows, HeldOnce, DoneIsComplete, Holds, GivenBack, Solo
<1>2. ASSUME NEW j \in Job, Enqueue(j) \/ Cancel(j) \/ Age(j)  PROVE OwnershipInv'
  BY <1>2, RowActionsKeepOwner
<1>3. ASSUME NEW p \in Proc, Claim(p)  PROVE OwnershipInv'
  BY <1>3, ClaimKeepsOwner
<1>4. ASSUME NEW p \in Proc, Beat(p) \/ Sweep(p)  PROVE OwnershipInv'
  BY <1>4, SweepsKeepOwner
<1>5. ASSUME NEW p \in Proc, Drain(p) \/ Exit(p) \/ Crash(p) \/ Start(p)  PROVE OwnershipInv'
  BY <1>5, ProcessesKeepOwner
<1>6. ASSUME NEW p \in Proc, NEW j \in Job, Handle(p, j) \/ LoseClaim(p, j) \/ LoseWrite(p, j)
      PROVE  OwnershipInv'
  BY <1>6, HandlersKeepOwner, FinishKeepsOwner DEF Handle
<1>7. ASSUME NEW p \in Proc, NEW j \in Job, GiveUp(p, j)  PROVE OwnershipInv'
  BY <1>7, GiveUpKeepsOwner
<1> QED  BY <1>1, <1>2, <1>3, <1>4, <1>5, <1>6, <1>7 DEF Next

LEMMA OwnershipBegins == Init => OwnershipInv
<1> SUFFICES ASSUME Init PROVE OwnershipInv
  OBVIOUS
<1>1. /\ rows \in [Job -> Row] /\ \A j \in Job : rows[j].status = "absent"
  BY QueueAssumption DEF Init, Row
<1>2. proc \in [Proc -> {"up", "draining", "down", "absent"}]
  BY DEF Init
<1>3. hand \in [Proc -> [Job -> Hand]] /\ \A p \in Proc, j \in Job : hand[p][j] = "none"
  BY DEF Init, Hand
<1>4. TypeOK
  BY <1>1, <1>2, <1>3, QueueAssumption DEF TypeOK, Row, Init
<1> QED  BY <1>1, <1>3, <1>4 DEF OwnershipInv, HandsFitRows, HeldOnce, DoneIsComplete, Holds

LEMMA SpecSteps == Spec => Init /\ [][Next]_vars
BY DEF Spec

(* In every reachable state who holds a job holds it alone and under a row *)
(* nobody else may take.                                                   *)
THEOREM OwnershipHolds == Spec => []OwnershipInv
BY SpecSteps, OwnershipBegins, OwnershipStep, PTL

(* The variables of the queue keep their types.                            *)
THEOREM QueueTypes == Spec => []TypeOK
<1>1. OwnershipInv => TypeOK
  BY DEF OwnershipInv
<1> QED  BY <1>1, OwnershipHolds, PTL

(* A row says `done` only if a handler finished the work                   *)
(* (jobs.service.ts, execute): whatever crashes, stops and lost writes do. *)
THEOREM DoneMeansComplete == Spec => []DoneIsComplete
<1>1. OwnershipInv => DoneIsComplete
  BY DEF OwnershipInv
<1> QED  BY <1>1, OwnershipHolds, PTL

-----------------------------------------------------------------------------
(* A row before and after the write of its status or lock.                 *)
Rewritten(r, s) == s.work = r.work /\ s.attempts = r.attempts

(* What the writes do to a row: only a claim counts an attempt, and what a *)
(* row asks for never changes.                                             *)
LEMMA WritesKeepFields ==
  ASSUME TypeOK, NEW j \in Job, NEW st
  PROVE  /\ Rewritten(rows[j], [rows[j] EXCEPT !.status = st])
         /\ Rewritten(rows[j], [rows[j] EXCEPT !.fresh = st])
         /\ Rewritten(rows[j], Queue(j)) /\ Queue(j).status = "queued"
         /\ Rewritten(rows[j], [rows[j] EXCEPT !.status = st, !.fresh = FALSE])
         /\ [rows[j] EXCEPT !.status = st].status = st
         /\ [rows[j] EXCEPT !.fresh = st].status = rows[j].status
         /\ [rows[j] EXCEPT !.status = st, !.fresh = FALSE].status = st
BY DEF TypeOK, Rewritten, Queue

LEMMA SetRowAlone ==
  ASSUME TypeOK, NEW j \in Job, NEW r, SetRow(j, r)
  PROVE  rows'[j] = r /\ \A i \in Job : i # j => rows'[i] = rows[i]
BY DEF TypeOK, SetRow

OnlyClaims == \A j \in Job : Rewritten(rows[j], rows'[j])

LEMMA WritesKeepRows ==
  ASSUME TypeOK, [Next]_vars, \A p \in Proc : ~Claim(p)
  PROVE  OnlyClaims
<1> SUFFICES ASSUME NEW j \in Job PROVE Rewritten(rows[j], rows'[j])
  BY DEF OnlyClaims
<1>0. ASSUME NEW i \in Job, NEW r, SetRow(i, r), Rewritten(rows[i], r)
      PROVE  Rewritten(rows[j], rows'[j])
  <2>1. rows'[i] = r /\ \A k \in Job : k # i => rows'[k] = rows[k]
    BY <1>0, SetRowAlone
  <2> QED  BY <1>0, <2>1 DEF Rewritten
<1>1. ASSUME UNCHANGED rows  PROVE Rewritten(rows[j], rows'[j])
  BY <1>1 DEF Rewritten
<1>2. ASSUME NEW i \in Job, Enqueue(i) \/ Cancel(i) \/ Age(i)  PROVE Rewritten(rows[j], rows'[j])
  BY <1>0, <1>2, WritesKeepFields DEF Enqueue, Cancel, Age
<1>3. ASSUME NEW p \in Proc, Beat(p) \/ Sweep(p)  PROVE Rewritten(rows[j], rows'[j])
  <2>1. CASE Beat(p)
    <3>1. rows'[j] = [rows[j] EXCEPT !.fresh = @ \/ j \in Beating(p)]
      BY <2>1 DEF Beat
    <3> QED  BY <3>1 DEF TypeOK, Rewritten
  <2>2. CASE Sweep(p)
    <3>1. rows'[j] \in {Queue(j), rows[j]}
      BY <2>2 DEF Sweep
    <3> QED  BY <3>1, WritesKeepFields DEF Rewritten
  <2> QED  BY <1>3, <2>1, <2>2
<1>4. ASSUME NEW p \in Proc, NEW i \in Job, Finish(p, i)  PROVE Rewritten(rows[j], rows'[j])
  BY <1>0, <1>4, WritesKeepFields DEF Finish, Outcome
<1>5. ASSUME NEW p \in Proc, NEW i \in Job, GiveUp(p, i)  PROVE Rewritten(rows[j], rows'[j])
  <2>1. Rewritten(rows[i], Return(i))
    BY WritesKeepFields DEF Return, Rewritten
  <2> QED  BY <1>0, <1>1, <1>5, <2>1 DEF GiveUp
<1>6. ASSUME NEW p \in Proc, Drain(p) \/ Exit(p) \/ Crash(p) \/ Start(p)
      PROVE  Rewritten(rows[j], rows'[j])
  BY <1>1, <1>6 DEF Drain, Exit, Crash, Start, Die
<1>7. ASSUME NEW p \in Proc, NEW i \in Job,
             \/ Execute(p, i) \/ HandlerDone(p, i) \/ HandlerThrows(p, i) \/ HandlerStops(p, i)
             \/ LoseClaim(p, i) \/ LoseWrite(p, i)
      PROVE  Rewritten(rows[j], rows'[j])
  BY <1>1, <1>7 DEF Execute, HandlerDone, HandlerThrows, HandlerStops, LoseClaim, LoseWrite
<1>8. CASE UNCHANGED vars
  BY <1>1, <1>8 DEF vars
<1> QED  BY <1>2, <1>3, <1>4, <1>5, <1>6, <1>7, <1>8 DEF Next, Handle

LEMMA OnlyClaimsCount ==
  ASSUME TypeOK, [Next]_vars, NEW j \in Job, rows'[j].attempts # rows[j].attempts
  PROVE  \E p \in Proc : Claim(p)
BY WritesKeepRows DEF OnlyClaims, Rewritten

(* The row a claim has taken.                                              *)
LEMMA ClaimedRow ==
  ASSUME OwnershipInv, NEW p \in Proc, Claim(p)
  PROVE  \E j \in Job :
           /\ proc[p] = "up" /\ rows[j].status = "queued" /\ ~Saturated(p, j)
           /\ \A q \in Proc : ~Holds(q, j)
           /\ rows'[j].attempts = rows[j].attempts + 1 /\ rows'[j].status = "running"
           /\ rows'[j].work = rows[j].work
           /\ \A i \in Job : i # j => rows'[i] = rows[i]
           /\ hand'[p][j] = "claimed"
           /\ \A q \in Proc, i \in Job : q # p \/ i # j => hand'[q][i] = hand[q][i]
<1>1. PICK j \in Job :
        /\ proc[p] = "up" /\ rows[j].status = "queued" /\ ~Saturated(p, j)
        /\ \A q \in Proc : ~Holds(q, j)
        /\ SetRow(j, [rows[j] EXCEPT !.status = "running", !.attempts = @ + 1, !.fresh = TRUE])
        /\ SetHand(p, j, "claimed")
  BY ClaimTakes
<1>2. /\ hand'[p][j] = "claimed"
      /\ \A q \in Proc, i \in Job : q # p \/ i # j => hand'[q][i] = hand[q][i]
  BY <1>1, HandMoves DEF OwnershipInv, Hand
<1>3. /\ rows'[j].attempts = rows[j].attempts + 1 /\ rows'[j].status = "running"
      /\ rows'[j].work = rows[j].work
      /\ \A i \in Job : i # j => rows'[i] = rows[i]
  BY <1>1 DEF SetRow, OwnershipInv, TypeOK
<1> QED  BY <1>1, <1>2, <1>3

(* A job is never claimed while some process runs its handler or is about  *)
(* to write its outcome (jobs.service.ts, claim, requeueStale and the      *)
(* shutdown): the second attempt starts when the first can write no more.  *)
THEOREM JobsAreNotTakenTwice == Spec => NeverTakenTwice
<1>1. OwnershipInv /\ [Next]_vars
        => [\A j \in Job : rows'[j].attempts # rows[j].attempts => ~Busy(j)]_vars
  <2> SUFFICES ASSUME OwnershipInv, [Next]_vars, NEW j \in Job,
                      rows'[j].attempts # rows[j].attempts
               PROVE  ~Busy(j)
    OBVIOUS
  <2>1. PICK p \in Proc : Claim(p)
    BY OnlyClaimsCount DEF OwnershipInv
  <2>2. PICK i \in Job : /\ \A q \in Proc : ~Holds(q, i)
                         /\ \A k \in Job : k # i => rows'[k] = rows[k]
    BY <2>1, ClaimedRow
  <2>3. i = j
    BY <2>2
  <2> QED  BY <2>2, <2>3 DEF Busy, Holds
<1>2. Spec => [][OwnershipInv /\ [Next]_vars]_vars
  BY SpecSteps, OwnershipHolds, PTL
<1> QED  BY <1>1, <1>2, OwnershipHolds, SpecSteps, PTL DEF NeverTakenTwice

-----------------------------------------------------------------------------
(* Owed moves as the promise says: one job at a time, forward only.        *)
Accepts(j) == Owed(j) = "absent" /\ Owed(j)' = "owed"
Settles(j) == Owed(j) = "owed" /\ Owed(j)' = "settled"
OnlyOwed(i) == \A j \in Job : j # i => Owed(j)' = Owed(j)
OwedStep == \/ \A j \in Job : Owed(j)' = Owed(j)
            \/ \E i \in Job : OnlyOwed(i) /\ (Accepts(i) \/ Settles(i))

(* Whoever still may write a row writes one that is owed.                  *)
LEMMA HeldIsOwed ==
  ASSUME OwnershipInv, NEW p \in Proc, NEW j \in Job, Holds(p, j)
  PROVE  Owed(j) = "owed"
BY DEF OwnershipInv, HandsFitRows, GivenBack, Owed, Finished

LEMMA OneRowOwed ==
  ASSUME TypeOK, NEW i \in Job, NEW r, SetRow(i, r)
  PROVE  /\ OnlyOwed(i)
         /\ r.status = "absent" => Owed(i)' = "absent"
         /\ r.status \in {"queued", "running"} => Owed(i)' = "owed"
         /\ r.status \in Finished => Owed(i)' = "settled"
BY SetRowAlone DEF OnlyOwed, Owed, Finished

LEMMA OwedMoves ==
  ASSUME OwnershipInv, [Next]_vars
  PROVE  OwedStep
<1> USE DEF OwedStep
<1>0. TypeOK
  BY DEF OwnershipInv
<1>1. ASSUME UNCHANGED rows  PROVE OwedStep
  BY <1>1 DEF Owed
<1>2. ASSUME NEW i \in Job, NEW r, SetRow(i, r), r.status \in {"queued", "running"},
             rows[i].status \in {"queued", "running"}
      PROVE  OwedStep
  <2>1. OnlyOwed(i) /\ Owed(i)' = "owed" /\ Owed(i) = "owed"
    BY <1>0, <1>2, OneRowOwed DEF Owed, Finished
  <2> QED  BY <2>1 DEF OnlyOwed
<1>3. ASSUME NEW i \in Job, Enqueue(i) \/ Cancel(i) \/ Age(i)  PROVE OwedStep
  <2>1. CASE Enqueue(i)
    <3>1. PICK r : r = [rows[i] EXCEPT !.status = "queued"]
      OBVIOUS
    <3>2. SetRow(i, r) /\ r.status = "queued" /\ rows[i].status = "absent"
      BY <1>0, <2>1, <3>1, WritesKeepFields DEF Enqueue
    <3>3. OnlyOwed(i) /\ Accepts(i)
      BY <1>0, <3>2, OneRowOwed DEF Accepts, Owed
    <3> QED  BY <3>3
  <2>2. CASE Cancel(i)
    <3>1. PICK r : r = [rows[i] EXCEPT !.status = "cancelled"]
      OBVIOUS
    <3>2. SetRow(i, r) /\ r.status = "cancelled" /\ rows[i].status = "queued"
      BY <1>0, <2>2, <3>1, WritesKeepFields DEF Cancel
    <3>3. OnlyOwed(i) /\ Settles(i)
      BY <1>0, <3>2, OneRowOwed DEF Settles, Owed, Finished
    <3> QED  BY <3>3
  <2>3. CASE Age(i)
    BY <1>0, <1>2, <2>3, WritesKeepFields DEF Age
  <2> QED  BY <1>3, <2>1, <2>2, <2>3
<1>4. ASSUME NEW p \in Proc, Beat(p) \/ Sweep(p)  PROVE OwedStep
  <2> SUFFICES ASSUME NEW j \in Job PROVE Owed(j)' = Owed(j)
    OBVIOUS
  <2>1. CASE Beat(p)
    <3>1. rows'[j] = [rows[j] EXCEPT !.fresh = @ \/ j \in Beating(p)]
      BY <2>1 DEF Beat
    <3>2. rows'[j].status = rows[j].status
      BY <1>0, <3>1 DEF TypeOK
    <3> QED  BY <3>2 DEF Owed
  <2>2. CASE Sweep(p)
    <3>1. rows'[j] = rows[j] \/ (rows'[j] = Queue(j) /\ rows[j].status = "running")
      BY <2>2 DEF Sweep, Orphans, Stale
    <3>2. rows'[j].status = rows[j].status
          \/ (rows'[j].status = "queued" /\ rows[j].status = "running")
      BY <1>0, <3>1, WritesKeepFields
    <3> QED  BY <3>2 DEF Owed, Finished
  <2> QED  BY <1>4, <2>1, <2>2
<1>5. ASSUME NEW p \in Proc, NEW i \in Job, Finish(p, i)  PROVE OwedStep
  <2>1. hand[p][i] \in LastWrite /\ SetRow(i, Outcome(p, i)) /\ Owed(i) = "owed"
    BY <1>5, HeldIsOwed DEF Finish, Holds, LastWrite
  <2>2. PICK r : r = Outcome(p, i)
    OBVIOUS
  <2>3. r.status \in {"queued", "done", "failed"}
    BY <1>0, <2>1, <2>2, WritesKeepFields DEF Outcome, LastWrite
  <2>4. OnlyOwed(i) /\ Owed(i)' \in {"owed", "settled"}
    BY <1>0, <2>1, <2>2, <2>3, OneRowOwed DEF Finished
  <2>5. CASE Owed(i)' = "owed"
    BY <2>1, <2>4, <2>5 DEF OnlyOwed
  <2>6. CASE Owed(i)' = "settled"
    BY <2>1, <2>4, <2>6 DEF Settles
  <2> QED  BY <2>4, <2>5, <2>6
<1>6. ASSUME NEW p \in Proc, NEW i \in Job, GiveUp(p, i)  PROVE OwedStep
  <2>1. CASE rows[i].status = "running" /\ SetRow(i, Queue(i))
    BY <1>0, <1>2, <2>1, WritesKeepFields
  <2>2. CASE rows[i].status # "running" /\ SetRow(i, rows[i])
    BY <1>0, <1>1, <2>2, SetRowAlone DEF SetRow, TypeOK
  <2> QED  BY <1>1, <1>6, <2>1, <2>2 DEF GiveUp, Return
<1>7. ASSUME NEW p \in Proc, Claim(p)  PROVE OwedStep
  <2>1. PICK j \in Job : /\ rows[j].status = "queued" /\ rows'[j].status = "running"
                         /\ \A i \in Job : i # j => rows'[i] = rows[i]
    BY <1>7, ClaimedRow
  <2> QED  BY <2>1 DEF Owed, Finished
<1>8. ASSUME NEW p \in Proc, Drain(p) \/ Exit(p) \/ Crash(p) \/ Start(p)  PROVE OwedStep
  BY <1>1, <1>8 DEF Drain, Exit, Crash, Start, Die
<1>9. ASSUME NEW p \in Proc, NEW i \in Job,
             \/ Execute(p, i) \/ HandlerDone(p, i) \/ HandlerThrows(p, i) \/ HandlerStops(p, i)
             \/ LoseClaim(p, i) \/ LoseWrite(p, i)
      PROVE  OwedStep
  BY <1>1, <1>9 DEF Execute, HandlerDone, HandlerThrows, HandlerStops, LoseClaim, LoseWrite
<1>10. CASE UNCHANGED vars
  BY <1>1, <1>10 DEF vars
<1> QED  BY <1>3, <1>4, <1>5, <1>6, <1>7, <1>8, <1>9, <1>10 DEF Next, Handle

(* The queue never breaks its promise (JobPromise): an accepted job stays  *)
(* owed until it is settled, and a settled one is never taken up again,    *)
(* whatever late writes, sweeps and stopping processes do to its row.      *)
THEOREM PromiseIsKept == Spec => P!Safety
<1>1. Init => P!Init
  BY QueueAssumption DEF Init, P!Init, Owed
<1>2. OwnershipInv /\ [Next]_vars => [P!Next]_[j \in Job |-> Owed(j)]
  <2> SUFFICES ASSUME OwnershipInv, [Next]_vars
               PROVE  \/ P!Next
                      \/ [j \in Job |-> Owed(j)]' = [j \in Job |-> Owed(j)]
    OBVIOUS
  <2>1. CASE \A j \in Job : Owed(j)' = Owed(j)
    BY <2>1
  <2>2. ASSUME NEW i \in Job, OnlyOwed(i), Accepts(i) \/ Settles(i)  PROVE P!Next
    <3>1. CASE Accepts(i)
      BY <2>2, <3>1 DEF P!Next, P!Accept, P!Move, Accepts, OnlyOwed
    <3>2. CASE Settles(i)
      BY <2>2, <3>2 DEF P!Next, P!Settle, P!Move, Settles, OnlyOwed
    <3> QED  BY <2>2, <3>1, <3>2
  <2> QED  BY <2>1, <2>2, OwedMoves DEF OwedStep
<1> QED  BY <1>1, <1>2, SpecSteps, OwnershipHolds, PTL DEF P!Safety

-----------------------------------------------------------------------------
(* A job that can still be claimed has an attempt left, of its own or paid *)
(* for by a fault; a job without one is in the hands of a process that is  *)
(* not stopping, which can only lose it by a fault.                        *)
AttemptLeft(j) == rows[j].attempts < MaxAttempts + faults

AttemptsArePaid ==
  \A j \in Job :
    /\ Owed(j) = "absent" => rows[j].attempts = 0
    /\ rows[j].attempts <= MaxAttempts + faults
    /\ Owed(j) = "owed" => AttemptLeft(j) \/ \E p \in Proc : proc[p] = "up" /\ Holds(p, j)

LEMMA FaultsGrow ==
  ASSUME TypeOK, [Next]_vars
  PROVE  faults \in Nat /\ faults' \in {faults, faults + 1}
<1>1. faults \in Nat
  BY QueueAssumption DEF TypeOK
<1>2. faults' = faults \/ Fault
  BY DEF Next, vars, Enqueue, Cancel, Age, Claim, Beat, Sweep, Drain, Exit, Crash, Start,
     Handle, Execute, HandlerDone, HandlerThrows, HandlerStops, Finish, LoseClaim, LoseWrite,
     GiveUp
<1> QED  BY <1>1, <1>2 DEF Fault

(* Who holds a job without stopping keeps it, settles it, queues it again  *)
(* with an attempt left, or loses it by a fault.                           *)
LEMMA HoldersKeep ==
  ASSUME OwnershipInv, [Next]_vars, NEW p \in Proc, NEW j \in Job, proc[p] = "up", Holds(p, j)
  PROVE  \/ (proc[p] = "up" /\ Holds(p, j))'
         \/ faults' = faults + 1
         \/ Owed(j)' = "settled"
         \/ rows[j].attempts < MaxAttempts
<1>0. TypeOK
  BY DEF OwnershipInv
<1>1. ASSUME UNCHANGED <<proc, hand>>  PROVE (proc[p] = "up" /\ Holds(p, j))'
  BY <1>1 DEF Holds
<1>2. ASSUME NEW q \in Proc, NEW i \in Job, NEW h \in Hand, SetHand(q, i, h), UNCHANGED proc,
             ~(q = p /\ i = j /\ h \in {"none", "aborted"})
      PROVE  (proc[p] = "up" /\ Holds(p, j))'
  BY <1>0, <1>2, HandMoves DEF Holds
<1>3. ASSUME NEW q \in Proc, Drain(q) \/ Exit(q) \/ Crash(q) \/ Start(q)
      PROVE  faults' = faults + 1 \/ (proc[p] = "up" /\ Holds(p, j))'
  <2>1. CASE q = p
    BY <1>3, <2>1 DEF Drain, Exit, Crash, Start, Fault
  <2>2. CASE q # p
    BY <1>0, <1>3, <2>2 DEF Drain, Exit, Crash, Start, Die, Holds, TypeOK
  <2> QED  BY <2>1, <2>2
<1>4. ASSUME NEW q \in Proc, Claim(q)  PROVE (proc[p] = "up" /\ Holds(p, j))'
  <2>1. UNCHANGED proc
    BY <1>4 DEF Claim
  <2> QED  BY <1>4, <2>1, ClaimedRow DEF Holds
<1>5. ASSUME NEW q \in Proc, NEW i \in Job, Finish(q, i)
      PROVE  \/ (proc[p] = "up" /\ Holds(p, j))' \/ Owed(j)' = "settled"
             \/ rows[j].attempts < MaxAttempts
  <2>1. CASE q # p \/ i # j
    BY <1>2, <1>5, <2>1 DEF Finish, Hand
  <2>2. CASE q = p /\ i = j /\ hand[p][j] = "retry"
    BY <2>2 DEF OwnershipInv, HandsFitRows
  <2>3. CASE q = p /\ i = j /\ hand[p][j] # "retry"
    <3>1. PICK r : r = Outcome(p, j)
      OBVIOUS
    <3>2. SetRow(j, r) /\ r.status \in Finished
      BY <1>0, <1>5, <2>3, <3>1, WritesKeepFields DEF Finish, Outcome, LastWrite, Finished
    <3> QED  BY <1>0, <3>2, OneRowOwed
  <2> QED  BY <2>1, <2>2, <2>3
<1>6. ASSUME NEW q \in Proc, NEW i \in Job, GiveUp(q, i)  PROVE (proc[p] = "up" /\ Holds(p, j))'
  BY <1>1, <1>2, <1>6 DEF GiveUp, Hand
<1>7. ASSUME NEW q \in Proc, NEW i \in Job, LoseClaim(q, i) \/ LoseWrite(q, i)
      PROVE  faults' = faults + 1
  BY <1>7 DEF LoseClaim, LoseWrite, Fault
<1>8. ASSUME NEW q \in Proc, NEW i \in Job,
             Execute(q, i) \/ HandlerDone(q, i) \/ HandlerThrows(q, i)
      PROVE  (proc[p] = "up" /\ Holds(p, j))'
  BY <1>2, <1>8 DEF Execute, HandlerDone, HandlerThrows, AfterError, Hand, LastWrite
<1>9. ASSUME NEW q \in Proc, NEW i \in Job, HandlerStops(q, i)
      PROVE  (proc[p] = "up" /\ Holds(p, j))'
  BY <1>2, <1>9 DEF HandlerStops, AfterAbort, Hand, Holds
<1>10. ASSUME NEW i \in Job, Enqueue(i) \/ Cancel(i) \/ Age(i)
       PROVE  (proc[p] = "up" /\ Holds(p, j))'
  BY <1>1, <1>10 DEF Enqueue, Cancel, Age
<1>11. ASSUME NEW q \in Proc, Beat(q) \/ Sweep(q)  PROVE (proc[p] = "up" /\ Holds(p, j))'
  BY <1>1, <1>11 DEF Beat, Sweep
<1>12. CASE UNCHANGED vars
  BY <1>1, <1>12 DEF vars
<1> QED  BY <1>3, <1>4, <1>5, <1>6, <1>7, <1>8, <1>9, <1>10, <1>11, <1>12 DEF Next, Handle

LEMMA AttemptsStep ==
  ASSUME OwnershipInv, AttemptsArePaid, [Next]_vars
  PROVE  AttemptsArePaid'
<1>0. TypeOK /\ MaxAttempts \in Nat \ {0}
  BY QueueAssumption DEF OwnershipInv
<1>1. faults \in Nat /\ faults' \in {faults, faults + 1}
  BY <1>0, FaultsGrow
<1> SUFFICES ASSUME NEW j \in Job
             PROVE  /\ Owed(j)' = "absent" => rows'[j].attempts = 0
                    /\ rows'[j].attempts <= MaxAttempts + faults'
                    /\ Owed(j)' = "owed" =>
                         AttemptLeft(j)' \/ \E p \in Proc : (proc[p] = "up" /\ Holds(p, j))'
  BY DEF AttemptsArePaid
<1>2. rows[j].attempts \in Nat
  BY <1>0, RowFields
<1>3. \/ Owed(j)' = Owed(j) \/ Accepts(j) \/ Settles(j)
  BY OwedMoves DEF OwedStep, OnlyOwed
<1>4. CASE rows'[j].attempts = rows[j].attempts
  <2>1. CASE Owed(j) = "absent"
    BY <1>0, <1>1, <1>2, <1>3, <1>4, <2>1
       DEF AttemptsArePaid, AttemptLeft, Accepts, Settles
  <2>2. CASE Owed(j) # "absent"
    <3>1. /\ Owed(j)' # "absent" /\ rows'[j].attempts <= MaxAttempts + faults'
          /\ Owed(j)' = "owed" => Owed(j) = "owed"
      BY <1>0, <1>1, <1>2, <1>3, <1>4, <2>2 DEF AttemptsArePaid, Accepts, Settles
    <3>2. AttemptLeft(j) => AttemptLeft(j)'
      BY <1>0, <1>1, <1>2, <1>4 DEF AttemptLeft
    <3>3. ASSUME NEW p \in Proc, proc[p] = "up", Holds(p, j), Owed(j)' = "owed", ~AttemptLeft(j)'
          PROVE  (proc[p] = "up" /\ Holds(p, j))'
      <4>1. faults' # faults + 1
        BY <1>0, <1>1, <1>2, <1>4, <3>3 DEF AttemptLeft, AttemptsArePaid
      <4>2. ~(rows[j].attempts < MaxAttempts)
        BY <1>0, <1>1, <1>2, <1>4, <3>3 DEF AttemptLeft
      <4> QED  BY <3>3, <4>1, <4>2, HoldersKeep
    <3> QED  BY <3>1, <3>2, <3>3 DEF AttemptsArePaid
  <2> QED  BY <2>1, <2>2
<1>5. CASE rows'[j].attempts # rows[j].attempts
  <2>1. PICK p \in Proc : Claim(p)
    BY <1>0, <1>5, OnlyClaimsCount
  <2>2. /\ proc[p] = "up" /\ rows[j].status = "queued" /\ \A q \in Proc : ~Holds(q, j)
        /\ rows'[j].attempts = rows[j].attempts + 1 /\ rows'[j].status = "running"
        /\ hand'[p][j] = "claimed"
    BY <1>5, <2>1, ClaimedRow
  <2>3. proc'[p] = "up" /\ faults' = faults
    BY <2>1, <2>2 DEF Claim
  <2>4. AttemptLeft(j)
    BY <2>2 DEF AttemptsArePaid, Owed, Finished
  <2> QED  BY <1>0, <1>1, <1>2, <2>2, <2>3, <2>4 DEF AttemptLeft, Holds, Owed, Finished
<1> QED  BY <1>4, <1>5

-----------------------------------------------------------------------------
(* What a process has in hand, an answer to a claim included.              *)
Held(p) == {j \in Job : hand[p][j] # "none"}

OfThisKind(k)    == {j \in Job : rows[j].work.kind = k}
OfThisPair(k, x) == {j \in OfThisKind(k) : rows[j].work.project = x}

(* The limits hold of what a process has in hand, and it awaits the answer *)
(* to one claim at a time.                                                 *)
RoomInv ==
  \A p \in Proc :
    /\ \A i, j \in Job : hand[p][i] = "claimed" /\ hand[p][j] = "claimed" => i = j
    /\ Cardinality(Held(p)) <= Concurrency
    /\ \A k \in Kind :
         /\ KindLimit[k] # 0 => Cardinality(Held(p) \cap OfThisKind(k)) <= KindLimit[k]
         /\ PairLimit[k] # 0 =>
              \A x \in Project :
                Cardinality(Held(p) \cap OfThisPair(k, x)) <= PairLimit[k]

(* The same of a set of jobs A.                                            *)
Fits(A) ==
  /\ Cardinality(A) <= Concurrency
  /\ \A k \in Kind :
       /\ KindLimit[k] # 0 => Cardinality(A \cap OfThisKind(k)) <= KindLimit[k]
       /\ PairLimit[k] # 0 =>
            \A x \in Project : Cardinality(A \cap OfThisPair(k, x)) <= PairLimit[k]

QueueInv == OwnershipInv /\ AttemptsArePaid /\ RoomInv

LEMMA JobsAreFinite == \A S \in SUBSET Job : IsFiniteSet(S) /\ Cardinality(S) \in Nat
<1>1. IsFiniteSet(Job)
  <2>1. 1 \in Int /\ NJobs \in Int
    BY QueueAssumption
  <2>2. IsFiniteSet(1..NJobs)
    BY <2>1, FS_Interval
  <2> QED  BY <2>2 DEF Job
<1>2. \A S \in SUBSET Job : IsFiniteSet(S)
  BY <1>1, FS_Subset
<1> QED  BY <1>2, FS_CardinalityType

(* What fits still fits when less is in hand, and one job more fits where  *)
(* there was room.                                                         *)
LEMMA LessFits ==
  ASSUME NEW A \in SUBSET Job, NEW B \in SUBSET A, NEW S, NEW n \in Nat, Cardinality(A \cap S) <= n
  PROVE  Cardinality(B \cap S) <= n
<1>1. PICK X, Y : X = A \cap S /\ Y = B \cap S
  OBVIOUS
<1>2. X \in SUBSET Job /\ Y \in SUBSET X
  BY <1>1
<1>3. IsFiniteSet(X) /\ Cardinality(X) \in Nat /\ Cardinality(Y) \in Nat
  BY <1>2, JobsAreFinite
<1>4. Cardinality(Y) <= Cardinality(X)
  BY <1>2, <1>3, FS_Subset
<1>5. Cardinality(X) <= n
  BY <1>1
<1>6. Cardinality(Y) <= n
  BY <1>3, <1>4, <1>5
<1> QED  BY <1>1, <1>6

LEMMA OneMoreFits ==
  ASSUME NEW A \in SUBSET Job, NEW j \in Job, NEW S, NEW n \in Nat,
         IF j \in S THEN ~(Cardinality(A \cap S) >= n) ELSE Cardinality(A \cap S) <= n
  PROVE  Cardinality((A \cup {j}) \cap S) <= n
<1>1. PICK X, Y : X = A \cap S /\ Y = (A \cup {j}) \cap S
  OBVIOUS
<1>2. CASE j \notin S
  <2>1. Y = X
    BY <1>1, <1>2
  <2>2. Cardinality(X) <= n
    BY <1>1, <1>2
  <2>3. Cardinality(Y) <= n
    BY <2>1, <2>2
  <2> QED  BY <1>1, <2>3
<1>3. CASE j \in S
  <2>1. Y = X \cup {j} /\ X \in SUBSET Job
    BY <1>1, <1>3
  <2>2. IsFiniteSet(X) /\ Cardinality(X) \in Nat
    BY <2>1, JobsAreFinite
  <2>3. Cardinality(X \cup {j}) = IF j \in X THEN Cardinality(X) ELSE Cardinality(X) + 1
    BY <2>2, FS_AddElement
  <2>4. ~(Cardinality(X) >= n)
    BY <1>1, <1>3
  <2>5. Cardinality(Y) <= n
    BY <2>1, <2>2, <2>3, <2>4
  <2> QED  BY <1>1, <2>5
<1> QED  BY <1>2, <1>3

(* Nothing but a claim puts a job in the hand of a process.                *)
LEMMA HandsOnlyEmpty ==
  ASSUME TypeOK, [Next]_vars, NEW p \in Proc, ~Claim(p), NEW j \in Job
  PROVE  /\ hand'[p][j] # "none" => hand[p][j] # "none"
         /\ hand'[p][j] = "claimed" => hand[p][j] = "claimed"
<1>1. ASSUME NEW q \in Proc, NEW i \in Job, NEW h \in Hand, SetHand(q, i, h), hand[q][i] # "none",
             h # "claimed"
      PROVE  /\ hand'[p][j] # "none" => hand[p][j] # "none"
             /\ hand'[p][j] = "claimed" => hand[p][j] = "claimed"
  BY <1>1, HandMoves
<1>2. ASSUME NEW q \in Proc, NEW i \in Job, Handle(q, i) \/ LoseClaim(q, i) \/ LoseWrite(q, i)
      PROVE  \E h \in Hand : SetHand(q, i, h) /\ hand[q][i] # "none" /\ h # "claimed"
  BY <1>2 DEF Handle, Execute, HandlerDone, HandlerThrows, HandlerStops, Finish, LoseClaim,
     LoseWrite, AfterError, AfterAbort, Hand, LastWrite
<1>3. ASSUME NEW q \in Proc, NEW i \in Job, GiveUp(q, i)
      PROVE  \/ UNCHANGED hand
             \/ \E h \in Hand : SetHand(q, i, h) /\ hand[q][i] # "none" /\ h # "claimed"
  BY <1>3 DEF GiveUp, Hand
<1>4. ASSUME NEW q \in Proc, Exit(q) \/ Crash(q)
      PROVE  /\ hand'[p][j] # "none" => hand[p][j] # "none"
             /\ hand'[p][j] = "claimed" => hand[p][j] = "claimed"
  BY <1>4 DEF Exit, Crash, Die, TypeOK
<1>5. ASSUME NEW q \in Proc, Claim(q)  PROVE hand'[p][j] = hand[p][j]
  <2>1. q # p
    BY <1>5
  <2>2. PICK i : SetHand(q, i, "claimed")
    BY <1>5 DEF Claim
  <2> QED  BY <2>1, <2>2 DEF SetHand, TypeOK
<1>6. ASSUME NEW q \in Proc, Beat(q) \/ Sweep(q) \/ Drain(q) \/ Start(q)  PROVE UNCHANGED hand
  BY <1>6 DEF Beat, Sweep, Drain, Start
<1>7. ASSUME NEW i \in Job, Enqueue(i) \/ Cancel(i) \/ Age(i)  PROVE UNCHANGED hand
  BY <1>7 DEF Enqueue, Cancel, Age
<1>8. CASE UNCHANGED vars
  BY <1>8 DEF vars
<1> QED  BY <1>1, <1>2, <1>3, <1>4, <1>5, <1>6, <1>7, <1>8 DEF Next

LEMMA WorkStays ==
  ASSUME OwnershipInv, [Next]_vars
  PROVE  \A k, x : OfThisKind(k)' = OfThisKind(k) /\ OfThisPair(k, x)' = OfThisPair(k, x)
<1>1. \A j \in Job : rows'[j].work = rows[j].work
  <2>1. CASE \E p \in Proc : Claim(p)
    BY <2>1, ClaimedRow
  <2>2. CASE \A p \in Proc : ~Claim(p)
    BY <2>2, WritesKeepRows DEF OnlyClaims, Rewritten, OwnershipInv
  <2> QED  BY <2>1, <2>2
<1> QED  BY <1>1 DEF OfThisKind, OfThisPair

LEMMA LessFitsAll ==
  ASSUME NEW A \in SUBSET Job, NEW B \in SUBSET A, Fits(A)
  PROVE  Fits(B)
<1>1. Concurrency \in Nat /\ \A k \in Kind : KindLimit[k] \in Nat /\ PairLimit[k] \in Nat
  BY QueueAssumption
<1>2. Cardinality(B) <= Concurrency
  <2>1. A \cap Job = A /\ B \cap Job = B
    OBVIOUS
  <2>2. Cardinality(A \cap Job) <= Concurrency
    BY <2>1 DEF Fits
  <2>3. Cardinality(B \cap Job) <= Concurrency
    BY <1>1, <2>2, LessFits
  <2> QED  BY <2>1, <2>3
<1>3. ASSUME NEW k \in Kind, KindLimit[k] # 0
      PROVE  Cardinality(B \cap OfThisKind(k)) <= KindLimit[k]
  <2>1. Cardinality(A \cap OfThisKind(k)) <= KindLimit[k]
    BY <1>3 DEF Fits
  <2> QED  BY <1>1, <2>1, LessFits
<1>4. ASSUME NEW k \in Kind, PairLimit[k] # 0, NEW x \in Project
      PROVE  Cardinality(B \cap OfThisPair(k, x)) <= PairLimit[k]
  <2>1. Cardinality(A \cap OfThisPair(k, x)) <= PairLimit[k]
    BY <1>4 DEF Fits
  <2> QED  BY <1>1, <2>1, LessFits
<1> QED  BY <1>2, <1>3, <1>4 DEF Fits

LEMMA RoomIsFit ==
  RoomInv <=> \A p \in Proc :
                /\ \A i, j \in Job : hand[p][i] = "claimed" /\ hand[p][j] = "claimed" => i = j
                /\ Fits(Held(p))
BY DEF RoomInv, Fits

(* A claim leaves out the kinds and pairs that have no room.               *)
LEMMA ClaimFits ==
  ASSUME OwnershipInv, RoomInv, NEW p \in Proc, Claim(p), NEW j \in Job, ~Saturated(p, j)
  PROVE  Fits(Held(p) \cup {j})
<1>1. Concurrency \in Nat /\ \A k \in Kind : KindLimit[k] \in Nat /\ PairLimit[k] \in Nat
  BY QueueAssumption
<1>2. Active(p) = Held(p) /\ Cardinality(Active(p)) < Concurrency /\ Held(p) \in SUBSET Job
  BY DEF Claim, Active, Held
<1>3. \A k, x : /\ OfKind(p, k) = Held(p) \cap OfThisKind(k)
                /\ OfPair(p, k, x) = Held(p) \cap OfThisPair(k, x)
  BY <1>2 DEF OfKind, OfPair, OfThisKind, OfThisPair
<1>4. PICK A \in SUBSET Job : A = Held(p)
  BY <1>2
<1>5. Fits(A)
  BY <1>4, RoomIsFit
<1>6. Cardinality(A \cup {j}) <= Concurrency
  <2>1. A \cap Job = A /\ (A \cup {j}) \cap Job = A \cup {j} /\ Cardinality(A) \in Nat
    BY JobsAreFinite
  <2>2. ~(Cardinality(A) >= Concurrency)
    BY <1>1, <1>2, <1>4, <2>1
  <2>3. ~(Cardinality(A \cap Job) >= Concurrency)
    BY <2>1, <2>2
  <2>4. Cardinality((A \cup {j}) \cap Job) <= Concurrency
    BY <1>1, <2>3, OneMoreFits
  <2> QED  BY <2>1, <2>4
<1>7. ASSUME NEW k \in Kind, KindLimit[k] # 0
      PROVE  Cardinality((A \cup {j}) \cap OfThisKind(k)) <= KindLimit[k]
  <2>1. Cardinality(A \cap OfThisKind(k)) <= KindLimit[k]
    BY <1>5, <1>7 DEF Fits
  <2>2. j \in OfThisKind(k) => ~(Cardinality(A \cap OfThisKind(k)) >= KindLimit[k])
    BY <1>3, <1>4, <1>7 DEF Saturated, Reached, Full, OfThisKind
  <2> QED  BY <1>1, <2>1, <2>2, OneMoreFits
<1>8. ASSUME NEW k \in Kind, PairLimit[k] # 0, NEW x \in Project
      PROVE  Cardinality((A \cup {j}) \cap OfThisPair(k, x)) <= PairLimit[k]
  <2>1. Cardinality(A \cap OfThisPair(k, x)) <= PairLimit[k]
    BY <1>5, <1>8 DEF Fits
  <2>2. ASSUME j \in OfThisPair(k, x)
        PROVE  ~(Cardinality(A \cap OfThisPair(k, x)) >= PairLimit[k])
    <3>1. rows[j].work.kind = k /\ rows[j].work.project = x /\ x # "none"
      BY <2>2, QueueAssumption DEF OfThisPair, OfThisKind
    <3>2. ~Reached(PairLimit[k], Cardinality(OfPair(p, k, x)))
      BY <3>1 DEF Saturated
    <3> QED  BY <1>3, <1>4, <1>8, <3>2 DEF Reached, Full
  <2> QED  BY <1>1, <2>1, <2>2, OneMoreFits
<1> QED  BY <1>4, <1>6, <1>7, <1>8 DEF Fits

LEMMA RoomStep ==
  ASSUME OwnershipInv, RoomInv, [Next]_vars
  PROVE  RoomInv'
<1>0. TypeOK
  BY DEF OwnershipInv
<1>1. \A A : Fits(A)' <=> Fits(A)
  BY WorkStays DEF Fits
<1>2. SUFFICES ASSUME NEW p \in Proc
      PROVE  /\ \A i, j \in Job : hand'[p][i] = "claimed" /\ hand'[p][j] = "claimed" => i = j
             /\ Fits(Held(p)')
  BY <1>1, WorkStays DEF RoomInv, Fits
<1>3. Held(p) \in SUBSET Job
  BY DEF Held
<1>4. CASE ~Claim(p)
  <2>1. Held(p)' \subseteq Held(p)
    BY <1>0, <1>4, HandsOnlyEmpty DEF Held
  <2>2. Fits(Held(p)')
    BY <1>3, <2>1, LessFitsAll, RoomIsFit
  <2> QED  BY <1>0, <1>4, <2>2, HandsOnlyEmpty DEF RoomInv
<1>5. CASE Claim(p)
  <2>1. PICK j \in Job :
          /\ ~Saturated(p, j) /\ hand'[p][j] = "claimed"
          /\ \A i \in Job : i # j => hand'[p][i] = hand[p][i]
    BY <1>5, ClaimedRow
  <2>2. Held(p)' = Held(p) \cup {j}
    BY <2>1 DEF Held
  <2>3. Fits(Held(p) \cup {j})
    BY <1>5, <2>1, ClaimFits
  <2>4. \A i \in Job : hand[p][i] # "claimed"
    BY <1>5 DEF Claim
  <2>5. Fits(Held(p)')
    BY <2>2, <2>3
  <2> QED  BY <2>1, <2>4, <2>5
<1> QED  BY <1>4, <1>5

-----------------------------------------------------------------------------
LEMMA QueueBegins == Init => QueueInv
<1> SUFFICES ASSUME Init PROVE QueueInv
  OBVIOUS
<1>1. /\ \A j \in Job : rows[j].status = "absent" /\ rows[j].attempts = 0
      /\ \A p \in Proc, j \in Job : hand[p][j] = "none"
      /\ faults = 0
  BY DEF Init
<1>2. AttemptsArePaid
  BY <1>1, QueueAssumption DEF AttemptsArePaid, Owed
<1>3. \A p \in Proc : Held(p) = {}
  BY <1>1 DEF Held
<1>4. Cardinality({}) = 0 /\ \A S : {} \cap S = {}
  BY FS_EmptySet
<1>5. Fits({})
  BY <1>4, QueueAssumption DEF Fits
<1>6. RoomInv
  BY <1>1, <1>3, <1>5, RoomIsFit
<1> QED  BY <1>2, <1>6, OwnershipBegins DEF QueueInv

(* The inductive invariant of the limits: attempts are paid for by claims  *)
(* and faults, and what a process holds fits its limits.                   *)
THEOREM QueueInvHolds == Spec => []QueueInv
<1>1. QueueInv /\ [Next]_vars => QueueInv'
  BY OwnershipStep, AttemptsStep, RoomStep DEF QueueInv
<1> QED  BY <1>1, SpecSteps, QueueBegins, PTL

(* No process ever runs more jobs of a kind, of a kind in one project or   *)
(* in all than it was told to (jobs.service.ts, poll and claim), and a job *)
(* gets an attempt beyond maxAttempts only for a crash, a stop or a lost   *)
(* write, one for each at most (requeueStale looks at no attempts).        *)
THEOREM LimitsAreHeld == Spec => []LimitsHeld
<1>1. QueueInv => LimitsHeld
  <2> SUFFICES ASSUME QueueInv PROVE LimitsHeld
    OBVIOUS
  <2>1. \A j \in Job : rows[j].attempts <= MaxAttempts + faults
    BY DEF QueueInv, AttemptsArePaid
  <2>2. ASSUME NEW p \in Proc
        PROVE  /\ Fits(Active(p))
               /\ \A k, x : /\ OfKind(p, k) = Active(p) \cap OfThisKind(k)
                            /\ OfPair(p, k, x) = Active(p) \cap OfThisPair(k, x)
    <3>1. Active(p) \subseteq Held(p) /\ Held(p) \in SUBSET Job
      BY DEF Active, Held
    <3>2. Fits(Held(p))
      BY RoomIsFit DEF QueueInv
    <3>3. Fits(Active(p))
      BY <3>1, <3>2, LessFitsAll
    <3>4. \A k, x : /\ OfKind(p, k) = Active(p) \cap OfThisKind(k)
                    /\ OfPair(p, k, x) = Active(p) \cap OfThisPair(k, x)
      BY DEF Active, OfKind, OfPair, OfThisKind, OfThisPair
    <3> QED  BY <3>3, <3>4
  <2> QED  BY <2>1, <2>2 DEF LimitsHeld, Fits
<1> QED  BY <1>1, QueueInvHolds, PTL
=============================================================================
