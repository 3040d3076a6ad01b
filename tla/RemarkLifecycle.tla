-------------------------- MODULE RemarkLifecycle --------------------------
(***************************************************************************)
(* One remark of RemarkRound, its agent runs and the human verdicts, as    *)
(* RemarksService writes them                                              *)
(* (src/apps/api/src/remarks/remarks.service.ts).                          *)
(*                                                                         *)
(* Every operation of the service reads the row without a lock, checks     *)
(* what it has read, and only later opens a transaction.  The model keeps  *)
(* that shape: Load... actions take the snapshot and perform the checks,   *)
(* the action named like the method is its transaction (one atomic step:   *)
(* its writes become visible at the commit, and the conditional UPDATE of  *)
(* the Remark row serialises transactions on that row), and any number of  *)
(* steps of other callers may happen in between.  A caller is one HTTP or  *)
(* WebSocket request, one graph execution or one sweeper: each performs    *)
(* one operation at a time.                                                *)
(*                                                                         *)
(* Screenshots, texts, citations, token usage and notifications are data   *)
(* that no property of this module looks at; rounds, creation and links    *)
(* between remarks are in RoundGate.                                       *)
(***************************************************************************)
EXTENDS Integers, FiniteSets

CONSTANTS
  Caller,   \* concurrent requests, graph executions and sweepers
  Ops,      \* the operations performed: all of Op, or a subset that bounds a run
  MaxRuns,  \* bound on the AgentRun rows of the remark
  Key       \* idempotency keys clients attach to verdicts

ASSUME MaxRunsAssumption == MaxRuns \in Nat \ {0}

VARIABLES
  status,       \* Remark.status
  runs,         \* AgentRun rows, numbered in creation order
  verdictKeys,  \* the unique index HumanVerdict(runId, idempotencyKey)
  lastVerdict,  \* code of the newest HumanVerdict
  advised,      \* does a DeveloperAdvice row exist
  lastRow,      \* the newest RemarkStatusChange row
  call          \* what each caller is in the middle of

row  == <<status, runs, verdictKeys, lastVerdict, advised, lastRow>>
vars == <<status, runs, verdictKeys, lastVerdict, advised, lastRow, call>>

-----------------------------------------------------------------------------
(* Values.                                                                 *)

Run == 1..MaxRuns

Decision == {"defect", "change_request", "unspecified", "duplicate", "cannot_tell"}
VerdictCode == Decision \cup {"rejected_binding"}

Status == Decision \cup
  {"imported", "needs_human_parse", "triaging", "awaiting_pm",
   "ready_for_retest", "awaiting_business_close", "closed", "reopened"}

Mode      == {"triage", "retest"}
RunStatus == {"none", "running", "awaiting_human", "persisted", "failed", "cancelled"}
Active    == {"running", "awaiting_human"}

Startable  == {"imported", "cannot_tell", "reopened"}
TriageBusy == {"triaging", "awaiting_pm"}
RetestBusy == {"ready_for_retest", "awaiting_business_close"}

(* The names of the history, and what is under way before its run check.   *)
Op == {"idle", "fix_row", "attach_screenshot", "triage",
       "check_proposal", "proposal", "run_failed", "cancel",
       "verdict", "rejected_binding", "advise", "ready_for_retest", "retest",
       "check_retest_result", "retest_result", "close", "not_fixed"}
Role == {"pm", "business", "none"}

(* op: the operation; seen: Remark.status in the snapshot; run: the run it  *)
(* is about; latest: was that run the newest one in the snapshot.           *)
Call == [op : Op, seen : Status, run : Run, latest : BOOLEAN,
         role : Role, code : VerdictCode, key : Key \cup {"none"}]

HistoryRow == [action : Op \cup {"create"}, from : Status, to : Status]

Idle == [op |-> "idle", seen |-> "imported", run |-> 1, latest |-> FALSE,
         role |-> "none", code |-> "defect", key |-> "none"]

TypeOK ==
  /\ status \in Status
  /\ runs \in [Run -> [mode : Mode, status : RunStatus]]
  /\ verdictKeys \subseteq Run \X Key
  /\ lastVerdict \in VerdictCode \cup {"none"}
  /\ advised \in BOOLEAN
  /\ lastRow \in HistoryRow
  /\ call \in [Caller -> Call]

-----------------------------------------------------------------------------
(* Reading the row.                                                        *)

Created(r)    == runs[r].status # "none"
Newest(r)     == Created(r) /\ \A s \in Run : Created(s) => s <= r
RetestRunning == \E r \in Run : runs[r] = [mode |-> "retest", status |-> "running"]

Load(c, k) ==
  /\ call[c] = Idle /\ k.op \in Ops
  /\ call' = [call EXCEPT ![c] = k]
  /\ UNCHANGED row

(* The snapshots: of the remark; of the remark and one of its runs; and of *)
(* both with the verdict that is to be written.                            *)
SeenVerdict(op, r, role, code, key) ==
  [op |-> op, seen |-> status, run |-> r, latest |-> op = "cancel" /\ Newest(r),
   role |-> role, code |-> code, key |-> key]
SeenRun(op, r) == SeenVerdict(op, r, "none", "defect", "none")
Seen(op)       == SeenRun(op, 1)

(* Mutant: a verdict accepts every status it could have been read in.      *)
AllowedWide(k) ==
  IF k.op = "verdict" THEN {"awaiting_pm", "unspecified"} ELSE {k.seen}

(* Writing it.  Allowed(k) is the set of statuses the conditional UPDATE of *)
(* the operation k accepts (the `from` argument of transition).             *)
Allowed(k) ==
  CASE k.op = "fix_row"          -> {"needs_human_parse"}
    [] k.op = "triage"           -> Startable
    [] k.op = "proposal"         -> {"triaging"}
    [] k.op = "rejected_binding" -> {"awaiting_pm"}
    [] k.op = "verdict"          -> {k.seen}
    [] k.op = "ready_for_retest" -> {"defect"}
    [] k.op \in {"retest", "retest_result"} -> {"ready_for_retest"}
    [] k.op = "close"            -> {k.seen}
    [] k.op = "not_fixed"        -> {"awaiting_business_close"}
    [] OTHER -> {}

Finish(c) == call' = [call EXCEPT ![c] = Idle]

WriteHistory(k, to) ==
  lastRow' = [action |-> k.op, from |-> k.seen, to |-> to]

(* Mutant: the status is written without a condition.                      *)
TransitionUnconditional(c, to) ==
  /\ status' = to
  /\ WriteHistory(call[c], to)
  /\ Finish(c)

Transition(c, to) ==
  /\ status \in Allowed(call[c])
  /\ status' = to
  /\ WriteHistory(call[c], to)
  /\ Finish(c)

SetRun(r, s)   == runs' = [runs EXCEPT ![r].status = s]

CreateRun(m) ==
  \E r \in Run :
    /\ ~Created(r) /\ \A s \in 1..(r - 1) : Created(s)
    /\ runs' = [runs EXCEPT ![r] = [mode |-> m, status |-> "running"]]

PersistRetests ==
  runs' = [r \in Run |->
             IF runs[r] = [mode |-> "retest", status |-> "awaiting_human"]
             THEN [runs[r] EXCEPT !.status = "persisted"] ELSE runs[r]]

-----------------------------------------------------------------------------
(* Initially the remark has been created by hand, by the journal import or *)
(* as a repeated claim (createNumbered), and no run exists.                *)
Init ==
  /\ status \in {"imported", "needs_human_parse", "reopened"}
  /\ runs = [r \in Run |-> [mode |-> "triage", status |-> "none"]]
  /\ verdictKeys = {}
  /\ lastVerdict = "none"
  /\ advised = FALSE
  /\ lastRow = [action |-> "create", from |-> status, to |-> status]
  /\ call = [c \in Caller |-> Idle]

(* A request or worker dies, or its transaction is refused (409 because    *)
(* the conditional UPDATE matched no row, P2002, a Postgres deadlock): it  *)
(* leaves nothing behind.                                                  *)
Abandon(c) ==
  /\ call[c] # Idle
  /\ Finish(c)
  /\ UNCHANGED row

-----------------------------------------------------------------------------
(* Preparing the remark.                                                   *)

LoadFixRow(c) == status = "needs_human_parse" /\ Load(c, Seen("fix_row"))

FixRow(c) ==
  /\ call[c].op = "fix_row"
  /\ Transition(c, "imported")
  /\ UNCHANGED <<runs, verdictKeys, lastVerdict, advised>>

LoadAttachScreenshot(c) ==
  status \in {"cannot_tell", "imported"} /\ Load(c, Seen("attach_screenshot"))

(* Unlike the other writes this one does not re-check the status.          *)
AttachScreenshot(c) ==
  /\ call[c].op = "attach_screenshot"
  /\ WriteHistory(call[c], call[c].seen)
  /\ Finish(c)
  /\ UNCHANGED <<status, runs, verdictKeys, lastVerdict, advised>>

-----------------------------------------------------------------------------
(* Triage: start, proposal, failure, cancellation.                         *)

LoadBeginTriage(c) == status \in Startable /\ Load(c, Seen("triage"))

BeginTriage(c) ==
  /\ call[c].op = "triage"
  /\ CreateRun("triage")
  /\ Transition(c, "triaging")
  /\ UNCHANGED <<verdictKeys, lastVerdict, advised>>

(* applyProposal reads the remark, then the run, then writes: the propose  *)
(* node of any execution of the run may call it, an execution that was     *)
(* aborted or superseded included.                                         *)
LoadProposal(c) ==
  \E r \in Run :
    /\ Created(r) /\ runs[r].mode = "triage"
    /\ status = "triaging"
    /\ Load(c, SeenRun("check_proposal", r))

CheckRun(c) ==
  /\ call[c].op \in {"check_proposal", "check_retest_result"}
  /\ runs[call[c].run].status = "running"
  /\ call' = [call EXCEPT ![c].op = IF @ = "check_proposal" THEN "proposal"
                                                           ELSE "retest_result"]
  /\ UNCHANGED row

ApplyProposal(c) ==
  /\ call[c].op = "proposal"
  /\ Transition(c, "awaiting_pm")
  /\ SetRun(call[c].run, "awaiting_human")
  /\ UNCHANGED <<verdictKeys, lastVerdict, advised>>

(* failRun, called when an execution fails for good and by failStaleRuns.  *)
(* The target status is computed from the snapshot; the UPDATE of the      *)
(* remark and of the run carry no condition.                               *)
LoadFailRun(c) ==
  \E r \in Run :
    /\ runs[r].status = "running"
    /\ Load(c, SeenRun("run_failed", r))

(* Mutant: the run's new status is written to the remark.                  *)
AfterFailureOfRun(k) ==
  IF runs[k.run].mode = "triage" /\ k.seen = "triaging" THEN "failed" ELSE k.seen

AfterFailure(k) ==
  IF runs[k.run].mode = "triage" /\ k.seen = "triaging" THEN "imported" ELSE k.seen

(* Mutant: the failure leaves no history row.                              *)
FailRunSilently(c) ==
  LET k == call[c] IN
  /\ k.op = "run_failed"
  /\ status' = IF AfterFailure(k) # k.seen THEN AfterFailure(k) ELSE status
  /\ SetRun(k.run, "failed")
  /\ Finish(c)
  /\ UNCHANGED <<verdictKeys, lastVerdict, advised, lastRow>>

FailRun(c) ==
  LET k == call[c] IN
  /\ k.op = "run_failed"
  /\ status' = IF AfterFailure(k) # k.seen THEN AfterFailure(k) ELSE status
  /\ SetRun(k.run, "failed")
  /\ WriteHistory(k, AfterFailure(k))
  /\ Finish(c)
  /\ UNCHANGED <<verdictKeys, lastVerdict, advised>>

LoadCancelRun(c) ==
  \E r \in Run :
    /\ runs[r].status \in Active
    /\ Load(c, SeenRun("cancel", r))

(* The statuses a cancelled run of this mode may be sent back from, and to.*)
BusyWith(m)    == IF m = "triage" THEN TriageBusy ELSE RetestBusy
AfterCancel(m) == IF m = "triage" THEN "imported" ELSE "ready_for_retest"

(* Mutant: the cancellation trusts the snapshot.                           *)
CancelMovesOnSnapshot(k) == k.latest /\ k.seen \in BusyWith(runs[k.run].mode)

(* Does the conditional UPDATE of cancelRun hit the remark.                *)
CancelMoves(k) ==
  LET busy == BusyWith(runs[k.run].mode) IN
  k.latest /\ k.seen \in busy /\ status \in busy

CancelRun(c) ==
  LET k       == call[c]
      moves   == CancelMoves(k)
      stops   == runs[k.run].status \in Active
      next    == AfterCancel(runs[k.run].mode)
  IN
  /\ k.op = "cancel"
  /\ status' = IF moves THEN next ELSE status
  /\ IF stops THEN SetRun(k.run, "cancelled") ELSE UNCHANGED runs
  /\ IF moves \/ stops THEN WriteHistory(k, IF moves THEN next ELSE k.seen)
                       ELSE UNCHANGED lastRow
  /\ Finish(c)
  /\ UNCHANGED <<verdictKeys, lastVerdict, advised>>

-----------------------------------------------------------------------------
(* The human decision.                                                     *)

(* May a person of this role give this code to a remark in this status.    *)
MayDecide(role, from, code) ==
  \/ from = "awaiting_pm" /\ role = "pm"
  \/ /\ from = "unspecified" /\ role \in {"pm", "business"}
     /\ code \in {"defect", "change_request"}

VerdictOp(code) == IF code = "rejected_binding" THEN code ELSE "verdict"

(* The client names the run; any run of the remark is accepted.  A key     *)
(* already recorded for the run answers applied: false and changes nothing.*)
LoadVerdict(c) ==
  \E r \in Run, k \in Key, code \in VerdictCode, role \in Role :
    /\ Created(r)
    /\ <<r, k>> \notin verdictKeys
    /\ MayDecide(role, status, code)
    /\ Load(c, SeenVerdict(VerdictOp(code), r, role, code, k))

(* HumanVerdict.create: the unique index refuses a second row.             *)
RecordVerdict(k) ==
  /\ <<k.run, k.key>> \notin verdictKeys
  /\ verdictKeys' = verdictKeys \cup {<<k.run, k.key>>}
  /\ lastVerdict' = k.code

RejectBinding(c) ==
  /\ call[c].op = "rejected_binding"
  /\ Transition(c, "triaging")
  /\ RecordVerdict(call[c])
  /\ SetRun(call[c].run, "running")
  /\ UNCHANGED advised

Verdict(c) ==
  /\ call[c].op = "verdict"
  /\ Transition(c, call[c].code)
  /\ RecordVerdict(call[c])
  /\ SetRun(call[c].run, "persisted")
  /\ UNCHANGED advised

LoadAdvise(c) == status = "awaiting_pm" /\ Load(c, Seen("advise"))

Advise(c) ==
  /\ call[c].op = "advise"
  /\ advised' = TRUE
  /\ Finish(c)
  /\ UNCHANGED <<status, runs, verdictKeys, lastVerdict, lastRow>>

RetractAdvice ==
  /\ advised' = FALSE
  /\ UNCHANGED <<status, runs, verdictKeys, lastVerdict, lastRow, call>>

-----------------------------------------------------------------------------
(* Repair, retest and closing.                                             *)

LoadReadyForRetest(c) == status = "defect" /\ Load(c, Seen("ready_for_retest"))

ReadyForRetest(c) ==
  /\ call[c].op = "ready_for_retest"
  /\ Transition(c, "ready_for_retest")
  /\ UNCHANGED <<runs, verdictKeys, lastVerdict, advised>>

LoadBeginRetest(c) ==
  /\ status = "ready_for_retest" /\ ~RetestRunning
  /\ Load(c, Seen("retest"))

BeginRetest(c) ==
  /\ call[c].op = "retest"
  /\ CreateRun("retest")
  /\ Transition(c, "ready_for_retest")
  /\ UNCHANGED <<verdictKeys, lastVerdict, advised>>

LoadRetestResult(c) ==
  \E r \in Run :
    /\ Created(r) /\ runs[r].mode = "retest"
    /\ status = "ready_for_retest"
    /\ Load(c, SeenRun("check_retest_result", r))

ApplyRetest(c) ==
  /\ call[c].op = "retest_result"
  /\ Transition(c, "awaiting_business_close")
  /\ SetRun(call[c].run, "awaiting_human")
  /\ UNCHANGED <<verdictKeys, lastVerdict, advised>>

LoadClose(c) ==
  /\ status \in RetestBusy /\ ~RetestRunning
  /\ Load(c, Seen("close"))

(* Mutant: the running retests are counted only in the snapshot.           *)
CloseWithoutRecount(c) ==
  /\ call[c].op = "close"
  /\ Transition(c, "closed")
  /\ PersistRetests
  /\ UNCHANGED <<verdictKeys, lastVerdict, advised>>

(* beginRetest leaves the status as it is, so the transaction counts the   *)
(* running retests again once it holds the row.                            *)
Close(c) ==
  /\ call[c].op = "close"
  /\ Transition(c, "closed")
  /\ ~RetestRunning
  /\ PersistRetests
  /\ UNCHANGED <<verdictKeys, lastVerdict, advised>>

LoadNotFixed(c) == status = "awaiting_business_close" /\ Load(c, Seen("not_fixed"))

NotFixed(c) ==
  /\ call[c].op = "not_fixed"
  /\ Transition(c, "defect")
  /\ PersistRetests
  /\ UNCHANGED <<verdictKeys, lastVerdict, advised>>

-----------------------------------------------------------------------------
Human(c) ==
  \/ LoadFixRow(c)           \/ FixRow(c)
  \/ LoadAttachScreenshot(c) \/ AttachScreenshot(c)
  \/ LoadBeginTriage(c)      \/ BeginTriage(c)
  \/ LoadCancelRun(c)        \/ CancelRun(c)
  \/ LoadVerdict(c)          \/ RejectBinding(c) \/ Verdict(c)
  \/ LoadAdvise(c)           \/ Advise(c)
  \/ LoadReadyForRetest(c)   \/ ReadyForRetest(c)
  \/ LoadBeginRetest(c)      \/ BeginRetest(c)
  \/ LoadClose(c)            \/ Close(c)
  \/ LoadNotFixed(c)         \/ NotFixed(c)

System(c) ==
  \/ LoadProposal(c)     \/ LoadRetestResult(c) \/ CheckRun(c)
  \/ ApplyProposal(c)    \/ ApplyRetest(c)
  \/ LoadFailRun(c)      \/ FailRun(c)

Next == RetractAdvice \/ \E c \in Caller : Human(c) \/ System(c) \/ Abandon(c)

Spec == Init /\ [][Next]_vars

-----------------------------------------------------------------------------
(* What the service promises.                                              *)

(* The status a remark shows is the one its newest human verdict gave it,  *)
(* or a later stage of the repair that only a `defect` verdict opens: no   *)
(* race of proposals, cancellations, failures and retests produces a       *)
(* decided, repaired or closed remark nobody has decided.                  *)
DecisionStands ==
  /\ status \in Decision => lastVerdict = status
  /\ status \in RetestBusy \cup {"closed"} => lastVerdict = "defect"

(* A closed remark has no comparison in progress (close and beginRetest    *)
(* guard each other although beginRetest does not change the status).      *)
NoRetestWhileClosed == status = "closed" => ~RetestRunning

(* The transitions of docs/STATUS.md.                                      *)
Moves ==
  {<<"needs_human_parse", "imported">>, <<"imported", "triaging">>,
   <<"triaging", "awaiting_pm">>, <<"awaiting_pm", "triaging">>,
   <<"triaging", "imported">>, <<"awaiting_pm", "imported">>,
   <<"cannot_tell", "triaging">>, <<"reopened", "triaging">>,
   <<"unspecified", "defect">>, <<"unspecified", "change_request">>,
   <<"defect", "ready_for_retest">>,
   <<"ready_for_retest", "awaiting_business_close">>, <<"ready_for_retest", "closed">>,
   <<"awaiting_business_close", "closed">>, <<"awaiting_business_close", "defect">>,
   <<"awaiting_business_close", "ready_for_retest">>}
  \cup ({"awaiting_pm"} \X Decision)

Arrow == \E m \in Moves : m[1] = status /\ m[2] = status'

Failing == \E c \in Caller : call[c].op = "run_failed" /\ call'[c] = Idle

(* Whatever the interleaving, a status changes only along an arrow of      *)
(* docs/STATUS.md - failRun, which writes without a condition, excepted.   *)
LegalMoves == [][Arrow \/ Failing]_status

(* Every change of the status leaves, in the same transaction, a history   *)
(* row of the operation that made it, which begins in the status its caller *)
(* has read and ends in the new one (ADR 011), the unconditional writes    *)
(* included.                                                               *)
EveryMoveIsRecorded ==
  [][\E c \in Caller :
       /\ call[c] # Idle /\ call'[c] = Idle
       /\ lastRow' = [action |-> call[c].op, from |-> call[c].seen, to |-> status']]_status

(* Caller c's transaction commits in this step, and has written something. *)
Commits(c, ops) == call[c].op \in ops /\ call'[c] = Idle /\ row' # row

(* A decision is taken by a role entitled to it in the status the remark   *)
(* really has at that moment, not only in the status that was read.        *)
EntitledDecision ==
  [][\A c \in Caller :
       Commits(c, {"verdict", "rejected_binding"})
         => MayDecide(call[c].role, status, call[c].code)]_vars

(* The history row of a decision, of a stage of the repair or of a result  *)
(* tells the status the remark really left (docs/STATUS.md reads from the  *)
(* `close` row whether the customer closed with or without a comparison).  *)
HistoryTellsFrom ==
  [][\A c \in Caller :
       Commits(c, {"fix_row", "proposal", "verdict", "rejected_binding", "ready_for_retest",
                   "retest", "retest_result", "close", "not_fixed"})
         => lastRow'.from = status]_vars

-----------------------------------------------------------------------------
(* What the documentation says of the unconditional and the wide writes.   *)

(* docs/STATUS.md: a status is written only over the statuses the writer   *)
(* expects; a failing triage gives up a remark that is being triaged, and  *)
(* not one whose proposal has reached the PM meanwhile.                    *)
FailureKeepsProposal ==
  [][Failing /\ status' # status => status = "triaging"]_vars

(* The comment in cancelRun: a verdict given in parallel is not overwritten *)
(* by the cancellation.                                                    *)
CancelKeepsVerdict ==
  [][\A c \in Caller :
       /\ Commits(c, {"cancel"})
       /\ call[c].seen # status /\ lastRow.action \in {"verdict", "rejected_binding"}
       => status' = status]_vars

=============================================================================
