----------------------- MODULE RemarkLifecycleProofs -----------------------
(***************************************************************************)
(* Theorems about RemarkLifecycle, RemarkCard and RemarkTurns, for every   *)
(* set of callers and keys and every bound on the number of runs.          *)
(*                                                                         *)
(* None of the invariants is inductive alone.  What a caller carries from  *)
(* its read to its write matters: CallOK records the facts its checks have *)
(* established and that stay true however late the write happens.          *)
(***************************************************************************)
EXTENDS RemarkTurns, SetLemmas

(* What the checks of an operation have established of its snapshot.        *)
Checked(k) ==
  /\ k.op = "verdict" => k.code \in Decision
  /\ k.op = "rejected_binding" => k.code = "rejected_binding"
  /\ k.op \in {"verdict", "rejected_binding"} =>
       k.key \in Key /\ MayDecide(k.role, k.seen, k.code)
  /\ k.op = "fix_row" => k.seen = "needs_human_parse"
  /\ k.op \in {"check_proposal", "proposal"} => k.seen = "triaging"
  /\ k.op = "ready_for_retest" => k.seen = "defect"
  /\ k.op \in {"retest", "check_retest_result", "retest_result"}
       => k.seen = "ready_for_retest"
  /\ k.op = "close" => k.seen \in RetestBusy
  /\ k.op = "not_fixed" => k.seen = "awaiting_business_close"

CallOK == \A c \in Caller : Checked(call[c])

TypeInv == TypeOK /\ CallOK

-----------------------------------------------------------------------------
(* The snapshots the reads build are well-typed calls.                     *)
LEMMA IdleIsCall == Idle \in Call /\ Idle.op = "idle" /\ Checked(Idle)
BY MaxRunsAssumption DEF Checked, Idle, Call, Op, Status, Run, Role, VerdictCode, Decision

LEMMA SeenVerdictIsCall ==
  ASSUME TypeOK, NEW op \in Op, NEW r \in Run, NEW role \in Role,
         NEW code \in VerdictCode, NEW key \in Key \cup {"none"}
  PROVE  /\ SeenVerdict(op, r, role, code, key) \in Call
         /\ SeenVerdict(op, r, role, code, key).op = op
         /\ SeenVerdict(op, r, role, code, key).seen = status
         /\ SeenVerdict(op, r, role, code, key).code = code
         /\ SeenVerdict(op, r, role, code, key).role = role
         /\ SeenVerdict(op, r, role, code, key).key = key
<1>1. (op = "cancel" /\ Newest(r)) \in BOOLEAN
  OBVIOUS
<1> QED  BY <1>1 DEF SeenVerdict, Call, TypeOK

LEMMA SeenRunIsCall ==
  ASSUME TypeOK, NEW op \in Op, NEW r \in Run
  PROVE  /\ SeenRun(op, r) \in Call
         /\ SeenRun(op, r).op = op /\ SeenRun(op, r).seen = status
BY SeenVerdictIsCall DEF SeenRun, Role, VerdictCode, Decision

LEMMA SeenIsCall ==
  ASSUME TypeOK, NEW op \in Op
  PROVE  Seen(op) \in Call /\ Seen(op).op = op /\ Seen(op).seen = status
BY SeenRunIsCall, MaxRunsAssumption DEF Seen, Run

(* A read changes only the caller's own record, and to a well-typed one.   *)
LEMMA LoadKeepsTypes ==
  ASSUME NEW c \in Caller, NEW k \in Call, TypeInv, Load(c, k), Checked(k)
  PROVE  TypeInv'
<1>1. call' = [call EXCEPT ![c] = k] /\ UNCHANGED row
  BY DEF Load
<1>2. call \in [Caller -> Call] /\ call' \in [Caller -> Call]
  BY <1>1 DEF TypeInv, TypeOK
<1>3. TypeOK'
  BY <1>1, <1>2 DEF TypeInv, TypeOK, row
<1>4. CallOK'
  BY <1>1, <1>2 DEF TypeInv, CallOK
<1> QED  BY <1>3, <1>4 DEF TypeInv

(* A finished caller is idle again, which keeps every call well-typed.     *)
LEMMA FinishKeepsCalls ==
  ASSUME NEW c \in Caller, TypeInv, Finish(c)
  PROVE  call' \in [Caller -> Call] /\ CallOK'
<1>1. call' = [call EXCEPT ![c] = Idle] /\ call \in [Caller -> Call]
  BY DEF Finish, TypeInv, TypeOK
<1>2. call' \in [Caller -> Call]
  BY <1>1, IdleIsCall
<1>3. CallOK'
  BY <1>1, IdleIsCall DEF TypeInv, CallOK
<1> QED  BY <1>2, <1>3

(* The writes of the runs keep their rows well-typed.                      *)
LEMMA SetRunKeepsTypes ==
  ASSUME TypeOK, NEW r \in Run, NEW s \in RunStatus, SetRun(r, s)
  PROVE  runs' \in [Run -> [mode : Mode, status : RunStatus]]
BY DEF SetRun, TypeOK

LEMMA CreateRunKeepsTypes ==
  ASSUME TypeOK, NEW m \in Mode, CreateRun(m)
  PROVE  runs' \in [Run -> [mode : Mode, status : RunStatus]]
BY DEF CreateRun, TypeOK, RunStatus

LEMMA PersistRetestsKeepsTypes ==
  ASSUME TypeOK, PersistRetests
  PROVE  runs' \in [Run -> [mode : Mode, status : RunStatus]]
BY DEF PersistRetests, TypeOK, RunStatus

(* A conditional transition to a status keeps the remark, its history and  *)
(* the calls well-typed.                                                   *)
LEMMA TransitionKeepsTypes ==
  ASSUME NEW c \in Caller, NEW to \in Status, TypeInv, Transition(c, to)
  PROVE  /\ status' \in Status /\ lastRow' \in HistoryRow
         /\ call' \in [Caller -> Call] /\ CallOK'
<1>1. call[c] \in Call
  BY DEF TypeInv, TypeOK
<1>2. status' \in Status /\ lastRow' \in HistoryRow
  BY <1>1 DEF Transition, WriteHistory, HistoryRow, Call
<1> QED  BY <1>2, FinishKeepsCalls DEF Transition

-----------------------------------------------------------------------------
(* The reads: every one of them builds a snapshot its checks support.      *)
LEMMA ReadKeepsTypes ==
  ASSUME NEW c \in Caller, TypeInv,
         \/ LoadFixRow(c) \/ LoadAttachScreenshot(c) \/ LoadBeginTriage(c)
         \/ LoadProposal(c) \/ LoadFailRun(c) \/ LoadCancelRun(c) \/ LoadVerdict(c)
         \/ LoadAdvise(c) \/ LoadReadyForRetest(c) \/ LoadBeginRetest(c)
         \/ LoadRetestResult(c) \/ LoadClose(c) \/ LoadNotFixed(c) \/ CheckRun(c)
  PROVE  TypeInv'
<1> USE DEF Op
<1> TypeOK
  BY DEF TypeInv
<1>1. CASE LoadFixRow(c)
  BY <1>1, SeenIsCall, LoadKeepsTypes DEF LoadFixRow, Checked
<1>2. CASE LoadAttachScreenshot(c)
  BY <1>2, SeenIsCall, LoadKeepsTypes DEF LoadAttachScreenshot, Checked
<1>3. CASE LoadBeginTriage(c)
  BY <1>3, SeenIsCall, LoadKeepsTypes DEF LoadBeginTriage, Checked
<1>4. CASE LoadProposal(c)
  BY <1>4, SeenRunIsCall, LoadKeepsTypes DEF LoadProposal, Checked
<1>5. CASE LoadFailRun(c)
  BY <1>5, SeenRunIsCall, LoadKeepsTypes DEF LoadFailRun, Checked
<1>6. CASE LoadCancelRun(c)
  BY <1>6, SeenRunIsCall, LoadKeepsTypes DEF LoadCancelRun, Checked
<1>7. CASE LoadVerdict(c)
  <2>1. PICK r \in Run, k \in Key, code \in VerdictCode, role \in Role :
          /\ MayDecide(role, status, code)
          /\ Load(c, SeenVerdict(VerdictOp(code), r, role, code, k))
    BY <1>7 DEF LoadVerdict
  <2>2. /\ VerdictOp(code) \in Op
        /\ VerdictOp(code) \in {"verdict", "rejected_binding"}
        /\ VerdictOp(code) = "verdict" => code \in Decision
        /\ VerdictOp(code) = "rejected_binding" => code = "rejected_binding"
    BY DEF VerdictOp, VerdictCode
  <2>3. Checked(SeenVerdict(VerdictOp(code), r, role, code, k))
    BY <2>1, <2>2, SeenVerdictIsCall DEF Checked
  <2> QED  BY <2>1, <2>2, <2>3, SeenVerdictIsCall, LoadKeepsTypes
<1>8. CASE LoadAdvise(c)
  BY <1>8, SeenIsCall, LoadKeepsTypes DEF LoadAdvise, Checked
<1>9. CASE LoadReadyForRetest(c)
  BY <1>9, SeenIsCall, LoadKeepsTypes DEF LoadReadyForRetest, Checked
<1>10. CASE LoadBeginRetest(c)
  BY <1>10, SeenIsCall, LoadKeepsTypes DEF LoadBeginRetest, Checked
<1>11. CASE LoadRetestResult(c)
  BY <1>11, SeenRunIsCall, LoadKeepsTypes DEF LoadRetestResult, Checked
<1>12. CASE LoadClose(c)
  BY <1>12, SeenIsCall, LoadKeepsTypes DEF LoadClose, Checked
<1>13. CASE LoadNotFixed(c)
  BY <1>13, SeenIsCall, LoadKeepsTypes DEF LoadNotFixed, Checked
<1>14. CASE CheckRun(c)
  <2>1. call[c] \in Call /\ Checked(call[c])
    BY DEF TypeInv, TypeOK, CallOK
  <2> DEFINE k == [call[c] EXCEPT !.op = IF @ = "check_proposal" THEN "proposal"
                                                                ELSE "retest_result"]
  <2>2. call' = [call EXCEPT ![c] = k] /\ UNCHANGED row
    BY <1>14 DEF CheckRun
  <2>3. k \in Call /\ Checked(k)
    BY <1>14, <2>1 DEF CheckRun, Call, Checked
  <2>4. TypeOK'
    BY <2>2, <2>3 DEF TypeInv, TypeOK, row
  <2>5. CallOK'
    BY <2>2, <2>3 DEF TypeInv, TypeOK, CallOK
  <2> QED  BY <2>4, <2>5 DEF TypeInv
<1> QED
  BY <1>1, <1>2, <1>3, <1>4, <1>5, <1>6, <1>7, <1>8, <1>9, <1>10, <1>11,
     <1>12, <1>13, <1>14

-----------------------------------------------------------------------------
(* The writes.                                                             *)
LEMMA WriteKeepsTypes ==
  ASSUME NEW c \in Caller, TypeInv,
         \/ FixRow(c) \/ AttachScreenshot(c) \/ BeginTriage(c) \/ ApplyProposal(c)
         \/ FailRun(c) \/ CancelRun(c) \/ RejectBinding(c) \/ Verdict(c) \/ Advise(c)
         \/ ReadyForRetest(c) \/ BeginRetest(c) \/ ApplyRetest(c) \/ Close(c)
         \/ NotFixed(c) \/ Abandon(c)
  PROVE  TypeInv'
<1> DEFINE k == call[c]
<1>a. TypeOK /\ k \in Call /\ Checked(k)
  BY DEF TypeInv, TypeOK, CallOK
<1>b. k.seen \in Status /\ k.run \in Run /\ k.op \in Op /\ k.code \in VerdictCode
  BY <1>a DEF Call
<1> USE DEF Status, RunStatus, Mode
<1>1. CASE FixRow(c)
  BY <1>1, <1>a, TransitionKeepsTypes DEF FixRow, TypeInv, TypeOK
<1>2. CASE AttachScreenshot(c)
  <2>1. lastRow' \in HistoryRow
    BY <1>2, <1>b DEF AttachScreenshot, WriteHistory, HistoryRow
  <2> QED  BY <1>2, <1>a, <2>1, FinishKeepsCalls DEF AttachScreenshot, TypeInv, TypeOK
<1>3. CASE BeginTriage(c)
  BY <1>3, <1>a, TransitionKeepsTypes, CreateRunKeepsTypes DEF BeginTriage, TypeInv, TypeOK
<1>4. CASE ApplyProposal(c)
  BY <1>4, <1>a, <1>b, TransitionKeepsTypes, SetRunKeepsTypes
     DEF ApplyProposal, TypeInv, TypeOK
<1>5. CASE FailRun(c)
  <2>1. AfterFailure(k) \in Status
    BY <1>b DEF AfterFailure
  <2>2. status' \in Status /\ lastRow' \in HistoryRow
    BY <1>5, <1>a, <1>b, <2>1 DEF FailRun, WriteHistory, HistoryRow, TypeOK
  <2>3. runs' \in [Run -> [mode : Mode, status : RunStatus]]
    BY <1>5, <1>a, <1>b, SetRunKeepsTypes DEF FailRun
  <2> QED  BY <1>5, <1>a, <2>2, <2>3, FinishKeepsCalls DEF FailRun, TypeInv, TypeOK
<1>6. CASE CancelRun(c)
  <2>1. AfterCancel(runs[k.run].mode) \in Status
    BY DEF AfterCancel
  <2>2. status' \in Status /\ lastRow' \in HistoryRow
    BY <1>6, <1>a, <1>b, <2>1 DEF CancelRun, WriteHistory, HistoryRow, TypeOK
  <2>3. runs' \in [Run -> [mode : Mode, status : RunStatus]]
    BY <1>6, <1>a, <1>b, SetRunKeepsTypes DEF CancelRun, TypeOK
  <2> QED  BY <1>6, <1>a, <2>2, <2>3, FinishKeepsCalls DEF CancelRun, TypeInv, TypeOK
<1>7. CASE RejectBinding(c)
  <2>1. verdictKeys' \subseteq Run \X Key /\ lastVerdict' \in VerdictCode
    BY <1>7, <1>a, <1>b DEF Checked, RejectBinding, RecordVerdict, TypeOK
  <2> QED
    BY <1>7, <1>a, <1>b, <2>1, TransitionKeepsTypes, SetRunKeepsTypes
       DEF RejectBinding, TypeInv, TypeOK
<1>8. CASE Verdict(c)
  <2>1. verdictKeys' \subseteq Run \X Key /\ lastVerdict' \in VerdictCode
    BY <1>8, <1>a, <1>b DEF Checked, Verdict, RecordVerdict, TypeOK
  <2>2. k.code \in Status
    BY <1>8, <1>a DEF Verdict, Checked
  <2> QED
    BY <1>8, <1>a, <1>b, <2>1, <2>2, TransitionKeepsTypes, SetRunKeepsTypes
       DEF Verdict, TypeInv, TypeOK
<1>9. CASE Advise(c)
  BY <1>9, <1>a, FinishKeepsCalls DEF Advise, TypeInv, TypeOK
<1>10. CASE ReadyForRetest(c)
  BY <1>10, <1>a, TransitionKeepsTypes DEF ReadyForRetest, TypeInv, TypeOK
<1>11. CASE BeginRetest(c)
  BY <1>11, <1>a, TransitionKeepsTypes, CreateRunKeepsTypes DEF BeginRetest, TypeInv, TypeOK
<1>12. CASE ApplyRetest(c)
  BY <1>12, <1>a, <1>b, TransitionKeepsTypes, SetRunKeepsTypes
     DEF ApplyRetest, TypeInv, TypeOK
<1>13. CASE Close(c)
  BY <1>13, <1>a, TransitionKeepsTypes, PersistRetestsKeepsTypes DEF Close, TypeInv, TypeOK
<1>14. CASE NotFixed(c)
  BY <1>14, <1>a, TransitionKeepsTypes, PersistRetestsKeepsTypes
     DEF NotFixed, TypeInv, TypeOK, Decision
<1>15. CASE Abandon(c)
  BY <1>15, <1>a, FinishKeepsCalls DEF Abandon, TypeInv, TypeOK, row
<1> QED
  BY <1>1, <1>2, <1>3, <1>4, <1>5, <1>6, <1>7, <1>8, <1>9, <1>10, <1>11,
     <1>12, <1>13, <1>14, <1>15

LEMMA InitTypes == Init => TypeInv
<1> SUFFICES ASSUME Init PROVE TypeInv
  OBVIOUS
<1>1. CallOK /\ call \in [Caller -> Call]
  BY IdleIsCall DEF Init, CallOK
<1> QED
  BY <1>1 DEF Init, TypeInv, TypeOK, Status, Decision, RunStatus, Mode, HistoryRow

LEMMA StepKeepsTypes == TypeInv /\ [Next]_vars => TypeInv'
<1> SUFFICES ASSUME TypeInv, [Next]_vars PROVE TypeInv'
  OBVIOUS
<1>1. CASE UNCHANGED vars
  BY <1>1 DEF TypeInv, TypeOK, CallOK, Checked, vars
<1>2. CASE RetractAdvice
  BY <1>2 DEF RetractAdvice, TypeInv, TypeOK, CallOK
<1>3. ASSUME NEW c \in Caller, Human(c) \/ System(c) \/ Abandon(c)
      PROVE  TypeInv'
  BY <1>3, ReadKeepsTypes, WriteKeepsTypes DEF Human, System
<1> QED  BY <1>1, <1>2, <1>3 DEF Next

LEMMA TypeInvHolds == Spec => []TypeInv
BY InitTypes, StepKeepsTypes, PTL DEF Spec

(* The tables of the service stay well-formed whatever the interleaving.   *)
THEOREM TypeCorrect == Spec => []TypeOK
<1>1. TypeInv => TypeOK
  BY DEF TypeInv
<1> QED  BY <1>1, TypeInvHolds, PTL

-----------------------------------------------------------------------------
(* The writes that leave the decision alone, or take one.                  *)
LEMMA StepKeepsDecision ==
  TypeInv /\ DecisionStands /\ [Next]_vars => DecisionStands'
<1> SUFFICES ASSUME TypeInv, DecisionStands, [Next]_vars PROVE DecisionStands'
  OBVIOUS
<1> USE DEF DecisionStands, Decision, RetestBusy
<1>1. CASE UNCHANGED <<status, lastVerdict>>
  BY <1>1
<1>2. ASSUME NEW c \in Caller, Human(c) \/ System(c) \/ Abandon(c),
             ~ UNCHANGED <<status, lastVerdict>>
      PROVE  DecisionStands'
  <2> DEFINE k == call[c]
  <2>a. Checked(k) /\ k \in Call
    BY DEF TypeInv, TypeOK, CallOK
  <2>b. ~ UNCHANGED row
    BY <1>2 DEF row
  <2>1. CASE FixRow(c)
    BY <2>1 DEF FixRow, Transition
  <2>2. CASE BeginTriage(c)
    BY <2>2 DEF BeginTriage, Transition
  <2>3. CASE ApplyProposal(c)
    BY <2>3 DEF ApplyProposal, Transition
  <2>4. CASE FailRun(c)
    BY <2>4, <1>2 DEF FailRun, AfterFailure
  <2>5. CASE CancelRun(c)
    BY <2>5, <1>2 DEF CancelRun, CancelMoves, BusyWith, AfterCancel, TriageBusy
  <2>6. CASE RejectBinding(c)
    BY <2>6 DEF RejectBinding, Transition
  <2>7. CASE Verdict(c)
    BY <2>7, <2>a DEF Verdict, Transition, RecordVerdict, Checked
  <2>8. CASE ReadyForRetest(c)
    BY <2>8 DEF ReadyForRetest, Transition, Allowed
  <2>9. CASE BeginRetest(c)
    BY <2>9 DEF BeginRetest, Transition, Allowed
  <2>10. CASE ApplyRetest(c)
    BY <2>10 DEF ApplyRetest, Transition, Allowed
  <2>11. CASE Close(c)
    BY <2>11, <2>a DEF Close, Transition, Allowed, Checked
  <2>12. CASE NotFixed(c)
    BY <2>12 DEF NotFixed, Transition, Allowed
  <2>13. ~AttachScreenshot(c) /\ ~Advise(c) /\ ~Abandon(c)
    BY <1>2, <2>b DEF AttachScreenshot, Advise, Abandon
  <2>14. /\ ~LoadFixRow(c) /\ ~LoadAttachScreenshot(c) /\ ~LoadBeginTriage(c)
         /\ ~LoadProposal(c) /\ ~LoadFailRun(c) /\ ~LoadCancelRun(c) /\ ~LoadVerdict(c)
         /\ ~LoadAdvise(c) /\ ~LoadReadyForRetest(c) /\ ~LoadBeginRetest(c)
         /\ ~LoadRetestResult(c) /\ ~LoadClose(c) /\ ~LoadNotFixed(c) /\ ~CheckRun(c)
    BY <2>b DEF LoadFixRow, LoadAttachScreenshot, LoadBeginTriage, LoadProposal,
       LoadFailRun, LoadCancelRun, LoadVerdict, LoadAdvise, LoadReadyForRetest,
       LoadBeginRetest, LoadRetestResult, LoadClose, LoadNotFixed, CheckRun, Load
  <2> QED
    BY <1>2, <2>1, <2>2, <2>3, <2>4, <2>5, <2>6, <2>7, <2>8, <2>9, <2>10, <2>11,
       <2>12, <2>13, <2>14 DEF Human, System
<1> QED  BY <1>1, <1>2 DEF Next, vars, RetractAdvice

(* Nobody's decision is made up or lost by a race: a decided, repaired or  *)
(* closed status always rests on the newest human verdict.                 *)
THEOREM DecisionAlwaysStands == Spec => []DecisionStands
<1>1. Init => DecisionStands
  BY DEF Init, DecisionStands, Decision, RetestBusy
<1> QED  BY <1>1, TypeInvHolds, StepKeepsDecision, PTL DEF Spec

-----------------------------------------------------------------------------
(* Only BeginRetest makes a retest run, and it leaves the remark waiting    *)
(* for the retest; close counts the running retests while it holds the row. *)
LEMMA StepKeepsClosedQuiet ==
  TypeInv /\ NoRetestWhileClosed /\ [Next]_vars => NoRetestWhileClosed'
<1> SUFFICES ASSUME TypeInv, NoRetestWhileClosed, [Next]_vars, status' = "closed"
             PROVE  ~RetestRunning'
  BY DEF NoRetestWhileClosed
<1>a. TypeOK
  BY DEF TypeInv
<1>b. ASSUME NEW r \in Run, NEW s \in RunStatus, SetRun(r, s), s # "running", ~RetestRunning
      PROVE  ~RetestRunning'
  BY <1>a, <1>b DEF SetRun, RetestRunning, TypeOK
<1>1. CASE UNCHANGED <<status, runs>>
  BY <1>1 DEF NoRetestWhileClosed, RetestRunning
<1>2. ASSUME NEW c \in Caller, Human(c) \/ System(c) \/ Abandon(c),
             ~ UNCHANGED <<status, runs>>
      PROVE  ~RetestRunning'
  <2> DEFINE k == call[c]
  <2>a. Checked(k) /\ k \in Call /\ k.run \in Run
    BY DEF TypeInv, TypeOK, CallOK, Call
  <2>1. CASE FixRow(c)
    BY <2>1 DEF FixRow, Transition
  <2>2. CASE BeginTriage(c)
    BY <2>2 DEF BeginTriage, Transition
  <2>3. CASE ApplyProposal(c)
    BY <2>3 DEF ApplyProposal, Transition
  <2>4. CASE FailRun(c)
    <3>1. status = "closed" /\ SetRun(k.run, "failed")
      BY <2>4 DEF FailRun, AfterFailure
    <3> QED  BY <3>1, <2>a, <1>b DEF NoRetestWhileClosed, RunStatus
  <2>5. CASE CancelRun(c)
    <3>1. status = "closed" /\ (SetRun(k.run, "cancelled") \/ UNCHANGED runs)
      BY <2>5 DEF CancelRun, AfterCancel
    <3> QED
      BY <3>1, <2>a, <1>b DEF NoRetestWhileClosed, RunStatus, RetestRunning
  <2>6. CASE RejectBinding(c)
    BY <2>6 DEF RejectBinding, Transition
  <2>7. CASE Verdict(c)
    BY <2>7, <2>a DEF Verdict, Transition, Checked, Decision
  <2>8. CASE ReadyForRetest(c)
    BY <2>8 DEF ReadyForRetest, Transition
  <2>9. CASE BeginRetest(c)
    BY <2>9 DEF BeginRetest, Transition
  <2>10. CASE ApplyRetest(c)
    BY <2>10 DEF ApplyRetest, Transition
  <2>11. CASE Close(c)
    BY <2>11, <1>a DEF Close, PersistRetests, RetestRunning, TypeOK
  <2>12. CASE NotFixed(c)
    BY <2>12 DEF NotFixed, Transition
  <2>13. ~AttachScreenshot(c) /\ ~Advise(c) /\ ~Abandon(c)
    BY <1>2 DEF AttachScreenshot, Advise, Abandon, row
  <2>14. /\ ~LoadFixRow(c) /\ ~LoadAttachScreenshot(c) /\ ~LoadBeginTriage(c)
         /\ ~LoadProposal(c) /\ ~LoadFailRun(c) /\ ~LoadCancelRun(c) /\ ~LoadVerdict(c)
         /\ ~LoadAdvise(c) /\ ~LoadReadyForRetest(c) /\ ~LoadBeginRetest(c)
         /\ ~LoadRetestResult(c) /\ ~LoadClose(c) /\ ~LoadNotFixed(c) /\ ~CheckRun(c)
    BY <1>2 DEF LoadFixRow, LoadAttachScreenshot, LoadBeginTriage, LoadProposal,
       LoadFailRun, LoadCancelRun, LoadVerdict, LoadAdvise, LoadReadyForRetest,
       LoadBeginRetest, LoadRetestResult, LoadClose, LoadNotFixed, CheckRun, Load, row
  <2> QED
    BY <1>2, <2>1, <2>2, <2>3, <2>4, <2>5, <2>6, <2>7, <2>8, <2>9, <2>10, <2>11,
       <2>12, <2>13, <2>14 DEF Human, System
<1> QED  BY <1>1, <1>2 DEF Next, vars, RetractAdvice

(* A remark is never closed under a comparison that still runs.            *)
THEOREM ClosedIsQuiet == Spec => []NoRetestWhileClosed
<1>1. Init => NoRetestWhileClosed
  BY DEF Init, NoRetestWhileClosed
<1> QED  BY <1>1, TypeInvHolds, StepKeepsClosedQuiet, PTL DEF Spec

-----------------------------------------------------------------------------
(* The operations that write under a condition on the status read, and the *)
(* human decisions among them.                                             *)
Exact == {"fix_row", "proposal", "verdict", "rejected_binding", "ready_for_retest",
          "retest", "retest_result", "close", "not_fixed"}
Decides == {"verdict", "rejected_binding"}

(* Each of them accepts only the status its caller has read.               *)
LEMMA AllowedIsSeen ==
  ASSUME NEW k \in Call, Checked(k), k.op \in Exact
  PROVE  Allowed(k) \subseteq {k.seen}
BY DEF Allowed, Checked, Exact, MayDecide

(* Only a caller's own step changes its call.                              *)
LEMMA OwnStep ==
  ASSUME TypeInv, [Next]_vars, NEW c \in Caller, call'[c] # call[c]
  PROVE  Human(c) \/ System(c) \/ Abandon(c)
<1>1. PICK d \in Caller : Human(d) \/ System(d) \/ Abandon(d)
  BY DEF Next, vars, RetractAdvice
<1>2. \E k : call' = [call EXCEPT ![d] = k]
  BY <1>1 DEF Human, System, Load, LoadFixRow, LoadAttachScreenshot, LoadBeginTriage,
     LoadProposal, LoadFailRun, LoadCancelRun, LoadVerdict, LoadAdvise,
     LoadReadyForRetest, LoadBeginRetest, LoadRetestResult, LoadClose, LoadNotFixed,
     CheckRun, FixRow, AttachScreenshot, BeginTriage, ApplyProposal, FailRun, CancelRun,
     RejectBinding, Verdict, Advise, ReadyForRetest, BeginRetest, ApplyRetest, Close,
     NotFixed, Abandon, Transition, Finish
<1>3. call \in [Caller -> Call]
  BY DEF TypeInv, TypeOK
<1>4. c = d
  BY <1>2, <1>3
<1> QED  BY <1>1, <1>4

(* A committed conditional write is a Transition; a committed decision also *)
(* wrote its verdict row.                                                  *)
LEMMA CommitIsTransition ==
  ASSUME TypeInv, [Next]_vars, NEW c \in Caller, Commits(c, Exact)
  PROVE  /\ \E to : Transition(c, to)
         /\ call[c].op \in Decides => RecordVerdict(call[c])
<1>1. call'[c] # call[c] /\ call[c].op \in Exact /\ row' # row
  BY IdleIsCall DEF Commits, Exact
<1>2. Human(c) \/ System(c) \/ Abandon(c)
  BY <1>1, OwnStep
<1>3. /\ ~AttachScreenshot(c) /\ ~FailRun(c) /\ ~CancelRun(c) /\ ~Advise(c)
      /\ ~Abandon(c) /\ ~BeginTriage(c)
  BY <1>1 DEF AttachScreenshot, FailRun, CancelRun, Advise, Abandon, BeginTriage, Exact, row
<1>4. /\ ~LoadFixRow(c) /\ ~LoadAttachScreenshot(c) /\ ~LoadBeginTriage(c)
      /\ ~LoadProposal(c) /\ ~LoadFailRun(c) /\ ~LoadCancelRun(c) /\ ~LoadVerdict(c)
      /\ ~LoadAdvise(c) /\ ~LoadReadyForRetest(c) /\ ~LoadBeginRetest(c)
      /\ ~LoadRetestResult(c) /\ ~LoadClose(c) /\ ~LoadNotFixed(c) /\ ~CheckRun(c)
  BY <1>1 DEF LoadFixRow, LoadAttachScreenshot, LoadBeginTriage, LoadProposal,
     LoadFailRun, LoadCancelRun, LoadVerdict, LoadAdvise, LoadReadyForRetest,
     LoadBeginRetest, LoadRetestResult, LoadClose, LoadNotFixed, CheckRun, Load, row
<1>5. \/ FixRow(c) \/ ApplyProposal(c) \/ RejectBinding(c) \/ Verdict(c)
      \/ ReadyForRetest(c) \/ BeginRetest(c) \/ ApplyRetest(c) \/ Close(c)
      \/ NotFixed(c)
  BY <1>2, <1>3, <1>4 DEF Human, System
<1> QED
  BY <1>5 DEF FixRow, ApplyProposal, RejectBinding, Verdict, ReadyForRetest, BeginRetest,
     ApplyRetest, Close, NotFixed, Decides

(* Such a write starts from the status its caller has read, and says so.   *)
LEMMA CommitFromSeen ==
  ASSUME TypeInv, [Next]_vars, NEW c \in Caller, Commits(c, Exact)
  PROVE  status = call[c].seen /\ lastRow'.from = status
<1>1. PICK to : Transition(c, to)
  BY CommitIsTransition
<1>2. call[c] \in Call /\ Checked(call[c]) /\ call[c].op \in Exact
  BY DEF TypeInv, TypeOK, CallOK, Commits
<1>3. status = call[c].seen
  BY <1>1, <1>2, AllowedIsSeen DEF Transition
<1> QED  BY <1>1, <1>3 DEF Transition, WriteHistory

(* The history of a remark never invents the status it moved from.         *)
THEOREM HistoryIsTrue == Spec => HistoryTellsFrom
<1>1. TypeInv /\ [Next]_vars =>
        [\A c \in Caller : Commits(c, Exact) => lastRow'.from = status]_vars
  BY CommitFromSeen
<1>2. TypeInv /\ [Next]_vars =>
        [\A c \in Caller :
           Commits(c, {"fix_row", "proposal", "verdict", "rejected_binding",
                       "ready_for_retest", "retest", "retest_result", "close", "not_fixed"})
             => lastRow'.from = status]_vars
  BY <1>1 DEF Exact
<1> QED  BY <1>2, TypeInvHolds, PTL DEF Spec, HistoryTellsFrom

(* A decision is entitled in the status the remark has when it commits.    *)
THEOREM DecisionsAreEntitled == Spec => EntitledDecision
<1>1. ASSUME TypeInv, [Next]_vars, NEW c \in Caller, Commits(c, Decides)
      PROVE  MayDecide(call[c].role, status, call[c].code)
  <2>1. Commits(c, Exact)
    BY <1>1 DEF Commits, Decides, Exact
  <2>2. status = call[c].seen
    BY <1>1, <2>1, CommitFromSeen
  <2>3. Checked(call[c]) /\ call[c].op \in Decides
    BY <1>1 DEF TypeInv, CallOK, Commits
  <2> QED  BY <2>2, <2>3 DEF Checked, Decides
<1>2. TypeInv /\ [Next]_vars =>
        [\A c \in Caller :
           Commits(c, {"verdict", "rejected_binding"})
             => MayDecide(call[c].role, status, call[c].code)]_vars
  BY <1>1 DEF Decides
<1> QED  BY <1>2, TypeInvHolds, PTL DEF Spec, EntitledDecision

-----------------------------------------------------------------------------
(* How a write moves the status, by its operation.                         *)
MovesBy(k) ==
  \/ k.op = "fix_row" /\ status = "needs_human_parse" /\ status' = "imported"
  \/ k.op = "triage" /\ status \in Startable /\ status' = "triaging"
  \/ k.op = "proposal" /\ status = "triaging" /\ status' = "awaiting_pm"
  \/ k.op = "run_failed" /\ status' = "imported"
  \/ k.op = "cancel" /\ status \in TriageBusy /\ status' = "imported"
  \/ k.op = "cancel" /\ status = "awaiting_business_close" /\ status' = "ready_for_retest"
  \/ k.op = "rejected_binding" /\ status = "awaiting_pm" /\ status' = "triaging"
  \/ /\ k.op = "verdict" /\ status = k.seen /\ status' = k.code
     /\ k.code \in Decision /\ MayDecide(k.role, k.seen, k.code)
  \/ k.op = "ready_for_retest" /\ status = "defect" /\ status' = "ready_for_retest"
  \/ k.op = "retest_result" /\ status = "ready_for_retest" /\ status' = "awaiting_business_close"
  \/ k.op = "close" /\ status \in RetestBusy /\ status' = "closed"
  \/ k.op = "not_fixed" /\ status = "awaiting_business_close" /\ status' = "defect"

(* What the operation of c leaves in the history.                          *)
Tells(c) ==
  /\ call[c] # Idle /\ call'[c] = Idle
  /\ lastRow' = [action |-> call[c].op, from |-> call[c].seen, to |-> status']

LEMMA TransitionTells ==
  ASSUME TypeInv, NEW c \in Caller, NEW to, Transition(c, to), call[c].op # "idle"
  PROVE  Tells(c)
<1>1. call \in [Caller -> Call]
  BY DEF TypeInv, TypeOK
<1>2. call' = [call EXCEPT ![c] = Idle] /\ status' = to
  BY DEF Transition, Finish
<1>3. call[c] # Idle
  BY DEF Idle
<1>4. lastRow' = [action |-> call[c].op, from |-> call[c].seen, to |-> status']
  BY <1>2 DEF Transition, WriteHistory
<1> QED  BY <1>1, <1>2, <1>3, <1>4 DEF Tells

(* Whatever changes the status is a write of one of these kinds, and leaves *)
(* its row.                                                                *)
LEMMA StatusMoves ==
  ASSUME TypeInv, [Next]_vars, status' # status
  PROVE  \E c \in Caller : Tells(c) /\ MovesBy(call[c])
<1>1. PICK c \in Caller : Human(c) \/ System(c) \/ Abandon(c)
  BY DEF Next, vars, RetractAdvice
<1> DEFINE k == call[c]
<1>a. Checked(k) /\ k \in Call
  BY DEF TypeInv, TypeOK, CallOK
<1> SUFFICES Tells(c) /\ MovesBy(k)
  OBVIOUS
<1>2. CASE FixRow(c)
  <2>1. Transition(c, "imported") /\ k.op = "fix_row"
    BY <1>2 DEF FixRow
  <2> QED  BY <2>1, TransitionTells DEF Transition, Allowed, MovesBy
<1>3. CASE BeginTriage(c)
  <2>1. Transition(c, "triaging") /\ k.op = "triage"
    BY <1>3 DEF BeginTriage
  <2> QED  BY <2>1, TransitionTells DEF Transition, Allowed, MovesBy
<1>4. CASE ApplyProposal(c)
  <2>1. Transition(c, "awaiting_pm") /\ k.op = "proposal"
    BY <1>4 DEF ApplyProposal
  <2> QED  BY <2>1, TransitionTells DEF Transition, Allowed, MovesBy
<1>5. CASE FailRun(c)
  <2>1. /\ k.op = "run_failed" /\ Finish(c) /\ WriteHistory(k, AfterFailure(k))
        /\ status' = "imported" /\ AfterFailure(k) = "imported"
    BY <1>5 DEF FailRun, AfterFailure
  <2>2. call'[c] = Idle /\ k # Idle
    BY <2>1 DEF Finish, TypeInv, TypeOK, Idle
  <2> QED  BY <2>1, <2>2 DEF WriteHistory, MovesBy, Tells
<1>6. CASE CancelRun(c)
  <2>1. /\ k.op = "cancel" /\ Finish(c) /\ CancelMoves(k)
        /\ status' = AfterCancel(runs[k.run].mode) /\ WriteHistory(k, status')
    BY <1>6 DEF CancelRun
  <2>2. call'[c] = Idle /\ k # Idle
    BY <2>1 DEF Finish, TypeInv, TypeOK, Idle
  <2>3. MovesBy(k)
    BY <2>1 DEF MovesBy, CancelMoves, BusyWith, AfterCancel, RetestBusy
  <2> QED  BY <2>1, <2>2, <2>3 DEF WriteHistory, Tells
<1>7. CASE RejectBinding(c)
  <2>1. Transition(c, "triaging") /\ k.op = "rejected_binding"
    BY <1>7 DEF RejectBinding
  <2> QED  BY <2>1, TransitionTells DEF Transition, Allowed, MovesBy
<1>8. CASE Verdict(c)
  <2>1. Transition(c, k.code) /\ k.op = "verdict"
    BY <1>8 DEF Verdict
  <2> QED  BY <2>1, <1>a, TransitionTells DEF Transition, Allowed, MovesBy, Checked
<1>9. CASE ReadyForRetest(c)
  <2>1. Transition(c, "ready_for_retest") /\ k.op = "ready_for_retest"
    BY <1>9 DEF ReadyForRetest
  <2> QED  BY <2>1, TransitionTells DEF Transition, Allowed, MovesBy
<1>10. CASE BeginRetest(c)
  BY <1>10 DEF BeginRetest, Transition, Allowed
<1>11. CASE ApplyRetest(c)
  <2>1. Transition(c, "awaiting_business_close") /\ k.op = "retest_result"
    BY <1>11 DEF ApplyRetest
  <2> QED  BY <2>1, TransitionTells DEF Transition, Allowed, MovesBy
<1>12. CASE Close(c)
  <2>1. Transition(c, "closed") /\ k.op = "close"
    BY <1>12 DEF Close
  <2> QED  BY <2>1, <1>a, TransitionTells DEF Transition, Allowed, MovesBy, Checked
<1>13. CASE NotFixed(c)
  <2>1. Transition(c, "defect") /\ k.op = "not_fixed"
    BY <1>13 DEF NotFixed
  <2> QED  BY <2>1, TransitionTells DEF Transition, Allowed, MovesBy
<1>14. ~AttachScreenshot(c) /\ ~Advise(c) /\ ~Abandon(c)
  BY DEF AttachScreenshot, Advise, Abandon, row
<1>15. /\ ~LoadFixRow(c) /\ ~LoadAttachScreenshot(c) /\ ~LoadBeginTriage(c)
       /\ ~LoadProposal(c) /\ ~LoadFailRun(c) /\ ~LoadCancelRun(c) /\ ~LoadVerdict(c)
       /\ ~LoadAdvise(c) /\ ~LoadReadyForRetest(c) /\ ~LoadBeginRetest(c)
       /\ ~LoadRetestResult(c) /\ ~LoadClose(c) /\ ~LoadNotFixed(c) /\ ~CheckRun(c)
  BY DEF LoadFixRow, LoadAttachScreenshot, LoadBeginTriage, LoadProposal,
     LoadFailRun, LoadCancelRun, LoadVerdict, LoadAdvise, LoadReadyForRetest,
     LoadBeginRetest, LoadRetestResult, LoadClose, LoadNotFixed, CheckRun, Load, row
<1> QED
  BY <1>1, <1>2, <1>3, <1>4, <1>5, <1>6, <1>7, <1>8, <1>9, <1>10, <1>11,
     <1>12, <1>13, <1>14, <1>15 DEF Human, System

(* No change of the status goes without a row that tells it.               *)
THEOREM MovesAreRecorded == Spec => EveryMoveIsRecorded
<1>1. TypeInv /\ [Next]_vars =>
        [\E c \in Caller :
           /\ call[c] # Idle /\ call'[c] = Idle
           /\ lastRow' = [action |-> call[c].op, from |-> call[c].seen, to |-> status']]_status
  BY StatusMoves DEF Tells
<1> QED  BY <1>1, TypeInvHolds, PTL DEF Spec, EveryMoveIsRecorded

(* The arrows of docs/STATUS.md are all there are, whatever interleaves,   *)
(* but for the failure of a run, which writes without a condition.         *)
THEOREM MovesAreLegal == Spec => LegalMoves
<1>1. ASSUME TypeInv, [Next]_vars, status' # status
      PROVE  Arrow \/ Failing
  <2>1. PICK c \in Caller : Tells(c) /\ MovesBy(call[c])
    BY <1>1, StatusMoves
  <2>2. CASE call[c].op = "run_failed"
    BY <2>1, <2>2 DEF Tells, Failing
  <2>3. CASE call[c].op # "run_failed"
    <3>1. <<status, status'>> \in Moves
      BY <2>1, <2>3
         DEF MovesBy, Moves, MayDecide, Decision, Startable, TriageBusy, RetestBusy
    <3> QED  BY <3>1 DEF Arrow
  <2> QED  BY <2>2, <2>3
<1>2. TypeInv /\ [Next]_vars => [Arrow \/ Failing]_status
  BY <1>1
<1> QED  BY <1>2, TypeInvHolds, PTL DEF Spec, LegalMoves

-----------------------------------------------------------------------------
(* Whose turn it is.                                                       *)

(* Whoever the journal says a remark waits for finds a button on its card, *)
(* but for the PM of a remark without a frame; so does whoever the bell    *)
(* calls when the status is the one its rules name.                        *)
WaitersCanStep ==
  /\ WaitsFor("pm") => CanStep("pm") \/ status = "cannot_tell"
  /\ WaitsFor("business") => CanStep("business")
  /\ WaitsFor("developer") => CanStep("developer")

LEMMA OffersMakeSteps ==
  ASSUME NEW p \in Person, NEW class \in ProposedClass, Offers(p, class, FALSE) # {}
  PROVE  CanStep(p)
BY DEF CanStep

LEMMA WaitersFindButtons == WaitersCanStep
<1>0. "unspecified" \in ProposedClass /\ {"pm", "business", "developer"} \subseteq Person
  BY DEF ProposedClass, Person
<1>1. ASSUME Running, NEW p \in {"pm", "business"}  PROVE CanStep(p)
  <2>1. <<"cancel", "none">> \in Offers(p, "unspecified", FALSE)
    BY <1>1 DEF Offers, Stop, Offer, MayOpen, Client
  <2> QED  BY <1>0, <2>1, OffersMakeSteps
<1>2. WaitsFor("pm") => CanStep("pm") \/ status = "cannot_tell"
  <2>1. CASE ~Running /\ status = "awaiting_pm"
    <3>1. <<"verdict", "defect">> \in Offers("pm", "unspecified", FALSE)
      BY <2>1 DEF Offers, Panel, PmPanel, PmTwo, Decisions, MayOpen
    <3> QED  BY <1>0, <3>1, OffersMakeSteps
  <2> QED  BY <1>1, <2>1 DEF WaitsFor
<1>3. WaitsFor("business") => CanStep("business")
  <2>1. CASE ~Running /\ WaitsFor("business")
    <3>0. status \in {"cannot_tell", "ready_for_retest", "awaiting_business_close", "unspecified"}
      BY <2>1 DEF WaitsFor
    <3>1. \/ <<"verdict", "defect">> \in BusinessPanel
          \/ <<"attach_screenshot", "none">> \in BusinessPanel
          \/ <<"close", "none">> \in BusinessPanel
      BY <3>0 DEF BusinessPanel, PmTwo, Decisions, Offer
    <3>2. BusinessPanel \subseteq Offers("business", "unspecified", FALSE)
      BY <2>1 DEF Offers, Panel, MayOpen
    <3> QED  BY <1>0, <3>1, <3>2, OffersMakeSteps
  <2> QED  BY <1>1, <2>1
<1>4. WaitsFor("developer") => CanStep("developer")
  <2>1. CASE status = "defect"
    <3>1. <<"ready_for_retest", "none">> \in Offers("developer", "unspecified", FALSE)
      BY <2>1 DEF Offers, Ready, Offer, MayOpen
    <3> QED  BY <1>0, <3>1, OffersMakeSteps
  <2> QED  BY <2>1 DEF WaitsFor
<1> QED  BY <1>2, <1>3, <1>4 DEF WaitersCanStep

(* Whoever a remark begins to wait for is called, nobody is called in vain, *)
(* and nothing is decided behind the customer's back: the bell, the        *)
(* journal, the queue and the buttons agree at every change of status.     *)
THEOREM TurnsAreTold == Spec => TurnsAreAnnounced
<1>1. ASSUME TypeInv, [Next]_vars, status' # status, WaitersCanStep'
      PROVE  /\ \A p \in Person :
                  /\ Newly(p) => p \in ToAct(lastRow')
                  /\ p \in ToAct(lastRow') => CanStep(p)'
                  /\ WaitsFor(p)' => CanStep(p)' \/ (p = "pm" /\ status' = "cannot_tell")
             /\ status' \in Decision \cup {"closed"}
                  => "business" \in ToAct(lastRow') \cup ToKnow(lastRow')
  <2>1. PICK c \in Caller : Tells(c) /\ MovesBy(call[c])
    BY <1>1, StatusMoves
  <2>2. PICK h : h = lastRow'
    OBVIOUS
  <2>3. h.action = call[c].op /\ h.from = call[c].seen /\ h.to = status'
    BY <2>1, <2>2 DEF Tells
  <2>4. \A p \in Person : Newly(p) => p \in ToAct(h)
    BY <2>1, <2>3 DEF Newly, WaitsFor, Person, ToAct, MovesBy, MayDecide, Decision,
       Startable, TriageBusy, RetestBusy
  <2>5. \A p \in Person : p \in ToAct(h) => WaitsFor(p)' /\ ~(p = "pm" /\ status' = "cannot_tell")
    BY <2>3 DEF WaitsFor, Person, ToAct
  <2>6. \A p \in Person : WaitsFor(p)' => CanStep(p)' \/ (p = "pm" /\ status' = "cannot_tell")
    BY <1>1 DEF WaitersCanStep, Person
  <2>7. status' \in Decision \cup {"closed"} => "business" \in ToAct(h) \cup ToKnow(h)
    BY <2>1, <2>3 DEF ToAct, ToKnow, MovesBy, Decision
  <2> QED  BY <2>2, <2>4, <2>5, <2>6, <2>7
<1>2. TypeInv /\ [Next]_vars /\ WaitersCanStep' =>
        [/\ \A p \in Person :
              /\ Newly(p) => p \in ToAct(lastRow')
              /\ p \in ToAct(lastRow') => CanStep(p)'
              /\ WaitsFor(p)' => CanStep(p)' \/ (p = "pm" /\ status' = "cannot_tell")
         /\ status' \in Decision \cup {"closed"}
              => "business" \in ToAct(lastRow') \cup ToKnow(lastRow')]_status
  BY <1>1
<1> QED  BY <1>2, WaitersFindButtons, TypeInvHolds, PTL DEF Spec, TurnsAreAnnounced

-----------------------------------------------------------------------------
(* What the card offers.                                                   *)

(* The newest run is a comparison; it is the only one so far.              *)
Retested(r) == Newest(r) /\ runs[r].mode = "retest"
Sole(r)     == Retested(r) /\ \A s \in Run : Created(s) /\ runs[s].mode = "retest" => s = r

Unstarted   == {"imported", "needs_human_parse", "reopened"}
Named == {"check_proposal", "proposal", "run_failed", "cancel", "verdict", "rejected_binding",
          "check_retest_result", "retest_result"}

(* What a caller knows of its run stays true: it exists, it is of its mode, *)
(* and a cancellation that names the newest run has found it the newest,   *)
(* under a comparison or after a failure that came too late.               *)
Knows(k) ==
  /\ k.op \in Named => Created(k.run)
  /\ k.op \in {"check_retest_result", "retest_result"} => runs[k.run].mode = "retest"
  /\ k.op = "cancel" =>
       /\ Newest(k.run) => k.latest
       /\ Sole(k.run) => k.seen \in RetestBusy \/ (k.seen = "imported" /\ status = "imported")

(* The only comparison is over when the remark has left it, and waits or   *)
(* has failed when its result is shown.                                    *)
SoleIsShown(r) ==
  /\ runs[r].status \in Active => status \in RetestBusy \cup {"imported"}
  /\ status = "awaiting_business_close" => runs[r].status \in {"awaiting_human", "failed"}

CardInv ==
  /\ \A r, s \in Run : Created(r) /\ s < r => Created(s)
  /\ status \notin Unstarted => HasRun
  /\ \A r \in Run : Retested(r) => status \in RetestBusy \cup {"closed", "defect", "imported"}
  /\ \A r \in Run : Sole(r) => SoleIsShown(r)
  /\ \A c \in Caller, k \in Call : k = call[c] => Knows(k)

(* The writes that create no run leave every run its place and its mode.   *)
SameRuns ==
  \A r \in Run : /\ (runs[r].status = "none") <=> (runs'[r].status = "none")
                 /\ runs'[r].mode = runs[r].mode

LEMMA SameRunsSameNewest ==
  ASSUME SameRuns
  PROVE  /\ HasRun' <=> HasRun
         /\ \A r \in Run : /\ Created(r)' <=> Created(r)
                           /\ Newest(r)' <=> Newest(r)
                           /\ Retested(r)' <=> Retested(r)
                           /\ Sole(r)' <=> Sole(r)
<1>1. \A r \in Run : Created(r)' <=> Created(r)
  BY DEF SameRuns, Created
<1>2. \A r \in Run : Newest(r)' <=> Newest(r)
  BY <1>1 DEF Newest
<1>3. \A r \in Run : Retested(r)' <=> Retested(r)
  BY <1>2 DEF Retested, SameRuns
<1>4. \A r \in Run : Sole(r)' <=> Sole(r)
  BY <1>1, <1>3 DEF Sole, SameRuns
<1> QED  BY <1>1, <1>2, <1>3, <1>4 DEF HasRun

LEMMA IdleKnows == Knows(Idle)
BY DEF Knows, Idle, Named

LEMMA SameRunsKeepCard ==
  ASSUME TypeInv, CardInv, NEW c \in Caller, Finish(c), SameRuns,
         status = "imported" => status' = "imported",
         status' \notin Unstarted => status \notin Unstarted,
         \A r \in Run : Retested(r) => status' \in RetestBusy \cup {"closed", "defect", "imported"},
         \A r \in Run : Sole(r) => SoleIsShown(r)'
  PROVE  CardInv'
<1>1. /\ call \in [Caller -> Call] /\ call' = [call EXCEPT ![c] = Idle]
      /\ \A k \in Call : k.run \in Run
  BY DEF Finish, TypeInv, TypeOK, Call
<1>2. \A d \in Caller, k \in Call : k = call'[d] => Knows(k)'
  <2> SUFFICES ASSUME NEW d \in Caller, NEW k \in Call, k = call'[d] PROVE Knows(k)'
    OBVIOUS
  <2>1. CASE d = c
    BY <1>1, <2>1 DEF Knows, Idle, Named
  <2>2. CASE d # c
    <3>1. Knows(k) /\ k.run \in Run
      BY <1>1, <2>2 DEF CardInv
    <3> QED  BY <3>1, SameRunsSameNewest DEF Knows, SameRuns
  <2> QED  BY <2>1, <2>2
<1> QED  BY <1>2, SameRunsSameNewest DEF CardInv

(* A new run is the newest, and alone in not having been in anybody's      *)
(* hands.                                                                  *)
LEMMA NewRunKeepsCard ==
  ASSUME TypeInv, CardInv, NEW c \in Caller, Finish(c), NEW m \in Mode, CreateRun(m),
         m = "retest" => status' = "ready_for_retest"
  PROVE  CardInv'
<1>1. PICK n \in Run : /\ ~Created(n) /\ \A s \in 1..(n - 1) : Created(s)
                       /\ runs' = [runs EXCEPT ![n] = [mode |-> m, status |-> "running"]]
  BY DEF CreateRun
<1>2. /\ call \in [Caller -> Call] /\ call' = [call EXCEPT ![c] = Idle]
      /\ \A k \in Call : k.run \in Run
      /\ Run \subseteq Nat
  BY MaxRunsAssumption DEF Finish, TypeInv, TypeOK, Call, Run
<1>3. /\ runs'[n] = [mode |-> m, status |-> "running"]
      /\ \A r \in Run : r # n => runs'[r] = runs[r]
  BY <1>1 DEF TypeInv, TypeOK
<1>4. Created(n)' /\ \A r \in Run : Created(r)' <=> (r = n \/ Created(r))
  BY <1>1, <1>3 DEF Created
<1>5. \A r \in Run : Created(r) => r < n
  BY <1>1, <1>2 DEF CardInv
<1>6. \A r \in Run : Newest(r)' => r = n
  BY <1>2, <1>4, <1>5 DEF Newest
<1>7. \A r, s \in Run : Created(r)' /\ s < r => Created(s)'
  <2>1. \A s \in Run : s < n => Created(s)
    BY <1>1, <1>2 DEF Run
  <2> QED  BY <1>4, <2>1 DEF CardInv
<1>8. HasRun'
  BY <1>4 DEF HasRun
<1>9. \A r \in Run : Retested(r)' => status' = "ready_for_retest"
  BY <1>3, <1>6 DEF Retested
<1>10. \A r \in Run : Sole(r)' => SoleIsShown(r)'
  BY <1>9 DEF Sole, SoleIsShown, RetestBusy
<1>11. \A d \in Caller, k \in Call : k = call'[d] => Knows(k)'
  <2> SUFFICES ASSUME NEW d \in Caller, NEW k \in Call, k = call'[d] PROVE Knows(k)'
    OBVIOUS
  <2>1. CASE d = c
    BY <1>2, <2>1 DEF Knows, Idle, Named
  <2>2. CASE d # c
    <3>1. Knows(k) /\ k.run \in Run
      BY <1>2, <2>2 DEF CardInv
    <3>2. k.op \in Named => k.run # n
      BY <1>1, <3>1 DEF Knows
    <3>3. "cancel" \in Named /\ {"check_retest_result", "retest_result"} \subseteq Named
      BY DEF Named
    <3> QED  BY <1>3, <1>4, <1>6, <3>1, <3>2, <3>3 DEF Knows, Sole, Retested
  <2> QED  BY <2>1, <2>2
<1> QED  BY <1>7, <1>8, <1>9, <1>10, <1>11 DEF CardInv, RetestBusy

(* The reads.                                                              *)
LEMMA LoadKeepsCard ==
  ASSUME TypeInv, CardInv, NEW c \in Caller, NEW k \in Call, Knows(k),
         call' = [call EXCEPT ![c] = k], UNCHANGED row
  PROVE  CardInv'
<1>1. call \in [Caller -> Call] /\ UNCHANGED <<runs, status>>
  BY DEF TypeInv, TypeOK, row
<1>2. SameRuns
  BY <1>1 DEF SameRuns
<1>3. \A j \in Call : Knows(j) => Knows(j)'
  BY <1>1, <1>2, SameRunsSameNewest DEF Knows, Call
<1>4. \A d \in Caller, j \in Call : j = call'[d] => Knows(j)'
  BY <1>1, <1>3 DEF CardInv
<1>5. \A r \in Run : SoleIsShown(r) => SoleIsShown(r)'
  BY <1>1 DEF SoleIsShown
<1> QED  BY <1>1, <1>2, <1>4, <1>5, SameRunsSameNewest DEF CardInv

LEMMA ReadKeepsCard ==
  ASSUME TypeInv, CardInv, NEW c \in Caller,
         \/ LoadFixRow(c) \/ LoadAttachScreenshot(c) \/ LoadBeginTriage(c)
         \/ LoadProposal(c) \/ LoadFailRun(c) \/ LoadCancelRun(c) \/ LoadVerdict(c)
         \/ LoadAdvise(c) \/ LoadReadyForRetest(c) \/ LoadBeginRetest(c)
         \/ LoadRetestResult(c) \/ LoadClose(c) \/ LoadNotFixed(c) \/ CheckRun(c)
  PROVE  CardInv'
<1>0. TypeOK
  BY DEF TypeInv
<1>a. ASSUME NEW k \in Call, Load(c, k), Knows(k)  PROVE CardInv'
  BY <1>a, LoadKeepsCard DEF Load
<1>b. ASSUME NEW op \in Op \ Named, Load(c, Seen(op))  PROVE CardInv'
  <2>1. Seen(op) \in Call /\ Seen(op).op = op
    BY <1>0, SeenIsCall
  <2>2. Knows(Seen(op))
    BY <2>1 DEF Knows, Named
  <2> QED  BY <1>a, <1>b, <2>1, <2>2
<1>c. ASSUME NEW op \in Named \ {"cancel"}, op \in Op, NEW r \in Run, Load(c, SeenRun(op, r)), Created(r),
             op = "check_retest_result" => runs[r].mode = "retest", op # "retest_result"
      PROVE  CardInv'
  <2>1. SeenRun(op, r) \in Call /\ SeenRun(op, r).op = op /\ SeenRun(op, r).run = r
    BY <1>0, <1>c, SeenRunIsCall DEF SeenRun, SeenVerdict
  <2>2. Knows(SeenRun(op, r))
    BY <1>c, <2>1 DEF Knows
  <2> QED  BY <1>a, <1>c, <2>1, <2>2
<1> USE DEF Op, Named
<1>1. CASE LoadFixRow(c) \/ LoadAttachScreenshot(c) \/ LoadBeginTriage(c) \/ LoadAdvise(c)
  BY <1>1, <1>b DEF LoadFixRow, LoadAttachScreenshot, LoadBeginTriage, LoadAdvise
<1>2. CASE LoadReadyForRetest(c) \/ LoadBeginRetest(c) \/ LoadClose(c) \/ LoadNotFixed(c)
  BY <1>2, <1>b DEF LoadReadyForRetest, LoadBeginRetest, LoadClose, LoadNotFixed
<1>3. CASE LoadProposal(c)
  BY <1>3, <1>c DEF LoadProposal
<1>4. CASE LoadFailRun(c)
  BY <1>4, <1>c DEF LoadFailRun, Created
<1>5. CASE LoadRetestResult(c)
  BY <1>5, <1>c DEF LoadRetestResult
<1>6. CASE LoadCancelRun(c)
  <2>1. PICK r \in Run : runs[r].status \in Active /\ Load(c, SeenRun("cancel", r))
    BY <1>6 DEF LoadCancelRun
  <2>2. PICK k : k = SeenRun("cancel", r)
    OBVIOUS
  <2>3. /\ k \in Call /\ k.op = "cancel" /\ k.seen = status /\ k.run = r
        /\ Newest(r) => k.latest
    BY <1>0, <2>2, SeenRunIsCall DEF SeenRun, SeenVerdict
  <2>4. Created(r) /\ (Sole(r) => status \in RetestBusy \cup {"imported"})
    BY <2>1 DEF Created, Active, CardInv, SoleIsShown
  <2>5. Knows(k)
    BY <2>3, <2>4 DEF Knows
  <2> QED  BY <1>a, <2>1, <2>2, <2>3, <2>5
<1>7. CASE LoadVerdict(c)
  <2>1. PICK r \in Run, key \in Key, code \in VerdictCode, role \in Role :
          Created(r) /\ Load(c, SeenVerdict(VerdictOp(code), r, role, code, key))
    BY <1>7 DEF LoadVerdict
  <2>2. PICK k : k = SeenVerdict(VerdictOp(code), r, role, code, key)
    OBVIOUS
  <2>3. VerdictOp(code) \in Op /\ VerdictOp(code) \in {"verdict", "rejected_binding"}
    BY DEF VerdictOp
  <2>4. k \in Call /\ k.op \in {"verdict", "rejected_binding"} /\ k.run = r
    BY <1>0, <2>2, <2>3, SeenVerdictIsCall DEF SeenVerdict
  <2>5. Knows(k)
    BY <2>1, <2>4 DEF Knows
  <2> QED  BY <1>a, <2>1, <2>2, <2>4, <2>5
<1>8. CASE CheckRun(c)
  <2>1. PICK k : k = [call[c] EXCEPT !.op = IF @ = "check_proposal" THEN "proposal"
                                                                   ELSE "retest_result"]
    OBVIOUS
  <2>2. PICK j : j = call[c]
    OBVIOUS
  <2>3. j \in Call /\ Knows(j) /\ j.op \in {"check_proposal", "check_retest_result"}
    BY <1>0, <1>8, <2>2 DEF CardInv, TypeOK, CheckRun
  <2>4. /\ k \in Call /\ k.run = j.run
        /\ k.op = IF j.op = "check_proposal" THEN "proposal" ELSE "retest_result"
    BY <2>1, <2>2, <2>3 DEF Call
  <2>5. Knows(k)
    BY <2>3, <2>4 DEF Knows
  <2> QED  BY <1>8, <2>1, <2>4, <2>5, LoadKeepsCard DEF CheckRun
<1> QED  BY <1>1, <1>2, <1>3, <1>4, <1>5, <1>6, <1>7, <1>8

(* The writes.                                                             *)
LEMMA SetRunSameRuns ==
  ASSUME TypeOK, NEW r \in Run, Created(r), NEW s \in RunStatus \ {"none"}, SetRun(r, s)
  PROVE  /\ SameRuns /\ runs'[r].status = s
         /\ \A q \in Run : q # r => runs'[q] = runs[q]
BY DEF TypeOK, SetRun, SameRuns, Created

LEMMA PersistSameRuns ==
  ASSUME TypeOK, PersistRetests
  PROVE  /\ SameRuns
         /\ \A q \in Run : runs[q].mode = "retest" => runs'[q].status # "awaiting_human"
         /\ \A q \in Run : runs'[q].status = runs[q].status \/ runs'[q].status = "persisted"
BY DEF TypeOK, PersistRetests, SameRuns

LEMMA StayedSameRuns ==
  ASSUME UNCHANGED runs
  PROVE  SameRuns
BY DEF SameRuns

LEMMA WriteKeepsCard ==
  ASSUME TypeInv, CardInv, NEW c \in Caller,
         \/ FixRow(c) \/ AttachScreenshot(c) \/ BeginTriage(c) \/ ApplyProposal(c)
         \/ FailRun(c) \/ CancelRun(c) \/ RejectBinding(c) \/ Verdict(c) \/ Advise(c)
         \/ ReadyForRetest(c) \/ BeginRetest(c) \/ ApplyRetest(c) \/ Close(c)
         \/ NotFixed(c) \/ Abandon(c)
  PROVE  CardInv'
<1>0. PICK k \in Call : k = call[c]
  BY DEF TypeInv, TypeOK
<1>a. TypeOK /\ Checked(k) /\ Knows(k) /\ k.run \in Run
  BY <1>0 DEF TypeInv, CallOK, CardInv, Call
<1>b. \A r \in Run : Retested(r) =>
        status \in {"ready_for_retest", "awaiting_business_close", "closed", "defect", "imported"}
  BY DEF CardInv, RetestBusy
<1>c. \A r \in Run : Sole(r) => Retested(r) /\ SoleIsShown(r)
  BY DEF CardInv, Sole
<1> USE DEF RetestBusy, Unstarted
<1>1. CASE FixRow(c)
  <2>1. status = "needs_human_parse" /\ status' = "imported" /\ UNCHANGED runs /\ Finish(c)
    BY <1>1 DEF FixRow, Transition, Allowed
  <2> QED  BY <1>b, <1>c, <2>1, StayedSameRuns, SameRunsKeepCard
<1>2. CASE AttachScreenshot(c) \/ Advise(c) \/ Abandon(c)
  <2>1. UNCHANGED <<status, runs>> /\ Finish(c)
    BY <1>2 DEF AttachScreenshot, Advise, Abandon, row
  <2>2. \A r \in Run : SoleIsShown(r) => SoleIsShown(r)'
    BY <2>1 DEF SoleIsShown
  <2> QED  BY <1>b, <1>c, <2>1, <2>2, StayedSameRuns, SameRunsKeepCard
<1>3. CASE BeginTriage(c)
  BY <1>3, NewRunKeepsCard DEF BeginTriage, Transition, Mode
<1>4. CASE BeginRetest(c)
  BY <1>4, NewRunKeepsCard DEF BeginRetest, Transition, Mode
<1>5. CASE ApplyProposal(c)
  <2>1. /\ k.op = "proposal" /\ status = "triaging" /\ status' = "awaiting_pm"
        /\ Finish(c) /\ SetRun(k.run, "awaiting_human")
    BY <1>0, <1>5 DEF ApplyProposal, Transition, Allowed
  <2>2. SameRuns
    BY <1>a, <2>1, SetRunSameRuns DEF Knows, Named, RunStatus
  <2> QED  BY <1>b, <1>c, <2>1, <2>2, SameRunsKeepCard
<1>6. CASE FailRun(c)
  <2>1. /\ k.op = "run_failed" /\ status' \in {status, "imported"}
        /\ Finish(c) /\ SetRun(k.run, "failed")
    BY <1>0, <1>6 DEF FailRun, AfterFailure
  <2>2. /\ SameRuns /\ runs'[k.run].status = "failed"
        /\ \A q \in Run : q # k.run => runs'[q] = runs[q]
    BY <1>a, <2>1, SetRunSameRuns DEF Knows, Named, RunStatus
  <2>3. \A r \in Run : SoleIsShown(r) => SoleIsShown(r)'
    BY <2>1, <2>2 DEF SoleIsShown, Active
  <2> QED  BY <1>b, <1>c, <2>1, <2>2, <2>3, SameRunsKeepCard
<1>7. CASE CancelRun(c)
  <2>1. /\ k.op = "cancel" /\ Finish(c)
        /\ CancelMoves(k) => status' = AfterCancel(runs[k.run].mode)
        /\ ~CancelMoves(k) => status' = status
        /\ \/ runs[k.run].status \in Active /\ SetRun(k.run, "cancelled")
           \/ runs[k.run].status \notin Active /\ UNCHANGED runs
    BY <1>0, <1>7 DEF CancelRun
  <2>2. Created(k.run)
    BY <1>a, <2>1 DEF Knows, Named
  <2>3. /\ SameRuns /\ runs'[k.run].status \notin Active
        /\ \A q \in Run : q # k.run => runs'[q] = runs[q]
    BY <1>a, <2>1, <2>2, SetRunSameRuns, StayedSameRuns DEF RunStatus, Active
  <2>4. CancelMoves(k) => \/ status \in TriageBusy /\ status' = "imported"
                          \/ /\ status \in RetestBusy /\ status' = "ready_for_retest"
                             /\ runs[k.run].mode # "triage"
    BY <2>1 DEF CancelMoves, BusyWith, AfterCancel
  <2>5. ASSUME NEW r \in Run, Sole(r)  PROVE SoleIsShown(r)'
    <3>1. status \notin TriageBusy /\ SoleIsShown(r) /\ Newest(r) /\ runs[r].mode = "retest"
      BY <1>b, <1>c, <2>5 DEF TriageBusy, Retested
    <3>2. CASE CancelMoves(k)
      <4>1. runs[k.run].mode = "retest" /\ status' = "ready_for_retest"
        BY <1>a, <2>4, <3>1, <3>2 DEF TypeOK, Mode
      <4> QED  BY <4>1 DEF SoleIsShown
    <3>3. CASE ~CancelMoves(k) /\ r # k.run
      BY <2>1, <2>3, <3>1, <3>3 DEF SoleIsShown
    <3>4. CASE ~CancelMoves(k) /\ r = k.run
      <4>1. k.latest /\ (k.seen \in RetestBusy \/ status = "imported")
        BY <1>a, <2>1, <2>5, <3>1, <3>4 DEF Knows
      <4>2. status # "awaiting_business_close"
        BY <3>1, <3>4, <4>1 DEF CancelMoves, BusyWith
      <4> QED  BY <2>1, <2>3, <3>4, <4>2 DEF SoleIsShown
    <3> QED  BY <3>2, <3>3, <3>4
  <2>6. \A r \in Run : Retested(r) => status' \in RetestBusy \cup {"closed", "defect", "imported"}
    BY <1>b, <2>1, <2>4
  <2>7. /\ status = "imported" => status' = "imported"
        /\ status' \notin Unstarted => status \notin Unstarted
    BY <2>1, <2>4 DEF TriageBusy
  <2> QED  BY <2>1, <2>3, <2>5, <2>6, <2>7, SameRunsKeepCard
<1>8. CASE RejectBinding(c)
  <2>1. /\ k.op = "rejected_binding" /\ status = "awaiting_pm" /\ status' = "triaging"
        /\ Finish(c) /\ SetRun(k.run, "running")
    BY <1>0, <1>8 DEF RejectBinding, Transition, Allowed
  <2>2. SameRuns
    BY <1>a, <2>1, SetRunSameRuns DEF Knows, Named, RunStatus
  <2> QED  BY <1>b, <1>c, <2>1, <2>2, SameRunsKeepCard
<1>9. CASE Verdict(c)
  <2>1. /\ k.op = "verdict" /\ status = k.seen /\ status' = k.code
        /\ Finish(c) /\ SetRun(k.run, "persisted")
    BY <1>0, <1>9 DEF Verdict, Transition, Allowed
  <2>2. SameRuns
    BY <1>a, <2>1, SetRunSameRuns DEF Knows, Named, RunStatus
  <2>3. status \in {"awaiting_pm", "unspecified"}
    BY <1>a, <2>1 DEF Checked, MayDecide
  <2> QED  BY <1>b, <1>c, <2>1, <2>2, <2>3, SameRunsKeepCard
<1>10. CASE ReadyForRetest(c)
  <2>1. status = "defect" /\ status' = "ready_for_retest" /\ UNCHANGED runs /\ Finish(c)
    BY <1>10 DEF ReadyForRetest, Transition, Allowed
  <2>2. \A r \in Run : SoleIsShown(r)'
    BY <2>1 DEF SoleIsShown
  <2> QED  BY <2>1, <2>2, StayedSameRuns, SameRunsKeepCard
<1>11. CASE ApplyRetest(c)
  <2>1. /\ k.op = "retest_result" /\ status = "ready_for_retest"
        /\ status' = "awaiting_business_close" /\ Finish(c) /\ SetRun(k.run, "awaiting_human")
    BY <1>0, <1>11 DEF ApplyRetest, Transition, Allowed
  <2>2. Created(k.run) /\ runs[k.run].mode = "retest"
    BY <1>a, <2>1 DEF Knows, Named
  <2>3. SameRuns /\ runs'[k.run].status = "awaiting_human"
    BY <1>a, <2>1, <2>2, SetRunSameRuns DEF RunStatus
  <2>4. \A r \in Run : Sole(r) => r = k.run
    BY <1>a, <2>2 DEF Sole
  <2>5. \A r \in Run : Sole(r) => SoleIsShown(r)'
    BY <2>1, <2>3, <2>4 DEF SoleIsShown
  <2> QED  BY <2>1, <2>3, <2>5, SameRunsKeepCard
<1>12. CASE Close(c)
  <2>1. /\ status' = "closed" /\ Finish(c) /\ PersistRetests /\ ~RetestRunning
        /\ k.op = "close" /\ status \in {k.seen}
    BY <1>0, <1>12 DEF Close, Transition, Allowed
  <2>2. status \in RetestBusy
    BY <1>a, <2>1 DEF Checked
  <2>3. /\ SameRuns
        /\ \A q \in Run : runs[q].mode = "retest" => runs'[q].status # "awaiting_human"
        /\ \A q \in Run : runs'[q].status = runs[q].status \/ runs'[q].status = "persisted"
    BY <1>a, <2>1, PersistSameRuns
  <2>4. ASSUME NEW r \in Run, Sole(r)  PROVE SoleIsShown(r)'
    <3>1. runs[r].mode = "retest" /\ runs[r].status # "running"
      BY <1>a, <1>c, <2>1, <2>4 DEF Retested, RetestRunning, TypeOK
    <3> QED  BY <2>1, <2>3, <3>1 DEF SoleIsShown, Active
  <2> QED  BY <2>1, <2>2, <2>3, <2>4, SameRunsKeepCard
<1>13. CASE NotFixed(c)
  <2>1. /\ status = "awaiting_business_close" /\ status' = "defect" /\ Finish(c) /\ PersistRetests
    BY <1>13 DEF NotFixed, Transition, Allowed
  <2>2. /\ SameRuns
        /\ \A q \in Run : runs[q].mode = "retest" => runs'[q].status # "awaiting_human"
        /\ \A q \in Run : runs'[q].status = runs[q].status \/ runs'[q].status = "persisted"
    BY <1>a, <2>1, PersistSameRuns
  <2>3. ASSUME NEW r \in Run, Sole(r)  PROVE SoleIsShown(r)'
    <3>1. runs[r].mode = "retest" /\ runs[r].status # "running"
      BY <1>c, <2>1, <2>3 DEF Retested, SoleIsShown
    <3> QED  BY <2>1, <2>2, <3>1 DEF SoleIsShown, Active
  <2> QED  BY <2>1, <2>2, <2>3, SameRunsKeepCard
<1> QED
  BY <1>1, <1>2, <1>3, <1>4, <1>5, <1>6, <1>7, <1>8, <1>9, <1>10, <1>11, <1>12, <1>13

LEMMA CardBegins == Init => CardInv
<1> SUFFICES ASSUME Init PROVE CardInv
  OBVIOUS
<1>1. \A r \in Run : ~Created(r)
  BY DEF Init, Created
<1>2. \A c \in Caller, k \in Call : k = call[c] => Knows(k)
  BY IdleKnows DEF Init
<1> QED  BY <1>1, <1>2 DEF Init, CardInv, Unstarted, Retested, Sole, Newest

LEMMA StepKeepsCard == TypeInv /\ CardInv /\ [Next]_vars => CardInv'
<1> SUFFICES ASSUME TypeInv, CardInv, [Next]_vars PROVE CardInv'
  OBVIOUS
<1>1. CASE UNCHANGED <<status, runs, call>>
  BY <1>1 DEF CardInv, HasRun, Created, Newest, Retested, Sole, SoleIsShown, Knows
<1>2. ASSUME NEW c \in Caller, Human(c) \/ System(c) \/ Abandon(c)
      PROVE  CardInv'
  BY <1>2, ReadKeepsCard, WriteKeepsCard DEF Human, System
<1> QED  BY <1>1, <1>2 DEF Next, vars, RetractAdvice

LEMMA CardInvHolds == Spec => [](TypeInv /\ CardInv)
BY TypeInvHolds, CardBegins, StepKeepsCard, PTL DEF Spec

(* A remark that has a run has a newest one, which the page finds.         *)
LEMMA PageFindsNewest ==
  ASSUME HasRun
  PROVE  /\ NewestRun \in Run /\ Newest(NewestRun)
         /\ \A r \in Run : Newest(r) => r = NewestRun
<1>1. Run \subseteq Nat /\ IsFiniteSet(Run)
  BY MaxRunsAssumption, FS_Interval DEF Run
<1> DEFINE T == {r \in Run : Created(r)}
<1>2. T \in SUBSET Nat /\ IsFiniteSet(T) /\ T # {}
  BY <1>1, FS_Subset DEF HasRun
<1> HIDE DEF T
<1>3. PICK n \in T : \A r \in T : r <= n
  BY <1>2, FiniteHasLargest
<1>4. n \in Run /\ Newest(n)
  BY <1>3 DEF T, Newest
<1>5. NewestRun \in Run /\ Newest(NewestRun)
  BY <1>4, Zenon DEF NewestRun
<1>6. ASSUME NEW r \in Run, Newest(r)  PROVE r = NewestRun
  <2>1. r <= NewestRun /\ NewestRun <= r
    BY <1>5, <1>6 DEF Newest
  <2> QED  BY <1>1, <1>5, <2>1
<1> QED  BY <1>5, <1>6

(* Where nothing works on the newest run, a comparison that runs is an     *)
(* older one.                                                              *)
LEMMA IdleCardNoRetest ==
  ASSUME ~Running, RetestRunning
  PROVE  OldRetestRuns
<1>1. PICK r \in Run : runs[r] = [mode |-> "retest", status |-> "running"]
  BY DEF RetestRunning
<1>2. HasRun
  BY <1>1 DEF HasRun, Created
<1>3. ~Newest(r)
  BY <1>1, <1>2, PageFindsNewest DEF Running
<1> QED  BY <1>1, <1>3 DEF OldRetestRuns

LEMMA PanelIsAccepted ==
  ASSUME CardInv, NEW p \in Person, NEW class \in ProposedClass, NEW o \in Panel(p, class)
  PROVE  Accepts(p, o[1], o[2]) \/ OldRetestRuns
<1>1. ~Running
  BY DEF Panel
<1>2. RetestRunning => OldRetestRuns
  BY <1>1, IdleCardNoRetest
<1>3. status \in {"awaiting_pm", "unspecified"} => HasRun
  BY DEF CardInv, Unstarted
<1>4. CASE p = "pm"
  <2>1. status = "awaiting_pm" /\ o[1] \in {"verdict", "rejected_binding"}
    BY <1>1, <1>4 DEF Panel, PmPanel, PmTwo, PmFull, Decisions
  <2> QED  BY <1>3, <1>4, <2>1 DEF Accepts, Routes, MayDecide
<1>5. CASE p = "business"
  <2>1. o \in BusinessPanel
    BY <1>1, <1>5 DEF Panel
  <2>2. CASE status = "unspecified"
    <3>1. o[1] = "verdict" /\ o[2] \in {"defect", "change_request"}
      BY <2>1, <2>2 DEF BusinessPanel, PmTwo, Decisions
    <3> QED  BY <1>3, <1>5, <2>2, <3>1 DEF Accepts, Routes, MayDecide
  <2>3. CASE status = "cannot_tell"
    <3>1. o[1] = "attach_screenshot"
      BY <2>1, <2>3 DEF BusinessPanel, Offer
    <3> QED  BY <1>5, <2>3, <3>1 DEF Accepts, Routes
  <2>4. CASE status \in {"ready_for_retest", "awaiting_business_close"}
    <3>1. o[1] = "close" \/ (o[1] = "not_fixed" /\ status = "awaiting_business_close")
      BY <2>1, <2>4 DEF BusinessPanel, Offer
    <3> QED  BY <1>2, <1>5, <2>4, <3>1 DEF Accepts, Routes, RetestBusy
  <2> QED  BY <2>1, <2>2, <2>3, <2>4 DEF BusinessPanel
<1>6. CASE p = "developer"
  <2>1. status = "awaiting_pm" /\ o[1] = "advise"
    BY <1>1, <1>6 DEF Panel, DeveloperPanel, Offer
  <2> QED  BY <1>6, <2>1 DEF Accepts, Routes
<1> QED  BY <1>4, <1>5, <1>6 DEF Person

LEMMA ReplaceIsAccepted ==
  ASSUME TypeInv, CardInv, NEW p \in Person, NEW o \in Replace(p)
  PROVE  Accepts(p, o[1], o[2]) \/ VainReplace(o)
<1>1. /\ o[1] = "replace" /\ p = "business" /\ ~Running
      /\ status = "awaiting_business_close" /\ Showing("retest")
  BY DEF Replace, Offer
<1>2. /\ HasRun /\ NewestRun \in Run /\ Newest(NewestRun)
      /\ \A r \in Run : Newest(r) => r = NewestRun
      /\ runs[NewestRun].mode = "retest"
  BY <1>1, PageFindsNewest DEF Showing
<1>3. CASE OtherRetest
  BY <1>1, <1>3 DEF VainReplace
<1>4. CASE ~OtherRetest
  <2>1. Sole(NewestRun)
    BY <1>2, <1>4 DEF OtherRetest, Sole, Retested
  <2>2. runs[NewestRun].status \in {"awaiting_human", "failed"}
    BY <1>1, <1>2, <2>1 DEF CardInv, SoleIsShown
  <2> QED  BY <1>1, <1>2, <2>2 DEF VainReplace, Accepts, Routes, RetestBusy, Active
<1> QED  BY <1>3, <1>4

(* The card of an up-to-date page offers nobody a step the service can     *)
(* only refuse, but for the three named cases: page and service agree in   *)
(* every row that any interleaving of any number of callers can produce.   *)
THEOREM OffersStayAccepted == Spec => []OffersAreAccepted
<1>1. ASSUME TypeInv, CardInv  PROVE OffersAreAccepted
  <2> SUFFICES ASSUME NEW p \in Person, NEW class \in ProposedClass,
                      NEW o \in Offers(p, class, TRUE)
               PROVE  Accepts(p, o[1], o[2]) \/ OldRetestRuns \/ VainRetry(p, o) \/ VainReplace(o)
    BY DEF OffersAreAccepted
  <2>1. CASE o \in Panel(p, class)
    BY <1>1, <2>1, PanelIsAccepted
  <2>2. CASE o \in Stop(p)
    <3>1. o[1] = "cancel" /\ p \in {"pm", "business"} /\ Running
      BY <2>2 DEF Stop, Offer, Client
    <3>2. HasRun
      BY <3>1 DEF Running
    <3> QED  BY <3>1, <3>2 DEF Accepts, Routes
  <2>3. CASE o \in Retry(TRUE)
    <3>1. o[1] = "triage"
      BY <2>3 DEF Retry, Offer
    <3> QED  BY <3>1 DEF VainRetry, Accepts, Routes, Person
  <2>4. CASE o \in Fix(p)
    <3>1. o[1] = "fix_row" /\ p \in {"pm", "business"} /\ status = "needs_human_parse"
      BY <2>4 DEF Fix, Offer, Client
    <3> QED  BY <3>1 DEF Accepts, Routes
  <2>5. CASE o \in Ready(p)
    <3>1. o[1] = "ready_for_retest" /\ p = "developer" /\ status = "defect"
      BY <2>5 DEF Ready, Offer
    <3> QED  BY <3>1 DEF Accepts, Routes
  <2>6. CASE o \in NewFrame(p)
    <3>1. o[1] = "retest" /\ p = "business" /\ ~Running /\ status = "ready_for_retest"
      BY <2>6 DEF NewFrame, Offer
    <3> QED  BY <3>1, IdleCardNoRetest DEF Accepts, Routes
  <2>7. CASE o \in Replace(p)
    BY <1>1, <2>7, ReplaceIsAccepted
  <2> QED  BY <2>1, <2>2, <2>3, <2>4, <2>5, <2>6, <2>7 DEF Offers
<1> QED  BY <1>1, CardInvHolds, PTL
=============================================================================
