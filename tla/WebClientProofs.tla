---------------------------- MODULE WebClientProofs ----------------------------
(***************************************************************************)
(* Theorems about four parts of the web client: the decision that can be   *)
(* undone for five seconds (PendingAction), for any number of decisions,   *)
(* the tabs that share the sound and the notices of one browser            *)
(* (TabAttention), for every set of tabs and notices, the card that is     *)
(* told about its run over the rooms of the server (CardRoom), for every   *)
(* set of cards and any number of steps, reads and messages under way, and *)
(* the bell with the rows behind it (NotificationBell), for any number of  *)
(* rows, pushes and calls and any size of a page.                          *)
(*                                                                         *)
(* DecisionIsKept is not inductive: that an undone decision was never      *)
(* applied rests on its never having been on the wire, and that nobody     *)
(* drops a waiting one on what may wait while another is committed.        *)
(*                                                                         *)
(* OneTabActs needs to know where the mark of a notice is once a tab has   *)
(* acted on it or taken it: in the storage, and either in every tab's copy *)
(* or still guarded by the lock its marker holds.                          *)
(*                                                                         *)
(* CardTells speaks of the moment when nothing is under way.  RoomInv says *)
(* what makes up for it until then: a join of this visit ends whatever the *)
(* server still has to take up, other rooms have a leave to come, what was *)
(* told is read, or will be for something not yet heard, and the word that *)
(* a run has stopped comes after the last word that it is at work.         *)
(*                                                                         *)
(* BellAgrees speaks of quiet, too.  Everything the tab is sent carries    *)
(* the version it was computed at, and BellInv says what each of these     *)
(* readings is still worth: it holds of the table, or a word of what has   *)
(* happened since is still to come, or the tab has been told something     *)
(* later already or will ask for everything (Moot).                        *)
(***************************************************************************)
EXTENDS PendingAction, TabAttention, CardRoom, NotificationBell, SetLemmas

(* Nothing about d has left the tab, nothing has been applied.             *)
Unsent(d) == applied[d] = 0 /\ \A r \in wire \cup serving : r.of # d

(* What waits is told to wait, what is committed was decided, and only     *)
(* what is committed is on its way.                                        *)
Accounted ==
  /\ pending # 0 => fate[pending] = "waiting"
  /\ committing # 0 => fate[committing] # "none"
  /\ via # "nothing" => committing # 0

(* Whoever waits beside a decision being committed was taken behind it.    *)
WaitsBehind ==
  pending # 0 /\ committing # 0 /\ pending # committing => pending \in behind

(* Not decided yet, still waiting or undone in time: not sent.             *)
HeldBack(d) ==
  fate[d] = "none" \/ pending = d \/ (fate[d] = "undone" /\ d \notin late)

HeldIsUnsent == \A d \in Decision : d # committing /\ HeldBack(d) => Unsent(d)

(* The server says of nothing it has not applied that it has.              *)
AnswersAreTrue == \A a \in answers : a.ok => applied[a.of] > 0

PendingInv ==
  /\ PendingTypeOK /\ Accounted /\ WaitsBehind /\ HeldIsUnsent /\ AnswersAreTrue
  /\ DecisionIsKept

-----------------------------------------------------------------------------
LEMMA DecisionIsNumber == Decision \subseteq Nat \ {0} /\ 0 \notin Decision
BY PendingAssumption DEF Decision

(* The parts that end in a promise about every decision.                   *)
LEMMA ScheduleKeeps ==
  ASSUME PendingInv, NEW d \in Decision, Schedule(d)
  PROVE  PendingInv'
<1> USE DecisionIsNumber DEF PendingInv
<1>1. fate[d] = "none" /\ pending # d /\ committing # d /\ Unsent(d)
  BY DEF Schedule, Accounted, HeldIsUnsent, HeldBack
<1>2. committing' = Committed /\ pending' = d
  BY DEF Schedule, SentOff
<1>3. /\ Committed \in {0} \cup Decision /\ Committed # d
      /\ Committed = 0 => pending = 0 /\ committing = 0
      /\ Committed # 0 => fate[Committed] # "none"
  BY <1>1 DEF Committed, Flushes, PendingTypeOK, Accounted
<1>4. PendingTypeOK'
  BY <1>2, <1>3 DEF Schedule, PendingTypeOK, Cleared
<1>5. /\ fate'[d] = "waiting"
      /\ \A e \in Decision \ {d} : fate'[e] = fate[e]
  BY DEF Schedule, PendingTypeOK
<1>6. Accounted'
  BY <1>2, <1>3, <1>4, <1>5 DEF Schedule, Accounted
<1>7. WaitsBehind'
  BY <1>2, <1>3 DEF Schedule, WaitsBehind
<1>8. HeldIsUnsent'
  <2>1. ASSUME NEW e \in Decision, e # committing', HeldBack(e)'
        PROVE  Unsent(e)
    <3>1. CASE e = d
      BY <1>1, <3>1
    <3>2. CASE e # d
      <4>1. fate[e] = "none" \/ (fate[e] = "undone" /\ e \notin late)
        BY <2>1, <1>2, <1>5, <3>2 DEF HeldBack, Schedule
      <4>2. e # committing
        BY <4>1 DEF Accounted, DecisionIsKept, UndoneStaysUnsent
      <4> QED  BY <4>1, <4>2 DEF HeldIsUnsent, HeldBack
    <3> QED  BY <3>1, <3>2
  <2> QED  BY <2>1 DEF HeldIsUnsent, Unsent, Schedule
<1>9. DecisionReaches'
  <2>1. ASSUME NEW e \in Decision \ behind', fate'[e] = "waiting"
        PROVE  \/ committing' = e
               \/ pending' = e /\ handle' = e /\ e \in timers'
    <3>1. CASE e = d
      BY <1>2, <1>3, <3>1 DEF Schedule
    <3>2. CASE e # d
      <4>1. e \notin behind /\ fate[e] = "waiting"
        BY <2>1, <1>5, <3>2 DEF Schedule
      <4>2. committing = e \/ pending = e
        BY <4>1 DEF DecisionIsKept, DecisionReaches
      <4>3. CASE committing = e
        BY <1>2, <4>3 DEF Committed, Flushes
      <4>4. CASE pending = e /\ committing # e
        BY <1>2, <4>1, <4>4 DEF Committed, Flushes, WaitsBehind
      <4> QED  BY <4>2, <4>3, <4>4
    <3> QED  BY <3>1, <3>2
  <2> QED  BY <2>1 DEF DecisionReaches
<1>10. UndoneStaysUnsent'
  <2>1. ASSUME NEW e \in Decision
        PROVE  /\ applied'[e] <= 1
               /\ fate'[e] = "settled" => applied'[e] = 1
               /\ fate'[e] = "undone" /\ e \notin late' => applied'[e] = 0 /\ committing' # e
    <3>1. applied' = applied /\ late' = late /\ applied[e] <= 1
      BY DEF Schedule, DecisionIsKept, UndoneStaysUnsent
    <3>3. fate'[e] = "settled" => applied[e] = 1
      BY <1>5 DEF DecisionIsKept, UndoneStaysUnsent
    <3>2. ASSUME fate'[e] = "undone", e \notin late'
          PROVE  applied'[e] = 0 /\ committing' # e
      <4>1. fate[e] = "undone" /\ e \notin late
        BY <3>2, <1>5 DEF Schedule
      <4>2. pending # e
        BY <4>1 DEF Accounted
      <4> QED
        BY <4>1, <4>2, <3>1, <1>2 DEF DecisionIsKept, UndoneStaysUnsent, Committed
    <3> QED  BY <3>1, <3>2, <3>3
  <2> QED  BY <2>1 DEF UndoneStaysUnsent
<1>11. AnswersAreTrue'
  BY DEF Schedule, AnswersAreTrue
<1> QED  BY <1>4, <1>6, <1>7, <1>8, <1>9, <1>10, <1>11 DEF DecisionIsKept

(* Flush and the timeouts: only what waits is sent off.                    *)
LEMMA SendingOffKeeps ==
  ASSUME PendingInv, Flush \/ \E d \in Decision : TimerFires(d)
  PROVE  PendingInv'
<1> USE DecisionIsNumber DEF PendingInv
<1>1. committing' = Committed
  BY DEF Flush, TimerFires
<1>2. UNCHANGED <<pending, via, wire, serving, answers, applied, fate, behind, late>>
  BY DEF Flush, TimerFires
<1>3. PendingTypeOK'
  BY <1>1, <1>2 DEF Flush, TimerFires, PendingTypeOK, Cleared, Committed, Flushes
<1>4. Accounted' /\ WaitsBehind'
  BY <1>1, <1>2 DEF Accounted, WaitsBehind, Committed, Flushes
<1>5. HeldIsUnsent'
  BY <1>1, <1>2 DEF HeldIsUnsent, HeldBack, Unsent, Committed, Flushes, Accounted
<1>6. DecisionReaches'
  <2>1. ASSUME NEW d \in Decision \ behind, fate[d] = "waiting"
        PROVE  \/ committing' = d
               \/ pending' = d /\ handle' = d /\ d \in timers'
    <3>1. committing = d \/ (pending = d /\ handle = d /\ d \in timers)
      BY <2>1 DEF DecisionIsKept, DecisionReaches
    <3>2. CASE committing = d
      BY <1>1, <3>2 DEF Committed, Flushes
    <3>3. CASE pending = d /\ committing # d
      BY <1>1, <2>1, <3>3 DEF Committed, Flushes, WaitsBehind
    <3> QED  BY <3>1, <3>2, <3>3
  <2> QED  BY <1>2, <2>1 DEF DecisionReaches
<1>7. UndoneStaysUnsent' /\ AnswersAreTrue'
  BY <1>1, <1>2 DEF DecisionIsKept, UndoneStaysUnsent, Committed, Flushes, Accounted, AnswersAreTrue
<1> QED  BY <1>3, <1>4, <1>5, <1>6, <1>7 DEF DecisionIsKept

LEMMA UndoKeeps ==
  ASSUME PendingInv, Undo
  PROVE  PendingInv'
<1> USE DecisionIsNumber DEF PendingInv
<1>1. /\ pending \in Decision /\ pending' = 0
      /\ UNCHANGED <<committing, via, wire, serving, answers, applied, behind>>
      /\ fate' = [fate EXCEPT ![pending] = "undone"]
  BY DEF Undo, PendingTypeOK
<1>2. PendingTypeOK'
  BY <1>1 DEF Undo, PendingTypeOK
<1>3. Accounted' /\ WaitsBehind'
  BY <1>1 DEF Accounted, WaitsBehind, PendingTypeOK
<1>4. HeldIsUnsent'
  <2>1. ASSUME NEW d \in Decision, d # committing, HeldBack(d)'
        PROVE  HeldBack(d)
    BY <1>1, <2>1 DEF HeldBack, Undo, PendingTypeOK
  <2> QED  BY <1>1, <2>1 DEF HeldIsUnsent, Unsent
<1>5. DecisionReaches'
  BY <1>1 DEF DecisionIsKept, DecisionReaches, PendingTypeOK
<1>6. UndoneStaysUnsent'
  <2>1. ASSUME NEW d \in Decision, fate'[d] = "undone", d \notin late'
        PROVE  applied[d] = 0 /\ committing # d
    <3>1. CASE d = pending
      <4>1. committing # d
        BY <2>1, <3>1 DEF Undo
      <4> QED  BY <4>1, <3>1 DEF HeldIsUnsent, HeldBack, Unsent
    <3>2. CASE d # pending
      <4>1. fate[d] = "undone" /\ d \notin late
        BY <1>1, <2>1, <3>2 DEF Undo, PendingTypeOK
      <4> QED  BY <4>1 DEF DecisionIsKept, UndoneStaysUnsent
    <3> QED  BY <3>1, <3>2
  <2>2. \A d \in Decision : fate'[d] = "settled" => applied[d] = 1
    BY <1>1 DEF DecisionIsKept, UndoneStaysUnsent, PendingTypeOK
  <2> QED  BY <1>1, <2>1, <2>2 DEF DecisionIsKept, UndoneStaysUnsent
<1>7. AnswersAreTrue'
  BY <1>1 DEF AnswersAreTrue
<1> QED  BY <1>2, <1>3, <1>4, <1>5, <1>6, <1>7 DEF DecisionIsKept

(* Only the decision being committed gets on the wire.                     *)
LEMMA SendingKeeps ==
  ASSUME PendingInv, Send \/ FallBack
  PROVE  PendingInv'
<1> USE DecisionIsNumber DEF PendingInv
<1>1. committing \in Decision
  BY DEF Send, FallBack, Accounted, PendingTypeOK
<1>2. PICK by \in {"socket", "rest"} :
        via' = by /\ wire' = wire \cup {[of |-> committing, by |-> by]}
  BY DEF Send, FallBack
<1>3. UNCHANGED <<pending, timers, handle, committing, serving, answers, applied, fate, behind, late>>
  BY DEF Send, FallBack
<1>4. PendingTypeOK'
  BY <1>1, <1>2, <1>3 DEF PendingTypeOK, Attempt
<1>5. Accounted' /\ WaitsBehind' /\ AnswersAreTrue' /\ DecisionIsKept'
  BY <1>1, <1>3 DEF Accounted, WaitsBehind, AnswersAreTrue, DecisionIsKept, DecisionReaches, UndoneStaysUnsent
<1>6. HeldIsUnsent'
  BY <1>2, <1>3 DEF HeldIsUnsent, HeldBack, Unsent
<1> QED  BY <1>4, <1>5, <1>6

(* The server touches the decisions on their way only.                     *)
LEMMA ServerLeavesTheRest ==
  ASSUME PendingInv, UNCHANGED deciderVars,
         wire' \cup serving' \subseteq wire \cup serving,
         PendingTypeOK', AnswersAreTrue',
         \A d \in Decision : applied'[d] # applied[d] =>
           applied[d] = 0 /\ applied'[d] = 1 /\ \E r \in wire \cup serving : r.of = d
  PROVE  PendingInv'
<1> USE DecisionIsNumber DEF PendingInv
<1>1. UNCHANGED <<pending, timers, handle, committing, via, fate, behind, late>>
  BY DEF deciderVars
<1>2. Accounted' /\ WaitsBehind' /\ DecisionReaches'
  BY <1>1 DEF Accounted, WaitsBehind, DecisionIsKept, DecisionReaches
<1>3. ASSUME NEW d \in Decision, Unsent(d)
      PROVE  Unsent(d)'
  <2>1. applied[d] = 0 /\ \A r \in wire \cup serving : r.of # d
    BY <1>3 DEF Unsent
  <2>2. applied'[d] = 0
    BY <2>1
  <2>3. \A r \in wire' \cup serving' : r.of # d
    BY <2>1
  <2> QED  BY <2>2, <2>3 DEF Unsent
<1>4. HeldIsUnsent'
  BY <1>1, <1>3 DEF HeldIsUnsent, HeldBack
<1>5. UndoneStaysUnsent'
  <2>1. ASSUME NEW d \in Decision
        PROVE  applied'[d] <= 1 /\ (fate[d] = "settled" => applied'[d] = 1)
    BY DEF DecisionIsKept, UndoneStaysUnsent
  <2>2. ASSUME NEW d \in Decision, fate[d] = "undone", d \notin late
        PROVE  applied'[d] = 0 /\ committing # d
    <3>1. committing # d /\ applied[d] = 0
      BY <2>2 DEF DecisionIsKept, UndoneStaysUnsent
    <3>2. Unsent(d)
      BY <2>2, <3>1 DEF HeldIsUnsent, HeldBack
    <3> QED  BY <3>1, <3>2 DEF Unsent
  <2> QED  BY <1>1, <2>1, <2>2 DEF UndoneStaysUnsent
<1> QED  BY <1>2, <1>4, <1>5 DEF DecisionIsKept

LEMMA ReplyKeeps ==
  ASSUME PendingTypeOK, NEW r \in Attempt, NEW ok \in BOOLEAN, Reply(r, ok)
  PROVE  /\ answers' \subseteq [of : Decision, by : {"socket", "rest"}, ok : BOOLEAN]
         /\ \A a \in answers' : a \in answers \/ (a.of = r.of /\ a.ok = ok)
<1>1. r.of \in Decision /\ r.by \in {"socket", "rest"}
  BY DEF Attempt
<1>2. [of |-> r.of, by |-> r.by, ok |-> ok] \in [of : Decision, by : {"socket", "rest"}, ok : BOOLEAN]
  BY <1>1
<1> DEFINE a0 == [of |-> r.of, by |-> r.by, ok |-> ok]
<1>3. answers' = answers \cup {a0}
  BY DEF Reply
<1>4. a0.of = r.of /\ a0.ok = ok
  OBVIOUS
<1>5. answers \subseteq [of : Decision, by : {"socket", "rest"}, ok : BOOLEAN]
  BY DEF PendingTypeOK
<1> HIDE DEF a0
<1>6. a0 \in [of : Decision, by : {"socket", "rest"}, ok : BOOLEAN]
  BY <1>2 DEF a0
<1> QED  BY <1>3, <1>4, <1>5, <1>6

LEMMA LookUpKeeps ==
  ASSUME PendingInv, NEW r \in wire, LookUp(r)
  PROVE  PendingInv'
<1> USE DEF PendingInv
<1>1. /\ UNCHANGED deciderVars /\ applied' = applied
      /\ UNCHANGED <<pending, timers, handle, committing, via, fate, behind, late>>
  BY DEF LookUp, deciderVars
<1>2. r \in Attempt /\ wire' \subseteq wire /\ serving' \subseteq serving \cup {r}
  BY DEF LookUp, PendingTypeOK
<1>3. /\ answers' \subseteq [of : Decision, by : {"socket", "rest"}, ok : BOOLEAN]
      /\ AnswersAreTrue'
  <2>1. CASE UNCHANGED answers
    BY <1>1, <2>1 DEF AnswersAreTrue, PendingTypeOK
  <2>2. ASSUME NEW ok \in BOOLEAN, Reply(r, ok), ok => applied[r.of] > 0
        PROVE  /\ answers' \subseteq [of : Decision, by : {"socket", "rest"}, ok : BOOLEAN]
               /\ AnswersAreTrue'
    BY <1>1, <1>2, <2>2, ReplyKeeps DEF AnswersAreTrue
  <2>3. UNCHANGED answers \/ (Reply(r, TRUE) /\ applied[r.of] > 0) \/ Reply(r, FALSE)
    BY DEF LookUp, Known
  <2> QED  BY <2>1, <2>2, <2>3
<1>4. PendingTypeOK'
  BY <1>1, <1>2, <1>3 DEF PendingTypeOK
<1> QED  BY <1>1, <1>2, <1>3, <1>4, ServerLeavesTheRest

LEMMA ServeKeeps ==
  ASSUME PendingInv, NEW r \in serving, Serve(r)
  PROVE  PendingInv'
<1> USE DEF PendingInv
<1>1. /\ UNCHANGED deciderVars /\ wire' = wire /\ serving' = serving \ {r}
      /\ UNCHANGED <<pending, timers, handle, committing, via, fate, behind, late>>
  BY DEF Serve, deciderVars
<1>2. r \in Attempt /\ r.of \in Decision
  BY DEF PendingTypeOK, Attempt
<1>3. PICK ok \in BOOLEAN :
        /\ Reply(r, ok)
        /\ \/ applied' = applied /\ ~ok
           \/ applied[r.of] = 0 /\ applied' = [applied EXCEPT ![r.of] = @ + 1]
  BY DEF Serve, KeyIsFree
<1>4. /\ applied' \in [Decision -> Nat]
      /\ \A d \in Decision : applied'[d] # applied[d] => d = r.of /\ applied[d] = 0 /\ applied'[d] = 1
      /\ \A d \in Decision : applied'[d] >= applied[d]
      /\ ok => applied'[r.of] > 0
  BY <1>2, <1>3 DEF PendingTypeOK
<1>5. /\ answers' \subseteq [of : Decision, by : {"socket", "rest"}, ok : BOOLEAN]
      /\ \A a \in answers' : a \in answers \/ (a.of = r.of /\ a.ok = ok)
  BY <1>2, <1>3, ReplyKeeps
<1>6. PendingTypeOK'
  BY <1>1, <1>4, <1>5 DEF PendingTypeOK
<1>7. AnswersAreTrue'
  <2>1. ASSUME NEW a \in answers', a.ok
        PROVE  applied'[a.of] > 0
    <3>1. CASE a \in answers
      <4>1. a.of \in Decision /\ applied[a.of] > 0
        BY <2>1, <3>1 DEF AnswersAreTrue, PendingTypeOK
      <4> QED  BY <4>1, <1>4 DEF PendingTypeOK
    <3>2. CASE a.of = r.of /\ a.ok = ok
      BY <1>4, <2>1, <3>2
    <3> QED  BY <1>5, <3>1, <3>2
  <2> QED  BY <2>1 DEF AnswersAreTrue
<1> QED  BY <1>1, <1>4, <1>6, <1>7, ServerLeavesTheRest

(* An answer, or a REST call that fails, ends the commit.                  *)
LEMMA FinishKeeps ==
  ASSUME PendingInv, NEW verdict \in {"settled", "refused"},
         committing # 0, Finish(committing, verdict),
         answers' \subseteq answers,
         verdict = "settled" => applied[committing] > 0
  PROVE  PendingInv'
<1> USE DecisionIsNumber DEF PendingInv
<1>1. /\ committing \in Decision /\ committing' = 0 /\ via' = "nothing"
      /\ pending' = IF pending = committing THEN 0 ELSE pending
      /\ UNCHANGED <<timers, handle, wire, serving, applied, behind, late>>
  BY DEF Finish, PendingTypeOK
<1>2. /\ \A d \in Decision \ {committing} : fate'[d] = fate[d]
      /\ fate'[committing] = IF fate[committing] = "waiting" THEN verdict ELSE fate[committing]
      /\ fate' \in [Decision -> {"none", "waiting", "undone", "settled", "refused"}]
  BY <1>1 DEF Finish, PendingTypeOK
<1>3. PendingTypeOK'
  BY <1>1, <1>2 DEF PendingTypeOK
<1>4. Accounted' /\ WaitsBehind'
  BY <1>1, <1>2, <1>3 DEF Accounted, WaitsBehind, PendingTypeOK
<1>5. HeldIsUnsent'
  <2>1. ASSUME NEW d \in Decision, HeldBack(d)'
        PROVE  Unsent(d)
    <3>1. d # committing
      BY <1>1, <1>2, <2>1 DEF HeldBack, Accounted, DecisionIsKept, UndoneStaysUnsent
    <3>2. HeldBack(d)
      BY <1>1, <1>2, <2>1, <3>1 DEF HeldBack
    <3> QED  BY <3>1, <3>2 DEF HeldIsUnsent
  <2> QED  BY <1>1, <2>1 DEF HeldIsUnsent, Unsent
<1>6. DecisionReaches'
  BY <1>1, <1>2 DEF DecisionIsKept, DecisionReaches
<1>7. UndoneStaysUnsent' /\ AnswersAreTrue'
  <2>1. \A d \in Decision : applied[d] <= 1
    BY DEF DecisionIsKept, UndoneStaysUnsent
  <2>2. \A d \in Decision : fate'[d] = "settled" => applied[d] = 1
    BY <1>1, <1>2, <2>1 DEF DecisionIsKept, UndoneStaysUnsent, PendingTypeOK
  <2> QED  BY <1>1, <1>2, <2>1, <2>2 DEF DecisionIsKept, UndoneStaysUnsent, AnswersAreTrue
<1> QED  BY <1>3, <1>4, <1>5, <1>6, <1>7 DEF DecisionIsKept

LEMMA CommitEndKeeps ==
  ASSUME PendingInv, RestFails \/ \E a \in answers : Answered(a)
  PROVE  PendingInv'
<1>1. CASE RestFails
  <2>1. committing # 0 /\ Finish(committing, "refused") /\ answers' \subseteq answers
    BY <1>1 DEF RestFails, PendingInv, Accounted
  <2> QED  BY <2>1, FinishKeeps
<1>2. ASSUME NEW a \in answers, Answered(a)
      PROVE  PendingInv'
  <2>1. a.of = committing /\ a.of \in Decision /\ answers' \subseteq answers
        /\ (a.ok => applied[committing] > 0)
    BY <1>2 DEF Answered, PendingInv, PendingTypeOK, AnswersAreTrue
  <2>2. committing # 0
    BY <2>1, DecisionIsNumber
  <2>3. \E verdict \in {"settled", "refused"} :
          Finish(committing, verdict) /\ (verdict = "settled" => applied[committing] > 0)
    BY <1>2, <2>1 DEF Answered
  <2> QED  BY <2>1, <2>2, <2>3, FinishKeeps
<1> QED  BY <1>1, <1>2

-----------------------------------------------------------------------------
LEMMA PendingInvStarts == PendingInit => PendingInv
BY DecisionIsNumber DEF PendingInit, PendingInv, PendingTypeOK, Accounted, WaitsBehind,
   HeldIsUnsent, Unsent, AnswersAreTrue, DecisionIsKept, DecisionReaches, UndoneStaysUnsent

LEMMA PendingInvStep == PendingInv /\ [PendingNext]_pendingVars => PendingInv'
<1> SUFFICES ASSUME PendingInv, [PendingNext]_pendingVars PROVE PendingInv'
  OBVIOUS
<1>1. CASE \E d \in Decision : Schedule(d)
  BY <1>1, ScheduleKeeps
<1>2. CASE Flush \/ \E d \in Decision : TimerFires(d)
  BY <1>2, SendingOffKeeps
<1>3. CASE Undo
  BY <1>3, UndoKeeps
<1>4. CASE Send \/ FallBack
  BY <1>4, SendingKeeps
<1>5. CASE (\E r \in wire : LookUp(r)) \/ (\E r \in serving : Serve(r))
  BY <1>5, LookUpKeeps, ServeKeeps
<1>6. CASE RestFails \/ \E a \in answers : Answered(a)
  BY <1>6, CommitEndKeeps
<1>7. CASE UNCHANGED pendingVars
  BY <1>7 DEF pendingVars, PendingInv, PendingTypeOK, Accounted, WaitsBehind, HeldIsUnsent,
     HeldBack, Unsent, AnswersAreTrue, DecisionIsKept, DecisionReaches, UndoneStaysUnsent
<1> QED
  BY <1>1, <1>2, <1>3, <1>4, <1>5, <1>6, <1>7 DEF PendingNext

(* The inductive invariant of the undo delay: where every decision is that *)
(* was scheduled and not undone.                                           *)
THEOREM PendingInvHolds == PendingSpec => []PendingInv
BY PendingInvStarts, PendingInvStep, PTL DEF PendingSpec

(* Every variable of the undo delay holds a value of its kind.             *)
THEOREM PendingTypes == PendingSpec => []PendingTypeOK
BY PendingInvHolds, PTL DEF PendingInv

(* Whatever a person clicks and whenever the timers, the page and the      *)
(* network act: a decision is neither forgotten, nor applied twice, nor    *)
(* applied after it was undone, but for the two exceptions DecisionIsKept  *)
(* names.                                                                  *)
THEOREM DecisionsAreKept == PendingSpec => []DecisionIsKept
BY PendingInvHolds, PTL DEF PendingInv

-----------------------------------------------------------------------------
(* The phases in which a tab has the lock of a notice.                     *)
Locking == {"claimed", "granted", "holding"}

(* The lock of a notice is where the phases say: with one tab at most.     *)
LockIsHeld ==
  \A n \in Notice, t \in Tab : phase[t][n] \in Locking <=> lock[n] = {t}

(* Answered: a tab has acted, or one in focus has taken it.                *)
Met(n) == acted[n] # {} \/ n \in taken

(* What is met stays known: marked in the storage, and in every copy or    *)
(* under a lock still held.                                                *)
MetIsKnown ==
  \A n \in Notice : Met(n) /\ n \notin lost =>
    /\ n \in store
    /\ \/ \A u \in Tab : n \in seenMap[u]
       \/ \E t \in Tab : phase[t][n] = "holding"

ActedOnce == \A n \in Notice : n \notin lost => \A t, u \in acted[n] : t = u

LockTypeOK == lock \in [Notice -> {{}} \cup {{t} : t \in Tab}]

AttentionInv == AttentionTypeOK /\ LockTypeOK /\ LockIsHeld /\ MetIsKnown /\ ActedOnce

AttentionSpec == AttentionInit /\ [][AttentionNext]_attentionVars

-----------------------------------------------------------------------------
LEMMA LocksAreSmall ==
  ASSUME NEW L \in [Notice -> {{}} \cup {{t} : t \in Tab}]
  PROVE  L \in [Notice -> SUBSET Tab] /\ \A n \in Notice : Cardinality(L[n]) <= 1
<1>1. \A n \in Notice : L[n] \subseteq Tab /\ \A x, y \in L[n] : x = y
  OBVIOUS
<1>2. \A n \in Notice : Cardinality(L[n]) <= 1
  BY <1>1, AtMostOne
<1> QED  BY <1>1, <1>2

(* Two tabs never hold one lock.                                           *)
LEMMA LockExcludes ==
  ASSUME LockIsHeld, NEW n \in Notice, NEW t \in Tab, NEW u \in Tab,
         phase[t][n] \in Locking, phase[u][n] \in Locking
  PROVE  t = u
<1>1. lock[n] = {t} /\ lock[n] = {u}
  BY DEF LockIsHeld
<1> QED  BY <1>1

(* A mark goes into the storage and into the copy of the tab; what it      *)
(* overwrites is lost.                                                     *)
LEMMA MarkIsKept ==
  ASSUME AttentionTypeOK, NEW t \in Tab, NEW n \in Notice, MarkHandled(t, n)
  PROVE  /\ store' \subseteq Notice /\ lost' \subseteq Notice
         /\ seenMap' \in [Tab -> SUBSET Notice]
         /\ lost \subseteq lost' /\ n \in store'
         /\ \A m \in Notice : m \in store /\ m \notin lost' => m \in store'
         /\ \A u \in Tab : seenMap[u] \subseteq seenMap'[u]
BY DEF MarkHandled, AttentionTypeOK

LEMMA PhaseGoes ==
  ASSUME AttentionTypeOK, NEW t \in Tab, NEW n \in Notice, NEW p \in TabPhase, Goes(t, n, p)
  PROVE  /\ phase' \in [Tab -> [Notice -> TabPhase]]
         /\ phase'[t][n] = p
         /\ \A u \in Tab, m \in Notice : u # t \/ m # n => phase'[u][m] = phase[u][m]
BY DEF Goes, AttentionTypeOK

-----------------------------------------------------------------------------
(* What a person, a copy or another mark does.                             *)
LEMMA SurroundingsKeep ==
  ASSUME AttentionInv,
         \/ TurnTo
         \/ \E t \in Tab : CatchUp(t) \/ MarkAnother(t) \/ WakeAudio(t) \/ SetSound(t) \/ SetDesktop(t)
  PROVE  AttentionInv'
<1>1. UNCHANGED <<phase, lock, taken, acted>> /\ lost \subseteq lost'
  BY DEF TurnTo, CatchUp, MarkAnother, WakeAudio, SetSound, SetDesktop, settings, marks
<1>2. LockTypeOK' /\ LockIsHeld' /\ ActedOnce'
  BY <1>1 DEF AttentionInv, LockTypeOK, LockIsHeld, ActedOnce
<1>3. focus' \subseteq Tab /\ Cardinality(focus') <= 1
  <2>1. CASE TurnTo
    <3>1. focus' \subseteq Tab /\ \A x, y \in focus' : x = y
      BY <2>1 DEF TurnTo
    <3> QED  BY <3>1, AtMostOne
  <2>2. CASE ~TurnTo
    BY <2>2 DEF CatchUp, MarkAnother, WakeAudio, SetSound, SetDesktop, settings,
       AttentionInv, AttentionTypeOK
  <2> QED  BY <2>1, <2>2
<1>4. /\ store' \subseteq Notice /\ seenMap' \in [Tab -> SUBSET Notice] /\ lost' \subseteq Notice
      /\ sound' \in BOOLEAN /\ desktop' \in BOOLEAN /\ audible' \subseteq Tab
  BY DEF TurnTo, CatchUp, MarkAnother, WakeAudio, SetSound, SetDesktop, settings, marks,
     AttentionInv, AttentionTypeOK
<1>5. AttentionTypeOK'
  BY <1>1, <1>3, <1>4 DEF AttentionInv, AttentionTypeOK
<1>6. \A m \in Notice : m \notin lost' /\ m \in store =>
        /\ m \in store'
        /\ \A u \in Tab : m \in seenMap[u] => m \in seenMap'[u]
  BY DEF TurnTo, CatchUp, MarkAnother, WakeAudio, SetSound, SetDesktop, settings, marks,
     AttentionInv, AttentionTypeOK
<1>7. MetIsKnown'
  BY <1>1, <1>6 DEF AttentionInv, MetIsKnown, Met
<1> QED  BY <1>2, <1>5, <1>7 DEF AttentionInv

(* A tab that does not have the lock before or after: it marks or not.     *)
LEMMA BystandersKeep ==
  ASSUME AttentionInv, NEW t \in Tab, NEW n \in Notice,
         SeenHere(t, n) \/ Notify(t, n) \/ WaitOver(t, n)
  PROVE  AttentionInv'
<1>1. UNCHANGED <<focus, settings, lock, taken, acted>> /\ phase[t][n] \in {"away", "waiting"}
  BY DEF SeenHere, Notify, WaitOver
<1>2. PICK p \in TabPhase \ Locking : Goes(t, n, p)
  BY DEF SeenHere, Notify, WaitOver, TabPhase, Locking
<1>3. /\ phase' \in [Tab -> [Notice -> TabPhase]] /\ phase'[t][n] = p
      /\ \A u \in Tab, m \in Notice : u # t \/ m # n => phase'[u][m] = phase[u][m]
  BY <1>2, PhaseGoes DEF AttentionInv
<1>4. UNCHANGED marks \/ MarkHandled(t, n)
  BY DEF SeenHere, Notify, WaitOver
<1>5. /\ store' \subseteq Notice /\ lost' \subseteq Notice /\ lost \subseteq lost'
      /\ seenMap' \in [Tab -> SUBSET Notice]
      /\ \A m \in Notice : m \in store /\ m \notin lost' => m \in store'
      /\ \A u \in Tab : seenMap[u] \subseteq seenMap'[u]
  BY <1>4, MarkIsKept DEF marks, AttentionInv, AttentionTypeOK
<1>6. AttentionTypeOK' /\ LockTypeOK'
  BY <1>1, <1>3, <1>5 DEF AttentionInv, AttentionTypeOK, LockTypeOK, settings
<1>7. LockIsHeld'
  BY <1>1, <1>2, <1>3 DEF AttentionInv, LockIsHeld, Locking
<1>8. MetIsKnown' /\ ActedOnce'
  <2>1. \A u \in Tab, m \in Notice : phase[u][m] = "holding" => phase'[u][m] = "holding"
    BY <1>1, <1>3
  <2> QED  BY <1>1, <1>5, <2>1 DEF AttentionInv, MetIsKnown, ActedOnce, Met
<1> QED  BY <1>6, <1>7, <1>8 DEF AttentionInv

(* Who gets the lock has found it free; who does not goes on without it.   *)
LEMMA AnswerKeeps ==
  ASSUME AttentionInv, NEW t \in Tab, NEW n \in Notice, Answer(t, n)
  PROVE  AttentionInv'
<1>1. UNCHANGED <<focus, settings, store, seenMap, lost, taken, acted>>
  BY DEF Answer, marks
<1>2. PICK p \in TabPhase : Goes(t, n, p) /\ (p \in Locking <=> lock[n] = {})
  BY DEF Answer, TabPhase, Locking
<1>3. /\ phase' \in [Tab -> [Notice -> TabPhase]] /\ phase'[t][n] = p
      /\ \A u \in Tab, m \in Notice : u # t \/ m # n => phase'[u][m] = phase[u][m]
  BY <1>2, PhaseGoes DEF AttentionInv
<1>4. lock' = IF lock[n] = {} THEN [lock EXCEPT ![n] = {t}] ELSE lock
  BY DEF Answer
<1>5. LockTypeOK'
  BY <1>4 DEF AttentionInv, LockTypeOK
<1>6. AttentionTypeOK'
  BY <1>1, <1>3, <1>5, LocksAreSmall DEF AttentionInv, AttentionTypeOK, LockTypeOK, settings
<1>7. LockIsHeld'
  <2>1. ASSUME NEW m \in Notice, NEW u \in Tab
        PROVE  phase'[u][m] \in Locking <=> lock'[m] = {u}
    <3>1. CASE m # n
      BY <1>3, <1>4, <3>1 DEF AttentionInv, LockIsHeld, LockTypeOK
    <3>2. CASE m = n /\ lock[n] = {}
      BY <1>2, <1>3, <1>4, <3>2 DEF AttentionInv, LockIsHeld, LockTypeOK
    <3>3. CASE m = n /\ lock[n] # {}
      <4>1. phase[t][n] \notin Locking
        BY DEF Answer, Locking
      <4> QED  BY <1>2, <1>3, <1>4, <3>3, <4>1 DEF AttentionInv, LockIsHeld
    <3> QED  BY <3>1, <3>2, <3>3
  <2> QED  BY <2>1 DEF LockIsHeld
<1>8. MetIsKnown' /\ ActedOnce'
  <2>1. phase[t][n] # "holding"
    BY DEF Answer
  <2>2. \A u \in Tab, m \in Notice : phase[u][m] = "holding" => phase'[u][m] = "holding"
    BY <1>3, <2>1
  <2> QED  BY <1>1, <2>2 DEF AttentionInv, MetIsKnown, ActedOnce, Met
<1> QED  BY <1>5, <1>6, <1>7, <1>8 DEF AttentionInv

(* Marking a notice and holding its lock, or leaving without one.          *)
LEMMA TakeKeeps ==
  ASSUME AttentionInv, NEW t \in Tab, NEW n \in Notice, TakeSilently(t, n)
  PROVE  AttentionInv'
<1>1. UNCHANGED <<focus, settings, lock, acted>> /\ MarkHandled(t, n)
  BY DEF TakeSilently
<1>2. PICK p \in TabPhase :
        /\ Goes(t, n, p) /\ (p \in Locking <=> phase[t][n] \in Locking)
        /\ phase[t][n] # "holding"
        /\ taken' = (IF p = "holding" THEN taken \cup {n} ELSE taken)
  BY DEF TakeSilently, TabPhase, Locking
<1>3. /\ phase' \in [Tab -> [Notice -> TabPhase]] /\ phase'[t][n] = p
      /\ \A u \in Tab, m \in Notice : u # t \/ m # n => phase'[u][m] = phase[u][m]
  BY <1>2, PhaseGoes DEF AttentionInv
<1>4. /\ store' \subseteq Notice /\ lost' \subseteq Notice /\ lost \subseteq lost' /\ n \in store'
      /\ seenMap' \in [Tab -> SUBSET Notice]
      /\ \A m \in Notice : m \in store /\ m \notin lost' => m \in store'
      /\ \A u \in Tab : seenMap[u] \subseteq seenMap'[u]
  BY <1>1, MarkIsKept DEF AttentionInv
<1>5. AttentionTypeOK' /\ LockTypeOK'
  BY <1>1, <1>2, <1>3, <1>4 DEF AttentionInv, AttentionTypeOK, LockTypeOK, settings
<1>6. LockIsHeld'
  BY <1>1, <1>2, <1>3 DEF AttentionInv, LockIsHeld
<1>7. \A u \in Tab, m \in Notice : phase[u][m] = "holding" => phase'[u][m] = "holding"
  BY <1>2, <1>3
<1>8. MetIsKnown'
  <2>1. ASSUME NEW m \in Notice, Met(m)', m \notin lost'
        PROVE  /\ m \in store'
               /\ \/ \A u \in Tab : m \in seenMap'[u]
                  \/ \E u \in Tab : phase'[u][m] = "holding"
    <3>1. CASE Met(m)
      BY <1>4, <1>7, <2>1, <3>1 DEF AttentionInv, MetIsKnown
    <3>2. CASE ~Met(m)
      BY <1>1, <1>2, <1>3, <1>4, <2>1, <3>2 DEF Met
    <3> QED  BY <3>1, <3>2
  <2> QED  BY <2>1 DEF MetIsKnown
<1>9. ActedOnce'
  BY <1>1, <1>4 DEF AttentionInv, ActedOnce
<1> QED  BY <1>5, <1>6, <1>8, <1>9 DEF AttentionInv

(* A tab that is granted the lock and does not see a mark is the first.    *)
LEMMA NobodyMet ==
  ASSUME AttentionInv, NEW t \in Tab, NEW n \in Notice, phase[t][n] = "granted",
         ~IsHandled(t, n), n \notin lost
  PROVE  ~Met(n)
<1>1. \A u \in Tab : phase[u][n] # "holding"
  BY LockExcludes DEF AttentionInv, Locking
<1> QED  BY <1>1 DEF AttentionInv, MetIsKnown, IsHandled

LEMMA ActKeeps ==
  ASSUME AttentionInv, NEW t \in Tab, NEW n \in Notice, ActBehind(t, n), ~IsHandled(t, n)
  PROVE  AttentionInv'
<1>1. /\ UNCHANGED <<focus, settings, lock, taken>> /\ MarkHandled(t, n)
      /\ phase[t][n] = "granted" /\ Goes(t, n, "holding")
      /\ acted' = [acted EXCEPT ![n] = @ \cup Signals(t)]
  BY DEF ActBehind
<1>2. Signals(t) \in {{}, {t}}
  BY DEF Signals
<1>3. /\ phase' \in [Tab -> [Notice -> TabPhase]] /\ phase'[t][n] = "holding"
      /\ \A u \in Tab, m \in Notice : u # t \/ m # n => phase'[u][m] = phase[u][m]
  BY <1>1, PhaseGoes DEF AttentionInv, TabPhase
<1>4. /\ store' \subseteq Notice /\ lost' \subseteq Notice /\ lost \subseteq lost' /\ n \in store'
      /\ seenMap' \in [Tab -> SUBSET Notice]
      /\ \A m \in Notice : m \in store /\ m \notin lost' => m \in store'
      /\ \A u \in Tab : seenMap[u] \subseteq seenMap'[u]
  BY <1>1, MarkIsKept DEF AttentionInv
<1>5. acted' \in [Notice -> SUBSET Tab]
  BY <1>1, <1>2 DEF AttentionInv, AttentionTypeOK
<1>6. AttentionTypeOK' /\ LockTypeOK'
  BY <1>1, <1>3, <1>4, <1>5 DEF AttentionInv, AttentionTypeOK, LockTypeOK, settings
<1>7. LockIsHeld'
  BY <1>1, <1>3 DEF AttentionInv, LockIsHeld, Locking
<1>8. \A u \in Tab, m \in Notice : phase[u][m] = "holding" => phase'[u][m] = "holding"
  BY <1>1, <1>3
<1>9. \A m \in Notice : m # n => acted'[m] = acted[m]
  BY <1>1 DEF AttentionInv, AttentionTypeOK
<1>10. MetIsKnown'
  <2>1. ASSUME NEW m \in Notice, Met(m)', m \notin lost'
        PROVE  /\ m \in store'
               /\ \/ \A u \in Tab : m \in seenMap'[u]
                  \/ \E u \in Tab : phase'[u][m] = "holding"
    <3>1. CASE m = n
      BY <1>3, <1>4, <3>1
    <3>2. CASE m # n
      BY <1>1, <1>4, <1>8, <1>9, <2>1, <3>2 DEF AttentionInv, MetIsKnown, Met
    <3> QED  BY <3>1, <3>2
  <2> QED  BY <2>1 DEF MetIsKnown
<1>11. n \notin lost' => acted'[n] = Signals(t)
  BY <1>1, <1>4, NobodyMet DEF AttentionInv, AttentionTypeOK, Met
<1>12. ActedOnce'
  BY <1>2, <1>4, <1>9, <1>11 DEF AttentionInv, ActedOnce
<1> QED  BY <1>6, <1>7, <1>10, <1>12 DEF AttentionInv

(* A tab lets the lock go when the mark is everywhere.                     *)
LEMMA LettingGoKeeps ==
  ASSUME AttentionInv, NEW t \in Tab, NEW n \in Notice,
         (ActBehind(t, n) /\ IsHandled(t, n)) \/ Release(t, n)
  PROVE  AttentionInv'
<1>1. /\ UNCHANGED <<focus, settings, store, seenMap, lost, taken, acted>>
      /\ Goes(t, n, "done") /\ lock' = [lock EXCEPT ![n] = {}]
      /\ phase[t][n] \in Locking
  BY DEF ActBehind, Release, marks, Locking
<1>2. /\ phase' \in [Tab -> [Notice -> TabPhase]] /\ phase'[t][n] = "done"
      /\ \A u \in Tab, m \in Notice : u # t \/ m # n => phase'[u][m] = phase[u][m]
  BY <1>1, PhaseGoes DEF AttentionInv, TabPhase
<1>3. LockTypeOK'
  BY <1>1 DEF AttentionInv, LockTypeOK
<1>4. AttentionTypeOK'
  BY <1>1, <1>2, <1>3, LocksAreSmall DEF AttentionInv, AttentionTypeOK, LockTypeOK, settings
<1>5. LockIsHeld'
  <2>1. ASSUME NEW m \in Notice, NEW u \in Tab
        PROVE  phase'[u][m] \in Locking <=> lock'[m] = {u}
    <3>1. CASE m # n
      BY <1>1, <1>2, <3>1 DEF AttentionInv, LockIsHeld, LockTypeOK
    <3>2. CASE m = n
      <4>1. lock'[n] = {}
        BY <1>1 DEF AttentionInv, LockTypeOK
      <4>2. phase'[u][n] \notin Locking
        <5>1. CASE u = t
          BY <1>2, <5>1 DEF Locking
        <5>2. CASE u # t
          BY <1>1, <1>2, <5>2, LockExcludes DEF AttentionInv
        <5> QED  BY <5>1, <5>2
      <4> QED  BY <3>2, <4>1, <4>2
    <3> QED  BY <3>1, <3>2
  <2> QED  BY <2>1 DEF LockIsHeld
<1>6. MetIsKnown'
  <2>1. ASSUME NEW m \in Notice, Met(m), m \notin lost
        PROVE  /\ m \in store
               /\ \/ \A u \in Tab : m \in seenMap[u]
                  \/ \E u \in Tab : phase'[u][m] = "holding"
    <3>1. CASE m # n
      BY <1>2, <2>1, <3>1 DEF AttentionInv, MetIsKnown
    <3>2. CASE m = n /\ Release(t, n)
      BY <2>1, <3>2 DEF Release, IsHandled, AttentionInv, MetIsKnown
    <3>3. CASE m = n /\ ActBehind(t, n)
      <4>1. \A u \in Tab : phase[u][n] # "holding"
        BY <1>1, <3>3, LockExcludes DEF AttentionInv, ActBehind, Locking
      <4> QED  BY <2>1, <3>3, <4>1 DEF AttentionInv, MetIsKnown
    <3> QED  BY <3>1, <3>2, <3>3
  <2> QED  BY <1>1, <2>1 DEF MetIsKnown, Met
<1>7. ActedOnce'
  BY <1>1 DEF AttentionInv, ActedOnce
<1> QED  BY <1>3, <1>4, <1>5, <1>6, <1>7 DEF AttentionInv

-----------------------------------------------------------------------------
LEMMA AttentionBegins == AttentionInit => AttentionInv
<1> SUFFICES ASSUME AttentionInit PROVE AttentionInv
  OBVIOUS
<1>1. LockTypeOK
  BY DEF AttentionInit, LockTypeOK
<1>2. Cardinality(focus) <= 1
  <2>1. Cardinality({}) = 0
    BY FS_EmptySet
  <2> QED  BY <2>1 DEF AttentionInit
<1>3. AttentionTypeOK
  BY <1>1, <1>2, LocksAreSmall DEF AttentionInit, AttentionTypeOK, LockTypeOK, TabPhase
<1>4. LockIsHeld /\ MetIsKnown /\ ActedOnce
  BY DEF AttentionInit, LockIsHeld, Locking, MetIsKnown, Met, ActedOnce
<1> QED  BY <1>1, <1>3, <1>4 DEF AttentionInv

LEMMA AttentionStep == AttentionInv /\ [AttentionNext]_attentionVars => AttentionInv'
<1> SUFFICES ASSUME AttentionInv, [AttentionNext]_attentionVars PROVE AttentionInv'
  OBVIOUS
<1>1. CASE UNCHANGED attentionVars
  BY <1>1 DEF attentionVars, settings, marks, AttentionInv, AttentionTypeOK, LockTypeOK,
     LockIsHeld, MetIsKnown, Met, ActedOnce
<1>2. CASE TurnTo \/ \E t \in Tab :
             CatchUp(t) \/ MarkAnother(t) \/ WakeAudio(t) \/ SetSound(t) \/ SetDesktop(t)
  BY <1>2, SurroundingsKeep
<1>3. ASSUME NEW t \in Tab, NEW n \in Notice, SeenHere(t, n) \/ Notify(t, n) \/ WaitOver(t, n)
      PROVE  AttentionInv'
  BY <1>3, BystandersKeep
<1>4. ASSUME NEW t \in Tab, NEW n \in Notice, Answer(t, n)  PROVE AttentionInv'
  BY <1>4, AnswerKeeps
<1>5. ASSUME NEW t \in Tab, NEW n \in Notice, TakeSilently(t, n)  PROVE AttentionInv'
  BY <1>5, TakeKeeps
<1>6. ASSUME NEW t \in Tab, NEW n \in Notice, ActBehind(t, n)  PROVE AttentionInv'
  BY <1>6, ActKeeps, LettingGoKeeps
<1>7. ASSUME NEW t \in Tab, NEW n \in Notice, Release(t, n)  PROVE AttentionInv'
  BY <1>7, LettingGoKeeps
<1> QED  BY <1>1, <1>2, <1>3, <1>4, <1>5, <1>6, <1>7 DEF AttentionNext

(* The lock of a notice and the marks in the storage and in the copies of  *)
(* the tabs fit together after any number of steps of any tabs.            *)
THEOREM AttentionInvHolds == AttentionSpec => []AttentionInv
<1> QED  BY AttentionBegins, AttentionStep, PTL DEF AttentionSpec

(* Every variable of a browser's tabs keeps its kind, and a lock has one   *)
(* holder at most.                                                         *)
THEOREM AttentionTypes == AttentionSpec => []AttentionTypeOK
<1>1. AttentionInv => AttentionTypeOK
  BY DEF AttentionInv
<1> QED  BY <1>1, AttentionInvHolds, PTL

LEMMA OnlyTheFirstActs ==
  ASSUME AttentionInv, [AttentionNext]_attentionVars, NEW n \in Notice, n \notin lost', n \in taken
  PROVE  acted'[n] = acted[n]
<1>1. CASE UNCHANGED acted
  BY <1>1
<1>2. ASSUME NEW t \in Tab, NEW m \in Notice, ActBehind(t, m), ~IsHandled(t, m)
      PROVE  acted'[n] = acted[n]
  <2>1. acted' = [acted EXCEPT ![m] = @ \cup Signals(t)] /\ MarkHandled(t, m)
    BY <1>2 DEF ActBehind
  <2>2. n \notin lost
    BY <2>1 DEF MarkHandled
  <2>3. m # n
    BY <1>2, <2>2, NobodyMet DEF ActBehind, Met
  <2> QED  BY <2>1, <2>3 DEF AttentionInv, AttentionTypeOK
<1> QED  BY <1>1, <1>2 DEF AttentionNext, attentionVars, TurnTo, CatchUp, MarkAnother, WakeAudio,
   SetSound, SetDesktop, SeenHere, Notify, WaitOver, Answer, TakeSilently, ActBehind, Release

(* However many tabs there are, one of them acts on a notice at most, and  *)
(* none on a notice that a tab in focus was the first to take, unless a    *)
(* mark was overwritten (attention.service.ts).                            *)
THEOREM OneTabEverActs == AttentionSpec => OneTabActs
<1>1. ASSUME AttentionInv, AttentionInv', [AttentionNext]_attentionVars
      PROVE  [\A n \in Notice : n \notin lost' =>
                /\ Cardinality(acted'[n]) <= 1
                /\ n \in taken => acted'[n] = acted[n]]_attentionVars
  <2>1. ASSUME NEW n \in Notice, n \notin lost'  PROVE Cardinality(acted'[n]) <= 1
    <3>1. \A t, u \in acted'[n] : t = u
      BY <1>1, <2>1 DEF AttentionInv, ActedOnce
    <3> QED  BY <3>1, AtMostOne
  <2>2. \A n \in Notice : n \notin lost' /\ n \in taken => acted'[n] = acted[n]
    BY <1>1, OnlyTheFirstActs
  <2> QED  BY <2>1, <2>2
<1> QED  BY <1>1, AttentionInvHolds, PTL DEF AttentionSpec, OneTabActs

-----------------------------------------------------------------------------
(* A row as it was read: its run is one of its remark, no newer than the   *)
(* table, and the newest is what the table says.                           *)
RowIsOf(c, row) ==
  /\ row.run.of = c /\ (row.stage # "none" => row.run.n > 0)
  /\ row.age <= srv[c].age /\ (row.age = srv[c].age => row = srv[c])

RowsAreRead ==
  /\ \A c \in Card : /\ RowIsOf(c, srv[c]) /\ (srv[c].stage = "none" => srv[c].run.n = 0)
                     /\ srv[c].run.n <= steps /\ srv[c].age <= steps
                     /\ RowIsOf(c, copy[c])
                     /\ copy[c].age <= seen[c] /\ seen[c] <= srv[c].age /\ told[c] <= srv[c].age
  /\ \A l \in arriving : RowIsOf(l.card, l.row)
  /\ \A j \in joining : RowIsOf(j.card, j.row)
  /\ visit <= steps + 1

(* Nothing speaks of a run that never was.                                 *)
RunsAreReal ==
  /\ \A o \in owed : o[1].n > 0
  /\ \A i \in 1..Len(down) :
       IF down[i].kind = "ack" THEN down[i].run = NoRun \/ down[i].run.n > 0
                               ELSE down[i].run.n > 0
  /\ \A c \in Card : view[c].on => view[c].run.n > 0

(* The tab is on its way into the room of its card, or there: whatever is  *)
(* under way to the server ends in the join of this visit.                 *)
Entering ==
  \/ ~connected
  \/ up # <<>>
  \/ \E j \in joining : j.visit = visit

JoinIsOf(v, c) == v <= visit /\ (v = visit => c = open)

Inside ==
  /\ up # <<>> => up[Len(up)] = JoinMsg(visit)
  /\ \A j \in joining : JoinIsOf(j.visit, j.card)
  /\ \A i \in 1..Len(up) : up[i].kind = "join" => JoinIsOf(up[i].visit, up[i].card)
  /\ Entering \/ open \in member
  /\ ~connected => up = <<>> /\ down = <<>> /\ member = {} /\ joining = {}

(* Every other room is left, or will be, but for those that slipped.       *)
LeaveComes(c, i) == \E k \in 1..Len(up) : k > i /\ up[k] = LeaveMsg(c)

OthersAreLeft ==
  /\ \A c \in Card : (c \in member \/ \E j \in joining : j.card = c)
                       => c = open \/ c \in slipped \/ LeaveComes(c, 0)
  /\ \A i \in 1..Len(up) : up[i].kind = "join" => up[i].card = open \/ LeaveComes(up[i].card, i)

(* The card is read again when this message is heard.                      *)
Rereads(m) == m.kind \in {"waiting", "persisted", "end"} \/ (m.kind = "ack" /\ m.visit = visit)

(* What was told of the open card is read, or will be.                     *)
ToldIsRead ==
  \/ seen[open] >= told[open]
  \/ asked[open] > 0 \/ \E l \in arriving : l.card = open /\ l.row.age >= told[open]
  \/ \E i \in 1..Len(down) : Rereads(down[i])
  \/ Entering

(* A late "working" of the newest run is not heard from message i on.      *)
NotAtWork(i) ==
  \A k \in 1..Len(down) : k >= i => ~(down[k].kind = "working" /\ down[k].run = srv[open].run)

(* The newest run of the open card has stopped, with a word about it: the  *)
(* word is still to come, or an answer that says so, after the last        *)
(* "working"; or the answer is there, and the view is off unless an older  *)
(* answer came after it.                                                   *)
StopIsSeen ==
  srv[open].stage \in {"waiting", "over"} /\ open \notin quiet =>
    \/ Entering \/ \E o \in owed : o[1] = srv[open].run
    \/ \E i \in 1..Len(down) : Rereads(down[i]) /\ NotAtWork(i)
    \/ /\ NotAtWork(1)
       /\ \/ asked[open] > 0 \/ [card |-> open, row |-> srv[open]] \in arriving
          \/ /\ seen[open] = srv[open].age
             /\ Overtaken(open) \/ ~view[open].on \/ view[open].run # srv[open].run

RoomInv ==
  /\ CardTypeOK /\ RowsAreRead /\ RunsAreReal
  /\ Inside /\ OthersAreLeft /\ ToldIsRead /\ StopIsSeen

-----------------------------------------------------------------------------
(* Rows and messages are of their kind.                                    *)
LEMMA RowParts ==
  ASSUME NEW row \in Row
  PROVE  /\ row.run \in RunOf /\ row.run.of \in Card /\ row.run.n \in 0..MaxSteps
         /\ row.stage \in Stage /\ row.age \in 0..MaxSteps
BY DEF Row, RunOf

LEMMA DownParts ==
  ASSUME NEW m \in DownMsg
  PROVE  /\ m.run \in RunOf /\ m.run.n \in 0..MaxSteps
         /\ m.kind \in {"ack", "working", "waiting", "persisted", "end"}
         /\ m.kind # "ack" => m.visit = 0
BY DEF DownMsg, RunOf

LEMMA BoundsAreNumbers == MaxSteps \in Nat /\ FirstCard \in Card
BY CardRoomAssumption

LEMMA Appended ==
  ASSUME NEW S, NEW s \in Seq(S), NEW t \in Seq(S)
  PROVE  /\ s \o t \in Seq(S) /\ Len(s \o t) = Len(s) + Len(t)
         /\ \A i \in 1..Len(s) : (s \o t)[i] = s[i]
         /\ \A i \in 1..Len(s \o t) : i > Len(s) =>
               /\ i - Len(s) \in DOMAIN t
               /\ (s \o t)[i] = t[i - Len(s)]
OBVIOUS

(* What a message of the server appends to the socket.                     *)
EventList == {<<"working">>, <<"waiting">>, <<"end">>, <<"persisted", "end">>}

LEMMA TellAppends ==
  ASSUME CardTypeOK, NEW c \in Card, NEW r \in RunOf, NEW kinds, Tell(c, kinds, r),
         kinds \in EventList
  PROVE  /\ down' \in Seq(DownMsg) /\ Len(down) <= Len(down')
         /\ \A i \in 1..Len(down) : down'[i] = down[i]
         /\ \A i \in 1..Len(down') : i > Len(down) => down'[i].run = r /\ down'[i].visit = 0
         /\ \A i \in 1..Len(down') : i > Len(down) => \E k \in DOMAIN kinds : down'[i].kind = kinds[k]
         /\ c \notin member => down' = down
         /\ c \in member => /\ Len(down') > Len(down)
                            /\ down'[Len(down')].kind = kinds[Len(kinds)]
<1> DEFINE events == [i \in DOMAIN kinds |-> [kind |-> kinds[i], run |-> r, visit |-> 0]]
<1>1. kinds \in Seq({"working", "waiting", "persisted", "end"}) /\ Len(kinds) > 0
  <2>1. CASE kinds = <<"working">>
    BY <2>1
  <2>2. CASE kinds = <<"waiting">>
    BY <2>2
  <2>3. CASE kinds = <<"end">>
    BY <2>3
  <2>4. CASE kinds = <<"persisted", "end">>
    BY <2>4
  <2> QED  BY <2>1, <2>2, <2>3, <2>4 DEF EventList
<1>2. /\ events \in Seq(DownMsg) /\ Len(events) = Len(kinds)
      /\ \A i \in 1..Len(kinds) : /\ events[i].kind = kinds[i] /\ events[i].run = r
                                  /\ events[i].visit = 0
  BY <1>1 DEF DownMsg
<1>3. down \in Seq(DownMsg)
  BY DEF CardTypeOK
<1>4. down' = IF c \in member THEN down \o events ELSE down
  BY DEF Tell
<1> HIDE DEF events
<1>5. CASE c \in member
  <2>1. down' = down \o events
    BY <1>4, <1>5
  <2>2. /\ down' \in Seq(DownMsg) /\ Len(down') = Len(down) + Len(events)
        /\ \A i \in 1..Len(down) : down'[i] = down[i]
        /\ \A i \in 1..Len(down') : i > Len(down) =>
               /\ i - Len(down) \in DOMAIN events
               /\ down'[i] = events[i - Len(down)]
    <3>1. /\ down \o events \in Seq(DownMsg) /\ Len(down \o events) = Len(down) + Len(events)
          /\ \A i \in 1..Len(down) : (down \o events)[i] = down[i]
          /\ \A i \in 1..Len(down \o events) : i > Len(down) =>
               /\ i - Len(down) \in DOMAIN events
               /\ (down \o events)[i] = events[i - Len(down)]
      <4>1. down \in Seq(DownMsg) /\ events \in Seq(DownMsg)
        BY <1>2, <1>3
      <4> QED  BY <4>1, Appended
    <3> QED  BY <2>1, <3>1
  <2>3. DOMAIN events = 1..Len(kinds) /\ DOMAIN kinds = 1..Len(kinds) /\ Len(kinds) \in Nat /\ Len(down) \in Nat
    BY <1>1, <1>2, <1>3
  <2>4. ASSUME NEW i \in 1..Len(down'), i > Len(down)
        PROVE  /\ down'[i].run = r /\ down'[i].visit = 0
               /\ \E k \in DOMAIN kinds : down'[i].kind = kinds[k]
    <3>1. i - Len(down) \in 1..Len(kinds) /\ down'[i] = events[i - Len(down)]
      BY <2>2, <2>3, <2>4
    <3> QED  BY <1>2, <2>3, <3>1
  <2>5. Len(down') > Len(down) /\ down'[Len(down')].kind = kinds[Len(kinds)]
    BY <1>1, <1>2, <2>2, <2>3
  <2> QED  BY <1>5, <2>2, <2>3, <2>4, <2>5
<1>6. CASE c \notin member
  BY <1>3, <1>4, <1>6
<1> QED  BY <1>5, <1>6

-----------------------------------------------------------------------------
(* The run of a remark moves on: only its own row changes.                 *)
LEMMA RowMovesOn ==
  ASSUME RoomInv, NEW c \in Card, NEW stage \in {"working", "waiting", "over"}, NEW n \in Nat,
         Moves(c, stage, n), n > 0, n <= srv[c].run.n + 1,
         UNCHANGED <<told, phaseOf, down>>
  PROVE  /\ srv' \in [Card -> Row] /\ steps' \in 0..MaxSteps
         /\ RowsAreRead' /\ Inside' /\ OthersAreLeft' /\ ToldIsRead'
         /\ \A d \in Card : d # c => srv'[d] = srv[d]
         /\ srv'[c].stage = stage /\ srv'[c].run = [of |-> c, n |-> n]
<1> USE BoundsAreNumbers
<1>1. steps \in 0..MaxSteps /\ steps' = steps + 1 /\ steps' <= MaxSteps
  BY DEF Moves, Step, RoomInv, CardTypeOK
<1>2. UNCHANGED <<socketVars, pageVars, told, phaseOf, down>>
  BY DEF Moves
<1>3. srv[c] \in Row /\ srv[c].run.of = c /\ srv[c].run.n <= steps /\ srv[c].age <= steps
  BY DEF RoomInv, CardTypeOK, RowsAreRead, RowIsOf
<1>4. /\ \A d \in Card : d # c => srv'[d] = srv[d]
      /\ srv'[c] = [run |-> [of |-> c, n |-> n], stage |-> stage, age |-> srv[c].age + 1]
      /\ srv' \in [Card -> Row]
  <2>1. srv \in [Card -> Row] /\ srv' = [srv EXCEPT ![c].stage = stage, ![c].run.n = n, ![c].age = @ + 1]
    BY DEF RoomInv, CardTypeOK, Moves
  <2>2. srv'[c] = [run |-> [of |-> c, n |-> n], stage |-> stage, age |-> srv[c].age + 1]
    BY <1>3, <2>1, RowParts DEF Row, RunOf
  <2>3. n \in 0..MaxSteps /\ srv[c].age + 1 \in 0..MaxSteps
    BY <1>1, <1>3, RowParts
  <2>4. srv'[c] \in Row
    BY <2>2, <2>3 DEF Row, RunOf, Stage
  <2> QED  BY <2>1, <2>2, <2>4
<1>5. \A d \in Card, row \in Row : RowIsOf(d, row) => RowIsOf(d, row)' /\ row.age <= srv'[d].age
  BY <1>3, <1>4, RowParts DEF RowIsOf
<1>6. RowsAreRead'
  <2>1. \A d \in Card : /\ RowIsOf(d, srv[d])' /\ (srv'[d].stage = "none" => srv'[d].run.n = 0)
                        /\ srv'[d].run.n <= steps' /\ srv'[d].age <= steps'
    <3>1. ASSUME NEW d \in Card, d # c
          PROVE  /\ RowIsOf(d, srv[d])' /\ (srv'[d].stage = "none" => srv'[d].run.n = 0)
                 /\ srv'[d].run.n <= steps' /\ srv'[d].age <= steps'
      <4>1. srv[d] \in Row /\ srv[d].run.n <= steps /\ srv[d].age <= steps
        BY DEF RoomInv, CardTypeOK, RowsAreRead
      <4> QED  BY <1>1, <1>4, <3>1, <4>1, RowParts DEF RoomInv, RowsAreRead, RowIsOf
    <3>2. ASSUME NEW d \in Card, d = c
          PROVE  /\ RowIsOf(d, srv[d])' /\ (srv'[d].stage = "none" => srv'[d].run.n = 0)
                 /\ srv'[d].run.n <= steps' /\ srv'[d].age <= steps'
      BY <1>1, <1>3, <1>4, <3>2, RowParts DEF RowIsOf
    <3> QED  BY <3>1, <3>2
  <2>2. \A d \in Card : /\ RowIsOf(d, copy[d])' /\ copy'[d].age <= seen'[d]
                        /\ seen'[d] <= srv'[d].age /\ told'[d] <= srv'[d].age
    <3> SUFFICES ASSUME NEW d \in Card
                 PROVE  /\ RowIsOf(d, copy[d])' /\ copy'[d].age <= seen'[d]
                        /\ seen'[d] <= srv'[d].age /\ told'[d] <= srv'[d].age
      OBVIOUS
    <3>1. /\ copy[d] \in Row /\ srv[d] \in Row /\ seen[d] \in 0..MaxSteps /\ told[d] \in 0..MaxSteps
          /\ RowIsOf(d, copy[d]) /\ copy[d].age <= seen[d]
          /\ seen[d] <= srv[d].age /\ told[d] <= srv[d].age
      BY DEF RoomInv, CardTypeOK, RowsAreRead
    <3>2. srv'[d].age \in Nat /\ srv[d].age <= srv'[d].age
      BY <1>3, <1>4, <3>1, RowParts
    <3>3. UNCHANGED <<copy, seen, told>>
      BY <1>2 DEF pageVars
    <3> QED  BY <1>5, <3>1, <3>2, <3>3, RowParts
  <2>3. (\A l \in arriving : RowIsOf(l.card, l.row))'
    BY <1>2, <1>5 DEF RoomInv, CardTypeOK, RowsAreRead, pageVars
  <2>4. (\A j \in joining : RowIsOf(j.card, j.row))'
    BY <1>2, <1>5 DEF RoomInv, CardTypeOK, RowsAreRead, socketVars
  <2>5. (visit <= steps + 1)'
    BY <1>1, <1>2 DEF RoomInv, CardTypeOK, RowsAreRead, pageVars, Visit
  <2> QED  BY <2>1, <2>2, <2>3, <2>4, <2>5 DEF RowsAreRead
<1>7. Inside' /\ OthersAreLeft'
  BY <1>2 DEF RoomInv, Inside, Entering, JoinIsOf, JoinMsg, OthersAreLeft, LeaveComes, LeaveMsg,
     socketVars, pageVars
<1>8. ToldIsRead'
  BY <1>2 DEF RoomInv, ToldIsRead, Rereads, Entering, socketVars, pageVars
<1> QED  BY <1>1, <1>4, <1>6, <1>7, <1>8

LEMMA StopStays ==
  ASSUME StopIsSeen, srv'[open] = srv[open], open \notin quiet' => open \notin quiet,
         owed \subseteq owed', UNCHANGED <<socketVars, down, pageVars>>
  PROVE  StopIsSeen'
<1> SUFFICES ASSUME (srv[open].stage \in {"waiting", "over"} /\ open \notin quiet)'
             PROVE  StopIsSeen'
  BY DEF StopIsSeen
<1>1. UNCHANGED <<connected, up, joining, visit, down, open, asked, arriving, seen, copy, view>>
  BY DEF socketVars, pageVars
<1>2. srv[open].stage \in {"waiting", "over"} /\ open \notin quiet
  BY <1>1
<1>3. CASE Entering
  BY <1>1, <1>3 DEF StopIsSeen, Entering
<1>4. CASE \E o \in owed : o[1] = srv[open].run
  BY <1>1, <1>4 DEF StopIsSeen
<1>5. CASE \E i \in 1..Len(down) : Rereads(down[i]) /\ NotAtWork(i)
  BY <1>1, <1>5 DEF StopIsSeen, Rereads, NotAtWork
<1>6. CASE /\ NotAtWork(1)
           /\ \/ asked[open] > 0 \/ [card |-> open, row |-> srv[open]] \in arriving
              \/ /\ seen[open] = srv[open].age
                 /\ Overtaken(open) \/ ~view[open].on \/ view[open].run # srv[open].run
  BY <1>1, <1>6 DEF StopIsSeen, NotAtWork, Overtaken
<1> QED  BY <1>2, <1>3, <1>4, <1>5, <1>6 DEF StopIsSeen

LEMMA RunBeginsKeeps ==
  ASSUME RoomInv, NEW c \in Card, RunBegins(c)
  PROVE  RoomInv'
<1>1. srv[c] \in Row /\ RowIsOf(c, srv[c]) /\ srv[c].run.n \in Nat
  BY RowParts, BoundsAreNumbers DEF RoomInv, CardTypeOK, RowsAreRead
<1>2. PICK n \in Nat : Moves(c, "working", n) /\ n > 0 /\ n <= srv[c].run.n + 1
  BY <1>1 DEF RunBegins, RowIsOf
<1>3. UNCHANGED <<owed, told, quiet, phaseOf, down, socketVars, pageVars>>
  BY <1>2 DEF RunBegins, Moves
<1>4. /\ srv' \in [Card -> Row] /\ steps' \in 0..MaxSteps
      /\ RowsAreRead' /\ Inside' /\ OthersAreLeft' /\ ToldIsRead'
      /\ \A d \in Card : d # c => srv'[d] = srv[d]
      /\ srv'[c].stage = "working"
  BY <1>2, <1>3, RowMovesOn
<1>5. CardTypeOK' /\ RunsAreReal'
  BY <1>3, <1>4 DEF RoomInv, CardTypeOK, RunsAreReal, socketVars, pageVars
<1>6. StopIsSeen'
  <2>1. CASE c = open
    BY <1>3, <1>4, <2>1 DEF StopIsSeen, pageVars
  <2>2. CASE c # open
    BY <1>3, <1>4, <2>2, StopStays DEF RoomInv, CardTypeOK
  <2> QED  BY <2>1, <2>2
<1> QED  BY <1>4, <1>5, <1>6 DEF RoomInv

LEMMA RunStopsKeeps ==
  ASSUME RoomInv, NEW c \in Card, RunProposes(c) \/ RunEnds(c)
  PROVE  RoomInv'
<1>1. /\ srv[c] \in Row /\ RowIsOf(c, srv[c]) /\ srv[c].run.n \in Nat /\ srv[c].run.n > 0
      /\ srv[c].run \in RunOf /\ srv[c].run = [of |-> c, n |-> srv[c].run.n]
  <2>1. srv[c] \in Row /\ RowIsOf(c, srv[c]) /\ srv[c].stage # "none"
    BY DEF RoomInv, CardTypeOK, RowsAreRead, RunProposes, RunEnds
  <2> QED  BY <2>1, RowParts, BoundsAreNumbers DEF RowIsOf, RunOf
<1>2. PICK stage \in {"waiting", "over"} : Moves(c, stage, srv[c].run.n)
  BY DEF RunProposes, RunEnds
<1>3. UNCHANGED <<told, phaseOf, down, socketVars, pageVars>>
  BY <1>2 DEF RunProposes, RunEnds, Moves
<1>4. /\ srv' \in [Card -> Row] /\ steps' \in 0..MaxSteps
      /\ RowsAreRead' /\ Inside' /\ OthersAreLeft' /\ ToldIsRead'
      /\ \A d \in Card : d # c => srv'[d] = srv[d]
      /\ srv'[c].run = srv[c].run
  BY <1>1, <1>2, <1>3, RowMovesOn
<1>5. /\ owed \subseteq owed' /\ owed' \subseteq owed \cup {<<srv[c].run, "waiting">>, <<srv[c].run, "end">>}
      /\ quiet' \subseteq quiet \cup {c}
      /\ c \notin quiet' => <<srv[c].run, "waiting">> \in owed' \/ <<srv[c].run, "end">> \in owed'
      /\ \A d \in Card : d # c /\ d \notin quiet' => d \notin quiet
  BY DEF RunProposes, RunEnds
<1>6. CardTypeOK' /\ RunsAreReal'
  <2>1. owed' \subseteq RunOf \X Word /\ \A o \in owed' : o[1].n > 0
    <3>1. owed \subseteq RunOf \X Word /\ \A o \in owed : o[1].n > 0
      BY DEF RoomInv, CardTypeOK, RunsAreReal
    <3>2. \A w \in Word : <<srv[c].run, w>> \in RunOf \X Word /\ <<srv[c].run, w>>[1].n > 0
      BY <1>1
    <3>3. \A o \in owed' : o \in owed \/ \E w \in Word : o = <<srv[c].run, w>>
      BY <1>5 DEF Word
    <3> QED  BY <3>1, <3>2, <3>3
  <2>2. quiet' \subseteq Card
    BY <1>5 DEF RoomInv, CardTypeOK
  <2> QED  BY <1>3, <1>4, <2>1, <2>2 DEF RoomInv, CardTypeOK, RunsAreReal, socketVars, pageVars
<1>7. StopIsSeen'
  <2>1. CASE c = open
    <3>1. c \notin quiet' => \E o \in owed' : o[1] = srv'[c].run
      BY <1>4, <1>5
    <3>2. open' = c
      BY <1>3, <2>1 DEF pageVars
    <3> QED  BY <3>1, <3>2 DEF StopIsSeen
  <2>2. CASE c # open
    BY <1>3, <1>4, <1>5, <2>2, StopStays DEF RoomInv, CardTypeOK
  <2> QED  BY <2>1, <2>2
<1> QED  BY <1>4, <1>6, <1>7 DEF RoomInv

-----------------------------------------------------------------------------
(* An event is sent into a room.                                           *)
LEMMA TellingKeeps ==
  ASSUME RoomInv, NEW c \in Card, NEW r \in RunOf, r.n > 0, NEW kinds, Tell(c, kinds, r),
         kinds \in EventList,
         UNCHANGED <<srv, quiet, socketVars, pageVars, steps>>,
         owed' \subseteq owed, phaseOf' \in [RunOf -> RunPhase], told' \in [Card -> 0..MaxSteps],
         \A d \in Card : told'[d] <= srv[d].age
  PROVE  CardTypeOK' /\ RowsAreRead' /\ RunsAreReal' /\ Inside' /\ OthersAreLeft'
<1>0. CardTypeOK /\ down \in Seq(DownMsg)
  BY DEF RoomInv, CardTypeOK
<1>1. /\ down' \in Seq(DownMsg) /\ Len(down) <= Len(down')
      /\ \A i \in 1..Len(down) : down'[i] = down[i]
      /\ \A i \in 1..Len(down') : i > Len(down) => down'[i].run = r /\ down'[i].visit = 0
      /\ \A i \in 1..Len(down') : i > Len(down) => \E k \in DOMAIN kinds : down'[i].kind = kinds[k]
      /\ c \notin member => down' = down
  BY <1>0, TellAppends, SMTT(30)
<1>2. CardTypeOK'
  BY <1>0, <1>1 DEF RoomInv, CardTypeOK, socketVars, pageVars
<1>3. RowsAreRead'
  BY DEF RoomInv, RowsAreRead, RowIsOf, socketVars, pageVars
<1>4. RunsAreReal'
  <2>1. ASSUME NEW i \in 1..Len(down')
        PROVE  IF down'[i].kind = "ack" THEN down'[i].run = NoRun \/ down'[i].run.n > 0
                                        ELSE down'[i].run.n > 0
    <3>1. CASE i > Len(down)
      BY <1>0, <1>1, <3>1
    <3>2. CASE ~(i > Len(down))
      BY <1>0, <1>1, <3>2 DEF RoomInv, RunsAreReal
    <3> QED  BY <3>1, <3>2
  <2> QED  BY <2>1 DEF RoomInv, RunsAreReal, pageVars
<1>5. Inside' /\ OthersAreLeft'
  BY <1>0, <1>1 DEF RoomInv, Inside, Entering, JoinIsOf, JoinMsg, OthersAreLeft, LeaveComes, LeaveMsg,
     socketVars, pageVars
<1> QED  BY <1>2, <1>3, <1>4, <1>5

LEMMA WorkingPhaseKeeps ==
  ASSUME RoomInv, NEW c \in Card, WorkingPhase(c)
  PROVE  RoomInv'
<1>1. srv[c] \in Row /\ srv[c].run \in RunOf /\ srv[c].run.n > 0 /\ srv[c].run.of = c
  BY RowParts DEF RoomInv, CardTypeOK, RowsAreRead, RowIsOf, WorkingPhase
<1>2. Tell(c, <<"working">>, srv[c].run) /\ UNCHANGED <<srv, owed, told, quiet, socketVars, pageVars, steps>>
  BY DEF WorkingPhase
<1>3. /\ phaseOf' \in [RunOf -> RunPhase] /\ told' \in [Card -> 0..MaxSteps]
      /\ \A d \in Card : told'[d] <= srv[d].age
  BY <1>1 DEF WorkingPhase, RunPhase, RoomInv, CardTypeOK, RowsAreRead
<1>4. CardTypeOK' /\ RowsAreRead' /\ RunsAreReal' /\ Inside' /\ OthersAreLeft'
  <2>1. <<"working">> \in EventList
    BY DEF EventList
  <2> QED  BY <1>1, <1>2, <1>3, <2>1, TellingKeeps
<1>5. /\ down \in Seq(DownMsg) /\ down' \in Seq(DownMsg) /\ Len(down) <= Len(down')
      /\ \A i \in 1..Len(down) : down'[i] = down[i]
      /\ \A i \in 1..Len(down') : i > Len(down) => down'[i].run = srv[c].run
  <2>1. CardTypeOK /\ down \in Seq(DownMsg) /\ <<"working">> \in EventList
    BY DEF RoomInv, CardTypeOK, EventList
  <2> QED  BY <1>1, <1>2, <2>1, TellAppends
<1>6. UNCHANGED <<connected, up, joining, visit, open, asked, arriving, seen, copy, view>>
  BY <1>2 DEF socketVars, pageVars
<1>7. ToldIsRead'
  BY <1>2, <1>5, <1>6 DEF RoomInv, ToldIsRead, Rereads, Entering
<1>8. StopIsSeen'
  <2>1. CASE c = open
    BY <1>2, <1>6, <2>1 DEF StopIsSeen, WorkingPhase
  <2>2. CASE c # open
    <3>1. srv[open].run # srv[c].run
      BY <1>1, <2>2 DEF RoomInv, CardTypeOK, RowsAreRead, RowIsOf
    <3>2. \A i \in Int : NotAtWork(i) => NotAtWork(i)'
      BY <1>2, <1>5, <1>6, <3>1 DEF NotAtWork
    <3>3. \A i \in 1..Len(down) : Rereads(down[i]) => i \in 1..Len(down') /\ Rereads(down[i])' 
      BY <1>5, <1>6 DEF Rereads
    <3> QED  BY <1>2, <1>6, <3>2, <3>3 DEF RoomInv, StopIsSeen, Entering, Overtaken
  <2> QED  BY <2>1, <2>2
<1> QED  BY <1>4, <1>7, <1>8 DEF RoomInv

LEMMA TellOfKeeps ==
  ASSUME RoomInv, NEW o \in owed, TellOf(o[1], o[2])
  PROVE  RoomInv'
<1> DEFINE r == o[1]
           word == o[2]
<1>1. r \in RunOf /\ r.of \in Card /\ r.n > 0 /\ word \in Word
  BY DEF RoomInv, CardTypeOK, RunsAreReal, RunOf
<1>2. PICK kinds \in EventList : Tell(r.of, kinds, r) /\ kinds # <<"working">>
  BY <1>1 DEF TellOf, Word, EventList
<1>3. /\ UNCHANGED <<srv, quiet, socketVars, pageVars, steps>> /\ owed' = owed \ {<<r, word>>}
      /\ told' = [told EXCEPT ![r.of] = IF srv[r.of].run = r THEN srv[r.of].age ELSE @]
      /\ phaseOf' = [phaseOf EXCEPT ![r] = IF word = "end" THEN "unknown" ELSE "waiting"]
  BY DEF TellOf
<1>4. /\ phaseOf' \in [RunOf -> RunPhase] /\ told' \in [Card -> 0..MaxSteps]
      /\ \A d \in Card : told'[d] <= srv[d].age
  <2>1. phaseOf' \in [RunOf -> RunPhase]
    BY <1>1, <1>3 DEF RoomInv, CardTypeOK, RunPhase
  <2>2. srv[r.of].age \in 0..MaxSteps /\ told \in [Card -> 0..MaxSteps]
    BY <1>1, RowParts DEF RoomInv, CardTypeOK
  <2>3. \A d \in Card : told[d] <= srv[d].age
    BY DEF RoomInv, RowsAreRead
  <2> QED  BY <1>1, <1>3, <2>1, <2>2, <2>3
<1>5. CardTypeOK' /\ RowsAreRead' /\ RunsAreReal' /\ Inside' /\ OthersAreLeft'
  BY <1>1, <1>2, <1>3, <1>4, TellingKeeps
<1>6. /\ down \in Seq(DownMsg) /\ down' \in Seq(DownMsg) /\ Len(down) <= Len(down')
      /\ \A i \in 1..Len(down) : down'[i] = down[i]
      /\ \A i \in 1..Len(down') : i > Len(down) => \E k \in DOMAIN kinds : down'[i].kind = kinds[k]
      /\ r.of \in member => /\ Len(down') > Len(down)
                            /\ down'[Len(down')].kind = kinds[Len(kinds)]
  <2>1. CardTypeOK /\ down \in Seq(DownMsg)
    BY DEF RoomInv, CardTypeOK
  <2> QED  BY <1>1, <1>2, <2>1, TellAppends
<1>7. /\ kinds[Len(kinds)] \in {"waiting", "end"}
      /\ \A k \in DOMAIN kinds : kinds[k] # "working"
  BY <1>2 DEF EventList
<1>8. UNCHANGED <<connected, up, joining, visit, open, asked, arriving, seen, copy, view, srv, quiet>>
  BY <1>3 DEF socketVars, pageVars
<1>9. \A i \in Int : (NotAtWork(i) => NotAtWork(i)') 
  BY <1>6, <1>7, <1>8 DEF NotAtWork
<1>10. \A i \in 1..Len(down) : i \in 1..Len(down') /\ (Rereads(down[i]) => Rereads(down[i])')
  BY <1>6, <1>8 DEF Rereads
<1>11. r.of = open /\ ~Entering => Rereads(down[Len(down)])' /\ NotAtWork(Len(down))' /\ Len(down') \in 1..Len(down')
  <2> SUFFICES ASSUME r.of = open, ~Entering
               PROVE  Rereads(down[Len(down)])' /\ NotAtWork(Len(down))' /\ Len(down') \in 1..Len(down')
    OBVIOUS
  <2>1. open \in member
    BY DEF RoomInv, Inside
  <2>2. Len(down') > Len(down) /\ Len(down') \in Nat /\ Len(down) \in Nat /\ down'[Len(down')].kind \in {"waiting", "end"}
    BY <1>6, <1>7, <2>1
  <2> QED  BY <2>2 DEF Rereads, NotAtWork
<1>12. ToldIsRead'
  <2>1. CASE r.of = open
    BY <1>8, <1>11, <2>1 DEF ToldIsRead, Entering
  <2>2. CASE r.of # open
    <3>1. told'[open] = told[open]
      BY <1>1, <1>3, <2>2 DEF RoomInv, CardTypeOK
    <3> QED  BY <1>8, <1>10, <3>1 DEF RoomInv, ToldIsRead, Entering
  <2> QED  BY <2>1, <2>2
<1>13. StopIsSeen'
  <2>1. CASE r = srv[open].run
    <3>1. r.of = open
      BY <2>1 DEF RoomInv, CardTypeOK, RowsAreRead, RowIsOf
    <3> QED  BY <1>8, <1>11, <3>1 DEF StopIsSeen, Entering
  <2>2. CASE r # srv[open].run
    <3>1. \A p \in owed : p[1] = srv[open].run => p \in owed'
      BY <1>3, <2>2
    <3> QED  BY <1>6, <1>8, <1>9, <1>10, <3>1 DEF RoomInv, StopIsSeen, Entering, Overtaken
  <2> QED  BY <2>1, <2>2
<1> QED  BY <1>5, <1>12, <1>13 DEF RoomInv

-----------------------------------------------------------------------------
(* The rooms.                                                              *)
LEMMA TakenOff ==
  ASSUME NEW S, NEW s \in Seq(S), s # <<>>
  PROVE  /\ Head(s) = s[1] /\ Head(s) \in S /\ Tail(s) \in Seq(S)
         /\ Len(s) \in Nat \ {0} /\ Len(Tail(s)) = Len(s) - 1
         /\ \A i \in 1..Len(Tail(s)) : i + 1 \in 1..Len(s) /\ Tail(s)[i] = s[i + 1]
         /\ (Tail(s) = <<>> <=> Len(s) = 1)
<1>1. /\ Head(s) = s[1] /\ Tail(s) \in Seq(S)
      /\ Len(s) \in Nat \ {0} /\ Len(Tail(s)) = Len(s) - 1
  OBVIOUS
<1>2. Head(s) \in S
  BY <1>1
<1>3. \A i \in 1..Len(Tail(s)) : i + 1 \in 1..Len(s) /\ Tail(s)[i] = s[i + 1]
  BY <1>1
<1>4. Tail(s) = <<>> <=> Len(Tail(s)) = 0
  <2>1. \A t \in Seq(S) : t = <<>> <=> Len(t) = 0
    OBVIOUS
  <2> QED  BY <1>1, <2>1
<1> QED  BY <1>1, <1>2, <1>3, <1>4

LEMMA TakeUpKeeps ==
  ASSUME RoomInv, TakeUp
  PROVE  RoomInv'
<1> DEFINE m == up[1]
           entry == [card |-> m.card, visit |-> m.visit, row |-> srv[m.card]]
<1>1. /\ up # <<>> /\ up \in Seq(UpMsg) /\ up' = Tail(up)
      /\ UNCHANGED <<serverVars, down, connected, pageVars, steps>>
  BY DEF TakeUp, RoomInv, CardTypeOK
<1>2. /\ Head(up) = m /\ m \in UpMsg /\ up' \in Seq(UpMsg)
      /\ Len(up) \in Nat \ {0} /\ Len(up') = Len(up) - 1
      /\ \A i \in 1..Len(up') : i + 1 \in 1..Len(up) /\ up'[i] = up[i + 1]
      /\ up' = <<>> <=> Len(up) = 1
  BY <1>1, TakenOff
<1>3. /\ m.card \in Card /\ m.kind \in {"join", "leave"} /\ (m.kind = "join" => m.visit \in Visit)
      /\ m.kind = "join" => entry \in [card : Card, visit : Visit, row : Row]
  <2>1. m.card \in Card /\ m.kind \in {"join", "leave"} /\ (m.kind = "join" => m.visit \in Visit)
    BY <1>2 DEF UpMsg
  <2> QED  BY <2>1 DEF RoomInv, CardTypeOK
<1>4. \/ m.kind = "join" /\ joining' = joining \cup {entry} /\ UNCHANGED <<member, slipped>>
      \/ /\ m.kind = "leave" /\ member' = member \ {m.card} /\ UNCHANGED joining
         /\ slipped' = IF \E j \in joining : j.card = m.card
                       THEN slipped \cup {m.card} ELSE slipped
  BY <1>2 DEF TakeUp
<1> HIDE DEF entry
<1>5. entry.card = m.card /\ entry.visit = m.visit /\ entry.row = srv[m.card]
  BY DEF entry
<1>6. CardTypeOK'
  <2>1. member' \subseteq Card /\ slipped' \subseteq Card
        /\ joining' \subseteq [card : Card, visit : Visit, row : Row]
    BY <1>3, <1>4 DEF RoomInv, CardTypeOK
  <2>2. /\ srv \in [Card -> Row] /\ owed \subseteq RunOf \X Word
        /\ told \in [Card -> 0..MaxSteps] /\ quiet \subseteq Card
        /\ phaseOf \in [RunOf -> RunPhase] /\ connected \in BOOLEAN /\ down \in Seq(DownMsg)
        /\ open \in Card /\ visit \in Visit /\ copy \in [Card -> Row]
        /\ view \in [Card -> [run : RunOf, on : BOOLEAN, made : BOOLEAN]]
        /\ seen \in [Card -> 0..MaxSteps] /\ asked \in [Card -> Nat]
        /\ arriving \subseteq [card : Card, row : Row] /\ steps \in 0..MaxSteps
    BY DEF RoomInv, CardTypeOK
  <2> QED  BY <1>1, <1>2, <2>1, <2>2 DEF CardTypeOK, serverVars, pageVars
<1>7. UNCHANGED <<srv, owed, told, quiet, open, visit, copy, view, seen, asked, arriving>>
  BY <1>1 DEF serverVars, pageVars
<1>8. RowsAreRead'
  <2>1. \A j \in joining' : RowIsOf(j.card, j.row)
    BY <1>3, <1>4, <1>5 DEF RoomInv, RowsAreRead
  <2> QED  BY <1>1, <1>7, <2>1 DEF RoomInv, RowsAreRead, RowIsOf
<1>9. RunsAreReal'
  BY <1>1, <1>7 DEF RoomInv, RunsAreReal
<1>10. m.kind = "leave" => up' # <<>>
  BY <1>1, <1>2 DEF RoomInv, Inside, JoinMsg
<1>11. Entering'
  <2>1. CASE up' # <<>>
    BY <2>1 DEF Entering
  <2>2. CASE up' = <<>>
    <3>1. m = JoinMsg(visit) /\ m.kind = "join"
      BY <1>1, <1>2, <2>2 DEF RoomInv, Inside, JoinMsg
    <3>2. entry \in joining' /\ entry.visit = visit
      BY <1>4, <1>5, <3>1 DEF JoinMsg
    <3> QED  BY <1>7, <3>2 DEF Entering
  <2> QED  BY <2>1, <2>2
<1>12. Inside'
  <2>1. up' # <<>> => up'[Len(up')] = JoinMsg(visit)'
    BY <1>1, <1>2, <1>7 DEF RoomInv, Inside, JoinMsg
  <2>2. \A j \in joining' : JoinIsOf(j.visit, j.card)'
    BY <1>1, <1>2, <1>4, <1>5, <1>7 DEF RoomInv, Inside, JoinIsOf
  <2>3. \A i \in 1..Len(up') : up'[i].kind = "join" => JoinIsOf(up[i].visit, up[i].card)'
    BY <1>2, <1>7 DEF RoomInv, Inside, JoinIsOf
  <2>4. connected'
    BY <1>1 DEF RoomInv, Inside
  <2> QED  BY <1>11, <2>1, <2>2, <2>3, <2>4 DEF Inside
<1>13. OthersAreLeft'
  <2>1. \A c \in Card, i \in Nat :
          LeaveComes(c, i) => LeaveComes(c, i - 1)' \/ (m = LeaveMsg(c) /\ i = 0)
    <3> SUFFICES ASSUME NEW c \in Card, NEW i \in Nat,
                        NEW k \in 1..Len(up), k > i, up[k] = LeaveMsg(c)
                 PROVE  LeaveComes(c, i - 1)' \/ (m = LeaveMsg(c) /\ i = 0)
      BY DEF LeaveComes
    <3>1. CASE k = 1
      BY <3>1
    <3>2. CASE k # 1
      <4>1. k - 1 \in 1..Len(up') /\ up'[k - 1] = up[k]
        BY <1>2, <3>2
      <4> QED  BY <4>1 DEF LeaveComes, LeaveMsg
    <3> QED  BY <3>1, <3>2
  <2>2. ASSUME NEW c \in Card, c \in member' \/ \E j \in joining' : j.card = c
        PROVE  c = open \/ c \in slipped' \/ LeaveComes(c, 0)'
    <3>1. \A i \in Int : LeaveComes(c, i)' => LeaveComes(c, 0)'
      BY <1>2 DEF LeaveComes
    <3>2. CASE m.kind = "join"
      <4>1. c = m.card \/ c \in member \/ \E j \in joining : j.card = c
        BY <1>4, <1>5, <2>2, <3>2
      <4>2. c = open \/ c \in slipped \/ LeaveComes(c, 0) \/ LeaveComes(c, 1)
        BY <1>1, <1>2, <3>2, <4>1 DEF RoomInv, OthersAreLeft
      <4>3. m # LeaveMsg(c)
        BY <3>2 DEF LeaveMsg
      <4> QED  BY <1>4, <2>1, <3>1, <3>2, <4>2, <4>3
    <3>3. CASE m.kind = "leave"
      <4>1. c \in member \/ \E j \in joining : j.card = c
        BY <1>4, <2>2, <3>3
      <4>2. c = open \/ c \in slipped \/ LeaveComes(c, 0)
        BY <4>1 DEF RoomInv, OthersAreLeft
      <4>3. CASE m.card = c
        BY <1>4, <2>2, <3>3, <4>3
      <4>4. CASE m.card # c
        <5>1. m # LeaveMsg(c)
          BY <4>4 DEF LeaveMsg
        <5> QED  BY <1>4, <2>1, <3>1, <3>3, <4>2, <5>1
      <4> QED  BY <4>3, <4>4
    <3> QED  BY <1>3, <3>2, <3>3
  <2>3. ASSUME NEW i \in 1..Len(up'), up'[i].kind = "join"
        PROVE  up'[i].card = open \/ LeaveComes(up[i].card, i)'
    <3>1. PICK c \in Card : c = up'[i].card
      BY <1>2, <2>3 DEF UpMsg
    <3>2. c = open \/ LeaveComes(c, i + 1)
      BY <1>2, <2>3, <3>1 DEF RoomInv, OthersAreLeft
    <3>3. LeaveComes(c, i + 1) => LeaveComes(c, i)'
      BY <2>1
    <3> QED  BY <3>1, <3>2, <3>3 DEF LeaveComes, LeaveMsg
  <2> QED  BY <1>7, <2>2, <2>3 DEF OthersAreLeft
<1>14. ToldIsRead' /\ StopIsSeen'
  BY <1>11 DEF ToldIsRead, StopIsSeen
<1> QED  BY <1>6, <1>8, <1>9, <1>12, <1>13, <1>14 DEF RoomInv

LEMMA JoinedKeeps ==
  ASSUME RoomInv, NEW j \in joining, Joined(j)
  PROVE  RoomInv'
<1> DEFINE ack == [kind |-> "ack", run |-> AckRun(j), visit |-> j.visit]
<1>1. /\ joining' = joining \ {j} /\ member' = member \cup {j.card}
      /\ down' = Append(down, ack)
      /\ UNCHANGED <<serverVars, slipped, up, connected, pageVars, steps>>
  BY DEF Joined
<1>2. j.card \in Card /\ j.visit \in Visit /\ j.row \in Row /\ RowIsOf(j.card, j.row)
  BY DEF RoomInv, CardTypeOK, RowsAreRead
<1>3. AckRun(j) \in RunOf /\ (AckRun(j) = NoRun \/ AckRun(j).n > 0)
  BY <1>2, RowParts, BoundsAreNumbers DEF AckRun, NoRun, RunOf, RowIsOf
<1>4. ack \in DownMsg /\ ack.kind = "ack" /\ ack.run = AckRun(j) /\ ack.visit = j.visit
  BY <1>2, <1>3 DEF DownMsg
<1> HIDE DEF ack
<1>5. /\ down \in Seq(DownMsg) /\ down' \in Seq(DownMsg) /\ Len(down') = Len(down) + 1
      /\ Len(down) \in Nat /\ \A i \in 1..Len(down) : down'[i] = down[i]
      /\ down'[Len(down) + 1] = ack
  <2>1. down \in Seq(DownMsg)
    BY DEF RoomInv, CardTypeOK
  <2> QED  BY <1>1, <1>4, <2>1
<1>6. CardTypeOK'
  <2>1. member' \subseteq Card /\ joining' \subseteq [card : Card, visit : Visit, row : Row]
    BY <1>1, <1>2 DEF RoomInv, CardTypeOK
  <2>2. /\ srv \in [Card -> Row] /\ owed \subseteq RunOf \X Word
        /\ told \in [Card -> 0..MaxSteps] /\ quiet \subseteq Card
        /\ phaseOf \in [RunOf -> RunPhase] /\ connected \in BOOLEAN /\ up \in Seq(UpMsg)
        /\ open \in Card /\ visit \in Visit /\ copy \in [Card -> Row] /\ slipped \subseteq Card
        /\ view \in [Card -> [run : RunOf, on : BOOLEAN, made : BOOLEAN]]
        /\ seen \in [Card -> 0..MaxSteps] /\ asked \in [Card -> Nat]
        /\ arriving \subseteq [card : Card, row : Row] /\ steps \in 0..MaxSteps
    BY DEF RoomInv, CardTypeOK
  <2> QED  BY <1>1, <1>5, <2>1, <2>2 DEF CardTypeOK, serverVars, pageVars
<1>7. UNCHANGED <<srv, owed, told, quiet, open, visit, copy, view, seen, asked, arriving>>
  BY <1>1 DEF serverVars, pageVars
<1>8. RowsAreRead'
  BY <1>1, <1>7 DEF RoomInv, RowsAreRead, RowIsOf
<1>9. RunsAreReal'
  <2>1. \A i \in 1..Len(down') : i \in 1..Len(down) \/ i = Len(down) + 1
    BY <1>5
  <2>2. \A i \in 1..Len(down') :
          IF down'[i].kind = "ack" THEN down'[i].run = NoRun \/ down'[i].run.n > 0
                                   ELSE down'[i].run.n > 0
    BY <1>3, <1>4, <1>5, <2>1 DEF RoomInv, RunsAreReal
  <2> QED  BY <1>7, <2>2 DEF RoomInv, RunsAreReal
<1>10. j.visit = visit => open \in member'
  BY <1>1 DEF RoomInv, Inside, JoinIsOf
<1>11. j.visit # visit => (Entering => Entering')
  BY <1>1, <1>7 DEF Entering
<1>12. Inside'
  <2>1. Entering' \/ open' \in member'
    BY <1>1, <1>7, <1>10, <1>11 DEF RoomInv, Inside
  <2>2. connected'
    BY <1>1 DEF RoomInv, Inside
  <2> QED  BY <1>1, <1>7, <2>1, <2>2 DEF RoomInv, Inside, JoinIsOf, JoinMsg
<1>13. OthersAreLeft'
  BY <1>1, <1>7 DEF RoomInv, OthersAreLeft, LeaveComes, LeaveMsg
<1>14. /\ \A i \in 1..Len(down) : i \in 1..Len(down') /\ (Rereads(down[i]) => Rereads(down[i])')
       /\ \A i \in Int : NotAtWork(i) => NotAtWork(i)'
       /\ \E n \in 1..Len(down') : NotAtWork(n)' /\ (j.visit = visit => Rereads(down[n])')
  <2>1. PICK n \in Nat : n = Len(down) + 1
    BY <1>5
  <2>2. /\ n \in 1..Len(down') /\ down'[n] = ack
        /\ \A k \in 1..Len(down') : k \in 1..Len(down) \/ k = n
    BY <1>5, <2>1
  <2>3. \A i \in 1..Len(down) : i \in 1..Len(down') /\ (Rereads(down[i]) => Rereads(down[i])')
    BY <1>5, <1>7 DEF Rereads
  <2>4. \A i \in Int : NotAtWork(i) => NotAtWork(i)'
    BY <1>4, <1>5, <1>7, <2>2 DEF NotAtWork
  <2>5. NotAtWork(n)'
    BY <1>4, <1>5, <2>1, <2>2 DEF NotAtWork
  <2>6. j.visit = visit => Rereads(down[n])'
    BY <1>4, <1>7, <2>2 DEF Rereads
  <2> QED  BY <2>2, <2>3, <2>4, <2>5, <2>6
<1>15. ToldIsRead'
  <2>1. CASE j.visit = visit
    BY <1>14, <2>1 DEF ToldIsRead
  <2>2. CASE j.visit # visit
    BY <1>7, <1>11, <1>14, <2>2 DEF RoomInv, ToldIsRead
  <2> QED  BY <2>1, <2>2
<1>16. StopIsSeen'
  <2>1. CASE j.visit = visit
    BY <1>14, <2>1 DEF StopIsSeen
  <2>2. CASE j.visit # visit
    BY <1>7, <1>11, <1>14, <2>2 DEF RoomInv, StopIsSeen, Overtaken
  <2> QED  BY <2>1, <2>2
<1> QED  BY <1>6, <1>8, <1>9, <1>12, <1>13, <1>15, <1>16 DEF RoomInv

-----------------------------------------------------------------------------
(* What the tab reads.                                                     *)
LEMMA ReadKeepsRoom ==
  ASSUME RoomInv, NEW c \in Card, Read(c)
  PROVE  RoomInv'
<1> DEFINE answer == [card |-> c, row |-> srv[c]]
<1>1. /\ asked[c] > 0 /\ asked' = [asked EXCEPT ![c] = @ - 1]
      /\ arriving' = arriving \cup {answer}
      /\ UNCHANGED <<serverVars, socketVars, down, open, visit, copy, view, seen, steps>>
  BY DEF Read
<1>2. /\ asked \in [Card -> Nat] /\ asked' \in [Card -> Nat]
      /\ \A d \in Card : d # c => asked'[d] = asked[d]
  BY <1>1 DEF RoomInv, CardTypeOK
<1>3. answer \in [card : Card, row : Row] /\ RowIsOf(answer.card, answer.row)
  BY DEF RoomInv, CardTypeOK, RowsAreRead
<1>4. CardTypeOK'
  BY <1>1, <1>2, <1>3 DEF RoomInv, CardTypeOK, serverVars, socketVars
<1>5. UNCHANGED <<srv, owed, told, quiet, member, joining, slipped, up, connected>>
  BY <1>1 DEF serverVars, socketVars
<1>6. RowsAreRead' /\ RunsAreReal' /\ Inside' /\ OthersAreLeft'
  <2>1. \A l \in arriving' : RowIsOf(l.card, l.row)
    BY <1>1, <1>3 DEF RoomInv, RowsAreRead
  <2> QED  BY <1>1, <1>5, <2>1 DEF RoomInv, RowsAreRead, RowIsOf, RunsAreReal, Inside, Entering,
     JoinIsOf, JoinMsg, OthersAreLeft, LeaveComes, LeaveMsg
<1>7. c = open => /\ \E l \in arriving' : l.card = open /\ l.row.age >= told[open]
                  /\ [card |-> open, row |-> srv[open]] \in arriving'
  <2> SUFFICES ASSUME c = open
               PROVE  /\ \E l \in arriving' : l.card = open /\ l.row.age >= told[open]
                      /\ [card |-> open, row |-> srv[open]] \in arriving'
    OBVIOUS
  <2>1. answer \in arriving' /\ answer.card = open /\ answer.row = srv[open]
    BY <1>1
  <2>2. srv[open].age \in 0..MaxSteps /\ told[open] \in 0..MaxSteps /\ told[open] <= srv[open].age
    BY RowParts DEF RoomInv, CardTypeOK, RowsAreRead
  <2> QED  BY <2>1, <2>2
<1>8. ToldIsRead'
  <2>1. CASE c = open
    BY <1>1, <1>5, <1>7, <2>1 DEF ToldIsRead
  <2>2. CASE c # open
    BY <1>1, <1>2, <1>5, <2>2 DEF RoomInv, CardTypeOK, ToldIsRead, Rereads, Entering
  <2> QED  BY <2>1, <2>2
<1>9. StopIsSeen'
  <2>1. asked'[open] = asked[open] \/ [card |-> open, row |-> srv[open]] \in arriving'
    BY <1>2, <1>7 DEF RoomInv, CardTypeOK
  <2>2. arriving \subseteq arriving'
    BY <1>1
  <2> QED  BY <1>1, <1>5, <2>1, <2>2 DEF RoomInv, StopIsSeen, Rereads, NotAtWork, Entering, Overtaken
<1> QED  BY <1>4, <1>6, <1>8, <1>9 DEF RoomInv

LEMMA PollKeeps ==
  ASSUME RoomInv, Poll
  PROVE  RoomInv'
<1>1. /\ asked' = [asked EXCEPT ![open] = @ + 1]
      /\ UNCHANGED <<arriving, serverVars, socketVars, down, open, visit, copy, view, seen, steps>>
  BY DEF Poll, Asks
<1>2. asked' \in [Card -> Nat] /\ asked'[open] > 0
  BY <1>1 DEF RoomInv, CardTypeOK
<1>3. CardTypeOK'
  BY <1>1, <1>2 DEF RoomInv, CardTypeOK, serverVars, socketVars
<1>4. UNCHANGED <<srv, owed, told, quiet, member, joining, slipped, up, connected>>
  BY <1>1 DEF serverVars, socketVars
<1>5. RowsAreRead' /\ RunsAreReal' /\ Inside' /\ OthersAreLeft'
  BY <1>1, <1>4 DEF RoomInv, RowsAreRead, RowIsOf, RunsAreReal, Inside, Entering,
     JoinIsOf, JoinMsg, OthersAreLeft, LeaveComes, LeaveMsg
<1>6. ToldIsRead'
  BY <1>1, <1>2 DEF ToldIsRead
<1>7. StopIsSeen'
  BY <1>1, <1>2, <1>4 DEF RoomInv, StopIsSeen, Rereads, NotAtWork, Entering, Overtaken
<1> QED  BY <1>3, <1>5, <1>6, <1>7 DEF RoomInv

(* The run a view follows is one there was.                                *)
LEMMA Followed ==
  ASSUME NEW v \in [run : RunOf, on : BOOLEAN, made : BOOLEAN], NEW row \in Row
  PROVE  /\ Follow(v, row) \in [run : RunOf, on : BOOLEAN, made : BOOLEAN]
         /\ (v.on => v.run.n > 0) /\ (row.stage # "none" => row.run.n > 0)
              => (Follow(v, row).on => Follow(v, row).run.n > 0)
         /\ row.stage # "working" => ~(Follow(v, row).on /\ Follow(v, row).run = row.run)
<1>1. CASE row.stage = "working"
  BY <1>1, RowParts DEF Follow, Starts
<1>2. CASE row.stage # "working" /\ v.on /\ v.run = row.run
  BY <1>2 DEF Follow
<1>3. CASE row.stage # "working" /\ ~(v.on /\ v.run = row.run)
  BY <1>3 DEF Follow
<1> QED  BY <1>1, <1>2, <1>3

LEMMA AnswerArrivesKeeps ==
  ASSUME RoomInv, NEW l \in arriving, AnswerArrives(l)
  PROVE  RoomInv'
<1>1. /\ arriving' = arriving \ {l}
      /\ copy' = [copy EXCEPT ![l.card] = l.row]
      /\ seen' = [seen EXCEPT ![l.card] = IF @ < l.row.age THEN l.row.age ELSE @]
      /\ view' = IF l.card = open THEN [view EXCEPT ![open] = Follow(@, l.row)] ELSE view
      /\ UNCHANGED <<serverVars, socketVars, down, open, visit, asked, steps>>
  BY DEF AnswerArrives
<1>2. /\ l = [card |-> l.card, row |-> l.row]
      /\ l.card \in Card /\ l.row \in Row /\ l.row.age \in 0..MaxSteps /\ RowIsOf(l.card, l.row)
      /\ open \in Card /\ view[open] \in [run : RunOf, on : BOOLEAN, made : BOOLEAN]
  BY RowParts DEF RoomInv, CardTypeOK, RowsAreRead
<1>3. UNCHANGED <<srv, owed, told, quiet, member, joining, slipped, up, connected>>
  BY <1>1 DEF serverVars, socketVars
<1>4. /\ copy' \in [Card -> Row] /\ copy'[l.card] = l.row
      /\ \A d \in Card : d # l.card => copy'[d] = copy[d]
  BY <1>1, <1>2 DEF RoomInv, CardTypeOK
<1>5. /\ seen' \in [Card -> 0..MaxSteps]
      /\ seen'[l.card] >= l.row.age /\ seen'[l.card] >= seen[l.card]
      /\ seen'[l.card] \in {seen[l.card], l.row.age}
      /\ \A d \in Card : d # l.card => seen'[d] = seen[d]
  BY <1>1, <1>2, BoundsAreNumbers DEF RoomInv, CardTypeOK
<1>6. /\ view' \in [Card -> [run : RunOf, on : BOOLEAN, made : BOOLEAN]]
      /\ l.card = open => view'[open] = Follow(view[open], l.row)
      /\ l.card # open => view' = view
      /\ \A d \in Card : d # open => view'[d] = view[d]
  BY <1>1, <1>2, Followed DEF RoomInv, CardTypeOK
<1>7. CardTypeOK'
  <2>1. arriving' \subseteq [card : Card, row : Row]
    BY <1>1 DEF RoomInv, CardTypeOK
  <2> QED  BY <1>1, <1>3, <1>4, <1>5, <1>6, <2>1 DEF RoomInv, CardTypeOK, serverVars
<1>8. RowsAreRead'
  <2>1. \A d \in Card : RowIsOf(d, copy'[d]) /\ copy'[d].age <= seen'[d] /\ seen'[d] <= srv[d].age
    <3>1. ASSUME NEW d \in Card, d # l.card
          PROVE  RowIsOf(d, copy'[d]) /\ copy'[d].age <= seen'[d] /\ seen'[d] <= srv[d].age
      BY <1>4, <1>5, <3>1 DEF RoomInv, RowsAreRead
    <3>2. RowIsOf(l.card, copy'[l.card]) /\ copy'[l.card].age <= seen'[l.card]
          /\ seen'[l.card] <= srv[l.card].age
      BY <1>2, <1>4, <1>5 DEF RoomInv, RowsAreRead, RowIsOf
    <3> QED  BY <3>1, <3>2
  <2>2. \A k \in arriving' : RowIsOf(k.card, k.row)
    BY <1>1 DEF RoomInv, RowsAreRead
  <2> QED  BY <1>1, <1>3, <2>1, <2>2 DEF RoomInv, RowsAreRead, RowIsOf
<1>9. RunsAreReal'
  <2>1. \A d \in Card : view'[d].on => view'[d].run.n > 0
    <3>1. (view[open].on => view[open].run.n > 0) /\ (l.row.stage # "none" => l.row.run.n > 0)
      BY <1>2 DEF RoomInv, RunsAreReal, RowIsOf
    <3>2. l.card = open => (view'[open].on => view'[open].run.n > 0)
      BY <1>2, <1>6, <3>1, Followed
    <3> QED  BY <1>6, <3>2 DEF RoomInv, RunsAreReal
  <2> QED  BY <1>1, <1>3, <2>1 DEF RoomInv, RunsAreReal
<1>10. Inside' /\ OthersAreLeft'
  BY <1>1, <1>3 DEF RoomInv, Inside, Entering, JoinIsOf, JoinMsg, OthersAreLeft, LeaveComes, LeaveMsg
<1>11. ToldIsRead'
  <2>1. told[open] \in 0..MaxSteps /\ seen[open] \in 0..MaxSteps /\ seen'[open] \in 0..MaxSteps
    BY <1>2, <1>5 DEF RoomInv, CardTypeOK
  <2>2. CASE l.card = open /\ l.row.age >= told[open]
    BY <1>1, <1>2, <1>3, <1>5, <2>1, <2>2 DEF ToldIsRead
  <2>3. CASE ~(l.card = open /\ l.row.age >= told[open])
    <3>1. seen'[open] >= seen[open]
      BY <1>2, <1>5, <2>1
    <3>2. \A k \in arriving : k.card = open /\ k.row.age >= told[open] => k \in arriving'
      BY <1>1, <2>3
    <3> QED  BY <1>1, <1>3, <2>1, <3>1, <3>2 DEF RoomInv, ToldIsRead, Rereads, Entering
  <2> QED  BY <2>2, <2>3
<1>12. StopIsSeen'
  <2> SUFFICES ASSUME srv[open].stage \in {"waiting", "over"}, open \notin quiet
               PROVE  StopIsSeen'
    BY <1>1, <1>3 DEF StopIsSeen
  <2>1. CASE Entering \/ (\E o \in owed : o[1] = srv[open].run)
             \/ \E i \in 1..Len(down) : Rereads(down[i]) /\ NotAtWork(i)
    BY <1>1, <1>3, <2>1 DEF StopIsSeen, Entering, Rereads, NotAtWork
  <2>2. CASE /\ NotAtWork(1)
             /\ \/ asked[open] > 0 \/ [card |-> open, row |-> srv[open]] \in arriving
                \/ /\ seen[open] = srv[open].age
                   /\ Overtaken(open) \/ ~view[open].on \/ view[open].run # srv[open].run
    <3>1. NotAtWork(1)'
      BY <1>1, <1>3, <2>2 DEF NotAtWork
    <3>2. CASE asked[open] > 0
      BY <1>1, <3>1, <3>2 DEF StopIsSeen
    <3>3. CASE l.card # open
      BY <1>1, <1>2, <1>3, <1>4, <1>5, <1>6, <2>2, <3>1, <3>3 DEF StopIsSeen, Overtaken
    <3>4. CASE l.card = open /\ l.row.age = srv[open].age
      <4>1. l.row = srv[open]
        BY <1>2, <3>4 DEF RowIsOf
      <4>2. ~(view'[open].on /\ view'[open].run = srv[open].run)
        BY <1>2, <1>6, <3>4, <4>1, Followed
      <4>3. seen'[open] = srv[open].age
        BY <1>2, <1>5, <3>4, <1>8, <1>1, <1>3 DEF RowsAreRead
      <4> QED  BY <1>1, <1>3, <3>1, <4>2, <4>3 DEF StopIsSeen
    <3>5. CASE l.card = open /\ l.row.age # srv[open].age /\ ~(asked[open] > 0)
      <4>1. l.row.age < srv[open].age /\ srv[open].age \in 0..MaxSteps /\ copy'[open] = l.row
        BY <1>2, <1>4, <3>5, RowParts DEF RowIsOf, RoomInv, CardTypeOK
      <4>2. CASE [card |-> open, row |-> srv[open]] \in arriving
        <5>1. [card |-> open, row |-> srv[open]] \in arriving'
          BY <1>1, <3>5, <4>2
        <5> QED  BY <1>1, <1>3, <3>1, <5>1 DEF StopIsSeen
      <4>3. CASE seen[open] = srv[open].age
        <5>1. seen'[open] = srv[open].age
          BY <1>2, <1>5, <3>5, <4>1, <4>3
        <5> QED  BY <1>1, <1>3, <3>1, <4>1, <5>1 DEF StopIsSeen, Overtaken
      <4> QED  BY <2>2, <3>5, <4>2, <4>3
    <3> QED  BY <3>2, <3>3, <3>4, <3>5
  <2> QED  BY <2>1, <2>2 DEF RoomInv, StopIsSeen
<1> QED  BY <1>7, <1>8, <1>9, <1>10, <1>11, <1>12 DEF RoomInv

-----------------------------------------------------------------------------
(* What the tab hears.                                                     *)
View == [run : RunOf, on : BOOLEAN, made : BOOLEAN]

LEMMA EventIsShown ==
  ASSUME CardTypeOK, RunsAreReal, NEW e \in DownMsg, e.kind # "ack", e.run.n > 0, OnEvent(e)
  PROVE  /\ view' \in [Card -> View] /\ \A d \in Card : d # open => view'[d] = view[d]
         /\ view'[open].on => view'[open].run.n > 0
         /\ UNCHANGED arriving
         /\ e.kind = "working" => view'[open].run = e.run /\ UNCHANGED asked
         /\ e.kind # "working" => asked' = [asked EXCEPT ![open] = @ + 1]
<1> DEFINE v == ViewOf(open)
           started == IF e.run # v.run THEN Starts(v, e.run) ELSE v
           now == CASE e.kind = "working"   -> Starts(v, e.run)
                    [] e.kind = "persisted" -> started
                    [] e.kind = "waiting"   -> [started EXCEPT !.on = FALSE]
                    [] e.kind = "end"       -> [v EXCEPT !.on = FALSE]
<1>1. open \in Card /\ view \in [Card -> View] /\ copy[open].run \in RunOf /\ e.run \in RunOf
  BY RowParts, DownParts DEF CardTypeOK, View
<1>2. v \in View /\ (v.on => v.run.n > 0)
  BY <1>1 DEF ViewOf, View, RunsAreReal
<1>3. started \in View /\ (started.on => started.run.n > 0)
  BY <1>1, <1>2 DEF Starts, View
<1>4. Starts(v, e.run) \in View /\ Starts(v, e.run).run = e.run
  BY <1>1 DEF Starts, View
<1> HIDE DEF v, started
<1>5. now \in View /\ (now.on => now.run.n > 0) /\ (e.kind = "working" => now.run = e.run)
  <2>1. CASE e.kind = "working"
    BY <1>4, <2>1
  <2>2. CASE e.kind = "persisted"
    BY <1>3, <2>2
  <2>3. CASE e.kind = "waiting"
    BY <1>3, <2>3 DEF View
  <2>4. CASE e.kind = "end"
    BY <1>2, <2>4 DEF View
  <2> QED  BY <2>1, <2>2, <2>3, <2>4, DownParts
<1>6. view' = [view EXCEPT ![open] = now]
  BY DEF OnEvent, v, started
<1>7. IF e.kind = "working" THEN UNCHANGED <<asked, arriving>> ELSE Asks(open)
  BY DEF OnEvent
<1> HIDE DEF now
<1> QED  BY <1>1, <1>5, <1>6, <1>7 DEF Asks

LEMMA HearKeeps ==
  ASSUME RoomInv, Hear
  PROVE  RoomInv'
<1> DEFINE e == down[1]
<1>1. /\ down \in Seq(DownMsg) /\ down # <<>> /\ down' = Tail(down)
      /\ UNCHANGED <<serverVars, socketVars, open, visit, copy, seen, steps>>
  BY DEF Hear, RoomInv, CardTypeOK
<1>2. /\ Head(down) = e /\ e \in DownMsg /\ down' \in Seq(DownMsg)
      /\ Len(down) \in Nat \ {0} /\ Len(down') = Len(down) - 1
      /\ \A i \in 1..Len(down') : i + 1 \in 1..Len(down) /\ down'[i] = down[i + 1]
  BY <1>1, TakenOff
<1>3. UNCHANGED <<srv, owed, told, quiet, member, joining, slipped, up, connected>>
  BY <1>1 DEF serverVars, socketVars
<1>4. /\ e.kind = "ack" => e.run = NoRun \/ e.run.n > 0
      /\ e.kind # "ack" => e.run.n > 0
  BY <1>2 DEF RoomInv, RunsAreReal
<1>5. /\ view' \in [Card -> View] /\ \A d \in Card : d # open => view'[d] = view[d]
      /\ view'[open].on => view'[open].run.n > 0
      /\ UNCHANGED arriving
      /\ Rereads(e) => asked' = [asked EXCEPT ![open] = @ + 1]
      /\ ~Rereads(e) => UNCHANGED asked
      /\ ~Rereads(e) => view' = view \/ (e.kind = "working" /\ view'[open].run = e.run)
  <2>1. /\ view \in [Card -> View] /\ open \in Card /\ (view[open].on => view[open].run.n > 0)
        /\ e.run \in RunOf
    BY <1>2, DownParts DEF RoomInv, CardTypeOK, RunsAreReal, View
  <2>2. CASE e.kind = "ack" /\ e.visit = visit
    <3>1. AckPhase(e) /\ Asks(open)
      BY <1>2, <2>2 DEF Hear, OnJoined
    <3>2. \/ view' = view
          \/ e.run.n > 0 /\ view' = [view EXCEPT ![open] = [run |-> e.run, on |-> TRUE, made |-> TRUE]]
      BY <1>4, <2>2, <3>1 DEF AckPhase, Starts
    <3>3. view' \in [Card -> View] /\ \A d \in Card : d # open => view'[d] = view[d]
      <4>1. e.run.n > 0 => [run |-> e.run, on |-> TRUE, made |-> TRUE] \in View
        BY <2>1 DEF View
      <4> QED  BY <2>1, <3>2, <4>1
    <3>4. view'[open].on => view'[open].run.n > 0
      BY <2>1, <3>2
    <3> QED  BY <2>2, <3>1, <3>3, <3>4 DEF Asks, Rereads
  <2>3. CASE e.kind # "ack"
    <3>1. OnEvent(e)
      BY <1>2, <2>3 DEF Hear
    <3>2. CardTypeOK /\ RunsAreReal
      BY DEF RoomInv
    <3>3. /\ view' \in [Card -> View] /\ \A d \in Card : d # open => view'[d] = view[d]
          /\ view'[open].on => view'[open].run.n > 0
          /\ UNCHANGED arriving
          /\ e.kind = "working" => view'[open].run = e.run /\ UNCHANGED asked
          /\ e.kind # "working" => asked' = [asked EXCEPT ![open] = @ + 1]
      BY <1>2, <1>4, <2>3, <3>1, <3>2, EventIsShown
    <3>4. Rereads(e) <=> e.kind # "working"
      BY <1>2, <2>3, DownParts DEF Rereads
    <3> QED  BY <3>3, <3>4
  <2>4. CASE e.kind = "ack" /\ e.visit # visit
    <3>1. UNCHANGED <<view, asked, arriving>>
      BY <1>2, <2>4 DEF Hear
    <3> QED  BY <2>1, <2>4, <3>1 DEF Rereads
  <2> QED  BY <2>2, <2>3, <2>4
<1>6. asked \in [Card -> Nat] /\ asked' \in [Card -> Nat] /\ (Rereads(e) => asked'[open] > 0)
  <2>1. asked \in [Card -> Nat] /\ open \in Card
    BY DEF RoomInv, CardTypeOK
  <2>2. CASE Rereads(e)
    BY <1>5, <2>1, <2>2
  <2>3. CASE ~Rereads(e)
    BY <1>5, <2>1, <2>3
  <2> QED  BY <2>2, <2>3
<1>7. CardTypeOK'
  <2>1. /\ srv \in [Card -> Row] /\ owed \subseteq RunOf \X Word
        /\ told \in [Card -> 0..MaxSteps] /\ quiet \subseteq Card
        /\ phaseOf \in [RunOf -> RunPhase] /\ connected \in BOOLEAN /\ up \in Seq(UpMsg)
        /\ member \subseteq Card /\ joining \subseteq [card : Card, visit : Visit, row : Row]
        /\ open \in Card /\ visit \in Visit /\ copy \in [Card -> Row] /\ slipped \subseteq Card
        /\ seen \in [Card -> 0..MaxSteps]
        /\ arriving \subseteq [card : Card, row : Row] /\ steps \in 0..MaxSteps
    BY DEF RoomInv, CardTypeOK
  <2>2. view' \in [Card -> [run : RunOf, on : BOOLEAN, made : BOOLEAN]]
    BY <1>5 DEF View
  <2> QED  BY <1>1, <1>2, <1>3, <1>5, <1>6, <2>1, <2>2 DEF CardTypeOK, serverVars
<1>8. RowsAreRead' /\ Inside' /\ OthersAreLeft'
  <2>1. connected
    BY <1>1 DEF RoomInv, Inside
  <2> QED  BY <1>1, <1>3, <1>5, <2>1 DEF RoomInv, RowsAreRead, RowIsOf, Inside, Entering, JoinIsOf,
     JoinMsg, OthersAreLeft, LeaveComes, LeaveMsg
<1>9. RunsAreReal'
  <2>1. \A i \in 1..Len(down') :
          IF down'[i].kind = "ack" THEN down'[i].run = NoRun \/ down'[i].run.n > 0
                                   ELSE down'[i].run.n > 0
    BY <1>2 DEF RoomInv, RunsAreReal
  <2>2. \A d \in Card : view'[d].on => view'[d].run.n > 0
    BY <1>5 DEF RoomInv, RunsAreReal
  <2> QED  BY <1>1, <1>3, <2>1, <2>2 DEF RoomInv, RunsAreReal
<1>10. \A i \in 1..Len(down) : i # 1 =>
         i - 1 \in 1..Len(down') /\ down'[i - 1] = down[i]
  BY <1>2
<1>11. ToldIsRead'
  <2>1. CASE Rereads(e)
    BY <1>1, <1>6, <2>1 DEF ToldIsRead
  <2>2. CASE ~Rereads(e)
    <3>1. ASSUME NEW i \in 1..Len(down), Rereads(down[i])
          PROVE  \E k \in 1..Len(down') : Rereads(down[k])'
      BY <1>1, <1>10, <2>2, <3>1 DEF Rereads
    <3> QED  BY <1>1, <1>3, <1>5, <2>2, <3>1 DEF RoomInv, ToldIsRead, Entering
  <2> QED  BY <2>1, <2>2
<1>12. StopIsSeen'
  <2> SUFFICES ASSUME srv[open].stage \in {"waiting", "over"}, open \notin quiet
               PROVE  StopIsSeen'
    BY <1>1, <1>3 DEF StopIsSeen
  <2>1. \A i \in 1..Len(down) + 1 : NotAtWork(i) => NotAtWork(1)' \/ i > 1
    BY <1>1, <1>2, <1>3 DEF NotAtWork
  <2>2. CASE Entering \/ \E o \in owed : o[1] = srv[open].run
    BY <1>1, <1>3, <2>2 DEF StopIsSeen, Entering
  <2>3. ASSUME NEW i \in 1..Len(down), Rereads(down[i]), NotAtWork(i)
        PROVE  StopIsSeen'
    <3>1. CASE i = 1
      <4>1. NotAtWork(1)' /\ Rereads(e)
        BY <1>2, <2>1, <2>3, <3>1
      <4>2. asked'[open'] > 0
        BY <1>1, <1>6, <4>1
      <4> QED  BY <4>1, <4>2 DEF StopIsSeen
    <3>2. CASE i # 1
      <4>1. PICK k \in Nat : k = i - 1
        BY <2>3
      <4>2. k \in 1..Len(down') /\ Rereads(down[k])'
        BY <1>1, <1>10, <2>3, <3>2, <4>1 DEF Rereads
      <4>3. NotAtWork(k)'
        BY <1>1, <1>2, <1>3, <2>3, <4>1 DEF NotAtWork
      <4> QED  BY <4>2, <4>3 DEF StopIsSeen
    <3> QED  BY <3>1, <3>2
  <2>4. CASE /\ NotAtWork(1)
             /\ \/ asked[open] > 0 \/ [card |-> open, row |-> srv[open]] \in arriving
                \/ /\ seen[open] = srv[open].age
                   /\ Overtaken(open) \/ ~view[open].on \/ view[open].run # srv[open].run
    <3>1. NotAtWork(1)'
      BY <1>2, <2>1, <2>4
    <3>2. CASE Rereads(e)
      <4>1. asked'[open'] > 0
        BY <1>1, <1>6, <3>2
      <4> QED  BY <3>1, <4>1 DEF StopIsSeen
    <3>3. CASE ~Rereads(e)
      <4>1. view' = view \/ view'[open].run # srv[open].run
        BY <1>2, <1>5, <2>4, <3>3 DEF NotAtWork
      <4>2. UNCHANGED <<open, copy, seen, srv, asked, arriving>>
        BY <1>1, <1>3, <1>5, <3>3
      <4>3. CASE asked[open] > 0 \/ [card |-> open, row |-> srv[open]] \in arriving
        BY <3>1, <4>2, <4>3 DEF StopIsSeen
      <4>4. CASE /\ seen[open] = srv[open].age
                 /\ Overtaken(open) \/ ~view[open].on \/ view[open].run # srv[open].run
        <5>1. Overtaken(open) => Overtaken(open)'
          BY <4>2 DEF Overtaken
        <5> QED  BY <3>1, <4>1, <4>2, <4>4, <5>1 DEF StopIsSeen
      <4> QED  BY <2>4, <4>3, <4>4
    <3> QED  BY <3>2, <3>3
  <2> QED  BY <2>2, <2>3, <2>4 DEF RoomInv, StopIsSeen
<1> QED  BY <1>7, <1>8, <1>9, <1>11, <1>12 DEF RoomInv

-----------------------------------------------------------------------------
(* Another card, another connection.                                       *)
LEMMA NavigateKeeps ==
  ASSUME RoomInv, NEW c \in Card, Navigate(c)
  PROVE  RoomInv'
<1> USE BoundsAreNumbers
<1>1. /\ c # open /\ open' = c /\ visit' = visit + 1 /\ steps' = steps + 1 /\ steps' \in 0..MaxSteps
      /\ up' = IF connected
               THEN up \o <<LeaveMsg(open), [kind |-> "join", card |-> c, visit |-> visit + 1]>>
               ELSE up
      /\ view' = [view EXCEPT ![c] = Follow(@, copy[c])]
      /\ asked' = [asked EXCEPT ![c] = @ + 1]
      /\ UNCHANGED <<serverVars, member, joining, slipped, connected, down, copy, seen, arriving>>
  BY DEF Navigate, Asks, Step, RoomInv, CardTypeOK
<1>2. UNCHANGED <<srv, owed, told, quiet, phaseOf>>
  BY <1>1 DEF serverVars
<1>3. /\ open \in Card /\ visit \in Nat /\ visit' \in Visit /\ visit' = visit + 1 /\ visit' <= steps' + 1
      /\ up \in Seq(UpMsg)
  BY <1>1 DEF RoomInv, CardTypeOK, Visit, RowsAreRead
<1>4. view' \in [Card -> View] /\ \A d \in Card : view'[d].on => view'[d].run.n > 0
  <2>1. view \in [Card -> View] /\ copy[c] \in Row /\ RowIsOf(c, copy[c])
    BY DEF RoomInv, CardTypeOK, RowsAreRead, View
  <2>2. \A d \in Card : view[d].on => view[d].run.n > 0
    BY DEF RoomInv, RunsAreReal
  <2>3. /\ Follow(view[c], copy[c]) \in View
        /\ Follow(view[c], copy[c]).on => Follow(view[c], copy[c]).run.n > 0
    BY <2>1, <2>2, Followed DEF View, RowIsOf
  <2> QED  BY <1>1, <2>1, <2>2, <2>3
<1>5. PICK both \in Seq(UpMsg) :
        /\ both = <<LeaveMsg(open), [kind |-> "join", card |-> c, visit |-> visit + 1]>>
        /\ Len(both) = 2 /\ both[1] = LeaveMsg(open)
        /\ both[2] = [kind |-> "join", card |-> c, visit |-> visit + 1]
  <2>1. PICK a \in UpMsg, b \in UpMsg :
          /\ a = LeaveMsg(open) /\ b = [kind |-> "join", card |-> c, visit |-> visit + 1]
    <3>1. LeaveMsg(open) \in UpMsg
      BY <1>3 DEF LeaveMsg, UpMsg
    <3>2. [kind |-> "join", card |-> c, visit |-> visit + 1] \in UpMsg
      BY <1>1, <1>3 DEF UpMsg
    <3> QED  BY <3>1, <3>2
  <2>2. <<a, b>> \in Seq(UpMsg) /\ Len(<<a, b>>) = 2 /\ <<a, b>>[1] = a /\ <<a, b>>[2] = b
    OBVIOUS
  <2>3. <<a, b>> = <<LeaveMsg(open), [kind |-> "join", card |-> c, visit |-> visit + 1]>>
    BY <2>1, Zenon
  <2> QED  BY <2>1, <2>2, <2>3
<1>6. PICK n \in Nat : n = Len(up)
  BY <1>3
<1>7. connected => /\ up' \in Seq(UpMsg) /\ Len(up') = n + 2
                   /\ \A i \in 1..n : up'[i] = up[i]
                   /\ up'[n + 1] = LeaveMsg(open) /\ up'[n + 2] = JoinMsg(visit)'
  <2> SUFFICES ASSUME connected
               PROVE  /\ up' \in Seq(UpMsg) /\ Len(up') = n + 2
                      /\ \A i \in 1..n : up'[i] = up[i]
                      /\ up'[n + 1] = LeaveMsg(open) /\ up'[n + 2] = JoinMsg(visit)'
    OBVIOUS
  <2>1. up' = up \o both
    BY <1>1, <1>5
  <2>2. /\ up \o both \in Seq(UpMsg) /\ Len(up \o both) = n + 2
        /\ \A i \in 1..n : (up \o both)[i] = up[i]
        /\ \A i \in 1..n + 2 : i > n => (up \o both)[i] = both[i - n]
    BY <1>3, <1>5, <1>6, Appended
  <2>3. up'[n + 1] = both[1] /\ up'[n + 2] = both[2]
    <3>1. /\ n + 1 \in 1..n + 2 /\ n + 1 > n /\ (n + 1) - n = 1
          /\ n + 2 \in 1..n + 2 /\ n + 2 > n /\ (n + 2) - n = 2
      OBVIOUS
    <3>2. (up \o both)[n + 1] = both[(n + 1) - n] /\ (up \o both)[n + 2] = both[(n + 2) - n]
      BY <2>2, <3>1
    <3> QED  BY <2>1, <3>1, <3>2
  <2> QED  BY <1>1, <1>5, <2>1, <2>2, <2>3 DEF JoinMsg
<1>8. ~connected => up' = <<>> /\ up = <<>> /\ joining = {} /\ member = {} /\ down = <<>>
  BY <1>1 DEF RoomInv, Inside
<1>9. CardTypeOK'
  <2>1. /\ srv \in [Card -> Row] /\ owed \subseteq RunOf \X Word
        /\ told \in [Card -> 0..MaxSteps] /\ quiet \subseteq Card
        /\ phaseOf \in [RunOf -> RunPhase] /\ connected \in BOOLEAN /\ down \in Seq(DownMsg)
        /\ member \subseteq Card /\ joining \subseteq [card : Card, visit : Visit, row : Row]
        /\ copy \in [Card -> Row] /\ slipped \subseteq Card
        /\ seen \in [Card -> 0..MaxSteps]
        /\ arriving \subseteq [card : Card, row : Row]
    BY DEF RoomInv, CardTypeOK
  <2>2. asked' \in [Card -> Nat]
    BY <1>1 DEF RoomInv, CardTypeOK
  <2>3. up' \in Seq(UpMsg)
    BY <1>3, <1>7, <1>8
  <2>4. view' \in [Card -> [run : RunOf, on : BOOLEAN, made : BOOLEAN]]
    BY <1>4 DEF View
  <2> QED  BY <1>1, <1>2, <1>3, <2>1, <2>2, <2>3, <2>4 DEF CardTypeOK
<1>10. RowsAreRead'
  <2>1. \A d \in Card : srv[d].run.n <= steps' /\ srv[d].age <= steps'
    <3> SUFFICES ASSUME NEW d \in Card PROVE srv[d].run.n <= steps' /\ srv[d].age <= steps'
      OBVIOUS
    <3>1. srv[d] \in Row /\ srv[d].run.n <= steps /\ srv[d].age <= steps /\ steps \in 0..MaxSteps
      BY DEF RoomInv, CardTypeOK, RowsAreRead
    <3> QED  BY <1>1, <3>1, RowParts
  <2> QED  BY <1>1, <1>2, <1>3, <2>1 DEF RoomInv, RowsAreRead, RowIsOf
<1>11. RunsAreReal'
  BY <1>1, <1>2, <1>4 DEF RoomInv, RunsAreReal
<1>12. Entering'
  <2>1. connected => up' # <<>>
    BY <1>7
  <2> QED  BY <1>1, <2>1 DEF Entering
<1>13. \A i \in 1..Len(up') : connected /\ (i \in 1..n \/ i = n + 1 \/ i = n + 2)
  BY <1>7, <1>8
<1>14. Inside'
  <2>1. up' # <<>> => up'[Len(up')] = JoinMsg(visit)'
    BY <1>7, <1>8
  <2>2. \A j \in joining' : JoinIsOf(j.visit, j.card)'
    <3> SUFFICES ASSUME NEW j \in joining' PROVE JoinIsOf(j.visit, j.card)'
      OBVIOUS
    <3>1. j \in joining
      BY <1>1
    <3>2. joining \subseteq [card : Card, visit : Visit, row : Row]
      BY DEF RoomInv, CardTypeOK
    <3>3. j.visit \in Visit /\ j.visit <= visit
      BY <3>1, <3>2 DEF RoomInv, Inside, JoinIsOf
    <3>4. j.visit \in Nat
      BY <3>3 DEF Visit
    <3> QED  BY <1>3, <3>3, <3>4 DEF JoinIsOf
  <2>3. ASSUME NEW i \in 1..Len(up'), up'[i].kind = "join"
        PROVE  JoinIsOf(up[i].visit, up[i].card)'
    <3>1. CASE i \in 1..n
      <4>1. up'[i] = up[i] /\ up[i] \in UpMsg /\ up[i].kind = "join"
        BY <1>3, <1>6, <1>7, <1>13, <2>3, <3>1
      <4>2. up[i].visit \in Nat /\ up[i].visit <= visit
        BY <1>6, <3>1, <4>1 DEF RoomInv, Inside, JoinIsOf, UpMsg, Visit
      <4> QED  BY <1>3, <4>1, <4>2 DEF JoinIsOf
    <3>2. CASE i = n + 1
      BY <1>7, <1>13, <2>3, <3>2 DEF LeaveMsg
    <3>3. CASE i = n + 2
      BY <1>3, <1>7, <1>13, <3>3 DEF JoinMsg, JoinIsOf
    <3> QED  BY <1>13, <3>1, <3>2, <3>3
  <2> QED  BY <1>1, <1>8, <1>12, <2>1, <2>2, <2>3 DEF Inside
<1>15. OthersAreLeft'
  <2>1. \A d \in Card, i \in Nat : connected /\ LeaveComes(d, i) => LeaveComes(d, i)'
    BY <1>6, <1>7 DEF LeaveComes, LeaveMsg
  <2>2. PICK left \in Card : left = open
    BY <1>3
  <2>3. \A i \in Nat : connected /\ i <= n => LeaveComes(left, i)'
    BY <1>7, <2>2 DEF LeaveComes, LeaveMsg
  <2>4. ASSUME NEW d \in Card, d \in member' \/ \E j \in joining' : j.card = d
        PROVE  d = open' \/ d \in slipped' \/ LeaveComes(d, 0)'
    <3>1. connected
      BY <1>1, <1>8, <2>4
    <3>2. d = left \/ d \in slipped \/ LeaveComes(d, 0)
      BY <1>1, <2>2, <2>4 DEF RoomInv, OthersAreLeft
    <3> QED  BY <1>1, <2>1, <2>3, <3>1, <3>2
  <2>5. ASSUME NEW i \in 1..Len(up'), up'[i].kind = "join"
        PROVE  up'[i].card = open' \/ LeaveComes(up[i].card, i)'
    <3>1. CASE i \in 1..n
      <4>1. PICK d \in Card : d = up[i].card /\ up'[i] = up[i] /\ up[i].kind = "join"
        BY <1>3, <1>6, <1>7, <1>13, <2>5, <3>1 DEF UpMsg
      <4>2. d = left \/ LeaveComes(d, i)
        BY <1>6, <2>2, <3>1, <4>1 DEF RoomInv, OthersAreLeft
      <4>3. LeaveComes(d, i)'
        BY <1>13, <2>1, <2>3, <3>1, <4>2
      <4> QED  BY <4>1, <4>3 DEF LeaveComes, LeaveMsg
    <3>2. CASE i = n + 1
      BY <1>7, <1>13, <2>5, <3>2 DEF LeaveMsg
    <3>3. CASE i = n + 2
      BY <1>7, <1>13, <3>3 DEF JoinMsg
    <3> QED  BY <1>13, <3>1, <3>2, <3>3
  <2> QED  BY <2>4, <2>5 DEF OthersAreLeft
<1>16. ToldIsRead' /\ StopIsSeen'
  BY <1>12 DEF ToldIsRead, StopIsSeen
<1> QED  BY <1>9, <1>10, <1>11, <1>14, <1>15, <1>16 DEF RoomInv

LEMMA DisconnectKeeps ==
  ASSUME RoomInv, Disconnect
  PROVE  RoomInv'
<1> USE BoundsAreNumbers
<1>1. /\ connected' = FALSE /\ steps' = steps + 1 /\ steps' \in 0..MaxSteps
      /\ up' = <<>> /\ down' = <<>> /\ member' = {} /\ joining' = {} /\ slipped' = {}
      /\ owed' \subseteq owed
      /\ phaseOf' = phaseOf \/ phaseOf' = [r \in RunOf |-> "unknown"]
      /\ UNCHANGED <<srv, told, quiet, open, visit, copy, view, seen, asked, arriving>>
  BY DEF Disconnect, Step, pageVars, RoomInv, CardTypeOK
<1>2. CardTypeOK'
  <2>1. phaseOf' \in [RunOf -> RunPhase] /\ owed' \subseteq RunOf \X Word
    BY <1>1 DEF RoomInv, CardTypeOK, RunPhase
  <2>2. up' \in Seq(UpMsg) /\ down' \in Seq(DownMsg)
    BY <1>1
  <2> QED  BY <1>1, <2>1, <2>2 DEF RoomInv, CardTypeOK
<1>3. RowsAreRead'
  <2>1. \A d \in Card : srv[d].run.n <= steps' /\ srv[d].age <= steps'
    <3> SUFFICES ASSUME NEW d \in Card PROVE srv[d].run.n <= steps' /\ srv[d].age <= steps'
      OBVIOUS
    <3>1. srv[d] \in Row /\ srv[d].run.n <= steps /\ srv[d].age <= steps /\ steps \in 0..MaxSteps
      BY DEF RoomInv, CardTypeOK, RowsAreRead
    <3> QED  BY <1>1, <3>1, RowParts
  <2>2. visit <= steps' + 1
    BY <1>1 DEF RoomInv, CardTypeOK, RowsAreRead, Visit
  <2> QED  BY <1>1, <2>1, <2>2 DEF RoomInv, RowsAreRead, RowIsOf
<1>4. RunsAreReal'
  <2>1. Len(down') = 0
    BY <1>1
  <2> QED  BY <1>1, <2>1 DEF RoomInv, RunsAreReal
<1>5. Entering'
  BY <1>1 DEF Entering
<1>6. Inside' /\ OthersAreLeft'
  <2>1. Len(up') = 0
    BY <1>1
  <2> QED  BY <1>1, <1>5, <2>1 DEF Inside, OthersAreLeft
<1> QED  BY <1>2, <1>3, <1>4, <1>5, <1>6 DEF RoomInv, ToldIsRead, StopIsSeen

LEMMA ConnectKeeps ==
  ASSUME RoomInv, Connect
  PROVE  RoomInv'
<1>1. /\ ~connected /\ connected' = TRUE /\ up' = <<JoinMsg(visit)>>
      /\ UNCHANGED <<serverVars, member, joining, slipped, down, pageVars, steps>>
  BY DEF Connect
<1>2. /\ UNCHANGED <<srv, owed, told, quiet, phaseOf>>
      /\ UNCHANGED <<open, visit, copy, view, seen, asked, arriving>>
  BY <1>1 DEF serverVars, pageVars
<1>3. member = {} /\ joining = {} /\ down = <<>>
  BY <1>1 DEF RoomInv, Inside
<1>4. JoinMsg(visit) \in UpMsg /\ JoinMsg(visit)' = JoinMsg(visit)
  BY <1>2 DEF RoomInv, CardTypeOK, JoinMsg, UpMsg
<1>5. up' \in Seq(UpMsg) /\ Len(up') = 1 /\ up'[1] = JoinMsg(visit) /\ up' # <<>>
  BY <1>1, <1>4
<1>6. CardTypeOK'
  BY <1>1, <1>2, <1>5 DEF RoomInv, CardTypeOK
<1>7. RowsAreRead' /\ RunsAreReal'
  BY <1>1, <1>2 DEF RoomInv, RowsAreRead, RowIsOf, RunsAreReal
<1>8. Entering'
  BY <1>5 DEF Entering
<1>9. \A i \in 1..Len(up') : up'[i].card = open /\ up'[i].visit = visit
  BY <1>5 DEF JoinMsg
<1>10. Inside'
  <2>1. visit \in Nat
    BY DEF RoomInv, CardTypeOK, Visit
  <2> QED  BY <1>1, <1>2, <1>3, <1>4, <1>5, <1>8, <1>9, <2>1 DEF Inside, JoinIsOf
<1>11. OthersAreLeft'
  BY <1>1, <1>2, <1>3, <1>9 DEF OthersAreLeft
<1> QED  BY <1>6, <1>7, <1>8, <1>10, <1>11 DEF RoomInv, ToldIsRead, StopIsSeen

-----------------------------------------------------------------------------
(* The tab starts in the list of its round.                                *)
LEMMA RoomStarts == CardInit => RoomInv
<1> SUFFICES ASSUME CardInit PROVE RoomInv
  OBVIOUS
<1> USE BoundsAreNumbers
<1>1. PICK m \in UpMsg : m = JoinMsg(1) /\ m.kind = "join" /\ m.card = open /\ m.visit = 1
  <2>1. open = FirstCard
    BY DEF CardInit
  <2>2. JoinMsg(1) \in UpMsg
    BY <2>1 DEF JoinMsg, UpMsg, Visit
  <2> QED  BY <2>2 DEF JoinMsg
<1>2. up = <<m>> /\ up \in Seq(UpMsg) /\ Len(up) = 1 /\ up[1] = m
  <2>1. up = <<m>>
    BY <1>1 DEF CardInit
  <2> QED  BY <2>1
<1>3. /\ \A c \in Card : srv[c] = [run |-> [of |-> c, n |-> 0], stage |-> "none", age |-> 0]
      /\ srv \in [Card -> Row] /\ copy = srv
  <2>1. \A c \in Card : [run |-> [of |-> c, n |-> 0], stage |-> "none", age |-> 0] \in Row
    BY DEF Row, RunOf, Stage
  <2> QED  BY <2>1 DEF CardInit
<1>4. NoRun \in RunOf
  BY DEF NoRun, RunOf
<1>5. CardTypeOK
  <2>1. phaseOf \in [RunOf -> RunPhase]
    BY DEF CardInit, RunPhase
  <2>2. view \in [Card -> [run : RunOf, on : BOOLEAN, made : BOOLEAN]]
    BY <1>4 DEF CardInit
  <2>3. down \in Seq(DownMsg)
    BY DEF CardInit
  <2>4. told \in [Card -> 0..MaxSteps] /\ seen \in [Card -> 0..MaxSteps] /\ asked \in [Card -> Nat]
    BY DEF CardInit
  <2> QED  BY <1>2, <1>3, <2>1, <2>2, <2>3, <2>4 DEF CardInit, CardTypeOK, Visit
<1>6. RowsAreRead
  BY <1>3 DEF CardInit, RowsAreRead, RowIsOf
<1>7. RunsAreReal
  BY DEF CardInit, RunsAreReal
<1>8. Entering
  BY <1>2 DEF Entering
<1>9. up[Len(up)] = JoinMsg(visit)
  BY <1>1, <1>2 DEF CardInit
<1>10. Inside
  BY <1>1, <1>2, <1>8, <1>9 DEF CardInit, Inside, JoinIsOf
<1>11. OthersAreLeft
  BY <1>1, <1>2 DEF CardInit, OthersAreLeft
<1>12. ToldIsRead /\ StopIsSeen
  BY <1>8 DEF ToldIsRead, StopIsSeen
<1> QED  BY <1>5, <1>6, <1>7, <1>10, <1>11, <1>12 DEF RoomInv

(* No step of the server, of the socket or of the tab breaks it.           *)
LEMMA RoomStays == RoomInv /\ [CardNext]_cardVars => RoomInv'
<1> SUFFICES ASSUME RoomInv, [CardNext]_cardVars PROVE RoomInv'
  OBVIOUS
<1>1. ASSUME NEW c \in Card, RunBegins(c) PROVE RoomInv'
  BY <1>1, RunBeginsKeeps
<1>2. ASSUME NEW c \in Card, WorkingPhase(c) PROVE RoomInv'
  BY <1>2, WorkingPhaseKeeps
<1>3. ASSUME NEW c \in Card, RunProposes(c) PROVE RoomInv'
  BY <1>3, RunStopsKeeps
<1>4. ASSUME NEW c \in Card, RunEnds(c) PROVE RoomInv'
  BY <1>4, RunStopsKeeps
<1>5. ASSUME NEW c \in Card, Navigate(c) PROVE RoomInv'
  BY <1>5, NavigateKeeps
<1>6. ASSUME NEW c \in Card, Read(c) PROVE RoomInv'
  BY <1>6, ReadKeepsRoom
<1>7. ASSUME NEW o \in owed, TellOf(o[1], o[2]) PROVE RoomInv'
  BY <1>7, TellOfKeeps
<1>8. ASSUME NEW j \in joining, Joined(j) PROVE RoomInv'
  BY <1>8, JoinedKeeps
<1>9. ASSUME NEW l \in arriving, AnswerArrives(l) PROVE RoomInv'
  BY <1>9, AnswerArrivesKeeps
<1>10. CASE TakeUp
  BY <1>10, TakeUpKeeps
<1>11. CASE Hear
  BY <1>11, HearKeeps
<1>12. CASE Disconnect
  BY <1>12, DisconnectKeeps
<1>13. CASE Connect
  BY <1>13, ConnectKeeps
<1>14. CASE Poll
  BY <1>14, PollKeeps
<1>15. CASE UNCHANGED cardVars
  <2>1. UNCHANGED <<srv, owed, told, quiet, phaseOf, member, joining, slipped, up, connected,
                    down, open, visit, copy, view, seen, asked, arriving, steps>>
    BY <1>15 DEF cardVars, serverVars, socketVars, pageVars
  <2>2. CardTypeOK' /\ RowsAreRead' /\ RunsAreReal'
    BY <2>1 DEF RoomInv, CardTypeOK, RowsAreRead, RowIsOf, RunsAreReal
  <2>3. Inside' /\ OthersAreLeft'
    BY <2>1 DEF RoomInv, Inside, OthersAreLeft, Entering, JoinIsOf, LeaveComes, JoinMsg
  <2>4. ToldIsRead'
    BY <2>1 DEF RoomInv, ToldIsRead, Entering, Rereads
  <2>5. StopIsSeen'
    BY <2>1 DEF RoomInv, StopIsSeen, Entering, Rereads, NotAtWork, Overtaken
  <2> QED  BY <2>2, <2>3, <2>4, <2>5 DEF RoomInv
<1> QED
  BY <1>1, <1>2, <1>3, <1>4, <1>5, <1>6, <1>7, <1>8, <1>9, <1>10, <1>11, <1>12, <1>13, <1>14, <1>15
     DEF CardNext

(* The tab is in its room, on its way there, or cut off; what it was told  *)
(* is read or will be; and every stop of its newest run is seen or is      *)
(* still to be.                                                            *)
THEOREM RoomInvHolds == CardSpec => []RoomInv
<1>1. CardInit => RoomInv
  BY RoomStarts
<1>2. RoomInv /\ [CardNext]_cardVars => RoomInv'
  BY RoomStays
<1> QED  BY <1>1, <1>2, PTL DEF CardSpec

(* Rows, runs, messages and answers stay what they are.                    *)
THEOREM CardTypes == CardSpec => []CardTypeOK
<1>1. RoomInv => CardTypeOK
  BY DEF RoomInv
<1> QED  BY <1>1, RoomInvHolds, PTL

(* Once everything sent has arrived, the tab is in the room of its card    *)
(* and in no other but for one that slipped, it has read the remark since  *)
(* its room was told to, and the card is not left at work on a run that is *)
(* over.                                                                   *)
THEOREM CardsTell == CardSpec => []CardTells
<1>1. RoomInv => CardTells
  <2> SUFFICES ASSUME RoomInv, AtRest
               PROVE  /\ open \in member /\ member \subseteq {open} \cup slipped
                      /\ Overtaken(open) \/ copy[open].age >= told[open]
                      /\ view[open].on =>
                           \/ srv[open].stage = "working"
                           \/ Overtaken(open) \/ open \in quiet
                           \/ view[open].run # srv[open].run
    BY DEF CardTells
  <2>1. /\ connected /\ owed = {} /\ joining = {} /\ up = <<>> /\ down = <<>>
        /\ arriving = {} /\ ~(asked[open] > 0) /\ open \in Card
    BY DEF AtRest, RoomInv, CardTypeOK
  <2>2. Len(up) = 0 /\ Len(down) = 0
    BY <2>1
  <2>3. ~Entering
    BY <2>1 DEF Entering
  <2>4. open \in member
    BY <2>3 DEF RoomInv, Inside
  <2>5. member \subseteq {open} \cup slipped
    <3>1. member \subseteq Card
      BY DEF RoomInv, CardTypeOK
    <3> QED  BY <2>2, <3>1 DEF RoomInv, OthersAreLeft, LeaveComes
  <2>6. seen[open] >= told[open]
    BY <2>1, <2>2, <2>3 DEF RoomInv, ToldIsRead
  <2>7. /\ copy[open].age \in Nat /\ seen[open] \in Nat /\ told[open] \in Nat
        /\ srv[open] \in Row /\ srv[open].stage \in Stage
    <3>1. copy[open] \in Row /\ srv[open] \in Row
      BY <2>1 DEF RoomInv, CardTypeOK
    <3>2. seen[open] \in 0..MaxSteps /\ told[open] \in 0..MaxSteps
      BY <2>1 DEF RoomInv, CardTypeOK
    <3> QED  BY <3>1, <3>2, RowParts, BoundsAreNumbers
  <2>8. Overtaken(open) \/ copy[open].age >= told[open]
    BY <2>6, <2>7 DEF Overtaken
  <2>9. ASSUME view[open].on, srv[open].stage # "working", ~Overtaken(open), open \notin quiet
        PROVE  view[open].run # srv[open].run
    <3>1. CASE srv[open].stage = "none"
      <4>1. srv[open].run.n = 0 /\ view[open].run.n > 0
        BY <2>1, <2>9, <3>1 DEF RoomInv, RowsAreRead, RunsAreReal
      <4> QED  BY <4>1
    <3>2. CASE srv[open].stage \in {"waiting", "over"}
      BY <2>1, <2>2, <2>3, <2>9, <3>2 DEF RoomInv, StopIsSeen
    <3>3. srv[open].stage \in {"none", "waiting", "over"}
      BY <2>7, <2>9 DEF Stage
    <3> QED  BY <3>1, <3>2, <3>3
  <2> QED  BY <2>4, <2>5, <2>8, <2>9
<1> QED  BY <1>1, RoomInvHolds, PTL

-----------------------------------------------------------------------------
(* The bell.                                                               *)

(* What the person may see today.                                          *)
Seen == Visible(role)

(* Events computed and not yet received.                                   *)
Events == pushing \cup {channel[i] : i \in 1..Len(channel)}

(* A word about a row, a reading or a change of role that is still to      *)
(* come, from after version a.                                             *)
NewComes(n, a) ==
  \/ \E p \in pushes : p.sel = [by |-> "id", of |-> n] /\ p.at > a
  \/ \E e \in Events : e.type = "new" /\ e.of = n /\ e.at > a

PostUnder == post.step \in {"written", "counted"}

ReadComes(n, a) ==
  \/ \E p \in pushes : p.sel.by = "remark" /\ Hit(p.sel, n) /\ p.at > a
  \/ PostUnder /\ Hit(post.sel, n) /\ post.at > a
  \/ \E e \in Events : e.type = "read" /\ Hit(e.of, n) /\ e.at > a

RoleComes(a) ==
  \/ resync /\ version > a
  \/ \E e \in Events : e.type = "sync" /\ e.at > a

(* Something of the present version is still to be emitted or received, or *)
(* the socket is down and a sync will follow.                              *)
Due ==
  \/ ~online \/ resync
  \/ \E p \in pushes : p.at = version
  \/ PostUnder /\ post.at = version
  \/ \E e \in Events : e.at = version

Loaded == sync.step \in {"scoped", "answered"}

(* What was computed at version a is out of date: the tab has been told of *)
(* something later, or will ask for everything.                            *)
Behind(a) ==
  /\ a < version
  /\ \/ newest > a \/ ~online \/ again \/ sync.step = "asked"
     \/ Loaded /\ sync.at > a
     \/ sync = NoList /\ outrun

Moot(a) == Behind(a) \/ RoleComes(a)

(* The state s of a row, known at version a, is the one of the table, or a *)
(* word of what happened since is still to come.                           *)
RowHolds(n, s, a) ==
  n \in Seen =>
    \/ s = note[n].state
    \/ NewComes(n, a)
    \/ s = "unread" /\ note[n].state = "read" /\ ReadComes(n, a)

(* What was read at version a was read of every row of then.               *)
ReadHolds(sel, a) ==
  \A n \in Seen : Hit(sel, n) /\ note[n].state = "unread" => NewComes(n, a)

Stamped ==
  /\ newest <= version /\ post.at <= version /\ sync.at <= version /\ more.at <= version
  /\ \A p \in pushes : p.at <= version
  /\ \A e \in Events : e.at <= version

RequestsAreSound ==
  /\ sync.step = "none" => sync = NoList
  /\ sync = NoList => ~again
  /\ ~again => pushed = {}
  /\ sync.before = MaxNotes + 1
  /\ post.own => post.step # "idle"
  /\ \A p \in pushes : p.sel.by # "all"

(* What bears the present version counts what there is.                    *)
CountRight(e) == e.type # "sync" /\ e.at = version => e.unread = Count(role)

(* A row of the present version is one the person may see.                 *)
PushRight(p) == p.at = version /\ p.sel.by = "id" => p.sel.of \in Seen

PostRight ==
  post.step \in {"counted", "answered"} /\ post.at = version => post.unread = Count(role)

ListRight(r) ==
  r.at = version =>
    /\ r.step \in {"scoped", "answered"} => r.scope = role
    /\ r.step = "answered" => r.page.unread = Count(role)

CountsAreRight ==
  /\ \A e \in Events : CountRight(e)
  /\ \A p \in pushes : PushRight(p)
  /\ PostRight /\ ListRight(sync) /\ ListRight(more)

(* The tab has been told of the present version, or will be.               *)
VersionIsTold ==
  /\ newest = version \/ Due \/ sync # NoList \/ outrun
  /\ Loaded /\ sync.at < version => again \/ Due

UnreadIsRight ==
  \/ outrun \/ newest < version \/ sync # NoList \/ post.own \/ Due
  \/ unread = Count(role)

(* What an event, or a job that will make one, says holds or is moot.      *)
ReadRight(sel, a) == Moot(a) \/ ReadHolds(sel, a)

EventRight(e) ==
  /\ e.type = "new" => Moot(e.at) \/ (e.of \in Seen /\ RowHolds(e.of, e.state, e.at))
  /\ e.type = "read" => ReadRight(e.of, e.at)

EventsHold ==
  /\ \A e \in Events : EventRight(e)
  /\ \A p \in pushes : p.sel.by = "remark" => ReadRight(p.sel, p.at)
  /\ PostUnder => ReadRight(post.sel, post.at)

MoreHolds ==
  more.step \in {"scoped", "answered"} =>
    \/ Moot(more.at)
    \/ /\ more.scope = role
       /\ more.step = "answered" =>
            \A n \in Note : more.page.rows[n] # "no" =>
              n \in Seen /\ RowHolds(n, more.page.rows[n], more.at)

Fresh == {n \in Note : sync.page.rows[n] # "no"}

SyncHolds ==
  Loaded =>
    /\ sync.step = "answered" /\ sync.page.hasMore => Cardinality(Fresh) >= PAGE
    /\ \/ again \/ ~online \/ RoleComes(sync.at)
       \/ /\ sync.scope = role
          /\ sync.step = "answered" =>
               /\ Fresh \subseteq Seen
               /\ \A n \in Top(Seen) : RowHolds(n, sync.page.rows[n], sync.at)

(* A row below the first page of what the person may see.                  *)
Deep(n) == Cardinality({m \in Seen : m > n}) >= PAGE

ItemsHold ==
  \/ outrun \/ ~online \/ sync # NoList \/ RoleComes(-1)
  \/ /\ \A n \in Top(Seen) :
          \/ RowHolds(n, items[n], -1)
          \/ post.step = "sent" /\ post.own /\ Hit(post.sel, n) /\ items[n] = "read"
     /\ \A n \in Shown : n \in Seen \/ Deep(n)

BellInv ==
  /\ BellTypeOK /\ Stamped /\ RequestsAreSound /\ CountsAreRight
  /\ VersionIsTold /\ UnreadIsRight /\ EventsHold /\ MoreHolds /\ SyncHolds /\ ItemsHold

-----------------------------------------------------------------------------
(* The first page.                                                         *)
LEMMA NotesAreFinite ==
  ASSUME NEW S \in SUBSET Note
  PROVE  /\ IsFiniteSet(S) /\ Cardinality(S) \in Nat /\ S \subseteq Nat
         /\ \A R \in SUBSET S : IsFiniteSet(R) /\ Cardinality(R) \in Nat
                                /\ Cardinality(R) <= Cardinality(S)
<1>1. MaxNotes \in Nat /\ PAGE \in Nat
  BY BellAssumption
<1>2. IsFiniteSet(Note)
  BY <1>1, FS_Interval DEF Note
<1>3. IsFiniteSet(S) /\ S \subseteq Nat
  <2>1. IsFiniteSet(S)
    BY <1>2, FS_Subset
  <2> QED  BY <1>1, <2>1 DEF Note
<1>4. \A R \in SUBSET S : IsFiniteSet(R) /\ Cardinality(R) <= Cardinality(S)
  BY <1>3, FS_Subset
<1> QED  BY <1>3, <1>4, FS_CardinalityType

LEMMA TopGrows ==
  ASSUME NEW S \in SUBSET Note, NEW n \in Note
  PROVE  Top(S \cup {n}) \subseteq Top(S) \cup {n}
<1> SUFFICES ASSUME NEW k \in Top(S \cup {n}), k # n PROVE k \in Top(S)
  OBVIOUS
<1> DEFINE above == {m \in S : m > k}
           all == {m \in S \cup {n} : m > k}
<1>1. PAGE \in Nat
  BY BellAssumption
<1>2. k \in S /\ Cardinality(all) < PAGE
  BY DEF Top
<1>3. all \in SUBSET Note /\ above \in SUBSET all
  OBVIOUS
<1>4. Cardinality(above) <= Cardinality(all) /\ Cardinality(above) \in Nat /\ Cardinality(all) \in Nat
  <2> HIDE DEF above, all
  <2> QED  BY <1>3, NotesAreFinite
<1> QED  BY <1>1, <1>2, <1>4 DEF Top

(* A page is full if there are rows enough.                                *)
LEMMA TopIsFull ==
  ASSUME NEW S \in SUBSET Note, Cardinality(S) >= PAGE
  PROVE  Cardinality(Top(S)) >= PAGE
<1>1. PAGE \in Nat /\ Top(S) \in SUBSET S /\ Top(S) \in SUBSET Note /\ S \ Top(S) \in SUBSET Nat
  BY BellAssumption, NotesAreFinite DEF Top
<1>2. Cardinality(Top(S)) \in Nat /\ Cardinality(S) \in Nat
  BY <1>1, NotesAreFinite
<1>3. CASE S \ Top(S) = {}
  <2>1. S = Top(S)
    BY <1>1, <1>3
  <2> QED  BY <2>1
<1>4. CASE S \ Top(S) # {}
  <2>1. IsFiniteSet(S \ Top(S))
    <3>1. S \ Top(S) \in SUBSET S
      OBVIOUS
    <3> QED  BY <3>1, NotesAreFinite
  <2>2. PICK m \in S \ Top(S) : \A k \in S \ Top(S) : k <= m
    BY <1>1, <1>4, <2>1, FiniteHasLargest
  <2> DEFINE above == {k \in S : k > m}
  <2>3. Cardinality(above) >= PAGE
    <3>1. above \in SUBSET Note
      OBVIOUS
    <3>2. Cardinality(above) \in Nat
      <4> HIDE DEF above
      <4> QED  BY <3>1, NotesAreFinite
    <3>3. ~(Cardinality(above) < PAGE)
      BY <2>2 DEF Top
    <3> QED  BY <1>1, <3>2, <3>3
  <2>4. above \in SUBSET Top(S)
    <3>1. \A k \in S : k \in Nat
      BY NotesAreFinite
    <3> SUFFICES ASSUME NEW k \in S, k > m, k \notin Top(S) PROVE FALSE
      OBVIOUS
    <3>2. k <= m /\ k \in Nat /\ m \in Nat
      BY <2>2, <3>1
    <3> QED  BY <3>2
  <2>5. Cardinality(above) <= Cardinality(Top(S)) /\ Cardinality(above) \in Nat
    <3> HIDE DEF above
    <3> QED  BY <1>1, <2>4, NotesAreFinite
  <2> QED  BY <1>1, <1>2, <2>3, <2>5
<1> QED  BY <1>3, <1>4

(* If the tab lists the first page, and beyond it only rows of the person  *)
(* or rows below, then its own first page is that of the person.           *)
LEMMA SameFirstPage ==
  ASSUME NEW S \in SUBSET Note, NEW T \in SUBSET Note, Top(S) \subseteq T,
         \A n \in T : n \in S \/ Cardinality({m \in S : m > n}) >= PAGE
  PROVE  Top(T) = Top(S)
<1>1. PAGE \in Nat \ {0}
  BY BellAssumption
<1> DEFINE InS(n) == {m \in S : m > n}
           InT(n) == {m \in T : m > n}
<1>2. \A n \in Note : InS(n) \in SUBSET Note /\ InT(n) \in SUBSET Note
  OBVIOUS
<1>3. \A n \in Note : Cardinality(InS(n)) \in Nat /\ Cardinality(InT(n)) \in Nat
  <2> HIDE DEF InS, InT
  <2> QED  BY <1>2, NotesAreFinite
<1>4. \A n \in Note : n \in Nat
  BY NotesAreFinite
<1>5. ASSUME NEW n \in Top(S) PROVE n \in Top(T)
  <2>1. n \in S /\ n \in T /\ Cardinality(InS(n)) < PAGE
    BY DEF Top
  <2>2. ASSUME NEW m \in InT(n) PROVE m \in InS(n)
    <3>1. m \in T /\ m > n /\ m \in Nat /\ n \in Nat
      BY <1>4, <2>1
    <3>2. CASE m \in S
      BY <3>1, <3>2
    <3>3. CASE Cardinality(InS(m)) >= PAGE
      <4>1. InS(m) \in SUBSET InS(n)
        <5>1. \A k \in S : k > m => k > n
          BY <1>4, <3>1
        <5> QED  BY <5>1
      <4>2. Cardinality(InS(m)) <= Cardinality(InS(n))
        <5> HIDE DEF InS
        <5> QED  BY <1>2, <2>1, <4>1, NotesAreFinite
      <4>3. m \in Note /\ n \in Note
        BY <2>1, <3>1
      <4>4. Cardinality(InS(m)) \in Nat /\ Cardinality(InS(n)) \in Nat
        <5> HIDE DEF InS
        <5> QED  BY <1>3, <4>3
      <4>5. PICK x \in Nat, y \in Nat : x = Cardinality(InS(m)) /\ y = Cardinality(InS(n))
        <5> HIDE DEF InS
        <5> QED  BY <4>4
      <4>6. x <= y /\ y < PAGE /\ x >= PAGE
        BY <2>1, <3>3, <4>2, <4>5, Zenon
      <4> QED  BY <1>1, <4>6
    <3> QED  BY <3>1, <3>2, <3>3
  <2>3. InT(n) \in SUBSET InS(n)
    BY <2>2
  <2>4. Cardinality(InT(n)) <= Cardinality(InS(n))
    <3> HIDE DEF InS, InT
    <3> QED  BY <1>2, <2>1, <2>3, NotesAreFinite
  <2>5. Cardinality(InT(n)) < PAGE
    <3> HIDE DEF InS, InT
    <3> QED  BY <1>1, <1>3, <2>1, <2>4
  <2> QED  BY <2>1, <2>5 DEF Top
<1>6. ASSUME NEW n \in Top(T), n \notin Top(S) PROVE FALSE
  <2>1. n \in T /\ Cardinality(InT(n)) < PAGE
    BY DEF Top
  <2>2. Cardinality(InS(n)) >= PAGE
    <3>1. CASE n \in S
      <4>1. ~(Cardinality(InS(n)) < PAGE)
        BY <1>6, <3>1 DEF Top
      <4> HIDE DEF InS
      <4> QED  BY <1>1, <1>3, <2>1, <4>1
    <3> QED  BY <2>1, <3>1
  <2>3. Cardinality(Top(InS(n))) >= PAGE
    <3> HIDE DEF InS
    <3> QED  BY <1>2, <2>1, <2>2, TopIsFull
  <2>4. Top(InS(n)) \in SUBSET InT(n)
    <3> SUFFICES ASSUME NEW k \in Top(InS(n)) PROVE k \in InT(n)
      OBVIOUS
    <3>1. k \in S /\ k > n /\ Cardinality({m \in InS(n) : m > k}) < PAGE
      BY DEF Top
    <3>2. {m \in InS(n) : m > k} = InS(k)
      BY <1>4, <2>1, <3>1
    <3>3. k \in Top(S)
      BY <3>1, <3>2 DEF Top
    <3> QED  BY <3>1, <3>3
  <2>5. Cardinality(Top(InS(n))) <= Cardinality(InT(n)) /\ Cardinality(Top(InS(n))) \in Nat
    <3> HIDE DEF InS, InT
    <3> QED  BY <1>2, <2>1, <2>4, NotesAreFinite
  <2> HIDE DEF InS, InT
  <2> QED  BY <1>1, <1>3, <2>1, <2>3, <2>5
<1>7. Top(S) \in SUBSET Note /\ Top(T) \in SUBSET Note
  BY DEF Top
<1> QED  BY <1>5, <1>6

-----------------------------------------------------------------------------
(* Kinds of things.                                                        *)
LEMMA BellKinds ==
  ASSUME BellTypeOK
  PROVE  /\ \A r : Visible(r) \in SUBSET Note /\ Count(r) \in Nat
         /\ \A sel : LocalUnread(sel) \in Nat
         /\ NoList \in ListRequest /\ \A n \in 1..MaxNotes + 1 : Ask(n) \in ListRequest
         /\ NoRows \in [Note -> State] /\ IdlePost.sel \in Selector
         /\ Note \subseteq 1..MaxNotes + 1 /\ MaxNotes + 1 \in 1..MaxNotes + 1
<1>1. \A r : Visible(r) \in SUBSET Note
  BY DEF Visible
<1>2. \A r : Count(r) \in Nat
  <2> SUFFICES ASSUME NEW r PROVE Count(r) \in Nat
    OBVIOUS
  <2>1. {n \in Visible(r) : note[n].state = "unread"} \in SUBSET Note
    BY <1>1
  <2>2. Cardinality({n \in Visible(r) : note[n].state = "unread"}) \in Nat
    BY <2>1, NotesAreFinite, Zenon
  <2> QED  BY <2>2 DEF Count
<1>3. \A sel : LocalUnread(sel) \in Nat
  <2> SUFFICES ASSUME NEW sel PROVE LocalUnread(sel) \in Nat
    OBVIOUS
  <2>1. {n \in Shown : items[n] = "unread" /\ Hit(sel, n)} \in SUBSET Note
    BY DEF Shown
  <2>2. Cardinality({n \in Shown : items[n] = "unread" /\ Hit(sel, n)}) \in Nat
    BY <2>1, NotesAreFinite, Zenon
  <2> QED  BY <2>2 DEF LocalUnread
<1>4. NoRows \in [Note -> State] /\ IdlePost.sel \in Selector
  BY DEF NoRows, State, IdlePost, Selector
<1>5. Note \subseteq 1..MaxNotes + 1 /\ MaxNotes + 1 \in 1..MaxNotes + 1
  BY BellAssumption DEF Note
<1>6. NoList \in ListRequest /\ \A n \in 1..MaxNotes + 1 : Ask(n) \in ListRequest
  BY <1>4, <1>5 DEF NoList, Ask, ListRequest, NoAnswer, BellRole
<1> QED  BY <1>1, <1>2, <1>3, <1>4, <1>5, <1>6

(* What is emitted is on the way, unless nobody is there.                  *)
LEMMA EmitTyped ==
  ASSUME BellTypeOK, NEW e \in BellEvent, Emit(e)
  PROVE  channel' \in Seq(BellEvent)
BY DEF Emit, BellTypeOK

(* The rows as they are read.                                              *)
LEMMA RowsRead ==
  ASSUME BellTypeOK, NEW sel \in Selector, ReadRows(sel)
  PROVE  /\ note' \in [Note -> [state : State, role : BellRole]]
         /\ version' \in Nat /\ version <= version' /\ version' <= version + 1
         /\ \A n \in Note : /\ note'[n].role = note[n].role
                            /\ note'[n].state = IF Hit(sel, n) /\ note[n].state = "unread"
                                                THEN "read" ELSE note[n].state
         /\ version' = version => note' = note
<1>1. /\ note \in [Note -> [state : State, role : BellRole]] /\ version \in Nat
      /\ note' = [n \in Note |-> IF n \in Unread(sel) THEN [note[n] EXCEPT !.state = "read"] ELSE note[n]]
      /\ version' = IF Unread(sel) # {} THEN version + 1 ELSE version
  BY DEF BellTypeOK, ReadRows
<1>2. \A n \in Note : note'[n] = IF Hit(sel, n) /\ note[n].state = "unread"
                                 THEN [note[n] EXCEPT !.state = "read"] ELSE note[n]
  BY <1>1 DEF Unread
<1>3. \A n \in Note : note[n] \in [state : State, role : BellRole]
  BY <1>1
<1>4. \A n \in Note : note'[n] \in [state : State, role : BellRole]
  BY <1>2, <1>3 DEF State
<1>5. DOMAIN note' = Note /\ note' = [n \in Note |-> note'[n]]
  BY <1>1, Zenon
<1>6. version' = version => note' = note
  <2> SUFFICES ASSUME version' = version PROVE note' = note
    OBVIOUS
  <2>1. Unread(sel) = {}
    BY <1>1
  <2> QED  BY <1>1, <2>1
<1>7. note' \in [Note -> [state : State, role : BellRole]]
  BY <1>4, <1>5
<1>8. version' \in Nat /\ version <= version' /\ version' <= version + 1
  BY <1>1
<1>9. \A n \in Note : /\ note'[n].role = note[n].role
                      /\ note'[n].state = IF Hit(sel, n) /\ note[n].state = "unread"
                                          THEN "read" ELSE note[n].state
  BY <1>2, <1>3
<1> QED  BY <1>6, <1>7, <1>8, <1>9

(* Everything stays what it is.                                            *)
LEMMA BellTypeStays ==
  ASSUME BellTypeOK, [BellNext]_bellVars
  PROVE  BellTypeOK'
<1> USE DEF rest, rowVars, workVars, tabVars
<1>t. MaxTurns \in Nat /\ (Turn => turns' \in 0..MaxTurns)
  BY BellAssumption DEF BellTypeOK, Turn
<1>1. ASSUME NEW n \in Note, Arrive(n) PROVE BellTypeOK'
  <2>1. note' \in [Note -> [state : State, role : BellRole]] /\ version' \in Nat
    BY <1>1 DEF Arrive, BellTypeOK, State
  <2>2. pushes' \subseteq [sel : Selector, at : Nat]
    BY <1>1, <2>1 DEF Arrive, BellTypeOK, Selector
  <2> QED  BY <1>t, <1>1, <2>1, <2>2 DEF Arrive, BellTypeOK
<1>2. ASSUME NEW r \in 0..1, Act(r) PROVE BellTypeOK'
  <2>1. [by |-> "remark", of |-> r] \in Selector
    BY DEF Selector
  <2>2. note' \in [Note -> [state : State, role : BellRole]] /\ version' \in Nat
    BY <1>2, <2>1, RowsRead DEF Act
  <2> QED  BY <1>t, <1>2, <2>1, <2>2 DEF Act, BellTypeOK
<1>3. ASSUME NEW p \in pushes, TakePush(p) PROVE BellTypeOK'
  <2>1. p \in [sel : Selector, at : Nat] /\ note \in [Note -> [state : State, role : BellRole]] /\ version \in Nat
    BY DEF BellTypeOK
  <2>2. Count(role) \in Nat /\ Visible(role) \subseteq Note
    BY BellKinds
  <2>3. Said(p) \subseteq BellEvent
    BY <2>1, <2>2 DEF Said, BellEvent
  <2> QED  BY <1>t, <1>3, <2>3 DEF TakePush, BellTypeOK
<1>4. ASSUME NEW e \in pushing, EmitPush(e) PROVE BellTypeOK'
  <2>1. e \in BellEvent /\ Emit(e)
    BY <1>4 DEF BellTypeOK, EmitPush
  <2> QED  BY <1>4, <2>1, EmitTyped DEF EmitPush, BellTypeOK
<1>5. CASE PostCommit
  <2>1. post.sel \in Selector /\ ReadRows(post.sel)
    BY <1>5 DEF BellTypeOK, PostCommit
  <2>2. note' \in [Note -> [state : State, role : BellRole]] /\ version' \in Nat
    BY <2>1, RowsRead
  <2> QED  BY <1>5, <2>2 DEF PostCommit, BellTypeOK
<1>6. CASE PostCount
  BY <1>6, BellKinds DEF PostCount, BellTypeOK
<1>7. CASE PostEmit
  <2>1. [type |-> "read", of |-> post.sel, unread |-> post.unread, at |-> post.at] \in BellEvent
    BY DEF BellTypeOK, BellEvent
  <2>2. channel' \in Seq(BellEvent)
    BY <1>7, <2>1, EmitTyped DEF PostEmit
  <2> QED  BY <1>7, <2>2, BellKinds DEF PostEmit, BellTypeOK, IdlePost
<1>8. CASE PostAnswer
  BY <1>8, BellKinds DEF PostAnswer, BellTypeOK, IdlePost, Told
<1>s. ASSUME Sync
      PROVE  sync' \in ListRequest /\ pushed' \subseteq Note /\ again' \in BOOLEAN
  BY <1>s, BellKinds DEF Sync, BellTypeOK
<1>9. CASE PostFails
  BY <1>t, <1>9, <1>s, BellKinds DEF PostFails, BellTypeOK, IdlePost
<1>10. CASE ChangeRole
  BY <1>t, <1>10 DEF ChangeRole, BellTypeOK
<1>11. CASE EmitSync
  <2>1. [type |-> "sync", at |-> version] \in BellEvent
    BY DEF BellTypeOK, BellEvent
  <2>2. channel' \in Seq(BellEvent)
    BY <1>11, <2>1, EmitTyped DEF EmitSync
  <2> QED  BY <1>11, <2>2 DEF EmitSync, BellTypeOK
<1>12. CASE List
  <2>1. ASSUME NEW req \in ListRequest, NEW next, ListStep(req, next) PROVE next \in ListRequest
    <3>1. \A n \in Note : note[n].state \in State
      BY DEF BellTypeOK
    <3>2. Count(req.scope) \in Nat
      BY BellKinds
    <3>3. Page(req).rows \in [Note -> State]
      BY <3>1 DEF Page, State
    <3>4. Page(req) \in [rows : [Note -> State], hasMore : BOOLEAN, unread : Nat]
      BY <3>2, <3>3 DEF Page
    <3>5. role \in BellRole /\ version \in Nat
      BY DEF BellTypeOK
    <3> QED  BY <2>1, <3>4, <3>5 DEF ListStep, ListRequest
  <2>2. sync \in ListRequest /\ more \in ListRequest
    BY DEF BellTypeOK
  <2>3. sync' \in ListRequest /\ more' \in ListRequest
    BY <1>12, <2>1, <2>2 DEF List
  <2> QED  BY <1>12, <2>3 DEF List, BellTypeOK
<1>13. CASE StartSync
  BY <1>t, <1>13, <1>s DEF StartSync, BellTypeOK
<1>a. ASSUME AfterSync
      PROVE  sync' \in ListRequest /\ pushed' \subseteq Note /\ again' \in BOOLEAN
  BY <1>a, BellKinds DEF AfterSync, BellTypeOK
<1>14. CASE ApplySync
  <2>1. sync.page.rows \in [Note -> State] /\ sync.page.unread \in Nat /\ sync.page.hasMore \in BOOLEAN
        /\ sync.at \in Nat
    BY DEF BellTypeOK, ListRequest
  <2>2. items' \in [Note -> State]
    BY <1>14, <2>1 DEF ApplySync, BellTypeOK, State
  <2>3. hasMore' \in BOOLEAN
    BY <1>14, <2>1 DEF ApplySync, BellTypeOK
  <2>4. unread' \in Nat /\ newest' \in Nat /\ outrun' = FALSE /\ replaceNext' = FALSE
    BY <1>14, <2>1 DEF ApplySync, BellTypeOK
  <2> QED  BY <1>14, <1>a, <2>2, <2>3, <2>4 DEF ApplySync, BellTypeOK
<1>15. CASE SyncFails
  BY <1>t, <1>15, <1>a DEF SyncFails, BellTypeOK
<1>16. CASE LoadMore
  <2>1. more' \in ListRequest
    BY <1>16, BellKinds DEF LoadMore, Shown
  <2> QED  BY <1>t, <1>16, <2>1 DEF LoadMore, BellTypeOK
<1>17. CASE ApplyMore
  <2>1. more.page.rows \in [Note -> State] /\ more.page.unread \in Nat /\ more.page.hasMore \in BOOLEAN
        /\ more.at \in Nat
    BY DEF BellTypeOK, ListRequest
  <2>2. items' \in [Note -> State]
    BY <1>17, <2>1 DEF ApplyMore, BellTypeOK, State
  <2> QED  BY <1>17, <2>1, <2>2, BellKinds DEF ApplyMore, BellTypeOK, Told
<1>18. CASE MoreFails
  <2>1. more' \in ListRequest
    BY <1>18, BellKinds DEF MoreFails
  <2> QED  BY <1>t, <1>18, <2>1 DEF MoreFails, BellTypeOK
<1>r. ASSUME NEW sel, ApplyRead(sel) PROVE items' \in [Note -> State]
  BY <1>r DEF ApplyRead, BellTypeOK, State
<1>19. ASSUME NEW sel \in Selector, MarkRead(sel) PROVE BellTypeOK'
  <2>1. items' \in [Note -> State]
    BY <1>r, <1>19 DEF MarkRead
  <2>2. PICK count \in Nat : unread' = IF count > unread THEN 0 ELSE unread - count
    BY <1>19, BellKinds DEF MarkRead, BellTypeOK
  <2>3. unread' \in Nat
    BY <2>2 DEF BellTypeOK
  <2>4. post' \in [step : {"idle", "sent", "written", "counted", "answered"}, sel : Selector,
                   own : BOOLEAN, unread : Nat, at : Nat]
    BY <1>19 DEF MarkRead, IdlePost
  <2> QED  BY <1>t, <1>19, <2>1, <2>3, <2>4 DEF MarkRead, BellTypeOK
<1>20. ASSUME NEW sel \in Selector, ReadElsewhere(sel) PROVE BellTypeOK'
  <2>1. post' \in [step : {"idle", "sent", "written", "counted", "answered"}, sel : Selector,
                   own : BOOLEAN, unread : Nat, at : Nat]
    BY <1>20 DEF ReadElsewhere, IdlePost
  <2> QED  BY <1>t, <1>20, <2>1 DEF ReadElsewhere, BellTypeOK
<1>21. CASE Receive
  <2>1. channel \in Seq(BellEvent) /\ channel # <<>>
    BY <1>21 DEF Receive, BellTypeOK
  <2>2. Head(channel) \in BellEvent /\ channel' \in Seq(BellEvent)
    BY <1>21, <2>1 DEF Receive
  <2>3. PICK e \in BellEvent : e = Head(channel)
    BY <2>2
  <2>4. /\ e.at \in Nat /\ e.type \in {"new", "read", "sync"}
        /\ e.type # "sync" => e.unread \in Nat
        /\ e.type = "new" => e.of \in Note /\ e.state \in State
    BY DEF BellEvent
  <2>5. Told(e.at) /\ UNCHANGED <<rest, online, hasMore, more, turns>>
    BY <1>21, <2>3 DEF Receive
  <2>6. newest' \in Nat /\ outrun' \in BOOLEAN
    BY <2>4, <2>5 DEF Told, BellTypeOK
  <2>7. \/ e.type = "new" /\ NoteDuringSync({e.of}) /\ items' = [items EXCEPT ![e.of] = e.state]
           /\ unread' = e.unread /\ UNCHANGED <<replaceNext, sync>>
        \/ e.type = "read" /\ NoteDuringSync({}) /\ ApplyRead(e.of) /\ unread' = e.unread
           /\ UNCHANGED <<replaceNext, sync>>
        \/ e.type = "sync" /\ replaceNext' = TRUE /\ Sync /\ UNCHANGED <<items, unread>>
    BY <1>21, <2>3 DEF Receive
  <2>8. /\ items' \in [Note -> State] /\ unread' \in Nat /\ replaceNext' \in BOOLEAN
        /\ sync' \in ListRequest /\ again' \in BOOLEAN /\ pushed' \subseteq Note
    BY <1>r, <1>s, <2>4, <2>7 DEF NoteDuringSync, BellTypeOK
  <2> QED  BY <2>2, <2>5, <2>6, <2>8 DEF BellTypeOK
<1>22. CASE DropSocket
  <2>1. channel' \in Seq(BellEvent) /\ online' = FALSE
    BY <1>22 DEF DropSocket
  <2> QED  BY <1>t, <1>22, <2>1 DEF DropSocket, BellTypeOK
<1>23. CASE SocketUp
  BY <1>23, <1>s DEF SocketUp, BellTypeOK
<1>24. CASE UNCHANGED bellVars
  BY <1>24 DEF bellVars, BellTypeOK
<1> QED
  BY <1>1, <1>2, <1>3, <1>4, <1>5, <1>6, <1>7, <1>8, <1>9, <1>10, <1>11, <1>12, <1>13, <1>14,
     <1>15, <1>16, <1>17, <1>18, <1>19, <1>20, <1>21, <1>22, <1>23, <1>24 DEF BellNext

-----------------------------------------------------------------------------
(* What becomes of what was known.  A step carries what was known at       *)
(* version a: whatever it changes, a word of it comes.                     *)
Carries(a) ==
  /\ role' = role /\ Seen \subseteq Seen'
  /\ \A n \in Top(Seen)' : n \in Top(Seen) \/ NewComes(n, a)'
  /\ \A n \in Seen' :
       \/ NewComes(n, a)'
       \/ /\ n \in Seen
          /\ \/ note'[n].state = note[n].state
             \/ note[n].state = "unread" /\ note'[n].state = "read" /\ ReadComes(n, a)'
  /\ \A n \in Seen' : NewComes(n, a) => NewComes(n, a)'
  /\ \A n \in Note : ReadComes(n, a) => ReadComes(n, a)'

(* The answer of the list in progress will not be the last word.           *)
Renewed(a) == again \/ ~online \/ RoleComes(a)

Keeps(a) ==
  /\ Moot(a) => Moot(a)'
  /\ Loaded /\ sync' = sync /\ Renewed(a) => Renewed(a)'
  /\ Carries(a) \/ (Moot(a)' /\ (Loaded => Renewed(a)'))

LEMMA CarriedHolds ==
  ASSUME NEW a \in Int, Carries(a)
  PROVE  /\ \A n \in Note, s \in State : RowHolds(n, s, a) => RowHolds(n, s, a)'
         /\ \A sel \in Selector : ReadHolds(sel, a) => ReadHolds(sel, a)'
<1>1. ASSUME NEW n \in Note, NEW s \in State, RowHolds(n, s, a) PROVE RowHolds(n, s, a)'
  <2> SUFFICES ASSUME n \in Seen'
               PROVE  \/ s = note'[n].state \/ NewComes(n, a)'
                      \/ s = "unread" /\ note'[n].state = "read" /\ ReadComes(n, a)'
    BY DEF RowHolds
  <2>1. CASE NewComes(n, a)'
    BY <2>1
  <2>2. CASE n \in Seen /\ note'[n].state = note[n].state
    BY <1>1, <2>2 DEF RowHolds, Carries
  <2>3. CASE n \in Seen /\ note[n].state = "unread" /\ note'[n].state = "read" /\ ReadComes(n, a)'
    BY <1>1, <2>3 DEF RowHolds, Carries
  <2> QED  BY <2>1, <2>2, <2>3 DEF Carries
<1>2. ASSUME NEW sel \in Selector, ReadHolds(sel, a) PROVE ReadHolds(sel, a)'
  <2> SUFFICES ASSUME NEW n \in Seen', Hit(sel, n)', note'[n].state = "unread"
               PROVE  NewComes(n, a)'
    BY DEF ReadHolds
  <2>1. CASE NewComes(n, a)'
    BY <2>1
  <2>2. CASE n \in Seen /\ note'[n].state = note[n].state
    <3>1. Hit(sel, n)
      BY DEF Hit
    <3>2. NewComes(n, a)
      BY <1>2, <2>2, <3>1 DEF ReadHolds
    <3> QED  BY <3>2 DEF Carries
  <2>3. CASE note'[n].state = "read"
    BY <2>3
  <2> QED  BY <2>1, <2>2, <2>3 DEF Carries
<1> QED  BY <1>1, <1>2

(* Rows below the first page stay there.                                   *)
LEMMA DeepStays ==
  ASSUME BellTypeOK, BellTypeOK', Seen \subseteq Seen', NEW n \in Note, Deep(n)
  PROVE  Deep(n)'
<1>1. {m \in Seen' : m > n} \in SUBSET Note
  BY DEF Seen, Visible
<1>2. {m \in Seen : m > n} \in SUBSET {m \in Seen' : m > n}
  OBVIOUS
<1>3. PICK S \in SUBSET Note : S = {m \in Seen' : m > n}
  BY <1>1
<1>4. PICK R \in SUBSET S : R = {m \in Seen : m > n}
  BY <1>2, <1>3
<1>5. /\ Cardinality(R) \in Nat /\ Cardinality(S) \in Nat /\ Cardinality(R) <= Cardinality(S)
      /\ PAGE \in Nat
  BY <1>3, NotesAreFinite, BellAssumption
<1>6. Cardinality(R) >= PAGE
  BY <1>4 DEF Deep
<1>7. Cardinality(S) >= PAGE
  BY <1>5, <1>6
<1> QED  BY <1>3, <1>7 DEF Deep

(* What was said stays right.                                              *)
LEMMA KnowledgeStays ==
  ASSUME BellInv, BellTypeOK', \A a \in Nat : a <= version => Keeps(a)
  PROVE  /\ \A e \in Events : EventRight(e)'
         /\ \A sel \in Selector, a \in Nat :
              a <= version /\ ReadRight(sel, a) => ReadRight(sel, a)'
         /\ more' = more => MoreHolds'
         /\ sync' = sync => SyncHolds'
<1> USE DEF BellInv
<1>1. \A a \in Nat : a <= version => Keeps(a)
  OBVIOUS
<1>2. ASSUME NEW sel \in Selector, NEW a \in Nat, a <= version, ReadRight(sel, a)
      PROVE  ReadRight(sel, a)'
  <2>1. Keeps(a)
    BY <1>1, <1>2
  <2>2. Carries(a) => (ReadHolds(sel, a) => ReadHolds(sel, a)')
    BY CarriedHolds
  <2> QED  BY <1>2, <2>1, <2>2 DEF Keeps, ReadRight
<1>3. \A e \in Events : e \in BellEvent
  BY DEF Events, BellTypeOK
<1>4. ASSUME NEW e \in Events PROVE EventRight(e)'
  <2>1. e \in BellEvent /\ e.at \in Nat /\ e.at <= version /\ EventRight(e)
    BY <1>3 DEF BellEvent, Stamped, EventsHold
  <2>2. CASE e.type = "new"
    <3>1. e.of \in Note /\ e.state \in State
      BY <1>3, <2>2 DEF BellEvent
    <3>2. Keeps(e.at)
      BY <1>1, <2>1
    <3>3. PICK a \in Nat, n \in Note, s \in State : a = e.at /\ n = e.of /\ s = e.state
      BY <2>1, <3>1
    <3>4. Carries(a) => (RowHolds(n, s, a) => RowHolds(n, s, a)') /\ Seen \subseteq Seen'
      BY CarriedHolds DEF Carries
    <3>5. Moot(a) \/ (n \in Seen /\ RowHolds(n, s, a))
      BY <2>1, <2>2, <3>3 DEF EventRight
    <3>6. Keeps(a)
      BY <3>2, <3>3
    <3>7. Moot(a)' \/ (n \in Seen' /\ RowHolds(n, s, a)')
      BY <3>4, <3>5, <3>6 DEF Keeps
    <3> QED  BY <2>2, <3>3, <3>7 DEF EventRight
  <2>3. CASE e.type = "read"
    <3>1. e.of \in Selector
      BY <1>3, <2>3 DEF BellEvent
    <3>2. ReadRight(e.of, e.at)'
      BY <1>2, <2>1, <2>3, <3>1 DEF EventRight
    <3> QED  BY <2>3, <3>2 DEF EventRight
  <2>4. CASE e.type = "sync"
    BY <2>4 DEF EventRight
  <2> QED  BY <2>1, <2>2, <2>3, <2>4 DEF BellEvent
<1>5. ASSUME more' = more PROVE MoreHolds'
  <2> SUFFICES ASSUME more.step \in {"scoped", "answered"}, ~Moot(more.at)'
               PROVE  /\ more.scope = role'
                      /\ more.step = "answered" =>
                           \A n \in Note : more.page.rows[n] # "no" =>
                             n \in Seen' /\ RowHolds(n, more.page.rows[n], more.at)'
    BY <1>5 DEF MoreHolds
  <2>1. PICK a \in Nat, rows \in [Note -> State] : a = more.at /\ rows = more.page.rows
    BY DEF BellTypeOK, ListRequest
  <2>2. a <= version
    BY <2>1 DEF Stamped
  <2>3. Keeps(a) /\ ~Moot(a)'
    BY <1>1, <1>5, <2>1, <2>2
  <2>4. Carries(a) /\ ~Moot(a)
    BY <2>3 DEF Keeps
  <2>5. /\ more.scope = role
        /\ more.step = "answered" =>
             \A n \in Note : rows[n] # "no" => n \in Seen /\ RowHolds(n, rows[n], a)
    BY <2>1, <2>4 DEF MoreHolds
  <2>6. \A n \in Note : RowHolds(n, rows[n], a) => RowHolds(n, rows[n], a)'
    BY <2>4, CarriedHolds
  <2>7. role' = role /\ Seen \subseteq Seen'
    BY <2>4 DEF Carries
  <2> QED  BY <1>5, <2>1, <2>5, <2>6, <2>7
<1>6. ASSUME sync' = sync PROVE SyncHolds'
  <2> SUFFICES ASSUME Loaded, ~(again \/ ~online \/ RoleComes(sync.at))'
               PROVE  /\ sync.scope = role'
                      /\ sync.step = "answered" =>
                           /\ Fresh \subseteq Seen'
                           /\ \A n \in Top(Seen)' : RowHolds(n, sync.page.rows[n], sync.at)'
    BY <1>6 DEF SyncHolds, Loaded, Fresh
  <2>1. PICK a \in Nat, rows \in [Note -> State] : a = sync.at /\ rows = sync.page.rows
    BY DEF BellTypeOK, ListRequest
  <2>2. a <= version
    BY <2>1 DEF Stamped
  <2>3. Keeps(a) /\ ~Renewed(a)'
    BY <1>1, <1>6, <2>1, <2>2 DEF Renewed
  <2>4. Carries(a) /\ ~Renewed(a)
    BY <1>6, <2>3 DEF Keeps
  <2>5. /\ sync.scope = role
        /\ sync.step = "answered" =>
             /\ Fresh \subseteq Seen
             /\ \A n \in Top(Seen) : RowHolds(n, rows[n], a)
    BY <2>1, <2>4 DEF SyncHolds, Renewed
  <2>6. \A n \in Note : RowHolds(n, rows[n], a) => RowHolds(n, rows[n], a)'
    BY <2>4, CarriedHolds
  <2>7. role' = role /\ Seen \subseteq Seen' /\ \A n \in Top(Seen)' : n \in Top(Seen) \/ NewComes(n, a)'
    BY <2>4 DEF Carries
  <2>8. \A n \in Top(Seen)' : n \in Note
    BY DEF Top, Seen, Visible
  <2>9. \A n \in Note : NewComes(n, a)' => RowHolds(n, rows[n], a)'
    BY DEF RowHolds
  <2> QED  BY <1>6, <2>1, <2>5, <2>6, <2>7, <2>8, <2>9
<1> QED  BY <1>2, <1>4, <1>5, <1>6

-----------------------------------------------------------------------------
(* The server, and the socket it speaks through.                           *)
ServerStep ==
  /\ UNCHANGED tabVars
  /\ version <= version' /\ version' <= version + 1 /\ (online' => online)
  /\ version' = version => UNCHANGED <<note, role>> /\ (Due => Due')
  /\ version' # version => Due'
  /\ post'.own = post.own /\ post'.at <= version' /\ (post'.own => post'.step # "idle")
  /\ post.step = "sent" =>
       post' = post \/ \A n \in Note : Hit(post.sel, n) => note'[n].state # "unread"
  /\ \A a \in Int : a <= version =>
       \/ RoleComes(a)'
       \/ ~online' /\ a < version'
       \/ Carries(a) /\ (RoleComes(a) => RoleComes(a)')

(* What it adds to what is under way is right.                             *)
NewIsRight ==
  /\ \A e \in Events' : \/ e \in Events
                        \/ /\ e \in BellEvent /\ e.at <= version' /\ CountRight(e)'
                           /\ \/ EventRight(e)'
                              \/ e.type = "read" /\ e.at <= version /\ ReadRight(e.of, e.at)
  /\ \A p \in pushes' : \/ p \in pushes
                        \/ /\ p.at <= version' /\ PushRight(p)' /\ p.sel.by # "all"
                           /\ p.sel.by = "remark" => ReadRight(p.sel, p.at)'
  /\ PostUnder' => post' = post \/ ReadRight(post.sel, post.at)'
  /\ PostRight'

LEMMA ServerStepKeeps ==
  ASSUME BellInv, BellTypeOK', ServerStep, NewIsRight
  PROVE  BellInv'
<1>1. UNCHANGED <<items, unread, hasMore, again, pushed, replaceNext, sync, more, newest, outrun>>
  BY DEF ServerStep, tabVars
<1>2. version \in Nat /\ version' \in Nat /\ version <= version' /\ newest \in Nat
  BY DEF BellInv, BellTypeOK, ServerStep
<1>3. ASSUME NEW a \in Nat, a <= version PROVE Keeps(a)
  <2>1. Behind(a) => Behind(a)'
    BY <1>1, <1>2, <1>3 DEF Behind, Loaded, ServerStep
  <2>2. ~online' /\ a < version' => Behind(a)'
    BY DEF Behind
  <2>3. a \in Int
    OBVIOUS
  <2>4. \/ RoleComes(a)'
        \/ ~online' /\ a < version'
        \/ Carries(a) /\ (RoleComes(a) => RoleComes(a)')
    BY <1>3, <2>3 DEF ServerStep
  <2> QED  BY <1>1, <2>1, <2>2, <2>4 DEF Keeps, Moot, Renewed, ServerStep
<1>4. /\ \A e \in Events : EventRight(e)'
      /\ \A sel \in Selector, a \in Nat :
           a <= version /\ ReadRight(sel, a) => ReadRight(sel, a)'
      /\ MoreHolds' /\ SyncHolds'
  BY <1>1, <1>3, KnowledgeStays
<1>5. \A e \in Events : e.at <= version /\ CountRight(e) /\ e \in BellEvent
  BY DEF BellInv, Stamped, CountsAreRight, BellTypeOK, Events
<1>6. \A p \in pushes : p.at <= version /\ PushRight(p) /\ p.sel \in Selector /\ p.at \in Nat
                        /\ (p.sel.by = "remark" => ReadRight(p.sel, p.at))
  BY DEF BellInv, Stamped, CountsAreRight, EventsHold, BellTypeOK
<1>7. Stamped'
  <2>1. \A e \in Events : e.at \in Nat
    BY <1>5 DEF BellEvent
  <2>2. \A e \in Events' : e.at <= version'
    BY <1>2, <1>5, <2>1 DEF NewIsRight
  <2>3. \A p \in pushes' : p.at <= version'
    BY <1>2, <1>6 DEF NewIsRight
  <2>4. sync.at \in Nat /\ more.at \in Nat
    BY DEF BellInv, BellTypeOK, ListRequest
  <2> QED  BY <1>1, <1>2, <2>2, <2>3, <2>4 DEF Stamped, BellInv, ServerStep
<1>8. RequestsAreSound'
  BY <1>1 DEF RequestsAreSound, BellInv, ServerStep, NewIsRight
<1>9. CountsAreRight'
  <2>1. version' = version => role' = role /\ Count(role)' = Count(role) /\ Seen' = Seen
    BY DEF ServerStep, Count, Visible, Seen
  <2>2. ASSUME NEW e \in Events PROVE CountRight(e)'
    <3>1. e.at \in Nat /\ e.at <= version /\ CountRight(e)
      BY <1>5 DEF BellEvent
    <3> QED  BY <1>2, <2>1, <3>1 DEF CountRight
  <2>3. ASSUME NEW p \in pushes PROVE PushRight(p)'
    BY <1>2, <1>6, <2>1 DEF PushRight
  <2>4. ASSUME NEW r \in ListRequest, ListRight(r), r.at <= version PROVE ListRight(r)'
    <3>1. r.at \in Nat
      BY DEF ListRequest
    <3> QED  BY <1>2, <2>1, <2>4, <3>1 DEF ListRight
  <2>5. PICK s \in ListRequest, m \in ListRequest : s = sync /\ m = more
    BY DEF BellInv, BellTypeOK
  <2>6. ListRight(s)' /\ ListRight(m)'
    BY <2>4, <2>5 DEF BellInv, CountsAreRight, Stamped
  <2>7. ListRight(sync)' /\ ListRight(more)'
    BY <1>1, <2>5, <2>6 DEF ListRight
  <2> QED  BY <2>2, <2>3, <2>7 DEF CountsAreRight, NewIsRight
<1>10. VersionIsTold' /\ UnreadIsRight'
  <2>1. CASE version' = version
    <3>1. Count(role)' = Count(role) /\ (Due => Due')
      BY <2>1 DEF ServerStep, Count, Visible
    <3> QED  BY <1>1, <2>1, <3>1 DEF BellInv, VersionIsTold, UnreadIsRight, Loaded, ServerStep
  <2>2. CASE version' # version
    BY <2>2 DEF VersionIsTold, UnreadIsRight, ServerStep
  <2> QED  BY <2>1, <2>2
<1>11. EventsHold'
  <2>1. ASSUME NEW e \in Events' PROVE EventRight(e)'
    <3>1. CASE e.type = "read" /\ e.at <= version /\ ReadRight(e.of, e.at) /\ e \in BellEvent
      <4>1. PICK sel \in Selector, a \in Nat : sel = e.of /\ a = e.at
        BY <3>1 DEF BellEvent
      <4>2. ReadRight(sel, a)'
        BY <1>4, <3>1, <4>1
      <4> QED  BY <3>1, <4>1, <4>2 DEF EventRight
    <3> QED  BY <1>4, <3>1 DEF NewIsRight
  <2>2. \A p \in pushes' : p.sel.by = "remark" => ReadRight(p.sel, p.at)'
    BY <1>4, <1>6 DEF NewIsRight
  <2>3. PostUnder' => ReadRight(post.sel, post.at)'
    <3>1. PICK sel \in Selector, a \in Nat : sel = post.sel /\ a = post.at
      BY DEF BellInv, BellTypeOK
    <3>2. PostUnder => ReadRight(sel, a)'
      BY <1>4, <3>1 DEF BellInv, EventsHold, Stamped
    <3> QED  BY <3>1, <3>2 DEF NewIsRight, PostUnder
  <2> QED  BY <2>1, <2>2, <2>3 DEF EventsHold
<1>12. ItemsHold'
  <2>1. CASE outrun \/ ~online' \/ sync # NoList \/ RoleComes(-1)'
    BY <1>1, <2>1 DEF ItemsHold
  <2>2. CASE ~outrun /\ online' /\ sync = NoList /\ ~RoleComes(-1)'
    <3>1. Carries(-1) /\ ~RoleComes(-1) /\ online
      <4>1. -1 \in Int /\ -1 <= version
        BY <1>2
      <4> QED  BY <2>2, <4>1 DEF ServerStep
    <3>2. /\ \A n \in Top(Seen) :
               \/ RowHolds(n, items[n], -1)
               \/ post.step = "sent" /\ post.own /\ Hit(post.sel, n) /\ items[n] = "read"
          /\ \A n \in Shown : n \in Seen \/ Deep(n)
      BY <2>2, <3>1 DEF BellInv, ItemsHold
    <3>3. items \in [Note -> State] /\ Shown' = Shown /\ Shown \subseteq Note /\ post.sel \in Selector
      BY <1>1 DEF BellInv, BellTypeOK, Shown
    <3>4. \A n \in Shown : n \in Seen' \/ Deep(n)'
      <4>1. \A n \in Note : Deep(n) => Deep(n)'
        BY <3>1, DeepStays DEF BellInv, Carries
      <4> QED  BY <3>1, <3>2, <3>3, <4>1 DEF Carries
    <3>5. ASSUME NEW n \in Top(Seen)'
          PROVE  \/ RowHolds(n, items[n], -1)'
                 \/ (post.step = "sent" /\ post.own /\ Hit(post.sel, n) /\ items[n] = "read")'
      <4>1. n \in Note /\ n \in Seen'
        BY DEF Top, Seen, Visible
      <4>2. PICK s \in State : s = items[n]
        BY <3>3, <4>1
      <4>3. RowHolds(n, s, -1) => RowHolds(n, s, -1)'
        <5>1. -1 \in Int
          OBVIOUS
        <5> QED  BY <3>1, <4>1, <5>1, CarriedHolds
      <4>4. CASE NewComes(n, -1)'
        BY <4>4 DEF RowHolds
      <4>5. CASE RowHolds(n, s, -1)
        BY <1>1, <4>2, <4>3, <4>5
      <4>6. CASE post.step = "sent" /\ post.own /\ Hit(post.sel, n) /\ items[n] = "read"
        <5>1. CASE post' = post
          BY <1>1, <4>6, <5>1 DEF Hit
        <5>2. CASE note'[n].state # "unread"
          <6>1. note'[n].state = "read"
            <7>1. note'[n].state \in State /\ note'[n].state # "no"
              BY <4>1 DEF BellTypeOK, Seen, Visible
            <7> QED  BY <5>2, <7>1 DEF State
          <6> QED  BY <1>1, <4>6, <6>1 DEF RowHolds
        <5> QED  BY <4>1, <4>6, <5>1, <5>2 DEF ServerStep
      <4> QED  BY <3>1, <3>2, <4>2, <4>4, <4>5, <4>6 DEF Carries
    <3> QED  BY <1>1, <3>3, <3>4, <3>5 DEF ItemsHold
  <2> QED  BY <1>1, <2>1, <2>2
<1> QED  BY <1>4, <1>7, <1>8, <1>9, <1>10, <1>11, <1>12 DEF BellInv

(* What is under way stays so, or more is.                                 *)
NoticesGrow ==
  /\ Events \subseteq Events' /\ pushes \subseteq pushes'
  /\ PostUnder => PostUnder' /\ post'.sel = post.sel /\ post'.at = post.at
  /\ (resync => resync') /\ (~online => ~online') /\ version <= version'

LEMMA GrownNotices ==
  ASSUME BellTypeOK, BellTypeOK', NoticesGrow
  PROVE  /\ \A n \in Note, a \in Int : /\ NewComes(n, a) => NewComes(n, a)'
                                       /\ ReadComes(n, a) => ReadComes(n, a)'
         /\ \A a \in Int : RoleComes(a) => RoleComes(a)'
         /\ version' = version => (Due => Due')
<1>1. ASSUME NEW n \in Note, NEW a \in Int, NewComes(n, a) PROVE NewComes(n, a)'
  BY <1>1 DEF NewComes, NoticesGrow
<1>2. ASSUME NEW n \in Note, NEW a \in Int, ReadComes(n, a) PROVE ReadComes(n, a)'
  BY <1>2 DEF ReadComes, NoticesGrow, Hit
<1>3. ASSUME NEW a \in Int, RoleComes(a) PROVE RoleComes(a)'
  BY <1>3 DEF RoleComes, NoticesGrow, BellTypeOK
<1>4. version' = version => (Due => Due')
  BY DEF Due, NoticesGrow
<1> QED  BY <1>1, <1>2, <1>3, <1>4

(* Nothing is under way from after the present version.                    *)
LEMMA NothingLater ==
  ASSUME BellTypeOK, Stamped
  PROVE  /\ \A n \in Note : ~NewComes(n, version) /\ ~ReadComes(n, version)
         /\ ~RoleComes(version)
<1>1. version \in Nat /\ post.at \in Nat
  BY DEF BellTypeOK
<1>2. \A p \in pushes : p.at \in Nat /\ p.at <= version
  BY DEF BellTypeOK, Stamped
<1>3. \A e \in Events : e.at \in Nat /\ e.at <= version
  BY DEF BellTypeOK, Stamped, Events, BellEvent
<1> QED  BY <1>1, <1>2, <1>3 DEF NewComes, ReadComes, RoleComes, Stamped

(* Rows and role as they were: what was under way carries what was known,  *)
(* or the socket is down.                                                  *)
LEMMA SameRowsCarry ==
  ASSUME BellTypeOK, BellTypeOK', Stamped, UNCHANGED <<note, role, version>>,
         ~online' \/ \A n \in Seen, a \in Int : NewComes(n, a) => NewComes(n, a)',
         ~online' \/ \A n \in Note, a \in Int : ReadComes(n, a) => ReadComes(n, a)',
         ~online' \/ \A a \in Int : RoleComes(a) => RoleComes(a)'
  PROVE  \A a \in Int : a <= version =>
           \/ RoleComes(a)'
           \/ ~online' /\ a < version'
           \/ Carries(a) /\ (RoleComes(a) => RoleComes(a)')
<1> SUFFICES ASSUME NEW a \in Int, a <= version, ~(~online' /\ a < version')
             PROVE  Carries(a) /\ (RoleComes(a) => RoleComes(a)')
  OBVIOUS
<1>1. Seen' = Seen /\ role' = role /\ note' = note /\ Seen \subseteq Note /\ version \in Nat
  BY DEF Seen, Visible, BellTypeOK
<1>2. \/ a = version
      \/ online'
  BY <1>1
<1>3. /\ \A n \in Seen : NewComes(n, a) => NewComes(n, a)'
      /\ \A n \in Note : ReadComes(n, a) => ReadComes(n, a)'
      /\ RoleComes(a) => RoleComes(a)'
  <2>1. CASE a = version
    BY <1>1, <2>1, NothingLater
  <2>2. CASE online'
    BY <2>2
  <2> QED  BY <1>2, <2>1, <2>2
<1> QED  BY <1>1, <1>3 DEF Carries

(* What is emitted, if somebody is there.                                  *)
LEMMA EmittedComes ==
  ASSUME BellTypeOK, NEW e \in BellEvent, Emit(e)
  PROVE  /\ online => {channel'[i] : i \in 1..Len(channel')} = {channel[i] : i \in 1..Len(channel)} \cup {e}
         /\ ~online => channel' = channel
<1>1. channel \in Seq(BellEvent)
  BY DEF BellTypeOK
<1>2. CASE online
  <2>1. channel' = Append(channel, e)
    BY <1>2 DEF Emit
  <2>2. Len(channel') = Len(channel) + 1 /\ channel'[Len(channel) + 1] = e
        /\ Len(channel) \in Nat /\ \A i \in 1..Len(channel) : channel'[i] = channel[i]
    BY <1>1, <2>1
  <2>3. \A i \in 1..Len(channel') : i \in 1..Len(channel) \/ i = Len(channel) + 1
    BY <2>2
  <2>4. \A i \in 1..Len(channel) : i \in 1..Len(channel')
    BY <2>2
  <2>5. Len(channel) + 1 \in 1..Len(channel')
    BY <2>2
  <2> QED  BY <1>2, <2>2, <2>3, <2>4, <2>5
<1>3. CASE ~online
  BY <1>3 DEF Emit
<1> QED  BY <1>2, <1>3

-----------------------------------------------------------------------------
(* The steps of the server, one by one.                                    *)
LEMMA ArriveKeeps ==
  ASSUME BellInv, BellTypeOK', NEW n \in Note, Arrive(n)
  PROVE  BellInv'
<1>0. PICK p \in [sel : Selector, at : Nat] : p.sel = [by |-> "id", of |-> n] /\ p.at = version'
                                              /\ pushes' = pushes \cup {p}
  <2>1. [by |-> "id", of |-> n] \in Selector /\ version' \in Nat
    BY DEF Selector, BellTypeOK
  <2> QED  BY <2>1 DEF Arrive
<1>1. /\ note[n].state = "no" /\ note' = [note EXCEPT ![n] = [state |-> "unread", role |-> role]]
      /\ version' = version + 1 /\ pushes' = pushes \cup {p}
      /\ UNCHANGED <<role, pushing, post, resync, online, channel, tabVars>>
  BY <1>0 DEF Arrive
<1>2. /\ BellTypeOK /\ version \in Nat /\ Stamped /\ RequestsAreSound
      /\ note \in [Note -> [state : State, role : BellRole]]
  BY DEF BellInv, BellTypeOK
<1>3. NoticesGrow /\ Events' = Events
  BY <1>1, <1>2 DEF NoticesGrow, Events, PostUnder
<1>4. Seen' = Seen \cup {n} /\ Seen \subseteq Note /\ n \notin Seen
  BY <1>1, <1>2 DEF Seen, Visible
<1>5. \A a \in Int : a <= version => NewComes(n, a)'
  BY <1>0, <1>1, <1>2 DEF NewComes
<1>6. Top(Seen)' \subseteq Top(Seen) \cup {n}
  <2>1. Top(Seen \cup {n}) \subseteq Top(Seen) \cup {n}
    BY <1>4, TopGrows
  <2> QED  BY <1>4, <2>1 DEF Top
<1>7. ASSUME NEW a \in Int, a <= version PROVE Carries(a) /\ (RoleComes(a) => RoleComes(a)')
  <2>1. \A m \in Seen' : m = n \/ (m \in Seen /\ note'[m].state = note[m].state)
    BY <1>1, <1>2, <1>4
  <2>2. Seen' \subseteq Note
    BY <1>4
  <2> QED  BY <1>1, <1>2, <1>3, <1>4, <1>5, <1>6, <1>7, <2>1, <2>2, GrownNotices DEF Carries
<1>8. ServerStep
  <2>1. Due'
    BY <1>0 DEF Due
  <2> QED  BY <1>1, <1>2, <1>7, <2>1 DEF ServerStep, Stamped, BellTypeOK, RequestsAreSound
<1>9. NewIsRight
  <2>1. PushRight(p)' /\ p.sel.by = "id" /\ p.at <= version'
    BY <1>0, <1>1, <1>2, <1>4 DEF PushRight
  <2>2. PostRight' /\ post' = post
    BY <1>1, <1>2 DEF PostRight, Stamped, BellTypeOK
  <2> QED  BY <1>1, <1>3, <2>1, <2>2 DEF NewIsRight
<1> QED  BY <1>8, <1>9, ServerStepKeeps

(* Rows that are read, by a decision or by POST.                           *)
LEMMA ReadingCarries ==
  ASSUME BellInv, BellTypeOK', NEW sel \in Selector, ReadRows(sel), role' = role, NoticesGrow,
         \A n \in Note, a \in Int : Hit(sel, n) /\ a < version' => ReadComes(n, a)'
  PROVE  /\ \A a \in Int : a <= version => Carries(a) /\ (RoleComes(a) => RoleComes(a)')
         /\ version' = version => UNCHANGED <<note, role>>
         /\ version <= version' /\ version' <= version + 1
         /\ \A t \in Nat : ReadHolds(sel, t)'
<1>1. /\ BellTypeOK /\ version \in Nat /\ version' \in Nat /\ version <= version' /\ version' <= version + 1
      /\ \A n \in Note : /\ note'[n].role = note[n].role
                         /\ note'[n].state = IF Hit(sel, n) /\ note[n].state = "unread"
                                             THEN "read" ELSE note[n].state
      /\ version' = version => note' = note
      /\ note \in [Note -> [state : State, role : BellRole]]
  BY RowsRead DEF BellInv, BellTypeOK
<1>2. Seen' = Seen /\ Seen \subseteq Note
  BY <1>1 DEF Seen, Visible
<1>3. ASSUME NEW a \in Int, a <= version PROVE Carries(a) /\ (RoleComes(a) => RoleComes(a)')
  <2>1. ASSUME NEW n \in Seen
        PROVE  \/ note'[n].state = note[n].state
               \/ note[n].state = "unread" /\ note'[n].state = "read" /\ ReadComes(n, a)'
    <3>1. n \in Note
      BY <1>2
    <3>2. CASE version' = version
      BY <1>1, <3>2
    <3>3. CASE version' # version
      BY <1>1, <1>3, <3>1, <3>3
    <3> QED  BY <3>2, <3>3
  <2>2. Top(Seen)' = Top(Seen)
    BY <1>2 DEF Top
  <2> QED  BY <1>1, <1>2, <2>1, <2>2, GrownNotices DEF Carries
<1>4. \A t \in Nat : ReadHolds(sel, t)'
  <2>1. ASSUME NEW n \in Seen', Hit(sel, n)' PROVE note'[n].state # "unread"
    <3>1. Hit(sel, n) /\ n \in Note
      BY <1>2, <2>1 DEF Hit
    <3> QED  BY <1>1, <3>1
  <2> QED  BY <2>1 DEF ReadHolds
<1> QED  BY <1>1, <1>3, <1>4

LEMMA DecidingKeeps ==
  ASSUME BellInv, BellTypeOK', NEW r \in 0..1, Act(r)
  PROVE  BellInv'
<1>0. PICK sel \in Selector : sel = [by |-> "remark", of |-> r]
  BY DEF Selector
<1>p. PICK p \in [sel : Selector, at : Nat] : p.sel = sel /\ p.at = version' /\ pushes' = pushes \cup {p}
  BY <1>0 DEF Act, BellTypeOK
<1>1. /\ sel \in Selector /\ ReadRows(sel) /\ sel.by = "remark" /\ pushes' = pushes \cup {p}
      /\ UNCHANGED <<role, pushing, post, resync, online, channel, tabVars>>
  BY <1>0, <1>p DEF Act
<1>2. BellTypeOK /\ version \in Nat /\ version' \in Nat /\ Stamped /\ RequestsAreSound
  BY DEF BellInv, BellTypeOK
<1>3. version <= version' /\ version' <= version + 1
  BY <1>1, <1>2, RowsRead
<1>4. NoticesGrow /\ Events' = Events
  BY <1>1, <1>3 DEF NoticesGrow, Events, PostUnder
<1>5. ASSUME NEW n \in Note, NEW a \in Int, Hit(sel, n), a < version' PROVE ReadComes(n, a)'
  <2>1. p \in pushes' /\ p.sel.by = "remark" /\ Hit(p.sel, n)' /\ p.at > a
    BY <1>1, <1>p, <1>5 DEF Hit
  <2> QED  BY <2>1 DEF ReadComes
<1>6. /\ \A a \in Int : a <= version => Carries(a) /\ (RoleComes(a) => RoleComes(a)')
      /\ version' = version => UNCHANGED <<note, role>>
      /\ \A t \in Nat : ReadHolds(sel, t)'
  BY <1>1, <1>4, <1>5, ReadingCarries
<1>7. ServerStep
  <2>1. Due'
    BY <1>p DEF Due
  <2> QED  BY <1>1, <1>2, <1>3, <1>6, <2>1 DEF ServerStep, Stamped, BellTypeOK, RequestsAreSound
<1>8. NewIsRight
  <2>1. p.at <= version' /\ PushRight(p)' /\ p.sel.by # "all" /\ ReadRight(p.sel, p.at)'
    <3>1. p.at <= version' /\ PushRight(p)'
      BY <1>1, <1>2, <1>p DEF PushRight
    <3>2. PICK t \in Nat : t = p.at
      BY <1>2, <1>p
    <3>3. ReadHolds(sel, t)'
      BY <1>6
    <3> QED  BY <1>1, <1>p, <3>1, <3>2, <3>3 DEF ReadRight
  <2>2. PostRight'
    <3>1. CASE version' = version
      BY <1>1, <1>6, <3>1 DEF PostRight, BellInv, CountsAreRight, Count, Visible
    <3>2. CASE version' # version
      BY <1>1, <1>2, <1>3, <3>2 DEF PostRight, Stamped, BellTypeOK
    <3> QED  BY <3>1, <3>2
  <2> QED  BY <1>1, <1>4, <2>1, <2>2 DEF NewIsRight
<1> QED  BY <1>7, <1>8, ServerStepKeeps

LEMMA PostCommitKeeps ==
  ASSUME BellInv, BellTypeOK', PostCommit
  PROVE  BellInv'
<1>1. /\ post.step = "sent" /\ ReadRows(post.sel)
      /\ post' = [post EXCEPT !.step = "written", !.at = version']
      /\ UNCHANGED <<role, pushes, pushing, resync, online, channel, tabVars>>
  BY DEF PostCommit
<1>2. /\ BellTypeOK /\ version \in Nat /\ version' \in Nat /\ Stamped /\ RequestsAreSound
      /\ post \in [step : {"idle", "sent", "written", "counted", "answered"}, sel : Selector,
                   own : BOOLEAN, unread : Nat, at : Nat]
  BY DEF BellInv, BellTypeOK
<1>3. PICK sel \in Selector : sel = post.sel
  BY <1>2
<1>4. ReadRows(sel)
  BY <1>1, <1>3
<1>5. version <= version' /\ version' <= version + 1
  BY <1>2, <1>4, RowsRead
<1>6. post'.step = "written" /\ post'.at = version' /\ post'.sel = sel /\ post'.own = post.own
  BY <1>1, <1>2, <1>3
<1>7. NoticesGrow /\ Events' = Events
  BY <1>1, <1>5 DEF NoticesGrow, Events, PostUnder
<1>8. ASSUME NEW n \in Note, NEW a \in Int, Hit(sel, n), a < version' PROVE ReadComes(n, a)'
  BY <1>2, <1>6, <1>8 DEF ReadComes, PostUnder, Hit
<1>9. /\ \A a \in Int : a <= version => Carries(a) /\ (RoleComes(a) => RoleComes(a)')
      /\ version' = version => UNCHANGED <<note, role>>
      /\ \A t \in Nat : ReadHolds(sel, t)'
  BY <1>1, <1>4, <1>7, <1>8, ReadingCarries
<1>10. \A n \in Note : Hit(post.sel, n) => note'[n].state # "unread"
  <2>1. \A n \in Note : note'[n].state = IF Hit(sel, n) /\ note[n].state = "unread"
                                         THEN "read" ELSE note[n].state
    BY <1>2, <1>4, RowsRead
  <2> QED  BY <1>3, <2>1
<1>11. ServerStep
  <2>1. Due'
    BY <1>6 DEF Due, PostUnder
  <2> QED  BY <1>1, <1>2, <1>5, <1>6, <1>9, <1>10, <2>1 DEF ServerStep, BellTypeOK
<1>12. NewIsRight
  <2>1. ReadRight(post.sel, post.at)'
    <3>1. PICK t \in Nat : t = version'
      BY <1>2
    <3>2. ReadHolds(sel, t)'
      BY <1>9
    <3> QED  BY <1>6, <3>1, <3>2 DEF ReadRight
  <2> QED  BY <1>1, <1>6, <1>7, <2>1 DEF NewIsRight, PostRight
<1> QED  BY <1>11, <1>12, ServerStepKeeps

LEMMA ChangeRoleKeeps ==
  ASSUME BellInv, BellTypeOK', ChangeRole
  PROVE  BellInv'
<1>1. /\ version' = version + 1 /\ resync' = TRUE
      /\ UNCHANGED <<note, pushes, pushing, post, online, channel, tabVars>>
  BY DEF ChangeRole
<1>2. version \in Nat /\ Stamped /\ RequestsAreSound
  BY DEF BellInv, BellTypeOK
<1>3. ServerStep
  <2>1. \A a \in Int : a <= version => RoleComes(a)'
    BY <1>1, <1>2 DEF RoleComes
  <2>2. Due'
    BY <1>1 DEF Due
  <2> QED  BY <1>1, <1>2, <2>1, <2>2 DEF ServerStep, Stamped, RequestsAreSound, BellTypeOK, BellInv
<1>4. NewIsRight
  <2>1. PostRight'
    BY <1>1, <1>2 DEF PostRight, Stamped, BellTypeOK, BellInv
  <2> QED  BY <1>1, <2>1 DEF NewIsRight, Events
<1> QED  BY <1>3, <1>4, ServerStepKeeps

(* Nothing changes but what is under way: a step of the server then.       *)
LEMMA SpeakingKeeps ==
  ASSUME BellInv, BellTypeOK', NewIsRight, UNCHANGED <<rowVars, tabVars>>, online' => online,
         ~online' \/ \A n \in Seen, a \in Int : NewComes(n, a) => NewComes(n, a)',
         ~online' \/ \A n \in Note, a \in Int : ReadComes(n, a) => ReadComes(n, a)',
         ~online' \/ \A a \in Int : RoleComes(a) => RoleComes(a)',
         Due => Due',
         post'.own = post.own, post'.at <= version, post'.own => post'.step # "idle",
         post.step = "sent" => post' = post
  PROVE  BellInv'
<1>1. UNCHANGED <<note, role, version>> /\ version \in Nat /\ BellTypeOK /\ Stamped
  BY DEF rowVars, BellInv, BellTypeOK
<1>2. \A a \in Int : a <= version =>
        \/ RoleComes(a)'
        \/ ~online' /\ a < version'
        \/ Carries(a) /\ (RoleComes(a) => RoleComes(a)')
  BY <1>1, SameRowsCarry
<1>3. ServerStep
  BY <1>1, <1>2 DEF ServerStep
<1> QED  BY <1>3, ServerStepKeeps

LEMMA TakePushKeeps ==
  ASSUME BellInv, BellTypeOK', NEW p \in pushes, TakePush(p)
  PROVE  BellInv'
<1>1. /\ pushing' = pushing \cup Said(p) /\ pushes \ {p} \subseteq pushes' /\ pushes' \subseteq pushes
      /\ UNCHANGED <<rowVars, post, resync, online, channel, tabVars>>
  BY DEF TakePush
<1>2. UNCHANGED <<note, role, version>> /\ version \in Nat /\ BellTypeOK /\ Stamped
      /\ RequestsAreSound /\ PostRight
  BY <1>1 DEF rowVars, BellInv, BellTypeOK, CountsAreRight
<1>3. p \in [sel : Selector, at : Nat] /\ p.at <= version /\ p.sel \in Selector /\ p.at \in Nat
  BY <1>2 DEF BellTypeOK, Stamped
<1>4. Events' = Events \cup Said(p)
  BY <1>1 DEF Events
<1>5. p.sel.by \in {"id", "remark", "all"} /\ (p.sel.by = "id" => p.sel = [by |-> "id", of |-> p.sel.of])
  BY <1>3 DEF Selector
<1>6. Said(p) \subseteq BellEvent /\ Said(p) \subseteq Events'
  BY <1>1, <1>4 DEF BellTypeOK
<1>7. p.sel.by = "remark" => Said(p) = {[type |-> "read", of |-> p.sel, unread |-> Count(role), at |-> p.at]}
  BY DEF Said
<1>8. p.sel.by # "remark" =>
        Said(p) = {[type |-> "new", of |-> n, state |-> note[n].state, unread |-> Count(role),
                    at |-> version] : n \in Seen \cap {p.sel.of}}
  BY DEF Said, Seen
<1>9. ASSUME NEW n \in Seen, NEW a \in Int, NewComes(n, a) PROVE NewComes(n, a)'
  <2>1. CASE \E e \in Events : e.type = "new" /\ e.of = n /\ e.at > a
    BY <1>4, <2>1 DEF NewComes
  <2>2. CASE \E q \in pushes : q # p /\ q.sel = [by |-> "id", of |-> n] /\ q.at > a
    BY <1>1, <2>2 DEF NewComes
  <2>3. CASE p.sel = [by |-> "id", of |-> n] /\ p.at > a
    <3>1. [type |-> "new", of |-> n, state |-> note[n].state, unread |-> Count(role), at |-> version] \in Said(p)
      BY <1>8, <2>3
    <3>2. PICK e \in Said(p) : e.type = "new" /\ e.of = n /\ e.at = version
      BY <3>1
    <3> QED  BY <1>2, <1>3, <1>6, <2>3, <3>2 DEF NewComes
  <2> QED  BY <1>9, <2>1, <2>2, <2>3 DEF NewComes
<1>10. ASSUME NEW n \in Note, NEW a \in Int, ReadComes(n, a) PROVE ReadComes(n, a)'
  <2>1. CASE \E e \in Events : e.type = "read" /\ Hit(e.of, n) /\ e.at > a
    BY <1>4, <2>1 DEF ReadComes, Hit
  <2>2. CASE PostUnder /\ Hit(post.sel, n) /\ post.at > a
    BY <1>1, <2>2 DEF ReadComes, Hit, PostUnder
  <2>3. CASE \E q \in pushes : q # p /\ q.sel.by = "remark" /\ Hit(q.sel, n) /\ q.at > a
    BY <1>1, <2>3 DEF ReadComes, Hit
  <2>4. CASE p.sel.by = "remark" /\ Hit(p.sel, n) /\ p.at > a
    <3>1. [type |-> "read", of |-> p.sel, unread |-> Count(role), at |-> p.at] \in Said(p)
      BY <1>7, <2>4
    <3>2. PICK e \in Said(p) : e.type = "read" /\ e.of = p.sel /\ e.at = p.at
      BY <3>1
    <3> QED  BY <1>6, <2>4, <3>2 DEF ReadComes, Hit
  <2> QED  BY <1>10, <2>1, <2>2, <2>3, <2>4 DEF ReadComes
<1>11. ASSUME NEW a \in Int, RoleComes(a) PROVE RoleComes(a)'
  BY <1>1, <1>2, <1>4, <1>11 DEF RoleComes
<1>12. ASSUME Due PROVE Due'
  <2>1. CASE p.at = version
    <3>1. CASE p.sel.by = "remark"
      <4>1. [type |-> "read", of |-> p.sel, unread |-> Count(role), at |-> p.at] \in Said(p)
        BY <1>7, <3>1
      <4>2. PICK e \in Said(p) : e.at = p.at
        BY <4>1
      <4> QED  BY <1>2, <1>6, <2>1, <4>2 DEF Due
    <3>2. CASE p.sel.by = "id"
      <4>1. p.sel.of \in Seen
        BY <2>1, <3>2 DEF BellInv, CountsAreRight, PushRight
      <4>2. PICK n \in Seen : n = p.sel.of
        BY <4>1
      <4>3. [type |-> "new", of |-> n, state |-> note[n].state, unread |-> Count(role), at |-> version] \in Said(p)
        BY <1>8, <3>2, <4>2
      <4>4. PICK e \in Said(p) : e.at = version
        BY <4>3
      <4> QED  BY <1>2, <1>6, <4>4 DEF Due
    <3>3. CASE p.sel.by = "all"
      <4>1. FALSE
        BY <3>3 DEF BellInv, RequestsAreSound
      <4> QED  BY <4>1
    <3> QED  BY <1>5, <3>1, <3>2, <3>3
  <2>2. CASE p.at # version
    BY <1>1, <1>2, <1>4, <1>12, <2>2 DEF Due, PostUnder
  <2> QED  BY <2>1, <2>2
<1>13. Count(role)' = Count(role) /\ Seen' = Seen
  BY <1>2 DEF Count, Visible, Seen
<1>14. ASSUME NEW e \in Said(p)
       PROVE  /\ e.at <= version /\ CountRight(e)'
              /\ EventRight(e)' \/ (e.type = "read" /\ ReadRight(e.of, e.at))
  <2>1. CASE p.sel.by = "remark"
    <3>1. e.type = "read" /\ e.of = p.sel /\ e.at = p.at /\ e.unread = Count(role)
      BY <1>7, <2>1
    <3>2. ReadRight(p.sel, p.at)
      BY <2>1 DEF BellInv, EventsHold
    <3> QED  BY <1>3, <1>13, <3>1, <3>2 DEF CountRight
  <2>2. CASE p.sel.by # "remark"
    <3>1. e.type = "new" /\ e.of \in Seen /\ e.state = note[e.of].state /\ e.at = version
          /\ e.unread = Count(role)
      BY <1>8, <2>2
    <3>2. EventRight(e)'
      BY <1>2, <1>13, <3>1 DEF EventRight, RowHolds
    <3> QED  BY <1>2, <1>13, <3>1, <3>2 DEF CountRight
  <2> QED  BY <2>1, <2>2
<1>15. NewIsRight
  <2>1. PostRight'
    BY <1>1, <1>2, <1>13 DEF PostRight
  <2> QED  BY <1>1, <1>2, <1>4, <1>6, <1>14, <2>1 DEF NewIsRight
<1>16. post' = post /\ post'.own = post.own /\ post'.at <= version /\ (post'.own => post'.step # "idle")
  BY <1>1, <1>2 DEF Stamped, RequestsAreSound
<1> QED  BY <1>1, <1>9, <1>10, <1>11, <1>12, <1>15, <1>16, SpeakingKeeps

LEMMA EmitPushKeeps ==
  ASSUME BellInv, BellTypeOK', NEW e \in pushing, EmitPush(e)
  PROVE  BellInv'
<1>1. /\ pushing' = pushing \ {e} /\ Emit(e)
      /\ UNCHANGED <<rowVars, pushes, post, resync, online, tabVars>>
  BY DEF EmitPush
<1>2. /\ BellTypeOK /\ e \in BellEvent /\ UNCHANGED <<note, role, version>> /\ Stamped
      /\ RequestsAreSound /\ PostRight
  BY <1>1 DEF BellInv, BellTypeOK, rowVars, CountsAreRight
<1>3. Events' \subseteq Events /\ (online => Events' = Events)
  <2>1. /\ online => {channel'[i] : i \in 1..Len(channel')} = {channel[i] : i \in 1..Len(channel)} \cup {e}
        /\ ~online => channel' = channel
    BY <1>1, <1>2, EmittedComes
  <2> QED  BY <1>1, <2>1 DEF Events
<1>4. ~online' \/ NoticesGrow
  BY <1>1, <1>2, <1>3 DEF NoticesGrow, PostUnder, BellTypeOK
<1>5. Due => Due'
  <2>1. CASE ~online
    BY <1>1, <2>1 DEF Due
  <2>2. CASE online
    BY <1>1, <1>2, <1>4, <2>2, GrownNotices
  <2> QED  BY <2>1, <2>2
<1>6. NewIsRight
  <2>1. PostRight'
    BY <1>1, <1>2 DEF PostRight, Count, Visible
  <2> QED  BY <1>1, <1>3, <2>1 DEF NewIsRight
<1>7. /\ ~online' \/ \A n \in Seen, a \in Int : NewComes(n, a) => NewComes(n, a)'
      /\ ~online' \/ \A n \in Note, a \in Int : ReadComes(n, a) => ReadComes(n, a)'
      /\ ~online' \/ \A a \in Int : RoleComes(a) => RoleComes(a)'
  <2>1. Seen \subseteq Note
    BY DEF Seen, Visible
  <2> QED  BY <1>2, <1>4, <2>1, GrownNotices
<1>8. post' = post /\ post'.own = post.own /\ post'.at <= version /\ (post'.own => post'.step # "idle")
  BY <1>1, <1>2 DEF Stamped, RequestsAreSound
<1> QED  BY <1>1, <1>5, <1>6, <1>7, <1>8, SpeakingKeeps

LEMMA EmitSyncKeeps ==
  ASSUME BellInv, BellTypeOK', EmitSync
  PROVE  BellInv'
<1>0. PICK e \in BellEvent : e.type = "sync" /\ e.at = version /\ Emit(e)
  <2>1. [type |-> "sync", at |-> version] \in BellEvent
    BY DEF BellEvent, BellInv, BellTypeOK
  <2> QED  BY <2>1 DEF EmitSync
<1>1. /\ resync /\ resync' = FALSE
      /\ UNCHANGED <<rowVars, pushes, pushing, post, online, tabVars>>
  BY DEF EmitSync
<1>2. /\ BellTypeOK /\ UNCHANGED <<note, role, version>> /\ Stamped /\ version \in Nat
      /\ RequestsAreSound /\ PostRight
  BY <1>1 DEF BellInv, BellTypeOK, rowVars, CountsAreRight
<1>3. Events' \subseteq Events \cup {e} /\ (online => Events' = Events \cup {e})
  <2>1. /\ online => {channel'[i] : i \in 1..Len(channel')} = {channel[i] : i \in 1..Len(channel)} \cup {e}
        /\ ~online => channel' = channel
    BY <1>0, <1>2, EmittedComes
  <2> QED  BY <1>1, <2>1 DEF Events
<1>4. online => /\ \A n \in Note, a \in Int : NewComes(n, a) => NewComes(n, a)'
                /\ \A n \in Note, a \in Int : ReadComes(n, a) => ReadComes(n, a)'
                /\ \A a \in Int : RoleComes(a) => RoleComes(a)'
  <2> SUFFICES ASSUME online
               PROVE  /\ \A n \in Note, a \in Int : NewComes(n, a) => NewComes(n, a)'
                      /\ \A n \in Note, a \in Int : ReadComes(n, a) => ReadComes(n, a)'
                      /\ \A a \in Int : RoleComes(a) => RoleComes(a)'
    OBVIOUS
  <2>1. Events' = Events \cup {e}
    BY <1>3
  <2>2. ASSUME NEW n \in Note, NEW a \in Int, NewComes(n, a) PROVE NewComes(n, a)'
    BY <1>1, <2>1, <2>2 DEF NewComes
  <2>3. ASSUME NEW n \in Note, NEW a \in Int, ReadComes(n, a) PROVE ReadComes(n, a)'
    BY <1>1, <2>1, <2>3 DEF ReadComes, Hit, PostUnder
  <2>4. ASSUME NEW a \in Int, RoleComes(a) PROVE RoleComes(a)'
    BY <1>0, <1>2, <2>1, <2>4 DEF RoleComes
  <2> QED  BY <2>2, <2>3, <2>4
<1>5. Due'
  <2>1. CASE ~online
    BY <1>1, <2>1 DEF Due
  <2>2. CASE online
    BY <1>0, <1>2, <1>3, <2>2 DEF Due
  <2> QED  BY <2>1, <2>2
<1>6. NewIsRight
  <2>1. PostRight'
    BY <1>1, <1>2 DEF PostRight, Count, Visible
  <2>2. e.at <= version' /\ CountRight(e)' /\ EventRight(e)'
    BY <1>0, <1>2 DEF CountRight, EventRight
  <2> QED  BY <1>1, <1>3, <2>1, <2>2 DEF NewIsRight
<1>7. Seen \subseteq Note /\ online' = online
  BY <1>1 DEF Seen, Visible
<1>8. post' = post /\ post'.own = post.own /\ post'.at <= version /\ (post'.own => post'.step # "idle")
  BY <1>1, <1>2 DEF Stamped, RequestsAreSound
<1> QED  BY <1>1, <1>4, <1>5, <1>6, <1>7, <1>8, SpeakingKeeps

LEMMA PostEmitKeeps ==
  ASSUME BellInv, BellTypeOK', PostEmit
  PROVE  BellInv'
<1>0. PICK e \in BellEvent : /\ e.type = "read" /\ e.of = post.sel /\ e.unread = post.unread
                             /\ e.at = post.at /\ Emit(e)
  <2>1. [type |-> "read", of |-> post.sel, unread |-> post.unread, at |-> post.at] \in BellEvent
    BY DEF BellEvent, BellInv, BellTypeOK
  <2> QED  BY <2>1 DEF PostEmit
<1>1. /\ post.step = "counted"
      /\ post' = IF post.own THEN [post EXCEPT !.step = "answered"] ELSE IdlePost
      /\ UNCHANGED <<rowVars, pushes, pushing, resync, online, tabVars>>
  BY DEF PostEmit
<1>2. /\ BellTypeOK /\ UNCHANGED <<note, role, version>> /\ Stamped /\ version \in Nat
      /\ PostRight /\ ReadRight(post.sel, post.at) /\ PostUnder
      /\ post \in [step : {"idle", "sent", "written", "counted", "answered"}, sel : Selector,
                   own : BOOLEAN, unread : Nat, at : Nat]
  BY <1>1 DEF BellInv, BellTypeOK, rowVars, CountsAreRight, EventsHold, PostUnder
<1>3. Events' \subseteq Events \cup {e} /\ (online => Events' = Events \cup {e})
  <2>1. /\ online => {channel'[i] : i \in 1..Len(channel')} = {channel[i] : i \in 1..Len(channel)} \cup {e}
        /\ ~online => channel' = channel
    BY <1>0, <1>2, EmittedComes
  <2> QED  BY <1>1, <2>1 DEF Events
<1>4. /\ ~PostUnder' /\ post'.own = post.own /\ post'.at <= version /\ (post'.own => post'.step # "idle")
      /\ post'.step = "answered" => post'.unread = post.unread /\ post'.at = post.at
      /\ post'.step # "counted"
  <2>1. post.own \in BOOLEAN /\ post.at <= version
    BY <1>2 DEF Stamped
  <2>2. CASE post.own
    <3>1. post'.step = "answered" /\ post'.own = post.own /\ post'.at = post.at /\ post'.unread = post.unread
      BY <1>1, <1>2, <2>2
    <3> QED  BY <2>1, <3>1 DEF PostUnder
  <2>3. CASE ~post.own
    <3>1. post'.step = "idle" /\ post'.own = FALSE /\ post'.at = 0
      BY <1>1, <2>3 DEF IdlePost
    <3>2. post'.own = post.own
      BY <2>1, <2>3, <3>1
    <3> QED  BY <1>2, <3>1, <3>2 DEF PostUnder
  <2> QED  BY <2>1, <2>2, <2>3
<1>5. online => /\ \A n \in Note, a \in Int : NewComes(n, a) => NewComes(n, a)'
                /\ \A n \in Note, a \in Int : ReadComes(n, a) => ReadComes(n, a)'
                /\ \A a \in Int : RoleComes(a) => RoleComes(a)'
                /\ Due => Due'
  <2> SUFFICES ASSUME online
               PROVE  /\ \A n \in Note, a \in Int : NewComes(n, a) => NewComes(n, a)'
                      /\ \A n \in Note, a \in Int : ReadComes(n, a) => ReadComes(n, a)'
                      /\ \A a \in Int : RoleComes(a) => RoleComes(a)'
                      /\ Due => Due'
    OBVIOUS
  <2>1. Events' = Events \cup {e}
    BY <1>3
  <2>2. ASSUME NEW n \in Note, NEW a \in Int, NewComes(n, a) PROVE NewComes(n, a)'
    BY <1>1, <2>1, <2>2 DEF NewComes
  <2>3. ASSUME NEW n \in Note, NEW a \in Int, ReadComes(n, a) PROVE ReadComes(n, a)'
    <3>1. CASE \E q \in pushes : q.sel.by = "remark" /\ Hit(q.sel, n) /\ q.at > a
      BY <1>1, <3>1 DEF ReadComes, Hit
    <3>2. CASE \E q \in Events : q.type = "read" /\ Hit(q.of, n) /\ q.at > a
      BY <2>1, <3>2 DEF ReadComes, Hit
    <3>3. CASE Hit(post.sel, n) /\ post.at > a
      <4>1. e \in Events' /\ e.type = "read" /\ Hit(e.of, n)' /\ e.at > a
        BY <1>0, <2>1, <3>3 DEF Hit
      <4> QED  BY <4>1 DEF ReadComes
    <3> QED  BY <2>3, <3>1, <3>2, <3>3 DEF ReadComes
  <2>4. ASSUME NEW a \in Int, RoleComes(a) PROVE RoleComes(a)'
    BY <1>1, <1>2, <2>1, <2>4 DEF RoleComes
  <2>5. Due => Due'
    BY <1>0, <1>1, <1>2, <2>1 DEF Due
  <2> QED  BY <2>2, <2>3, <2>4, <2>5
<1>6. Due => Due'
  BY <1>1, <1>5 DEF Due
<1>7. NewIsRight
  <2>1. PostRight'
    BY <1>1, <1>2, <1>4 DEF PostRight, Count, Visible
  <2>2. e.at <= version' /\ e.at <= version /\ CountRight(e)' /\ ReadRight(e.of, e.at)
    BY <1>0, <1>1, <1>2 DEF CountRight, PostRight, Count, Visible, Stamped
  <2> QED  BY <1>0, <1>1, <1>3, <1>4, <2>1, <2>2 DEF NewIsRight
<1>8. Seen \subseteq Note /\ online' = online
  BY <1>1 DEF Seen, Visible
<1> QED  BY <1>1, <1>4, <1>5, <1>6, <1>7, <1>8, SpeakingKeeps

LEMMA DropSocketKeeps ==
  ASSUME BellInv, BellTypeOK', DropSocket
  PROVE  BellInv'
<1>1. /\ online' = FALSE /\ channel' = <<>>
      /\ UNCHANGED <<rowVars, pushes, pushing, post, resync, tabVars>>
  BY DEF DropSocket, rest, workVars, tabVars
<1>2. UNCHANGED <<note, role, version>> /\ Stamped /\ RequestsAreSound /\ PostRight
  BY <1>1 DEF BellInv, rowVars, CountsAreRight
<1>3. Events' \subseteq Events
  BY <1>1 DEF Events
<1>4. NewIsRight
  <2>1. PostRight'
    BY <1>1, <1>2 DEF PostRight, Count, Visible
  <2> QED  BY <1>1, <1>3, <2>1 DEF NewIsRight
<1>5. Due' /\ post' = post /\ post'.own = post.own /\ post'.at <= version
      /\ (post'.own => post'.step # "idle") /\ online
  BY <1>1, <1>2 DEF Due, Stamped, RequestsAreSound, DropSocket
<1> QED  BY <1>1, <1>4, <1>5, SpeakingKeeps

-----------------------------------------------------------------------------
(* The tab.                                                                *)

(* What comes from after version a comes from after the beginning.         *)
LEMMA EverComes ==
  ASSUME BellTypeOK, NEW a \in Nat
  PROVE  /\ \A n \in Note : NewComes(n, a) => NewComes(n, -1)
         /\ RoleComes(a) => RoleComes(-1)
         /\ \A n \in Note, s \in State : RowHolds(n, s, a) => RowHolds(n, s, -1)
<1>1. \A p \in pushes : p.at \in Nat
  BY DEF BellTypeOK
<1>2. \A e \in Events : e.at \in Nat
  BY DEF BellTypeOK, Events, BellEvent
<1>3. post.at \in Nat /\ version \in Nat
  BY DEF BellTypeOK
<1>4. ASSUME NEW n \in Note, NewComes(n, a) PROVE NewComes(n, -1)
  BY <1>1, <1>2, <1>4 DEF NewComes
<1>5. RoleComes(a) => RoleComes(-1)
  BY <1>2, <1>3 DEF RoleComes
<1>6. ASSUME NEW n \in Note, ReadComes(n, a) PROVE ReadComes(n, -1)
  BY <1>1, <1>2, <1>3, <1>6 DEF ReadComes
<1>7. \A n \in Note, s \in State : RowHolds(n, s, a) => RowHolds(n, s, -1)
  BY <1>4, <1>6 DEF RowHolds
<1> QED  BY <1>4, <1>5, <1>7

(* A step of the tab, or of the call it makes: what is under way from the  *)
(* server stays as it is.                                                  *)
TabStep ==
  /\ UNCHANGED <<rowVars, pushes, pushing, resync, channel>>
  /\ PostUnder' <=> PostUnder
  /\ PostUnder => post'.sel = post.sel /\ post'.at = post.at

LEMMA WorldStays ==
  ASSUME BellTypeOK, BellTypeOK', TabStep
  PROVE  /\ UNCHANGED <<note, role, version, pushes>> /\ Events' = Events
         /\ Seen' = Seen /\ Top(Seen)' = Top(Seen) /\ Count(role)' = Count(role)
         /\ \A a \in Int : Carries(a) /\ (RoleComes(a)' <=> RoleComes(a))
         /\ \A n \in Note, a \in Int : /\ NewComes(n, a)' <=> NewComes(n, a)
                                       /\ ReadComes(n, a)' <=> ReadComes(n, a)
         /\ \A n \in Note : Deep(n)' <=> Deep(n)
         /\ \A n \in Note, s \in State, a \in Int : RowHolds(n, s, a)' <=> RowHolds(n, s, a)
         /\ online' = online => (Due' <=> Due)
<1>1. UNCHANGED <<note, role, version, pushes, pushing, resync, channel>>
  BY DEF TabStep, rowVars
<1>2. Events' = Events
  BY <1>1 DEF Events
<1>3. Seen' = Seen /\ Top(Seen)' = Top(Seen) /\ Count(role)' = Count(role) /\ Seen \subseteq Note
  BY <1>1 DEF Seen, Visible, Top, Count
<1>4. \A n \in Note, a \in Int : NewComes(n, a)' <=> NewComes(n, a)
  BY <1>1, <1>2 DEF NewComes
<1>5. ASSUME NEW n \in Note, NEW a \in Int PROVE ReadComes(n, a)' <=> ReadComes(n, a)
  <2>1. (PostUnder /\ Hit(post.sel, n) /\ post.at > a)' <=> (PostUnder /\ Hit(post.sel, n) /\ post.at > a)
    BY DEF TabStep, Hit
  <2>2. (\E p \in pushes : p.sel.by = "remark" /\ Hit(p.sel, n) /\ p.at > a)'
          <=> (\E p \in pushes : p.sel.by = "remark" /\ Hit(p.sel, n) /\ p.at > a)
    BY <1>1 DEF Hit
  <2>3. (\E e \in Events : e.type = "read" /\ Hit(e.of, n) /\ e.at > a)'
          <=> (\E e \in Events : e.type = "read" /\ Hit(e.of, n) /\ e.at > a)
    BY <1>2 DEF Hit
  <2> QED  BY <2>1, <2>2, <2>3 DEF ReadComes
<1>6. \A a \in Int : RoleComes(a)' <=> RoleComes(a)
  BY <1>1, <1>2 DEF RoleComes
<1>7. \A a \in Int : Carries(a)
  BY <1>1, <1>3, <1>4, <1>5 DEF Carries
<1>8. \A n \in Note : Deep(n)' <=> Deep(n)
  BY <1>3 DEF Deep
<1>9. \A n \in Note, s \in State, a \in Int : RowHolds(n, s, a)' <=> RowHolds(n, s, a)
  BY <1>1, <1>3, <1>4, <1>5 DEF RowHolds
<1>10. online' = online => (Due' <=> Due)
  BY <1>1, <1>2 DEF Due, TabStep
<1> QED  BY <1>1, <1>2, <1>3, <1>4, <1>5, <1>6, <1>7, <1>8, <1>9, <1>10

(* What remains to be seen of such a step.                                 *)
TabRight ==
  /\ \A a \in Nat : Behind(a) => Behind(a)'
  /\ Loaded /\ sync' = sync /\ (again \/ ~online) => again' \/ ~online'
  /\ newest' <= version /\ post'.at <= version
  /\ sync' = sync \/ (sync'.at <= version /\ ListRight(sync)' /\ SyncHolds')
  /\ more' = more \/ (more'.at <= version /\ ListRight(more)' /\ MoreHolds')
  /\ RequestsAreSound' /\ PostRight' /\ VersionIsTold' /\ UnreadIsRight' /\ ItemsHold'

LEMMA TabStepKeeps ==
  ASSUME BellInv, BellTypeOK', TabStep, TabRight
  PROVE  BellInv'
<1>1. /\ BellTypeOK /\ Stamped /\ RequestsAreSound /\ CountsAreRight
      /\ VersionIsTold /\ UnreadIsRight /\ EventsHold /\ MoreHolds /\ SyncHolds /\ ItemsHold
  BY DEF BellInv
<1>2. /\ UNCHANGED <<note, role, version, pushes>> /\ Events' = Events
      /\ Seen' = Seen /\ Count(role)' = Count(role)
      /\ \A a \in Int : Carries(a) /\ (RoleComes(a)' <=> RoleComes(a))
  BY <1>1, WorldStays
<1>3. ASSUME NEW a \in Nat, a <= version PROVE Keeps(a)
  <2>1. a \in Int
    OBVIOUS
  <2>2. (Behind(a) => Behind(a)') /\ Carries(a) /\ (RoleComes(a)' <=> RoleComes(a))
    BY <1>2, <2>1 DEF TabRight
  <2> QED  BY <2>2 DEF Keeps, Moot, Renewed, TabRight
<1>4. /\ \A e \in Events : EventRight(e)'
      /\ \A sel \in Selector, a \in Nat :
           a <= version /\ ReadRight(sel, a) => ReadRight(sel, a)'
      /\ more' = more => MoreHolds'
      /\ sync' = sync => SyncHolds'
  BY <1>3, KnowledgeStays
<1>5. EventsHold'
  <2>1. \A e \in Events' : EventRight(e)'
    BY <1>2, <1>4
  <2>2. ASSUME NEW p \in pushes', p.sel.by = "remark" PROVE ReadRight(p.sel, p.at)'
    <3>1. p \in pushes /\ p.sel \in Selector /\ p.at \in Nat /\ p.at <= version
      BY <1>1, <1>2 DEF BellTypeOK, Stamped
    <3>2. ReadRight(p.sel, p.at)
      BY <1>1, <2>2, <3>1 DEF EventsHold
    <3> QED  BY <1>4, <3>1, <3>2
  <2>3. PostUnder' => ReadRight(post.sel, post.at)'
    <3>1. PICK sel \in Selector, a \in Nat : sel = post.sel /\ a = post.at
      BY <1>1 DEF BellTypeOK
    <3>2. PostUnder => ReadRight(sel, a)'
      BY <1>1, <1>4, <3>1 DEF EventsHold, Stamped
    <3> QED  BY <3>1, <3>2 DEF TabStep
  <2> QED  BY <2>1, <2>2, <2>3 DEF EventsHold
<1>6. Stamped'
  BY <1>1, <1>2 DEF Stamped, TabRight
<1>7. CountsAreRight'
  <2>1. \A e \in Events' : CountRight(e)'
    BY <1>1, <1>2 DEF CountsAreRight, CountRight
  <2>2. \A p \in pushes' : PushRight(p)'
    BY <1>1, <1>2 DEF CountsAreRight, PushRight
  <2>3. sync' = sync => ListRight(sync)'
    BY <1>1, <1>2 DEF CountsAreRight, ListRight
  <2>4. more' = more => ListRight(more)'
    BY <1>1, <1>2 DEF CountsAreRight, ListRight
  <2> QED  BY <2>1, <2>2, <2>3, <2>4 DEF CountsAreRight, TabRight
<1> QED  BY <1>4, <1>5, <1>6, <1>7 DEF BellInv, TabRight

(* A list that is asked for has said nothing yet.                          *)
LEMMA AskedSaysNothing ==
  /\ NoList.step = "none" /\ NoList.at = 0 /\ NoList.before = MaxNotes + 1
  /\ \A n : /\ Ask(n).step = "asked" /\ Ask(n).at = 0 /\ Ask(n).before = n
            /\ Ask(n) # NoList
BY DEF Ask, NoList

(* sync(), called for whatever reason, is asked for or put off.            *)
LEMMA SyncIsRight ==
  ASSUME BellInv, BellTypeOK', TabStep, Sync, UNCHANGED <<newest, outrun, more>>,
         PostRight', post'.at <= version, post'.own => post'.step # "idle"
  PROVE  TabRight
<1>1. /\ BellTypeOK /\ Stamped /\ RequestsAreSound /\ version \in Nat
      /\ UNCHANGED <<version, pushes>>
  BY WorldStays DEF BellInv, BellTypeOK
<1>2. \/ sync # NoList /\ again' = TRUE /\ sync' = sync
      \/ sync'.step = "asked" /\ sync'.at = 0 /\ sync'.before = MaxNotes + 1 /\ pushed' = {}
  BY AskedSaysNothing DEF Sync
<1>3. sync' # NoList /\ (Loaded' => again') /\ (again' \/ sync'.step = "asked")
  BY <1>2, AskedSaysNothing DEF Loaded
<1>4. \A a \in Nat : Behind(a) => Behind(a)'
  BY <1>1, <1>3 DEF Behind
<1>5. Loaded /\ sync' = sync => again'
  BY <1>3 DEF Loaded
<1>6. RequestsAreSound'
  BY <1>1, <1>2, <1>3, AskedSaysNothing DEF RequestsAreSound
<1>7. sync' = sync \/ (sync'.at <= version /\ ListRight(sync)' /\ SyncHolds')
  BY <1>1, <1>2 DEF ListRight, SyncHolds, Loaded
<1>8. VersionIsTold' /\ UnreadIsRight' /\ ItemsHold'
  BY <1>3 DEF VersionIsTold, UnreadIsRight, ItemsHold
<1> QED  BY <1>1, <1>4, <1>5, <1>6, <1>7, <1>8 DEF TabRight, Stamped

LEMMA AskingKeeps ==
  ASSUME BellInv, BellTypeOK', StartSync \/ PostFails \/ SocketUp
  PROVE  BellInv'
<1> USE DEF rest, workVars
<1>1. BellTypeOK /\ Stamped /\ RequestsAreSound /\ PostRight /\ version \in Nat
  BY DEF BellInv, CountsAreRight, BellTypeOK
<1>2. Sync /\ UNCHANGED <<rowVars, pushes, pushing, resync, channel, newest, outrun, more>>
  BY DEF StartSync, PostFails, SocketUp
<1>3. post' = post \/ (post' = IdlePost /\ post.step \in {"sent", "answered"})
  BY DEF StartSync, PostFails, SocketUp
<1>4. TabStep
  BY <1>2, <1>3 DEF TabStep, PostUnder, IdlePost
<1>5. PostRight' /\ post'.at <= version /\ (post'.own => post'.step # "idle")
  <2>1. CASE post' = post
    BY <1>1, <1>2, <2>1 DEF PostRight, Stamped, RequestsAreSound, Count, Visible, rowVars
  <2>2. CASE post' = IdlePost
    BY <1>1, <2>2 DEF PostRight, IdlePost
  <2> QED  BY <1>3, <2>1, <2>2
<1>6. TabRight
  BY <1>2, <1>4, <1>5, SyncIsRight
<1> QED  BY <1>4, <1>6, TabStepKeeps

(* POST counts, or another tab begins one.                                 *)
LEMMA PostingKeeps ==
  ASSUME BellInv, BellTypeOK', PostCount \/ \E sel \in Selector : ReadElsewhere(sel)
  PROVE  BellInv'
<1>1. /\ BellTypeOK /\ Stamped /\ RequestsAreSound /\ VersionIsTold /\ UnreadIsRight /\ ItemsHold
      /\ version \in Nat /\ post.own \in BOOLEAN
      /\ post \in [step : {"idle", "sent", "written", "counted", "answered"}, sel : Selector,
                   own : BOOLEAN, unread : Nat, at : Nat]
  BY DEF BellInv, BellTypeOK
<1>2. UNCHANGED <<rowVars, pushes, pushing, resync, online, channel, tabVars>>
  BY DEF PostCount, ReadElsewhere
<1>3. \/ /\ post.step = "written" /\ post'.step = "counted" /\ post'.sel = post.sel
         /\ post'.at = post.at /\ post'.own = post.own /\ post'.unread = Count(role)
      \/ post.step = "idle" /\ post'.step = "sent" /\ post'.own = FALSE /\ post'.at = 0
  <2>1. CASE PostCount
    BY <1>1, <2>1 DEF PostCount
  <2>2. CASE \E sel \in Selector : ReadElsewhere(sel)
    BY <2>2 DEF ReadElsewhere, IdlePost
  <2> QED  BY <2>1, <2>2
<1>4. TabStep
  BY <1>2, <1>3 DEF TabStep, PostUnder
<1>5. /\ UNCHANGED <<note, role, version, pushes>> /\ Events' = Events
      /\ Seen' = Seen /\ Top(Seen)' = Top(Seen) /\ Count(role)' = Count(role)
      /\ \A a \in Int : (RoleComes(a)' <=> RoleComes(a))
      /\ \A n \in Note : Deep(n)' <=> Deep(n)
      /\ \A n \in Note, s \in State, a \in Int : RowHolds(n, s, a)' <=> RowHolds(n, s, a)
      /\ Due' <=> Due
  BY <1>1, <1>2, <1>4, WorldStays
<1>6. post'.own = post.own /\ post'.at <= version /\ post.step # "sent" /\ (post'.own => post'.step # "idle")
  <2>1. post.own => post.step # "idle"
    BY <1>1 DEF RequestsAreSound
  <2>2. CASE post.step = "written"
    BY <1>1, <1>3, <2>2 DEF Stamped
  <2>3. CASE post.step = "idle"
    <3>1. ~post.own /\ post'.own = FALSE /\ post'.at = 0 /\ post'.step = "sent"
      BY <1>3, <2>1, <2>3
    <3>2. post.own = FALSE
      BY <1>1, <3>1
    <3>3. post'.own = post.own
      BY <3>1, <3>2, Zenon
    <3>4. post'.at <= version
      BY <1>1, <3>1
    <3> QED  BY <2>3, <3>1, <3>3, <3>4
  <2> QED  BY <1>3, <2>2, <2>3
<1>7. UNCHANGED <<items, unread, again, pushed, sync, more, newest, outrun>>
  BY <1>2 DEF tabVars
<1>8. PostRight'
  BY <1>3, <1>5 DEF PostRight
<1>9. RequestsAreSound'
  BY <1>1, <1>5, <1>6, <1>7 DEF RequestsAreSound
<1>10. VersionIsTold' /\ UnreadIsRight'
  BY <1>1, <1>2, <1>5, <1>6, <1>7 DEF VersionIsTold, UnreadIsRight, Loaded
<1>11. ItemsHold'
  <2>1. RoleComes(-1)' <=> RoleComes(-1)
    BY <1>5
  <2>2. Shown' = Shown /\ Shown \subseteq Note /\ Top(Seen) \subseteq Note /\ items \in [Note -> State]
    BY <1>1, <1>7 DEF Shown, Top, Seen, Visible, BellTypeOK
  <2>3. ASSUME NEW n \in Note, RowHolds(n, items[n], -1) PROVE RowHolds(n, items[n], -1)'
    <3>1. PICK s \in State : s = items[n]
      BY <2>2
    <3>2. RowHolds(n, s, -1)'
      BY <1>5, <2>3, <3>1
    <3> QED  BY <1>7, <3>1, <3>2
  <2> QED  BY <1>1, <1>2, <1>5, <1>6, <1>7, <2>1, <2>2, <2>3 DEF ItemsHold
<1>12. \A a \in Nat : Behind(a) => Behind(a)'
  BY <1>2, <1>5, <1>7 DEF Behind, Loaded
<1>13. TabRight
  BY <1>1, <1>2, <1>6, <1>7, <1>8, <1>9, <1>10, <1>11, <1>12 DEF TabRight, Stamped
<1> QED  BY <1>4, <1>13, TabStepKeeps

(* An answer, computed at version t, tells the tab of it.                  *)
LEMMA AnswerIsTold ==
  ASSUME BellInv, BellTypeOK', TabStep, NEW t \in Nat, t <= version, Told(t),
         UNCHANGED <<sync, again, online>>, t = version => unread' = Count(role)
  PROVE  /\ newest' <= version /\ VersionIsTold' /\ UnreadIsRight'
         /\ \A a \in Nat : Behind(a) => Behind(a)'
         /\ ~outrun' => ~outrun /\ newest <= t
<1>1. /\ BellTypeOK /\ newest <= version /\ VersionIsTold /\ version \in Nat /\ newest \in Nat
      /\ outrun \in BOOLEAN
  BY DEF BellInv, BellTypeOK, Stamped
<1>2. /\ UNCHANGED <<role, version>> /\ Count(role)' = Count(role) /\ (Due' <=> Due)
  BY <1>1, WorldStays
<1>3. /\ newest' \in Nat /\ newest <= newest' /\ newest' <= version
      /\ newest' = version => newest = version \/ t = version
      /\ t <= newest'
  BY <1>1 DEF Told
<1>4. (outrun' <=> outrun \/ t < newest)
  BY <1>1 DEF Told
<1>5. \A a \in Nat : Behind(a) => Behind(a)'
  BY <1>1, <1>2, <1>3, <1>4 DEF Behind, Loaded
<1>6. VersionIsTold'
  BY <1>1, <1>2, <1>3, <1>4 DEF VersionIsTold, Loaded
<1>7. UnreadIsRight'
  <2>1. CASE t = version
    BY <1>2, <2>1 DEF UnreadIsRight
  <2>2. CASE t < version
    <3>1. outrun' \/ newest' < version
      BY <1>1, <1>3, <1>4, <2>2
    <3> QED  BY <1>2, <3>1 DEF UnreadIsRight
  <2> QED  BY <1>1, <2>1, <2>2
<1> QED  BY <1>1, <1>3, <1>4, <1>5, <1>6, <1>7

LEMMA PostAnswerKeeps ==
  ASSUME BellInv, BellTypeOK', PostAnswer
  PROVE  BellInv'
<1>1. /\ BellTypeOK /\ Stamped /\ RequestsAreSound /\ PostRight /\ ItemsHold /\ version \in Nat
      /\ post.at \in Nat /\ post.at <= version
  BY DEF BellInv, BellTypeOK, CountsAreRight, Stamped
<1>2. /\ post.step = "answered" /\ unread' = post.unread /\ Told(post.at) /\ post' = IdlePost
      /\ UNCHANGED <<rowVars, pushes, pushing, resync, online, channel, items, again, pushed, sync, more>>
  BY DEF PostAnswer
<1>3. post'.step = "idle" /\ post'.own = FALSE /\ post'.at = 0 /\ ~post'.own
  BY <1>2 DEF IdlePost
<1>4. TabStep
  BY <1>2, <1>3 DEF TabStep, PostUnder
<1>5. /\ UNCHANGED <<note, role, version, pushes>> /\ Top(Seen)' = Top(Seen) /\ Seen' = Seen
      /\ \A a \in Int : (RoleComes(a)' <=> RoleComes(a))
      /\ \A n \in Note : Deep(n)' <=> Deep(n)
      /\ \A n \in Note, s \in State, a \in Int : RowHolds(n, s, a)' <=> RowHolds(n, s, a)
  BY <1>1, <1>4, WorldStays
<1>6. post.at = version => unread' = Count(role)
  BY <1>1, <1>2 DEF PostRight
<1>7. PICK t \in Nat : t = post.at
  BY <1>1
<1>8. /\ newest' <= version /\ VersionIsTold' /\ UnreadIsRight'
      /\ \A a \in Nat : Behind(a) => Behind(a)'
      /\ ~outrun' => ~outrun
  BY <1>1, <1>2, <1>4, <1>6, <1>7, AnswerIsTold
<1>9. RequestsAreSound' /\ PostRight'
  BY <1>1, <1>2, <1>3, <1>5 DEF RequestsAreSound, PostRight
<1>10. ItemsHold'
  <2>1. RoleComes(-1)' <=> RoleComes(-1)
    BY <1>5
  <2>2. Shown' = Shown /\ Shown \subseteq Note /\ Top(Seen) \subseteq Note /\ items \in [Note -> State]
    BY <1>1, <1>2 DEF Shown, Top, Seen, Visible, BellTypeOK
  <2>3. ASSUME NEW n \in Note, RowHolds(n, items[n], -1) PROVE RowHolds(n, items[n], -1)'
    <3>1. PICK s \in State : s = items[n]
      BY <2>2
    <3>2. RowHolds(n, s, -1)'
      BY <1>5, <2>3, <3>1
    <3> QED  BY <1>2, <3>1, <3>2
  <2> QED  BY <1>1, <1>2, <1>5, <1>8, <2>1, <2>2, <2>3 DEF ItemsHold
<1>11. TabRight
  BY <1>1, <1>2, <1>3, <1>8, <1>9, <1>10 DEF TabRight
<1> QED  BY <1>4, <1>11, TabStepKeeps

LEMMA ApplyMoreKeeps ==
  ASSUME BellInv, BellTypeOK', ApplyMore
  PROVE  BellInv'
<1> USE DEF rest, workVars
<1>1. /\ BellTypeOK /\ Stamped /\ RequestsAreSound /\ PostRight /\ ItemsHold /\ version \in Nat
      /\ more.at \in Nat /\ more.at <= version /\ ListRight(more) /\ MoreHolds
      /\ items \in [Note -> State] /\ more.page.rows \in [Note -> State]
  BY DEF BellInv, BellTypeOK, CountsAreRight, Stamped, ListRequest
<1>2. /\ more.step = "answered" /\ unread' = more.page.unread /\ Told(more.at) /\ more' = NoList
      /\ items' = [n \in Note |-> IF more.page.rows[n] # "no" THEN more.page.rows[n] ELSE items[n]]
      /\ UNCHANGED <<rowVars, pushes, pushing, post, resync, online, channel, again, pushed, sync>>
  BY DEF ApplyMore
<1>3. PICK t \in Nat, rows \in [Note -> State] : t = more.at /\ rows = more.page.rows
  BY <1>1
<1>4. TabStep
  BY <1>2 DEF TabStep, PostUnder
<1>5. /\ UNCHANGED <<note, role, version, pushes>> /\ Top(Seen)' = Top(Seen) /\ Seen' = Seen
      /\ Count(role)' = Count(role)
      /\ \A a \in Int : (RoleComes(a)' <=> RoleComes(a))
      /\ \A n \in Note : Deep(n)' <=> Deep(n)
      /\ \A n \in Note, s \in State, a \in Int : RowHolds(n, s, a)' <=> RowHolds(n, s, a)
  BY <1>1, <1>4, WorldStays
<1>6. t = version => unread' = Count(role)
  BY <1>1, <1>2, <1>3 DEF ListRight
<1>7. /\ newest' <= version /\ VersionIsTold' /\ UnreadIsRight'
      /\ \A a \in Nat : Behind(a) => Behind(a)'
      /\ ~outrun' => ~outrun /\ newest <= t
  BY <1>1, <1>2, <1>3, <1>4, <1>6, AnswerIsTold
<1>8. RequestsAreSound' /\ PostRight'
  BY <1>1, <1>2, <1>5 DEF RequestsAreSound, PostRight
<1>9. ItemsHold'
  <2> SUFFICES ASSUME ~outrun', online', sync' = NoList, ~RoleComes(-1)'
               PROVE  /\ \A n \in Top(Seen)' :
                           \/ RowHolds(n, items[n], -1)'
                           \/ (post.step = "sent" /\ post.own /\ Hit(post.sel, n) /\ items[n] = "read")'
                      /\ \A n \in Shown' : n \in Seen' \/ Deep(n)'
    BY DEF ItemsHold
  <2>1. ~RoleComes(-1) /\ ~RoleComes(t) /\ ~outrun /\ newest <= t /\ online /\ sync = NoList
    BY <1>1, <1>2, <1>5, <1>7, EverComes
  <2>2. ~Behind(t)
    BY <1>1, <2>1, AskedSaysNothing DEF Behind, Loaded, RequestsAreSound, BellTypeOK
  <2>3. \A n \in Note : rows[n] # "no" => n \in Seen /\ RowHolds(n, rows[n], t)
    BY <1>1, <1>2, <1>3, <2>1, <2>2 DEF MoreHolds, Moot
  <2>4. \A n \in Note : rows[n] # "no" => n \in Seen /\ RowHolds(n, rows[n], -1)
    BY <1>1, <2>3, EverComes
  <2>5. \A n \in Note : items'[n] = IF rows[n] # "no" THEN rows[n] ELSE items[n]
    BY <1>2, <1>3
  <2>6. /\ \A n \in Top(Seen) :
             \/ RowHolds(n, items[n], -1)
             \/ post.step = "sent" /\ post.own /\ Hit(post.sel, n) /\ items[n] = "read"
        /\ \A n \in Shown : n \in Seen \/ Deep(n)
    BY <1>1, <2>1 DEF ItemsHold
  <2>7. ASSUME NEW n \in Note, NEW s \in State, items'[n] = s, RowHolds(n, s, -1)
        PROVE  RowHolds(n, items[n], -1)'
    <3>1. RowHolds(n, s, -1)'
      BY <1>5, <2>7
    <3> QED  BY <2>7, <3>1
  <2>8. ASSUME NEW n \in Top(Seen)'
        PROVE  \/ RowHolds(n, items[n], -1)'
               \/ (post.step = "sent" /\ post.own /\ Hit(post.sel, n) /\ items[n] = "read")'
    <3>1. n \in Top(Seen) /\ n \in Note
      BY <1>5 DEF Top, Seen, Visible
    <3>2. CASE rows[n] # "no"
      BY <1>3, <2>4, <2>5, <2>7, <3>1, <3>2
    <3>3. CASE rows[n] = "no" /\ RowHolds(n, items[n], -1)
      BY <1>1, <2>5, <2>7, <3>1, <3>3
    <3>4. CASE /\ rows[n] = "no" /\ post.step = "sent" /\ post.own /\ Hit(post.sel, n)
               /\ items[n] = "read"
      BY <1>2, <2>5, <3>1, <3>4 DEF Hit
    <3> QED  BY <2>6, <3>1, <3>2, <3>3, <3>4
  <2>9. ASSUME NEW n \in Shown' PROVE n \in Seen' \/ Deep(n)'
    <3>1. n \in Note /\ items'[n] # "no"
      BY DEF Shown
    <3>2. n \in Seen \/ n \in Shown
      BY <2>4, <2>5, <3>1 DEF Shown
    <3> QED  BY <1>5, <2>6, <3>1, <3>2
  <2> QED  BY <2>8, <2>9
<1>10. more'.at <= version /\ ListRight(more)' /\ MoreHolds'
  BY <1>1, <1>2, AskedSaysNothing DEF ListRight, MoreHolds
<1>11. TabRight
  BY <1>1, <1>2, <1>7, <1>8, <1>9, <1>10 DEF TabRight, Stamped
<1> QED  BY <1>4, <1>11, TabStepKeeps

(* The last page asked for, or given up.                                   *)
LEMMA MoreKeeps ==
  ASSUME BellInv, BellTypeOK', \/ LoadMore \/ MoreFails
                               \/ \E next : ListStep(more, next) /\ more' = next /\ List
                                            /\ UNCHANGED sync
  PROVE  BellInv'
<1> USE DEF rest, workVars
<1>1. /\ BellTypeOK /\ Stamped /\ RequestsAreSound /\ PostRight /\ VersionIsTold
      /\ UnreadIsRight /\ ItemsHold /\ MoreHolds /\ ListRight(more)
      /\ version \in Nat /\ more.at <= version /\ more \in ListRequest
  BY DEF BellInv, BellTypeOK, CountsAreRight, Stamped
<1>2. UNCHANGED <<rowVars, pushes, pushing, post, resync, online, channel, items, unread, again,
                  pushed, sync, newest, outrun>>
  BY DEF LoadMore, MoreFails, List
<1>3. TabStep
  BY <1>2 DEF TabStep, PostUnder
<1>4. /\ UNCHANGED <<note, role, version, pushes>> /\ Top(Seen)' = Top(Seen) /\ Seen' = Seen
      /\ Count(role)' = Count(role)
      /\ \A a \in Int : (RoleComes(a)' <=> RoleComes(a))
      /\ \A n \in Note : Deep(n)' <=> Deep(n)
      /\ \A n \in Note, s \in State, a \in Int : RowHolds(n, s, a)' <=> RowHolds(n, s, a)
      /\ Due' <=> Due
  BY <1>1, <1>2, <1>3, WorldStays
<1>5. RequestsAreSound' /\ PostRight' /\ VersionIsTold' /\ UnreadIsRight'
  BY <1>1, <1>2, <1>4 DEF RequestsAreSound, PostRight, VersionIsTold, UnreadIsRight, Loaded
<1>6. ItemsHold'
  <2>1. RoleComes(-1)' <=> RoleComes(-1)
    BY <1>4
  <2>2. Shown' = Shown /\ Shown \subseteq Note /\ Top(Seen) \subseteq Note /\ items \in [Note -> State]
    BY <1>1, <1>2 DEF Shown, Top, Seen, Visible, BellTypeOK
  <2>3. ASSUME NEW n \in Note, RowHolds(n, items[n], -1) PROVE RowHolds(n, items[n], -1)'
    <3>1. PICK s \in State : s = items[n]
      BY <2>2
    <3>2. RowHolds(n, s, -1)'
      BY <1>4, <2>3, <3>1
    <3> QED  BY <1>2, <3>1, <3>2
  <2>4. \A n \in Note : Hit(post.sel, n)' <=> Hit(post.sel, n)
    BY <1>2 DEF Hit
  <2> QED  BY <1>1, <1>2, <1>4, <2>1, <2>2, <2>3, <2>4 DEF ItemsHold
<1>7. \A a \in Nat : Behind(a) => Behind(a)'
  BY <1>2, <1>4 DEF Behind, Loaded
<1>8. more'.at <= version /\ ListRight(more)' /\ MoreHolds'
  <2>1. CASE LoadMore \/ MoreFails
    <3>1. more'.at = 0 /\ more'.step \in {"asked", "none"}
      BY <2>1, AskedSaysNothing DEF LoadMore, MoreFails
    <3> QED  BY <1>1, <3>1 DEF ListRight, MoreHolds
  <2>2. CASE more.step = "asked" /\ more' = [more EXCEPT !.step = "scoped", !.scope = role, !.at = version]
    <3>1. more'.step = "scoped" /\ more'.scope = role /\ more'.at = version
      BY <1>1, <2>2 DEF ListRequest
    <3> QED  BY <1>1, <1>4, <3>1 DEF ListRight, MoreHolds
  <2>3. CASE more.step = "scoped" /\ more' = [more EXCEPT !.step = "answered", !.page = Page(more)]
    <3>1. more'.step = "answered" /\ more'.scope = more.scope /\ more'.at = more.at
          /\ more'.page = Page(more)
      BY <1>1, <2>3 DEF ListRequest
    <3>2. ListRight(more)'
      <4>1. Page(more).unread = Count(more.scope)
        BY DEF Page
      <4>2. more.at = version => more.scope = role
        BY <1>1, <2>3 DEF ListRight
      <4> QED  BY <1>4, <3>1, <4>1, <4>2 DEF ListRight
    <3>3. PICK a \in Nat : a = more.at
      BY <1>1 DEF ListRequest
    <3>4. CASE Moot(a)
      <4>1. Moot(a)'
        BY <1>4, <1>7, <3>4 DEF Moot
      <4>2. Moot(more.at)'
        BY <3>1, <3>3, <4>1
      <4> QED  BY <1>1, <3>1, <3>2, <4>2 DEF MoreHolds
    <3>5. CASE ~Moot(a)
      <4>1. more.scope = role
        BY <1>1, <2>3, <3>3, <3>5 DEF MoreHolds
      <4>2. ASSUME NEW n \in Note, more'.page.rows[n] # "no"
            PROVE  n \in Seen /\ more'.page.rows[n] = note[n].state
        <5>1. PICK S \in SUBSET Visible(role) :
                 Page(more).rows = [m \in Note |-> IF m \in Top(S) THEN note[m].state ELSE "no"]
          BY <4>1 DEF Page
        <5>2. Page(more).rows[n] = IF n \in Top(S) THEN note[n].state ELSE "no"
          BY <5>1
        <5>3. n \in Top(S) => n \in Seen
          BY DEF Top, Seen
        <5> QED  BY <3>1, <4>2, <5>2, <5>3
      <4>3. \A n \in Note : more'.page.rows[n] # "no" =>
               n \in Seen' /\ more'.page.rows[n] = note'[n].state
        BY <1>4, <4>2
      <4>4. \A n \in Note : more'.page.rows[n] # "no" =>
               n \in Seen' /\ RowHolds(n, more.page.rows[n], more.at)'
        BY <4>3 DEF RowHolds
      <4> QED  BY <1>1, <1>4, <3>1, <3>2, <4>1, <4>4 DEF MoreHolds
    <3> QED  BY <1>1, <3>1, <3>2, <3>4, <3>5
  <2> QED  BY <2>1, <2>2, <2>3 DEF ListStep
<1>9. TabRight
  BY <1>1, <1>2, <1>5, <1>6, <1>7, <1>8 DEF TabRight, Stamped
<1> QED  BY <1>3, <1>9, TabStepKeeps

(* The list of sync() is computed.                                         *)
LEMMA SyncListKeeps ==
  ASSUME BellInv, BellTypeOK', ListStep(sync, sync'), UNCHANGED more, List
  PROVE  BellInv'
<1> USE DEF rest, workVars
<1>1. /\ BellTypeOK /\ Stamped /\ RequestsAreSound /\ PostRight /\ VersionIsTold
      /\ SyncHolds /\ ListRight(sync)
      /\ version \in Nat /\ sync.at <= version /\ sync \in ListRequest /\ sync.at \in Nat
  BY DEF BellInv, BellTypeOK, CountsAreRight, Stamped, ListRequest
<1>2. UNCHANGED <<rowVars, pushes, pushing, post, resync, online, channel, again, pushed, newest, outrun>>
  BY DEF List
<1>3. TabStep
  BY <1>2 DEF TabStep, PostUnder
<1>4. /\ UNCHANGED <<note, role, version, pushes>> /\ Top(Seen)' = Top(Seen) /\ Seen' = Seen
      /\ Count(role)' = Count(role)
      /\ \A a \in Int : (RoleComes(a)' <=> RoleComes(a))
      /\ Due' <=> Due
  BY <1>1, <1>2, <1>3, WorldStays
<1>5. \/ /\ sync.step = "asked" /\ sync'.step = "scoped" /\ sync'.scope = role
         /\ sync'.at = version /\ sync'.before = sync.before
      \/ /\ sync.step = "scoped" /\ sync'.step = "answered" /\ sync'.scope = sync.scope
         /\ sync'.at = sync.at /\ sync'.before = sync.before /\ sync'.page = Page(sync)
  BY <1>1 DEF ListStep, ListRequest
<1>6. sync # NoList /\ sync' # NoList /\ sync'.step # "none" /\ sync' # sync
  BY <1>5, AskedSaysNothing
<1>7. RequestsAreSound' /\ PostRight'
  BY <1>1, <1>2, <1>4, <1>5, <1>6 DEF RequestsAreSound, PostRight
<1>8. UnreadIsRight' /\ ItemsHold'
  BY <1>6 DEF UnreadIsRight, ItemsHold
<1>9. VersionIsTold'
  BY <1>1, <1>2, <1>4, <1>5, <1>6 DEF VersionIsTold, Loaded
<1>10. \A a \in Nat : Behind(a) => Behind(a)'
  BY <1>1, <1>2, <1>4, <1>5, <1>6 DEF Behind, Loaded
<1>11. sync'.at <= version /\ ListRight(sync)'
  BY <1>1, <1>4, <1>5 DEF ListRight, Page
<1>12. SyncHolds'
  <2>1. CASE sync'.step = "scoped"
    BY <1>4, <1>5, <2>1 DEF SyncHolds
  <2>2. CASE sync'.step = "answered"
    <3> DEFINE S == Visible(sync.scope)
    <3>1. sync'.page = Page(sync) /\ sync'.scope = sync.scope /\ sync'.at = sync.at /\ Loaded
      BY <1>5, <2>2 DEF Loaded
    <3>2. S \in SUBSET Note /\ \A n \in S : note[n].state # "no" /\ n \in Note /\ n < MaxNotes + 1
      <4>1. \A n \in Note : n < MaxNotes + 1
        BY BellAssumption DEF Note
      <4> QED  BY <4>1 DEF Visible
    <3>3. {n \in S : n < sync.before} = S
      BY <1>1, <3>2 DEF RequestsAreSound
    <3>4. /\ Page(sync).rows = [n \in Note |-> IF n \in Top(S) THEN note[n].state ELSE "no"]
          /\ Page(sync).hasMore => Cardinality(S) > PAGE
      BY <3>3 DEF Page
    <3>5. Top(S) \subseteq S
      BY DEF Top
    <3>6. Fresh' = Top(S)
      <4> HIDE DEF S
      <4> QED  BY <3>1, <3>2, <3>4, <3>5 DEF Fresh
    <3>7. sync'.page.hasMore => Cardinality(Fresh') >= PAGE
      <4>1. Cardinality(S) \in Nat /\ PAGE \in Nat
        BY <3>2, NotesAreFinite, BellAssumption
      <4>2. Cardinality(S) >= PAGE => Cardinality(Top(S)) >= PAGE
        BY <3>2, TopIsFull
      <4> HIDE DEF S
      <4> QED  BY <3>1, <3>4, <3>6, <4>1, <4>2
    <3>8. CASE again \/ ~online \/ RoleComes(sync.at)
      <4>1. PICK a \in Nat : a = sync.at
        BY <1>1
      <4>2. (again \/ ~online \/ RoleComes(a))'
        BY <1>2, <1>4, <3>8, <4>1
      <4> QED  BY <3>1, <3>7, <4>1, <4>2 DEF SyncHolds
    <3>9. CASE ~(again \/ ~online \/ RoleComes(sync.at))
      <4>1. sync.scope = role /\ S = Seen
        BY <1>1, <3>1, <3>9 DEF SyncHolds, Seen
      <4>2. Fresh' = Top(Seen)' /\ Fresh' \subseteq Seen'
        BY <1>4, <3>5, <3>6, <4>1
      <4>3. \A n \in Top(Seen) : n \in Note /\ Page(sync).rows[n] = note[n].state
        BY <3>2, <3>4, <3>5, <4>1
      <4>4. \A n \in Top(Seen)' : sync'.page.rows[n] = note'[n].state
        BY <1>4, <3>1, <4>3
      <4> QED  BY <1>4, <3>1, <3>7, <4>1, <4>2, <4>4 DEF SyncHolds, RowHolds
    <3> QED  BY <3>8, <3>9
  <2> QED  BY <1>5, <2>1, <2>2
<1>13. TabRight
  BY <1>1, <1>2, <1>6, <1>7, <1>8, <1>9, <1>10, <1>11, <1>12 DEF TabRight, Stamped
<1> QED  BY <1>3, <1>13, TabStepKeeps

(* A click reads in the tab at once, and POST begins.                      *)
LEMMA MarkReadKeeps ==
  ASSUME BellInv, BellTypeOK', NEW sel \in Selector, MarkRead(sel)
  PROVE  BellInv'
<1>1. /\ BellTypeOK /\ Stamped /\ RequestsAreSound /\ VersionIsTold /\ ItemsHold
      /\ version \in Nat /\ items \in [Note -> State]
  BY DEF BellInv, BellTypeOK
<1>2. /\ post.step = "idle" /\ ApplyRead(sel)
      /\ post' = [IdlePost EXCEPT !.step = "sent", !.sel = sel, !.own = TRUE]
      /\ UNCHANGED <<rowVars, pushes, pushing, resync, online, channel, again, pushed, sync, more,
                     newest, outrun>>
  BY DEF MarkRead
<1>3. post'.step = "sent" /\ post'.sel = sel /\ post'.own = TRUE /\ post'.at = 0
  BY <1>2 DEF IdlePost
<1>4. TabStep
  BY <1>2, <1>3 DEF TabStep, PostUnder
<1>5. /\ UNCHANGED <<note, role, version, pushes>> /\ Top(Seen)' = Top(Seen) /\ Seen' = Seen
      /\ \A a \in Int : (RoleComes(a)' <=> RoleComes(a))
      /\ \A n \in Note : Deep(n)' <=> Deep(n)
      /\ \A n \in Note, s \in State, a \in Int : RowHolds(n, s, a)' <=> RowHolds(n, s, a)
      /\ Due' <=> Due
  BY <1>1, <1>2, <1>4, WorldStays
<1>6. RequestsAreSound' /\ PostRight' /\ VersionIsTold' /\ UnreadIsRight'
  BY <1>1, <1>2, <1>3, <1>5
     DEF RequestsAreSound, PostRight, VersionIsTold, UnreadIsRight, Loaded
<1>7. ItemsHold'
  <2>1. RoleComes(-1)' <=> RoleComes(-1)
    BY <1>5
  <2>2. \A n \in Note : items'[n] = IF items[n] = "unread" /\ Hit(sel, n) THEN "read" ELSE items[n]
    BY <1>2 DEF ApplyRead
  <2>3. Shown' = Shown /\ Shown \subseteq Note /\ Top(Seen) \subseteq Note
    BY <1>1, <2>2 DEF Shown, Top, Seen, Visible, State
  <2>4. ASSUME NEW n \in Note, RowHolds(n, items[n], -1)
        PROVE  RowHolds(n, items[n], -1)'
               \/ (post.step = "sent" /\ post.own /\ Hit(post.sel, n) /\ items[n] = "read")'
    <3>1. CASE items[n] = "unread" /\ Hit(sel, n)
      <4>1. items'[n] = "read" /\ Hit(post.sel, n)'
        BY <1>3, <2>2, <3>1 DEF Hit
      <4> QED  BY <1>3, <4>1
    <3>2. CASE ~(items[n] = "unread" /\ Hit(sel, n))
      <4>1. PICK s \in State : s = items[n]
        BY <1>1
      <4>2. RowHolds(n, s, -1)' /\ items'[n] = s
        BY <1>5, <2>2, <2>4, <3>2, <4>1
      <4> QED  BY <4>2
    <3> QED  BY <3>1, <3>2
  <2> QED  BY <1>1, <1>2, <1>5, <2>1, <2>3, <2>4 DEF ItemsHold
<1>8. \A a \in Nat : Behind(a) => Behind(a)'
  BY <1>2, <1>5 DEF Behind, Loaded
<1>9. TabRight
  BY <1>1, <1>2, <1>3, <1>6, <1>7, <1>8 DEF TabRight, Stamped
<1> QED  BY <1>4, <1>9, TabStepKeeps

(* sync() ends with one that was put off.                                  *)
LEMMA SyncAgainKeeps ==
  ASSUME BellInv, BellTypeOK', again, ApplySync \/ SyncFails
  PROVE  BellInv'
<1> USE DEF rest, workVars
<1>1. /\ BellTypeOK /\ Stamped /\ RequestsAreSound /\ PostRight /\ version \in Nat
      /\ sync.at \in Nat /\ newest \in Nat
  BY DEF BellInv, CountsAreRight, BellTypeOK, ListRequest
<1>2. /\ sync' = Ask(MaxNotes + 1) /\ pushed' = {} /\ again' = FALSE
      /\ UNCHANGED <<rowVars, pushes, pushing, post, resync, online, channel, more>>
  BY DEF ApplySync, SyncFails, AfterSync
<1>3. newest' = newest \/ newest' = sync.at
  BY DEF ApplySync, SyncFails
<1>4. TabStep
  BY <1>2 DEF TabStep, PostUnder
<1>5. UNCHANGED <<note, role, version, pushes>> /\ Count(role)' = Count(role)
  BY <1>1, <1>4, WorldStays
<1>6. sync'.step = "asked" /\ sync'.at = 0 /\ sync'.before = MaxNotes + 1 /\ sync' # NoList
  BY <1>2, AskedSaysNothing
<1>7. RequestsAreSound' /\ PostRight'
  BY <1>1, <1>2, <1>5, <1>6 DEF RequestsAreSound, PostRight
<1>8. VersionIsTold' /\ UnreadIsRight' /\ ItemsHold' /\ SyncHolds'
  BY <1>6 DEF VersionIsTold, UnreadIsRight, ItemsHold, SyncHolds, Loaded
<1>9. \A a \in Nat : Behind(a) => Behind(a)'
  BY <1>5, <1>6 DEF Behind
<1>10. sync' # sync \/ ~Loaded
  BY <1>6 DEF Loaded
<1>11. TabRight
  BY <1>1, <1>2, <1>3, <1>6, <1>7, <1>8, <1>9, <1>10 DEF TabRight, Stamped, ListRight
<1> QED  BY <1>4, <1>11, TabStepKeeps

(* sync() ends for good, without an answer.                                *)
LEMMA SyncFailsKeeps ==
  ASSUME BellInv, BellTypeOK', ~again, SyncFails
  PROVE  BellInv'
<1> USE DEF rest, workVars
<1>1. /\ BellTypeOK /\ Stamped /\ RequestsAreSound /\ PostRight /\ version \in Nat
  BY DEF BellInv, CountsAreRight, BellTypeOK
<1>2. /\ sync # NoList /\ sync' = NoList /\ pushed' = pushed /\ again' = FALSE /\ outrun'
      /\ UNCHANGED <<rowVars, pushes, pushing, post, resync, online, channel, newest, more>>
  BY DEF SyncFails, AfterSync
<1>3. TabStep
  BY <1>2 DEF TabStep, PostUnder
<1>4. UNCHANGED <<note, role, version, pushes>> /\ Count(role)' = Count(role)
  BY <1>1, <1>3, WorldStays
<1>5. RequestsAreSound' /\ PostRight'
  BY <1>1, <1>2, <1>4, AskedSaysNothing DEF RequestsAreSound, PostRight
<1>6. VersionIsTold' /\ UnreadIsRight' /\ ItemsHold' /\ SyncHolds'
  BY <1>2, AskedSaysNothing DEF VersionIsTold, UnreadIsRight, ItemsHold, SyncHolds, Loaded
<1>7. \A a \in Nat : Behind(a) => Behind(a)'
  BY <1>2, <1>4 DEF Behind
<1>8. TabRight
  BY <1>1, <1>2, <1>5, <1>6, <1>7, AskedSaysNothing DEF TabRight, Stamped, ListRight
<1> QED  BY <1>3, <1>8, TabStepKeeps

(* sync() ends for good: the first page is that of the answer.             *)
LEMMA ApplySyncKeeps ==
  ASSUME BellInv, BellTypeOK', ~again, ApplySync
  PROVE  BellInv'
<1> USE DEF rest, workVars
<1>1. /\ BellTypeOK /\ Stamped /\ RequestsAreSound /\ PostRight /\ VersionIsTold /\ SyncHolds
      /\ ListRight(sync) /\ version \in Nat /\ newest \in Nat /\ newest <= version
      /\ sync.at \in Nat /\ sync.at <= version /\ sync.page.rows \in [Note -> State]
  BY DEF BellInv, CountsAreRight, BellTypeOK, Stamped, ListRequest
<1>2. PICK t \in Nat, rows \in [Note -> State] : t = sync.at /\ rows = sync.page.rows
  BY <1>1
<1>3. /\ sync.step = "answered" /\ sync' = NoList /\ pushed = {} /\ pushed' = {} /\ again' = FALSE
      /\ outrun' = FALSE /\ unread' = sync.page.unread
      /\ newest' = IF t > newest THEN t ELSE newest
      /\ UNCHANGED <<rowVars, pushes, pushing, post, resync, online, channel, more>>
  BY <1>1, <1>2 DEF ApplySync, AfterSync, RequestsAreSound
<1>4. TabStep
  BY <1>3 DEF TabStep, PostUnder
<1>5. /\ UNCHANGED <<note, role, version, pushes>> /\ Top(Seen)' = Top(Seen) /\ Seen' = Seen
      /\ Count(role)' = Count(role)
      /\ \A a \in Int : (RoleComes(a)' <=> RoleComes(a))
      /\ \A n \in Note : Deep(n)' <=> Deep(n)
      /\ \A n \in Note, s \in State, a \in Int : RowHolds(n, s, a)' <=> RowHolds(n, s, a)
      /\ Due' <=> Due
  BY <1>1, <1>3, <1>4, WorldStays
<1>6. RequestsAreSound' /\ PostRight'
  BY <1>1, <1>3, <1>5, AskedSaysNothing DEF RequestsAreSound, PostRight
<1>7. newest' \in Nat /\ newest' <= version /\ newest <= newest' /\ t <= newest'
  BY <1>1, <1>2, <1>3
<1>8. t = version \/ Due
  BY <1>1, <1>2, <1>3 DEF VersionIsTold, Loaded
<1>9. VersionIsTold' /\ UnreadIsRight'
  <2>1. CASE Due
    BY <1>3, <1>5, <2>1, AskedSaysNothing DEF VersionIsTold, UnreadIsRight, Loaded
  <2>2. CASE t = version
    <3>1. newest' = version /\ unread' = Count(role)
      BY <1>1, <1>2, <1>3, <1>7, <2>2 DEF ListRight
    <3> QED  BY <1>3, <1>5, <3>1, AskedSaysNothing DEF VersionIsTold, UnreadIsRight, Loaded
  <2> QED  BY <1>8, <2>1, <2>2
<1>10. \A a \in Nat : Behind(a) => Behind(a)'
  <2>1. sync # NoList /\ sync.step # "asked" /\ Loaded
    BY <1>3, AskedSaysNothing DEF Loaded
  <2> QED  BY <1>1, <1>2, <1>3, <1>5, <1>7, <2>1 DEF Behind
<1>11. ItemsHold'
  <2> SUFFICES ASSUME online', ~RoleComes(-1)'
               PROVE  /\ \A n \in Top(Seen)' : RowHolds(n, items[n], -1)'
                      /\ \A n \in Shown' : n \in Seen' \/ Deep(n)'
    BY DEF ItemsHold
  <2>1. ~RoleComes(-1) /\ ~RoleComes(t) /\ online
    BY <1>1, <1>3, <1>5, EverComes
  <2>2. /\ sync.page.hasMore => Cardinality(Fresh) >= PAGE
        /\ Fresh \subseteq Seen
        /\ \A n \in Top(Seen) : RowHolds(n, rows[n], t)
    BY <1>1, <1>2, <1>3, <2>1 DEF SyncHolds, Loaded
  <2>3. PICK older : /\ older \subseteq {n \in Shown : Older(n, Fresh)}
                     /\ older # {} => sync.page.hasMore
                     /\ items' = [n \in Note |-> IF n \in Fresh THEN rows[n]
                                                ELSE IF n \in older THEN items[n] ELSE "no"]
    <3> DEFINE kept == IF replaceNext \/ ~sync.page.hasMore THEN {} ELSE {n \in Shown : Older(n, Fresh)}
    <3>1. items' = [n \in Note |-> IF n \in Fresh THEN sync.page.rows[n]
                                   ELSE IF n \in kept \cup pushed THEN items[n] ELSE "no"]
      BY DEF ApplySync, Fresh
    <3>2. kept \subseteq {n \in Shown : Older(n, Fresh)} /\ (kept # {} => sync.page.hasMore)
      OBVIOUS
    <3> HIDE DEF kept
    <3>3. kept \cup pushed = kept
      BY <1>3
    <3>4. items' = [n \in Note |-> IF n \in Fresh THEN rows[n]
                                   ELSE IF n \in kept THEN items[n] ELSE "no"]
      BY <1>2, <3>1, <3>3, Zenon
    <3> QED  BY <3>2, <3>4
  <2>4. \A n \in Note : items'[n] = IF n \in Fresh THEN rows[n]
                                    ELSE IF n \in older THEN items[n] ELSE "no"
    BY <2>3
  <2>5. ASSUME NEW n \in Top(Seen)' PROVE RowHolds(n, items[n], -1)'
    <3>1. n \in Top(Seen) /\ n \in Note /\ n \in Seen /\ note[n].state # "no"
      BY <1>5 DEF Top, Seen, Visible
    <3>2. RowHolds(n, rows[n], t)
      BY <2>2, <3>1
    <3>3. CASE n \in Fresh
      <4>1. RowHolds(n, rows[n], -1)
        BY <1>1, <3>1, <3>2, EverComes
      <4>2. PICK s \in State : s = rows[n]
        BY <3>1
      <4>3. RowHolds(n, s, -1)' /\ items'[n] = s
        BY <1>5, <2>4, <3>1, <3>3, <4>1, <4>2
      <4> QED  BY <4>3
    <3>4. CASE n \notin Fresh
      <4>1. rows[n] = "no"
        BY <1>2, <3>1, <3>4 DEF Fresh
      <4>2. NewComes(n, t)
        BY <3>1, <3>2, <4>1 DEF RowHolds
      <4>3. NewComes(n, -1)
        BY <1>1, <3>1, <4>2, EverComes
      <4>4. PICK s \in State : s = items'[n]
        BY <3>1 DEF BellTypeOK
      <4>5. RowHolds(n, s, -1)
        BY <4>3 DEF RowHolds
      <4>6. RowHolds(n, s, -1)'
        BY <1>5, <3>1, <4>5
      <4> QED  BY <4>4, <4>6
    <3> QED  BY <3>3, <3>4
  <2>6. ASSUME NEW n \in Shown' PROVE n \in Seen' \/ Deep(n)'
    <3>1. n \in Note /\ items'[n] # "no"
      BY DEF Shown
    <3>2. CASE n \in Fresh
      BY <1>5, <2>2, <3>2
    <3>3. CASE n \in older /\ n \notin Fresh
      <4>1. Cardinality(Fresh) >= PAGE /\ \A m \in Fresh : n < m
        BY <2>2, <2>3, <3>3 DEF Older
      <4>2. PICK S \in SUBSET Note : S = {m \in Seen : m > n}
        BY DEF Seen, Visible
      <4>3. Fresh \in SUBSET S /\ n \in Nat
        <5>1. \A m \in Note : m \in Nat
          BY NotesAreFinite
        <5>2. \A m \in Fresh : m \in Note
          BY DEF Fresh
        <5> QED  BY <2>2, <3>1, <4>1, <4>2, <5>1, <5>2
      <4>4. Cardinality(Fresh) <= Cardinality(S) /\ Cardinality(S) \in Nat /\ Cardinality(Fresh) \in Nat
        BY <4>3, NotesAreFinite
      <4>5. Cardinality(S) >= PAGE
        BY <4>1, <4>4, BellAssumption
      <4>6. Deep(n)
        BY <4>2, <4>5 DEF Deep
      <4> QED  BY <1>5, <3>1, <4>6
    <3> QED  BY <2>4, <3>1, <3>2, <3>3
  <2> QED  BY <2>5, <2>6
<1>12. sync'.at <= version /\ ListRight(sync)' /\ SyncHolds'
  BY <1>1, <1>3, AskedSaysNothing DEF ListRight, SyncHolds, Loaded
<1>13. sync' # sync
  BY <1>3, AskedSaysNothing
<1>14. TabRight
  BY <1>1, <1>3, <1>6, <1>7, <1>9, <1>10, <1>11, <1>12, <1>13 DEF TabRight, Stamped
<1> QED  BY <1>4, <1>14, TabStepKeeps

(* An event is received: what it does not say later still comes.           *)
LEMMA OthersStillCome ==
  ASSUME BellTypeOK, BellTypeOK', NEW e \in Events, Events \subseteq Events' \cup {e},
         UNCHANGED <<pushes, post, resync, version>>
  PROVE  /\ \A n \in Note, a \in Int :
              /\ NewComes(n, a) => NewComes(n, a)' \/ (e.type = "new" /\ e.of = n /\ e.at > a)
              /\ ReadComes(n, a) => ReadComes(n, a)' \/ (e.type = "read" /\ Hit(e.of, n) /\ e.at > a)
         /\ \A a \in Int : RoleComes(a) => RoleComes(a)' \/ (e.type = "sync" /\ e.at > a)
         /\ \A n \in Note, a \in Nat : NewComes(n, a)' => NewComes(n, -1)'
         /\ \A n \in Note, a \in Nat : ReadComes(n, a)' => ReadComes(n, -1)'
<1>1. ASSUME NEW n \in Note, NEW a \in Int, NewComes(n, a)
      PROVE  NewComes(n, a)' \/ (e.type = "new" /\ e.of = n /\ e.at > a)
  BY <1>1 DEF NewComes
<1>2. ASSUME NEW n \in Note, NEW a \in Int, ReadComes(n, a)
      PROVE  ReadComes(n, a)' \/ (e.type = "read" /\ Hit(e.of, n) /\ e.at > a)
  BY <1>2 DEF ReadComes, Hit, PostUnder
<1>3. ASSUME NEW a \in Int, RoleComes(a) PROVE RoleComes(a)' \/ (e.type = "sync" /\ e.at > a)
  BY <1>3 DEF RoleComes
<1>4. /\ \A p \in pushes' : p.at \in Nat
      /\ \A d \in Events' : d.at \in Nat
      /\ post'.at \in Nat
  BY DEF BellTypeOK, Events, BellEvent
<1>5. ASSUME NEW n \in Note, NEW a \in Nat, NewComes(n, a)' PROVE NewComes(n, -1)'
  BY <1>4, <1>5 DEF NewComes
<1>6. ASSUME NEW n \in Note, NEW a \in Nat, ReadComes(n, a)' PROVE ReadComes(n, -1)'
  BY <1>4, <1>6 DEF ReadComes
<1> QED  BY <1>1, <1>2, <1>3, <1>5, <1>6

LEMMA ReceiveKeeps ==
  ASSUME BellInv, BellTypeOK', Receive
  PROVE  BellInv'
<1> USE DEF rest, workVars
<1>1. /\ BellTypeOK /\ Stamped /\ RequestsAreSound /\ CountsAreRight /\ VersionIsTold
      /\ UnreadIsRight /\ EventsHold /\ ItemsHold
      /\ version \in Nat /\ newest \in Nat /\ newest <= version /\ outrun \in BOOLEAN
      /\ items \in [Note -> State] /\ sync \in ListRequest /\ again \in BOOLEAN
  BY DEF BellInv, BellTypeOK, Stamped
<1>2. channel \in Seq(BellEvent) /\ channel # <<>> /\ channel' = Tail(channel)
  BY DEF BellInv, BellTypeOK, Receive
<1>3. PICK e \in BellEvent : e = Head(channel)
  BY <1>2
<1>4. /\ Told(e.at) /\ UNCHANGED <<rowVars, pushes, pushing, post, resync, online, hasMore, more>>
      /\ \/ e.type = "new" /\ NoteDuringSync({e.of}) /\ items' = [items EXCEPT ![e.of] = e.state]
            /\ unread' = e.unread /\ UNCHANGED <<replaceNext, sync>>
         \/ e.type = "read" /\ NoteDuringSync({}) /\ ApplyRead(e.of) /\ unread' = e.unread
            /\ UNCHANGED <<replaceNext, sync>>
         \/ e.type = "sync" /\ replaceNext' = TRUE /\ Sync /\ UNCHANGED <<items, unread>>
  BY <1>3 DEF Receive
<1>5. /\ UNCHANGED <<note, role, version, post, pushes, resync>> /\ Seen' = Seen
      /\ Top(Seen)' = Top(Seen) /\ Count(role)' = Count(role) /\ Seen \subseteq Note
      /\ \A n \in Note : Deep(n)' <=> Deep(n)
  BY <1>4 DEF rowVars, Seen, Visible, Top, Count, Deep
<1>6. e \in Events /\ Events' \subseteq Events /\ Events \subseteq Events' \cup {e}
  <2>1. /\ Len(channel) \in Nat /\ Len(channel) >= 1 /\ Len(channel') = Len(channel) - 1
        /\ channel[1] = e /\ \A i \in 1..Len(channel') : channel'[i] = channel[i + 1]
    BY <1>2, <1>3
  <2>2. \A i \in 1..Len(channel) : i = 1 \/ (i - 1 \in 1..Len(channel') /\ channel[i] = channel'[i - 1])
    BY <2>1
  <2>3. \A i \in 1..Len(channel') : i + 1 \in 1..Len(channel)
    BY <2>1
  <2>4. 1 \in 1..Len(channel)
    BY <2>1
  <2> QED  BY <1>4, <2>1, <2>2, <2>3, <2>4 DEF Events
<1>7. PICK t \in Nat : t = e.at
  BY DEF BellEvent
<1>8. t <= version /\ CountRight(e) /\ EventRight(e)
  BY <1>1, <1>6, <1>7 DEF Stamped, CountsAreRight, EventsHold
<1>9. /\ newest' \in Nat /\ newest <= newest' /\ newest' <= version /\ t <= newest'
      /\ newest' = newest \/ newest' = t
      /\ outrun' <=> (outrun \/ t < newest)
  <2>1. newest' = IF t > newest THEN t ELSE newest
    BY <1>4, <1>7 DEF Told
  <2>2. outrun' <=> (outrun \/ t < newest)
    BY <1>1, <1>4, <1>7 DEF Told
  <2>3. newest' \in Nat /\ newest <= newest' /\ newest' <= version /\ t <= newest'
        /\ (newest' = newest \/ newest' = t)
    BY <1>1, <1>8, <2>1
  <2> QED  BY <2>2, <2>3
<1>10. /\ \A n \in Note, a \in Int :
            /\ NewComes(n, a) => NewComes(n, a)' \/ (e.type = "new" /\ e.of = n /\ e.at > a)
            /\ ReadComes(n, a) => ReadComes(n, a)' \/ (e.type = "read" /\ Hit(e.of, n) /\ e.at > a)
       /\ \A a \in Int : RoleComes(a) => RoleComes(a)' \/ (e.type = "sync" /\ e.at > a)
       /\ \A n \in Note, a \in Nat : NewComes(n, a)' => NewComes(n, -1)'
       /\ \A n \in Note, a \in Nat : ReadComes(n, a)' => ReadComes(n, -1)'
  BY <1>1, <1>5, <1>6, OthersStillCome
<1>11. \/ sync' = sync /\ (sync # NoList => again') /\ (again => again')
          /\ (sync = NoList => again' = again /\ (pushed' = pushed \/ pushed' = {}))
       \/ sync = NoList /\ sync'.step = "asked" /\ sync'.at = 0 /\ sync'.before = MaxNotes + 1
          /\ sync' # NoList /\ pushed' = {} /\ again' = again
  <2>1. CASE \E S : NoteDuringSync(S) /\ sync' = sync
    BY <1>1, <2>1 DEF NoteDuringSync
  <2>2. CASE Sync
    BY <1>1, <2>2, AskedSaysNothing DEF Sync, RequestsAreSound
  <2> QED  BY <1>4, <2>1, <2>2
<1>12. /\ again => again'
       /\ sync # NoList => again' /\ sync' = sync
       /\ sync' # NoList \/ (sync = NoList /\ sync' = sync)
  BY <1>11
<1>13. \A a \in Nat : Behind(a) => Behind(a)'
  BY <1>1, <1>4, <1>5, <1>9, <1>11, AskedSaysNothing DEF Behind, Loaded
<1>14. \A a \in Nat : a < t => Behind(a)'
  BY <1>1, <1>5, <1>8, <1>9 DEF Behind
<1>15. \A a \in Int : a >= t => Carries(a) /\ (RoleComes(a) => RoleComes(a)')
  BY <1>5, <1>7, <1>10 DEF Carries
<1>16. ASSUME NEW a \in Nat, a <= version PROVE Keeps(a)
  <2>1. Loaded => sync # NoList
    BY AskedSaysNothing DEF Loaded
  <2>2. CASE a >= t
    <3>1. Carries(a) /\ (RoleComes(a) => RoleComes(a)') /\ (Behind(a) => Behind(a)')
      BY <1>13, <1>15, <2>2
    <3> QED  BY <1>4, <1>12, <3>1 DEF Keeps, Moot, Renewed
  <2>3. CASE a < t
    <3>1. Behind(a)' /\ (Loaded => again')
      BY <1>12, <1>14, <2>1, <2>3
    <3> QED  BY <3>1 DEF Keeps, Moot, Renewed
  <2> QED  BY <2>2, <2>3
<1>17. /\ \A d \in Events : EventRight(d)'
       /\ \A sel \in Selector, a \in Nat : a <= version /\ ReadRight(sel, a) => ReadRight(sel, a)'
       /\ more' = more => MoreHolds'
       /\ sync' = sync => SyncHolds'
  BY <1>16, KnowledgeStays
<1>18. EventsHold' /\ MoreHolds'
  <2>1. ASSUME NEW p \in pushes', p.sel.by = "remark" PROVE ReadRight(p.sel, p.at)'
    <3>1. p \in pushes /\ p.sel \in Selector /\ p.at \in Nat /\ p.at <= version
      BY <1>1, <1>5 DEF BellTypeOK, Stamped
    <3>2. ReadRight(p.sel, p.at)
      BY <1>1, <2>1, <3>1 DEF EventsHold
    <3> QED  BY <1>17, <3>1, <3>2
  <2>2. PostUnder' => ReadRight(post.sel, post.at)'
    <3>1. PICK sel \in Selector, a \in Nat : sel = post.sel /\ a = post.at
      BY <1>1 DEF BellTypeOK
    <3>2. PostUnder => ReadRight(sel, a)'
      BY <1>1, <1>17, <3>1 DEF EventsHold, Stamped
    <3> QED  BY <1>5, <3>1, <3>2 DEF PostUnder
  <2> QED  BY <1>4, <1>6, <1>17, <2>1, <2>2 DEF EventsHold
<1>19. SyncHolds' /\ Stamped' /\ ListRight(sync)'
  <2>1. CASE sync' = sync
    <3>1. ListRight(sync)'
      BY <1>1, <1>5, <2>1 DEF CountsAreRight, ListRight
    <3> QED  BY <1>1, <1>4, <1>5, <1>6, <1>9, <1>17, <2>1, <3>1 DEF Stamped
  <2>2. CASE sync'.step = "asked" /\ sync'.at = 0
    <3>1. SyncHolds' /\ ListRight(sync)'
      BY <2>2 DEF SyncHolds, ListRight, Loaded
    <3> QED  BY <1>1, <1>4, <1>5, <1>6, <1>9, <2>2, <3>1 DEF Stamped
  <2> QED  BY <1>11, <2>1, <2>2
<1>20. CountsAreRight'
  <2>1. ListRight(more)' /\ PostRight'
    BY <1>1, <1>4, <1>5 DEF CountsAreRight, ListRight, PostRight
  <2> QED  BY <1>1, <1>5, <1>6, <1>19, <2>1 DEF CountsAreRight, CountRight, PushRight
<1>21. RequestsAreSound'
  BY <1>1, <1>5, <1>11, AskedSaysNothing DEF RequestsAreSound
<1>22. VersionIsTold'
  <2>1. Due => Due' \/ t = version
    BY <1>4, <1>5, <1>6, <1>7 DEF Due, PostUnder
  <2>2. newest = version \/ t = version => newest' = version
    BY <1>1, <1>8, <1>9
  <2>3. newest' = version' \/ Due' \/ sync' # NoList \/ outrun'
    BY <1>1, <1>5, <1>9, <1>12, <2>1, <2>2 DEF VersionIsTold
  <2>4. Loaded' => again'
    BY <1>11, AskedSaysNothing DEF Loaded
  <2> QED  BY <2>3, <2>4 DEF VersionIsTold
<1>23. UnreadIsRight'
  <2>1. CASE e.type = "sync"
    <3>1. sync' # NoList
      BY <1>4, <2>1, AskedSaysNothing DEF Sync
    <3> QED  BY <3>1 DEF UnreadIsRight
  <2>2. CASE e.type # "sync"
    <3>1. unread' = e.unread
      BY <1>4, <2>2
    <3>2. t = version => unread' = Count(role)'
      BY <1>5, <1>7, <1>8, <2>2, <3>1 DEF CountRight
    <3>3. t < version => outrun' \/ newest' < version
      BY <1>1, <1>9
    <3> QED  BY <1>1, <1>5, <1>8, <3>2, <3>3 DEF UnreadIsRight
  <2> QED  BY <2>1, <2>2
<1>24. ItemsHold'
  <2> SUFFICES ASSUME ~outrun', online', sync' = NoList, ~RoleComes(-1)'
               PROVE  /\ \A n \in Top(Seen)' :
                           \/ RowHolds(n, items[n], -1)'
                           \/ (post.step = "sent" /\ post.own /\ Hit(post.sel, n) /\ items[n] = "read")'
                      /\ \A n \in Shown' : n \in Seen' \/ Deep(n)'
    BY DEF ItemsHold
  <2>1. e.type \in {"new", "read"} /\ sync = NoList /\ ~again /\ online /\ ~outrun /\ newest <= t
    <3>1. e.type # "sync"
      BY <1>4, AskedSaysNothing DEF Sync
    <3> QED  BY <1>1, <1>4, <1>9, <1>12, <3>1 DEF RequestsAreSound
  <2>2. ~RoleComes(-1) /\ ~RoleComes(t)
    BY <1>1, <1>10, <2>1, EverComes
  <2>3. ~Moot(t)
    BY <1>1, <2>1, <2>2, AskedSaysNothing DEF Moot, Behind, Loaded
  <2>4. /\ \A n \in Top(Seen) :
             \/ RowHolds(n, items[n], -1)
             \/ post.step = "sent" /\ post.own /\ Hit(post.sel, n) /\ items[n] = "read"
        /\ \A n \in Shown : n \in Seen \/ Deep(n)
    BY <1>1, <2>1, <2>2 DEF ItemsHold
  <2>5. Carries(t)
    BY <1>15
  <2>6. \A n \in Top(Seen) : n \in Note /\ n \in Seen
    BY <1>5 DEF Top
  <2>7. CASE e.type = "new"
    <3>1. PICK k \in Note, s \in State : k = e.of /\ s = e.state
      BY <2>7 DEF BellEvent
    <3>2. k \in Seen /\ RowHolds(k, s, t)
      BY <1>7, <1>8, <2>3, <2>7, <3>1 DEF EventRight
    <3>3. items'[k] = s /\ \A n \in Note : n # k => items'[n] = items[n]
      BY <1>1, <1>4, <2>7, <3>1
    <3>4. RowHolds(k, s, t)'
      BY <2>5, <3>2, CarriedHolds
    <3>5. RowHolds(k, s, -1)'
      BY <1>10, <3>4 DEF RowHolds
    <3>6. RowHolds(k, items[k], -1)'
      BY <3>3, <3>5
    <3>7. ASSUME NEW n \in Top(Seen), n # k
          PROVE  \/ RowHolds(n, items[n], -1)'
                 \/ (post.step = "sent" /\ post.own /\ Hit(post.sel, n) /\ items[n] = "read")'
      <4>1. items'[n] = items[n] /\ n \in Note
        BY <2>6, <3>3, <3>7
      <4>2. CASE RowHolds(n, items[n], -1)
        <5>1. (NewComes(n, -1) => NewComes(n, -1)') /\ (ReadComes(n, -1) => ReadComes(n, -1)')
          BY <1>10, <2>7, <3>1, <3>7, <4>1
        <5>2. RowHolds(n, items[n], -1)'
          BY <1>5, <4>1, <4>2, <5>1 DEF RowHolds
        <5> QED  BY <5>2
      <4>3. CASE post.step = "sent" /\ post.own /\ Hit(post.sel, n) /\ items[n] = "read"
        BY <1>5, <4>1, <4>3 DEF Hit
      <4> QED  BY <2>4, <3>7, <4>2, <4>3
    <3>8. ASSUME NEW n \in Shown' PROVE n \in Seen' \/ Deep(n)'
      <4>1. n \in Note /\ items'[n] # "no"
        BY DEF Shown
      <4>2. n = k \/ n \in Shown
        BY <3>3, <4>1 DEF Shown
      <4> QED  BY <1>5, <2>4, <3>2, <4>1, <4>2
    <3> QED  BY <1>5, <3>6, <3>7, <3>8
  <2>8. CASE e.type = "read"
    <3>1. PICK sel \in Selector : sel = e.of
      BY <2>8 DEF BellEvent
    <3>2. ReadHolds(sel, t)
      BY <1>7, <1>8, <2>3, <2>8, <3>1 DEF EventRight, ReadRight
    <3>3. \A n \in Note : items'[n] = IF items[n] = "unread" /\ Hit(sel, n) THEN "read" ELSE items[n]
      BY <1>4, <2>8, <3>1 DEF ApplyRead
    <3>4. \A n \in Seen : Hit(sel, n) /\ note[n].state = "unread" => NewComes(n, -1)'
      <4>1. \A n \in Seen : Hit(sel, n) /\ note[n].state = "unread" => NewComes(n, t)
        BY <3>2 DEF ReadHolds
      <4> QED  BY <1>5, <1>10, <2>5, <4>1 DEF Carries
    <3>5. ASSUME NEW n \in Top(Seen)
          PROVE  \/ RowHolds(n, items[n], -1)'
                 \/ (post.step = "sent" /\ post.own /\ Hit(post.sel, n) /\ items[n] = "read")'
      <4>1. n \in Note /\ n \in Seen /\ (NewComes(n, -1) => NewComes(n, -1)')
        BY <1>10, <2>6, <2>8
      <4>2. CASE NewComes(n, -1)'
        BY <4>2 DEF RowHolds
      <4>3. CASE post.step = "sent" /\ post.own /\ Hit(post.sel, n) /\ items[n] = "read"
        <5>1. items'[n] = "read"
          BY <3>3, <4>1, <4>3
        <5> QED  BY <1>5, <4>3, <5>1 DEF Hit
      <4>4. CASE items[n] = note[n].state /\ ~NewComes(n, -1)'
        <5>1. items'[n] = note'[n].state
          BY <1>5, <3>3, <3>4, <4>1, <4>4
        <5> QED  BY <5>1 DEF RowHolds
      <4>5. CASE items[n] = "unread" /\ note[n].state = "read" /\ ReadComes(n, -1)
        <5>1. CASE Hit(sel, n)
          <6>1. items'[n] = note'[n].state
            BY <1>5, <3>3, <4>1, <4>5, <5>1
          <6> QED  BY <6>1 DEF RowHolds
        <5>2. CASE ~Hit(sel, n)
          <6>1. ReadComes(n, -1)' /\ items'[n] = "unread" /\ note'[n].state = "read"
            BY <1>5, <1>10, <3>1, <3>3, <4>1, <4>5, <5>2
          <6> QED  BY <6>1 DEF RowHolds
        <5> QED  BY <5>1, <5>2
      <4> QED  BY <2>4, <4>1, <4>2, <4>3, <4>4, <4>5 DEF RowHolds
    <3>6. Shown' = Shown
      BY <1>1, <3>3 DEF Shown, State
    <3>7. \A n \in Shown' : n \in Seen' \/ Deep(n)'
      <4>1. Shown \subseteq Note
        BY DEF Shown
      <4> QED  BY <1>5, <2>4, <3>6, <4>1
    <3> QED  BY <1>5, <3>5, <3>7
  <2> QED  BY <2>1, <2>7, <2>8
<1> QED  BY <1>18, <1>19, <1>20, <1>21, <1>22, <1>23, <1>24 DEF BellInv

-----------------------------------------------------------------------------
(* At first a sync is asked for and nothing is known.                      *)
LEMMA BellBegins == BellInit => BellInv
<1> SUFFICES ASSUME BellInit PROVE BellInv
  OBVIOUS
<1>1. /\ role = "pm" /\ pushes = {} /\ pushing = {} /\ post = IdlePost /\ resync = FALSE /\ version = 0
      /\ online = FALSE /\ channel = <<>> /\ items = NoRows /\ unread = 0 /\ hasMore = FALSE
      /\ again = FALSE /\ pushed = {} /\ replaceNext = FALSE
      /\ sync = Ask(MaxNotes + 1) /\ more = NoList /\ newest = 0 /\ outrun = FALSE /\ turns = 0
  BY DEF BellInit
<1>2. /\ sync.step = "asked" /\ sync.at = 0 /\ sync.before = MaxNotes + 1 /\ sync # NoList
      /\ more.step = "none" /\ more.at = 0
      /\ post.step = "idle" /\ post.own = FALSE /\ post.at = 0 /\ ~post.own
  BY <1>1, AskedSaysNothing DEF IdlePost
<1>3. Events = {}
  BY <1>1 DEF Events
<1>4. BellTypeOK
  <2>1. note \in [Note -> [state : State, role : BellRole]]
    <3>1. PICK k \in 0..MaxNotes, s \in {"unread", "read"} :
            note = [n \in Note |-> [state |-> IF n <= k THEN s ELSE "no", role |-> "pm"]]
      BY DEF BellInit
    <3> QED  BY <3>1 DEF State, BellRole
  <2>2. NoRows \in [Note -> State]
    BY DEF NoRows, State
  <2>3. MaxNotes + 1 \in 1..MaxNotes + 1 /\ 0 \in 0..MaxTurns
    BY BellAssumption
  <2>4. post \in [step : {"idle", "sent", "written", "counted", "answered"}, sel : Selector,
                  own : BOOLEAN, unread : Nat, at : Nat]
    BY <1>1 DEF IdlePost, Selector
  <2>5. sync \in ListRequest /\ more \in ListRequest
    BY <1>1, <2>2, <2>3 DEF Ask, NoList, NoAnswer, ListRequest, BellRole
  <2>6. channel \in Seq(BellEvent)
    BY <1>1
  <2> QED  BY <1>1, <2>1, <2>2, <2>3, <2>4, <2>5, <2>6 DEF BellTypeOK, BellRole
<1>5. Stamped /\ RequestsAreSound
  BY <1>1, <1>2, <1>3 DEF Stamped, RequestsAreSound
<1>6. CountsAreRight
  BY <1>1, <1>2, <1>3 DEF CountsAreRight, PostRight, ListRight
<1>7. VersionIsTold /\ UnreadIsRight /\ ItemsHold /\ MoreHolds /\ SyncHolds
  BY <1>2 DEF VersionIsTold, UnreadIsRight, ItemsHold, MoreHolds, SyncHolds, Loaded
<1>8. EventsHold
  BY <1>1, <1>2, <1>3 DEF EventsHold, PostUnder
<1> QED  BY <1>4, <1>5, <1>6, <1>7, <1>8 DEF BellInv

LEMMA BellStill ==
  ASSUME BellInv, UNCHANGED bellVars
  PROVE  BellInv'
<1> USE DEF bellVars, rowVars, workVars, tabVars
<1>1. BellTypeOK' /\ UNCHANGED <<note, role, version>> /\ Stamped /\ RequestsAreSound /\ PostRight
  BY BellTypeStays DEF BellInv, CountsAreRight
<1>2. Events' = Events
  BY DEF Events
<1>3. NewIsRight
  <2>1. PostRight'
    BY <1>1 DEF PostRight, Count, Visible
  <2> QED  BY <1>2, <2>1 DEF NewIsRight
<1>4. NoticesGrow /\ BellTypeOK
  BY <1>1, <1>2 DEF NoticesGrow, PostUnder, BellInv, BellTypeOK
<1>5. /\ \A n \in Seen, a \in Int : NewComes(n, a) => NewComes(n, a)'
      /\ \A n \in Note, a \in Int : ReadComes(n, a) => ReadComes(n, a)'
      /\ \A a \in Int : RoleComes(a) => RoleComes(a)'
      /\ Due => Due'
  <2>1. Seen \subseteq Note
    BY DEF Seen, Visible
  <2> QED  BY <1>1, <1>4, <2>1, GrownNotices
<1>6. post' = post /\ post'.own = post.own /\ post'.at <= version /\ (post'.own => post'.step # "idle")
  BY <1>1 DEF Stamped, RequestsAreSound
<1> QED  BY <1>1, <1>3, <1>5, <1>6, SpeakingKeeps

LEMMA BellStep ==
  ASSUME BellInv, [BellNext]_bellVars
  PROVE  BellInv'
<1>1. BellTypeOK'
  BY BellTypeStays DEF BellInv
<1>2. CASE List
  <2>1. CASE ListStep(sync, sync') /\ UNCHANGED more
    BY <1>1, <1>2, <2>1, SyncListKeeps
  <2>2. CASE ListStep(more, more') /\ UNCHANGED sync
    BY <1>1, <1>2, <2>2, MoreKeeps
  <2> QED  BY <1>2, <2>1, <2>2 DEF List
<1>3. CASE ApplySync
  BY <1>1, <1>3, ApplySyncKeeps, SyncAgainKeeps
<1>4. CASE SyncFails
  BY <1>1, <1>4, SyncFailsKeeps, SyncAgainKeeps
<1>5. ASSUME NEW n \in Note, Arrive(n) PROVE BellInv'
  BY <1>1, <1>5, ArriveKeeps
<1>6. ASSUME NEW r \in 0..1, Act(r) PROVE BellInv'
  BY <1>1, <1>6, DecidingKeeps
<1>7. ASSUME NEW p \in pushes, TakePush(p) PROVE BellInv'
  BY <1>1, <1>7, TakePushKeeps
<1>8. ASSUME NEW e \in pushing, EmitPush(e) PROVE BellInv'
  BY <1>1, <1>8, EmitPushKeeps
<1>9. CASE PostCommit
  BY <1>1, <1>9, PostCommitKeeps
<1>10. CASE PostCount
  BY <1>1, <1>10, PostingKeeps
<1>11. CASE PostEmit
  BY <1>1, <1>11, PostEmitKeeps
<1>12. CASE PostAnswer
  BY <1>1, <1>12, PostAnswerKeeps
<1>13. CASE ChangeRole
  BY <1>1, <1>13, ChangeRoleKeeps
<1>14. CASE EmitSync
  BY <1>1, <1>14, EmitSyncKeeps
<1>15. CASE StartSync \/ PostFails \/ SocketUp
  BY <1>1, <1>15, AskingKeeps
<1>16. CASE LoadMore \/ MoreFails
  BY <1>1, <1>16, MoreKeeps
<1>17. CASE ApplyMore
  BY <1>1, <1>17, ApplyMoreKeeps
<1>18. ASSUME NEW sel \in Selector, MarkRead(sel) PROVE BellInv'
  BY <1>1, <1>18, MarkReadKeeps
<1>19. ASSUME NEW sel \in Selector, ReadElsewhere(sel) PROVE BellInv'
  BY <1>1, <1>19, PostingKeeps
<1>20. CASE Receive
  BY <1>1, <1>20, ReceiveKeeps
<1>21. CASE DropSocket
  BY <1>1, <1>21, DropSocketKeeps
<1>22. CASE UNCHANGED bellVars
  BY <1>22, BellStill
<1> QED
  BY <1>2, <1>3, <1>4, <1>5, <1>6, <1>7, <1>8, <1>9, <1>10, <1>11, <1>12, <1>13, <1>14, <1>15,
     <1>16, <1>17, <1>18, <1>19, <1>20, <1>21, <1>22 DEF BellNext

(* What the bell knows, in every state.                                    *)
THEOREM BellInvHolds == BellSpec => []BellInv
<1>1. BellInit => BellInv
  BY BellBegins
<1>2. BellInv /\ [BellNext]_bellVars => BellInv'
  BY BellStep
<1> QED  BY <1>1, <1>2, PTL DEF BellSpec

(* The variables of the bell have their types, for any number of rows, any *)
(* size of a page and however much happens.                                *)
THEOREM BellTypes == BellSpec => []BellTypeOK
<1>1. BellInv => BellTypeOK
  BY DEF BellInv
<1> QED  BY <1>1, BellInvHolds, PTL

(* When nothing is on its way, the bell agrees with the table: what        *)
(* notifications.store.ts does with pushes, answers and its own clicks     *)
(* leaves the count and the first page as the server has them.             *)
THEOREM BellsAgree == BellSpec => []BellAgrees
<1>1. BellInv => BellAgrees
  <2> SUFFICES ASSUME BellInv, Quiet, ~outrun
               PROVE  /\ unread = Count(role)
                      /\ LET first == Top(Visible(role)) IN
                           Top(Shown) = first /\ \A n \in first : items[n] = note[n].state
    BY DEF BellAgrees
  <2>1. /\ online /\ channel = <<>> /\ pushes = {} /\ pushing = {} /\ post = IdlePost /\ ~resync
        /\ sync = NoList
    BY DEF Quiet
  <2>2. /\ BellTypeOK /\ newest <= version /\ VersionIsTold /\ UnreadIsRight /\ ItemsHold
        /\ newest \in Nat /\ version \in Nat
    BY DEF BellInv, Stamped, BellTypeOK
  <2>3. Events = {} /\ ~PostUnder /\ post.step = "idle" /\ ~post.own
    BY <2>1 DEF Events, PostUnder, IdlePost
  <2>4. ~Due /\ ~RoleComes(-1) /\ \A n : ~NewComes(n, -1) /\ ~ReadComes(n, -1)
    BY <2>1, <2>3 DEF Due, RoleComes, NewComes, ReadComes
  <2>5. newest = version
    BY <2>1, <2>4, <2>2 DEF VersionIsTold
  <2>6. unread = Count(role)
    BY <2>1, <2>2, <2>3, <2>4, <2>5 DEF UnreadIsRight
  <2>7. /\ \A n \in Top(Seen) : RowHolds(n, items[n], -1)
        /\ \A n \in Shown : n \in Seen \/ Deep(n)
    BY <2>1, <2>2, <2>3, <2>4 DEF ItemsHold
  <2>8. Top(Seen) \subseteq Seen /\ Seen \in SUBSET Note /\ Shown \in SUBSET Note
        /\ \A n \in Seen : note[n].state # "no"
    BY DEF Top, Seen, Visible, Shown
  <2>9. \A n \in Top(Seen) : items[n] = note[n].state
    BY <2>4, <2>7, <2>8 DEF RowHolds
  <2>10. Top(Seen) \subseteq Shown
    BY <2>8, <2>9 DEF Shown
  <2>11. Top(Shown) = Top(Seen)
    BY <2>7, <2>8, <2>10, SameFirstPage DEF Deep
  <2> QED  BY <2>6, <2>9, <2>11 DEF Seen
<1> QED  BY <1>1, BellInvHolds, PTL
================================================================================
