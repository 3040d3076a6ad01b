---------------------------- MODULE PendingAction ----------------------------
(***************************************************************************)
(* The five seconds in which a person may undo a decision, and its way to  *)
(* the server (src/apps/web/src/app/core/pending-action.service.ts,        *)
(* remarks.store.ts and ws.service.ts).                                    *)
(*                                                                         *)
(* A decision is a click; it waits in `pending` until its timer fires, the *)
(* person goes to another page or decides something else.  Then it is      *)
(* committed: over the socket if there is one and, without an answer in    *)
(* time, over REST with the same key.  The server looks for the key before *)
(* its transaction, so two copies of a request may both find nothing; what *)
(* else it does with a decision is RemarkLifecycle.                        *)
(***************************************************************************)
EXTENDS Integers, FiniteSets

CONSTANT MaxDecisions  \* bound on the clicks of one visit

Decision == 1..MaxDecisions

ASSUME PendingAssumption == MaxDecisions \in Nat \ {0}

VARIABLES
  pending,     \* the decision that may still be undone, 0 for none
  timers,      \* the timeouts that have not fired, by the decision that set them
  handle,      \* the timeout the service can still clear, 0 for none
  committing,  \* the decision on its way, 0 for none
  via,         \* how its request goes: not sent yet, by socket, by REST
  wire,        \* requests the server has not taken up yet
  serving,     \* requests that have found no verdict with their key
  answers,     \* its answers: of a decision, applied or refused
  applied,     \* how often the server has applied a decision
  fate,        \* what the person was told last of a decision
  behind,      \* decisions taken while another one was being committed, the
               \* one their own click has sent off included
  late         \* decisions undone with Escape while being committed

pendingVars == <<pending, timers, handle, committing, via, wire, serving,
                 answers, applied, fate, behind, late>>

Attempt == [of : Decision, by : {"socket", "rest"}]

PendingTypeOK ==
  /\ pending \in {0} \cup Decision /\ committing \in {0} \cup Decision
  /\ timers \subseteq Decision /\ handle \in {0} \cup Decision
  /\ via \in {"nothing", "socket", "rest"}
  /\ wire \subseteq Attempt /\ serving \subseteq Attempt
  /\ answers \subseteq [of : Decision, by : {"socket", "rest"}, ok : BOOLEAN]
  /\ applied \in [Decision -> Nat]
  /\ fate \in [Decision -> {"none", "waiting", "undone", "settled", "refused"}]
  /\ behind \subseteq Decision /\ late \subseteq Decision

PendingInit ==
  /\ pending = 0 /\ timers = {} /\ handle = 0
  /\ committing = 0 /\ via = "nothing"
  /\ wire = {} /\ serving = {} /\ answers = {}
  /\ applied = [d \in Decision |-> 0]
  /\ fate = [d \in Decision |-> "none"]
  /\ behind = {} /\ late = {}

-----------------------------------------------------------------------------
(* flush: nothing while there is no decision or one is being committed.    *)
Flushes == pending # 0 /\ committing = 0

Committed == IF Flushes THEN pending ELSE committing

(* clearTimer touches the newest timeout only.                             *)
Cleared == IF Flushes THEN timers \ {handle} ELSE timers

(* Mutant: a new decision takes the place of the one before.               *)
SentOffNever == committing

SentOff == Committed

(* schedule: flush, then take the place of whatever was pending.           *)
Schedule(d) ==
  /\ fate[d] = "none" /\ \A e \in 1..(d - 1) : fate[e] # "none"
  /\ committing' = SentOff
  /\ pending' = d /\ handle' = d
  /\ timers' = Cleared \cup {d}
  /\ fate' = [fate EXCEPT ![d] = "waiting"]
  /\ behind' = IF Committed # 0 THEN behind \cup {d} ELSE behind
  /\ UNCHANGED <<via, wire, serving, answers, applied, late>>

(* NavigationStart and pagehide (the requests of a page that goes away are *)
(* the browser's matter).                                                  *)
Flush ==
  /\ Flushes
  /\ committing' = Committed
  /\ timers' = Cleared /\ handle' = 0
  /\ UNCHANGED <<pending, via, wire, serving, answers, applied, fate, behind, late>>

(* A timeout fires; it flushes whatever is pending by then.                *)
TimerFires(d) ==
  /\ d \in timers
  /\ committing' = Committed
  /\ timers' = Cleared \ {d}
  /\ handle' = IF Flushes THEN 0 ELSE handle
  /\ UNCHANGED <<pending, via, wire, serving, answers, applied, fate, behind, late>>

(* The button is disabled while something is being committed, Escape on    *)
(* the card is not.                                                        *)
Undo ==
  /\ pending # 0
  /\ fate' = [fate EXCEPT ![pending] = "undone"]
  /\ late' = IF pending = committing THEN late \cup {pending} ELSE late
  /\ timers' = timers \ {handle} /\ handle' = 0
  /\ pending' = 0
  /\ UNCHANGED <<committing, via, wire, serving, answers, applied, behind>>

-----------------------------------------------------------------------------
(* commit(): RemarksStore.verdict and WsService.command.                   *)

(* By socket if it is up and the decision is a verdict.                    *)
Send ==
  /\ committing # 0 /\ via = "nothing"
  /\ via' \in {"socket", "rest"}
  /\ wire' = wire \cup {[of |-> committing, by |-> via']}
  /\ UNCHANGED <<pending, timers, handle, committing, serving, answers, applied,
                 fate, behind, late>>

(* No answer over the socket in 15 s; the request may still get through.   *)
FallBack ==
  /\ via = "socket"
  /\ via' = "rest"
  /\ wire' = wire \cup {[of |-> committing, by |-> "rest"]}
  /\ UNCHANGED <<pending, timers, handle, committing, serving, answers, applied,
                 fate, behind, late>>

(* RemarksService.verdict finds the key among the verdicts of the run.     *)
Known(d) == applied[d] > 0

Reply(r, ok) == answers' = answers \cup {[of |-> r.of, by |-> r.by, ok |-> ok]}

(* What the server does not touch.                                         *)
deciderVars == <<pending, timers, handle, committing, via, fate, behind, late>>

(* A request is taken up: its decision is applied already, or it is refused *)
(* (the role, the status, the database), or it goes on to its transaction. *)
LookUp(r) ==
  /\ r \in wire
  /\ wire' = wire \ {r}
  /\ \/ ~Known(r.of) /\ serving' = serving \cup {r} /\ UNCHANGED answers
     \/ Known(r.of) /\ Reply(r, TRUE) /\ UNCHANGED serving
     \/ Reply(r, FALSE) /\ UNCHANGED serving
  /\ UNCHANGED <<deciderVars, applied>>

(* Mutant: no unique index on (runId, idempotencyKey).                     *)
KeyIsAlwaysFree(d) == TRUE

(* HumanVerdict.create: what the index says at the moment of the write,    *)
(* whatever was found before.                                              *)
KeyIsFree(d) == applied[d] = 0

(* The transaction commits, and what follows (the card read again, the     *)
(* graph resumed) may still fail; or it is rolled back, because of the key,*)
(* of a status that has moved, or by the database.                         *)
Serve(r) ==
  /\ r \in serving
  /\ serving' = serving \ {r}
  /\ \/ /\ KeyIsFree(r.of)
        /\ applied' = [applied EXCEPT ![r.of] = @ + 1]
        /\ \E ok \in BOOLEAN : Reply(r, ok)
     \/ /\ Reply(r, FALSE)
        /\ UNCHANGED applied
  /\ UNCHANGED <<deciderVars, wire>>

(* The end of commit() and of flush; an answer nobody waits for is dropped.*)
Finish(d, told) ==
  /\ committing' = 0 /\ via' = "nothing"
  /\ pending' = IF pending = d THEN 0 ELSE pending
  /\ fate' = IF fate[d] = "waiting" THEN [fate EXCEPT ![d] = told] ELSE fate
  /\ UNCHANGED <<timers, handle, wire, serving, applied, behind, late>>

Answered(a) ==
  /\ a \in answers /\ a.of = committing /\ a.by = via
  /\ answers' = answers \ {a}
  /\ Finish(a.of, IF a.ok THEN "settled" ELSE "refused")

(* The REST call fails without an answer: the error is shown.              *)
RestFails ==
  /\ via = "rest"
  /\ Finish(committing, "refused")
  /\ UNCHANGED answers

PendingNext ==
  \/ \E d \in Decision : Schedule(d) \/ TimerFires(d)
  \/ Flush \/ Undo \/ Send \/ FallBack \/ RestFails
  \/ \E r \in wire : LookUp(r)
  \/ \E r \in serving : Serve(r)
  \/ \E a \in answers : Answered(a)

PendingSpec == PendingInit /\ [][PendingNext]_pendingVars

-----------------------------------------------------------------------------
(* Neither undone nor answered: it waits with a timeout or is on its way.  *)
DecisionReaches ==
  \A d \in Decision \ behind : fate[d] = "waiting" =>
    \/ committing = d
    \/ pending = d /\ handle = d /\ d \in timers

(* Applied at most once, never if undone, and indeed if so it was said.    *)
UndoneStaysUnsent ==
  \A d \in Decision :
    /\ applied[d] <= 1
    /\ fate[d] = "settled" => applied[d] = 1
    /\ fate[d] = "undone" /\ d \notin late => applied[d] = 0 /\ committing # d

(* A decision taken is kept (pending-action.service.ts): it is neither     *)
(* forgotten, nor applied twice - though the copies that go by socket and  *)
(* by REST may both find no verdict with their key -, nor applied after    *)
(* the person has seen it undone, nor called settled without being applied.*)
(* Two exceptions: one decided while another was being committed (behind)  *)
(* may be dropped by the next or left without a timeout, though line 23    *)
(* there promises that a new action commits the waiting one at once; and   *)
(* Escape on a decision being committed (late) comes too late.             *)
DecisionIsKept == DecisionReaches /\ UndoneStaysUnsent
=============================================================================
