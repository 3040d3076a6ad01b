----------------------------- MODULE JobPromise -----------------------------
(***************************************************************************)
(* What the job queue of RemarkRound promises to those who enqueue         *)
(* (AgentService, RagService, NotificationsService): a job that was        *)
(* accepted stays owed until it is settled - done, failed or cancelled -,  *)
(* every owed job is settled in the end, and a settled job is never taken  *)
(* up again.                                                               *)
(***************************************************************************)
CONSTANT Job

VARIABLE state

Init == state = [j \in Job |-> "absent"]

Move(j, from, to) ==
  /\ state[j] = from
  /\ state' = [state EXCEPT ![j] = to]

Accept(j) == Move(j, "absent", "owed")
Settle(j) == Move(j, "owed", "settled")

Next == \E j \in Job : Accept(j) \/ Settle(j)

(* What may happen, and what has to.                                       *)
Safety == Init /\ [][Next]_state

Spec == /\ Safety
        /\ \A j \in Job : WF_state(Settle(j))
=============================================================================
