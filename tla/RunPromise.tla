------------------------------ MODULE RunPromise ------------------------------
(***************************************************************************)
(* What the people of a RemarkRound project may rely on for every agent    *)
(* run they start: it works, it waits for a person, it works again when    *)
(* that person sends it back, and it ends; what has ended stays ended; and *)
(* a run at work does not work for ever.                                   *)
(***************************************************************************)
CONSTANT Run

VARIABLE state

Init == state = [r \in Run |-> "absent"]

Move(r, from, to) ==
  /\ state[r] \in from
  /\ state' = [state EXCEPT ![r] = to]

Begin(r)  == Move(r, {"absent"}, "working")
Wait(r)   == Move(r, {"working"}, "waiting")
Resume(r) == Move(r, {"waiting"}, "working")
End(r)    == Move(r, {"working", "waiting"}, "over")

Next == \E r \in Run : Begin(r) \/ Wait(r) \/ Resume(r) \/ End(r)

Stops(r) == Wait(r) \/ (state[r] = "working" /\ End(r))

(* What may happen, and what has to.                                       *)
Safety == Init /\ [][Next]_state

Spec == /\ Safety
        /\ \A r \in Run : WF_state(Stops(r))
=============================================================================
