----------------------------- MODULE RemarkTurns -----------------------------
(***************************************************************************)
(* Whose turn it is.  Four tables of two programs speak of it: the rules   *)
(* of the bell (src/apps/api/src/notifications/audience.ts), the list      *)
(* "waits for me" of the journal (src/apps/web/src/app/core/               *)
(* journal-filter.ts), the queue of the developer, and the buttons of the  *)
(* card (RemarkCard).  The bell is rung by the history row a transaction   *)
(* writes, the other three read the status it leaves.                      *)
(***************************************************************************)
EXTENDS RemarkCard

(* Mutant: of what the customer sends back only the customer hears.        *)
ToActOnVerdicts(h) ==
  CASE h.action = "proposal" /\ h.to = "awaiting_pm" -> {"pm"}
    [] h.action = "verdict" /\ h.to = "defect"       -> {"developer"}
    [] h.action = "verdict" /\ h.to \in {"unspecified", "cannot_tell"} -> {"business"}
    [] h.action = "ready_for_retest" -> {"business"}
    [] h.action = "retest_result"    -> {"business"}
    [] OTHER                         -> {}

(* The rules: who is called to act by a row of the history, and who is     *)
(* only told of it.                                                        *)
ToAct(h) ==
  CASE h.action = "proposal" /\ h.to = "awaiting_pm" -> {"pm"}
    [] /\ h.action = "verdict" /\ h.to = "defect"
       /\ h.from \in {"awaiting_pm", "unspecified"}  -> {"developer"}
    [] h.action = "verdict" /\ h.to \in {"unspecified", "cannot_tell"} -> {"business"}
    [] h.action = "ready_for_retest" /\ h.to = "ready_for_retest"      -> {"business"}
    [] h.action = "retest_result" /\ h.to = "awaiting_business_close"  -> {"business"}
    [] h.action = "not_fixed" /\ h.to = "defect"     -> {"developer"}
    [] OTHER -> {}

ToKnow(h) ==
  IF \/ h.action = "verdict" /\ h.to \in {"defect", "change_request", "duplicate"}
     \/ h.action = "not_fixed" /\ h.to = "defect"
     \/ h.action = "close" /\ h.to = "closed"
  THEN {"business"} ELSE {}

(* The journal of the PM and of the customer, and what a developer has not *)
(* done yet of the own queue.                                              *)
WaitsFor(p) ==
  CASE p = "pm"        -> status \in {"awaiting_pm", "cannot_tell"}
    [] p = "business"  -> status \in {"cannot_tell", "ready_for_retest",
                                      "awaiting_business_close", "unspecified"}
    [] p = "developer" -> status = "defect"

(* The card has something to press for this person.                        *)
CanStep(p) == \E class \in ProposedClass : Offers(p, class, FALSE) # {}

(* The turn passes with no word said: the remark comes back to where it    *)
(* already waited for this person, or a run has failed or been cancelled.  *)
Newly(p) == ~WaitsFor(p) /\ WaitsFor(p)'

(* Whoever a remark begins to wait for is called by the row of the very    *)
(* step that made it so; nobody is called without having something to      *)
(* press; whoever it waits for can press something, but for the PM, whom   *)
(* the journal lists for a remark without a frame while only the customer  *)
(* is given the button; and no status is decided, sent back or closed      *)
(* behind the customer's back.                                             *)
TurnsAreAnnounced ==
  [][/\ \A p \in Person :
          /\ Newly(p) => p \in ToAct(lastRow')
          /\ p \in ToAct(lastRow') => CanStep(p)'
          /\ WaitsFor(p)' => CanStep(p)' \/ (p = "pm" /\ status' = "cannot_tell")
     /\ status' \in Decision \cup {"closed"}
          => "business" \in ToAct(lastRow') \cup ToKnow(lastRow')]_status
=============================================================================
