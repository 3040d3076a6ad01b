----------------------------- MODULE RemarkCard -----------------------------
(***************************************************************************)
(* What the card of a remark offers to the people of its project           *)
(* (src/apps/web/src/app/pages/remark-card-page.ts and                     *)
(* ui/decision-panel.ts), against what RemarksService accepts.             *)
(*                                                                         *)
(* The two sides are written apart: the page derives its buttons from the  *)
(* status and the newest run of the answer it was given, the service       *)
(* checks the role and the row.  This module adds no state to              *)
(* RemarkLifecycle: a card is the function of the row that the page        *)
(* computes when it has just been loaded (what a card does with an old     *)
(* answer is in CardRoom).  An offer is an operation with a verdict code.  *)
(***************************************************************************)
EXTENDS RemarkLifecycle

(* A global administrator in a project sees what the PM sees.              *)
Person == {"pm", "business", "developer"}
Client == {"pm", "business"}

(* The class of the proposal, as far as the page tells it apart.           *)
ProposedClass == {"unspecified", "other"}

Offer(op)            == {<<op, "none">>}
Decisions(op, codes) == {op} \X codes

-----------------------------------------------------------------------------
(* The row as the answer shows it: the newest run, is it at work.          *)
HasRun     == \E r \in Run : Created(r)
NewestRun  == CHOOSE r \in Run : Newest(r)
Running    == HasRun /\ runs[NewestRun].status = "running"
Showing(m) == HasRun /\ runs[NewestRun].mode = m

(* A developer opens the cards of the own queue, and those one may advise on. *)
MayOpen(p) ==
  p = "developer" => status \in {"defect", "ready_for_retest", "awaiting_pm"}

(* The panel "your decision", by what it lets the person do.               *)
PmFull == Decisions("verdict", {"defect", "change_request", "unspecified", "cannot_tell"})
            \cup Decisions("rejected_binding", {"rejected_binding"})
(* Mutant: a question to the customer is answered with every button.       *)
PmTwoFull == Decisions("verdict", {"defect", "change_request", "unspecified", "cannot_tell"})

PmTwo  == Decisions("verdict", {"defect", "change_request"})

PmPanel(class) ==
  IF status = "awaiting_pm" THEN IF class = "unspecified" THEN PmTwo ELSE PmFull ELSE {}

BusinessPanel ==
  CASE status = "unspecified"             -> PmTwo
    [] status = "cannot_tell"             -> Offer("attach_screenshot")
    [] status = "ready_for_retest"        -> Offer("close")
    [] status = "awaiting_business_close" -> Offer("close") \cup Offer("not_fixed")
    [] OTHER                              -> {}

DeveloperPanel == IF status = "awaiting_pm" THEN Offer("advise") ELSE {}

Panel(p, class) ==
  IF Running THEN {}
  ELSE CASE p = "pm"        -> PmPanel(class)
         [] p = "business"  -> BusinessPanel
         [] p = "developer" -> DeveloperPanel

(* The buttons outside the panel.  heard: did this page see the newest run *)
(* fail; a page loaded afterwards shows the reason and no button.          *)
Stop(p)        == IF Running /\ p \in Client THEN Offer("cancel") ELSE {}
Retry(heard)   == IF heard /\ HasRun /\ runs[NewestRun].status = "failed"
                  THEN Offer("triage") ELSE {}
Fix(p)         == IF ~Running /\ status = "needs_human_parse" /\ p \in Client
                  THEN Offer("fix_row") ELSE {}
Ready(p)       == IF p = "developer" /\ status = "defect"
                  THEN Offer("ready_for_retest") ELSE {}
NewFrame(p)    == IF p = "business" /\ ~Running /\ status = "ready_for_retest"
                  THEN Offer("retest") ELSE {}
Replace(p)     == IF /\ p = "business" /\ ~Running
                     /\ status = "awaiting_business_close" /\ Showing("retest")
                  THEN Offer("replace") ELSE {}

Offers(p, class, heard) ==
  IF MayOpen(p)
  THEN Panel(p, class) \cup Stop(p) \cup Retry(heard) \cup Fix(p)
         \cup Ready(p) \cup NewFrame(p) \cup Replace(p)
  ELSE {}

-----------------------------------------------------------------------------
(* What the service accepts of a person now.                               *)

(* The routes of the controller a role may call at all.                    *)
Routes(p) ==
  CASE p = "pm"        -> {"verdict", "rejected_binding", "fix_row", "attach_screenshot",
                           "triage", "cancel"}
    [] p = "business"  -> {"verdict", "rejected_binding", "fix_row", "attach_screenshot",
                           "triage", "cancel", "retest", "close", "not_fixed", "replace"}
    [] p = "developer" -> {"advise", "ready_for_retest"}

(* The replacement of a frame is a cancellation and a retest: it goes on   *)
(* only where the cancellation brings the remark back.                     *)
Accepts(p, op, code) ==
  /\ op \in Routes(p)
  /\ CASE op \in {"verdict", "rejected_binding"} -> HasRun /\ MayDecide(p, status, code)
       [] op = "fix_row"           -> status = "needs_human_parse"
       [] op = "attach_screenshot" -> status \in {"cannot_tell", "imported"}
       [] op = "triage"            -> status \in Startable
       [] op = "cancel"            -> HasRun
       [] op = "advise"            -> status = "awaiting_pm"
       [] op = "ready_for_retest"  -> status = "defect"
       [] op = "retest"            -> status = "ready_for_retest" /\ ~RetestRunning
       [] op = "close"             -> status \in RetestBusy /\ ~RetestRunning
       [] op = "not_fixed"         -> status = "awaiting_business_close"
       [] op = "replace"           -> /\ HasRun /\ runs[NewestRun].status \in Active
                                      /\ status \in RetestBusy

(* A comparison that is not the newest run still works: of two begun at    *)
(* once (beginRetest does not exclude the second), or because the failure  *)
(* of a triage came so late that another triage began beside it.           *)
OldRetestRuns ==
  \E r \in Run : ~Newest(r) /\ runs[r] = [mode |-> "retest", status |-> "running"]

(* "Start again" is shown to whoever saw the run fail, and always asks for *)
(* a triage: a developer may not ask, and a failed retest is no triage.    *)
VainRetry(p, o) == o[1] = "triage" /\ (p = "developer" \/ status \notin Startable)

(* The replacement cancels the newest run, whatever frame is compared.     *)
(* There is nothing to cancel when the failure of that run came after its  *)
(* result, nor, perhaps, when the result is that of an older comparison.   *)
OtherRetest == \E r \in Run : ~Newest(r) /\ Created(r) /\ runs[r].mode = "retest"

VainReplace(o) ==
  o[1] = "replace" /\ (runs[NewestRun].status = "failed" \/ OtherRetest)

(* Every button an up-to-date card shows is one the service takes from the *)
(* person it is shown to, whatever the races of runs, verdicts and failures *)
(* have made of the row: nobody is offered a step that can only be refused, *)
(* but for the three cases above.  (A page that heard a run fail offers     *)
(* whatever one that did not offers.)                                      *)
OffersAreAccepted ==
  \A p \in Person, class \in ProposedClass :
    \A o \in Offers(p, class, TRUE) :
      Accepts(p, o[1], o[2]) \/ OldRetestRuns \/ VainRetry(p, o) \/ VainReplace(o)

(* docs/ARCHITECTURE.md: a triage given up returns the remark to imported, *)
(* and "start again" appears on the card - of somebody at least, also when *)
(* the failure was written by the sweeper, of which no page is told, or    *)
(* the card is opened afterwards.                                          *)
FailedCanRestart ==
  [][Failing /\ status' = "imported"
     => (\E p \in Person, class \in ProposedClass :
           \E o \in Offers(p, class, FALSE) : Accepts(p, o[1], o[2]))']_vars
=============================================================================
