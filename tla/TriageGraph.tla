----------------------------- MODULE TriageGraph -----------------------------
(***************************************************************************)
(* The triage graph (src/apps/api/src/agent/triage.graph.ts) over the      *)
(* documents of DocumentIndex, for the runs of one remark.                 *)
(*                                                                         *)
(* The graph is modelled node by node; its state is the record g, whose    *)
(* fields every node overwrites and nobody else.  The model is external:   *)
(* any answer, then what the code makes of it (openai-triage-llm.ts).      *)
(* Scores are reduced to whether the best one reaches BOUND_SCORE, a draft *)
(* to the sections it names and whether it speaks of a frame.  Every write *)
(* of RemarksService is one step (see RemarkLifecycle), every end of a run *)
(* other than a proposal one action (see RunOrchestrator).                 *)
(***************************************************************************)
EXTENDS DocumentIndex, FiniteSetsExt

CONSTANTS
  RETRIEVE_K,    \* chunks one search returns
  MAX_REWRITES,
  MAX_BIND_LOOPS

ASSUME TriageAssumption ==
  RETRIEVE_K \in Nat /\ MAX_REWRITES \in Nat /\ MAX_BIND_LOOPS \in Nat

VARIABLES
  at,       \* the node the graph continues with
  g,        \* the state of the graph
  hasFrame, \* the remark has a screenshot
  shown,    \* the proposal on the card: class, draft and citations
  thread,   \* there is a checkpoint of the pause (none for seeded runs)
  rejected, \* the citations this run was told are wrong
  calls     \* calls of the model and searches in this pass

triageVars == <<at, g, hasFrame, shown, thread, rejected, calls>>

(* change_request_candidate is treated like unspecified everywhere.        *)
Class == {"defect_candidate", "unspecified", "duplicate", "cannot_tell"}
Draft == [refs : SUBSET Section, frame : BOOLEAN]

NoDraft == [refs |-> {}, frame |-> FALSE]

Node == {"idle", "ingest", "retrieve_docs", "maybe_vision", "bind_to_clause", "rewrite_query",
         "classify_evidence", "draft_rationale", "faithfulness_gate", "propose", "hitl", "over"}
Quiet == {"idle", "hitl", "over"}

NoCalls == [vision |-> 0, rewrite |-> 0, classify |-> 0, draft |-> 0, search |-> 0]

(* The input of a run and the defaults of its state.  excludeChunkIds and  *)
(* humanComment (here: whether there is one) are the input.                *)
Fresh0(exclude, comment) ==
  [hits |-> {}, strong |-> FALSE, rewriteCount |-> 0, bindLoops |-> 0,
   exclude |-> exclude, comment |-> comment, seen |-> FALSE,
   class |-> "unspecified", chunkIds |-> {}, draft |-> NoDraft]

Nothing == [class |-> "unspecified", draft |-> NoDraft, named |-> {}, cites |-> {}]

TriageTypeOK ==
  /\ at \in Node
  /\ g.hits \cup g.exclude \cup g.chunkIds \subseteq Chunk
  /\ g.rewriteCount \in 0..MAX_REWRITES /\ g.bindLoops \in 0..MAX_BIND_LOOPS
  /\ {g.strong, g.comment, g.seen, hasFrame, thread} \subseteq BOOLEAN
  /\ {g.class, shown.class} \subseteq Class /\ {g.draft, shown.draft} \subseteq Draft
  /\ shown.named \cup shown.cites \subseteq Chunk
  /\ rejected \subseteq Chunk
  /\ DOMAIN calls = DOMAIN NoCalls

(* A remark nobody has triaged, or a seeded one that waits for the PM with *)
(* citations and without a checkpoint.                                     *)
TriageInit ==
  /\ hasFrame \in BOOLEAN
  /\ g = Fresh0({}, FALSE)
  /\ thread = FALSE /\ rejected = {} /\ calls = NoCalls
  /\ \/ at = "idle" /\ shown = Nothing
     \/ /\ at = "hitl" /\ chunks # {}
        /\ \E cs \in (SUBSET chunks) \ {{}} :
             shown = [class |-> "defect_candidate", draft |-> NoDraft, named |-> cs, cites |-> cs]

-----------------------------------------------------------------------------
(* Counted only as far as a property looks.                                *)
Call(what) == calls' = [calls EXCEPT ![what] = IF @ > MAX_REWRITES + MAX_BIND_LOOPS + 1 THEN @ ELSE @ + 1]

Step(from, to) == at = from /\ at' = to /\ UNCHANGED <<hasFrame, indexVars>>

Begin(exclude, comment) ==
  /\ at' = "ingest"
  /\ g' = Fresh0(exclude, comment)
  /\ calls' = NoCalls

StartTriage ==
  /\ at \in {"idle", "over"}
  /\ Begin({}, FALSE)
  /\ shown' = Nothing
  /\ UNCHANGED <<hasFrame, thread, rejected, indexVars>>

(* With a comment and no checkpoint, what is cited now is excluded too.    *)
Cited == shown.cites \cap chunks

Ingest ==
  /\ Step("ingest", "retrieve_docs")
  /\ g' = [g EXCEPT !.exclude = IF g.comment THEN @ \cup Cited ELSE @]
  /\ UNCHANGED <<shown, thread, rejected, calls>>

(* The best RETRIEVE_K chunks of the project by the query.                 *)
Search == kSubset(IF Cardinality(chunks) < RETRIEVE_K THEN Cardinality(chunks) ELSE RETRIEVE_K, chunks)

(* Of all that was found, the best RETRIEVE_K + 2 are kept.                *)
Kept(found) == kSubset(IF Cardinality(found) < RETRIEVE_K + 2 THEN Cardinality(found) ELSE RETRIEVE_K + 2, found)

Sees == hasFrame /\ ~g.seen

(* Rejected chunks leave the result after the search has cut it.           *)
Found(hits) == hits \ g.exclude

Retrieve ==
  /\ at = "retrieve_docs"
  /\ \E hits \in Search, canSee \in BOOLEAN :
       LET fresh == Found(hits) IN
       /\ \E kept \in Kept(g.hits \cup fresh), strong \in BOOLEAN :
            /\ strong => fresh # {}
            /\ g' = [g EXCEPT !.hits = kept, !.strong = @ \/ strong]
       /\ Step("retrieve_docs", IF Sees /\ canSee THEN "maybe_vision" ELSE "bind_to_clause")
  /\ Call("search")
  /\ UNCHANGED <<shown, thread, rejected>>

(* Facts of the frame, or none: it is not looked at again.                 *)
Vision ==
  /\ Step("maybe_vision", "bind_to_clause")
  /\ g' = [g EXCEPT !.seen = TRUE]
  /\ \/ Call("vision")
     \/ UNCHANGED calls   \* no readable frame in the storage
  /\ UNCHANGED <<shown, thread, rejected>>

(* The best hit is bound if it is strong, or if the PM has said where to   *)
(* look; otherwise the query is rewritten.                                 *)
Bound == g.hits # {} /\ (g.strong \/ g.comment)

Bind ==
  /\ Step("bind_to_clause",
          IF ~Bound /\ g.rewriteCount < MAX_REWRITES /\ ~g.comment
          THEN "rewrite_query" ELSE "classify_evidence")
  /\ UNCHANGED <<g, shown, thread, rejected, calls>>

(* Mutant: the rewritings are not counted.                                 *)
Uncounted == g

Rewritten == [g EXCEPT !.rewriteCount = @ + 1]

Rewrite ==
  /\ Step("rewrite_query", "retrieve_docs")
  /\ g' = Rewritten
  /\ Call("rewrite")
  /\ UNCHANGED <<shown, thread, rejected>>

(* The rules over the answer: a defect needs a chunk, a duplicate a known  *)
(* sibling.                                                                *)
Ruled(class, ids, known) ==
  IF (class = "defect_candidate" /\ ids = {}) \/ (class = "duplicate" /\ ~known /\ ids = {})
  THEN "unspecified"
  ELSE IF class = "duplicate" /\ ~known THEN "defect_candidate" ELSE class

Classify ==
  /\ Step("classify_evidence", "draft_rationale")
  /\ \E class \in Class, ids \in SUBSET g.hits, known \in BOOLEAN :
       g' = [g EXCEPT !.class = Ruled(class, ids, known), !.chunkIds = ids]
  /\ Call("classify")
  /\ UNCHANGED <<shown, thread, rejected>>

Drafting ==
  /\ Step("draft_rationale", "faithfulness_gate")
  /\ \E d \in Draft : g' = [g EXCEPT !.draft = d]
  /\ Call("draft")
  /\ UNCHANGED <<shown, thread, rejected>>

Sections(cs) == {SectionOf(c) : c \in cs}

(* Mutant: a draft may name whatever the search has found.                 *)
FaithfulToHits ==
  /\ g.draft.refs \subseteq Sections(g.hits)
  /\ g.class = "defect_candidate" => g.chunkIds # {}
  /\ g.draft.frame => hasFrame

Faithful ==
  /\ g.draft.refs \subseteq Sections(g.hits \cap g.chunkIds)
  /\ g.class = "defect_candidate" => g.chunkIds # {}
  /\ g.draft.frame => hasFrame

(* The answer and the draft that failed are written anew before anything   *)
(* reads them: they are forgotten here.                                    *)
Unanswered == [g EXCEPT !.class = "unspecified", !.chunkIds = {}, !.draft = NoDraft]

(* Mutant: a loop of the gate opens the rewriting again.                   *)
BackToRewriting == [Unanswered EXCEPT !.bindLoops = @ + 1, !.rewriteCount = 0]

BackToBind == [Unanswered EXCEPT !.bindLoops = @ + 1]

(* Mutant: one loop more than allowed.                                     *)
OneLoopMore == g.bindLoops <= MAX_BIND_LOOPS

LoopsLeft == g.bindLoops < MAX_BIND_LOOPS

Gate ==
  \/ /\ Faithful
     /\ Step("faithfulness_gate", "propose")
     /\ UNCHANGED <<g, shown, thread, rejected, calls>>
  \/ /\ ~Faithful /\ LoopsLeft
     /\ Step("faithfulness_gate", "bind_to_clause")
     /\ g' = BackToBind
     /\ UNCHANGED <<shown, thread, rejected, calls>>
  \/ /\ ~Faithful /\ ~LoopsLeft
     /\ Step("faithfulness_gate", "propose")
     /\ g' = [g EXCEPT !.class = "cannot_tell", !.chunkIds = {}, !.draft = NoDraft]
     /\ UNCHANGED <<shown, thread, rejected, calls>>

(* applyProposal cites the chunks that still are in the table.             *)
Propose ==
  /\ Step("propose", "hitl")
  /\ shown' = [class |-> g.class, draft |-> g.draft, named |-> g.chunkIds,
               cites |-> g.chunkIds \cap chunks]
  /\ thread' = TRUE
  /\ UNCHANGED <<g, rejected, calls>>

(* Mutant: only the last rejected citations are excluded.                  *)
ExcludedLast == g.chunkIds

Excluded == g.exclude \cup g.chunkIds

(* `Not that citation`: on in the same run from its checkpoint, or anew.   *)
(* The answer and draft that were rejected are not read again (shown and g *)
(* keep no more of them than the citations).                               *)
RejectBinding ==
  /\ at = "hitl"
  /\ rejected' = rejected \cup shown.cites
  /\ \/ /\ thread
        /\ at' = "retrieve_docs"
        /\ g' = [g EXCEPT !.exclude = Excluded, !.comment = TRUE, !.hits = {}, !.strong = FALSE,
                          !.rewriteCount = 0, !.bindLoops = 0,
                          !.class = "unspecified", !.chunkIds = {}, !.draft = NoDraft]
        /\ calls' = [NoCalls EXCEPT !.vision = calls.vision]
     \/ ~thread /\ Begin(Cited, TRUE)
  /\ shown' = [Nothing EXCEPT !.cites = Cited]
  /\ UNCHANGED <<hasFrame, thread, indexVars>>

(* Nothing of a run that is over is read again.                            *)
Over ==
  /\ at' = "over"
  /\ g' = Fresh0({}, FALSE) /\ calls' = NoCalls
  /\ thread' = FALSE /\ rejected' = {} /\ shown' = Nothing
  /\ UNCHANGED <<hasFrame, indexVars>>

(* Any other answer ends the run; so does a failure of a node that calls   *)
(* the model, the search, the storage or the database.                     *)
Decide == at = "hitl" /\ Over

RunFails == at \in Node \ (Quiet \cup {"bind_to_clause", "faithfulness_gate"}) /\ Over

GraphStep ==
  \/ Ingest \/ Retrieve \/ Vision \/ Bind \/ Rewrite \/ Classify \/ Drafting \/ Gate \/ Propose

TriageNext == StartTriage \/ RejectBinding \/ Decide \/ GraphStep \/ RunFails

(* An invocation goes on until it ends; nobody makes the PM answer.        *)
TriageFairness == WF_triageVars(GraphStep)

-----------------------------------------------------------------------------
(* One pass costs at most one look at the frame, MAX_REWRITES rewritings   *)
(* (one search more), and one answer and draft more than MAX_BIND_LOOPS.   *)
CallsBounded ==
  /\ calls.vision <= 1
  /\ calls.rewrite <= MAX_REWRITES /\ calls.search <= MAX_REWRITES + 1
  /\ calls.classify <= MAX_BIND_LOOPS + 1 /\ calls.draft <= MAX_BIND_LOOPS + 1

(* What is shown to the PM rests on what it shows (faithfulness.ts): a     *)
(* proposal none of whose citations has been reindexed away names only     *)
(* sections it cites, cites something for a defect, and speaks of a frame  *)
(* only if there is one; and what the PM has rejected is not cited by this *)
(* run again, from its checkpoint or anew, through any number of answers.  *)
SoundProposal ==
  at = "hitl" =>
    /\ shown.cites = shown.named =>
         /\ shown.draft.refs \subseteq Sections(shown.cites)
         /\ shown.class = "defect_candidate" => shown.cites # {}
         /\ shown.draft.frame => hasFrame
    /\ shown.cites \cap rejected = {}

(* A pass comes to a proposal or an end, whatever the model answers, and   *)
(* within the limits of docs/GRAPH.md however the two loops interleave.    *)
PassEnds == at \notin Quiet ~> at \in Quiet /\ CallsBounded

(* agent/guardrails.ts: "a defect without a citation is impossible".       *)
DefectIsCited == at = "hitl" /\ shown.class = "defect_candidate" => shown.cites # {}
=============================================================================
