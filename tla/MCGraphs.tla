------------------------------ MODULE MCGraphs ------------------------------
(* The two graphs, the document index and the cutting of a document's text.*)
(* They are looked at one at a time (mode): the triage graph beside an     *)
(* indexing that is about to commit, the index alone with overlapping jobs *)
(* and a crash, the retest graph alone, a text line by line.               *)
EXTENDS TriageGraph, RetestGraph, Chunker

CONSTANT FirstRequest \* the indexing that commits while the triage graph works

VARIABLE mode

vars == <<mode, indexVars, triageVars, retestVars, doc>>

(* Frames of 3 x 3 pixels of which four may have changed, here and there   *)
(* (three are 33 per cent, four are noise), another size, files that are   *)
(* none.                                                                   *)
Inks    == SUBSET {<<1, 1>>, <<1, 2>>, <<2, 1>>, <<3, 3>>}
Picture(w, h, ink) == [kind |-> "picture", width |-> w, height |-> h, ink |-> ink]
NoImage(kind)      == [kind |-> kind, width |-> 0, height |-> 0, ink |-> {}]

MCOriginal == {Picture(3, 3, {}), Picture(2, 3, {}), NoImage("broken")}
MCRetest   == {Picture(3, 3, ink) : ink \in Inks}
              \cup {Picture(3, 2, {}), NoImage("broken"), NoImage("other")}

(* Lines of every kind chunker.ts tells apart: two numbers of one level,   *)
(* one below, page numbers of every form.                                  *)
Heading(level)    == [PlainLine EXCEPT !.level = level, !.words = 1]
Numbered(number)  == [PlainLine EXCEPT !.number = number, !.form = TRUE, !.start = TRUE]
Entry(tail, page) == [PlainLine EXCEPT !.tail = tail, !.page = page]

MCLine ==
  { BlankLine,
    [PlainLine EXCEPT !.stop = TRUE],
    [PlainLine EXCEPT !.lower = TRUE],
    Heading(1), Heading(2),
    Numbered(<<1>>), Numbered(<<2>>), Numbered(<<2, 1>>),
    [Entry("plain", 6) EXCEPT !.number = <<2>>, !.form = TRUE, !.start = TRUE],
    [Entry("dots", 5) EXCEPT !.number = <<1>>, !.start = TRUE],
    Entry("weak", 7),
    [PlainLine EXCEPT !.kind = "title", !.words = 1],
    [PlainLine EXCEPT !.kind = "bare", !.page = 7, !.words = 1] }

Mode == {"triage", "index", "retest", "text"}

(* The first document of a project, or the next version of its text.       *)
IndexingInit ==
  /\ docStatus = "parsed" /\ indexFaults = 0
  /\ writes \in {0, 1} /\ chunks = (1..writes) \X Section
  /\ index = [[q \in Request |-> NoIndexJob] EXCEPT
                ![FirstRequest] = [step |-> "writing", attempts |-> 1, victims |-> chunks]]

Init ==
  /\ mode \in Mode
  /\ IF mode = "triage" THEN IndexingInit ELSE IndexInit
  /\ TriageInit /\ RetestInit /\ ChunkerInit
  /\ mode # "retest" => original = NoFile /\ strategy = "diff_explain"
  /\ mode # "triage" => at = "idle" /\ hasFrame
  /\ mode \in {"retest", "text"} => docStatus = "absent"

Next ==
  \/ /\ mode = "triage"
     /\ \/ TriageNext /\ UNCHANGED <<mode, retestVars, doc>>
        \/ CommitIndex(FirstRequest) /\ UNCHANGED <<mode, triageVars, retestVars, doc>>
  \/ /\ mode = "index"
     /\ IndexNext /\ UNCHANGED <<mode, triageVars, retestVars, doc>>
  \/ /\ mode = "retest"
     /\ RetestNext /\ UNCHANGED <<mode, indexVars, triageVars, doc>>
  \/ /\ mode = "text"
     /\ ChunkerNext /\ UNCHANGED <<mode, indexVars, triageVars, retestVars>>

Spec == /\ Init /\ [][Next]_vars
        /\ \A q \in Request : WF_indexVars(mode = "index" /\ IndexWork(q))
        /\ WF_indexVars(mode = "triage" /\ CommitIndex(FirstRequest))
        /\ TriageFairness

(* Every variable of the four parts holds a value of its kind.             *)
TypeOK == mode \in Mode /\ IndexTypeOK /\ TriageTypeOK /\ RetestTypeOK /\ ChunkerTypeOK
=============================================================================
