------------------------------ MODULE GraphProofs ------------------------------
(***************************************************************************)
(* Theorems about the two graphs and the document index, for any sections, *)
(* requests, searches, limits of the loops and files.                      *)
(*                                                                         *)
(* The index works beside the triage graph here, with all its jobs and     *)
(* crashes.  Ids of chunks are not bounded: what a chunk that is cited has *)
(* left when it is reindexed away is that its id never comes back.         *)
(***************************************************************************)
EXTENDS TriageGraph, RetestGraph, SetLemmas

Id == Nat \X Section

IndexInv ==
  /\ writes \in Nat /\ chunks \subseteq Id
  /\ \A c \in chunks : c[1] <= writes
  /\ SectionsStaySearchable

(* Only a commit writes chunks, and it writes every section.               *)
LEMMA IndexStepKeeps ==
  ASSUME IndexInv, IndexNext
  PROVE  /\ IndexInv' /\ writes <= writes'
         /\ \A c \in chunks' : c \in chunks \/ c[1] = writes + 1
<1>1. CASE UNCHANGED <<chunks, writes>>
  BY <1>1 DEF IndexInv, SectionsStaySearchable, Id
<1>2. CASE \E q \in Request : CommitIndex(q)
  <2>1. PICK q \in Request : CommitIndex(q)
    BY <1>2
  <2>2. chunks' = (chunks \ index[q].victims) \cup Fresh /\ writes' = writes + 1
    BY <2>1 DEF CommitIndex
  <2>3. \A s \in Section : <<writes + 1, s>> \in Fresh /\ SectionOf(<<writes + 1, s>>) = s
    BY DEF Fresh, SectionOf
  <2>4. \A c \in Fresh : c \in Nat \X Section /\ c[1] = writes + 1
    BY DEF Fresh, IndexInv
  <2>5. chunks' \subseteq Id /\ \A c \in chunks' : c \in chunks \/ c[1] = writes + 1
    BY <2>2, <2>4 DEF IndexInv, Id
  <2>6. \A c \in chunks' : SectionOf(c) \in Section
    BY <2>5 DEF Id, SectionOf
  <2>7. {SectionOf(c) : c \in chunks'} = Section
    BY <2>2, <2>3, <2>6
  <2>8. SectionsStaySearchable'
    BY <2>7 DEF SectionsStaySearchable
  <2>9. \A c \in chunks' : c[1] <= writes'
    <3>1. writes \in Nat /\ \A c \in chunks : c[1] \in Nat /\ c[1] <= writes
      BY DEF IndexInv, Id
    <3>2. SUFFICES ASSUME NEW c \in chunks'  PROVE c[1] <= writes + 1
      BY <2>2
    <3>3. CASE c \in chunks
      BY <3>1, <3>3
    <3>4. CASE c[1] = writes + 1
      BY <3>1, <3>4
    <3> QED  BY <2>5, <3>3, <3>4
  <2>10. writes' \in Nat /\ writes <= writes'
    BY <2>2 DEF IndexInv
  <2> QED  BY <2>5, <2>8, <2>9, <2>10 DEF IndexInv
<1> QED
  BY <1>1, <1>2 DEF IndexNext, IndexWork, AskIndex, EnqueueIndex, Extract, FailIndex, FailForNow, Fails,
     RetryIndex, SweepIndex, DeleteOld, FinishIndex, CrashIndex

LEMMA IndexBegins == IndexInit => IndexInv
<1> SUFFICES ASSUME IndexInit  PROVE IndexInv
  OBVIOUS
<1>1. CASE writes = 0 /\ chunks = {}
  BY <1>1 DEF IndexInv, SectionsStaySearchable
<1>2. CASE writes = 1 /\ chunks = {1} \X Section
  <2>1. \A s \in Section : <<1, s>> \in chunks /\ SectionOf(<<1, s>>) = s
    BY <1>2 DEF SectionOf
  <2>2. \A c \in chunks : c \in Nat \X Section /\ c[1] = 1 /\ SectionOf(c) \in Section
    BY <1>2 DEF SectionOf
  <2>3. {SectionOf(c) : c \in chunks} = Section
    BY <2>1, <2>2
  <2> QED  BY <1>2, <2>2, <2>3 DEF IndexInv, SectionsStaySearchable, Id
<1> QED  BY <1>1, <1>2 DEF IndexInit

IndexSpec == IndexInit /\ [][IndexNext]_indexVars

(* No reindexing, overlapping with others or dying half-way, leaves a      *)
(* search without a section of the document (rag.service.ts indexDocument, *)
(* one transaction deletes and writes).                                    *)
THEOREM SearchStaysComplete == IndexSpec => []SectionsStaySearchable
<1>1. ASSUME IndexInv, [IndexNext]_indexVars  PROVE IndexInv'
  <2>1. CASE IndexNext
    BY <1>1, <2>1, IndexStepKeeps
  <2>2. CASE UNCHANGED indexVars
    BY <1>1, <2>2 DEF IndexInv, SectionsStaySearchable, indexVars
  <2> QED  BY <1>1, <2>1, <2>2
<1>2. IndexInv => SectionsStaySearchable
  BY DEF IndexInv
<1> QED  BY IndexBegins, <1>1, <1>2, PTL DEF IndexSpec

-----------------------------------------------------------------------------
(* The triage graph, beside the index.                                     *)

Both == <<indexVars, triageVars>>
TriageSpec == IndexInit /\ TriageInit /\ [][TriageNext \/ (IndexNext /\ UNCHANGED triageVars)]_Both

(* A draft names only sections it cites, a defect cites something.         *)
Supports(cs, class, draft) ==
  /\ draft.refs \subseteq Sections(cs)
  /\ class = "defect_candidate" => cs # {}
  /\ draft.frame => hasFrame

AnyGraph == [hits : SUBSET Id, strong : BOOLEAN, rewriteCount : Nat, bindLoops : Nat,
             exclude : SUBSET Id, comment : BOOLEAN, seen : BOOLEAN,
             class : Class, chunkIds : SUBSET Id, draft : Draft]
AnyCard  == [class : Class, draft : Draft, named : SUBSET Id, cites : SUBSET Id]

TriageShape ==
  /\ at \in Node /\ g \in AnyGraph /\ shown \in AnyCard
  /\ {hasFrame, thread} \subseteq BOOLEAN /\ rejected \subseteq Id

(* Whatever a run holds was in the table once.                             *)
Seen == g.hits \cup g.chunkIds \cup shown.cites \cup rejected

(* What was rejected is excluded, or has been reindexed away for good: it  *)
(* cannot be found again.  Only a run under way has rejected anything.     *)
RejectedIsLost ==
  /\ \A c \in rejected : c \in g.exclude \/ c \notin chunks
  /\ (g.hits \cup g.chunkIds) \cap rejected = {}
  /\ at \in {"idle", "over"} => rejected = {}

(* The card and the checkpoint agree on what is rejected next.             *)
CardIsSound ==
  at = "hitl" =>
    /\ shown.cites \cap rejected = {}
    /\ shown.cites = shown.named => Supports(shown.cites, shown.class, shown.draft)
    /\ thread => shown.cites \subseteq g.chunkIds
    /\ ~thread => rejected = {}

TriageInv ==
  /\ IndexInv /\ TriageShape
  /\ \A c \in Seen : c[1] <= writes
  /\ RejectedIsLost /\ CardIsSound
  /\ at = "propose" => Supports(g.chunkIds, g.class, g.draft)

LEMMA NothingFits ==
  /\ NoDraft \in Draft /\ Nothing \in AnyCard /\ Nothing.cites = {}
  /\ \A e \in SUBSET Id, b \in BOOLEAN :
       /\ Fresh0(e, b) \in AnyGraph
       /\ Fresh0(e, b).hits = {} /\ Fresh0(e, b).chunkIds = {} /\ Fresh0(e, b).exclude = e
BY DEF NoDraft, Draft, Nothing, AnyCard, Class, Fresh0, AnyGraph

(* The index goes on: ids that are gone do not come back.                  *)
LEMMA IndexBesideTriage ==
  ASSUME TriageInv, IndexNext, UNCHANGED triageVars
  PROVE  TriageInv'
<1>1. IndexInv' /\ writes <= writes' /\ \A c \in chunks' : c \in chunks \/ c[1] = writes + 1
  BY IndexStepKeeps DEF TriageInv
<1>2. writes \in Nat /\ writes' \in Nat
  BY <1>1 DEF TriageInv, IndexInv
<1>3. UNCHANGED <<at, g, hasFrame, shown, thread, rejected, calls>>
  BY DEF triageVars
<1>4. TriageShape' /\ CardIsSound'
      /\ (at = "propose" => Supports(g.chunkIds, g.class, g.draft))'
  BY <1>3 DEF TriageInv, TriageShape, CardIsSound, Supports, Sections, SectionOf
<1>5. \A c \in Seen : c[1] \in Nat /\ c[1] <= writes
  BY DEF TriageInv, Seen, TriageShape, AnyGraph, AnyCard, Id
<1>6. Seen' = Seen
  BY <1>3 DEF Seen
<1>7. \A c \in Seen' : c[1] <= writes'
  BY <1>1, <1>2, <1>5, <1>6
<1>8. \A c \in rejected : c \in chunks' => c \in chunks
  BY <1>1, <1>2, <1>5 DEF Seen
<1>9. RejectedIsLost'
  BY <1>3, <1>8 DEF TriageInv, RejectedIsLost
<1> QED  BY <1>1, <1>4, <1>7, <1>9 DEF TriageInv

(* A step of the graph that neither the card nor the table sees: what it   *)
(* has left to show is the new state of the graph.                         *)
LEMMA NodeStep ==
  ASSUME TriageInv, at \notin Quiet, at' \in Node \ {"idle", "over", "hitl"}, g' \in AnyGraph,
         UNCHANGED <<indexVars, hasFrame, shown, thread, rejected>>,
         g'.hits \cup g'.chunkIds \subseteq g.hits \cup g.chunkIds \cup (chunks \ g.exclude),
         g.exclude \subseteq g'.exclude,
         at' = "propose" => Supports(g'.chunkIds, g'.class, g'.draft)
  PROVE  TriageInv'
<1>1. TriageShape' /\ CardIsSound'
  BY DEF TriageInv, TriageShape, CardIsSound
<1>2. IndexInv'
  BY DEF TriageInv, IndexInv, SectionsStaySearchable, indexVars
<1>3. UNCHANGED <<chunks, writes>>
  BY DEF indexVars
<1>4. \A c \in Seen' : c \in Seen \/ c \in chunks
  BY DEF Seen
<1>5. \A c \in Seen' : c[1] <= writes'
  BY <1>3, <1>4 DEF TriageInv, IndexInv
<1>6. (g'.hits \cup g'.chunkIds) \cap rejected = {}
  BY DEF TriageInv, RejectedIsLost
<1>7. RejectedIsLost'
  BY <1>3, <1>6 DEF TriageInv, RejectedIsLost
<1>8. (at = "propose" => Supports(g.chunkIds, g.class, g.draft))'
  BY DEF Supports, Sections, SectionOf
<1> QED  BY <1>1, <1>2, <1>5, <1>7, <1>8 DEF TriageInv

(* A graph that begins, with what is excluded, or a run that is over.      *)
LEMMA AnewStep ==
  ASSUME TriageInv, NEW e \in SUBSET Id, NEW b \in BOOLEAN, g' = Fresh0(e, b),
         UNCHANGED <<indexVars, hasFrame>>,
         at' \in {"ingest", "over"}, thread' \in BOOLEAN, shown' \in AnyCard,
         shown'.cites \subseteq shown.cites,
         rejected' = {} \/ (at' = "ingest" /\ rejected' \subseteq shown.cites /\ rejected' \cap chunks \subseteq e)
  PROVE  TriageInv'
<1>1. /\ Fresh0(e, b) \in AnyGraph /\ Fresh0(e, b).exclude = e
      /\ Fresh0(e, b).hits = {} /\ Fresh0(e, b).chunkIds = {}
  BY NothingFits
<1>2. shown.cites \subseteq Id
  BY DEF TriageInv, TriageShape, AnyCard
<1>3. TriageShape'
  BY <1>1, <1>2 DEF TriageInv, TriageShape, Node
<1>4. UNCHANGED <<chunks, writes>> /\ IndexInv'
  BY DEF TriageInv, IndexInv, SectionsStaySearchable, indexVars
<1>5. \A c \in Seen' : c \in Seen
  BY <1>1 DEF Seen
<1>6. \A c \in Seen' : c[1] <= writes'
  BY <1>4, <1>5 DEF TriageInv
<1>7. \A c \in rejected' : c \in g'.exclude \/ c \notin chunks'
  BY <1>1, <1>4
<1>8. RejectedIsLost'
  BY <1>1, <1>7 DEF RejectedIsLost
<1> QED  BY <1>3, <1>4, <1>6, <1>8 DEF TriageInv, CardIsSound

(* The nodes.                                                              *)
LEMMA NodesKeep ==
  ASSUME TriageInv, Ingest \/ Retrieve \/ Vision \/ Bind \/ Rewrite \/ Classify \/ Drafting \/ Gate
  PROVE  TriageInv'
<1>0. g \in AnyGraph /\ chunks \subseteq Id /\ shown \in AnyCard /\ NoDraft \in Draft
  BY NothingFits DEF TriageInv, TriageShape, IndexInv
<1>1. CASE Ingest
  <2>1. g' \in AnyGraph /\ g'.hits = g.hits /\ g'.chunkIds = g.chunkIds /\ g.exclude \subseteq g'.exclude
    BY <1>0, <1>1 DEF Ingest, AnyGraph, Cited, AnyCard
  <2> QED  BY <1>1, <2>1, NodeStep DEF Ingest, Step, Quiet, Node
<1>2. CASE Retrieve
  <2>0. PICK hits \in Search :
          \E kept \in Kept(g.hits \cup Found(hits)), strong \in BOOLEAN :
            g' = [g EXCEPT !.hits = kept, !.strong = @ \/ strong]
    BY <1>2 DEF Retrieve
  <2>1. PICK kept \in Kept(g.hits \cup Found(hits)), strong \in BOOLEAN :
          g' = [g EXCEPT !.hits = kept, !.strong = @ \/ strong]
    BY <2>0
  <2>2. hits \subseteq chunks /\ kept \subseteq g.hits \cup (chunks \ g.exclude)
    BY <2>1 DEF Search, Kept, kSubset, Found
  <2>3. kept \in SUBSET Id
    BY <1>0, <2>2 DEF AnyGraph
  <2>4. (g.strong \/ strong) \in BOOLEAN
    OBVIOUS
  <2>5. g' \in AnyGraph /\ g'.hits = kept /\ g'.chunkIds = g.chunkIds /\ g'.exclude = g.exclude
    BY <1>0, <2>1, <2>3, <2>4 DEF AnyGraph
  <2>6. /\ at = "retrieve_docs" /\ at' \in {"maybe_vision", "bind_to_clause"}
        /\ UNCHANGED <<hasFrame, indexVars, shown, thread, rejected>>
    BY <1>2 DEF Retrieve, Step
  <2> QED  BY <2>2, <2>5, <2>6, NodeStep DEF Quiet, Node
<1>3. CASE Vision
  <2>1. g' \in AnyGraph /\ g'.hits = g.hits /\ g'.chunkIds = g.chunkIds /\ g'.exclude = g.exclude
    BY <1>0, <1>3 DEF Vision, AnyGraph
  <2> QED  BY <1>3, <2>1, NodeStep DEF Vision, Step, Quiet, Node
<1>4. CASE Bind
  BY <1>0, <1>4, NodeStep DEF Bind, Step, Quiet, Node
<1>5. CASE Rewrite
  <2>1. g' \in AnyGraph /\ g'.hits = g.hits /\ g'.chunkIds = g.chunkIds /\ g'.exclude = g.exclude
    BY <1>0, <1>5 DEF Rewrite, Rewritten, AnyGraph
  <2> QED  BY <1>5, <2>1, NodeStep DEF Rewrite, Step, Quiet, Node
<1>6. CASE Classify
  <2>1. PICK class \in Class, ids \in SUBSET g.hits, known \in BOOLEAN :
          g' = [g EXCEPT !.class = Ruled(class, ids, known), !.chunkIds = ids]
    BY <1>6 DEF Classify
  <2>2. Ruled(class, ids, known) \in Class /\ ids \in SUBSET Id
    BY <1>0, <2>1 DEF Ruled, Class, AnyGraph
  <2>3. g' \in AnyGraph /\ g'.hits = g.hits /\ g'.chunkIds = ids /\ g'.exclude = g.exclude
    BY <1>0, <2>1, <2>2 DEF AnyGraph
  <2> QED  BY <1>6, <2>1, <2>3, NodeStep DEF Classify, Step, Quiet, Node
<1>7. CASE Drafting
  <2>1. g' \in AnyGraph /\ g'.hits = g.hits /\ g'.chunkIds = g.chunkIds /\ g'.exclude = g.exclude
    BY <1>0, <1>7 DEF Drafting, AnyGraph
  <2> QED  BY <1>7, <2>1, NodeStep DEF Drafting, Step, Quiet, Node
<1>8. CASE Gate
  <2>0. at = "faithfulness_gate" /\ UNCHANGED <<indexVars, hasFrame, shown, thread, rejected>>
    BY <1>8 DEF Gate, Step
  <2>1. CASE Faithful /\ at' = "propose" /\ g' = g
    <3>1. Supports(g.chunkIds, g.class, g.draft)
      BY <2>1 DEF Faithful, Supports, Sections
    <3> QED  BY <1>0, <2>0, <2>1, <3>1, NodeStep DEF Quiet, Node
  <2>2. CASE at' = "bind_to_clause" /\ g' = BackToBind
    <3>1. g' \in AnyGraph /\ g'.hits = g.hits /\ g'.chunkIds = {} /\ g'.exclude = g.exclude
      <4>0. /\ Unanswered \in AnyGraph /\ Unanswered.hits = g.hits
            /\ Unanswered.chunkIds = {} /\ Unanswered.exclude = g.exclude
        <5>1. "unspecified" \in Class
          BY DEF Class
        <5> QED  BY <1>0, <5>1 DEF Unanswered, AnyGraph
      <4>1. PICK u : u = Unanswered
        OBVIOUS
      <4>2. g' = [u EXCEPT !.bindLoops = u.bindLoops + 1]
        BY <2>2, <4>1 DEF BackToBind
      <4> QED  BY <4>0, <4>1, <4>2 DEF AnyGraph
    <3> QED  BY <2>0, <2>2, <3>1, NodeStep DEF Quiet, Node
  <2>3. CASE /\ at' = "propose"
             /\ g' = [g EXCEPT !.class = "cannot_tell", !.chunkIds = {}, !.draft = NoDraft]
    <3>1. /\ g' \in AnyGraph /\ g'.hits = g.hits /\ g'.chunkIds = {} /\ g'.exclude = g.exclude
          /\ g'.class = "cannot_tell" /\ g'.draft = NoDraft
      BY <1>0, <2>3 DEF AnyGraph, Class
    <3>2. Supports(g'.chunkIds, g'.class, g'.draft)
      BY <3>1 DEF Supports, NoDraft
    <3> QED  BY <2>0, <2>3, <3>1, <3>2, NodeStep DEF Quiet, Node
  <2> QED  BY <1>8, <2>1, <2>2, <2>3 DEF Gate, Step
<1> QED  BY <1>1, <1>2, <1>3, <1>4, <1>5, <1>6, <1>7, <1>8

(* The pass comes to its proposal.                                         *)
LEMMA ProposeKeeps == ASSUME TriageInv, Propose  PROVE TriageInv'
<1>0. /\ g \in AnyGraph /\ chunks \subseteq Id /\ Supports(g.chunkIds, g.class, g.draft)
      /\ UNCHANGED <<indexVars, hasFrame, g, rejected>> /\ at' = "hitl" /\ thread' = TRUE
  BY DEF Propose, Step, TriageInv, TriageShape, IndexInv
<1>1. /\ shown' \in AnyCard /\ shown'.class = g.class /\ shown'.draft = g.draft
      /\ shown'.named = g.chunkIds /\ shown'.cites = g.chunkIds \cap chunks
  BY <1>0 DEF Propose, AnyCard, AnyGraph
<1>2. TriageShape' /\ IndexInv' /\ UNCHANGED <<chunks, writes>>
  BY <1>0, <1>1 DEF TriageInv, TriageShape, IndexInv, SectionsStaySearchable, indexVars, Node
<1>3. \A c \in Seen' : c \in Seen
  BY <1>0, <1>1 DEF Seen
<1>4. \A c \in Seen' : c[1] <= writes'
  BY <1>2, <1>3 DEF TriageInv
<1>5. RejectedIsLost'
  BY <1>0, <1>2 DEF TriageInv, RejectedIsLost
<1>6. shown'.cites \cap rejected' = {}
  BY <1>0, <1>1 DEF TriageInv, RejectedIsLost
<1>7. shown'.cites = shown'.named => Supports(shown'.cites, shown'.class, shown'.draft)
  BY <1>0, <1>1
<1>8. CardIsSound'
  BY <1>0, <1>1, <1>6, <1>7 DEF CardIsSound, Supports, Sections, SectionOf
<1> QED  BY <1>0, <1>2, <1>4, <1>5, <1>8 DEF TriageInv

(* `Not that citation`: with a checkpoint everything rejected goes into    *)
(* the excluded ids, without one what is cited and still there does.       *)
LEMMA RejectKeeps == ASSUME TriageInv, RejectBinding  PROVE TriageInv'
<1>0. /\ g \in AnyGraph /\ shown \in AnyCard /\ NoDraft \in Draft /\ CardIsSound /\ RejectedIsLost
      /\ at = "hitl" /\ rejected' = rejected \cup shown.cites /\ UNCHANGED <<indexVars, hasFrame, thread>>
      /\ shown' = [Nothing EXCEPT !.cites = Cited]
  BY NothingFits DEF RejectBinding, TriageInv, TriageShape
<1>1. Cited \in SUBSET Id /\ shown' \in AnyCard /\ shown'.cites = Cited /\ Cited \subseteq shown.cites
  BY <1>0, NothingFits DEF Cited, AnyCard
<1>2. CASE ~thread
  <2>1. at' = "ingest" /\ g' = Fresh0(Cited, TRUE)
    BY <1>0, <1>2 DEF RejectBinding, Begin
  <2>2. rejected' = shown.cites /\ rejected' \cap chunks \subseteq Cited
    BY <1>0, <1>2 DEF CardIsSound, Cited
  <2>3. thread' \in BOOLEAN
    BY <1>0 DEF TriageInv, TriageShape
  <2> QED  BY <1>0, <1>1, <2>1, <2>2, <2>3, AnewStep
<1>3. CASE thread
  <2>1. /\ at' = "retrieve_docs"
        /\ g' = [g EXCEPT !.exclude = Excluded, !.comment = TRUE, !.hits = {}, !.strong = FALSE,
                          !.rewriteCount = 0, !.bindLoops = 0,
                          !.class = "unspecified", !.chunkIds = {}, !.draft = NoDraft]
    BY <1>0, <1>3 DEF RejectBinding
  <2>2. Excluded \in SUBSET Id /\ "unspecified" \in Class
    BY <1>0 DEF Excluded, AnyGraph, Class
  <2>3. g' \in AnyGraph /\ g'.hits = {} /\ g'.chunkIds = {} /\ g'.exclude = Excluded
    BY <1>0, <2>1, <2>2 DEF AnyGraph
  <2>4. rejected' \in SUBSET Id
    BY <1>0, <1>1 DEF TriageInv, TriageShape, AnyCard
  <2>5. TriageShape' /\ IndexInv' /\ UNCHANGED <<chunks, writes>>
    BY <1>0, <1>1, <2>1, <2>3, <2>4 DEF TriageInv, TriageShape, IndexInv, SectionsStaySearchable, indexVars, Node
  <2>6. \A c \in Seen' : c \in Seen
    BY <1>0, <1>1, <2>3 DEF Seen
  <2>7. \A c \in Seen' : c[1] <= writes'
    BY <2>5, <2>6 DEF TriageInv
  <2>8. \A c \in rejected' : c \in g'.exclude \/ c \notin chunks'
    BY <1>0, <1>3, <2>3, <2>5 DEF CardIsSound, RejectedIsLost, Excluded
  <2>9. RejectedIsLost' /\ CardIsSound'
    BY <2>1, <2>3, <2>8 DEF RejectedIsLost, CardIsSound
  <2> QED  BY <2>1, <2>5, <2>7, <2>9 DEF TriageInv
<1> QED  BY <1>2, <1>3

LEMMA TriageStepKeeps == ASSUME TriageInv, TriageNext  PROVE TriageInv'
<1>0. {} \in SUBSET Id /\ Nothing \in AnyCard /\ Nothing.cites = {} /\ thread \in BOOLEAN /\ FALSE \in BOOLEAN
  BY NothingFits DEF TriageInv, TriageShape
<1>1. CASE StartTriage
  <2>1. rejected' = {}
    BY <1>1 DEF StartTriage, TriageInv, RejectedIsLost
  <2>2. /\ g' = Fresh0({}, FALSE) /\ at' = "ingest" /\ shown' = Nothing
        /\ UNCHANGED <<indexVars, hasFrame, thread>>
    BY <1>1 DEF StartTriage, Begin
  <2> QED  BY <1>0, <2>1, <2>2, AnewStep
<1>2. CASE Over
  BY <1>0, <1>2, AnewStep DEF Over
<1> QED
  BY <1>1, <1>2, NodesKeep, ProposeKeeps, RejectKeeps
  DEF TriageNext, GraphStep, Decide, RunFails

LEMMA TriageBegins == ASSUME IndexInit, TriageInit  PROVE TriageInv
<1>0. IndexInv /\ {} \in SUBSET Id /\ FALSE \in BOOLEAN
  BY IndexBegins
<1>1. /\ g \in AnyGraph /\ g.hits = {} /\ g.chunkIds = {} /\ rejected = {} /\ ~thread
      /\ {hasFrame, thread} \subseteq BOOLEAN
  BY <1>0, NothingFits DEF TriageInit
<1>2. CASE at = "idle" /\ shown = Nothing
  <2>1. shown \in AnyCard /\ shown.cites = {}
    BY <1>2, NothingFits
  <2>2. TriageShape /\ Seen = {} /\ RejectedIsLost /\ CardIsSound
    BY <1>1, <1>2, <2>1 DEF TriageShape, Seen, RejectedIsLost, CardIsSound, Node
  <2> QED  BY <1>0, <1>2, <2>2 DEF TriageInv
<1>3. CASE /\ at = "hitl"
           /\ \E cs \in (SUBSET chunks) \ {{}} :
                shown = [class |-> "defect_candidate", draft |-> NoDraft, named |-> cs, cites |-> cs]
  <2>1. PICK cs \in (SUBSET chunks) \ {{}} :
          shown = [class |-> "defect_candidate", draft |-> NoDraft, named |-> cs, cites |-> cs]
    BY <1>3
  <2>2. shown \in AnyCard /\ shown.cites = cs /\ shown.draft = NoDraft
    BY <1>0, <2>1, NothingFits DEF AnyCard, IndexInv, Class
  <2>3. Supports(cs, shown.class, NoDraft)
    BY DEF Supports, NoDraft
  <2>4. TriageShape /\ RejectedIsLost /\ CardIsSound /\ Seen = cs
    BY <1>1, <1>3, <2>2, <2>3 DEF TriageShape, Seen, RejectedIsLost, CardIsSound, Node
  <2> QED  BY <1>0, <1>3, <2>4 DEF TriageInv, IndexInv
<1> QED  BY <1>2, <1>3 DEF TriageInit

(* The inductive invariant of the triage graph: what the card shows rests  *)
(* on what it cites, and what was rejected cannot be found again.          *)
THEOREM TriageInvHolds == TriageSpec => []TriageInv
<1>1. ASSUME TriageInv, [TriageNext \/ (IndexNext /\ UNCHANGED triageVars)]_Both
      PROVE  TriageInv'
  <2>1. CASE UNCHANGED Both
    BY <1>1, <2>1 DEF Both, indexVars, triageVars, TriageInv, TriageShape, IndexInv, SectionsStaySearchable,
       Seen, RejectedIsLost, CardIsSound, Supports, Sections, SectionOf
  <2> QED  BY <1>1, <2>1, TriageStepKeeps, IndexBesideTriage
<1> QED  BY TriageBegins, <1>1, PTL DEF TriageSpec

(* A proposal none of whose citations has been reindexed away names only   *)
(* what it cites, cites something for a defect, speaks of a frame only if  *)
(* there is one; and what the PM rejected is not cited again by the run    *)
(* (faithfulness.ts, triage.graph.ts), whatever the model answers, the     *)
(* search finds and the index does meanwhile.                              *)
THEOREM ProposalsAreSound == TriageSpec => []SoundProposal
<1>1. TriageInv => SoundProposal
  BY DEF TriageInv, CardIsSound, SoundProposal, Supports
<1> QED  BY <1>1, TriageInvHolds, PTL

-----------------------------------------------------------------------------
(* What a pass costs.                                                      *)

AnyCalls == [vision : Nat, rewrite : Nat, classify : Nat, draft : Nat, search : Nat]

(* The counters of the graph's state count the calls.                      *)
CallsCounted ==
  at \notin Quiet =>
    /\ calls.rewrite = g.rewriteCount
    /\ calls.search = g.rewriteCount + (IF at \in {"ingest", "retrieve_docs"} THEN 0 ELSE 1)
    /\ calls.classify = g.bindLoops
         + (IF at \in {"draft_rationale", "faithfulness_gate", "propose"} THEN 1 ELSE 0)
    /\ calls.draft = g.bindLoops + (IF at \in {"faithfulness_gate", "propose"} THEN 1 ELSE 0)

BudgetInv ==
  /\ calls \in AnyCalls /\ CallsBounded /\ CallsCounted
  /\ g.rewriteCount <= MAX_REWRITES /\ g.bindLoops <= MAX_BIND_LOOPS
  /\ at = "rewrite_query" => g.rewriteCount < MAX_REWRITES
  /\ calls.vision = 1 => g.seen
  /\ at = "maybe_vision" => ~g.seen

LEMMA CallAdds ==
  ASSUME BudgetInv, NEW what \in DOMAIN NoCalls, Call(what)
  PROVE  /\ calls' = [calls EXCEPT ![what] = calls[what] + 1] /\ calls' \in AnyCalls
         /\ calls'[what] = calls[what] + 1
         /\ \A other \in DOMAIN NoCalls \ {what} : calls'[other] = calls[other]
<1>1. what \in {"vision", "rewrite", "classify", "draft", "search"} /\ calls \in AnyCalls
  BY DEF NoCalls, BudgetInv
<1>2. calls[what] \in Nat /\ calls[what] <= MAX_REWRITES + MAX_BIND_LOOPS + 1
  BY <1>1, TriageAssumption DEF BudgetInv, CallsBounded, AnyCalls
<1>3. ~(calls[what] > MAX_REWRITES + MAX_BIND_LOOPS + 1)
  BY <1>2, TriageAssumption
<1>4. calls' = [calls EXCEPT ![what] = calls[what] + 1]
  BY <1>3, Zenon DEF Call
<1> QED  BY <1>1, <1>2, <1>4 DEF AnyCalls, NoCalls

LEMMA BudgetNodes ==
  ASSUME BudgetInv, g \in AnyGraph, GraphStep
  PROVE  BudgetInv'
<1>0. /\ calls \in AnyCalls /\ g.rewriteCount \in Nat /\ g.bindLoops \in Nat
      /\ MAX_REWRITES \in Nat /\ MAX_BIND_LOOPS \in Nat
      /\ calls.vision \in Nat /\ calls.rewrite \in Nat /\ calls.classify \in Nat
      /\ calls.draft \in Nat /\ calls.search \in Nat
  BY TriageAssumption DEF BudgetInv, AnyGraph, AnyCalls
<1>1. CASE Ingest
  <2>1. /\ g'.rewriteCount = g.rewriteCount /\ g'.bindLoops = g.bindLoops /\ g'.seen = g.seen
    BY <1>1 DEF Ingest, AnyGraph
  <2> QED  BY <1>0, <1>1, <2>1 DEF Ingest, Step, BudgetInv, CallsBounded, CallsCounted, Quiet
<1>2. CASE Retrieve
  <2>1. /\ g'.rewriteCount = g.rewriteCount /\ g'.bindLoops = g.bindLoops /\ g'.seen = g.seen
    BY <1>2 DEF Retrieve, AnyGraph
  <2>2. /\ at = "retrieve_docs" /\ at' \in {"maybe_vision", "bind_to_clause"}
        /\ at' = "maybe_vision" => ~g.seen
    BY <1>2 DEF Retrieve, Step, Sees
  <2>3. calls' \in AnyCalls /\ calls'.search = calls.search + 1 /\ calls'.vision = calls.vision
        /\ calls'.rewrite = calls.rewrite /\ calls'.classify = calls.classify /\ calls'.draft = calls.draft
    BY <1>2, CallAdds DEF Retrieve, NoCalls
  <2> QED  BY <1>0, <2>1, <2>2, <2>3 DEF BudgetInv, CallsBounded, CallsCounted, Quiet
<1>3. CASE Vision
  <2>1. /\ g'.rewriteCount = g.rewriteCount /\ g'.bindLoops = g.bindLoops /\ g'.seen = TRUE
    BY <1>3 DEF Vision, AnyGraph
  <2>2. at = "maybe_vision" /\ at' = "bind_to_clause" /\ ~g.seen /\ calls.vision = 0
    BY <1>0, <1>3 DEF Vision, Step, BudgetInv, CallsBounded
  <2>3. CASE Call("vision")
    <3>1. calls' \in AnyCalls /\ calls'.search = calls.search /\ calls'.vision = calls.vision + 1
        /\ calls'.rewrite = calls.rewrite /\ calls'.classify = calls.classify /\ calls'.draft = calls.draft
      BY <2>3, CallAdds DEF NoCalls
    <3> QED  BY <1>0, <2>1, <2>2, <3>1 DEF BudgetInv, CallsBounded, CallsCounted, Quiet
  <2>4. CASE UNCHANGED calls
    BY <1>0, <2>1, <2>2, <2>4 DEF BudgetInv, CallsBounded, CallsCounted, Quiet
  <2> QED  BY <1>3, <2>3, <2>4 DEF Vision
<1>4. CASE Bind
  <2>1. /\ at = "bind_to_clause" /\ at' \in {"rewrite_query", "classify_evidence"} /\ UNCHANGED <<g, calls>>
        /\ at' = "rewrite_query" => g.rewriteCount < MAX_REWRITES
    BY <1>4 DEF Bind, Step
  <2> QED  BY <1>0, <2>1 DEF BudgetInv, CallsBounded, CallsCounted, Quiet
<1>5. CASE Rewrite
  <2>1. /\ g'.rewriteCount = g.rewriteCount + 1 /\ g'.bindLoops = g.bindLoops /\ g'.seen = g.seen
    BY <1>5 DEF Rewrite, Rewritten, AnyGraph
  <2>2. at = "rewrite_query" /\ at' = "retrieve_docs"
    BY <1>5 DEF Rewrite, Step
  <2>3. calls' \in AnyCalls /\ calls'.search = calls.search /\ calls'.vision = calls.vision
        /\ calls'.rewrite = calls.rewrite + 1 /\ calls'.classify = calls.classify /\ calls'.draft = calls.draft
    BY <1>5, CallAdds DEF Rewrite, NoCalls
  <2> QED  BY <1>0, <2>1, <2>2, <2>3 DEF BudgetInv, CallsBounded, CallsCounted, Quiet
<1>6. CASE Classify
  <2>1. /\ g'.rewriteCount = g.rewriteCount /\ g'.bindLoops = g.bindLoops /\ g'.seen = g.seen
    BY <1>6 DEF Classify, AnyGraph
  <2>2. at = "classify_evidence" /\ at' = "draft_rationale"
    BY <1>6 DEF Classify, Step
  <2>3. calls' \in AnyCalls /\ calls'.search = calls.search /\ calls'.vision = calls.vision
        /\ calls'.rewrite = calls.rewrite /\ calls'.classify = calls.classify + 1 /\ calls'.draft = calls.draft
    BY <1>6, CallAdds DEF Classify, NoCalls
  <2> QED  BY <1>0, <2>1, <2>2, <2>3 DEF BudgetInv, CallsBounded, CallsCounted, Quiet
<1>7. CASE Drafting
  <2>1. /\ g'.rewriteCount = g.rewriteCount /\ g'.bindLoops = g.bindLoops /\ g'.seen = g.seen
    BY <1>7 DEF Drafting, AnyGraph
  <2>2. at = "draft_rationale" /\ at' = "faithfulness_gate"
    BY <1>7 DEF Drafting, Step
  <2>3. calls' \in AnyCalls /\ calls'.search = calls.search /\ calls'.vision = calls.vision
        /\ calls'.rewrite = calls.rewrite /\ calls'.classify = calls.classify /\ calls'.draft = calls.draft + 1
    BY <1>7, CallAdds DEF Drafting, NoCalls
  <2> QED  BY <1>0, <2>1, <2>2, <2>3 DEF BudgetInv, CallsBounded, CallsCounted, Quiet
<1>8. CASE Gate
  <2>1. at = "faithfulness_gate" /\ at' \in {"propose", "bind_to_clause"} /\ UNCHANGED calls
    BY <1>8 DEF Gate, Step
  <2>2. CASE at' = "bind_to_clause"
    <3>1. g' = BackToBind /\ g.bindLoops < MAX_BIND_LOOPS
      BY <1>8, <2>2 DEF Gate, Step, LoopsLeft
    <3>2. Unanswered.rewriteCount = g.rewriteCount /\ Unanswered.bindLoops = g.bindLoops
          /\ Unanswered.seen = g.seen
      BY DEF Unanswered, AnyGraph
    <3>3. g'.rewriteCount = g.rewriteCount /\ g'.bindLoops = g.bindLoops + 1 /\ g'.seen = g.seen
      BY <3>1, <3>2 DEF BackToBind, Unanswered, AnyGraph
    <3> QED  BY <1>0, <2>1, <2>2, <3>1, <3>3 DEF BudgetInv, CallsBounded, CallsCounted, Quiet
  <2>3. CASE at' = "propose"
    <3>1. g'.rewriteCount = g.rewriteCount /\ g'.bindLoops = g.bindLoops /\ g'.seen = g.seen
      BY <1>8, <2>3 DEF Gate, Step, AnyGraph
    <3> QED  BY <1>0, <2>1, <2>3, <3>1 DEF BudgetInv, CallsBounded, CallsCounted, Quiet
  <2> QED  BY <2>1, <2>2, <2>3
<1>9. CASE Propose
  <2>1. at' = "hitl" /\ UNCHANGED <<g, calls>>
    BY <1>9 DEF Propose, Step
  <2> QED  BY <1>0, <2>1 DEF BudgetInv, CallsBounded, CallsCounted, Quiet
<1> QED  BY <1>1, <1>2, <1>3, <1>4, <1>5, <1>6, <1>7, <1>8, <1>9 DEF GraphStep

(* A pass begins with nothing spent, but for the look at the frame, which  *)
(* a resumption remembers.                                                 *)
LEMMA BudgetBegins ==
  ASSUME g' = Fresh0({}, FALSE) \/ g' = Fresh0(Cited, TRUE), calls' = NoCalls,
         at' \in {"idle", "ingest", "over", "hitl"}
  PROVE  BudgetInv'
<1>1. g'.rewriteCount = 0 /\ g'.bindLoops = 0
  BY DEF Fresh0
<1>2. calls'.vision = 0 /\ calls'.rewrite = 0 /\ calls'.classify = 0 /\ calls'.draft = 0
      /\ calls'.search = 0 /\ calls' \in AnyCalls
  BY DEF NoCalls, AnyCalls
<1> QED  BY <1>1, <1>2, TriageAssumption DEF BudgetInv, CallsBounded, CallsCounted, Quiet

LEMMA BudgetStep ==
  ASSUME BudgetInv, g \in AnyGraph, TriageNext
  PROVE  BudgetInv'
<1>1. CASE StartTriage
  BY <1>1, BudgetBegins DEF StartTriage, Begin
<1>2. CASE Over
  BY <1>2, BudgetBegins DEF Over
<1>3. CASE RejectBinding
  <2>1. CASE ~thread
    BY <1>3, <2>1, BudgetBegins DEF RejectBinding, Begin
  <2>2. CASE thread
    <3>1. /\ at' = "retrieve_docs" /\ calls' = [NoCalls EXCEPT !.vision = calls.vision]
          /\ g'.rewriteCount = 0 /\ g'.bindLoops = 0 /\ g'.seen = g.seen
      BY <1>3, <2>2 DEF RejectBinding, AnyGraph
    <3>2. calls'.vision = calls.vision /\ calls'.rewrite = 0 /\ calls'.classify = 0 /\ calls'.draft = 0
          /\ calls'.search = 0 /\ calls' \in AnyCalls
      BY <3>1 DEF NoCalls, AnyCalls, BudgetInv
    <3> QED  BY <3>1, <3>2, TriageAssumption DEF BudgetInv, CallsBounded, CallsCounted, Quiet
  <2> QED  BY <2>1, <2>2
<1> QED  BY <1>1, <1>2, <1>3, BudgetNodes DEF TriageNext, Decide, RunFails

(* One pass costs at most one look at the frame, MAX_REWRITES rewritings   *)
(* and one search more, and one answer and one draft more than             *)
(* MAX_BIND_LOOPS (docs/GRAPH.md), however the loops interleave: the safe  *)
(* half of PassEnds.                                                       *)
THEOREM PassesAreBounded == TriageSpec => []CallsBounded
<1>1. ASSUME IndexInit, TriageInit  PROVE BudgetInv
  <2>1. /\ calls = NoCalls /\ at \in Quiet
        /\ at # "rewrite_query" /\ at # "maybe_vision"
    BY <1>1 DEF TriageInit, Quiet
  <2>2. g.rewriteCount = 0 /\ g.bindLoops = 0
    BY <1>1 DEF TriageInit, Fresh0
  <2>3. calls.vision = 0 /\ calls.rewrite = 0 /\ calls.classify = 0 /\ calls.draft = 0
        /\ calls.search = 0 /\ calls \in AnyCalls
    BY <2>1 DEF NoCalls, AnyCalls
  <2>4. CallsBounded /\ CallsCounted
    BY <2>1, <2>3, TriageAssumption DEF CallsBounded, CallsCounted
  <2> QED  BY <2>1, <2>2, <2>3, <2>4, TriageAssumption DEF BudgetInv
<1>2. ASSUME BudgetInv, TriageInv, [TriageNext \/ (IndexNext /\ UNCHANGED triageVars)]_Both
      PROVE  BudgetInv'
  <2>1. g \in AnyGraph
    BY <1>2 DEF TriageInv, TriageShape
  <2>2. CASE UNCHANGED triageVars
    BY <1>2, <2>2 DEF triageVars, BudgetInv, CallsBounded, CallsCounted
  <2> QED  BY <1>2, <2>1, <2>2, BudgetStep DEF Both
<1>3. BudgetInv => CallsBounded
  BY DEF BudgetInv
<1> QED  BY <1>1, <1>2, <1>3, TriageInvHolds, PTL DEF TriageSpec

-----------------------------------------------------------------------------
(* What the customer is shown of a retest.                                 *)

LEMMA MinIsLeast ==
  ASSUME NEW S \in SUBSET Nat, S # {}
  PROVE  Min(S) \in S /\ \A k \in S : Min(S) <= k
<1>1. \E n \in S : \A k \in S : n <= k
  BY LeastNatural
<1> QED  BY <1>1, Zenon DEF Min

LEMMA MaxIsLargest ==
  ASSUME NEW S \in SUBSET Nat, IsFiniteSet(S), S # {}
  PROVE  Max(S) \in S /\ \A k \in S : k <= Max(S)
<1>1. PICK n \in S : \A k \in S : k <= n
  BY FiniteHasLargest
<1>2. n \in S /\ \A k \in S : n >= k
  BY <1>1
<1>3. Max(S) \in S /\ \A k \in S : Max(S) >= k
  BY <1>2, Zenon DEF Max
<1> QED  BY <1>3

(* The box (diff.service.ts) is the smallest that holds every changed      *)
(* pixel.                                                                  *)
LEMMA BoxFrames ==
  ASSUME NEW px \in SUBSET (Nat \X Nat), IsFiniteSet(px), px # {}
  PROVE  /\ FramesExactly(BoundingBox(px), px)
         /\ BoundingBox(px).width \in Int /\ BoundingBox(px).height \in Int
<1> DEFINE xs == {p[1] : p \in px}
           ys == {p[2] : p \in px}
<1>1. xs \in SUBSET Nat /\ ys \in SUBSET Nat /\ xs # {} /\ ys # {}
  OBVIOUS
<1>2. IsFiniteSet(xs) /\ IsFiniteSet(ys)
  <2>1. [p \in px |-> p[1]] \in Surjection(px, xs)
    BY DEF Surjection
  <2>2. [p \in px |-> p[2]] \in Surjection(px, ys)
    BY DEF Surjection
  <2> HIDE DEF xs, ys
  <2> QED  BY <2>1, <2>2, FS_Surjection
<1>3. /\ \A p \in px : p[1] \in xs /\ p[2] \in ys
      /\ \A x \in xs : \E p \in px : p[1] = x
      /\ \A y \in ys : \E p \in px : p[2] = y
  OBVIOUS
<1>4. BoundingBox(px) = [x |-> Min(xs), y |-> Min(ys),
                         width |-> Max(xs) - Min(xs) + 1, height |-> Max(ys) - Min(ys) + 1]
  BY DEF BoundingBox
<1> HIDE DEF xs, ys
<1>5. Min(xs) \in xs /\ Max(xs) \in xs /\ \A x \in xs : Min(xs) <= x /\ x <= Max(xs)
  BY <1>1, <1>2, MinIsLeast, MaxIsLargest
<1>6. Min(ys) \in ys /\ Max(ys) \in ys /\ \A y \in ys : Min(ys) <= y /\ y <= Max(ys)
  BY <1>1, <1>2, MinIsLeast, MaxIsLargest
<1>7. \A x \in xs : x \in Int
  BY <1>1
<1>8. \A y \in ys : y \in Int
  BY <1>1
<1> DEFINE r == BoundingBox(px)
<1>9. /\ r.x = Min(xs) /\ r.x + r.width = Max(xs) + 1 /\ r.x + r.width - 1 = Max(xs)
      /\ r.y = Min(ys) /\ r.y + r.height = Max(ys) + 1 /\ r.y + r.height - 1 = Max(ys)
  BY <1>4, <1>5, <1>6, <1>7, <1>8
<1>10. \A p \in px : Inside(p, r)
  <2> SUFFICES ASSUME NEW p \in px PROVE Inside(p, r)
    OBVIOUS
  <2>1. p[1] \in xs /\ p[2] \in ys
    BY <1>3
  <2>2. /\ Min(xs) <= p[1] /\ p[1] < Max(xs) + 1
        /\ Min(ys) <= p[2] /\ p[2] < Max(ys) + 1
    BY <1>5, <1>6, <1>7, <1>8, <2>1
  <2> QED  BY <1>9, <2>2 DEF Inside
<1>11. /\ \E p \in px : p[1] = Min(xs)
       /\ \E p \in px : p[1] = Max(xs)
       /\ \E p \in px : p[2] = Min(ys)
       /\ \E p \in px : p[2] = Max(ys)
  BY <1>3, <1>5, <1>6
<1>12. r.width = Max(xs) - Min(xs) + 1 /\ r.height = Max(ys) - Min(ys) + 1
  BY <1>4
<1>13. r.width \in Int /\ r.height \in Int
  BY <1>5, <1>6, <1>7, <1>8, <1>12
<1> QED  BY <1>9, <1>10, <1>11, <1>13 DEF FramesExactly

(* A file of the model, or none.                                           *)
IsFile(f) ==
  /\ f.width \in Nat /\ f.height \in Nat
  /\ IsFiniteSet(f.ink) /\ f.ink \subseteq Nat \X Nat

LEMMA ChangesAreFinite ==
  ASSUME NEW f, NEW h, IsFile(f), IsFile(h)
  PROVE  Changed(f, h) \in SUBSET (Nat \X Nat) /\ IsFiniteSet(Changed(f, h))
<1>1. IsFiniteSet(f.ink \cup h.ink)
  BY FS_Union DEF IsFile
<1>2. Changed(f, h) \subseteq f.ink \cup h.ink
  BY DEF Changed, SymDiff
<1>3. f.ink \cup h.ink \subseteq Nat \X Nat
  BY DEF IsFile
<1> QED  BY <1>1, <1>2, <1>3, FS_Subset

(* Two frames the comparison lets the model explain: of one size, that     *)
(* differ a little.                                                        *)
Comparable(f, h) ==
  /\ Decodes(f) /\ Decodes(h) /\ SizeOf(f) = SizeOf(h)
  /\ 100 * Cardinality(Changed(f, h)) <= NOISE_RATIO * Area(h)

LEMMA ComparedFrames ==
  ASSUME NEW f, NEW h, IsFile(f), IsFile(h), Compare(f, h).kind # "cannot_compare"
  PROVE  /\ Comparable(f, h)
         /\ Compare(f, h).changed = Changed(f, h)
         /\ Changed(f, h) # {} =>
              /\ FramesExactly(Compare(f, h).region, Changed(f, h))
              /\ 100 * Area(Compare(f, h).region) <= REGION_RATIO * Area(h)
              /\ Compare(f, h).region # NoRegion
<1> DEFINE px == Changed(f, h)
           box == IF px = {} THEN NoRegion ELSE BoundingBox(px)
           Noisy == 100 * Cardinality(px) > NOISE_RATIO * Area(f)
                    \/ 100 * Area(box) > REGION_RATIO * Area(f)
<1>1. /\ Decodes(f) /\ Decodes(h) /\ SizeOf(f) = SizeOf(h) /\ ~Noisy
      /\ Compare(f, h) = [kind |-> "ok", size |-> SizeOf(f), region |-> box, changed |-> px]
  BY Zenon DEF Compare, CannotCompare
<1>2. px \in SUBSET (Nat \X Nat) /\ Cardinality(px) \in Nat /\ IsFiniteSet(px)
  BY ChangesAreFinite, FS_CardinalityType
<1>3. f.width = h.width /\ f.height = h.height
  BY <1>1 DEF SizeOf
<1>4. Area(f) = Area(h) /\ Area(h) \in Nat
  BY <1>3 DEF Area, IsFile
<1>5. 100 * Cardinality(px) <= NOISE_RATIO * Area(h)
  BY <1>1, <1>2, <1>4 DEF NOISE_RATIO
<1>6. px # {} => FramesExactly(Compare(f, h).region, px)
  BY <1>1, <1>2, BoxFrames
<1>7. px # {} => Area(box) \in Int
  BY <1>2, BoxFrames DEF Area
<1>8. px # {} => 100 * Area(Compare(f, h).region) <= REGION_RATIO * Area(h)
  BY <1>1, <1>4, <1>7 DEF REGION_RATIO
<1>9. px # {} => Compare(f, h).region # NoRegion
  BY <1>2, <1>6 DEF FramesExactly, Inside, NoRegion
<1> QED  BY <1>1, <1>5, <1>6, <1>8, <1>9 DEF Comparable

-----------------------------------------------------------------------------
(* The retest graph by itself; nobody makes it go on.                      *)
RetestSpec == RetestInit /\ [][RetestNext]_retestVars

Frames ==
  /\ original \in {NoFile} \cup Original /\ retest \in {NoFile} \cup Retest
  /\ IsFile(original) /\ IsFile(retest)

LEMMA EveryFrameIsAFile ==
  ASSUME NEW f \in {NoFile} \cup Original \cup Retest
  PROVE  IsFile(f)
<1>1. IsFile(NoFile)
  BY FS_EmptySet DEF IsFile, NoFile
<1> QED  BY <1>1, FileAssumption DEF IsFile

(* What stands in the result, on whose word.                               *)
Grounded ==
  /\ outcome.what = "likely_addressed" => outcome.by = "model"
  /\ outcome = [what |-> "likely_unchanged", by |-> "code"] =>
       SizeOf(original) = SizeOf(retest) /\ Changed(original, retest) = {}
  /\ outcome.by = "model" => Showable(original) /\ Showable(retest)
  /\ outcome.by = "model" /\ strategy = "diff_explain" =>
       Comparable(original, retest) /\ Changed(original, retest) # {}

(* Under the strategy that compares, the model speaks of a region.         *)
SpeaksOfRegion ==
  outcome.by = "model" /\ strategy = "diff_explain" => region # NoRegion

(* The model is asked at `explain` about frames that were compared and at  *)
(* `judge_frames` under the other strategy only; a region, once there,     *)
(* frames what has changed, and the card shows no other.                   *)
RetestInv ==
  /\ Frames
  /\ rat = "judge_frames" => strategy = "llm_only"
  /\ rat = "explain" =>
       Comparable(original, retest) /\ Changed(original, retest) # {} /\ region # NoRegion
  /\ rat \in {"apply_retest", "hitl_business"} => Grounded /\ SpeaksOfRegion
  /\ region # NoRegion => RegionFits(region)
  /\ rat \in {"load", "pixel_diff"} => region = NoRegion
  /\ pictured.region \in {NoRegion, region}
  /\ rat = "hitl_business" => pictured.region = region

LEMMA RetestBegins ==
  ASSUME RetestInit
  PROVE  RetestInv
<1>1. Frames
  BY EveryFrameIsAFile DEF RetestInit, Frames
<1> QED  BY <1>1 DEF RetestInit, RetestInv, NoPicture

(* Where the frames stay, so does what was said of them.                   *)
LEMMA FramesStay ==
  ASSUME RetestInv, UNCHANGED <<original, retest, strategy>>
  PROVE  /\ Frames'
         /\ (Comparable(original, retest) /\ Changed(original, retest) # {})
              => (Comparable(original, retest) /\ Changed(original, retest) # {})'
         /\ UNCHANGED outcome /\ Grounded => Grounded'
         /\ UNCHANGED <<outcome, region>> /\ SpeaksOfRegion => SpeaksOfRegion'
         /\ UNCHANGED region => (region # NoRegion => RegionFits(region))'
BY DEF RetestInv, Frames, IsFile, Comparable, Decodes, Showable, SizeOf, Area, Changed, SymDiff,
       Grounded, SpeaksOfRegion, RegionFits, FramesExactly, Inside

LEMMA DiffKeeps ==
  ASSUME RetestInv, DiffNode
  PROVE  RetestInv'
<1> DEFINE r == Compare(original, retest)
           px == Changed(original, retest)
<1>0. IsFile(original) /\ IsFile(retest) /\ GoOn("pixel_diff", rat')
  BY DEF RetestInv, Frames, DiffNode, GoOn
<1>1. /\ rat = "pixel_diff" /\ UNCHANGED <<original, retest, strategy>> /\ Frames'
  BY <1>0, FramesStay DEF GoOn
<1>2. r.kind # "cannot_compare" =>
        /\ Comparable(original, retest) /\ r.changed = px
        /\ px # {} => RegionFits(r.region) /\ r.region # NoRegion
  BY <1>0, ComparedFrames DEF RegionFits
<1>3. CASE rat' = "apply_retest"
  <2>1. UNCHANGED <<region, pictured>>
    BY <1>3 DEF DiffNode, GoOn
  <2>2. \/ outcome' = [what |-> "cannot_tell", by |-> "code"]
        \/ /\ outcome' = [what |-> "likely_unchanged", by |-> "code"]
           /\ r.kind # "cannot_compare" /\ r.changed = {}
    BY <1>3 DEF DiffNode, GoOn, Says, WithoutModel
  <2>3. (SizeOf(original) = SizeOf(retest) /\ Changed(original, retest) = {})'
        \/ outcome' = [what |-> "cannot_tell", by |-> "code"]
    BY <1>1, <1>2, <2>2 DEF Comparable, SizeOf, Changed, SymDiff
  <2>4. Grounded'
    BY <2>2, <2>3 DEF Grounded
  <2>5. SpeaksOfRegion'
    BY <2>2 DEF SpeaksOfRegion
  <2> QED  BY <1>1, <1>3, <2>1, <2>4, <2>5, FramesStay DEF RetestInv
<1>4. CASE rat' = "explain"
  <2>1. r.kind # "cannot_compare" /\ px # {} /\ region' = r.region /\ UNCHANGED pictured
    BY <1>2, <1>4 DEF DiffNode, GoOn
  <2>2. RegionFits(r.region) /\ region' # NoRegion
    BY <1>2, <2>1
  <2>4. (region # NoRegion => RegionFits(region))'
    BY <1>1, <2>1, <2>2 DEF RegionFits, FramesExactly, Inside, Changed, SymDiff, Area
  <2>5. (Comparable(original, retest) /\ Changed(original, retest) # {})'
    BY <1>1, <1>2, <2>1, FramesStay
  <2>6. pictured.region = NoRegion
    BY <1>1 DEF RetestInv
  <2> QED  BY <1>1, <1>4, <2>1, <2>2, <2>4, <2>5, <2>6 DEF RetestInv
<1> QED  BY <1>3, <1>4 DEF DiffNode, GoOn

LEMMA AskKeeps ==
  ASSUME RetestInv, NEW node \in {"explain", "judge_frames"}, Ask(node)
  PROVE  RetestInv'
<1>1. /\ rat = node /\ rat' = "apply_retest" /\ UNCHANGED <<original, retest, strategy, region, pictured>>
  BY DEF Ask, GoOn
<1>2. CASE outcome' = [what |-> "cannot_tell", by |-> "code"]
  <2>1. Grounded'
    BY <1>2 DEF Grounded
  <2>2. SpeaksOfRegion'
    BY <1>2 DEF SpeaksOfRegion
  <2> QED  BY <1>1, <2>1, <2>2, FramesStay DEF RetestInv
<1>3. CASE outcome' # [what |-> "cannot_tell", by |-> "code"]
  <2>1. Showable(original) /\ Showable(retest) /\ outcome'.by = "model"
        /\ outcome' # [what |-> "likely_unchanged", by |-> "code"]
    BY <1>3 DEF Ask, Loads, Says
  <2>2. (Showable(original) /\ Showable(retest))'
    BY <1>1, <2>1 DEF Showable
  <2>3. strategy = "diff_explain" => Comparable(original, retest) /\ Changed(original, retest) # {}
    BY <1>1 DEF RetestInv
  <2>4. (strategy = "diff_explain" => Comparable(original, retest) /\ Changed(original, retest) # {})'
    BY <1>1, <2>3, FramesStay
  <2>5. Grounded'
    BY <2>1, <2>2, <2>4 DEF Grounded
  <2>6. SpeaksOfRegion'
    BY <1>1 DEF RetestInv, SpeaksOfRegion
  <2> QED  BY <1>1, <2>5, <2>6, FramesStay DEF RetestInv
<1> QED  BY <1>2, <1>3

(* On whose word the customer reads what of a retest (ADR 002), whatever   *)
(* the frames, the model's answers and the storage do, under both          *)
(* strategies and through any number of retests.                           *)
THEOREM OutcomesAreGrounded == RetestSpec => []OutcomeHasGround
<1>1. ASSUME RetestInv, [RetestNext]_retestVars
      PROVE  RetestInv'
  <2>1. CASE StartRetest
    <3>1. Frames'
      BY <1>1, <2>1, EveryFrameIsAFile DEF StartRetest, RetestInv, Frames
    <3> QED  BY <2>1, <3>1 DEF StartRetest, RetestInv, NoPicture
  <2>2. CASE FilesVanish
    BY <1>1, <2>2, FramesStay DEF FilesVanish, RetestInv
  <2>3. CASE Load
    BY <1>1, <2>3, FramesStay DEF Load, GoOn, RetestInv
  <2>4. CASE DiffNode
    BY <1>1, <2>4, DiffKeeps
  <2>5. CASE Explain \/ Judge
    BY <1>1, <2>5, AskKeeps DEF Explain, Judge
  <2>6. CASE ApplyRetest
    BY <1>1, <2>6, FramesStay DEF ApplyRetest, GoOn, RetestInv
  <2>7. CASE DecideRetest \/ RetestFails
    BY <1>1, <2>7, FramesStay DEF DecideRetest, RetestFails, GoOn, RetestInv
  <2>8. CASE UNCHANGED retestVars
    BY <1>1, <2>8, FramesStay DEF retestVars, RetestInv
  <2> QED  BY <1>1, <2>1, <2>2, <2>3, <2>4, <2>5, <2>6, <2>7, <2>8 DEF RetestNext, RetestStep
<1>2. RetestInv => OutcomeHasGround
  BY DEF RetestInv, Grounded, SpeaksOfRegion, Comparable, OutcomeHasGround
<1> QED  BY RetestBegins, <1>1, <1>2, PTL DEF RetestSpec
================================================================================
