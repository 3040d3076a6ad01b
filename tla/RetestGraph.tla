----------------------------- MODULE RetestGraph -----------------------------
(***************************************************************************)
(* The retest graph (src/apps/api/src/agent/retest.graph.ts): the frame of *)
(* the remark and the newest frame of the retest, compared by PixelDiff,   *)
(* explained by the model (external), decided by the customer.             *)
(* The explanation is reduced to who says it (by).                         *)
(***************************************************************************)
EXTENDS PixelDiff

CONSTANTS
  Original, \* the files the first frame may be
  Retest    \* the files a frame of a retest may be

(* A picture has finitely many pixels.                                     *)
ASSUME FileAssumption ==
  \A f \in Original \cup Retest :
    /\ f.width \in Nat /\ f.height \in Nat
    /\ IsFiniteSet(f.ink) /\ f.ink \subseteq Nat \X Nat

VARIABLES
  rat,       \* the node the graph continues with
  strategy,  \* RETEST_STRATEGY
  original,  \* the frame of the remark, or NoFile
  retest,    \* the newest frame of the retest, or NoFile
  stored,    \* the storage still has the files
  measured,  \* retestSize of the graph's state
  region,    \* diff of the graph's state: the region its picture shows
  outcome,   \* result of the graph's state: what, and on whose word
  pictured   \* what the card shows: size of the retest frame, region

retestVars == <<rat, strategy, original, retest, stored, measured, region, outcome, pictured>>

NoFile == [kind |-> "absent", width |-> 0, height |-> 0, ink |-> {}]

RetestNode == {"idle", "load", "pixel_diff", "judge_frames", "explain", "apply_retest",
               "hitl_business", "over"}
Outcome == {"likely_addressed", "likely_unchanged", "cannot_tell"}
NoOutcome == [what |-> "none", by |-> "nobody"]
NoPicture == [region |-> NoRegion, size |-> NoSize]

RetestTypeOK ==
  /\ rat \in RetestNode
  /\ strategy \in {"diff_explain", "llm_only"}
  /\ original \in {NoFile} \cup Original /\ retest \in {NoFile} \cup Retest
  /\ stored \in BOOLEAN
  /\ measured \in {NoSize, SizeOf(retest)}
  /\ outcome \in {NoOutcome} \cup [what : Outcome, by : {"code", "model"}]
  /\ region.width >= 0 /\ region.height >= 0
  /\ pictured \in {NoPicture, [region |-> region, size |-> measured]}

RetestInit ==
  /\ rat = "idle"
  /\ strategy \in {"diff_explain", "llm_only"}
  /\ original \in Original \cup {NoFile}
  /\ retest = NoFile
  /\ stored = TRUE
  /\ measured = NoSize /\ region = NoRegion /\ outcome = NoOutcome /\ pictured = NoPicture

-----------------------------------------------------------------------------
(* The customer sends a frame; the round of frames before it is superseded.*)
StartRetest ==
  /\ rat \in {"idle", "over"}
  /\ rat' = "load"
  /\ retest' \in Retest
  /\ measured' = NoSize /\ region' = NoRegion /\ outcome' = NoOutcome /\ pictured' = NoPicture
  /\ UNCHANGED <<strategy, original, stored>>

(* A volume that is not mounted, a directory that has been removed.        *)
FilesVanish ==
  /\ stored /\ rat \notin {"idle", "over"}
  /\ stored' = FALSE
  /\ UNCHANGED <<rat, strategy, original, retest, measured, region, outcome, pictured>>

GoOn(from, to) ==
  /\ rat = from /\ rat' = to
  /\ UNCHANGED <<strategy, original, retest, stored>>

Load ==
  /\ GoOn("load", IF strategy = "llm_only" THEN "judge_frames" ELSE "pixel_diff")
  /\ UNCHANGED <<measured, region, outcome, pictured>>

Says(what, by) == outcome' = [what |-> what, by |-> by]

(* What the comparison says by itself, without the model.                  *)
WithoutModel(r) ==
  IF r.kind = "cannot_compare" THEN "cannot_tell" ELSE "likely_unchanged"

DiffNode ==
  LET r == Compare(original, retest) IN
  \/ /\ original = NoFile
     /\ GoOn("pixel_diff", "apply_retest") /\ Says("cannot_tell", "code")
     /\ UNCHANGED <<measured, region, pictured>>
  \/ /\ original # NoFile /\ stored
     /\ r.kind = "cannot_compare" \/ r.changed = {}
     /\ GoOn("pixel_diff", "apply_retest") /\ Says(WithoutModel(r), "code")
     /\ measured' = r.size
     /\ UNCHANGED <<region, pictured>>
  \/ /\ original # NoFile /\ stored
     /\ r.kind = "ok" /\ r.changed # {}
     /\ GoOn("pixel_diff", "explain")
     /\ measured' = r.size /\ region' = r.region
     /\ UNCHANGED <<outcome, pictured>>

(* The model is asked with all the frames, or not at all.                  *)
Loads == stored /\ original # NoFile /\ Showable(original) /\ Showable(retest)

(* Explain and judge differ in what the model is shown.                    *)
Ask(node) ==
  /\ GoOn(node, "apply_retest")
  /\ \/ Loads  /\ \E what \in Outcome : Says(what, "model")
     \/ ~Loads /\ Says("cannot_tell", "code")
  /\ UNCHANGED <<measured, region, pictured>>

Explain == Ask("explain")
Judge   == Ask("judge_frames")

ApplyRetest ==
  /\ GoOn("apply_retest", "hitl_business")
  /\ pictured' = [region |-> region, size |-> measured]
  /\ UNCHANGED <<measured, region, outcome>>

DecideRetest ==
  /\ GoOn("hitl_business", "over")
  /\ UNCHANGED <<measured, region, outcome, pictured>>

(* A file that is not there, the model, the database.                      *)
RetestFails ==
  /\ rat \in {"load", "pixel_diff", "judge_frames", "explain", "apply_retest"}
  /\ GoOn(rat, "over")
  /\ UNCHANGED <<measured, region, outcome, pictured>>

RetestStep == Load \/ DiffNode \/ Explain \/ Judge \/ ApplyRetest

RetestNext == StartRetest \/ FilesVanish \/ RetestStep \/ DecideRetest \/ RetestFails

-----------------------------------------------------------------------------
(* A region is the exact frame of the changes, and does not spread over    *)
(* the picture.                                                            *)
RegionFits(r) ==
  /\ FramesExactly(r, Changed(original, retest))
  /\ 100 * Area(r) <= REGION_RATIO * Area(retest)

(* ADR 002: the pixels are counted by the code, the model only says whether*)
(* they are what was asked for.  `Unchanged` without the model is said of  *)
(* equal pictures only; the model is asked about pictures of one size that *)
(* differ in a little and in one place, exactly the region the card then   *)
(* shows; and only the model says `addressed`.  (The other strategy, H0,   *)
(* shows it files that merely look like pictures.)                         *)
OutcomeHasGround ==
  rat = "hitl_business" =>
    LET px == Changed(original, retest) IN
    /\ outcome.what = "likely_addressed" => outcome.by = "model"
    /\ outcome = [what |-> "likely_unchanged", by |-> "code"] =>
         SizeOf(original) = SizeOf(retest) /\ px = {}
    /\ outcome.by = "model" => Showable(original) /\ Showable(retest)
    /\ outcome.by = "model" /\ strategy = "diff_explain" =>
         /\ Decodes(original) /\ Decodes(retest) /\ SizeOf(original) = SizeOf(retest)
         /\ px # {} /\ 100 * Cardinality(px) <= NOISE_RATIO * Area(retest)
         /\ pictured.region # NoRegion
    /\ pictured.region # NoRegion => RegionFits(pictured.region)
=============================================================================
