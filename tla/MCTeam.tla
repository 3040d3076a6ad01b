-------------------------------- MODULE MCTeam --------------------------------
(* What people do in a project at the same time: open and close rounds and *)
(* file remarks in them, import a journal, follow links through logins and *)
(* changes of role, read their bell, in two tabs, decide with five seconds *)
(* to undo it, go from card to card while runs work on them.  The seven    *)
(* share no state, so they are looked at one at a time (mode).  Two        *)
(* callers are enough for every race of two requests; they are             *)
(* interchangeable.                                                        *)
EXTENDS RoundGate, NotificationBell, PendingAction, CardRoom, TabAttention, JournalImport, Navigation

VARIABLE mode

allVars == <<mode, vars, bellVars, pendingVars, cardVars, attentionVars, importVars, navVars>>

Mode == {"rounds", "bell", "decisions", "card", "tabs", "import", "pages"}

(* Cells of a csv row, fewer or more than the header's, and rows of a      *)
(* workbook with a picture.                                                *)
Line(cells) == [cells |-> cells, image |-> FALSE]
Short  == {Line(c) : c \in UNION {[1..n -> {"empty", "text", "long"}] : n \in 0..3}}
Framed == {[cells |-> c, image |-> TRUE] : c \in {<<"empty", "empty">>, <<"text", "empty">>}}
Header == {<<"description", "expected">>, <<"expected", "description", "">>,
           <<"", "description", "expected">>, <<"description">>,
           <<"description", "expected", "other">>, <<"expected", "description", "expected">>}

(* One row under every header; two or three rows, one of them empty or     *)
(* with a picture only: three are more than MaxRows.                       *)
MCJournal ==
  [header : Header, rows : {<<r>> : r \in Short \cup Framed}]
  \cup [header : {<<"expected", "description">>},
        rows : {<<Line(<<"empty", "text">>), r, Line(<<"text">>)>> : r \in Framed \cup {Line(<<>>)}}]

FirstJournal == [header |-> <<"description", "expected">>, rows |-> <<Line(<<"text">>)>>]

(* A part that is not looked at has one initial state only.                *)
TeamInit ==
  /\ mode \in Mode
  /\ NavInit
  /\ mode # "pages" => membership = "none" /\ card = "missing" /\ ~chief /\ session = NoSession
                      /\ trip = Trip(Other("root"))
  /\ BellInit
  /\ mode # "bell" => \A n \in Note : note[n] = [state |-> "no", role |-> "pm"]
  /\ AttentionInit
  /\ mode # "tabs" => ~sound /\ ~desktop
  /\ ImportInit
  /\ mode # "import" => journal = FirstJournal
  /\ Init /\ PendingInit /\ CardInit

TeamNext ==
  \/ mode = "rounds" /\ Next
     /\ UNCHANGED <<mode, bellVars, pendingVars, cardVars, attentionVars, importVars, navVars>>
  \/ mode = "bell" /\ BellNext
     /\ UNCHANGED <<mode, vars, pendingVars, cardVars, attentionVars, importVars, navVars>>
  \/ mode = "decisions" /\ PendingNext
     /\ UNCHANGED <<mode, vars, bellVars, cardVars, attentionVars, importVars, navVars>>
  \/ mode = "card" /\ CardNext
     /\ UNCHANGED <<mode, vars, bellVars, pendingVars, attentionVars, importVars, navVars>>
  \/ mode = "tabs" /\ AttentionNext
     /\ UNCHANGED <<mode, vars, bellVars, pendingVars, cardVars, importVars, navVars>>
  \/ mode = "import" /\ ImportNext
     /\ UNCHANGED <<mode, vars, bellVars, pendingVars, cardVars, attentionVars, navVars>>
  \/ mode = "pages" /\ NavNext
     /\ UNCHANGED <<mode, vars, bellVars, pendingVars, cardVars, attentionVars, importVars>>

TeamSpec == TeamInit /\ [][TeamNext]_allVars

Symmetry == Permutations(Caller)

(* Every variable of the part that is looked at holds a value of its kind. *)
TeamTypeOK ==
  CASE mode = "rounds"    -> TypeOK
    [] mode = "bell"      -> BellTypeOK
    [] mode = "decisions" -> PendingTypeOK
    [] mode = "card"      -> CardTypeOK
    [] mode = "tabs"      -> AttentionTypeOK
    [] mode = "import"    -> ImportTypeOK
    [] mode = "pages"     -> NavTypeOK
===============================================================================
