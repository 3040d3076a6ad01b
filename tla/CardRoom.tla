------------------------------ MODULE CardRoom ------------------------------
(***************************************************************************)
(* One tab that goes from card to card, and the rooms of the server that   *)
(* tell it about runs: RemarkGateway and RunEvents on one side, WsService, *)
(* RemarksStore, TriageRun and the page of the card on the other.          *)
(*                                                                         *)
(* A card is a copy of the remark (the newest answer of REST to arrive)    *)
(* and a view of its run (what the events have made of it).  While the     *)
(* view says that a run is at work every decision is disabled.  Answers    *)
(* come in any order, the socket keeps the order of what it carries, an    *)
(* event names its run and not its remark.                                 *)
(***************************************************************************)
EXTENDS Integers, Sequences, FiniteSets, Functions

CONSTANTS
  Card,       \* remarks of a round
  FirstCard,  \* the one the tab starts at
  MaxSteps,   \* bound on the changes of the remarks, the moves of the tab and
              \* the lost connections, taken together
  MaxLoads,   \* bound on the reads under way
  MaxPipe     \* bound on the messages under way in each direction

ASSUME CardRoomAssumption ==
  /\ FirstCard \in Card
  /\ {MaxSteps, MaxLoads, MaxPipe} \subseteq Nat \ {0}

VARIABLES
  srv,        \* the newest run of a remark: its number, its stage, the age of the row
  owed,       \* what has been written of a run and is still to be told
  told,       \* age of the row when its room was last told to read it again
  quiet,      \* remarks whose newest run ended with no event
  phaseOf,    \* the last phase of a run, by run (RunEvents)
  member,     \* the rooms the socket is in
  joining,    \* joins the server is handling: what it has read of the remark
  slipped,    \* rooms left while a join to them was being handled
  up, down,   \* messages on their way to the server and to the tab
  connected,
  open, visit,  \* the card the tab shows, and how often it has moved
  copy, view,   \* of every card the tab has seen
  seen,         \* age of the newest answer the tab has had of a card
  asked,        \* reads the server has not answered, by card
  arriving,     \* their answers on the way
  steps         \* changes, moves and lost connections so far

serverVars == <<srv, owed, told, quiet, phaseOf>>
socketVars == <<member, joining, slipped, up, connected>>
pageVars   == <<open, visit, copy, view, seen, asked, arriving>>
cardVars   == <<serverVars, socketVars, down, pageVars, steps>>

RunOf  == [of : Card, n : 0..MaxSteps]
NoRun  == [of |-> FirstCard, n |-> 0]
Stage  == {"none", "working", "waiting", "over"}
Row    == [run : RunOf, stage : Stage, age : 0..MaxSteps]
Word   == {"waiting", "end"}
RunPhase == {"unknown", "working", "waiting", "persisted"}

Visit == 1..(MaxSteps + 1)

(* What a socket carries, in each direction.                               *)
UpMsg ==
  [kind : {"join"}, card : Card, visit : Visit]
    \cup [kind : {"leave"}, card : Card, visit : {0}]
DownMsg ==
  [kind : {"ack"}, run : RunOf, visit : Visit]
    \cup [kind : {"working", "waiting", "persisted", "end"}, run : RunOf, visit : {0}]

CardTypeOK ==
  /\ srv \in [Card -> Row] /\ owed \subseteq RunOf \X Word
  /\ told \in [Card -> 0..MaxSteps] /\ quiet \subseteq Card
  /\ phaseOf \in [RunOf -> RunPhase]
  /\ member \subseteq Card
  /\ joining \subseteq [card : Card, visit : Visit, row : Row]
  /\ slipped \subseteq Card /\ connected \in BOOLEAN
  /\ up \in Seq(UpMsg) /\ down \in Seq(DownMsg)
  /\ open \in Card /\ visit \in Visit
  /\ copy \in [Card -> Row]
  /\ view \in [Card -> [run : RunOf, on : BOOLEAN, made : BOOLEAN]]
  /\ seen \in [Card -> 0..MaxSteps]
  /\ asked \in [Card -> Nat]
  /\ arriving \subseteq [card : Card, row : Row]
  /\ steps \in 0..MaxSteps

Step == steps < MaxSteps /\ steps' = steps + 1

JoinMsg(v)  == [kind |-> "join", card |-> open, visit |-> v]
LeaveMsg(c) == [kind |-> "leave", card |-> c, visit |-> 0]

(* The tab has the list of the round and has just opened its first card.   *)
CardInit ==
  /\ srv = [c \in Card |-> [run |-> [of |-> c, n |-> 0], stage |-> "none", age |-> 0]]
  /\ owed = {} /\ told = [c \in Card |-> 0] /\ quiet = {}
  /\ phaseOf = [r \in RunOf |-> "unknown"]
  /\ member = {} /\ joining = {} /\ slipped = {} /\ down = <<>>
  /\ connected = TRUE
  /\ open = FirstCard /\ visit = 1
  /\ up = <<JoinMsg(1)>>
  /\ copy = srv
  /\ view = [c \in Card |-> [run |-> NoRun, on |-> FALSE, made |-> FALSE]]
  /\ seen = [c \in Card |-> 0]
  /\ asked = [c \in Card |-> IF c = FirstCard THEN 1 ELSE 0] /\ arriving = {}
  /\ steps = 0

-----------------------------------------------------------------------------
(* The server.  An event goes to the room of its remark; what happens to   *)
(* nobody's socket is lost.                                                *)
Tell(c, kinds, r) ==
  LET events == [i \in DOMAIN kinds |-> [kind |-> kinds[i], run |-> r, visit |-> 0]]
  IN  /\ Len(down) + Len(kinds) <= MaxPipe
      /\ down' = IF c \in member THEN down \o events ELSE down

Moves(c, stage, n) ==
  /\ Step
  /\ srv' = [srv EXCEPT ![c].stage = stage, ![c].run.n = n, ![c].age = @ + 1]
  /\ UNCHANGED <<socketVars, pageVars>>

(* A run begins, or goes on after `not that citation`: the row says so and *)
(* nobody is told until its first phase.                                   *)
RunBegins(c) ==
  /\ \/ srv[c].stage \in {"none", "over"} /\ Moves(c, "working", srv[c].run.n + 1)
     \/ srv[c].stage = "waiting" /\ Moves(c, "working", srv[c].run.n)
  /\ UNCHANGED <<owed, told, quiet, phaseOf, down>>

WorkingPhase(c) ==
  /\ srv[c].stage = "working"
  /\ phaseOf' = [phaseOf EXCEPT ![srv[c].run] = "working"]
  /\ Tell(c, <<"working">>, srv[c].run)
  /\ UNCHANGED <<srv, owed, told, quiet, socketVars, pageVars, steps>>

(* The proposal, or the result of a comparison, is written; then its room  *)
(* is told.                                                                *)
RunProposes(c) ==
  /\ srv[c].stage = "working"
  /\ Moves(c, "waiting", srv[c].run.n)
  /\ owed' = owed \cup {<<srv[c].run, "waiting">>}
  /\ UNCHANGED <<told, quiet, phaseOf, down>>

(* Decided, cancelled or failed: told afterwards, or never - the sweeper   *)
(* writes without a word, and the job that would tell may be lost.         *)
RunEnds(c) ==
  /\ srv[c].stage \in {"working", "waiting"}
  /\ Moves(c, "over", srv[c].run.n)
  /\ \/ owed' = owed \cup {<<srv[c].run, "end">>} /\ quiet' = quiet \ {c}
     \/ owed' = owed /\ quiet' = quiet \cup {c}
  /\ UNCHANGED <<told, phaseOf, down>>

TellOf(r, word) ==
  /\ <<r, word>> \in owed
  /\ owed' = owed \ {<<r, word>>}
  /\ phaseOf' = [phaseOf EXCEPT ![r] = IF word = "end" THEN "unknown" ELSE "waiting"]
  /\ told' = [told EXCEPT ![r.of] = IF srv[r.of].run = r THEN srv[r.of].age ELSE @]
  /\ \/ Tell(r.of, <<word>>, r)
     \/ word = "end" /\ Tell(r.of, <<"persisted", "end">>, r)
  /\ UNCHANGED <<srv, quiet, socketVars, pageVars, steps>>

(* The gateway takes up a message: a join reads the remark and enters the  *)
(* room later, a leave acts at once - on the rooms it finds.               *)
TakeUp ==
  /\ up # <<>> /\ up' = Tail(up)
  /\ LET m == Head(up)
     IN  \/ /\ m.kind = "join"
            /\ joining' = joining \cup
                 {[card |-> m.card, visit |-> m.visit, row |-> srv[m.card]]}
            /\ UNCHANGED <<member, slipped>>
         \/ /\ m.kind = "leave"
            /\ member' = member \ {m.card}
            /\ slipped' = IF \E j \in joining : j.card = m.card
                          THEN slipped \cup {m.card} ELSE slipped
            /\ UNCHANGED joining
  /\ UNCHANGED <<serverVars, down, connected, pageVars, steps>>

AckRun(j) ==
  IF j.row.stage \in {"working", "waiting"} /\ phaseOf[j.row.run] = "working"
  THEN j.row.run ELSE NoRun

Joined(j) ==
  /\ j \in joining /\ Len(down) < MaxPipe
  /\ joining' = joining \ {j}
  /\ member' = member \cup {j.card}
  /\ down' = Append(down, [kind |-> "ack", run |-> AckRun(j), visit |-> j.visit])
  /\ UNCHANGED <<serverVars, slipped, up, connected, pageVars, steps>>

-----------------------------------------------------------------------------
(* The tab.  The effect of the page runs when the shown copy is replaced:  *)
(* a run the copy calls running is shown at work, and only the run of the  *)
(* copy is shown to have ended.                                            *)
Starts(v, r) == [run |-> r, on |-> TRUE, made |-> TRUE]

Follow(v, row) ==
  CASE row.stage = "working" -> Starts(v, row.run)
    [] row.stage # "working" /\ v.on /\ v.run = row.run -> [v EXCEPT !.on = FALSE]
    [] OTHER -> v

Reads == FoldFunction(+, Cardinality(arriving), asked)

Asks(c) ==
  /\ Reads < MaxLoads
  /\ asked' = [asked EXCEPT ![c] = @ + 1]
  /\ UNCHANGED arriving

(* Another card: leave the room, enter the other, read the remark.         *)
Navigate(c) ==
  /\ c # open /\ Step /\ Len(up) + 2 <= MaxPipe
  /\ open' = c /\ visit' = visit + 1
  /\ up' = IF connected
           THEN up \o <<LeaveMsg(open), [kind |-> "join", card |-> c, visit |-> visit + 1]>>
           ELSE up
  /\ view' = [view EXCEPT ![c] = Follow(@, copy[c])]
  /\ Asks(c)
  /\ UNCHANGED <<serverVars, member, joining, slipped, connected, down, copy, seen>>

(* The server answers a read; the answers arrive in any order.              *)
Read(c) ==
  /\ asked[c] > 0
  /\ asked' = [asked EXCEPT ![c] = @ - 1]
  /\ arriving' = arriving \cup {[card |-> c, row |-> srv[c]]}
  /\ UNCHANGED <<serverVars, socketVars, down, open, visit, copy, view, seen, steps>>

AnswerArrives(l) ==
  /\ l \in arriving
  /\ arriving' = arriving \ {l}
  /\ copy' = [copy EXCEPT ![l.card] = l.row]
  /\ seen' = [seen EXCEPT ![l.card] = IF @ < l.row.age THEN l.row.age ELSE @]
  /\ view' = IF l.card = open THEN [view EXCEPT ![open] = Follow(@, l.row)] ELSE view
  /\ UNCHANGED <<serverVars, socketVars, down, open, visit, asked, steps>>

(* The ack of the join of this visit brings the phase.                     *)
AckPhase(ack) ==
  view' = IF ack.run # NoRun THEN [view EXCEPT ![open] = Starts(@, ack.run)] ELSE view

(* Mutant: the ack is believed to be all there is to know.                 *)
OnJoinedNoReload(ack) == AckPhase(ack) /\ UNCHANGED <<asked, arriving>>

(* The remark is read once more, whatever happened while the room was      *)
(* being entered.                                                          *)
OnJoined(ack) == AckPhase(ack) /\ Asks(open)

(* A view made for an event takes the run of the copy.                     *)
ViewOf(c) == IF view[c].made THEN view[c] ELSE [run |-> copy[c].run, on |-> FALSE, made |-> TRUE]

(* A room event goes to the card that is shown.                            *)
OnEvent(e) ==
  LET v == ViewOf(open)
      started == IF e.run # v.run THEN Starts(v, e.run) ELSE v
  IN  /\ view' = [view EXCEPT ![open] =
                    CASE e.kind = "working"   -> Starts(v, e.run)
                      [] e.kind = "persisted" -> started
                      [] e.kind = "waiting"   -> [started EXCEPT !.on = FALSE]
                      [] e.kind = "end"       -> [v EXCEPT !.on = FALSE]]
      /\ IF e.kind = "working" THEN UNCHANGED <<asked, arriving>> ELSE Asks(open)

Hear ==
  /\ down # <<>> /\ down' = Tail(down)
  /\ LET e == Head(down)
     IN  CASE e.kind = "ack" /\ e.visit = visit -> OnJoined(e)
           [] e.kind # "ack" -> OnEvent(e)
           [] OTHER -> UNCHANGED <<view, asked, arriving>>
  /\ UNCHANGED <<serverVars, socketVars, open, visit, copy, seen, steps>>

(* The connection is lost with all it carried, and the rooms with it; if   *)
(* it was the process that stopped, what it knew of phases and had still   *)
(* to tell is lost too.                                                    *)
Disconnect ==
  /\ connected /\ Step
  /\ connected' = FALSE
  /\ up' = <<>> /\ down' = <<>> /\ member' = {} /\ joining' = {} /\ slipped' = {}
  /\ \/ UNCHANGED <<phaseOf, owed>>
     \/ phaseOf' = [r \in RunOf |-> "unknown"] /\ owed' = {}
  /\ UNCHANGED <<srv, told, quiet, pageVars>>

(* Back again, the tab enters the room of the card it shows.               *)
Connect ==
  /\ ~connected
  /\ connected' = TRUE
  /\ up' = <<JoinMsg(visit)>>
  /\ UNCHANGED <<serverVars, member, joining, slipped, down, pageVars, steps>>

(* Without a socket a running card is read again and again.                *)
Poll ==
  /\ ~connected /\ copy[open].stage = "working"
  /\ Asks(open)
  /\ UNCHANGED <<serverVars, socketVars, down, open, visit, copy, view, seen, steps>>

CardNext ==
  \/ \E c \in Card :
       \/ RunBegins(c) \/ WorkingPhase(c) \/ RunProposes(c) \/ RunEnds(c)
       \/ Navigate(c) \/ Read(c)
  \/ \E o \in owed : TellOf(o[1], o[2])
  \/ \E j \in joining : Joined(j)
  \/ \E l \in arriving : AnswerArrives(l)
  \/ TakeUp \/ Hear \/ Disconnect \/ Connect \/ Poll

CardSpec == CardInit /\ [][CardNext]_cardVars

-----------------------------------------------------------------------------
(* Everything sent has arrived.                                            *)
AtRest ==
  /\ connected /\ owed = {} /\ joining = {} /\ up = <<>> /\ down = <<>>
  /\ arriving = {} /\ \A c \in Card : asked[c] = 0

(* An older answer came after a newer one (loadRemark compares nothing).   *)
Overtaken(c) == copy[c].age < seen[c]

(* Once everything has arrived, the tab is in the room of its card and in  *)
(* no other, but for one left while it was still being entered; it has     *)
(* read the remark since the room was last told to, and the card is not    *)
(* left at work on a run that is over - whatever was lost with a           *)
(* connection, missed while a room was being entered or heard twice.       *)
(* Excepted are a read overtaken by an older one, a run that ended without *)
(* an event, and a view that an event or an answer has turned to a run     *)
(* other than the newest of this remark.                                   *)
CardTells ==
  AtRest =>
    /\ open \in member /\ member \subseteq {open} \cup slipped
    /\ Overtaken(open) \/ copy[open].age >= told[open]
    /\ view[open].on =>
         \/ srv[open].stage = "working"
         \/ Overtaken(open) \/ open \in quiet
         \/ view[open].run # srv[open].run
=============================================================================
