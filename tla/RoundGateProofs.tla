---------------------------- MODULE RoundGateProofs ----------------------------
(***************************************************************************)
(* Theorems about RoundGate, for any number of callers, rounds and         *)
(* remarks.                                                                *)
(*                                                                         *)
(* Nothing here locks what it relies on for the whole of a request, so the *)
(* invariant says for every step a request may stand at what it has read   *)
(* that is still true: the number taken under the lock of the round is the *)
(* next one, nothing is pending and no number is larger while a round is   *)
(* being opened, what is repeated is closed and what is linked is in one   *)
(* round.                                                                  *)
(***************************************************************************)
EXTENDS RoundGate, SetLemmas

Numbers(r) == {remarks[m].number : m \in In(r)}

OriginIsClosed(o) == o # None => o \in Remarks /\ remarks[o].phase = "closed"

(* What a request has found out and relies on.                             *)
FilingIsSound(c) ==
  At(c, "filing") => calls[c].round \in Rounds /\ OriginIsClosed(calls[c].origin)

NumberingIsSound(c) ==
  At(c, "numbering") =>
    /\ calls[c].round \in Rounds /\ OriginIsClosed(calls[c].origin)
    /\ calls[c].number = Cardinality(In(calls[c].round)) + 1

OpeningIsSound(c) ==
  At(c, "opening") =>
    /\ Pending = {}
    /\ calls[c].number > 0
    /\ calls[c].asked = None => \A r \in Rounds : rounds[r].number < calls[c].number

LinkingIsSound(c) ==
  At(c, "linking") =>
    /\ calls[c].remark \in Remarks /\ calls[c].original \in Remarks
    /\ remarks[calls[c].original].round = remarks[calls[c].remark].round

ClosingIsSound(c) == At(c, "closing") => calls[c].round \in Rounds

CallIsSound(c) ==
  /\ FilingIsSound(c) /\ NumberingIsSound(c) /\ OpeningIsSound(c)
  /\ LinkingIsSound(c) /\ ClosingIsSound(c)

CallsAreSound == \A c \in Caller : CallIsSound(c)

(* One request at a time holds the lock of the project or of a round.      *)
LocksExclude ==
  \A c, d \in Caller :
    /\ At(c, "opening") /\ At(d, "opening") => c = d
    /\ At(c, "numbering") /\ At(d, "numbering") /\ calls[c].round = calls[d].round => c = d

NumbersAreDense == \A r \in Round : Numbers(r) = 1..Cardinality(In(r))

JournalBegins == \A r \in Rounds : Len(rounds[r].events) > 0

RelatedExist ==
  \A m \in Remarks :
    /\ remarks[m].round \in Rounds
    /\ OriginIsClosed(remarks[m].origin)
    /\ remarks[m].dup # None =>
         remarks[m].dup \in Remarks /\ remarks[remarks[m].dup].round = remarks[m].round

GateInv ==
  /\ TypeOK /\ CallsAreSound /\ LocksExclude /\ NumbersAreDense
  /\ JournalBegins /\ JournalAlternates /\ RelatedExist

-----------------------------------------------------------------------------
(* What the greatest number read from a table is.                          *)
LEMMA LargestIsLargest ==
  ASSUME NEW S \in SUBSET Nat, IsFiniteSet(S)
  PROVE  Largest(S) \in Nat /\ \A k \in S : k <= Largest(S)
<1>1. CASE S = {}
  BY <1>1 DEF Largest
<1>2. CASE S # {}
  <2>1. \E n \in S : \A k \in S : k <= n
    BY <1>2, FiniteHasLargest
  <2>2. Largest(S) \in S /\ \A k \in S : k <= Largest(S)
    BY <1>2, <2>1 DEF Largest
  <2> QED  BY <2>2
<1> QED  BY <1>1, <1>2

LEMMA LargestOfFirst ==
  ASSUME NEW n \in Nat
  PROVE  Largest(1..n) = n
<1>1. CASE n = 0
  BY <1>1 DEF Largest
<1>2. CASE n # 0
  <2>1. n \in 1..n /\ \A k \in 1..n : k <= n
    BY <1>2
  <2>2. Largest(1..n) \in 1..n /\ \A k \in 1..n : k <= Largest(1..n)
    BY <1>2, <2>1 DEF Largest
  <2> QED  BY <2>1, <2>2
<1> QED  BY <1>1, <1>2

-----------------------------------------------------------------------------
(* The fields a request has where it stands, and how it goes on.           *)
LEMMA CallFields ==
  ASSUME TypeOK, NEW c \in Caller
  PROVE  /\ At(c, "filing") => calls[c].round \in Round /\ calls[c].origin \in Remark \cup {None}
         /\ At(c, "numbering") => /\ calls[c].round \in Round
                                  /\ calls[c].origin \in Remark \cup {None}
                                  /\ calls[c].number \in Nat
         /\ At(c, "opening") => calls[c].asked \in Nat /\ calls[c].number \in Nat
         /\ At(c, "closing") => calls[c].round \in Round
         /\ At(c, "linking") => calls[c].remark \in Remark /\ calls[c].original \in Remark
<1>1. calls[c] \in Call
  BY DEF TypeOK
<1> QED  BY <1>1 DEF Call, Idle, At

LEMMA CallMoves ==
  ASSUME TypeOK, NEW c \in Caller, NEW call \in Call, Move(c, call) \/ Begin(c, call)
  PROVE  /\ calls' \in [Caller -> Call] /\ calls'[c] = call
         /\ \A d \in Caller : d # c => calls'[d] = calls[d]
BY DEF TypeOK, Move, Begin

LEMMA RoundFields ==
  ASSUME TypeOK, NEW r \in Rounds
  PROVE  r \in Round /\ rounds[r] \in RoundRow
BY DEF TypeOK, Rounds, NoRow

LEMMA RemarkFields ==
  ASSUME TypeOK, NEW m \in Remarks
  PROVE  m \in Remark /\ remarks[m] \in RemarkRow /\ remarks[m].round \in Round
BY DEF TypeOK, Remarks, NoRemark, RemarkRow

-----------------------------------------------------------------------------
(* A step of one request that leaves the tables alone.                     *)
LEMMA TablesStay ==
  ASSUME GateInv, UNCHANGED <<rounds, remarks>>
  PROVE  /\ Rounds' = Rounds /\ Remarks' = Remarks /\ Pending' = Pending
         /\ \A r \in Round : In(r)' = In(r) /\ Numbers(r)' = Numbers(r)
         /\ NumbersAreDense' /\ JournalBegins' /\ JournalAlternates' /\ RelatedExist'
         /\ \A o \in Remark \cup {None} : OriginIsClosed(o)' = OriginIsClosed(o)
BY DEF GateInv, Rounds, Remarks, Pending, In, Numbers, NumbersAreDense, JournalBegins,
   JournalAlternates, RelatedExist, OriginIsClosed, Open

LEMMA OthersStaySound ==
  ASSUME GateInv, UNCHANGED <<rounds, remarks>>, NEW d \in Caller, calls'[d] = calls[d]
  PROVE  CallIsSound(d)'
<1>1. CallIsSound(d)
  BY DEF GateInv, CallsAreSound
<1> QED  BY <1>1 DEF CallIsSound, FilingIsSound, NumberingIsSound, OpeningIsSound, LinkingIsSound,
   ClosingIsSound, At, Rounds, Remarks, Pending, In, OriginIsClosed

LEMMA LocksAreTakenFree ==
  ASSUME GateInv, NEW c \in Caller, NEW call \in Call, Move(c, call),
         call.at = "opening" => ProjectFree,
         call.at = "numbering" => RoundFree(call.round)
  PROVE  LocksExclude'
<1>1. /\ calls'[c] = call
      /\ \A d \in Caller : d # c => calls'[d] = calls[d]
  BY CallMoves DEF GateInv
<1> QED  BY <1>1 DEF GateInv, LocksExclude, At, ProjectFree, RoundFree

LEMMA RequestGoesOn ==
  ASSUME GateInv, UNCHANGED <<rounds, remarks>>, NEW c \in Caller, NEW call \in Call,
         Move(c, call), CallIsSound(c)',
         call.at = "opening" => ProjectFree,
         call.at = "numbering" => RoundFree(call.round)
  PROVE  GateInv'
<1>1. calls' \in [Caller -> Call] /\ \A d \in Caller : d # c => calls'[d] = calls[d]
  BY CallMoves DEF GateInv
<1>2. TypeOK'
  BY <1>1 DEF GateInv, TypeOK
<1>3. CallsAreSound'
  BY <1>1, OthersStaySound DEF CallsAreSound
<1> QED  BY <1>2, <1>3, TablesStay, LocksAreTakenFree DEF GateInv

LEMMA IdleIsSound ==
  ASSUME NEW c \in Caller, calls[c] = Idle
  PROVE  CallIsSound(c)
BY DEF CallIsSound, FilingIsSound, NumberingIsSound, OpeningIsSound, LinkingIsSound,
   ClosingIsSound, At, Idle

LEMMA EndKeeps ==
  ASSUME GateInv, UNCHANGED <<rounds, remarks>>, NEW c \in Caller, End(c)
  PROVE  GateInv'
<1>1. Idle \in Call /\ Move(c, Idle) /\ Idle.at = "idle"
  BY DEF Call, Idle, End
<1>2. calls'[c] = Idle
  BY <1>1, CallMoves DEF GateInv
<1>3. CallIsSound(c)'
  BY <1>2 DEF CallIsSound, FilingIsSound, NumberingIsSound, OpeningIsSound, LinkingIsSound,
     ClosingIsSound, At, Idle
<1> QED  BY <1>1, <1>3, RequestGoesOn

-----------------------------------------------------------------------------
(* The next number of a round or of the project.                           *)
LEMMA RemarksAreFinite ==
  ASSUME TypeOK, NEW r \in Round
  PROVE  IsFiniteSet(In(r)) /\ Cardinality(In(r)) \in Nat
<1>1. IsFiniteSet(Remark)
  BY GateAssumption, FS_Interval DEF Remark
<1>2. In(r) \in SUBSET Remark
  BY DEF In, Remarks
<1> QED  BY <1>1, <1>2, FS_Subset, FS_CardinalityType

LEMMA NextRemarkNumber ==
  ASSUME GateInv, NEW r \in Round
  PROVE  Following(LastRemark(r)) = Cardinality(In(r)) + 1
<1>1. Cardinality(In(r)) \in Nat /\ Numbers(r) = 1..Cardinality(In(r))
  BY RemarksAreFinite DEF GateInv, NumbersAreDense
<1> QED  BY <1>1, LargestOfFirst DEF LastRemark, Following, Numbers

LEMMA NextRoundNumber ==
  ASSUME TypeOK
  PROVE  /\ Following(LastRound) \in Nat /\ Following(LastRound) > 0
         /\ \A r \in Rounds : rounds[r].number < Following(LastRound)
<1> DEFINE Given == {rounds[r].number : r \in Rounds}
<1>1. \A r \in Rounds : rounds[r].number \in Nat
  BY RoundFields DEF RoundRow
<1>2. IsFiniteSet(Rounds)
  <2>1. IsFiniteSet(Round) /\ Rounds \in SUBSET Round
    BY GateAssumption, FS_Interval DEF Round, Rounds
  <2> QED  BY <2>1, FS_Subset
<1>3. Given \in SUBSET Nat
  BY <1>1
<1>4. IsFiniteSet(Given)
  <2> DEFINE f == [r \in Rounds |-> rounds[r].number]
  <2>1. f \in Surjection(Rounds, Given)
    BY DEF Surjection
  <2> QED  BY <1>2, <2>1, FS_Surjection
<1>5. LastRound \in Nat /\ \A k \in Given : k <= LastRound
  BY <1>3, <1>4, LargestIsLargest DEF LastRound
<1> QED  BY <1>1, <1>5 DEF Following

-----------------------------------------------------------------------------
(* The first step of a request, and the one that takes a number.           *)
LEMMA LockProjectKeeps ==
  ASSUME GateInv, NEW c \in Caller, LockProject(c)
  PROVE  GateInv'
<1>1. UNCHANGED <<rounds, remarks>> /\ ProjectFree /\ Pending = {}
  BY DEF LockProject
<1>2. PICK asked \in {None} \cup Round :
        Begin(c, [at |-> "opening", asked |-> asked,
                  number |-> IF asked = None THEN Following(LastRound) ELSE asked])
  BY DEF LockProject
<1> DEFINE number == IF asked = None THEN Following(LastRound) ELSE asked
           call == [at |-> "opening", asked |-> asked, number |-> number]
<1>3. /\ asked \in Nat /\ number \in Nat /\ number > 0
      /\ asked = None => \A r \in Rounds : rounds[r].number < number
  BY NextRoundNumber, GateAssumption DEF GateInv, Round, None
<1>4. call \in Call /\ Move(c, call)
  BY <1>2, <1>3 DEF Call, Begin, Move
<1>5. calls'[c] = call
  BY <1>4, CallMoves DEF GateInv
<1>6. CallIsSound(c)'
  <2>1. OpeningIsSound(c)'
    BY <1>1, <1>3, <1>5, TablesStay DEF OpeningIsSound
  <2> QED  BY <1>5, <2>1 DEF CallIsSound, FilingIsSound, NumberingIsSound, LinkingIsSound,
     ClosingIsSound, At
<1> QED  BY <1>1, <1>4, <1>6, RequestGoesOn

LEMMA CheckCloseKeeps ==
  ASSUME GateInv, NEW c \in Caller, NEW r \in Round, CheckClose(c, r)
  PROVE  GateInv'
<1> DEFINE call == [at |-> "closing", round |-> r]
<1>1. UNCHANGED <<rounds, remarks>> /\ Move(c, call) /\ call \in Call /\ r \in Rounds
  BY DEF CheckClose, Begin, Move, Call, Open, Rounds
<1>2. calls'[c] = call
  BY <1>1, CallMoves DEF GateInv
<1>3. CallIsSound(c)'
  BY <1>1, <1>2, TablesStay DEF CallIsSound, FilingIsSound, NumberingIsSound, OpeningIsSound,
     LinkingIsSound, ClosingIsSound, At
<1> QED  BY <1>1, <1>3, RequestGoesOn

(* Filing a new remark or one that repeats a closed one.                   *)
LEMMA CheckFilingKeeps ==
  ASSUME GateInv, NEW c \in Caller, NEW r \in Round,
         CheckCreate(c, r) \/ \E m \in Remark : CheckRepeat(c, m, r)
  PROVE  GateInv'
<1>1. PICK o \in Remark \cup {None} :
        /\ OriginIsClosed(o)
        /\ Begin(c, [at |-> "filing", round |-> r, origin |-> o])
  BY DEF CheckCreate, CheckRepeat, Repeatable, OriginIsClosed, None
<1> DEFINE call == [at |-> "filing", round |-> r, origin |-> o]
<1>2. UNCHANGED <<rounds, remarks>> /\ Move(c, call) /\ call \in Call /\ r \in Rounds
  BY <1>1 DEF CheckCreate, CheckRepeat, Begin, Move, Call, Open, Rounds
<1>3. calls'[c] = call
  BY <1>2, CallMoves DEF GateInv
<1>4. CallIsSound(c)'
  <2>1. FilingIsSound(c)'
    BY <1>1, <1>2, <1>3, TablesStay DEF FilingIsSound
  <2> QED  BY <1>3, <2>1 DEF CallIsSound, NumberingIsSound, OpeningIsSound, LinkingIsSound,
     ClosingIsSound, At
<1> QED  BY <1>2, <1>4, RequestGoesOn

LEMMA TakeNumberKeeps ==
  ASSUME GateInv, NEW c \in Caller, TakeNumber(c)
  PROVE  GateInv'
<1> DEFINE r == calls[c].round  o == calls[c].origin
           call == [at |-> "numbering", round |-> r, origin |-> o,
                    number |-> Following(LastRemark(r))]
<1>1. UNCHANGED <<rounds, remarks>> /\ At(c, "filing") /\ RoundFree(r) /\ Move(c, call)
  BY DEF TakeNumber
<1>2. r \in Round /\ o \in Remark \cup {None} /\ r \in Rounds /\ OriginIsClosed(o)
  BY <1>1, CallFields DEF GateInv, CallsAreSound, CallIsSound, FilingIsSound
<1>3. Following(LastRemark(r)) = Cardinality(In(r)) + 1 /\ Cardinality(In(r)) \in Nat
  BY <1>2, NextRemarkNumber, RemarksAreFinite DEF GateInv
<1>4. call \in Call
  BY <1>2, <1>3 DEF Call
<1>5. calls'[c] = call
  BY <1>1, <1>4, CallMoves DEF GateInv
<1>6. CallIsSound(c)'
  <2> HIDE DEF r, o
  <2>1. NumberingIsSound(c)'
    BY <1>1, <1>2, <1>3, <1>5, TablesStay DEF NumberingIsSound
  <2> QED  BY <1>5, <2>1 DEF CallIsSound, FilingIsSound, OpeningIsSound, LinkingIsSound,
     ClosingIsSound, At
<1> QED  BY <1>1, <1>4, <1>6, RequestGoesOn

LEMMA CheckLinkKeeps ==
  ASSUME GateInv, NEW c \in Caller, NEW m \in Remark, CheckLink(c, m)
  PROVE  GateInv'
<1>1. PICK o \in Originals(m) \ {m} :
        Begin(c, [at |-> "linking", remark |-> m, original |-> o])
  BY DEF CheckLink
<1> DEFINE call == [at |-> "linking", remark |-> m, original |-> o]
<1>2. UNCHANGED <<rounds, remarks>> /\ Move(c, call) /\ m \in Remarks
  BY <1>1 DEF CheckLink, Begin, Move
<1>3. o \in Remarks /\ o \in Remark /\ remarks[o].round = remarks[m].round
  BY <1>1 DEF Originals, In, Remarks
<1>4. call \in Call
  BY <1>3 DEF Call
<1>5. calls'[c] = call
  BY <1>2, <1>4, CallMoves DEF GateInv
<1>6. CallIsSound(c)'
  <2>1. LinkingIsSound(c)'
    BY <1>2, <1>3, <1>5, TablesStay DEF LinkingIsSound
  <2> QED  BY <1>5, <2>1 DEF CallIsSound, FilingIsSound, OpeningIsSound, NumberingIsSound,
     ClosingIsSound, At
<1> QED  BY <1>2, <1>4, <1>6, RequestGoesOn

-----------------------------------------------------------------------------
(* The row of a round changes, a request ends or none is concerned.        *)
LEMMA AfterRounds ==
  ASSUME GateInv, rounds' \in [Round -> RoundRow \cup {NoRow}], UNCHANGED remarks,
         Rounds \subseteq Rounds',
         (\E c \in Caller : End(c)) \/ UNCHANGED calls,
         JournalBegins', JournalAlternates',
         \A c \in Caller : calls'[c] = calls[c] => OpeningIsSound(c)'
  PROVE  GateInv'
<1>1. /\ calls' \in [Caller -> Call]
      /\ \A c \in Caller : calls'[c] = calls[c] \/ calls'[c] = Idle
  <2>1. Idle \in Call
    BY DEF Call
  <2> QED  BY <2>1, CallMoves DEF GateInv, TypeOK, End
<1>2. TypeOK'
  BY <1>1 DEF GateInv, TypeOK
<1>3. LocksExclude'
  BY <1>1 DEF GateInv, LocksExclude, At, Idle
<1>4. /\ Remarks' = Remarks /\ \A r \in Round : In(r)' = In(r)
      /\ \A o \in Remark \cup {None} : OriginIsClosed(o)' = OriginIsClosed(o)
  BY DEF Remarks, In, OriginIsClosed
<1>5. NumbersAreDense'
  BY <1>4 DEF GateInv, NumbersAreDense, Numbers
<1>6. RelatedExist'
  <2>1. \A m \in Remarks : remarks[m].origin \in Remark \cup {None}
    BY RemarkFields DEF GateInv, RemarkRow
  <2> QED  BY <1>4, <2>1 DEF GateInv, RelatedExist
<1>7. CallsAreSound'
  <2> SUFFICES ASSUME NEW c \in Caller PROVE CallIsSound(c)'
    BY DEF CallsAreSound
  <2>1. CASE calls'[c] = Idle
    BY <2>1 DEF CallIsSound, FilingIsSound, NumberingIsSound, OpeningIsSound, LinkingIsSound,
       ClosingIsSound, At, Idle
  <2>2. CASE calls'[c] = calls[c]
    <3>1. CallIsSound(c) /\ OpeningIsSound(c)'
      BY <2>2 DEF GateInv, CallsAreSound
    <3>2. /\ At(c, "filing") => calls[c].origin \in Remark \cup {None}
          /\ At(c, "numbering") => calls[c].origin \in Remark \cup {None} /\ calls[c].round \in Round
      BY CallFields DEF GateInv
    <3> QED  BY <1>4, <2>2, <3>1, <3>2 DEF CallIsSound, FilingIsSound, NumberingIsSound,
       LinkingIsSound, ClosingIsSound, At
  <2> QED  BY <1>1, <2>1, <2>2
<1> QED  BY <1>2, <1>3, <1>5, <1>6, <1>7 DEF GateInv

(* A new round has the number nobody has, and nobody else is opening one.  *)
LEMMA OpenRoundKeeps ==
  ASSUME GateInv, NEW c \in Caller, OpenRound(c)
  PROVE  GateInv'
<1> DEFINE n == calls[c].number
<1>1. PICK r \in Round \ Rounds :
        rounds' = [rounds EXCEPT ![r] = [status |-> "open", number |-> n, events |-> <<"open">>]]
  BY DEF OpenRound
<1>2. At(c, "opening") /\ n \in Nat /\ n > 0 /\ End(c) /\ UNCHANGED remarks
  BY CallFields DEF OpenRound, GateInv, CallsAreSound, CallIsSound, OpeningIsSound
<1> DEFINE row == [status |-> "open", number |-> n, events |-> <<"open">>]
<1>3. row \in RoundRow /\ row.events = <<"open">> /\ row.status = "open"
  BY <1>2 DEF RoundRow, Event
<1>4. /\ rounds' \in [Round -> RoundRow \cup {NoRow}]
      /\ rounds'[r] = row /\ \A q \in Round : q # r => rounds'[q] = rounds[q]
      /\ Rounds' = Rounds \cup {r}
  BY <1>1, <1>3 DEF GateInv, TypeOK, Rounds
<1>5. JournalBegins' /\ JournalAlternates'
  BY <1>3, <1>4 DEF GateInv, JournalBegins, JournalAlternates, Open, Rounds
<1>6. ASSUME NEW d \in Caller, calls'[d] = calls[d]  PROVE OpeningIsSound(d)'
  <2>1. calls'[c] = Idle /\ Idle \in Call
    BY <1>2, CallMoves DEF End, GateInv, Call
  <2>2. ~At(d, "opening")
    BY <1>2, <1>6, <2>1 DEF GateInv, LocksExclude, At, Idle
  <2> QED  BY <1>6, <2>2 DEF OpeningIsSound, At
<1> QED  BY <1>2, <1>4, <1>5, <1>6, AfterRounds

(* Closing and reopening: one event, and the status it says.               *)
LEMMA ChangeKeeps ==
  ASSUME GateInv, NEW r \in Rounds, NEW status, NEW event, Happens(r, status, event),
         \/ Open(r) /\ status = "closed" /\ event = "close"
         \/ ~Open(r) /\ status = "open" /\ event = "reopen",
         UNCHANGED remarks, (\E c \in Caller : End(c)) \/ UNCHANGED calls
  PROVE  GateInv'
<1> DEFINE e == rounds[r].events
           row == [status |-> status, number |-> rounds[r].number, events |-> Append(e, event)]
<1>1. r \in Round /\ rounds[r] \in RoundRow
  BY RoundFields DEF GateInv
<1>2. e \in Seq(Event) /\ Len(e) \in Nat /\ Len(e) > 0
  BY <1>1 DEF RoundRow, GateInv, JournalBegins
<1>3. row \in RoundRow
  BY <1>1, <1>2 DEF RoundRow, Event
<1>4. /\ rounds' \in [Round -> RoundRow \cup {NoRow}]
      /\ rounds'[r] = row /\ \A q \in Round : q # r => rounds'[q] = rounds[q]
      /\ Rounds' = Rounds
  BY <1>1, <1>3 DEF GateInv, TypeOK, Rounds, Happens
<1>5. /\ Len(Append(e, event)) = Len(e) + 1
      /\ \A i \in 1..Len(e) : Append(e, event)[i] = e[i]
      /\ Append(e, event)[Len(e) + 1] = event
  BY <1>2
<1>6. /\ e[1] = "open"
      /\ \A i \in 2..Len(e) : e[i] = IF e[i - 1] = "close" THEN "reopen" ELSE "close"
      /\ Open(r) <=> e[Len(e)] # "close"
  BY DEF GateInv, JournalAlternates
<1>7. LET new == Append(e, event) IN
        /\ new[1] = "open" /\ Len(new) > 0
        /\ \A i \in 2..Len(new) : new[i] = IF new[i - 1] = "close" THEN "reopen" ELSE "close"
        /\ status = "open" <=> new[Len(new)] # "close"
  <2>1. Append(e, event)[1] = "open"
    BY <1>2, <1>5, <1>6
  <2>2. ASSUME NEW i \in 2..(Len(e) + 1)
        PROVE  Append(e, event)[i] = IF Append(e, event)[i - 1] = "close" THEN "reopen" ELSE "close"
    <3>1. CASE i = Len(e) + 1
      BY <1>2, <1>5, <1>6, <3>1
    <3>2. CASE i # Len(e) + 1
      <4>1. i \in 2..Len(e) /\ i \in 1..Len(e) /\ i - 1 \in 1..Len(e)
        BY <1>2, <3>2
      <4> QED  BY <1>5, <1>6, <4>1
    <3> QED  BY <3>1, <3>2
  <2> QED  BY <1>2, <1>5, <2>1, <2>2
<1>8. JournalBegins' /\ JournalAlternates'
  <2> HIDE DEF e
  <2>1. rounds'[r].events = Append(e, event) /\ (Open(r)' <=> status = "open")
    BY <1>4 DEF Open
  <2>2. \A q \in Rounds : q # r => rounds'[q] = rounds[q] /\ (Open(q)' <=> Open(q))
    BY <1>4 DEF Open, Rounds
  <2>3. ASSUME NEW q \in Rounds'
        PROVE  LET ev == rounds'[q].events IN
               /\ Len(ev) > 0 /\ ev[1] = "open"
               /\ \A i \in 2..Len(ev) : ev[i] = IF ev[i - 1] = "close" THEN "reopen" ELSE "close"
               /\ Open(q)' <=> ev[Len(ev)] # "close"
    <3>1. CASE q = r
      BY <1>7, <2>1, <3>1
    <3>2. CASE q # r
      BY <1>4, <2>2, <3>2 DEF GateInv, JournalBegins, JournalAlternates
    <3> QED  BY <3>1, <3>2
  <2> QED  BY <2>3 DEF JournalBegins, JournalAlternates
<1>9. ASSUME NEW d \in Caller, calls'[d] = calls[d]  PROVE OpeningIsSound(d)'
  <2>1. OpeningIsSound(d) /\ Pending' = Pending
    BY DEF GateInv, CallsAreSound, CallIsSound, Pending, Remarks
  <2>2. \A q \in Rounds : rounds'[q].number = rounds[q].number
    BY <1>4 DEF Rounds
  <2> QED  BY <1>4, <1>9, <2>1, <2>2 DEF OpeningIsSound, At
<1> QED  BY <1>4, <1>8, <1>9, AfterRounds

LEMMA CloseRoundKeeps ==
  ASSUME GateInv, NEW c \in Caller, CloseRound(c)
  PROVE  GateInv'
<1> DEFINE r == calls[c].round
<1>1. End(c) /\ UNCHANGED remarks /\ r \in Rounds
  BY DEF CloseRound, GateInv, CallsAreSound, CallIsSound, ClosingIsSound
<1>2. CASE Closes(r)
  BY <1>1, <1>2, ChangeKeeps DEF Closes
<1>3. CASE UNCHANGED rounds
  BY <1>1, <1>3, EndKeeps
<1> QED  BY <1>2, <1>3 DEF CloseRound

-----------------------------------------------------------------------------
(* The row of a remark changes or appears.                                 *)
LEMMA InsertRemarkKeeps ==
  ASSUME GateInv, NEW c \in Caller, InsertRemark(c)
  PROVE  GateInv'
<1>0. PICK r, o, n : r = calls[c].round /\ o = calls[c].origin /\ n = calls[c].number
  OBVIOUS
<1> DEFINE row == [round |-> r, number |-> n, phase |-> "pending", origin |-> o, dup |-> None]
<1>1. PICK m \in Remark \ Remarks : remarks' = [remarks EXCEPT ![m] = row]
  BY <1>0 DEF InsertRemark
<1>2. At(c, "numbering") /\ ProjectFree /\ End(c) /\ UNCHANGED rounds
  BY DEF InsertRemark
<1>3. /\ r \in Round /\ o \in Remark \cup {None} /\ r \in Rounds /\ OriginIsClosed(o)
      /\ n = Cardinality(In(r)) + 1 /\ Cardinality(In(r)) \in Nat /\ IsFiniteSet(In(r))
  BY <1>0, <1>2, CallFields, RemarksAreFinite
     DEF GateInv, CallsAreSound, CallIsSound, NumberingIsSound
<1>4. row \in RemarkRow
  BY <1>3 DEF RemarkRow, Phase
<1>5. /\ remarks' \in [Remark -> RemarkRow \cup {NoRemark}]
      /\ remarks'[m] = row /\ \A k \in Remark : k # m => remarks'[k] = remarks[k]
      /\ Remarks' = Remarks \cup {m} /\ m \notin Remarks
  BY <1>1, <1>4 DEF GateInv, TypeOK, Remarks
<1>6. /\ calls' \in [Caller -> Call] /\ calls'[c] = Idle
      /\ \A d \in Caller : d # c => calls'[d] = calls[d]
  BY <1>2, CallMoves DEF GateInv, End, Call
<1>7. TypeOK' /\ Rounds' = Rounds
  BY <1>2, <1>5, <1>6 DEF GateInv, TypeOK, Rounds
<1>8. In(r)' = In(r) \cup {m} /\ m \notin In(r) /\ \A q \in Round : q # r => In(q)' = In(q)
  BY <1>5 DEF In, Remarks
<1>9. Cardinality(In(r)') = Cardinality(In(r)) + 1
  BY <1>3, <1>8, FS_AddElement
<1>10. NumbersAreDense'
  <2>1. Numbers(r)' = Numbers(r) \cup {n}
    BY <1>5, <1>8 DEF Numbers, In, Remarks
  <2>2. Numbers(r) = 1..Cardinality(In(r))
    BY <1>3 DEF GateInv, NumbersAreDense
  <2>3. Numbers(r)' = 1..Cardinality(In(r))'
    BY <1>3, <1>9, <2>1, <2>2
  <2>4. \A q \in Round : q # r => Numbers(q)' = Numbers(q)
    BY <1>5, <1>8 DEF Numbers, In, Remarks
  <2> QED  BY <1>8, <2>3, <2>4 DEF GateInv, NumbersAreDense
<1>11. \A k \in Remark \cup {None} : OriginIsClosed(k) => OriginIsClosed(k)'
  BY <1>5 DEF OriginIsClosed, Remarks
<1>12. RelatedExist'
  <2> SUFFICES ASSUME NEW k \in Remarks'
               PROVE  (/\ remarks[k].round \in Rounds
                       /\ OriginIsClosed(remarks[k].origin)
                       /\ remarks[k].dup # None =>
                            /\ remarks[k].dup \in Remarks
                            /\ remarks[remarks[k].dup].round = remarks[k].round)'
    BY DEF RelatedExist
  <2>1. CASE k = m
    BY <1>3, <1>5, <1>7, <1>11, <2>1
  <2>2. CASE k # m
    <3>1. k \in Remarks /\ remarks'[k] = remarks[k] /\ remarks[k].origin \in Remark \cup {None}
      BY <1>5, <2>2, RemarkFields DEF RemarkRow, GateInv, Remarks
    <3> QED  BY <1>5, <1>7, <1>11, <3>1 DEF GateInv, RelatedExist, Remarks
  <2> QED  BY <2>1, <2>2
<1>13. LocksExclude' /\ JournalBegins' /\ JournalAlternates'
  BY <1>2, <1>6, <1>7 DEF GateInv, LocksExclude, JournalBegins, JournalAlternates, At, Idle, Open
<1>14. CallsAreSound'
  <2> SUFFICES ASSUME NEW d \in Caller PROVE CallIsSound(d)'
    BY DEF CallsAreSound
  <2>1. CASE d = c
    BY <1>6, <2>1 DEF CallIsSound, FilingIsSound, NumberingIsSound, OpeningIsSound, LinkingIsSound,
       ClosingIsSound, At, Idle
  <2>2. CASE d # c
    <3>1. calls'[d] = calls[d] /\ CallIsSound(d) /\ ~At(d, "opening")
      BY <1>2, <1>6, <2>2 DEF GateInv, CallsAreSound, ProjectFree
    <3>2. FilingIsSound(d)' /\ OpeningIsSound(d)' /\ ClosingIsSound(d)'
      BY <1>7, <1>11, <3>1, CallFields DEF GateInv, CallIsSound, FilingIsSound, OpeningIsSound,
         ClosingIsSound, At
    <3>3. LinkingIsSound(d)'
      BY <1>5, <3>1 DEF CallIsSound, LinkingIsSound, At, Remarks
    <3>4. NumberingIsSound(d)'
      <4>1. At(d, "numbering") => calls[d].round # r
        BY <1>0, <1>2, <2>2 DEF GateInv, LocksExclude
      <4> QED  BY <1>7, <1>8, <1>11, <3>1, <4>1, CallFields DEF GateInv, CallIsSound,
         NumberingIsSound, At
    <3> QED  BY <3>2, <3>3, <3>4 DEF CallIsSound
  <2> QED  BY <2>1, <2>2
<1> QED  BY <1>7, <1>10, <1>12, <1>13, <1>14 DEF GateInv

(* A decision or a link: a closed remark stays closed, a pending one may   *)
(* cease to be, and the original of a duplicate is of its round.           *)
LEMMA SetRemarkKeeps ==
  ASSUME GateInv, NEW m \in Remarks, NEW phase \in Phase, NEW dup \in Remark \cup {None},
         SetRemark(m, phase, dup), UNCHANGED rounds,
         phase = remarks[m].phase \/ remarks[m].phase = "pending",
         dup # None => dup \in Remarks /\ remarks[dup].round = remarks[m].round,
         (\E c \in Caller : End(c)) \/ UNCHANGED calls
  PROVE  GateInv'
<1>0. PICK row : row = [round |-> remarks[m].round, number |-> remarks[m].number,
                        phase |-> phase, origin |-> remarks[m].origin, dup |-> dup]
  OBVIOUS
<1>1. m \in Remark /\ remarks[m] \in RemarkRow
  BY RemarkFields DEF GateInv
<1>2. row \in RemarkRow
  BY <1>0, <1>1 DEF RemarkRow
<1>3. /\ remarks' \in [Remark -> RemarkRow \cup {NoRemark}]
      /\ remarks'[m] = row /\ \A k \in Remark : k # m => remarks'[k] = remarks[k]
  BY <1>0, <1>1, <1>2 DEF SetRemark, GateInv, TypeOK
<1>4. /\ Remarks' = Remarks /\ Rounds' = Rounds /\ Pending' \subseteq Pending
      /\ \A k \in Remark : /\ remarks'[k].phase = remarks[k].phase \/ remarks[k].phase = "pending"
                           /\ k \in Remarks => /\ remarks'[k].round = remarks[k].round
                                               /\ remarks'[k].number = remarks[k].number
                                               /\ remarks'[k].origin = remarks[k].origin
                           /\ k # m => remarks'[k] = remarks[k]
  <2>1. row.phase # "none" /\ remarks[m].phase # "none"
    BY <1>0, <1>1 DEF Phase, RemarkRow
  <2>2. Remarks' = Remarks /\ Rounds' = Rounds
    BY <1>1, <1>3, <2>1 DEF Remarks, Rounds
  <2>3. Pending' \subseteq Pending
    BY <1>0, <1>1, <1>3, <2>2 DEF Pending, Remarks
  <2> QED  BY <1>0, <1>1, <1>3, <2>2, <2>3
<1>5. \A r \in Round : In(r)' = In(r) /\ Numbers(r)' = Numbers(r)
  BY <1>4 DEF In, Numbers, Remarks
<1>6. /\ calls' \in [Caller -> Call]
      /\ \A c \in Caller : calls'[c] = calls[c] \/ calls'[c] = Idle
  <2>1. Idle \in Call
    BY DEF Call
  <2> QED  BY <2>1, CallMoves DEF GateInv, TypeOK, End
<1>7. TypeOK' /\ NumbersAreDense' /\ JournalBegins' /\ JournalAlternates' /\ LocksExclude'
  BY <1>3, <1>4, <1>5, <1>6 DEF GateInv, TypeOK, NumbersAreDense, JournalBegins, JournalAlternates,
     LocksExclude, At, Idle, Open
<1>8. \A o \in Remark \cup {None} : OriginIsClosed(o) => OriginIsClosed(o)'
  BY <1>4 DEF OriginIsClosed
<1>9. RelatedExist'
  <2> SUFFICES ASSUME NEW k \in Remarks
               PROVE  (/\ remarks[k].round \in Rounds
                       /\ OriginIsClosed(remarks[k].origin)
                       /\ remarks[k].dup # None =>
                            /\ remarks[k].dup \in Remarks
                            /\ remarks[remarks[k].dup].round = remarks[k].round)'
    BY <1>4 DEF RelatedExist
  <2>1. k \in Remark /\ remarks[k].origin \in Remark \cup {None} /\ remarks'[k].origin = remarks[k].origin
    BY <1>4, RemarkFields DEF RemarkRow, GateInv
  <2>2. (OriginIsClosed(remarks[k].origin))'
    BY <1>8, <2>1 DEF GateInv, RelatedExist
  <2>3. remarks'[k].round \in Rounds'
    BY <1>4, <2>1 DEF GateInv, RelatedExist
  <2>4. remarks'[k].dup # None => /\ remarks'[k].dup \in Remarks
                                  /\ remarks[remarks'[k].dup].round = remarks[k].round
    <3>1. CASE k = m
      BY <1>0, <1>3, <3>1
    <3>2. CASE k # m
      BY <1>4, <2>1, <3>2 DEF GateInv, RelatedExist
    <3> QED  BY <3>1, <3>2
  <2> QED  BY <1>4, <2>1, <2>2, <2>3, <2>4 DEF Remarks
<1>10. CallsAreSound'
  <2> SUFFICES ASSUME NEW c \in Caller PROVE CallIsSound(c)'
    BY DEF CallsAreSound
  <2>1. CASE calls'[c] = Idle
    BY <2>1 DEF CallIsSound, FilingIsSound, NumberingIsSound, OpeningIsSound, LinkingIsSound,
       ClosingIsSound, At, Idle
  <2>2. CASE calls'[c] = calls[c]
    <3>1. CallIsSound(c)
      BY DEF GateInv, CallsAreSound
    <3>2. FilingIsSound(c)' /\ ClosingIsSound(c)'
      BY <1>4, <1>8, <2>2, <3>1, CallFields DEF GateInv, CallIsSound, FilingIsSound,
         ClosingIsSound, At
    <3>3. OpeningIsSound(c)'
      BY <1>4, <2>2, <3>1 DEF CallIsSound, OpeningIsSound, At
    <3>4. LinkingIsSound(c)'
      BY <1>4, <2>2, <3>1 DEF CallIsSound, LinkingIsSound, At, Remarks
    <3>5. NumberingIsSound(c)'
      BY <1>4, <1>5, <1>8, <2>2, <3>1, CallFields DEF GateInv, CallIsSound, NumberingIsSound, At
    <3> QED  BY <3>2, <3>3, <3>4, <3>5 DEF CallIsSound
  <2> QED  BY <1>6, <2>1, <2>2
<1> QED  BY <1>7, <1>9, <1>10 DEF GateInv

LEMMA LinkKeeps ==
  ASSUME GateInv, NEW c \in Caller, Link(c)
  PROVE  GateInv'
<1>1. PICK m, o : m = calls[c].remark /\ o = calls[c].original
  OBVIOUS
<1>2. /\ m \in Remarks /\ o \in Remarks /\ o \in Remark
      /\ remarks[o].round = remarks[m].round /\ remarks[m].phase \in Phase
  BY <1>1, RemarkFields DEF Link, GateInv, CallsAreSound, CallIsSound, LinkingIsSound, RemarkRow
<1>3. SetRemark(m, remarks[m].phase, o) /\ End(c) /\ UNCHANGED rounds
  BY <1>1 DEF Link
<1> QED  BY <1>2, <1>3, SetRemarkKeeps

LEMMA DecideKeeps ==
  ASSUME GateInv, NEW m \in Remark, Decide(m)
  PROVE  GateInv'
<1>1. /\ m \in Remarks /\ remarks[m].phase = "pending" /\ UNCHANGED <<rounds, calls>>
      /\ remarks[m].dup \in Remark \cup {None}
  BY RemarkFields DEF Decide, Pending, GateInv, RemarkRow
<1>2. \A o \in Originals(m) \cup {remarks[m].dup} :
        o # None => o \in Remarks /\ o \in Remark /\ remarks[o].round = remarks[m].round
  BY <1>1 DEF Originals, In, GateInv, RelatedExist, Remarks
<1>3. CASE SetRemark(m, "closed", remarks[m].dup)
  BY <1>1, <1>2, <1>3, SetRemarkKeeps DEF Phase
<1>4. ASSUME NEW o \in Originals(m) \cup {remarks[m].dup}, SetRemark(m, "settled", o)
      PROVE  GateInv'
  BY <1>1, <1>2, <1>4, SetRemarkKeeps DEF Phase
<1> QED  BY <1>3, <1>4 DEF Decide

-----------------------------------------------------------------------------
LEMMA GateBegins == Init => GateInv
<1> SUFFICES ASSUME Init PROVE GateInv
  OBVIOUS
<1>1. TypeOK /\ Rounds = {} /\ Remarks = {} /\ \A c \in Caller : calls[c] = Idle
  BY DEF Init, TypeOK, Rounds, Remarks, NoRow, NoRemark, Call
<1>2. NumbersAreDense
  <2>1. \A r \in Round : In(r) = {} /\ Numbers(r) = {}
    BY <1>1 DEF In, Numbers
  <2>2. Cardinality({}) = 0 /\ 1..0 = {}
    BY FS_EmptySet
  <2>3. ASSUME NEW r \in Round PROVE Numbers(r) = 1..Cardinality(In(r))
    <3>1. Numbers(r) = {} /\ Cardinality(In(r)) = 0
      BY <2>1, <2>2
    <3> QED  BY <2>2, <3>1
  <2> QED  BY <2>3 DEF NumbersAreDense
<1>3. CallsAreSound
  BY <1>1, IdleIsSound DEF CallsAreSound
<1>4. LocksExclude /\ JournalBegins /\ JournalAlternates /\ RelatedExist
  BY <1>1 DEF LocksExclude, At, Idle, JournalBegins, JournalAlternates, RelatedExist
<1> QED  BY <1>1, <1>2, <1>3, <1>4 DEF GateInv

LEMMA GateStep == GateInv /\ [Next]_vars => GateInv'
<1> SUFFICES ASSUME GateInv, [Next]_vars PROVE GateInv'
  OBVIOUS
<1>1. CASE UNCHANGED vars
  <2>1. UNCHANGED <<rounds, remarks>> /\ UNCHANGED calls
    BY <1>1 DEF vars
  <2>2. TypeOK' /\ LocksExclude'
    BY <2>1 DEF GateInv, TypeOK, LocksExclude, At
  <2>3. CallsAreSound'
    BY <2>1, OthersStaySound DEF CallsAreSound
  <2> QED  BY <2>1, <2>2, <2>3, TablesStay DEF GateInv
<1>2. ASSUME NEW c \in Caller,
             LockProject(c) \/ OpenRound(c) \/ NumberRefused(c) \/ CloseRound(c)
             \/ TakeNumber(c) \/ InsertRemark(c) \/ Link(c)
      PROVE  GateInv'
  <2>1. CASE NumberRefused(c)
    BY <2>1, EndKeeps DEF NumberRefused
  <2> QED  BY <1>2, <2>1, LockProjectKeeps, OpenRoundKeeps, CloseRoundKeeps, TakeNumberKeeps,
     InsertRemarkKeeps, LinkKeeps
<1>3. ASSUME NEW c \in Caller, NEW r \in Round,
             CheckClose(c, r) \/ CheckCreate(c, r) \/ \E m \in Remark : CheckRepeat(c, m, r)
      PROVE  GateInv'
  BY <1>3, CheckCloseKeeps, CheckFilingKeeps
<1>4. ASSUME NEW c \in Caller, NEW m \in Remark, CheckLink(c, m)  PROVE GateInv'
  BY <1>4, CheckLinkKeeps
<1>5. ASSUME NEW r \in Round, ReopenRound(r)  PROVE GateInv'
  BY <1>5, ChangeKeeps DEF ReopenRound
<1>6. ASSUME NEW m \in Remark, Decide(m)  PROVE GateInv'
  BY <1>6, DecideKeeps
<1> QED  BY <1>1, <1>2, <1>3, <1>4, <1>5, <1>6 DEF Next

(* What a request has found out stays true until it has written, whatever  *)
(* the others do in between.                                               *)
THEOREM GateInvHolds == Spec => []GateInv
<1> QED  BY GateBegins, GateStep, PTL DEF Spec

(* The tables of rounds and remarks hold rows of their kinds only.         *)
THEOREM GateTypes == Spec => []TypeOK
<1>1. GateInv => TypeOK
  BY DEF GateInv
<1> QED  BY <1>1, GateInvHolds, PTL

(* Numbers without a gap or a copy, journals that alternate, relations     *)
(* that hold: for any number of overlapping requests.                      *)
THEOREM RoundsStaySound == Spec => []RoundsAreSound
<1>1. ASSUME GateInv PROVE RoundsAreSound
  <2>1. RelationsAreSound
    BY <1>1 DEF GateInv, RelatedExist, OriginIsClosed, RelationsAreSound
  <2>2. \A r \in Round : {remarks[m].number : m \in In(r)} = 1..Cardinality(In(r))
    BY <1>1 DEF GateInv, NumbersAreDense, Numbers
  <2>3. ASSUME NEW c \in Caller, At(c, "numbering"), NEW m \in In(calls[c].round)
        PROVE  remarks[m].number < calls[c].number
    <3>1. PICK r \in Round : r = calls[c].round
      BY <1>1, <2>3, CallFields DEF GateInv
    <3>2. calls[c].number = Cardinality(In(r)) + 1 /\ Cardinality(In(r)) \in Nat
      BY <1>1, <2>3, <3>1, RemarksAreFinite
         DEF GateInv, CallsAreSound, CallIsSound, NumberingIsSound
    <3>3. remarks[m].number \in 1..Cardinality(In(r))
      BY <2>2, <2>3, <3>1
    <3> QED  BY <3>2, <3>3
  <2> QED  BY <1>1, <2>1, <2>2, <2>3 DEF GateInv, RoundsAreSound, NumberIsFree
<1> QED  BY <1>1, GateInvHolds, PTL

(* A round opens at a moment at which nothing is pending, and a number the *)
(* service has chosen itself is never refused.                             *)
THEOREM RoundsOpenUndisturbed == Spec => OpensUndisturbed
<1>1. ASSUME GateInv, [Next]_vars
      PROVE  [/\ \A r \in Round : r \in Rounds' \ Rounds => Pending = {}
              /\ \A c \in Caller : NumberRefused(c) => calls[c].asked # None]_vars
  <2>1. ASSUME NEW r \in Round, r \in Rounds' \ Rounds  PROVE Pending = {}
    <3>1. rounds' # rounds /\ rounds'[r].status # "none" /\ rounds[r].status = "none"
      BY <2>1 DEF Rounds
    <3>2. ASSUME NEW c \in Caller, OpenRound(c)  PROVE Pending = {}
      BY <1>1, <3>2 DEF OpenRound, GateInv, CallsAreSound, CallIsSound, OpeningIsSound
    <3>3. ASSUME NEW q \in Rounds, NEW status, NEW event, Happens(q, status, event)
          PROVE  FALSE
      <4>1. q \in Round /\ q # r
        BY <1>1, <2>1, <3>3, RoundFields DEF GateInv
      <4>2. rounds'[r] = rounds[r]
        BY <1>1, <3>3, <4>1 DEF Happens, GateInv, TypeOK
      <4> QED  BY <3>1, <4>2
    <3>4. ~ \E c \in Caller : CloseRound(c)
      BY <1>1, <3>1, <3>3 DEF CloseRound, Closes, GateInv, CallsAreSound, CallIsSound,
         ClosingIsSound
    <3>5. ~ \E q \in Round : ReopenRound(q)
      BY <3>3 DEF ReopenRound
    <3> QED  BY <1>1, <3>1, <3>2, <3>4, <3>5 DEF Next, vars, LockProject, NumberRefused,
       TakeNumber, InsertRemark, Link, CheckClose, CheckCreate, CheckRepeat, CheckLink, Decide
  <2>2. ASSUME NEW c \in Caller, NumberRefused(c)  PROVE calls[c].asked # None
    <3>1. At(c, "opening") /\ \E r \in Rounds : rounds[r].number = calls[c].number
      BY <2>2 DEF NumberRefused, Taken
    <3>2. calls[c].asked = None => \A r \in Rounds : rounds[r].number < calls[c].number
      BY <1>1, <3>1 DEF GateInv, CallsAreSound, CallIsSound, OpeningIsSound
    <3>3. \A r \in Rounds : rounds[r].number \in Nat
      BY <1>1, RoundFields DEF GateInv, RoundRow
    <3> QED  BY <3>1, <3>2, <3>3
  <2> QED  BY <2>1, <2>2
<1> QED  BY <1>1, GateInvHolds, PTL DEF Spec, OpensUndisturbed
=============================================================================
