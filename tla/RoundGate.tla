----------------------------- MODULE RoundGate -----------------------------
(***************************************************************************)
(* Acceptance rounds and the remarks filed in them, for one project:       *)
(* RoundsService (apps/api/src/rounds/rounds.service.ts) and the part of   *)
(* RemarksService that creates, repeats and links remarks.                 *)
(*                                                                         *)
(* Every request reads first and writes later, so a request in progress is *)
(* a record of what it has read.  A transaction that takes a row lock and  *)
(* then reads is two steps: the lock is held in between.  Isolation is     *)
(* READ COMMITTED, Prisma's default on Postgres.                           *)
(*                                                                         *)
(* How a remark comes to be decided is the subject of RemarkLifecycle;     *)
(* here it is pending, closed, or settled otherwise (a new wish or a       *)
(* duplicate).                                                             *)
(***************************************************************************)
EXTENDS Integers, Sequences, FiniteSets

CONSTANTS
  Caller,      \* requests in progress at the same time
  NRounds,     \* bound on the rounds of the project
  NRemarks,    \* bound on its remarks
  MaxEvents    \* bound on the events of a round

Round  == 1..NRounds      \* ids, in order of creation
Remark == 1..NRemarks
None   == 0               \* no round, no remark, no number asked for

ASSUME GateAssumption ==
  NRounds \in Nat \ {0} /\ NRemarks \in Nat \ {0} /\ MaxEvents \in Nat \ {0}

VARIABLES
  rounds,    \* table Round with its RoundEvents
  remarks,   \* table Remark
  calls      \* what each caller is in the middle of

vars == <<rounds, remarks, calls>>

Phase == {"pending", "closed", "settled"}
Event == {"open", "close", "reopen"}

RoundRow  == [status : {"open", "closed"}, number : Nat \ {0}, events : Seq(Event)]
RemarkRow == [round : Round, number : Nat \ {0}, phase : Phase,
              origin : Remark \cup {None}, dup : Remark \cup {None}]
NoRow     == [status |-> "none"]
NoRemark  == [phase |-> "none"]

(* A request: filing holds the remark it will create, numbering has locked *)
(* the round and read its last number, opening has locked the project,     *)
(* closing has found nothing pending, linking has found the original.      *)
Idle == [at |-> "idle"]
Call == {Idle}
   \cup [at : {"filing"}, round : Round, origin : Remark \cup {None}]
   \cup [at : {"numbering"}, round : Round, origin : Remark \cup {None}, number : Nat]
   \cup [at : {"opening"}, asked : Nat, number : Nat]
   \cup [at : {"closing"}, round : Round]
   \cup [at : {"linking"}, remark : Remark, original : Remark]

TypeOK ==
  /\ rounds \in [Round -> RoundRow \cup {NoRow}]
  /\ remarks \in [Remark -> RemarkRow \cup {NoRemark}]
  /\ calls \in [Caller -> Call]

-----------------------------------------------------------------------------
Rounds  == {r \in Round : rounds[r].status # "none"}
Remarks == {m \in Remark : remarks[m].phase # "none"}
In(r)   == {m \in Remarks : remarks[m].round = r}

Pending == {m \in Remarks : remarks[m].phase = "pending"}

Largest(S) == IF S = {} THEN 0 ELSE CHOOSE n \in S : \A k \in S : k <= n
LastRemark(r) == Largest({remarks[m].number : m \in In(r)})
LastRound     == Largest({rounds[r].number : r \in Rounds})

(* Mutant: the last number is given once more.                             *)
SameAgain(last) == last

Following(last) == last + 1

Begin(c, call) == calls[c] = Idle /\ calls' = [calls EXCEPT ![c] = call]
Move(c, call)  == calls' = [calls EXCEPT ![c] = call]
End(c)         == Move(c, Idle)

At(c, where) == calls[c].at = where

(* Mutants: the row locks are left out.                                    *)
RoundNotLocked(r) == TRUE
ProjectNotLocked == TRUE

(* SELECT ... FOR UPDATE on the row of the round, and of the project.      *)
RoundFree(r) == \A c \in Caller : At(c, "numbering") => calls[c].round # r
ProjectFree  == \A c \in Caller : ~At(c, "opening")

Open(r) == rounds[r].status = "open"

-----------------------------------------------------------------------------
(* A project is created without rounds.                                    *)
Init ==
  /\ rounds = [r \in Round |-> NoRow]
  /\ remarks = [m \in Remark |-> NoRemark]
  /\ calls = [c \in Caller |-> Idle]

-----------------------------------------------------------------------------
(* POST /rounds: lock the project, look for anything pending, take the     *)
(* next number or the one asked for.                                       *)
LockProject(c) ==
  \E asked \in {None} \cup Round :
    /\ ProjectFree
    /\ Pending = {}
    /\ Begin(c, [at |-> "opening", asked |-> asked,
                 number |-> IF asked = None THEN Following(LastRound) ELSE asked])
    /\ UNCHANGED <<rounds, remarks>>

Taken(n) == \E r \in Rounds : rounds[r].number = n

OpenRound(c) ==
  /\ At(c, "opening")
  /\ ~Taken(calls[c].number)
  /\ \E r \in Round \ Rounds :
       /\ \A q \in Round \ Rounds : r <= q
       /\ rounds' = [rounds EXCEPT ![r] =
            [status |-> "open", number |-> calls[c].number, events |-> <<"open">>]]
  /\ End(c)
  /\ UNCHANGED remarks

(* @@unique(projectId, number) refuses a number somebody asked for.        *)
NumberRefused(c) ==
  /\ At(c, "opening")
  /\ Taken(calls[c].number)
  /\ End(c)
  /\ UNCHANGED <<rounds, remarks>>

(* POST /rounds/:id/close: what is pending is read outside the transaction *)
(* that closes.                                                            *)
CheckClose(c, r) ==
  /\ Open(r)
  /\ In(r) \cap Pending = {}
  /\ Begin(c, [at |-> "closing", round |-> r])
  /\ UNCHANGED <<rounds, remarks>>

Happens(r, status, event) ==
  /\ Len(rounds[r].events) < MaxEvents
  /\ rounds' = [rounds EXCEPT ![r] =
       [status |-> status, number |-> rounds[r].number,
        events |-> Append(rounds[r].events, event)]]

(* Mutant: the update has no condition on the status.                      *)
CloseUnconditionally(r) == Happens(r, "closed", "close")

Closes(r) == Open(r) /\ Happens(r, "closed", "close")

CloseRound(c) ==
  LET r == calls[c].round IN
  /\ At(c, "closing")
  /\ RoundFree(r) /\ ProjectFree
  /\ \/ Closes(r)
     \/ ~Open(r) /\ UNCHANGED rounds      \* 409: somebody else has closed it
  /\ End(c)
  /\ UNCHANGED remarks

(* POST /rounds/:id/reopen: one conditional update and its event.          *)
ReopenRound(r) ==
  /\ r \in Rounds /\ ~Open(r)
  /\ RoundFree(r) /\ ProjectFree
  /\ Happens(r, "open", "reopen")
  /\ UNCHANGED <<remarks, calls>>

-----------------------------------------------------------------------------
(* create, and a row of an import: the round is checked before the         *)
(* transaction.                                                            *)
CheckCreate(c, r) ==
  /\ Open(r)
  /\ Begin(c, [at |-> "filing", round |-> r, origin |-> None])
  /\ UNCHANGED <<rounds, remarks>>

(* Mutant: any decided remark may be claimed again.                        *)
RepeatableAny(m) == remarks[m].phase \in {"closed", "settled"}

Repeatable(m) == remarks[m].phase = "closed"

(* reopen: the customer repeats a closed claim in an open round.           *)
CheckRepeat(c, m, r) ==
  /\ m \in Remarks /\ Repeatable(m)
  /\ Open(r)
  /\ Begin(c, [at |-> "filing", round |-> r, origin |-> m])
  /\ UNCHANGED <<rounds, remarks>>

(* createNumbered locks the round and reads the last number ...            *)
TakeNumber(c) ==
  LET r == calls[c].round IN
  /\ At(c, "filing")
  /\ RoundFree(r)
  /\ Move(c, [at |-> "numbering", round |-> r, origin |-> calls[c].origin,
              number |-> Following(LastRemark(r))])
  /\ UNCHANGED <<rounds, remarks>>

(* ... and inserts the remark; its foreign key waits for the project lock. *)
(* The retry after a refused number is left out: NumberIsFree shows it is  *)
(* never needed.                                                           *)
InsertRemark(c) ==
  /\ At(c, "numbering")
  /\ ProjectFree
  /\ \E m \in Remark \ Remarks :
       /\ \A k \in Remark \ Remarks : m <= k
       /\ remarks' = [remarks EXCEPT ![m] =
            [round |-> calls[c].round, number |-> calls[c].number, phase |-> "pending",
             origin |-> calls[c].origin, dup |-> None]]
  /\ End(c)
  /\ UNCHANGED rounds

-----------------------------------------------------------------------------
(* The original of a duplicate is looked up by its number in the round.    *)
Originals(m) == In(remarks[m].round)

CheckLink(c, m) ==
  /\ m \in Remarks
  /\ Open(remarks[m].round)
  /\ \E o \in Originals(m) \ {m} :
       Begin(c, [at |-> "linking", remark |-> m, original |-> o])
  /\ UNCHANGED <<rounds, remarks>>

SetRemark(m, phase, dup) ==
  remarks' = [remarks EXCEPT ![m] =
    [round |-> remarks[m].round, number |-> remarks[m].number, phase |-> phase,
     origin |-> remarks[m].origin, dup |-> dup]]

(* linkDuplicate writes the link whatever has happened since.              *)
Link(c) ==
  /\ At(c, "linking")
  /\ SetRemark(calls[c].remark, remarks[calls[c].remark].phase, calls[c].original)
  /\ End(c)
  /\ UNCHANGED rounds

(* A pending remark is closed or settled by a human, who may name an       *)
(* original - its own number included, which nobody checks here.           *)
Decide(m) ==
  /\ m \in Pending
  /\ \/ SetRemark(m, "closed", remarks[m].dup)
     \/ \E o \in Originals(m) \cup {remarks[m].dup} : SetRemark(m, "settled", o)
  /\ UNCHANGED <<rounds, calls>>

-----------------------------------------------------------------------------
Next ==
  \/ \E c \in Caller :
       \/ LockProject(c) \/ OpenRound(c) \/ NumberRefused(c)
       \/ CloseRound(c) \/ TakeNumber(c) \/ InsertRemark(c) \/ Link(c)
       \/ \E r \in Round : \/ CheckClose(c, r) \/ CheckCreate(c, r)
                           \/ \E m \in Remark : CheckRepeat(c, m, r)
       \/ \E m \in Remark : CheckLink(c, m)
  \/ \E r \in Round : ReopenRound(r)
  \/ \E m \in Remark : Decide(m)

Spec == Init /\ [][Next]_vars

-----------------------------------------------------------------------------
(* The number read under the lock is still free when it is used: two       *)
(* remarks filed at once never meet the unique constraint, and no number   *)
(* is skipped.                                                             *)
NumberIsFree ==
  /\ \A c \in Caller : At(c, "numbering") =>
       \A m \in In(calls[c].round) : remarks[m].number < calls[c].number
  /\ \A r \in Round : {remarks[m].number : m \in In(r)} = 1..Cardinality(In(r))

(* The journal of a round alternates and ends in its status: of two people *)
(* who close at once one does.                                             *)
JournalAlternates ==
  \A r \in Rounds : LET e == rounds[r].events IN
    /\ e[1] = "open"
    /\ \A i \in 2..Len(e) : e[i] = IF e[i - 1] = "close" THEN "reopen" ELSE "close"
    /\ Open(r) <=> e[Len(e)] # "close"

(* A repeated claim rests on a closed remark, a duplicate on one of its    *)
(* round.                                                                  *)
RelationsAreSound ==
  \A m \in Remarks :
    /\ remarks[m].origin # None => remarks[remarks[m].origin].phase = "closed"
    /\ remarks[m].dup # None => remarks[remarks[m].dup].round = remarks[m].round

(* Requests that overlap leave sound rounds (rounds.service.ts, remarks.   *)
(* service.ts): no number twice and no gap, no change told twice by the    *)
(* journal of a round, and what a request has found out about another      *)
(* remark stays true: the origin of a repeated claim is and stays closed,  *)
(* the original of a duplicate is of the same round, whichever of the      *)
(* three handlers wrote the link.                                          *)
RoundsAreSound == NumberIsFree /\ JournalAlternates /\ RelationsAreSound

(* A round opens only when nothing in the project is pending at that very  *)
(* moment - no remark slips in between the look and the insert - and two   *)
(* people who open one at once both succeed: only a number somebody asked  *)
(* for can meet the unique constraint.                                     *)
OpensUndisturbed ==
  [][/\ \A r \in Round : r \in Rounds' \ Rounds => Pending = {}
     /\ \A c \in Caller : NumberRefused(c) => calls[c].asked # None]_vars

(* docs/STATUS.md:96: a round is closed only when all its remarks are      *)
(* closed, a new wish or a duplicate, and none is added to a closed round. *)
ClosedRoundIsSettled ==
  \A r \in Rounds : ~Open(r) => In(r) \cap Pending = {}
=============================================================================
