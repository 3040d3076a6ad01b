----------------------------- MODULE JournalImport -----------------------------
(***************************************************************************)
(* A journal in a file becomes remarks of a round: the template's columns, *)
(* the rows (src/apps/api/src/imports/journal-parser.ts) and the loop that *)
(* files them one by one (imports.service.ts) while people work in the     *)
(* same round and the process may die.                                     *)
(*                                                                         *)
(* A cell is empty, a text or one longer than MAX_CELL_CHARS; a text in a  *)
(* cell is told from another by the cell's place only.  Left out: the      *)
(* bytes of csv and xlsx, the columns that are copied without a look, the  *)
(* job row and the stored file, which nothing else rests on, and a close   *)
(* of the round in the middle of a row (RoundGate).                        *)
(***************************************************************************)
EXTENDS Integers, Sequences, SequencesExt, FiniteSets

CONSTANTS
  Journal,     \* files: a header and the rows under it
  MaxRows,     \* IMPORT_MAX_ROWS
  MaxFilings   \* bound on the remarks other people file

ASSUME ImportAssumption == MaxRows \in Nat /\ MaxFilings \in Nat

JOURNAL_COLUMNS == {"description", "expected"}

VARIABLES
  journal,     \* the file
  roundIs,     \* the round: open, closed
  import,      \* the request: its phase and the row it is at
  filed,       \* remarks of the round, in the order of their numbers
  importRow    \* the table ImportRow

importVars == <<journal, roundIs, import, filed, importRow>>

RowStatus == {"parsed", "needs_human_parse"}
FiledAs   == {"imported", "needs_human_parse", "analysing", "settled"}

ImportTypeOK ==
  /\ journal \in Journal /\ roundIs \in {"open", "closed"}
  /\ import.phase \in {"none", "refused", "filing", "recording", "starting", "over", "stopped"}
  /\ import.at \in 0..(MaxRows + 1)
  /\ \A k \in DOMAIN filed : filed[k].row \in 0..MaxRows /\ filed[k].status \in FiledAs
  /\ \A k \in DOMAIN importRow : importRow[k].status \in RowStatus /\ importRow[k].remark \in DOMAIN filed

ImportInit ==
  /\ journal \in Journal /\ roundIs = "open"
  /\ import = [phase |-> "none", at |-> 0]
  /\ filed = <<>> /\ importRow = <<>>

-----------------------------------------------------------------------------
Cell(row, i) == IF i \in DOMAIN row.cells THEN row.cells[i] ELSE "empty"

(* matchHeader: every column once and nothing else, in any order; columns  *)
(* without a name are passed over.                                         *)
IsTemplate(header) ==
  /\ Range(header) \ {""} = JOURNAL_COLUMNS
  /\ \A i, j \in DOMAIN header : header[i] = header[j] /\ header[i] # "" => i = j

ColumnIn(header, column) == CHOOSE i \in DOMAIN header : header[i] = column

(* Mutant: the columns are taken in the template's order.                  *)
CellInOrder(header, row, column) == Cell(row, IF column = "description" THEN 1 ELSE 2)

(* toRow.                                                                  *)
CellOf(header, row, column) == Cell(row, ColumnIn(header, column))

StatusOf(header, row) ==
  IF \/ \E i \in DOMAIN row.cells : i > Cardinality(JOURNAL_COLUMNS) /\ row.cells[i] # "empty"
     \/ CellOf(header, row, "description") = "empty"
     \/ \E c \in JOURNAL_COLUMNS : CellOf(header, row, c) = "long"
  THEN "needs_human_parse" ELSE "parsed"

IsRow(row) == row.image \/ \E i \in DOMAIN row.cells : row.cells[i] # "empty"

Rows == SelectSeq(journal.rows, IsRow)

(* The remark of a row: its description is the column's, clipped.          *)
RemarkFor(n) ==
  [row  |-> n,
   text |-> CellOf(journal.header, Rows[n], "description"),
   status |-> IF StatusOf(journal.header, Rows[n]) = "parsed" THEN "imported" ELSE "needs_human_parse"]

-----------------------------------------------------------------------------
AskImport ==
  /\ import.phase = "none"
  /\ import' = IF /\ roundIs = "open" /\ IsTemplate(journal.header)
                  /\ Len(Rows) \in 1..MaxRows
               THEN [phase |-> "filing", at |-> 1]
               ELSE [import EXCEPT !.phase = "refused"]
  /\ UNCHANGED <<journal, roundIs, filed, importRow>>

(* createImported: refused as soon as the round is closed.                 *)
FileRow ==
  /\ import.phase = "filing"
  /\ IF roundIs = "open"
     THEN /\ filed' = Append(filed, RemarkFor(import.at))
          /\ import' = [import EXCEPT !.phase = "recording"]
     ELSE import' = [import EXCEPT !.phase = "stopped"] /\ UNCHANGED filed
  /\ UNCHANGED <<journal, roundIs, importRow>>

FiledFor(n) == CHOOSE k \in DOMAIN filed : filed[k].row = n

RecordRow ==
  /\ import.phase = "recording"
  /\ importRow' = Append(importRow, [row |-> import.at, remark |-> FiledFor(import.at),
                                     status |-> StatusOf(journal.header, Rows[import.at])])
  /\ import' = IF import.at < Len(Rows) THEN [phase |-> "filing", at |-> import.at + 1]
               ELSE [phase |-> "starting", at |-> 1]
  /\ UNCHANGED <<journal, roundIs, filed>>

(* triageInBackground: what cannot be started is passed over.              *)
StartRow ==
  /\ import.phase = "starting"
  /\ import' = IF import.at < Len(Rows) THEN [import EXCEPT !.at = @ + 1]
               ELSE [import EXCEPT !.phase = "over"]
  /\ LET k == FiledFor(import.at)
     IN \/ UNCHANGED filed
        \/ /\ importRow[import.at].status = "parsed" /\ filed[k].status = "imported"
           /\ filed' = [filed EXCEPT ![k].status = "analysing"]
  /\ UNCHANGED <<journal, roundIs, importRow>>

(* The process dies: the caller gets no answer, the loop is not resumed.   *)
Crash ==
  /\ import.phase \in {"filing", "recording", "starting"}
  /\ import' = [import EXCEPT !.phase = "stopped"]
  /\ UNCHANGED <<journal, roundIs, filed, importRow>>

-----------------------------------------------------------------------------
(* Other people in the round.                                              *)
FileByHand ==
  /\ roundIs = "open"
  /\ Cardinality({k \in DOMAIN filed : filed[k].row = 0}) < MaxFilings
  /\ filed' = Append(filed, [row |-> 0, text |-> "text", status |-> "imported"])
  /\ UNCHANGED <<journal, roundIs, import, importRow>>

Steps(k, from, to) ==
  /\ filed[k].status = from /\ filed' = [filed EXCEPT ![k].status = to]
  /\ UNCHANGED <<journal, roundIs, import, importRow>>

FixRow(k)      == Steps(k, "needs_human_parse", "imported") \/ Steps(k, "needs_human_parse", "analysing")
StartByHand(k) == Steps(k, "imported", "analysing")
Settle(k)      == Steps(k, "analysing", "settled")

CloseTheRound ==
  /\ roundIs = "open" /\ \A k \in DOMAIN filed : filed[k].status = "settled"
  /\ roundIs' = "closed"
  /\ UNCHANGED <<journal, import, filed, importRow>>

ImportNext ==
  \/ AskImport \/ FileRow \/ RecordRow \/ StartRow \/ Crash \/ FileByHand \/ CloseTheRound
  \/ \E k \in DOMAIN filed : FixRow(k) \/ StartByHand(k) \/ Settle(k)

-----------------------------------------------------------------------------
(* The columns of a header that stand before an unnamed one or after it.   *)
HasGap(header) == \E i, j \in DOMAIN header : i < j /\ header[i] = "" /\ header[j] # ""

Place(column) == {i \in DOMAIN journal.header : journal.header[i] = column}

(* What a reader of the file would say: a description, nothing too long,   *)
(* nothing written outside the columns.                                    *)
ReadsWell(row) ==
  /\ \A i \in Place("description") : Cell(row, i) = "text"
  /\ \A i \in Place("expected") : Cell(row, i) # "long"
  /\ \A i \in DOMAIN row.cells \ UNION {Place(c) : c \in JOURNAL_COLUMNS} : row.cells[i] = "empty"

(* Every row of a journal is accounted for (imports.service.ts, "nothing   *)
(* is invented and nothing lost"): whatever people do in the round and     *)
(* wherever the loop stops, the remarks of an import are the first rows of *)
(* the file, once each and in order; each but the last has its ImportRow,  *)
(* which points at it; an import that has answered left no row out; the    *)
(* text under the description's column is the remark's, and a row goes to  *)
(* a person exactly if it does not read well.  Except that a header with   *)
(* an unnamed column before a named one is counted wrongly by toRow.       *)
ImportIsAccounted ==
  LET mine    == SelectSeq(filed, LAMBDA r : r.row # 0)
      started == import.phase \in {"starting", "over"}
  IN /\ \A k \in DOMAIN mine : mine[k].row = k
     /\ Len(importRow) \in {Len(mine) - 1, Len(mine)}
     /\ \A k \in DOMAIN importRow : importRow[k].row = k /\ filed[importRow[k].remark].row = k
     /\ started => Len(mine) = Len(Rows) /\ Len(importRow) = Len(mine)
     /\ \A k \in DOMAIN mine : \A i \in Place("description") : mine[k].text = Cell(Rows[k], i)
     /\ ~HasGap(journal.header) =>
          \A k \in DOMAIN importRow : importRow[k].status = "parsed" <=> ReadsWell(Rows[k])
================================================================================
