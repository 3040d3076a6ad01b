-------------------------------- MODULE Chunker --------------------------------
(***************************************************************************)
(* How the text of a document becomes the sections that are searched and   *)
(* cited (src/apps/api/src/rag/chunker.ts).                                *)
(*                                                                         *)
(* A line is what the regular expressions tell apart: `blank`, `plain`, a  *)
(* markdown heading (level > 0), the word for a table of contents          *)
(* (`title`), a page number alone (`bare`).  `number` is the number it     *)
(* begins with; `form` says that it has the form of a numbered heading     *)
(* (capital, no unit, length, brackets, no final punctuation), `start`     *)
(* that it begins like one; `lower` and `stop` that it begins with a small *)
(* letter or ends a sentence; `tail` the kind of the page number at its    *)
(* end.  A word is its line and its place there.                           *)
(***************************************************************************)
EXTENDS Integers, Sequences, SequencesExt, FiniteSets, FiniteSetsExt

CONSTANTS
  Line,          \* lines a document is made of
  MaxLines,      \* bound on their number
  maxWords,      \* the longest chunk, in words
  overlapWords   \* words two neighbouring windows share

ASSUME ChunkerAssumption ==
  /\ maxWords \in Nat \ {0} /\ overlapWords \in 0..(maxWords - 1)
  /\ MaxLines \in Nat

TOC_MIN_ENTRIES == 3
TOC_WRAP_LINES  == 2

VARIABLE doc   \* the lines of the text so far

PlainLine ==
  [kind |-> "plain", level |-> 0, number |-> <<>>, form |-> FALSE, start |-> FALSE,
   lower |-> FALSE, stop |-> FALSE, tail |-> "none", page |-> 0, words |-> 2]

BlankLine == [PlainLine EXCEPT !.kind = "blank", !.words = 0]

-----------------------------------------------------------------------------
(* The nearest lines with text before and after line i, as sets of at most *)
(* one number.                                                             *)
Filled(lines) == {j \in DOMAIN lines : lines[j].kind # "blank"}

NearestBefore(lines, i) ==
  LET js == {j \in Filled(lines) : j < i} IN IF js = {} THEN {} ELSE {Max(js)}

NearestAfter(lines, i) ==
  LET js == {j \in Filled(lines) : j > i} IN IF js = {} THEN {} ELSE {Min(js)}

(* `1. Open` next to `2. Enter`: items of a list.                          *)
IsListNeighbour(a, b) ==
  /\ Len(a) = Len(b) /\ b # <<>>
  /\ Front(a) = Front(b)
  /\ Last(a) - Last(b) \in {-1, 1}

(* A numbered line is a heading if it has the form and stands where one    *)
(* may stand.                                                              *)
NumberedHeading(lines, i, ctx) ==
  /\ lines[i].form
  /\ \/ ctx.atStart \/ ctx.prevIsHeading
     \/ i = 1 \/ lines[i - 1].kind = "blank" \/ lines[i - 1].stop
  /\ i < Len(lines) => ~lines[i + 1].lower
  /\ \A j \in NearestBefore(lines, i) \cup NearestAfter(lines, i) :
       ~IsListNeighbour(lines[i].number, lines[j].number)

(* The level of the heading line i is, 0 if it is none.                    *)
HeadingLevel(lines, i, ctx) ==
  IF lines[i].level > 0 THEN lines[i].level
  ELSE IF NumberedHeading(lines, i, ctx) THEN Len(lines[i].number) + 1
  ELSE 0

-----------------------------------------------------------------------------
(* The table of contents: entries [from, to] with their pages.             *)
Newest(s, n) == SubSeq(s, Len(s) - n + 1, Len(s))

(* The lines a series stands for, nothing if it is no table of contents.   *)
TocRange(lines, series) ==
  LET first  == series[1].from
      titled == {j \in NearestBefore(lines, first) : lines[j].kind = "title"}
      starts == {k \in DOMAIN series : lines[series[k].from].start}
  IN IF \/ Len(series) < TOC_MIN_ENTRIES
        \/ titled = {} /\ \E k \in DOMAIN series : series[k].tail = "weak"
        \/ /\ titled = {} /\ \E k \in DOMAIN series : series[k].tail # "dots"
           /\ 3 * Cardinality(starts) < 2 * Len(series)
     THEN {}
     ELSE Min(titled \cup {first})..Last(series).to

CloseSeries(lines, s) ==
  [s EXCEPT !.series = <<>>, !.drop = @ \cup TocRange(lines, s.series)]

(* Lines before line i that belong to the same entry: the heading was      *)
(* wrapped.                                                                *)
Wrapped(lines, s, i) ==
  LET pending == s.pending
      n       == Min({TOC_WRAP_LINES, Len(pending)})
      recent  == Newest(pending, n)
      under   == {k \in 1..n : k < Len(pending) /\ lines[pending[Len(pending) - k]].kind = "title"}
      starts  == {k \in 1..n : lines[recent[k]].start}
  IN IF s.series # <<>> THEN pending
     ELSE IF lines[i].tail # "none"
     THEN IF under = {} THEN <<>> ELSE Newest(pending, Max(under))
     ELSE IF starts = {} THEN <<>> ELSE SubSeq(recent, Min(starts), n)

TocStep(lines, s, i) ==
  LET wrapped == Wrapped(lines, s, i)
      bare    == lines[i].kind = "bare" /\ wrapped # <<>>
      passed  == [s EXCEPT !.pending = Append(@, i)]
      entry   == [from |-> IF wrapped = <<>> THEN i ELSE wrapped[1], to |-> i,
                  page |-> lines[i].page, tail |-> lines[i].tail]
      running == IF s.series # <<>> /\ entry.page < Last(s.series).page
                 THEN CloseSeries(lines, s) ELSE s
  IN IF lines[i].kind = "blank" THEN s
     ELSE IF lines[i].tail = "none" /\ ~bare
     THEN IF Len(passed.pending) > TOC_WRAP_LINES THEN CloseSeries(lines, passed) ELSE passed
     ELSE [running EXCEPT !.series = Append(@, entry), !.pending = <<>>]

TocLines(lines) ==
  LET Step(s, i) == TocStep(lines, s, i)
      none       == [series |-> <<>>, pending |-> <<>>, drop |-> {}]
      all        == FoldLeft(Step, none, [i \in DOMAIN lines |-> i])
  IN CloseSeries(lines, all).drop

-----------------------------------------------------------------------------
(* Mutant: the windows do not overlap.                                     *)
WindowsApart(words) ==
  LET count == (Len(words) + maxWords - 1) \div maxWords
  IN [k \in 1..count |-> SubSeq(words, (k - 1) * maxWords + 1, Min({k * maxWords, Len(words)}))]

(* Words cut into windows that overlap.                                    *)
Windows(words) ==
  LET step  == maxWords - overlapWords
      count == IF Len(words) <= maxWords THEN 1
               ELSE (Len(words) - maxWords + step - 1) \div step + 1
  IN [k \in 1..count |->
        SubSeq(words, (k - 1) * step + 1, Min({(k - 1) * step + maxWords, Len(words)}))]

WordsOf(lines, i) == [k \in 1..lines[i].words |-> <<i, k>>]

(* The text under the current path becomes chunks, none if it is empty.    *)
Flush(s) ==
  IF s.body = <<>> THEN s
  ELSE LET parts == Windows(s.body)
       IN [s EXCEPT !.body = <<>>,
                    !.chunks = @ \o [k \in DOMAIN parts |-> [path |-> s.path, words |-> parts[k]]]]

ChunkStep(lines, s, i) ==
  LET level   == HeadingLevel(lines, i, s)
      flushed == Flush(s)
      Above(h) == h.level < level
      next    == IF level > 0
                 THEN [flushed EXCEPT !.path = Append(SelectSeq(@, Above), [at |-> i, level |-> level]),
                                      !.heads = @ \cup {i}]
                 ELSE [s EXCEPT !.body = @ \o WordsOf(lines, i)]
  IN [next EXCEPT !.prevIsHeading = level > 0,
                  !.atStart = @ /\ lines[i].kind = "blank"]

(* The text without its table of contents, cut at its headings.            *)
WithoutToc(lines) ==
  LET drop == TocLines(lines)
  IN [i \in DOMAIN lines |-> IF i \in drop THEN BlankLine ELSE lines[i]]

ChunkByHeadings(text) ==
  LET lines      == WithoutToc(text)
      Step(s, i) == ChunkStep(lines, s, i)
      none       == [path |-> <<>>, body |-> <<>>, chunks |-> <<>>, heads |-> {},
                     prevIsHeading |-> FALSE, atStart |-> TRUE]
  IN Flush(FoldLeft(Step, none, [i \in DOMAIN lines |-> i]))

-----------------------------------------------------------------------------
ChunkerInit == doc = <<>>
ReadLine    == /\ Len(doc) < MaxLines /\ \E l \in Line : doc' = Append(doc, l)
ChunkerNext == ReadLine

ChunkerTypeOK == doc \in Seq(Line) /\ Len(doc) <= MaxLines

-----------------------------------------------------------------------------
(* The headings above line i that are still open there.                    *)
Enclosing(heads, level, i) ==
  {h \in heads : h <= i /\ \A k \in heads : h < k /\ k <= i => level[h] < level[k]}

(* What is dropped is a table of contents: at least three page numbers in  *)
(* a row that do not fall, and never more than two lines of text between   *)
(* them.                                                                   *)
DropsOnlyToc(lines, drop) ==
  LET pages   == {i \in drop : lines[i].page > 0}
      wrapped == {i \in drop : lines[i].page = 0 /\ lines[i].kind # "title"}
  IN /\ \A i \in drop : \E a, b, c \in pages :
          /\ a < b /\ b < c /\ lines[a].page <= lines[b].page /\ lines[b].page <= lines[c].page
          /\ \A j \in Filled(lines) : Min({a, i}) <= j /\ j <= Max({c, i}) => j \in drop
     /\ \A i \in wrapped : \E p \in pages :
          /\ i < p
          /\ Cardinality({j \in Filled(lines) : i <= j /\ j < p}) <= TOC_WRAP_LINES

(* The words between heading s (0: the beginning) and the next one.        *)
SectionText(lines, heads, s) ==
  LET after == {h \in heads : h > s}
      to    == IF after = {} THEN Len(lines) ELSE Min(after) - 1
      Add(words, i) == words \o WordsOf(lines, i)
  IN FoldLeft(Add, <<>>, [k \in 1..(to - s) |-> s + k])

IsPartOf(words, text) ==
  \E k \in 1..(Len(text) - Len(words) + 1) : SubSeq(text, k, k + Len(words) - 1) = words

KeepsText(lines, cut) ==
  LET level    == [h \in cut.heads |-> IF lines[h].level > 0 THEN lines[h].level
                                       ELSE Len(lines[h].number) + 1]
      Under(c) == {p.at : p \in Range(c.path)}
  IN /\ \A s \in cut.heads \cup {0} :
          LET text == SectionText(lines, cut.heads, s)
              mine == {c \in Range(cut.chunks) : Under(c) = Enclosing(cut.heads, level, s)}
          IN /\ \A c \in mine : IsPartOf(c.words, text) /\ Len(c.words) <= maxWords
             /\ \A k \in DOMAIN text :
                  LET phrase == SubSeq(text, k, Min({k + overlapWords, Len(text)}))
                  IN \E c \in mine : IsPartOf(phrase, c.words)
     /\ \A k \in 1..(Len(cut.chunks) - 1) :
          LET a == cut.chunks[k].words[1]  b == cut.chunks[k + 1].words[1]
          IN a[1] < b[1] \/ (a[1] = b[1] /\ a[2] < b[2])

(* Nothing of a document is lost between its headings (chunker.ts): every  *)
(* line that is neither a heading nor of a table of contents is found in   *)
(* the chunks under exactly the headings it stands under, in order; no     *)
(* chunk is too long; a phrase no longer than the overlap is whole in some *)
(* chunk; what is taken for a table of contents looks like one.            *)
ChunksKeepText ==
  /\ KeepsText(WithoutToc(doc), ChunkByHeadings(doc))
  /\ DropsOnlyToc(doc, TocLines(doc) \cap Filled(doc))
================================================================================
