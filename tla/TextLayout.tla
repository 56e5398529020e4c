----------------------------- MODULE TextLayout -----------------------------
(***************************************************************************)
(* How server/app.js lays markdown out as lines of text before it draws    *)
(* them: wrapText, tableToLines and markdownToTextLines (lines 514-600).   *)
(*                                                                         *)
(* Layout looks at lengths only, so a word is its length, a table cell is  *)
(* the length of its text or Rule, and a source line is what the regular   *)
(* expressions take it for, with its words or its cells.                   *)
(***************************************************************************)
EXTENDS Integers, Sequences, SequencesExt, FiniteSetsExt

CONSTANT MaxChars       \* the characters that fit on the paper, at least 20

ASSUME LayoutAssumption == MaxChars \in Nat /\ MaxChars >= 20

Rule == -1              \* a cell of three dashes or more, as under a table's head

\* The rows of a table, each of one cell at least, and the source lines.
TableRows == Seq(Nat \cup {Rule}) \ {<<>>}

SourceLine == [kind : {"blank", "rule"}, words : {<<>>}]
                  \cup [kind : {"heading", "item", "paragraph"}, words : Seq(Nat \ {0})]
                  \cup [kind : {"row"}, words : TableRows]

CellLength(cell) == IF cell = Rule THEN 3 ELSE cell

\* The sums of the first so many numbers, and of all.
Sums(numbers) ==
    LET sum[n \in 0 .. Len(numbers)] == IF n = 0 THEN 0 ELSE sum[n - 1] + numbers[n]
    IN  sum

SumOf(numbers) == Sums(numbers)[Len(numbers)]

TextLength(words) == IF words = <<>> THEN 0 ELSE SumOf(words) + Len(words) - 1

-----------------------------------------------------------------------------
(* Lines that come out: a mark ("- ", a tick box, an indent) and words; a   *)
(* table row with its cells and the widths of the columns; a rule.          *)

Text(mark, words) == [type |-> "text", mark |-> mark, words |-> words]
TableRow(cells, widths) == [type |-> "row", cells |-> cells, widths |-> widths]
RuleLine == [type |-> "rule"]
BlankLine == Text(0, <<>>)

Shown(row, i) == Min({CellLength(row.cells[i]), row.widths[i]})

\* The cells padded to their widths and joined by " | ", without the spaces at the end.
RowLength(row) ==
    LET n == Len(row.cells)
        before == Sums(row.widths)[n - 1] + 3 * (n - 1)
    IN  IF Shown(row, n) = 0 /\ n > 1 THEN before - 1 ELSE before + Shown(row, n)

LineLength(line) ==
    CASE line.type = "text" -> line.mark + TextLength(line.words)
      [] line.type = "row" -> RowLength(line)
      [] line.type = "rule" -> Min({MaxChars, 48})

-----------------------------------------------------------------------------

\* Mutant: the space before the word is not counted.
FitsWithoutSpace(line, word, maxChars) == TextLength(line) + word <= maxChars

Fits(line, word, maxChars) == TextLength(line) + 1 + word <= maxChars

\* A turn of wrapText's loop: the word goes on the line if it fits there, else on a new one.
Placed(lines, word, maxChars) ==
    IF lines = <<>> \/ ~Fits(Last(lines), word, maxChars)
    THEN Append(lines, <<word>>)
    ELSE Append(Front(lines), Append(Last(lines), word))

\* The lines after so many words.
LinesAfter(words, maxChars) ==
    LET lines[n \in 0 .. Len(words)] ==
            IF n = 0 THEN <<>> ELSE Placed(lines[n - 1], words[n], maxChars)
    IN  lines

wrapText(words, maxChars) ==
    LET lines == LinesAfter(words, maxChars)[Len(words)]
    IN  IF lines = <<>> THEN << <<>> >> ELSE lines

\* The width of a table whose columns have these widths.
Total(widths) == SumOf(widths) + 3 * (Len(widths) - 1)

\* Mutant: the first column that is not down to six is narrowed.
FirstWide(widths) == Min({i \in DOMAIN widths : widths[i] > 6})

\* The column to narrow: the first of the widest.
Widest(widths) == Min({i \in DOMAIN widths : \A j \in DOMAIN widths : widths[i] >= widths[j]})

TooWide(widths) == Total(widths) > MaxChars /\ \E i \in DOMAIN widths : widths[i] > 6

\* A turn of the while loop, while it goes on.
Narrower(widths) ==
    IF TooWide(widths) THEN [widths EXCEPT ![Widest(widths)] = @ - 1] ELSE widths

\* The characters that do not fit.  Each turn takes one away, so that there are no more turns.
Excess(widths) == Max({0, Total(widths) - MaxChars})

\* The columns after so many turns.
Narrowings(widths) ==
    LET after[n \in 0 .. Excess(widths)] ==
            IF n = 0 THEN widths ELSE Narrower(after[n - 1])
    IN  after

Narrowed(widths) == Narrowings(widths)[Excess(widths)]

\* The rows that show data: not the one of dashes under the head.
IsData(row) == \E i \in DOMAIN row : row[i] # Rule

DataRowsTo(rows) ==
    LET data[k \in 0 .. Len(rows)] ==
            IF k = 0 THEN <<>>
            ELSE IF IsData(rows[k]) THEN Append(data[k - 1], rows[k]) ELSE data[k - 1]
    IN  data

DataRows(rows) == DataRowsTo(rows)[Len(rows)]

\* Each column as wide as its longest cell, and at least three.
NaturalWidths(rows) ==
    LET columns == Max({Len(rows[k]) : k \in DOMAIN rows})
    IN  [i \in 1 .. columns |->
            Max({3} \cup {CellLength(rows[k][i]) : k \in {k \in DOMAIN rows : i <= Len(rows[k])}})]

tableToLines(rows) ==
    LET data == DataRows(rows)
        widths == Narrowed(NaturalWidths(data))
    IN  IF data = <<>> THEN <<>>
        ELSE [k \in DOMAIN data |-> TableRow(data[k], widths)]

-----------------------------------------------------------------------------

Wrapped(mark, words, maxChars) ==
    LET lines == wrapText(words, maxChars)
    IN  [i \in DOMAIN lines |-> Text(mark, lines[i])]

\* Mutant: list items are wrapped as if they had no mark.
ItemUnmarked(words) == Wrapped(2, words, MaxChars)

\* A list item: the mark before its first line, an indent before the others.
Item(words) == Wrapped(2, words, MaxChars - 2)

\* The lines for one source line that is not part of a table.  A heading is not wrapped.
LinesOf(line) ==
    CASE line.kind = "blank" -> <<BlankLine>>
      [] line.kind = "rule" -> <<RuleLine>>
      [] line.kind = "heading" -> <<Text(0, line.words), BlankLine>>
      [] line.kind = "item" -> Item(line.words)
      [] line.kind = "paragraph" -> Wrapped(0, line.words, MaxChars)

\* The first row of the table that the row at i is in.
FirstRow(source, i) == Min({k \in 1 .. i : \A j \in k .. i : source[j].kind = "row"})

\* The cells of the rows from one line to another.
Rows(source, from, to) == [k \in 1 .. to - from + 1 |-> source[from + k - 1].words]

\* What the loop prints when it has come to the end of the source line at i: a table is
\* printed when all its rows have been read.
LinesAt(source, i) ==
    IF source[i].kind # "row" THEN LinesOf(source[i])
    ELSE IF i < Len(source) /\ source[i + 1].kind = "row" THEN <<>>
    ELSE tableToLines(Rows(source, FirstRow(source, i), i)) \o <<BlankLine>>

AllLines(source) == FlattenSeq([i \in DOMAIN source |-> LinesAt(source, i)])

\* Blank lines at the end are dropped.
markdownToTextLines(source) ==
    LET lines == AllLines(source)
        last == Max({0} \cup {i \in DOMAIN lines : LineLength(lines[i]) > 0})
    IN  SubSeq(lines, 1, last)

-----------------------------------------------------------------------------
(* What the layout is for, stated without its algorithms.                   *)

\* The ways to break words into lines, by the places after which a line ends.
Broken(words, ends) ==
    LET n == Len(words)
        starts == {1} \cup {e + 1 : e \in ends}
    IN  {SubSeq(words, s, Min({e \in ends \cup {n} : e >= s})) : s \in starts \cap 1 .. n}

\* A line of words fits if it is short enough, or is one word that is not to be broken.
LineFits(words, maxChars) == TextLength(words) <= maxChars \/ Len(words) <= 1

\* The lines hold the words in their order, each line fits, and no other way to break
\* the words into lines that fit needs fewer of them.
WellWrapped(words, maxChars) ==
    LET lines == wrapText(words, maxChars)
    IN  /\ FlattenSeq(lines) = words
        /\ \A i \in DOMAIN lines : LineFits(lines[i], maxChars)
        /\ \A ends \in SUBSET (1 .. Len(words) - 1) :
              (\A line \in Broken(words, ends) : LineFits(line, maxChars))
                  => Cardinality(ends) + 1 >= Len(lines)

\* A table fits on the paper, or every column is down to six characters or its text;
\* no character is cut without need, and only the longest columns are cut, alike.
FairlyCut(rows) ==
    LET natural == NaturalWidths(rows)
        widths == tableToLines(rows)[1].widths
        cut == {i \in DOMAIN widths : widths[i] < natural[i]}
    IN  /\ Total(widths) <= MaxChars \/ \A i \in DOMAIN widths : widths[i] <= 6
        /\ cut # {} => Total(widths) >= MaxChars
        /\ \A i \in cut : \A j \in DOMAIN widths : widths[i] >= widths[j] - 1

\* What a row shows if it is not the one of dashes: its cells, but for an empty one alone.
RowShows(cells) == IF IsData(cells) /\ cells # <<0>> THEN cells ELSE <<>>

\* What is to be read in a line that comes out, and in a source line: words, cells, a rule.
Shows(line) ==
    CASE line.type = "text" -> line.words
      [] line.type = "row" -> RowShows(line.cells)
      [] line.type = "rule" -> <<Rule>>

Holds(line) ==
    CASE line.kind = "row" -> RowShows(line.words)
      [] line.kind = "rule" -> <<Rule>>
      [] line.kind \notin {"row", "rule"} -> line.words

AllShown(lines) == FlattenSeq([i \in DOMAIN lines |-> Shows(lines[i])])

AllHeld(source) == FlattenSeq([i \in DOMAIN source |-> Holds(source[i])])

\* No line goes over the edge of the paper but a single word, a table of more columns
\* than fit at six characters, or a heading, which is not wrapped.
InsideThePaper(line, source) ==
    \/ LineLength(line) <= MaxChars
    \/ line.type = "text" /\ Len(line.words) = 1
    \/ line.type = "row" /\ 9 * Len(line.widths) - 3 > MaxChars
    \/ line.type = "text" /\ \E i \in DOMAIN source : source[i].kind = "heading"
                                                      /\ source[i].words = line.words

WellLaidOut(source) ==
    LET lines == markdownToTextLines(source)
    IN  /\ AllShown(lines) = AllHeld(source)
        /\ \A i \in DOMAIN lines : InsideThePaper(lines[i], source)
        /\ lines # <<>> => LineLength(Last(lines)) > 0
=============================================================================
