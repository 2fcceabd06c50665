------------------------------ MODULE TextTable ------------------------------
(***************************************************************************)
(* cli::fmt::Table with the colours of its cells.  A text is a sequence of *)
(* characters: "x" is visible, "esc" begins an escape sequence and "m", as *)
(* any letter does, ends it.                                               *)
(***************************************************************************)
EXTENDS Naturals, Sequences, SequencesExt

CONSTANTS
  Texts,    \* the lengths of the words that are put into cells
  Headers,  \* the headers of tables: sequences of such lengths
  MaxRows   \* bound: the rows of a table

ASSUME TableAssumption == Texts \subseteq Nat /\ Headers \subseteq Seq(Nat)

VARIABLES
  noColor,  \* NO_COLOR of the environment is set, and not empty
  headers_, widths_, rows_

tableVars == <<noColor, headers_, widths_, rows_>>

Word(k) == [c \in 1..k |-> "x"]

Colorize(text) ==
  IF noColor THEN text ELSE <<"esc", "[", "m">> \o text \o <<"esc", "[", "m">>

Count(state, c) ==
  IF state.esc THEN [len |-> state.len, esc |-> c \notin {"m", "x"}]
  ELSE IF c = "esc" THEN [len |-> state.len, esc |-> TRUE]
  ELSE [len |-> state.len + 1, esc |-> FALSE]

Scan(s) ==
  LET scan[k \in 0..Len(s)] ==
        IF k = 0 THEN [len |-> 0, esc |-> FALSE] ELSE Count(scan[k - 1], s[k])
  IN  scan[Len(s)]

VisibleLength(s) == Scan(s).len

TableInit ==
  /\ noColor \in BOOLEAN
  /\ headers_ \in {[k \in DOMAIN h |-> Word(h[k])] : h \in Headers}
  /\ widths_ = [k \in DOMAIN headers_ |-> VisibleLength(headers_[k])]
  /\ rows_ = <<>>

Larger(x, y) == IF x < y THEN y ELSE x

\* row.resize: a short row is padded, a long one loses its end.
Resized(row) == [k \in DOMAIN headers_ |-> IF k \in DOMAIN row THEN row[k] ELSE <<>>]

AddRow(row) ==
  /\ Len(rows_) < MaxRows
  /\ widths_' = [k \in DOMAIN headers_ |->
                   Larger(widths_[k], VisibleLength(Resized(row)[k]))]
  /\ rows_' = Append(rows_, Resized(row))
  /\ UNCHANGED <<noColor, headers_>>

\* A cell is a word, coloured or not.
Cells == {Word(k) : k \in Texts} \cup {Colorize(Word(k)) : k \in Texts}

\* Rows that are too short, too long, or as long as the headers.
SomeRows == UNION {[1..k -> Cells] : k \in Len(headers_) - 1..Len(headers_) + 1}

\* Another table with these headers.
NewTable ==
  /\ rows_' = <<>>
  /\ widths_' = [k \in DOMAIN headers_ |-> VisibleLength(headers_[k])]
  /\ UNCHANGED <<noColor, headers_>>

TableNext == NewTable \/ \E row \in SomeRows : AddRow(row)

TableSpec == TableInit /\ [][TableNext]_tableVars

-----------------------------------------------------------------------------
(* print. *)

Spaces(k) == [c \in 1..k |-> " "]

Padding(row, k) ==
  IF k < Len(row) /\ VisibleLength(row[k]) < widths_[k]
  THEN Spaces(widths_[k] - VisibleLength(row[k])) ELSE <<>>

\* The cells of a printed line, with what separates them.
Printed(row) ==
  [k \in DOMAIN row |-> (IF k > 1 THEN Spaces(2) ELSE <<>>) \o row[k] \o Padding(row, k)]

Rule == [k \in DOMAIN widths_ |-> (IF k > 1 THEN Spaces(2) ELSE <<>>) \o Spaces(widths_[k])]

\* What has been written once the first m cells of a line have.
Written(line, m) ==
  LET os[k \in 0..m] == IF k = 0 THEN <<>> ELSE os[k - 1] \o line[k] IN os[m]

\* The visible column in which the k-th cell of a line begins.
Column(line, k) == VisibleLength(Written(line, k - 1))

(* "Column-aligned", "handles ANSI-colored cell values correctly": in all lines
   of the table a column begins at the same place, no cell is wider than the
   rule below its header, and rows of any length fit. *)
ColumnsAligned ==
  \A r \in {headers_} \cup ToSet(rows_) :
    \A k \in DOMAIN headers_ :
      /\ Column(Printed(r), k) = Column(Rule, k)
      /\ VisibleLength(r[k]) <= widths_[k]
=============================================================================
