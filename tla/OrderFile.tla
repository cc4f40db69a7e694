----------------------------- MODULE OrderFile -----------------------------
(***************************************************************************)
(* The order database of sub2/src/a.h: data.txt as a sequence of lines,    *)
(* and what interpret_line, filter and update make of it.                  *)
(*                                                                         *)
(* The three text columns (name, email, phone) are one value `who`, and    *)
(* the reception time, which the program reads as "now" and never          *)
(* compares, is left out.  No text holds a comma, and every line fits the  *)
(* buffer of update's fgets.                                               *)
(*                                                                         *)
(* A line is the order whose columns are printed in it.  strtok takes the  *)
(* commas around an empty column for one: an order with an empty text has  *)
(* fewer than seven columns for the reader.  So has a line that somebody   *)
(* left blank, such as the last one of the data.txt the program ships      *)
(* with.  Such a line is Short, and only its first column is read as what  *)
(* it is.                                                                  *)
(***************************************************************************)
EXTENDS Integers, Sequences, FiniteSets

CONSTANTS
  Text,      \* contents of the text columns
  Empty,     \* the empty text
  Within,    \* <<s, t>> \in Within: strstr(t, s) finds s in t
  Splice,    \* Splice[<<s, t>>]: s with its first character taken from t
  Holed,     \* texts of which a column is empty
  Newlines,  \* Newlines[t]: the columns of t that end in a newline
  Stale,     \* what is read of a short line: its columns, each in another's
             \* place, and those of an uninitialised `struct order`
  Junk       \* orders that freshly malloc'ed memory may hold

Order == [id : Int, who : Text, perf : Int, done : Int]

\* The last column read of a short line keeps its newline: printed again, it
\* is a text that ends the line it is on.
OneLine(a) == Newlines[a.who] = 0
Short(a) == a.who \in Holed
Line == {a \in Order : OneLine(a)}
ShortLine(n) == [id |-> n, who |-> Empty, perf |-> 0, done |-> 0]

(***************************************************************************)
(* `ended` says whether the last line is terminated by a newline.          *)
(***************************************************************************)
File == [lines : Seq(Line), ended : BOOLEAN]

ASSUME TextAssumption ==
  /\ Empty \in Text
  /\ Within \subseteq Text \X Text
  /\ \A t \in Text : <<t, t>> \in Within
  /\ Splice \in [Text \X Text -> Text]

ASSUME LineAssumption ==
  /\ Holed \subseteq Text /\ Empty \in Holed
  /\ Newlines \in [Text -> 0..3] /\ Newlines[Empty] = 0

ASSUME MemoryAssumption ==
  /\ Stale \subseteq Order /\ Stale # {}
  /\ Junk \subseteq Order /\ Junk # {}

-----------------------------------------------------------------------------
(***************************************************************************)
(* interpret_line fills its result column by column.  In a short line it   *)
(* finds the id (atoi of a lone newline is 0); the columns behind a hole   *)
(* move up, and those it does not find are as the stack had them.          *)
(***************************************************************************)
ShortLines(lines) == {n \in DOMAIN lines : Short(lines[n])}

Interpret(lines, stale) ==
  [n \in DOMAIN lines |->
     IF Short(lines[n]) THEN [stale[n] EXCEPT !.id = lines[n].id] ELSE lines[n]]

\* The ways one pass over the lines can read them.
Readings(lines) ==
  {Interpret(lines, stale) : stale \in [ShortLines(lines) -> Stale]}

\* Deviation: the id test of sub/sub1.c, with == for !=.
MatchesOtherIds(f, a) ==
  /\ f.id >= 0 => f.id # a.id
  /\ f.who # Empty => <<f.who, a.who>> \in Within
  /\ f.perf >= 0 => f.perf = a.perf
  /\ f.done >= 0 => f.done = a.done

(***************************************************************************)
(* The six tests shared by filter and update: a negative number and an     *)
(* empty text in the filter match everything.                              *)
(***************************************************************************)
Matches(f, a) ==
  /\ f.id >= 0 => f.id = a.id
  /\ f.who # Empty => <<f.who, a.who>> \in Within
  /\ f.perf >= 0 => f.perf = a.perf
  /\ f.done >= 0 => f.done = a.done

\* filter(NULL, ...): no order to compare with, every line matches.
Any == [id |-> -1, who |-> Empty, perf |-> -1, done |-> -1]

Hits(f, read) == {n \in DOMAIN read : Matches(f, read[n])}

\* S in increasing order, as a set that holds this one sequence.
Listings(S) ==
  {s \in [1..Cardinality(S) -> S] :
     \A a, b \in DOMAIN s : a < b => s[a] < s[b]}

(***************************************************************************)
(* filter runs twice over the file: the first pass (here = -1) counts, the *)
(* recursive one (here = found) fills an array of that size.  On a short   *)
(* line the passes may disagree.  An entry the second pass does not reach  *)
(* keeps what malloc returned; what it stores beyond the array is lost.    *)
(***************************************************************************)
Counts(lines, f) == {Cardinality(Hits(f, read)) : read \in Readings(lines)}

Fill(read, at, junk) ==
  [k \in DOMAIN junk |-> IF k \in DOMAIN at THEN read[at[k]] ELSE junk[k]]

Filled(lines, f, here) ==
  UNION {{Fill(read, at, junk) : at \in Listings(Hits(f, read)),
                                 junk \in [1..here -> Junk]} :
           read \in Readings(lines)}

Filter(lines, f) == UNION {Filled(lines, f, here) : here \in Counts(lines, f)}

\* What filter stores in *size: -1, not 0, when nothing matches.
Size(res) == IF Len(res) = 0 THEN -1 ELSE Len(res)

-----------------------------------------------------------------------------
(***************************************************************************)
(* update copies the lines that do not match as they are and rewrites the  *)
(* ones that do, column by column; of a text only the first character is   *)
(* replaced.                                                               *)
(***************************************************************************)
Replaced(a, u) ==
  [id   |-> IF u.id >= 0 THEN u.id ELSE a.id,
   who  |-> IF u.who # Empty THEN Splice[<<a.who, u.who>>] ELSE a.who,
   perf |-> IF u.perf >= 0 THEN u.perf ELSE a.perf,
   done |-> IF u.done >= 0 THEN u.done ELSE a.done]

\* Deviation: the last line is taken for one that feof ends.
CopiedOneLess(file) ==
  IF file.lines = <<>> THEN <<>>
  ELSE SubSeq(file.lines, 1, Len(file.lines) - 1)

(***************************************************************************)
(* Its loop stops at feof before it copies a line that end-of-file, not a  *)
(* newline, ends: that line is not in the new file.                        *)
(***************************************************************************)
Copied(file) ==
  IF file.ended THEN file.lines
  ELSE SubSeq(file.lines, 1, Len(file.lines) - 1)

Rewrite(lines, read, f, u) ==
  [n \in DOMAIN lines |->
     IF Matches(f, read[n]) THEN Replaced(read[n], u) ELSE lines[n]]

(***************************************************************************)
(* fprintf prints an order as one line, and one more for each newline in   *)
(* its texts; the first holds its id, the others begin with some other     *)
(* column, and none of them has all seven.  MoreLines has an element for   *)
(* each of the others, PlacesOf has the place of the n-th order's first.   *)
(***************************************************************************)
MoreLines(printed) ==
  {more \in (DOMAIN printed) \X (1..3) : more[2] <= Newlines[printed[more[1]].who]}

PlacesOf(printed) ==
  [n \in DOMAIN printed |->
     n + Cardinality({more \in MoreLines(printed) : more[1] < n})]

FirstLine(a) ==
  IF Short(a) \/ ~OneLine(a) THEN ShortLine(a.id) ELSE a

PrintedLines(printed) ==
  LET place == PlacesOf(printed)
      all   == 1..(Len(printed) + Cardinality(MoreLines(printed)))
      At(k) == {n \in DOMAIN printed : place[n] = k}
  IN  {[k \in all |->
          IF At(k) # {} THEN FirstLine(printed[CHOOSE n \in At(k) : TRUE])
          ELSE ShortLine(others[k])] :
         others \in [{k \in all : At(k) = {}} -> {a.id : a \in Stale}]}

Update(file, f, u) ==
  UNION {{[lines |-> lines, ended |-> TRUE] :
            lines \in PrintedLines(Rewrite(Copied(file), read, f, u))} :
           read \in Readings(Copied(file))}
=============================================================================
