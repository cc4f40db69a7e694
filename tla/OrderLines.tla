----------------------------- MODULE OrderLines -----------------------------
(***************************************************************************)
(* The order database of sub/sub1.c: what interpret_line, filter, update,  *)
(* create and read_order make of data.txt and of the user's answers.       *)
(*                                                                         *)
(* data.txt is the sequence of its columns.  A text that ctime made ends   *)
(* in a newline of its own, so printing an order as                        *)
(*    "%d,%s,%s,%s,%s,%s}\n"                                               *)
(* writes two lines: the order, and a second one that holds only "}".  The *)
(* columns in Ending are those that end a line.                            *)
(***************************************************************************)
EXTENDS Integers, Sequences, FiniteSets

CONSTANTS
  Token,     \* what a column may hold
  Empty,     \* nothing, as between two commas
  Date,      \* what ctime returns
  Brace,     \* "}\n"
  Ending,    \* columns that end in a newline, Date and Brace among them
  MinusOne,  \* "-1", the id that read_order gives every order
  Num,       \* Num[t]: the id that atoi reads and "%d" prints
  Within,    \* <<s, t>> \in Within: strstr(t, s) finds s in t
  Splice,    \* Splice[<<s, t>>]: s with its first character taken from t
  Ignored,   \* the answer "-"
  Typed,     \* the answers a user may give to read_order
  Stale,     \* what an uninitialised `struct order` on the stack may hold
  Leftover,  \* what the memory that read_order allocates may hold
  Junk       \* what the memory that filter allocates may hold

Columns == 1..5   \* id, name, email, phone, perf
Order   == [Columns -> Token]

ASSUME TokenAssumption ==
  /\ {Empty, MinusOne} \cup Ending \subseteq Token
  /\ {Date, Brace} \subseteq Ending /\ Empty \notin Ending
  /\ Num \in [Token -> Token]
  /\ Within \subseteq Token \X Token
  /\ Splice \in [Token \X Token -> Token]

ASSUME MemoryAssumption ==
  /\ Typed \subseteq [2..5 -> Token \cup {Ignored}]
  /\ Ignored \notin Token
  /\ Stale \subseteq Order /\ Stale # {}
  /\ Leftover \subseteq Order /\ Leftover # {}
  /\ Junk \subseteq Order /\ Junk # {}

\* The k-th element of S, in increasing order, if there is one.
Rank(S, n) == Cardinality({m \in S : m <= n})
Nth(S, k)  == CHOOSE n \in S : Rank(S, n) = k

-----------------------------------------------------------------------------
(***************************************************************************)
(* Lines of a file, named by the position of their last column.  A last    *)
(* line that no newline ends is a line for getline, but not for update.    *)
(***************************************************************************)
LineEnds(data) == {e \in DOMAIN data : data[e] \in Ending}
AllEnds(data)  == LineEnds(data) \cup (IF data = <<>> THEN {} ELSE {Len(data)})
Begins(data, e) ==   \* no column from here to before e ends a line
  e - Cardinality({b \in 1..(e - 1) : \A n \in b..(e - 1) : data[n] \notin Ending})
LineAt(data, e) == SubSeq(data, Begins(data, e), e)

(***************************************************************************)
(* interpret_line: strtok skips empty columns, so what follows one moves   *)
(* to the left; a column that the line does not have keeps what was there. *)
(***************************************************************************)
Filled(line) == {n \in DOMAIN line : line[n] # Empty}
Short(line)  == Cardinality(Filled(line)) < 5

Interpret(line, stale) ==
  [c \in Columns |->
     IF \E n \in Filled(line) : Rank(Filled(line), n) = c
     THEN LET t == line[Nth(Filled(line), c)] IN IF c = 1 THEN Num[t] ELSE t
     ELSE stale[c]]

Readings(line) == {Interpret(line, stale) : stale \in Stale}

\* One pass over a file; the stack differs from line to line.
FileReadings(data) ==
  {[e \in AllEnds(data) |-> Interpret(LineAt(data, e), stale[e])] :
     stale \in [AllEnds(data) -> Stale]}

-----------------------------------------------------------------------------
(***************************************************************************)
(* read_order leaves a column whose answer is "-" as malloc returned it.   *)
(***************************************************************************)
Entered(typed, memory) ==
  [c \in Columns |-> IF c = 1 THEN MinusOne
                     ELSE IF typed[c] = Ignored THEN memory[c] ELSE typed[c]]
Entry == {Entered(typed, memory) : typed \in Typed, memory \in Leftover}

\* filter(NULL, ...): no order to compare with.
Any == [c \in Columns |-> Empty]

(***************************************************************************)
(* filter compares all texts with strstr, update only the name, and with   *)
(* strcmp.  Neither compares ids, which are negative in every entry.       *)
(***************************************************************************)
MatchesFilter(f, a) ==
  \A c \in Columns \ {1} : f[c] # Empty => <<f[c], a[c]>> \in Within
MatchesUpdate(f, a) == f[2] # Empty => f[2] = a[2]

(***************************************************************************)
(* filter counts in a first pass and fills an array in a second one; an    *)
(* entry the second does not reach keeps what malloc returned, what does   *)
(* not fit is dropped, one of the outcomes of writing behind the array.    *)
(***************************************************************************)
Hits(f, read) == {e \in DOMAIN read : MatchesFilter(f, read[e])}

Fill(hits, read, junk) ==
  [k \in DOMAIN junk |->
     IF \E e \in hits : Rank(hits, e) = k THEN read[Nth(hits, k)] ELSE junk[k]]

\* Deviation: the array is one entry too short.
FilterTooShort(data, f) ==
  LET counts == {Cardinality(Hits(f, read)) : read \in FileReadings(data)}
  IN  {Fill(Hits(f, read), read, junk) :
         read \in FileReadings(data),
         junk \in UNION {[1..(here - 1) -> Junk] : here \in counts}}

Filter(data, f) ==
  LET counts == {Cardinality(Hits(f, read)) : read \in FileReadings(data)}
  IN  {Fill(Hits(f, read), read, junk) :
         read \in FileReadings(data),
         junk \in UNION {[1..here -> Junk] : here \in counts}}

-----------------------------------------------------------------------------
\* fprintf of an order, in create and in update.
Printed(o) == <<o[1], o[2], o[3], o[4], o[5], Date, Brace>>

\* Of a text only the first character is replaced.
Replaced(a, u) ==
  [c \in Columns |-> IF c > 1 /\ u[c] # Empty THEN Splice[<<a[c], u[c]>>]
                     ELSE a[c]]

\* What update makes of a line; without an update_obj it deletes.
NoOrder == <<>>
Rewritten(line, a, f, u) ==
  IF ~MatchesUpdate(f, a) THEN line
  ELSE IF u = NoOrder THEN <<>> ELSE Printed(Replaced(a, u))
Rewrites(line, f, u) == {Rewritten(line, a, f, u) : a \in Readings(line)}

\* What update may have made of the lines of a file up to the end e of one.
Extended(starts, news) == {start \o new : start \in starts, new \in news}
Made(lines, f, u) ==
  LET made[e \in LineEnds(lines) \cup {0}] ==
        IF e = 0 THEN {<<>>}
        ELSE Extended(made[Begins(lines, e) - 1], Rewrites(LineAt(lines, e), f, u))
  IN  made

\* Every way update may rewrite the lines of a file, from first to last.
Changed(lines, f, u) ==
  Made(lines, f, u)[CHOOSE e \in LineEnds(lines) \cup {0} :
                      \A d \in LineEnds(lines) : d <= e]
=============================================================================
