----------------------------- MODULE MCDispatch -----------------------------
(***************************************************************************)
(* Small data.txt files for Dispatch.  The text columns are "ha", "hat",   *)
(* in which "ha" is found, empty ones, or ones of which the last ends in a *)
(* newline.                                                                *)
(***************************************************************************)
EXTENDS Dispatch

MCText == {"", "ha", "hat", "hat/"}
MCWithin == {<<"", t>> : t \in MCText} \cup {<<t, t>> : t \in MCText}
              \cup {<<"ha", "hat">>, <<"ha", "hat/">>, <<"hat", "hat/">>}
MCNewlines == [t \in MCText |-> IF t = "hat/" THEN 1 ELSE 0]
MCSplice == [p \in MCText \X MCText |-> p[1]]

Rec(id, who, perf, done) ==
  [id |-> id, who |-> who, perf |-> perf, done |-> done]
Text3 == <<"ha", "hat", "ha">>

\* An orderly file: one undone order per given performance.
Orders(perfs) ==
  [n \in DOMAIN perfs |-> Rec(n - 1, Text3[n], perfs[n], 0)]
Terminated(lines) == [lines |-> lines, ended |-> TRUE]
Unterminated(lines) == [lines |-> lines, ended |-> FALSE]

\* What a short line may be read as: the line before it, a hole and columns
\* that moved up, a column with its newline.
MCStale == {Rec(9, "ha", 5, 0), Rec(9, "hat/", -3, 7)}
MCJunk == {Rec(0, "", 0, 0)}
MCStray == {-1, 0, 5}

MCFiles ==
  {Terminated(Orders(<<5, 5, 6>>)), Terminated(Orders(<<5, 5, 5>>)),
   Terminated(Orders(<<5, 6, 5>>)), Terminated(Orders(<<5, 6, 7>>)),
   Terminated(<<Rec(0, "ha", 5, 1), Rec(0, "hat", 5, 0)>>),
   Terminated(Orders(<<5>>) \o <<ShortLine(0)>>),
   Unterminated(Orders(<<5, 5>>)),
   Terminated(<<>>)}

\* Files without short lines.
MCOrderFiles ==
  {Terminated(Orders(<<5, 5, 6>>)), Terminated(Orders(<<5, 5, 5>>)),
   Terminated(Orders(<<5, 6, 7>>))}

=============================================================================
