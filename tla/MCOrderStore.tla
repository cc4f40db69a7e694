---------------------------- MODULE MCOrderStore ----------------------------
(***************************************************************************)
(* Two of the orders the program ships with, and users who answer with a   *)
(* whole order, with a name, or with nothing but an e-mail address.        *)
(***************************************************************************)
EXTENDS OrderStore

MCName  == {"ha", "numa", "na"}
MCToken == MCName \cup {"", "-1", "0", "1", "a@", "b@", "+36", "10", "date", "}"}
MCEnding == {"date", "}"}
MCNum == [t \in MCToken |-> IF t \in {"-1", "0", "1", "10"} THEN t ELSE "0"]
MCWithin ==
  {<<s, t>> \in MCToken \X MCToken :
     s \in {"", t} \/ (s = "na" /\ t = "numa")}
\* Only names are ever replaced by another text.
MCSplice ==
  [p \in MCToken \X MCToken |->
     IF p = <<"ha", "numa">> THEN "na" ELSE IF p[1] = "" THEN p[2] ELSE p[1]]

Answers(name, email, phone, perf) ==
  [c \in 2..5 |-> CASE c = 2 -> name [] c = 3 -> email
                    [] c = 4 -> phone [] c = 5 -> perf]
MCTyped ==
  {Answers("ha", "a@", "+36", "10"), Answers("numa", "-", "-", "-"),
   Answers("-", "a@", "-", "-")}

MCShipped == <<"0", "numa", "a@", "+36", "10", "date",
               "1", "ha", "b@", "+36", "10", "date">>

\* The stack holds zeros or the line before; malloc'ed memory the same.
Zeros == [c \in 1..5 |-> ""]
Line0 == <<"0", "numa", "a@", "+36", "10">>
MCZeros == {Zeros}
MCStale == {Zeros, Line0}
=============================================================================
