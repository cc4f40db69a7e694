------------------------------ MODULE FileLock ------------------------------
(***************************************************************************)
(* gy1/fcntl.c and gy1/fcntl_0.c: a parent and the child it forks write    *)
(* their lines into one file, character by character and at an offset they *)
(* share.  In fcntl.c each locks the file for a line, in fcntl_0.c nobody  *)
(* does.                                                                   *)
(***************************************************************************)
EXTENDS Integers, Sequences

CONSTANTS
  Locked,   \* fcntl.c? otherwise fcntl_0.c
  Rounds,   \* 25 in the code: lines of each
  Length,   \* the characters of a line before the newline
  MaxStops  \* bound on locks and forks that fail and runs that are killed

VARIABLES
  parent, child,  \* where the two processes are
  holder,         \* who holds the lock
  round, at,      \* their j and i
  file,           \* who wrote the character, and which of its line it is
  stops

vars == <<parent, child, holder, round, at, file, stops>>

Process == {"parent", "child"}
Newline == Length + 1

TypeOK ==
  /\ parent \in {"off", "fork", "next", "write", "unlock", "wait", "done",
                 "failed"}
  /\ child \in {"none", "next", "write", "unlock", "end"}
  /\ holder \in Process \cup {"nobody"}
  /\ round \in [Process -> 0..Rounds] /\ at \in [Process -> 0..Length]
  /\ file \in Seq(Process \X (1..Newline))
  /\ stops \in Nat

Init ==
  /\ parent = "off" /\ child = "none" /\ holder = "nobody"
  /\ round = [p \in Process |-> 0] /\ at = [p \in Process |-> 0]
  /\ file = <<>>
  /\ stops = 0

-----------------------------------------------------------------------------
At(p) == IF p = "parent" THEN parent ELSE child

Moves(p, from, to) ==
  /\ At(p) = from
  /\ parent' = IF p = "parent" THEN to ELSE parent
  /\ child' = IF p = "child" THEN to ELSE child

Open ==
  /\ parent = "off"
  /\ parent' = "fork"
  /\ file' = <<>>
  /\ UNCHANGED <<child, holder, round, at, stops>>

Fork ==
  /\ parent = "fork"
  /\ parent' = "next" /\ child' = "next"
  /\ UNCHANGED <<holder, round, at, file, stops>>

\* Deviation: F_RDLCK, which both may hold.
LockShared(p) ==
  /\ round[p] < Rounds
  /\ Moves(p, "next", "write")
  /\ holder' = IF Locked THEN p ELSE holder
  /\ UNCHANGED <<round, at, file, stops>>

\* F_SETLKW waits for the lock.  Without locks a line is simply begun.
Lock(p) ==
  /\ round[p] < Rounds
  /\ Locked => holder = "nobody"
  /\ Moves(p, "next", "write")
  /\ holder' = IF Locked THEN p ELSE holder
  /\ UNCHANGED <<round, at, file, stops>>

\* A character of the text, or the newline: the last of the line.
Write(p) ==
  /\ Moves(p, "write", IF at[p] = Length THEN "unlock" ELSE "write")
  /\ file' = Append(file, <<p, at[p] + 1>>)
  /\ at' = [at EXCEPT ![p] = IF @ = Length THEN 0 ELSE @ + 1]
  /\ UNCHANGED <<holder, round, stops>>

Unlock(p) ==
  /\ Moves(p, "unlock", "next")
  /\ holder' = "nobody"
  /\ round' = [round EXCEPT ![p] = @ + 1]
  /\ UNCHANGED <<at, file, stops>>

Leave(p) ==
  /\ round[p] = Rounds
  /\ Moves(p, "next", IF p = "parent" THEN "wait" ELSE "end")
  /\ UNCHANGED <<holder, round, at, file, stops>>

WaitChild ==
  /\ parent = "wait" /\ child = "end"
  /\ parent' = "done"
  /\ UNCHANGED <<child, holder, round, at, file, stops>>

Writer(p) == Lock(p) \/ Write(p) \/ Unlock(p) \/ Leave(p)
Parent == Open \/ Fork \/ Writer("parent") \/ WaitChild
Child == Writer("child")

-----------------------------------------------------------------------------
ForkFails ==
  /\ parent = "fork" /\ stops < MaxStops
  /\ parent' = "failed"
  /\ stops' = stops + 1
  /\ UNCHANGED <<child, holder, round, at, file>>

\* rc is -1: the line is left out.
LockFails(p) ==
  /\ Locked /\ stops < MaxStops
  /\ At(p) = "next" /\ round[p] < Rounds
  /\ round' = [round EXCEPT ![p] = @ + 1]
  /\ stops' = stops + 1
  /\ UNCHANGED <<parent, child, holder, at, file>>

\* The locks of a process end with it; the file stays.
Kill ==
  /\ parent \notin {"off", "done", "failed"} /\ stops < MaxStops
  /\ parent' = "off" /\ child' = "none" /\ holder' = "nobody"
  /\ round' = [p \in Process |-> 0] /\ at' = [p \in Process |-> 0]
  /\ stops' = stops + 1
  /\ UNCHANGED file

Stop == ForkFails \/ (\E p \in Process : LockFails(p)) \/ Kill

Next == Parent \/ Child \/ Stop

Spec == Init /\ [][Next]_vars

-----------------------------------------------------------------------------
(***************************************************************************)
(* LinesWhole: with the lock every line of the file is one text of one     *)
(* process from its first character to the newline, whatever locks failed  *)
(* and runs were killed; only the last line may still be incomplete.       *)
(***************************************************************************)
Follows(a, b) == IF a[2] = Newline THEN b[2] = 1 ELSE b = <<a[1], a[2] + 1>>
LinesWhole ==
  Locked => \A i \in 1..Len(file) - 1 : Follows(file[i], file[i + 1])

(***************************************************************************)
(* TextsComplete: with or without the lock, the characters of one process  *)
(* follow each other as in its text and none is overwritten by the other,  *)
(* for the two write at one shared offset; what is missing at the end are  *)
(* the lines whose lock failed.                                            *)
(***************************************************************************)
Neighbours(f, i, j) ==
  /\ i < j /\ f[i][1] = f[j][1]
  /\ \A k \in i + 1..j - 1 : f[k][1] # f[i][1]
TextsComplete ==
  parent # "off" =>
    /\ \A i, j \in 1..Len(file) :
         Neighbours(file, i, j) => file[j][2] = (file[i][2] % Newline) + 1
    /\ parent = "done" =>
         /\ Len(file) <= 2 * Rounds * Newline
         /\ Len(file) >= (2 * Rounds - stops) * Newline
=============================================================================
