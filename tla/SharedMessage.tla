--------------------------- MODULE SharedMessage ---------------------------
(***************************************************************************)
(* gy6/pos_szemafor.c and gy6/szemafor.c: a parent copies a text into a    *)
(* shared page, a child waits at a semaphore and prints the page.  In the  *)
(* one the semaphore is POSIX and has a name, in the other it is System V  *)
(* and has a key; that of the page is made of the program file in both.    *)
(*                                                                         *)
(* Pages, keys and names outlive a process.  A run may be killed, and the  *)
(* program built anew, which changes its keys.                             *)
(***************************************************************************)
EXTENDS Integers, Sequences

CONSTANTS
  SystemV,  \* szemafor.c? otherwise pos_szemafor.c
  MaxStops  \* bound on the runs that end early

VARIABLES
  parent, child,  \* where the two processes are
  page,           \* what the shared page holds, "none" if there is no page
  sem,            \* the value of the semaphore
  printed,        \* what the child printed
  rebuilt,        \* have the keys changed?
  stops           \* runs that ended early

vars == <<parent, child, page, sem, printed, rebuilt, stops>>

NoSem == -1

TypeOK ==
  /\ parent \in {"off", "create", "fork", "write", "writing", "post", "wait",
                 "unlink", "remove", "done"}
  /\ child \in {"none", "down", "print", "post", "end"}
  /\ page \in {"none", "blank", "part", "text"}
  /\ sem \in Nat \cup {NoSem}
  /\ printed \in {"none", "blank", "part", "text"}
  /\ rebuilt \in BOOLEAN
  /\ stops \in Nat

Init ==
  /\ parent = "off" /\ child = "none"
  /\ page = "none" /\ sem = NoSem
  /\ printed = "none"
  /\ rebuilt = FALSE /\ stops = 0

-----------------------------------------------------------------------------
(***************************************************************************)
(* The parent.                                                             *)
(***************************************************************************)
\* shmget with IPC_CREAT: a new page is blank, an old one is as it was left.
Attach ==
  /\ parent = "off"
  /\ parent' = "create"
  /\ page' = IF page = "none" THEN "blank" ELSE page
  /\ UNCHANGED <<child, sem, printed, rebuilt, stops>>

\* SETVAL sets a semaphore that is there; sem_open leaves it as it is.
szemafor_letrehozas ==
  /\ parent = "create"
  /\ parent' = "fork"
  /\ sem' = IF SystemV \/ sem = NoSem THEN 0 ELSE sem
  /\ UNCHANGED <<child, page, printed, rebuilt, stops>>

Fork ==
  /\ parent = "fork"
  /\ parent' = "write" /\ child' = "down"
  /\ UNCHANGED <<page, sem, printed, rebuilt, stops>>

\* fork returned -1: main returns and removes nothing.
ForkFails ==
  /\ parent = "fork" /\ stops < MaxStops
  /\ parent' = "off"
  /\ stops' = stops + 1
  /\ UNCHANGED <<child, page, sem, printed, rebuilt>>

\* strcpy, seen halfway.
CopyBegins ==
  /\ parent = "write"
  /\ parent' = "writing"
  /\ page' = IF page = "text" THEN "text" ELSE "part"
  /\ UNCHANGED <<child, sem, printed, rebuilt, stops>>

\* Deviation: the semaphore is raised before the copy is complete.
CopyEndsLate ==
  /\ parent = "writing"
  /\ parent' = "post"
  /\ UNCHANGED <<child, page, sem, printed, rebuilt, stops>>

CopyEnds ==
  /\ parent = "writing"
  /\ parent' = "post"
  /\ page' = "text"
  /\ UNCHANGED <<child, sem, printed, rebuilt, stops>>

ParentUp ==
  /\ parent = "post"
  /\ parent' = "wait"
  /\ sem' = sem + 1
  /\ UNCHANGED <<child, page, printed, rebuilt, stops>>

WaitChild ==
  /\ parent = "wait" /\ child = "end"
  /\ parent' = "unlink"
  /\ UNCHANGED <<child, page, sem, printed, rebuilt, stops>>

szemafor_torles ==
  /\ parent = "unlink"
  /\ parent' = "remove"
  /\ sem' = NoSem
  /\ UNCHANGED <<child, page, printed, rebuilt, stops>>

RemovePage ==
  /\ parent = "remove"
  /\ parent' = "done"
  /\ page' = "none"
  /\ UNCHANGED <<child, sem, printed, rebuilt, stops>>

Parent ==
  \/ Attach \/ szemafor_letrehozas \/ Fork \/ CopyBegins \/ CopyEnds
  \/ ParentUp \/ WaitChild \/ szemafor_torles \/ RemovePage

-----------------------------------------------------------------------------
(***************************************************************************)
(* The child.                                                              *)
(***************************************************************************)
Down ==
  /\ child = "down" /\ sem > 0
  /\ child' = "print"
  /\ sem' = sem - 1
  /\ UNCHANGED <<parent, page, printed, rebuilt, stops>>

PrintPage ==
  /\ child = "print"
  /\ child' = "post"
  /\ printed' = page
  /\ UNCHANGED <<parent, page, sem, rebuilt, stops>>


ChildUp ==
  /\ child = "post"
  /\ child' = "end"
  /\ sem' = sem + 1
  /\ UNCHANGED <<parent, page, printed, rebuilt, stops>>

Child == Down \/ PrintPage \/ ChildUp

-----------------------------------------------------------------------------
(***************************************************************************)
(* The environment.                                                        *)
(***************************************************************************)
Kill ==
  /\ parent \notin {"off", "done"} /\ stops < MaxStops
  /\ parent' = "off" /\ child' = "none"
  /\ printed' = "none"
  /\ stops' = stops + 1
  /\ UNCHANGED <<page, sem, rebuilt>>

\* ftok of a new file: what the old keys named is not found any more.
Rebuild ==
  /\ parent = "off" /\ ~rebuilt
  /\ rebuilt' = TRUE
  /\ page' = "none"
  /\ sem' = IF SystemV THEN NoSem ELSE sem
  /\ UNCHANGED <<parent, child, printed, stops>>

Stop == ForkFails \/ Kill \/ Rebuild

Next == Parent \/ Child \/ Stop

Spec == Init /\ [][Next]_vars

-----------------------------------------------------------------------------
(***************************************************************************)
(* TextIsGuarded: whoever gets past the semaphore finds the whole text.    *)
(* This is so even in a run that begins with the semaphore and the page of *)
(* a killed one, because the page is never without the text while the      *)
(* semaphore is up; only a named semaphore that has outlived its page lets *)
(* the child through too early.                                            *)
(***************************************************************************)
TextIsGuarded ==
  SystemV \/ ~rebuilt =>
    /\ sem > 0 => page = "text"
    /\ child = "print" => page = "text"
    /\ printed \in {"none", "text"}

(***************************************************************************)
(* WrittenFirst: a semaphore that is set when it is opened makes the child *)
(* wait for the parent of its own run, whatever run was killed before; one *)
(* with a name does so in the first run.                                   *)
(***************************************************************************)
Written == {"wait", "unlink", "remove", "done"}
WrittenFirst ==
  SystemV \/ stops = 0 =>
    /\ sem > 0 => parent \in Written \cup {"off", "create"}
    /\ child \in {"print", "post", "end"} => parent \in Written

(***************************************************************************)
(* Implements: the text is handed over, first written, then printed.       *)
(***************************************************************************)
sent     == IF parent \in Written \cup {"post"} THEN <<"text">> ELSE <<>>
received == IF printed = "none" THEN <<>> ELSE <<printed>>

Box == INSTANCE Handover WITH Message <- {"text"}
HandsOver == SystemV \/ stops' = 0 => Box!Next
Implements == Box!Init /\ [][HandsOver]_<<sent, received>>
=============================================================================
