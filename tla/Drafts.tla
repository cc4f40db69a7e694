------------------------------- MODULE Drafts -------------------------------
(***************************************************************************)
(* Two drafts of the company, sub2_try/sub2_a.c and sub2_try/src/sub2.c: a *)
(* parent reads data.txt and writes an order to a pipe, a child reads it.  *)
(* sub2_a.c tells the child the number of orders in a shared page, and has *)
(* three named semaphores, all zero at first; sub2.c has none.             *)
(*                                                                         *)
(* What the child reads goes where a pointer points that nobody has set.   *)
(* A run that crashes leaves the semaphores as they are.                   *)
(***************************************************************************)
EXTENDS Integers, Sequences

CONSTANTS
  Lines,    \* the numbers of lines data.txt may have
  MaxStops  \* bound on runs that fail to fork or are killed, and on new runs

VARIABLES
  exercise,
  parent, child,  \* where the two processes are
  sems,           \* the values of the semaphores, NoSem for none
  found,          \* ghost: those this run has begun with
  count,          \* s[0]
  todo,           \* the rounds the child still has to do
  lines,          \* the number of lines of data.txt
  order_buffer,   \* can the child write where its pointer points?
  piped,          \* orders in the pipe
  stops

vars ==
  <<exercise, parent, child, sems, found, count, todo, lines, order_buffer,
    piped, stops>>

NoSem == -1
Names == {"van_meg", "write", "read"}

TypeOK ==
  /\ parent \in {"off", "fork", "announce", "guard", "filter", "release",
                 "open", "turn", "show", "write", "pass", "last", "wait",
                 "unlink_van_meg", "unlink_write", "unlink_read",
                 "done", "failed", "crashed"}
  /\ child \in {"none", "guard", "count", "release", "loop", "read", "give",
                "end"}
  /\ sems \in [Names -> Nat \cup {NoSem}] /\ found \in [Names -> Nat \cup {NoSem}]
  /\ count \in Nat \cup {-1} /\ todo \in Nat
  /\ lines \in Lines \cup {0} /\ order_buffer \in BOOLEAN
  /\ piped \in 0..1
  /\ stops \in 0..MaxStops

Init ==
  /\ parent = "off" /\ child = "none"
  /\ sems = [n \in Names |-> NoSem] /\ found = sems
  /\ count = 0 /\ todo = 0 /\ piped = 0
  /\ lines = 0 /\ order_buffer = FALSE
  /\ stops = 0

Draft == {"sub2", "sub2_a"}
Guarded == exercise = "sub2_a"
page == <<count, todo>>
given == <<exercise, lines, order_buffer, found>>

-----------------------------------------------------------------------------
(***************************************************************************)
(* The parent.  main of sub2_a.c; company and main of sub2.c.              *)
(***************************************************************************)
Goes(from, to) == parent = from /\ parent' = to

sem_wait(n) == sems[n] > 0 /\ sems' = [sems EXCEPT ![n] = @ - 1]
sem_post(n) == sems' = [sems EXCEPT ![n] = @ + 1]

\* szemafor_letrehozas leaves a semaphore that there is as it is.  What
\* data.txt holds and what is on the stack differs from run to run.
Start ==
  /\ Goes("off", "fork")
  /\ sems' = [n \in Names |->
                IF Guarded /\ sems[n] = NoSem THEN 0 ELSE sems[n]]
  /\ found' = sems'
  /\ count' = 0 /\ todo' = 0
  /\ lines' \in Lines /\ order_buffer' \in BOOLEAN
  /\ UNCHANGED <<exercise, child, piped, stops>>

Fork ==
  /\ Goes("fork", IF Guarded THEN "announce" ELSE "filter")
  /\ child' = IF Guarded THEN "guard" ELSE "read"
  /\ UNCHANGED <<given, sems, page, piped, stops>>

\* van_meg is posted, then taken: by the parent or by the child.
Announce ==
  /\ Goes("announce", "guard") /\ sem_post("van_meg")
  /\ UNCHANGED <<given, child, page, piped, stops>>

\* Deviation: the parent goes on without it.
TakeGuardFree ==
  /\ Goes("guard", "filter")
  /\ UNCHANGED <<given, child, sems, page, piped, stops>>

TakeGuard ==
  /\ Goes("guard", "filter") /\ sem_wait("van_meg")
  /\ UNCHANGED <<given, child, page, piped, stops>>

\* filter(NULL, &size, -1) counts the lines and, if there are any, calls
\* itself with the number; otherwise size stays -1 and the result is NULL.
filter == IF lines = 0 THEN -1 ELSE lines

Filter ==
  /\ Goes("filter", IF Guarded THEN "release" ELSE "show")
  /\ count' = IF Guarded THEN filter ELSE count
  /\ UNCHANGED <<given, child, sems, todo, piped, stops>>

Release ==
  /\ Goes("release", "open") /\ sem_post("van_meg")
  /\ UNCHANGED <<given, child, page, piped, stops>>

OpenWrite ==
  /\ Goes("open", "turn") /\ sem_post("write")
  /\ UNCHANGED <<given, child, page, piped, stops>>

MyTurn ==
  /\ Goes("turn", "show") /\ sem_wait("write")
  /\ UNCHANGED <<given, child, page, piped, stops>>

\* print_order(&_result[0]), where _result may be NULL.
Show ==
  /\ Goes("show", IF filter = -1 THEN "crashed" ELSE "write")
  /\ UNCHANGED <<given, child, sems, page, piped, stops>>

\* The parent has closed its own read end: without a child it gets SIGPIPE.
\* sub2.c closes the other end too and writes once more, to no effect.
Write ==
  /\ Goes("write", IF child = "end" THEN "crashed"
                   ELSE IF Guarded THEN "pass" ELSE "wait")
  /\ piped' = IF child = "end" THEN piped ELSE 1
  /\ UNCHANGED <<given, child, sems, page, stops>>

Pass ==
  /\ Goes("pass", "last") /\ sem_post("read")
  /\ UNCHANGED <<given, child, page, piped, stops>>

\* van_meg is taken and posted around s[1] = 0, which nobody reads.
Last ==
  /\ Goes("last", "wait") /\ sems["van_meg"] > 0
  /\ UNCHANGED <<given, child, sems, page, piped, stops>>

WaitChild ==
  /\ Goes("wait", IF Guarded THEN "unlink_van_meg" ELSE "done")
  /\ child = "end"
  /\ UNCHANGED <<given, child, sems, page, piped, stops>>

szemafor_torles(n, from, to) ==
  /\ Goes(from, to)
  /\ sems' = [sems EXCEPT ![n] = NoSem]
  /\ UNCHANGED <<given, child, page, piped, stops>>

Remove ==
  \/ szemafor_torles("van_meg", "unlink_van_meg", "unlink_write")
  \/ szemafor_torles("write", "unlink_write", "unlink_read")
  \/ szemafor_torles("read", "unlink_read", "done")

Parent ==
  \/ Start \/ Fork \/ Announce \/ TakeGuard \/ Filter \/ Release \/ OpenWrite
  \/ MyTurn \/ Show \/ Write \/ Pass \/ Last \/ WaitChild \/ Remove

-----------------------------------------------------------------------------
(***************************************************************************)
(* The child.                                                              *)
(***************************************************************************)
Comes(from, to) == child = from /\ child' = to

ChildGuard ==
  /\ Comes("guard", "count") /\ sem_wait("van_meg")
  /\ UNCHANGED <<given, parent, page, piped, stops>>

ChildCount ==
  /\ Comes("count", "release")
  /\ todo' = IF count > 0 THEN count ELSE 0
  /\ UNCHANGED <<given, parent, sems, count, piped, stops>>

ChildRelease ==
  /\ Comes("release", IF todo > 0 THEN "loop" ELSE "end") /\ sem_post("van_meg")
  /\ UNCHANGED <<given, parent, page, piped, stops>>

ChildTurn ==
  /\ Comes("loop", "read") /\ sem_wait("read")
  /\ UNCHANGED <<given, parent, page, piped, stops>>

\* read waits for an order, or for the end of the parent, but may also find
\* at once that it cannot write there; using the pointer is then the end.  In
\* sub2_a.c the pipe is closed from the second round on, and read fails.
Second == Guarded /\ todo < count
ChildRead ==
  /\ piped > 0 \/ parent = "crashed" \/ ~order_buffer \/ Second
  /\ Comes("read", IF Guarded /\ order_buffer THEN "give" ELSE "end")
  /\ piped' = IF order_buffer /\ ~Second THEN 0 ELSE piped
  /\ UNCHANGED <<given, parent, sems, page, stops>>

ChildGive ==
  /\ Comes("give", IF todo > 1 THEN "loop" ELSE "end") /\ sem_post("write")
  /\ todo' = todo - 1
  /\ UNCHANGED <<given, parent, count, piped, stops>>

Child ==
  ChildGuard \/ ChildCount \/ ChildRelease \/ ChildTurn \/ ChildRead \/ ChildGive

-----------------------------------------------------------------------------
ForkFails ==
  /\ Goes("fork", "failed") /\ stops < MaxStops
  /\ stops' = stops + 1
  /\ UNCHANGED <<given, child, sems, page, piped>>

\* Both are killed, or a run that is over is followed by another one.
Kill ==
  /\ Goes(parent, "off") /\ parent \notin {"off", "done"} /\ stops < MaxStops
  /\ child' = "none" /\ piped' = 0
  /\ stops' = stops + 1
  /\ UNCHANGED <<given, sems, page>>

Stop == ForkFails \/ Kill

Next == Parent \/ Child \/ Stop

Spec == Init /\ exercise \in Draft /\ [][Next]_vars

-----------------------------------------------------------------------------
(***************************************************************************)
(* CountIsGuarded: van_meg guards the number of orders: parent and child   *)
(* are never both between taking and posting it, so the child sees the     *)
(* number as it was before filter or as it is after it; and it reads an    *)
(* order only after the parent has written one, told of as many as there   *)
(* are.  A killed run may leave a permit behind, one at most of each       *)
(* semaphore, and the first promise breaks in the runs that found one of   *)
(* van_meg, the second in those that found one of "read": not in a first   *)
(* run, and in no other for any other reason.                              *)
(***************************************************************************)
InParent == parent \in {"filter", "release"}
InChild  == child \in {"count", "release"}
CountIsGuarded ==
  Guarded =>
    /\ found["van_meg"] <= stops /\ found["read"] <= stops
    /\ InParent /\ InChild => found["van_meg"] > 0
    /\ child \in {"read", "give"} =>
         \/ found["read"] > 0
         \/ parent \in {"last", "wait"} /\ todo = count /\ count = lines

(***************************************************************************)
(* Starved: the child of sub2_a.c waits for the second of the orders it    *)
(* was told of, of which the parent writes one.                            *)
(***************************************************************************)
Starved ==
  Guarded /\ parent = "wait" /\ child = "loop" /\ lines > 1
=============================================================================
