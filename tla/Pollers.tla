------------------------------ MODULE Pollers ------------------------------
(***************************************************************************)
(* The programs of gy3: a parent and the child it forks, and a pipe        *)
(* between them.  In pipe.c it has no name; in the others the name is made *)
(* by mkfifo, which fails if there is one, and in poll_cso.c, ppoll.cso.c  *)
(* and sel_cso.c the child waits in poll, ppoll or select, the first two   *)
(* of which time out.  In nevcso.c the parent reads.                       *)
(***************************************************************************)
EXTENDS Integers, Sequences

CONSTANT MaxStops  \* bound on forks that fail and runs that are killed

VARIABLES
  exercise,
  parent, child,  \* where the two processes are
  name,           \* is the name of the pipe in the directory?
  pipe,           \* does the pipe hold what was written?
  heard,          \* what ended the reader's wait
  stops

vars == <<exercise, parent, child, name, pipe, heard, stops>>

Piped == {"pipe", "nevcso", "poll_cso", "ppoll_cso", "sel_cso"}

TypeOK ==
  /\ parent \in {"off", "first", "fork", "open", "speak", "read", "wait",
                 "unlink", "done", "alone", "stuck", "failed"}
  /\ child \in {"none", "open", "write", "signal", "ppoll", "listen",
                "unlink", "end"}
  /\ {name, pipe} \subseteq BOOLEAN
  /\ heard \in {"nothing", "data", "timeout", "signal", "death"}
  /\ stops \in 0..MaxStops

Init ==
  /\ parent = "off" /\ child = "none"
  /\ name = FALSE /\ pipe = FALSE /\ heard = "nothing"
  /\ stops = 0

-----------------------------------------------------------------------------
(***************************************************************************)
(* The parent.                                                             *)
(***************************************************************************)
MakePipe ==
  /\ parent = "off" /\ ~name
  /\ parent' = IF exercise \in {"poll_cso", "sel_cso"} THEN "first" ELSE "fork"
  /\ name' = (exercise # "pipe")
  /\ UNCHANGED <<exercise, child, pipe, heard, stops>>

\* mkfifo finds the name of an earlier run.
NameExists ==
  /\ parent = "off" /\ name
  /\ parent' = "failed"
  /\ UNCHANGED <<exercise, child, name, pipe, heard, stops>>

\* poll and select on the new pipe: nobody writes, and their time is up.
FirstLook ==
  /\ parent = "first"
  /\ parent' = "fork"
  /\ UNCHANGED <<exercise, child, name, pipe, heard, stops>>

Fork ==
  /\ parent = "fork"
  /\ parent' = IF exercise = "nevcso" THEN "open" ELSE "speak"
  /\ child' = CASE exercise = "nevcso" -> "open"
                [] exercise = "ppoll_cso" -> "signal"
                [] OTHER -> "listen"
  /\ UNCHANGED <<exercise, name, pipe, heard, stops>>

\* open of nevcso.c returns when the other end is opened too.
Meet ==
  /\ parent = "open" /\ child = "open"
  /\ parent' = "read" /\ child' = "write"
  /\ UNCHANGED <<exercise, name, pipe, heard, stops>>

Speak ==
  /\ parent = "speak" /\ exercise # "ppoll_cso"
  /\ parent' = "wait"
  /\ pipe' = TRUE
  /\ UNCHANGED <<exercise, child, name, heard, stops>>

\* SIGUSR1 ends a child that has not called signal yet, does nothing to one
\* that has not called ppoll, and makes ppoll return.
SendSignal ==
  /\ parent = "speak" /\ exercise = "ppoll_cso"
  /\ parent' = "wait"
  /\ child' = CASE child = "signal" -> "end"
                [] child = "listen" -> "unlink"
                [] OTHER -> child
  /\ heard' = CASE child = "signal" -> "death"
                [] child = "listen" -> "signal"
                [] OTHER -> heard
  /\ UNCHANGED <<exercise, name, pipe, stops>>

\* The reader of nevcso.c, which does not wait for the child.
Read ==
  /\ parent = "read" /\ pipe
  /\ parent' = "unlink"
  /\ pipe' = FALSE /\ heard' = "data"
  /\ UNCHANGED <<exercise, child, name, stops>>

WaitChild ==
  /\ parent = "wait" /\ child = "end"
  /\ parent' = IF exercise = "pipe" THEN "done" ELSE "unlink"
  /\ UNCHANGED <<exercise, child, name, pipe, heard, stops>>

\* Deviation: only the child, who may have died, removes the name.
UnlinkForgotten ==
  /\ parent = "unlink"
  /\ parent' = "done"
  /\ UNCHANGED <<exercise, child, name, pipe, heard, stops>>

Unlink ==
  /\ parent = "unlink"
  /\ parent' = "done"
  /\ name' = FALSE
  /\ UNCHANGED <<exercise, child, pipe, heard, stops>>

\* The child's part without a child: time out, unlink, return.
Alone ==
  /\ parent = "alone"
  /\ parent' = "done"
  /\ name' = FALSE /\ heard' = "timeout"
  /\ UNCHANGED <<exercise, child, pipe, stops>>

Parent ==
  \/ MakePipe \/ NameExists \/ FirstLook \/ Fork \/ Meet \/ Speak
  \/ SendSignal \/ Read \/ WaitChild \/ Unlink \/ Alone

-----------------------------------------------------------------------------
(***************************************************************************)
(* The child.                                                              *)
(***************************************************************************)
Signal ==
  /\ child = "signal"
  /\ child' = "ppoll"
  /\ UNCHANGED <<exercise, parent, name, pipe, heard, stops>>

Ppoll ==
  /\ child = "ppoll"
  /\ child' = "listen"
  /\ UNCHANGED <<exercise, parent, name, pipe, heard, stops>>

\* read, poll or select returns with data, which is read.
Hear ==
  /\ child = "listen" /\ pipe
  /\ child' = IF exercise = "pipe" THEN "end" ELSE "unlink"
  /\ pipe' = FALSE /\ heard' = "data"
  /\ UNCHANGED <<exercise, parent, name, stops>>

TimesOut ==
  /\ child = "listen" /\ ~pipe /\ exercise \in {"poll_cso", "ppoll_cso"}
  /\ child' = "unlink"
  /\ heard' = "timeout"
  /\ UNCHANGED <<exercise, parent, name, pipe, stops>>

ChildWrite ==
  /\ child = "write"
  /\ child' = "end"
  /\ pipe' = TRUE
  /\ UNCHANGED <<exercise, parent, name, heard, stops>>

ChildUnlink ==
  /\ child = "unlink"
  /\ child' = "end"
  /\ name' = FALSE
  /\ UNCHANGED <<exercise, parent, pipe, heard, stops>>

Child == Signal \/ Ppoll \/ Hear \/ TimesOut \/ ChildWrite \/ ChildUnlink

-----------------------------------------------------------------------------
\* fork returned -1.  pipe.c exits; in the others the only process takes
\* itself for the child, and in nevcso.c and sel_cso.c waits for another.
ForkFails ==
  /\ parent = "fork" /\ stops < MaxStops
  /\ parent' = CASE exercise = "pipe" -> "failed"
                 [] exercise \in {"nevcso", "sel_cso"} -> "stuck"
                 [] OTHER -> "alone"
  /\ stops' = stops + 1
  /\ UNCHANGED <<exercise, child, name, pipe, heard>>

\* The name stays.
Kill ==
  /\ parent \notin {"off", "done", "failed"} /\ stops < MaxStops
  /\ parent' = "off" /\ child' = "none"
  /\ pipe' = FALSE /\ heard' = "nothing"
  /\ stops' = stops + 1
  /\ UNCHANGED <<exercise, name>>

Stop == ForkFails \/ Kill

Next == Parent \/ Child \/ Stop

Spec == Init /\ exercise \in Piped /\ [][Next]_vars

-----------------------------------------------------------------------------
(***************************************************************************)
(* PipesEndWell: a program that ends leaves no name behind, and fails to   *)
(* start only after a run that was killed.  What its reader waited for has *)
(* come; only the waits of poll_cso.c and ppoll.cso.c may be over before,  *)
(* and only ppoll.cso.c can end its child with the signal meant for it.    *)
(***************************************************************************)
Expected ==
  [pipe |-> {"data"}, nevcso |-> {"data"}, sel_cso |-> {"data"},
   poll_cso |-> {"data", "timeout"},
   ppoll_cso |-> {"signal", "timeout", "death"}]
PipesEndWell ==
  /\ parent = "done" => ~name /\ heard \in Expected[exercise]
  /\ parent = "failed" => stops > 0
  /\ child = "open" => name

(***************************************************************************)
(* Implements: what is written is handed over, never before it is written. *)
(***************************************************************************)
Spoken ==
  IF exercise = "nevcso" THEN child = "end"
  ELSE parent \in {"wait", "unlink", "done"} /\ child # "none"
sent     == IF Spoken /\ exercise # "ppoll_cso" THEN <<"data">> ELSE <<>>
received == IF heard = "data" THEN <<"data">> ELSE <<>>

Box == INSTANCE Handover WITH Message <- {"data"}
HandsOver == Box!Next
=============================================================================
