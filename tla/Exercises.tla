----------------------------- MODULE Exercises -----------------------------
(***************************************************************************)
(* The small programs of two processes, a parent and the child it forks.   *)
(* They have nothing to do with each other: one of them runs.              *)
(***************************************************************************)
EXTENDS Integers, Sequences

CONSTANTS
  Count, Price,    \* of Tour
  Rounds, Length,  \* of FileLock
  Repeats,         \* Rounds of Signals
  Lines,           \* of Drafts
  MaxStops         \* bound on kills and failures

ASSUME ExercisesAssumption ==
  /\ Count \subseteq Nat /\ Price \subseteq Nat /\ Lines \subseteq Nat
  /\ Rounds \in Nat /\ Length \in Nat /\ Repeats \in Nat \ {0}
  /\ MaxStops \in Nat

VARIABLES
  exercise,  \* the program that runs
  parent, child, stops,
  page, sem, printed, rebuilt,                                \* SharedMessage
  queue, sent, received,                                      \* Queues
  mail, mqdes1, armed, signal, code,                          \* Notify
  signals, lost, newTour, toChild, toParent, booked, answer,  \* Tour
  holder, round, at, file,                                    \* FileLock
  pc, inside, said, pending, handled, timer,                  \* Signals
  name, pipe, heard,                                          \* Pollers
  sems, found, count, todo, lines, order_buffer, piped        \* Drafts

procs      == <<parent, child>>
sharedVars == <<page, sem, printed, rebuilt>>
queueVars  == <<queue, sent, received>>
notifyVars == <<mail, mqdes1, armed, signal, code>>
tourVars   == <<signals, lost, newTour, toChild, toParent, booked, answer>>
lockVars   == <<holder, round, at, file>>
signalVars == <<pc, inside, said, pending, handled, timer>>
pipeVars   == <<name, pipe, heard>>
draftVars  == <<sems, found, count, todo, lines, order_buffer, piped>>
vars ==
  <<exercise, procs, stops, sharedVars, queueVars, notifyVars, tourVars,
    lockVars, signalVars, pipeVars, draftVars>>

pos_szemafor == INSTANCE SharedMessage WITH SystemV <- FALSE
szemafor     == INSTANCE SharedMessage WITH SystemV <- TRUE
uzenet       == INSTANCE Queues WITH Posix <- FALSE
mq_uzenet1   == INSTANCE Queues WITH Posix <- TRUE
mq_uzenet    == INSTANCE Notify
shaq_bead2   == INSTANCE Tour WITH Faults <- MaxStops > 0
fcntl        == INSTANCE FileLock WITH Locked <- TRUE
fcntl_0      == INSTANCE FileLock WITH Locked <- FALSE
gy2          == INSTANCE Signals WITH Rounds <- Repeats
gy3          == INSTANCE Pollers
drafts       == INSTANCE Drafts

Exercise ==
  {"pos_szemafor", "szemafor", "uzenet", "mq_uzenet1", "mq_uzenet",
   "shaq_bead2", "fcntl", "fcntl_0"} \cup gy2!Demo \cup gy3!Piped \cup drafts!Draft

Init ==
  /\ exercise \in Exercise
  /\ pos_szemafor!Init /\ uzenet!Init /\ mq_uzenet!Init /\ shaq_bead2!Init
  /\ fcntl!Init /\ gy2!Init /\ gy3!Init /\ drafts!Init

\* A step of one module leaves the variables of the others alone.
Shared(step) ==
  step /\ UNCHANGED <<exercise, queueVars, notifyVars, tourVars, lockVars,
                      signalVars, pipeVars, draftVars>>
Queued(step) ==
  step /\ UNCHANGED <<exercise, sharedVars, notifyVars, tourVars, lockVars,
                      signalVars, pipeVars, draftVars>>
Notified(step) ==
  step /\ UNCHANGED <<exercise, sharedVars, queueVars, tourVars, lockVars,
                      signalVars, pipeVars, draftVars>>
Toured(step) ==
  step /\ UNCHANGED <<exercise, stops, sharedVars, queueVars, notifyVars,
                      lockVars, signalVars, pipeVars, draftVars>>
Filed(step) ==
  step /\ UNCHANGED <<exercise, sharedVars, queueVars, notifyVars, tourVars,
                      signalVars, pipeVars, draftVars>>
Signalled(step) ==
  step /\ UNCHANGED <<sharedVars, queueVars, notifyVars, tourVars, lockVars,
                      pipeVars, draftVars>>
Piped(step) ==
  step /\ UNCHANGED <<sharedVars, queueVars, notifyVars, tourVars, lockVars,
                      signalVars, draftVars>>
Drafted(step) ==
  step /\ UNCHANGED <<sharedVars, queueVars, notifyVars, tourVars, lockVars,
                      signalVars, pipeVars>>

Parent ==
  \/ exercise = "pos_szemafor" /\ Shared(pos_szemafor!Parent)
  \/ exercise = "szemafor" /\ Shared(szemafor!Parent)
  \/ exercise = "uzenet" /\ Queued(uzenet!Parent)
  \/ exercise = "mq_uzenet1" /\ Queued(mq_uzenet1!Parent)
  \/ exercise = "mq_uzenet" /\ Notified(mq_uzenet!Parent)
  \/ exercise = "shaq_bead2" /\ Toured(shaq_bead2!Parent)
  \/ exercise = "fcntl" /\ Filed(fcntl!Parent)
  \/ exercise = "fcntl_0" /\ Filed(fcntl_0!Parent)
  \/ exercise \in gy2!Demo /\ Signalled(gy2!Parent)
  \/ exercise \in gy3!Piped /\ Piped(gy3!Parent)
  \/ exercise \in drafts!Draft /\ Drafted(drafts!Parent)

Child ==
  \/ exercise = "pos_szemafor" /\ Shared(pos_szemafor!Child)
  \/ exercise = "szemafor" /\ Shared(szemafor!Child)
  \/ exercise = "uzenet" /\ Queued(uzenet!Child)
  \/ exercise = "mq_uzenet1" /\ Queued(mq_uzenet1!Child)
  \/ exercise = "mq_uzenet" /\ Notified(mq_uzenet!Child)
  \/ exercise = "shaq_bead2" /\ Toured(shaq_bead2!Child)
  \/ exercise = "fcntl" /\ Filed(fcntl!Child)
  \/ exercise = "fcntl_0" /\ Filed(fcntl_0!Child)
  \/ exercise \in gy2!Demo /\ Signalled(gy2!Child)
  \/ exercise \in gy3!Piped /\ Piped(gy3!Child)
  \/ exercise \in drafts!Draft /\ Drafted(drafts!Child)

Deliver ==
  \/ exercise = "mq_uzenet" /\ Notified(mq_uzenet!Handler)
  \/ exercise = "shaq_bead2" /\ Toured(shaq_bead2!Handler)
  \/ exercise \in gy2!Demo /\ Signalled(gy2!Deliver)

Stop ==
  \/ exercise = "pos_szemafor" /\ Shared(pos_szemafor!Stop)
  \/ exercise = "szemafor" /\ Shared(szemafor!Stop)
  \/ exercise = "uzenet" /\ Queued(uzenet!Stop)
  \/ exercise = "mq_uzenet1" /\ Queued(mq_uzenet1!Stop)
  \/ exercise = "mq_uzenet" /\ Notified(mq_uzenet!Stop)
  \/ exercise = "shaq_bead2" /\ Toured(shaq_bead2!ForkFails)
  \/ exercise = "fcntl" /\ Filed(fcntl!Stop)
  \/ exercise = "fcntl_0" /\ Filed(fcntl_0!Stop)
  \/ exercise \in gy2!Demo /\ Signalled(gy2!Stop)
  \/ exercise \in gy3!Piped /\ Piped(gy3!Stop)
  \/ exercise \in drafts!Draft /\ Drafted(drafts!Stop)

Next == Parent \/ Child \/ Deliver \/ Stop

\* The kernel runs what can run and delivers what is pending.
Spec ==
  /\ Init /\ [][Next]_vars
  /\ WF_vars(Parent) /\ WF_vars(Child) /\ WF_vars(Deliver)

-----------------------------------------------------------------------------
\* The types of the program that runs.
TypeOK ==
  /\ exercise = "pos_szemafor" => pos_szemafor!TypeOK
  /\ exercise = "szemafor" => szemafor!TypeOK
  /\ exercise = "uzenet" => uzenet!TypeOK
  /\ exercise = "mq_uzenet1" => mq_uzenet1!TypeOK
  /\ exercise = "mq_uzenet" => mq_uzenet!TypeOK
  /\ exercise = "shaq_bead2" => shaq_bead2!TypeOK
  /\ exercise \in {"fcntl", "fcntl_0"} => fcntl!TypeOK
  /\ exercise \in gy2!Demo => gy2!TypeOK
  /\ exercise \in gy3!Piped => gy3!TypeOK
  /\ exercise \in drafts!Draft => drafts!TypeOK

(***************************************************************************)
(* SemaphoresGuard: what gets past the semaphore of pos_szemafor.c and of  *)
(* szemafor.c finds the whole text, also after kills (see SharedMessage),  *)
(* and van_meg of sub2_a.c guards the number of orders (see Drafts).       *)
(***************************************************************************)
SemaphoresGuard ==
  /\ exercise = "pos_szemafor" => pos_szemafor!TextIsGuarded
  /\ exercise = "szemafor" => szemafor!TextIsGuarded
  /\ exercise \in drafts!Draft => drafts!CountIsGuarded

(***************************************************************************)
(* AnswerFits: the parent of shaq-bead2.c prints the answer to its tour.   *)
(***************************************************************************)
AnswerFits == exercise = "shaq_bead2" => shaq_bead2!AnswerFits

(***************************************************************************)
(* LinesWhole: the lock of fcntl.c keeps the lines whole, and without it,  *)
(* in fcntl_0.c, each process still finds its own characters in order (see *)
(* FileLock).                                                              *)
(***************************************************************************)
LinesWhole ==
  /\ exercise = "fcntl" => fcntl!LinesWhole /\ fcntl!TextsComplete
  /\ exercise = "fcntl_0" => fcntl_0!TextsComplete

(***************************************************************************)
(* HandledAsSaid: the parents of gy2 handle the signals that their texts   *)
(* promise, in that order (see Signals).                                   *)
(***************************************************************************)
HandledAsSaid == exercise \in gy2!Demo => gy2!HandledAsSaid

(***************************************************************************)
(* PipesEndWell: the programs of gy3 leave no name behind when they end,   *)
(* having heard what they waited for (see Pollers).                        *)
(***************************************************************************)
PipesEndWell == exercise \in gy3!Piped => gy3!PipesEndWell

(***************************************************************************)
(* Implements: the texts and the letters are handed over in order, each    *)
(* once and after they were sent.  In the first run this is so of all four *)
(* programs of shared memory and queues; of szemafor.c and mq_uzenet1.c it *)
(* is so in every run, because they begin by setting the semaphore and by  *)
(* removing the queue; and of the pipes of gy3, which end with the run.    *)
(***************************************************************************)
HandsOver ==
  /\ exercise = "uzenet" => uzenet!HandsOver
  /\ exercise = "mq_uzenet1" => mq_uzenet1!HandsOver
Implements ==
  /\ pos_szemafor!Box!Init /\ uzenet!Box!Init
  /\ [][exercise = "pos_szemafor" => pos_szemafor!HandsOver]_
       <<pos_szemafor!sent, pos_szemafor!received>>
  /\ [][exercise = "szemafor" => szemafor!HandsOver]_
       <<szemafor!sent, szemafor!received>>
  /\ [][HandsOver]_<<sent, received>>
  /\ [][(exercise \in gy3!Piped) => gy3!HandsOver]_<<gy3!sent, gy3!received>>

(***************************************************************************)
(* Settles: a program that starts comes to its end or is stopped.  What    *)
(* may keep it waiting for ever is a wake-up lost in shaq-bead2.c or gy2,  *)
(* a queue of mq_uzenet.c that could not be opened, a fork of mq_uzenet1.c *)
(* or gy3 that failed, or an order that sub2_a.c announces and never       *)
(* writes, and nothing else.  A parent that dies of its draft leaves no    *)
(* child that waits for it.                                                *)
(***************************************************************************)
Settled ==
  \/ parent \in {"off", "done", "failed"}
  \/ parent = "crashed" /\ child = "end"
  \/ exercise = "shaq_bead2" /\ shaq_bead2!Overslept
  \/ exercise = "mq_uzenet" /\ mq_uzenet!Unopened
  \/ exercise = "mq_uzenet1" /\ parent = "forkless"
  \/ exercise \in gy2!Demo /\ gy2!Overslept
  \/ exercise \in gy3!Piped /\ parent = "stuck"
  \/ exercise \in drafts!Draft /\ drafts!Starved
=============================================================================
