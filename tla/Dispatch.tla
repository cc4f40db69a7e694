------------------------------ MODULE Dispatch ------------------------------
(***************************************************************************)
(* sub2/src/a.c: a company that gets its orders installed, one worker      *)
(* process per day.                                                        *)
(*                                                                         *)
(* Each day the company forks a worker, tells it with a SIGTERM that       *)
(* carries a number how many orders of equal performance it found, and     *)
(* sends the ids of at most WorkerDayMax of them through a pipe.  The      *)
(* worker answers every id it reads, and in the end the day's work, with a *)
(* SIGUSR1; the company waits for each answer in pause().  A signal is an  *)
(* event of its own here: one that arrives while its receiver is not (yet) *)
(* in pause() only runs the handler and wakes nobody, and a SIGUSR1 sent   *)
(* while one is pending is merged with it.                                 *)
(*                                                                         *)
(* Both processes may be killed at any moment, and the program started     *)
(* again: what is left is data.txt, or, between the remove and the rename  *)
(* of update, its new content under the name temp.txt.                     *)
(***************************************************************************)
EXTENDS OrderFile

CONSTANTS
  Files,         \* the contents data.txt may have at the start
  DayLimit,      \* 50 in the code
  WorkerDayMax,  \* WORKER_DAY_MAX, 2 in the code
  Stray,         \* performances read behind the end of all_orders
  Faults,        \* may pipe, fork and fopen fail?
  MaxKills,      \* bound on kills
  MaxLines       \* bound on the lines of the database

ASSUME DispatchAssumption ==
  /\ Files \subseteq File
  /\ DayLimit \in Nat
  /\ WorkerDayMax \in Nat
  /\ Stray \subseteq Int
  /\ Faults \in BOOLEAN
  /\ MaxKills \in Nat
  /\ MaxLines \in Nat

VARIABLES
  file,       \* data.txt, or temp.txt while it is to become data.txt
  named,      \* is there a data.txt?
  orders,     \* all_orders, its length is _total
  day,        \* current_day
  task,       \* current_task
  skipped,    \* ghost: short lines read, and orders that update could not mark
  cpc,        \* where the company is
  result,     \* _read_result, its Size is _read_c
  i,          \* _read_i
  j,          \* _disp_i
  pipe,       \* ids in the pipe
  usr1,       \* is a SIGUSR1 pending for the company?
  sigterm,    \* the values of the SIGTERM pending for the worker
  wpc,        \* where the worker is
  count,      \* the worker's sighandler_num
  countRead,  \* count_read
  got,        \* ghost: the ids this day's worker has read
  lost,       \* ghost: SIGUSR1 of this day that woke nobody
  killed      \* kills so far

disk    == <<file, named, killed>>
book    == <<disk, orders, day, task, skipped>>
company == <<book, cpc, result, i, j>>
worker  == <<wpc, count, countRead, got>>
signals == <<usr1, sigterm, lost>>
vars == <<company, pipe, worker, signals>>

CompanyPC ==
  {"start", "day", "select", "announce", "issue", "sent", "awaitAck",
   "awaitDone", "wait", "record", "rename", "finished", "failed", "crashed"}
WorkerPC == {"none", "fresh", "idle", "read", "ack", "leave", "gone"}

TypeOK ==
  /\ file \in File /\ named \in BOOLEAN /\ killed \in Nat
  /\ orders \in Seq(Order)
  /\ day \in Nat /\ task \in Nat /\ skipped \in Nat
  /\ cpc \in CompanyPC
  /\ result \in Seq(Order)
  /\ i \in Nat /\ j \in Nat
  /\ pipe \in Seq(Int)
  /\ usr1 \in BOOLEAN
  /\ sigterm \subseteq Int
  /\ wpc \in WorkerPC
  /\ count \in Int /\ countRead \in Nat
  /\ got \in Seq(Int)
  /\ lost \in Nat

Init ==
  /\ file \in Files /\ named = TRUE /\ killed = 0
  /\ orders = <<>>
  /\ day = 0 /\ task = 0 /\ skipped = 0
  /\ cpc = "start"
  /\ result = <<>>
  /\ i = 0 /\ j = 0
  /\ pipe = <<>>
  /\ usr1 = FALSE /\ sigterm = {} /\ lost = 0
  /\ wpc = "none"
  /\ count = 0 /\ countRead = 0
  /\ got = <<>>

-----------------------------------------------------------------------------
(***************************************************************************)
(* The company.                                                            *)
(***************************************************************************)
ReadOrders ==
  /\ cpc = "start" /\ named
  /\ orders' \in Filter(file.lines, Any)
  /\ skipped' = Cardinality(ShortLines(file.lines))
  /\ cpc' = "day"
  /\ UNCHANGED <<disk, day, task, result, i, j, pipe, worker, signals>>

\* filter does not look at what fopen returned, and getline crashes.
NothingToRead ==
  /\ cpc = "start" /\ ~named
  /\ cpc' = "crashed"
  /\ UNCHANGED <<book, result, i, j, pipe, worker, signals>>

DayLeft == day < Size(orders) /\ day < DayLimit

(***************************************************************************)
(* The number of tasks the company believes are left: set once, so it is   *)
(* positive on every day, and the days without a worker never come.        *)
(***************************************************************************)
left == Size(orders)

\* pipe and fork; the child inherits a sighandler_num that is still 0.
StartDay ==
  /\ cpc = "day" /\ DayLeft
  /\ left > 0
  /\ cpc' = "select"
  /\ pipe' = <<>>
  /\ wpc' = "fresh" /\ count' = 0 /\ countRead' = 0 /\ got' = <<>>
  /\ UNCHANGED <<book, result, i, j, signals>>

StartDayFails ==
  /\ Faults
  /\ cpc = "day" /\ DayLeft
  /\ left > 0
  /\ cpc' = "failed"
  /\ UNCHANGED <<book, result, i, j, pipe, worker, signals>>

Finish ==
  /\ cpc = "day" /\ ~DayLeft
  /\ cpc' = "finished"
  /\ UNCHANGED <<book, result, i, j, pipe, worker, signals>>

(***************************************************************************)
(* The day's filter takes the performance of the next task, whatever is    *)
(* stored there, and, as its done is -1, finds finished orders as well.    *)
(***************************************************************************)
PerfOf(t) == IF t < Len(orders) THEN {orders[t + 1].perf} ELSE Stray

\* Deviation: _read_i survives from one day to the next.
SelectTasksKeepsCount ==
  /\ cpc = "select"
  /\ \E perf \in PerfOf(task) :
       result' \in Filter(file.lines, [Any EXCEPT !.perf = perf])
  /\ cpc' = "announce"
  /\ UNCHANGED <<book, i, j, pipe, worker, signals>>

SelectTasks ==
  /\ cpc = "select"
  /\ \E perf \in PerfOf(task) :
       result' \in Filter(file.lines, [Any EXCEPT !.perf = perf])
  /\ i' = 0
  /\ cpc' = "announce"
  /\ UNCHANGED <<book, j, pipe, worker, signals>>

AnnounceCount ==
  /\ cpc = "announce"
  /\ sigterm' = {Size(result)}
  /\ cpc' = "issue"
  /\ UNCHANGED <<book, result, i, j, pipe, worker, usr1, lost>>

TaskLeft == i < Size(result) /\ i < WorkerDayMax

\* Deviation: write_to_pipe without its pause().
WriteTaskGoesOn ==
  /\ cpc = "issue" /\ TaskLeft
  /\ pipe' = Append(pipe, result[i + 1].id)
  /\ i' = i + 1
  /\ UNCHANGED <<book, cpc, result, j, worker, signals>>

\* write_to_pipe up to its pause().
WriteTask ==
  /\ cpc = "issue" /\ TaskLeft
  /\ pipe' = Append(pipe, result[i + 1].id)
  /\ cpc' = "sent"
  /\ UNCHANGED <<book, result, i, j, worker, signals>>

PauseForAck ==
  /\ cpc = "sent"
  /\ cpc' = "awaitAck"
  /\ UNCHANGED <<book, result, i, j, pipe, worker, signals>>

\* Deviation: dispatch_logic without the pause() after its loop.
NoPauseForDone ==
  /\ cpc = "issue" /\ ~TaskLeft
  /\ cpc' = "wait"
  /\ UNCHANGED <<book, result, i, j, pipe, worker, signals>>

PauseForDone ==
  /\ cpc = "issue" /\ ~TaskLeft
  /\ cpc' = "awaitDone"
  /\ UNCHANGED <<book, result, i, j, pipe, worker, signals>>

(***************************************************************************)
(* The handler runs as soon as the kernel schedules the company; pause()   *)
(* returns only if the company was in it.                                  *)
(***************************************************************************)
CompanyHandler ==
  /\ usr1
  /\ usr1' = FALSE
  /\ \/ /\ cpc = "awaitAck"
        /\ cpc' = "issue" /\ i' = i + 1
        /\ lost' = lost
     \/ /\ cpc = "awaitDone"
        /\ cpc' = "wait"
        /\ UNCHANGED <<i, lost>>
     \/ /\ cpc \notin {"awaitAck", "awaitDone"}
        /\ lost' = lost + 1
        /\ UNCHANGED <<cpc, i>>
  /\ UNCHANGED <<book, result, j, pipe, worker, sigterm>>

WaitWorker ==
  /\ cpc = "wait" /\ wpc = "gone"
  /\ wpc' = "none"
  /\ cpc' = "record" /\ j' = 0
  /\ UNCHANGED <<book, result, i, pipe, count, countRead, got,
                 signals>>

\* Deviation: update gets the day's performance filter.
MarkDoneByPerf ==
  /\ cpc = "record" /\ j < i
  /\ file' \in Update(file, [Any EXCEPT !.perf = result[j + 1].perf],
                      [Any EXCEPT !.done = 1])
  /\ named' = FALSE
  /\ cpc' = "rename"
  /\ UNCHANGED <<killed, orders, day, task, skipped, result, i, j, pipe, worker,
                 signals>>

\* update with the dispatched order as filter, up to its remove of data.txt.
MarkDone ==
  /\ cpc = "record" /\ j < i
  /\ file' \in Update(file, result[j + 1], [Any EXCEPT !.done = 1])
  /\ Len(file'.lines) <= MaxLines
  /\ named' = FALSE
  /\ cpc' = "rename"
  /\ UNCHANGED <<killed, orders, day, task, skipped, result, i, j, pipe, worker,
                 signals>>

\* It returns early, and the company does not notice, when a file cannot be
\* opened.
MarkDoneFails ==
  /\ Faults
  /\ cpc = "record" /\ j < i
  /\ skipped' = skipped + 1
  /\ task' = task + 1
  /\ j' = j + 1
  /\ UNCHANGED <<disk, orders, day, cpc, result, i, pipe, worker, signals>>

\* A short line may leave the time as uninitialised as the other columns, and
\* strftime crashes when localtime cannot make a date of it.
MarkDoneCrashes ==
  /\ cpc = "record" /\ j < i
  /\ \E read \in Readings(Copied(file)) :
       ShortLines(Copied(file)) \cap Hits(result[j + 1], read) # {}
  /\ cpc' = "crashed"
  /\ UNCHANGED <<book, result, i, j, pipe, worker, signals>>

Rename ==
  /\ cpc = "rename"
  /\ named' = TRUE
  /\ cpc' = "record"
  /\ task' = task + 1
  /\ j' = j + 1
  /\ UNCHANGED <<file, killed, orders, day, skipped, result, i, pipe, worker,
                 signals>>

EndDay ==
  /\ cpc = "record" /\ j >= i
  /\ day' = day + 1
  /\ cpc' = "day"
  /\ UNCHANGED <<disk, orders, task, skipped, result, i, j, pipe, worker,
                 signals>>

-----------------------------------------------------------------------------
(***************************************************************************)
(* The worker.                                                             *)
(***************************************************************************)
PauseForCount ==
  /\ wpc = "fresh"
  /\ wpc' = "idle"
  /\ UNCHANGED <<company, pipe, count, countRead, got, signals>>

\* handler_info, and the pause() it ends if the worker is in it.
WorkerHandler ==
  /\ \E v \in sigterm : count' = v
  /\ sigterm' = {}
  /\ wpc' = IF wpc = "idle" THEN "read" ELSE wpc
  /\ UNCHANGED <<company, pipe, countRead, got, usr1, lost>>

\* Deviations: the worker counts one order too few, or knows no daily limit.
ReadLeftTooFew == countRead < count - 1 /\ countRead < WorkerDayMax
ReadLeftNoLimit == countRead < count

ReadLeft == countRead < count /\ countRead < WorkerDayMax

\* read_from_pipe up to its kill; read blocks on an empty pipe.
ReadTask ==
  /\ wpc = "read" /\ ReadLeft
  /\ pipe # <<>>
  /\ got' = Append(got, Head(pipe))
  /\ pipe' = Tail(pipe)
  /\ wpc' = "ack"
  /\ UNCHANGED <<company, count, countRead, signals>>

\* kill(getppid(), SIGUSR1): a standard signal is pending once or not at all.
Signal ==
  /\ usr1' = TRUE
  /\ lost' = IF usr1 THEN lost + 1 ELSE lost

\* Deviation: the worker counts down.
AcknowledgeCountsDown ==
  /\ wpc = "ack"
  /\ Signal
  /\ countRead' = countRead - 1
  /\ wpc' = "read"
  /\ UNCHANGED <<company, pipe, count, got, sigterm>>

Acknowledge ==
  /\ wpc = "ack"
  /\ Signal
  /\ countRead' = countRead + 1
  /\ wpc' = "read"
  /\ UNCHANGED <<company, pipe, count, got, sigterm>>

ReportDone ==
  /\ wpc = "read" /\ ~ReadLeft
  /\ Signal
  /\ wpc' = "leave"
  /\ UNCHANGED <<company, pipe, count, countRead, got, sigterm>>

Exit ==
  /\ wpc = "leave"
  /\ wpc' = "gone"
  /\ UNCHANGED <<company, pipe, count, countRead, got, signals>>

-----------------------------------------------------------------------------
\* Ctrl-C ends both processes, and the program is started again.
Kill ==
  /\ cpc \notin {"start", "finished", "failed", "crashed"} /\ killed < MaxKills
  /\ killed' = killed + 1
  /\ orders' = <<>>
  /\ day' = 0 /\ task' = 0 /\ skipped' = 0
  /\ cpc' = "start"
  /\ result' = <<>>
  /\ i' = 0 /\ j' = 0
  /\ pipe' = <<>>
  /\ usr1' = FALSE /\ sigterm' = {} /\ lost' = 0
  /\ wpc' = "none"
  /\ count' = 0 /\ countRead' = 0
  /\ got' = <<>>
  /\ UNCHANGED <<file, named>>

CompanyStep ==
  \/ ReadOrders \/ NothingToRead \/ StartDay \/ Finish
  \/ SelectTasks \/ AnnounceCount \/ WriteTask \/ PauseForAck \/ PauseForDone
  \/ WaitWorker \/ MarkDone \/ MarkDoneFails \/ MarkDoneCrashes \/ Rename \/ EndDay

WorkerStep ==
  PauseForCount \/ ReadTask \/ Acknowledge \/ ReportDone \/ Exit

Next ==
  \/ CompanyStep \/ StartDayFails \/ CompanyHandler \/ Kill
  \/ WorkerStep \/ WorkerHandler

Spec == Init /\ [][Next]_vars

(***************************************************************************)
(* The kernel runs every process that can run and delivers every pending   *)
(* signal; nothing decides how long it takes.                              *)
(***************************************************************************)
FairSpec ==
  /\ Spec
  /\ WF_vars(CompanyStep) /\ WF_vars(CompanyHandler)
  /\ WF_vars(WorkerStep) /\ WF_vars(WorkerHandler)
-----------------------------------------------------------------------------
(***************************************************************************)
(* Signals.  SIGUSR1 sent by this day's worker, and the pauses they ended. *)
(***************************************************************************)
Dispatching == cpc \in {"issue", "sent", "awaitAck", "awaitDone", "wait"}
SignalsSent == IF wpc \in {"leave", "gone"} THEN countRead + 1 ELSE countRead
PausesEnded == IF cpc = "wait" THEN i + 1 ELSE i

\* The SIGTERM with the number came before the worker's pause().
CountMissed == Dispatching /\ sigterm = {} /\ wpc \in {"fresh", "idle"}

WakeUpLost == lost > 0 \/ CountMissed

IdsOf(res, n) == [k \in 1..n |-> res[k].id]
IssuedCount == IF cpc \in {"sent", "awaitAck"} THEN i + 1 ELSE i
QuotaOf(res) == IF Size(res) < 0 THEN 0
                ELSE IF Size(res) < WorkerDayMax THEN Size(res)
                ELSE WorkerDayMax
Quota == QuotaOf(result)

(***************************************************************************)
(* RecordedMeansWorked: when dispatch_logic reaches the loop that marks    *)
(* orders as done, the worker has read every order of the day's quota,     *)
(* answered it and finished: counting pauses is a sound way to wait.       *)
(***************************************************************************)
RecordedMeansWorked ==
  cpc \in {"record", "rename"} => /\ i = Quota
                                  /\ countRead = i
                                  /\ got = IdsOf(result, i)

(***************************************************************************)
(* DayInv: why the counting works.  Outside the day's dialogue no signal   *)
(* is under way; in it, every SIGUSR1 sent has ended one pause, is pending *)
(* or is lost, and neither side runs past the quota both derive from the   *)
(* number of orders found.  It is inductive.                               *)
(***************************************************************************)
Quiet ==
  /\ cpc \in {"start", "day", "record", "rename", "finished", "failed",
              "crashed"} => wpc = "none"
  /\ cpc \in {"select", "announce"} =>
       /\ wpc \in {"fresh", "idle"}
       /\ countRead = 0 /\ got = <<>> /\ pipe = <<>>
  /\ cpc = "announce" => i = 0
  /\ ~Dispatching => ~usr1 /\ sigterm = {} /\ lost = 0

CountKnown ==
  Dispatching =>
    /\ sigterm \subseteq {Size(result)}
    /\ wpc \in {"fresh", "idle"} => countRead = 0 /\ got = <<>>
    /\ wpc \notin {"fresh", "idle"} => count = Size(result) /\ sigterm = {}

SignalBalance ==
  Dispatching => SignalsSent = PausesEnded + lost + (IF usr1 THEN 1 ELSE 0)

WithinQuota ==
  /\ i <= Quota
  /\ cpc \in {"sent", "awaitAck"} => i < Quota
  /\ cpc \in {"awaitDone", "wait"} => i = Quota
  /\ Dispatching =>
       /\ wpc # "none"
       /\ countRead <= Quota
       /\ wpc = "ack" => countRead < Quota
       /\ wpc \in {"leave", "gone"} => countRead = Quota

\* The ids read and the ids in the pipe are the first n of res.
Passed(res, read, on, n) ==
  /\ Len(read) + Len(on) = n
  /\ \A k \in 1..Len(read) : read[k] = res[k].id
  /\ \A k \in 1..Len(on) : on[k] = res[Len(read) + k].id

TasksInTransit ==
  Dispatching =>
    /\ Len(got) = (IF wpc = "ack" THEN countRead + 1 ELSE countRead)
    /\ Passed(result, got, pipe, IssuedCount)

DayInv ==
  /\ Quiet /\ CountKnown /\ SignalBalance /\ WithinQuota /\ TasksInTransit
  /\ RecordedMeansWorked

(***************************************************************************)
(* Handshake: the worker gets the ids the company issued, all of them, in  *)
(* the order of issue, and the answer to one comes before the next is in   *)
(* the pipe (write_to_pipe, read_from_pipe), whatever the signals do.      *)
(***************************************************************************)
Handshake ==
  Dispatching => /\ got \o pipe = IdsOf(result, IssuedCount)
                 /\ Len(pipe) <= 1

(***************************************************************************)
(* MarksOnlyWorked: update writes no order that was not in the file but to *)
(* mark one that the worker of the same day had read; the short lines it   *)
(* may write are no orders.  An id below 0 is a wildcard in the filter, so *)
(* the promise needs ids that are not negative.                            *)
(***************************************************************************)
MarksOnlyWorked ==
  [][\A n \in DOMAIN file'.lines :
       (/\ ~Short(file'.lines[n])
        /\ \A m \in DOMAIN file.lines : file'.lines[n] # file.lines[m]
        /\ \A k \in 1..i : result[k].id >= 0)
         => \E k \in DOMAIN got : got[k] = file'.lines[n].id]_vars

(***************************************************************************)
(* NothingRecordedAfterLoss: a day on which one wake-up is lost never      *)
(* reaches the wait for the worker, let alone the marking of its orders:   *)
(* the company never takes an answer for another one.                      *)
(***************************************************************************)
NothingRecordedAfterLoss ==
  WakeUpLost => cpc \in {"issue", "sent", "awaitAck", "awaitDone"}

(***************************************************************************)
(* HangsOnlyByLoss: company and worker never wait for each other unless a  *)
(* wake-up was lost; in particular both agree on the number of tasks.      *)
(***************************************************************************)
WorkerStuck ==
  \/ wpc = "idle" /\ sigterm = {}
  \/ wpc = "read" /\ ReadLeft /\ pipe = <<>>
  \/ wpc \in {"none", "gone"}

HangsOnlyByLoss ==
  cpc \in {"awaitAck", "awaitDone"} /\ ~usr1 /\ WorkerStuck => WakeUpLost

(***************************************************************************)
(* DatabaseSurvives: whoever is killed when, the database has its name but *)
(* inside update and after a kill there, which is when the program cannot  *)
(* start any more; and under either name no step loses or reorders the     *)
(* orders that have all their columns, or changes them but by a mark: only *)
(* an unterminated last line may go.  Of a short line nothing is promised. *)
(***************************************************************************)
Marked(a) == [a EXCEPT !.done = 1]
Kept(old, new) ==
  \/ new = old
  \/ LET all == {n \in DOMAIN old.lines : old.ended \/ n < Len(old.lines)}
     IN  \E to \in [all -> DOMAIN new.lines] :
           /\ \A n, m \in all : n < m => to[n] < to[m]
           /\ \A n \in all :
                Short(old.lines[n])
                  \/ new.lines[to[n]] \in {old.lines[n], Marked(old.lines[n])}
DatabaseSurvives ==
  /\ [](named \/ cpc = "rename" \/ (killed > 0 /\ cpc \in {"start", "crashed"}))
  /\ [][Kept(file, file')]_vars

(***************************************************************************)
(* TidyFilesGetDone: if equal performances stand next to each other and at *)
(* most in pairs, no line is short or lost, there are days enough and      *)
(* update can open its files, company() returns with every order marked as *)
(* done, although current_task runs past all_orders.  A short line breaks  *)
(* the promise: read as an order in one pass of a filter only, it takes    *)
(* the place of another.                                                   *)
(***************************************************************************)
Tidy ==
  /\ \A a \in DOMAIN orders : orders[a].id >= 0 /\ orders[a].perf >= 0
  /\ \A a, b \in DOMAIN orders :
       /\ orders[a].id = orders[b].id => a = b
       /\ orders[a].perf = orders[b].perf => a - b \in -1..1
  /\ Len(file.lines) = Len(orders)

TidyFilesGetDone ==
  cpc = "finished" /\ skipped = 0 /\ Tidy /\ Len(orders) <= DayLimit =>
    \A n \in DOMAIN file.lines : file.lines[n].done = 1

(***************************************************************************)
(* Completes: company(), started again or not, returns (or exits because   *)
(* pipe or fork failed, or crashes for want of data.txt) unless a wake-up  *)
(* is lost.                                                                *)
(***************************************************************************)
Completes == []<>(cpc \in {"finished", "failed", "crashed"} \/ WakeUpLost)

-----------------------------------------------------------------------------
(***************************************************************************)
(* WorkIsRecorded: sub2/readme.md says that on the worker's closing        *)
(* message the company records that the orders are done.                   *)
(***************************************************************************)
WorkIsRecorded == wpc = "leave" ~> cpc = "record"

(***************************************************************************)
(* EveryOrderIssued: sub2/readme.md says that an order that has waited     *)
(* long enough is issued out of turn, one a day if need be, so that with   *)
(* days to spare no order is left over.                                    *)
(***************************************************************************)
EveryOrderIssued ==
  cpc = "finished" /\ skipped = 0 /\ file.ended /\ Len(orders) <= DayLimit =>
    \A n \in DOMAIN file.lines : file.lines[n].done = 1
=============================================================================
