-------------------------- MODULE ProducerConsumer --------------------------
(***************************************************************************)
(* gy6/termelo_fogyaszto_systemv.c: a parent that produces and a child     *)
(* that consumes, synchronised by three System V semaphores; the parent    *)
(* removes them when the child has ended.  One action is one system call,  *)
(* together with the local steps before it.                                *)
(***************************************************************************)
EXTENDS Integers, FiniteSets

CONSTANTS
  Number,  \* `number`, 3 in the code: places for products
  Rounds   \* 10 in the code: what each side produces or consumes

ASSUME ProducerConsumerAssumption ==
  Number \in Nat \ {0} /\ Rounds \in Nat

VARIABLES
  free, empty, full,  \* semaphore_free, semaphore_empty, semaphore_full
  ppc, i, place,      \* producer: i and the place it prints, number - r - 1
  cpc, end, product,  \* consumer: end and the number it prints, r
  removed             \* the semaphores IPC_RMID has removed

sems == <<free, empty, full, removed>>
producer == <<ppc, i, place>>
consumer == <<cpc, end, product>>
vars == <<sems, producer, consumer>>

PC == {"loop", "free", "get", "leave", "signal", "end"}
ParentPC == PC \cup {"failed", "fork", "rmFree", "rmEmpty", "rmFull"}

TypeOK ==
  /\ free \in 0..1 /\ empty \in 0..Number /\ full \in 0..Number
  /\ ppc \in ParentPC /\ cpc \in PC \cup {"none"}
  /\ i \in 0..Rounds /\ end \in 0..Rounds
  /\ place \in -1..Number - 1 /\ product \in -1..Number - 1
  /\ removed \subseteq {"free", "empty", "full"}

\* The state in which sem_create and sem_inic leave the semaphores.
Init ==
  /\ free = 1 /\ full = 0 /\ empty = Number
  /\ ppc = "fork" /\ i = 0 /\ place = -1
  /\ cpc = "none" /\ end = 0 /\ product = -1
  /\ removed = {}

Fork ==
  /\ ppc = "fork"
  /\ \/ ppc' = "loop" /\ cpc' = "loop"
     \/ ppc' = "failed" /\ cpc' = cpc
  /\ UNCHANGED <<sems, i, place, end, product>>

-----------------------------------------------------------------------------
\* Deviations: a semop that does not wait, a swapped semaphore, an
\* off-by-one, a parent that does not wait for its child.
PCloseEmptyNoWait ==
  /\ ppc = "loop" /\ i # Rounds
  /\ empty' = empty - 1
  /\ i' = i + 1
  /\ ppc' = "free"
  /\ UNCHANGED <<free, full, removed, place, consumer>>

POpenEmptyAgain ==
  /\ ppc = "signal"
  /\ empty' = empty + 1
  /\ ppc' = "loop"
  /\ UNCHANGED <<free, full, removed, i, place, consumer>>

PGetEmptyFromOne ==
  /\ ppc = "get"
  /\ place' = Number - empty
  /\ ppc' = "leave"
  /\ UNCHANGED <<sems, i, consumer>>

NoWaitConsumer ==
  /\ ppc = "loop" /\ i = Rounds
  /\ ppc' = "rmFree"
  /\ UNCHANGED <<sems, i, place, consumer>>

(***************************************************************************)
(* The producer: while (i++ != 10) { close empty; close free; read empty;  *)
(* open free; open full }.                                                 *)
(***************************************************************************)
PCloseEmpty ==
  /\ ppc = "loop" /\ i # Rounds
  /\ empty > 0
  /\ empty' = empty - 1
  /\ i' = i + 1
  /\ ppc' = "free"
  /\ UNCHANGED <<free, full, removed, place, consumer>>

PCloseFree ==
  /\ ppc = "free"
  /\ free > 0
  /\ free' = free - 1
  /\ ppc' = "get"
  /\ UNCHANGED <<empty, full, removed, i, place, consumer>>

PGetEmpty ==
  /\ ppc = "get"
  /\ place' = Number - empty - 1
  /\ ppc' = "leave"
  /\ UNCHANGED <<sems, i, consumer>>

POpenFree ==
  /\ ppc = "leave"
  /\ free' = free + 1
  /\ ppc' = "signal"
  /\ UNCHANGED <<empty, full, removed, i, place, consumer>>

POpenFull ==
  /\ ppc = "signal"
  /\ full' = full + 1
  /\ ppc' = "loop"
  /\ UNCHANGED <<free, empty, removed, i, place, consumer>>

\* waitpid, which returns when the consumer has ended.
WaitConsumer ==
  /\ ppc = "loop" /\ i = Rounds
  /\ cpc = "end"
  /\ ppc' = "rmFree"
  /\ UNCHANGED <<sems, i, place, consumer>>

Remove(at, sem, next) ==
  /\ ppc = at
  /\ removed' = removed \cup {sem}
  /\ ppc' = next
  /\ UNCHANGED <<free, empty, full, i, place, consumer>>

RemoveFree == Remove("rmFree", "free", "rmEmpty")
RemoveEmpty == Remove("rmEmpty", "empty", "rmFull")
RemoveFull == Remove("rmFull", "full", "end")

-----------------------------------------------------------------------------
\* Deviations of the consumer: no waiting, free left closed.
CCloseFullNoWait ==
  /\ cpc = "loop" /\ end # Rounds
  /\ full' = full - 1
  /\ end' = end + 1
  /\ cpc' = "free"
  /\ UNCHANGED <<free, empty, removed, product, producer>>

CLeaveFreeClosed ==
  /\ cpc = "leave"
  /\ cpc' = "signal"
  /\ UNCHANGED <<sems, end, product, producer>>

(***************************************************************************)
(* The consumer: while (end++ != 10) { close full; close free; read full;  *)
(* open free; open empty }.                                                *)
(***************************************************************************)
CCloseFull ==
  /\ cpc = "loop" /\ end # Rounds
  /\ full > 0
  /\ full' = full - 1
  /\ end' = end + 1
  /\ cpc' = "free"
  /\ UNCHANGED <<free, empty, removed, product, producer>>

CCloseFree ==
  /\ cpc = "free"
  /\ free > 0
  /\ free' = free - 1
  /\ cpc' = "get"
  /\ UNCHANGED <<empty, full, removed, end, product, producer>>

CGetFull ==
  /\ cpc = "get"
  /\ product' = full
  /\ cpc' = "leave"
  /\ UNCHANGED <<sems, end, producer>>

COpenFree ==
  /\ cpc = "leave"
  /\ free' = free + 1
  /\ cpc' = "signal"
  /\ UNCHANGED <<empty, full, removed, end, product, producer>>

COpenEmpty ==
  /\ cpc = "signal"
  /\ empty' = empty + 1
  /\ cpc' = "loop"
  /\ UNCHANGED <<free, full, removed, end, product, producer>>

CExit ==
  /\ cpc = "loop" /\ end = Rounds
  /\ cpc' = "end"
  /\ UNCHANGED <<sems, end, product, producer>>

-----------------------------------------------------------------------------
Producer ==
  \/ Fork
  \/ PCloseEmpty \/ PCloseFree \/ PGetEmpty \/ POpenFree \/ POpenFull
  \/ WaitConsumer \/ RemoveFree \/ RemoveEmpty \/ RemoveFull

Consumer ==
  CCloseFull \/ CCloseFree \/ CGetFull \/ COpenFree \/ COpenEmpty \/ CExit

Next == Producer \/ Consumer

Spec == Init /\ [][Next]_vars

\* The kernel runs each of the two processes whenever it is not blocked.
FairSpec == Spec /\ WF_vars(Producer) /\ WF_vars(Consumer)

-----------------------------------------------------------------------------
(***************************************************************************)
(* The loaves on the shelf: a product is put there, or taken, when its     *)
(* number is read inside the critical section.                             *)
(***************************************************************************)
Made == IF ppc \in {"free", "get"} THEN i - 1 ELSE i
Eaten == IF cpc \in {"free", "get"} THEN end - 1 ELSE end
loaves == Made - Eaten

B(b) == IF b THEN 1 ELSE 0
InProducer == ppc \in {"get", "leave"}
InConsumer == cpc \in {"get", "leave"}
HeldByProducer == ppc \in {"free", "get", "leave", "signal"}
HeldByConsumer == cpc \in {"free", "get", "leave", "signal"}

(***************************************************************************)
(* Balance: semaphore_free counts who may work, and every place is empty,  *)
(* full or in the hands of one process, whatever the order of the system   *)
(* calls.  Inductive with the types.                                       *)
(***************************************************************************)
Balance ==
  /\ free + B(InProducer) + B(InConsumer) = 1
  /\ empty + full + B(HeldByProducer) + B(HeldByConsumer) = Number
  /\ full + end + B(HeldByProducer) = i
  /\ ppc = "fork" => i = 0
  /\ cpc = "none" => end = 0
  /\ HeldByProducer => i >= 1
  /\ HeldByConsumer => end >= 1

\* Who is gone when the semaphores go.  Inductive with Balance.
Shutdown ==
  /\ ppc \in {"fork", "failed"} <=> cpc = "none"
  /\ cpc = "end" => end = Rounds
  /\ ppc \in {"rmFree", "rmEmpty", "rmFull", "end"} => cpc = "end" /\ i = Rounds
  /\ removed # {} => ppc \in {"rmEmpty", "rmFull", "end"}

(***************************************************************************)
(* PrintedRight: the place the producer prints is one of the shelf's and,  *)
(* as places fill from 0 on, not one of those taken before, however late   *)
(* the consumer gives a place back; the number the consumer prints is that *)
(* of a product the producer has finished.                                 *)
(***************************************************************************)
PrintedRight ==
  /\ ppc = "leave" => place \in loaves - 1..Number - 1
  /\ cpc = "leave" => product \in 0..Made - end

(***************************************************************************)
(* RemovedLast: the semaphores exist as long as anybody uses them, and     *)
(* then everything produced has been consumed.                             *)
(***************************************************************************)
RemovedLast ==
  removed # {} => cpc = "end" /\ Made = Rounds /\ loaves = 0

\* Ends: the program ends, on both sides and with its semaphores removed.
Ends == <>(ppc = "failed" \/ (ppc = "end" /\ cpc = "end" /\ Cardinality(removed) = 3))

(***************************************************************************)
(* Implements: the semaphores turn the two loops into a shelf for Number   *)
(* loaves.                                                                 *)
(***************************************************************************)
S == INSTANCE Shelf WITH Room <- Number, loaves <- loaves
Implements == S!Spec
=============================================================================
