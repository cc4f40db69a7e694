--------------------------- MODULE BakerCustomer ---------------------------
(***************************************************************************)
(* gy6/pek_vasarlo.c: a baker and a customer, children of one parent, with *)
(* three named POSIX semaphores and a shared page: s[0] counts the loaves  *)
(* on the shelf, s[1] says that the shop is open.  The parent closes the   *)
(* shop on a key press, waits for both and removes everything.             *)
(*                                                                         *)
(* s[0] += 1 is a load and a store.  The names of the semaphores outlive   *)
(* the program: if it is killed, the next start finds the old values of    *)
(* those it had not removed yet, because sem_open creates a semaphore only *)
(* if there is none.  Neither fork is checked for -1.                      *)
(***************************************************************************)
EXTENDS Integers

CONSTANTS
  N,        \* places on the shelf, 10 in the code
  MaxKills  \* bound: how often the program is killed and started again

ASSUME BakerCustomerAssumption == N \in Nat \ {0} /\ MaxKills \in Nat

VARIABLES
  s0, s1,              \* the shared page
  szabad, ures, tele,  \* the semaphores: free, empty, full
  ppc,                 \* the parent
  bpc, breg,           \* the baker, and the s[0] it has loaded
  cpc, creg,           \* the customer, and the s[0] it has loaded
  names,               \* the semaphores that have not been removed
  kills,               \* how often the program has been killed
  room                 \* the places the semaphores have been created for

page == <<s0, s1>>
sems == <<szabad, ures, tele>>
baker == <<bpc, breg>>
customer == <<cpc, creg>>
starts == <<names, kills, room>>
vars == <<page, sems, ppc, baker, customer, starts>>

Names == {"alma", "korte", "barack"}  \* of szabad, ures and tele
PC == {"none", "loop", "wait", "free", "load", "store", "leave", "signal", "done"}
ParentPC == {"fork", "read", "wait", "page", "alma", "korte", "barack", "end",
             "vasarlo", "pek", "killed"}

TypeOK ==
  /\ s0 \in Int /\ s1 \in 0..1
  /\ szabad \in Nat /\ ures \in Nat /\ tele \in Nat
  /\ ppc \in ParentPC
  /\ bpc \in PC /\ breg \in Int
  /\ cpc \in PC /\ creg \in Int
  /\ names \subseteq Names
  /\ kills \in 0..MaxKills /\ room \in Nat

\* A first start: the semaphores do not exist, sem_open creates them.
Init ==
  /\ s0 = 0 /\ s1 = 1
  /\ szabad = 1 /\ ures = N /\ tele = 0
  /\ ppc = "fork"
  /\ bpc = "none" /\ breg = 0
  /\ cpc = "none" /\ creg = 0
  /\ names = Names /\ kills = 0 /\ room = N

-----------------------------------------------------------------------------
(***************************************************************************)
(* The parent.  `if (vasarlo_id > 0)` sends a parent whose first fork      *)
(* failed into the customer's branch: it buys, and there is nobody else.   *)
(* A second fork that fails makes the parent the baker: the key is never   *)
(* read.                                                                   *)
(***************************************************************************)
ForkCustomer ==
  /\ ppc = "fork" /\ cpc = "none"
  /\ cpc' = "loop"
  /\ UNCHANGED <<page, sems, ppc, baker, creg, starts>>

ForkBaker ==
  /\ ppc = "fork" /\ cpc # "none"
  /\ bpc' = "loop"
  /\ ppc' = "read"
  /\ UNCHANGED <<page, sems, breg, customer, starts>>

ForkCustomerFails ==
  /\ ppc = "fork" /\ cpc = "none"
  /\ cpc' = "loop"
  /\ ppc' = "vasarlo"
  /\ UNCHANGED <<page, sems, baker, creg, starts>>

ForkBakerFails ==
  /\ ppc = "fork" /\ cpc # "none"
  /\ bpc' = "loop"
  /\ ppc' = "pek"
  /\ UNCHANGED <<page, sems, breg, customer, starts>>

\* scanf returns; s[1] = 0.
Close ==
  /\ ppc = "read"
  /\ s1' = 0
  /\ ppc' = "wait"
  /\ UNCHANGED <<s0, sems, baker, customer, starts>>

\* Both wait(NULL).
WaitChildren ==
  /\ ppc = "wait" /\ bpc = "done" /\ cpc = "done"
  /\ ppc' = "page"
  /\ UNCHANGED <<page, sems, baker, customer, starts>>

\* shmdt and shmctl: nobody looks at the page again; a start makes it anew.
RemovePage ==
  /\ ppc = "page"
  /\ ppc' = "alma"
  /\ UNCHANGED <<page, sems, baker, customer, starts>>

\* szemafor_torles, three times; a kill may come between any two of them.
Removed(name) ==
  /\ ppc = name
  /\ names' = names \ {name}
  /\ UNCHANGED <<page, sems, baker, customer, kills, room>>

RemoveSzabad == Removed("alma") /\ ppc' = "korte"
RemoveUres == Removed("korte") /\ ppc' = "barack"
RemoveTele == Removed("barack") /\ ppc' = "end"

-----------------------------------------------------------------------------
\* Deviations of the baker: semaphores passed without waiting, not posted.
BakerNoWaitUres ==
  /\ bpc = "wait"
  /\ ures' = ures - 1
  /\ bpc' = "free"
  /\ UNCHANGED <<page, szabad, tele, ppc, breg, customer, starts>>

BakerNoWaitSzabad ==
  /\ bpc = "free"
  /\ bpc' = "load"
  /\ UNCHANGED <<page, sems, ppc, breg, customer, starts>>

BakerNoPostTele ==
  /\ bpc = "signal"
  /\ bpc' = "loop"
  /\ UNCHANGED <<page, sems, ppc, breg, customer, starts>>

(***************************************************************************)
(* pek(): while (s[1]) { wait ures; wait szabad; s[0] += 1; post szabad;   *)
(* post tele }.                                                            *)
(***************************************************************************)
BakerLoop ==
  /\ bpc = "loop"
  /\ bpc' = IF s1 # 0 THEN "wait" ELSE "done"
  /\ UNCHANGED <<page, sems, ppc, breg, customer, starts>>

BakerWaitUres ==
  /\ bpc = "wait"
  /\ ures > 0 /\ ures' = ures - 1
  /\ bpc' = "free"
  /\ UNCHANGED <<page, szabad, tele, ppc, breg, customer, starts>>

BakerWaitSzabad ==
  /\ bpc = "free"
  /\ szabad > 0 /\ szabad' = szabad - 1
  /\ bpc' = "load"
  /\ UNCHANGED <<page, ures, tele, ppc, breg, customer, starts>>

BakerLoad ==
  /\ bpc = "load"
  /\ breg' = s0
  /\ bpc' = "store"
  /\ UNCHANGED <<page, sems, ppc, customer, starts>>

BakerStore ==
  /\ bpc = "store"
  /\ s0' = breg + 1
  /\ bpc' = "leave"
  /\ UNCHANGED <<s1, sems, ppc, breg, customer, starts>>

BakerPostSzabad ==
  /\ bpc = "leave"
  /\ szabad' = szabad + 1
  /\ bpc' = "signal"
  /\ UNCHANGED <<page, ures, tele, ppc, breg, customer, starts>>

BakerPostTele ==
  /\ bpc = "signal"
  /\ tele' = tele + 1
  /\ bpc' = "loop"
  /\ UNCHANGED <<page, szabad, ures, ppc, breg, customer, starts>>

-----------------------------------------------------------------------------
\* Deviations of the customer: no waiting for bread, szabad not posted.
CustomerNoWaitTele ==
  /\ cpc = "wait"
  /\ cpc' = "free"
  /\ UNCHANGED <<page, sems, ppc, baker, creg, starts>>

CustomerNoPostSzabad ==
  /\ cpc = "leave"
  /\ cpc' = "signal"
  /\ UNCHANGED <<page, sems, ppc, baker, creg, starts>>

(***************************************************************************)
(* vasarlo(): while (s[1]) { wait tele; wait szabad; s[0] -= 1; post       *)
(* szabad; post ures }.                                                    *)
(***************************************************************************)
CustomerLoop ==
  /\ cpc = "loop"
  /\ cpc' = IF s1 # 0 THEN "wait" ELSE "done"
  /\ UNCHANGED <<page, sems, ppc, baker, creg, starts>>

CustomerWaitTele ==
  /\ cpc = "wait"
  /\ tele > 0 /\ tele' = tele - 1
  /\ cpc' = "free"
  /\ UNCHANGED <<page, szabad, ures, ppc, baker, creg, starts>>

CustomerWaitSzabad ==
  /\ cpc = "free"
  /\ szabad > 0 /\ szabad' = szabad - 1
  /\ cpc' = "load"
  /\ UNCHANGED <<page, ures, tele, ppc, baker, creg, starts>>

CustomerLoad ==
  /\ cpc = "load"
  /\ creg' = s0
  /\ cpc' = "store"
  /\ UNCHANGED <<page, sems, ppc, baker, starts>>

CustomerStore ==
  /\ cpc = "store"
  /\ s0' = creg - 1
  /\ cpc' = "leave"
  /\ UNCHANGED <<s1, sems, ppc, baker, creg, starts>>

CustomerPostSzabad ==
  /\ cpc = "leave"
  /\ szabad' = szabad + 1
  /\ cpc' = "signal"
  /\ UNCHANGED <<page, ures, tele, ppc, baker, creg, starts>>

CustomerPostUres ==
  /\ cpc = "signal"
  /\ ures' = ures + 1
  /\ cpc' = "loop"
  /\ UNCHANGED <<page, szabad, tele, ppc, baker, creg, starts>>

-----------------------------------------------------------------------------
\* Deviation: a start that posts szabad instead of creating it.
RestartPosts ==
  /\ ppc = "killed"
  /\ s0' = 0 /\ s1' = 1
  /\ szabad' = szabad + 1
  /\ ppc' = "fork"
  /\ UNCHANGED <<ures, tele, baker, customer, starts>>

(***************************************************************************)
(* A signal of the terminal kills all there are, at any point up to the    *)
(* last removal; the names that are left stay, with their values.          *)
(***************************************************************************)
Kill ==
  /\ kills < MaxKills
  /\ ppc \notin {"end", "killed"}
  /\ ppc' = "killed"
  /\ bpc' = "none" /\ cpc' = "none"
  /\ kills' = kills + 1
  /\ UNCHANGED <<page, sems, names, room, breg, creg>>

(***************************************************************************)
(* The next start resets the page (s[0] = 0, s[1] = 1); sem_open creates   *)
(* the semaphores that are gone and keeps the values of the others.  Its   *)
(* second argument N makes room for a shelf wherever "korte" is created.   *)
(***************************************************************************)
Opened(name, old, value) == IF name \in names THEN old ELSE value

Restart ==
  /\ ppc = "killed"
  /\ s0' = 0 /\ s1' = 1
  /\ szabad' = Opened("alma", szabad, 1)
  /\ ures' = Opened("korte", ures, N)
  /\ tele' = Opened("barack", tele, 0)
  /\ names' = Names
  /\ room' = Opened("korte", room, room + N)
  /\ ppc' = "fork"
  /\ UNCHANGED <<baker, customer, kills>>

Parent ==
  \/ ForkCustomer \/ ForkCustomerFails \/ ForkBaker \/ ForkBakerFails
  \/ WaitChildren \/ RemovePage
  \/ RemoveSzabad \/ RemoveUres \/ RemoveTele

Baker ==
  \/ BakerLoop \/ BakerWaitUres \/ BakerWaitSzabad
  \/ BakerLoad \/ BakerStore \/ BakerPostSzabad \/ BakerPostTele

Customer ==
  \/ CustomerLoop \/ CustomerWaitTele \/ CustomerWaitSzabad
  \/ CustomerLoad \/ CustomerStore \/ CustomerPostSzabad \/ CustomerPostUres

Next == Parent \/ Close \/ Baker \/ Customer \/ Kill \/ Restart

Spec == Init /\ [][Next]_vars

\* The processes run when they can; nobody has to press a key or Ctrl-C.
FairSpec == Spec /\ WF_vars(Parent) /\ WF_vars(Baker) /\ WF_vars(Customer)

-----------------------------------------------------------------------------
B(b) == IF b THEN 1 ELSE 0
BakerInside == bpc \in {"load", "store", "leave"}
CustomerInside == cpc \in {"load", "store", "leave"}
BakerHolds == bpc \in {"free", "load", "store", "leave", "signal"}
CustomerHolds == cpc \in {"free", "load", "store", "leave", "signal"}

(***************************************************************************)
(* Balance: as long as the program has not been killed, szabad admits one  *)
(* process, every place is counted once, and what a process has loaded of  *)
(* s[0] is still there when it stores: no update is lost.  Inductive.      *)
(***************************************************************************)
Balance ==
  kills = 0 =>
    /\ szabad + B(BakerInside) + B(CustomerInside) = 1
    /\ ures + tele + B(BakerHolds) + B(CustomerHolds) = N
    /\ s0 = tele + B(bpc \in {"leave", "signal"})
                 + B(cpc \in {"free", "load", "store"})
    /\ bpc = "store" => breg = s0
    /\ cpc = "store" => creg = s0
    /\ ppc \in {"fork", "read", "vasarlo", "pek"} =>
         s1 = 1 /\ bpc # "done" /\ cpc # "done"

(***************************************************************************)
(* LoavesOnShelf: "a polcon levo kenyerek szama": the number of loaves on  *)
(* the shelf is one that a shelf with N places can hold, however load and  *)
(* store of the two processes interleave.                                  *)
(***************************************************************************)
LoavesOnShelf == s0 \in 0..N

(***************************************************************************)
(* NoDeadlockWhileOpen: while the parent waits for its key, or bakes       *)
(* itself because its second fork failed, never both sides are blocked or  *)
(* gone (unless a kill has spoilt the semaphores).                         *)
(***************************************************************************)
BakerStopped ==
  \/ bpc = "wait" /\ ures = 0
  \/ bpc = "free" /\ szabad = 0
  \/ bpc = "done"

CustomerStopped ==
  \/ cpc = "wait" /\ tele = 0
  \/ cpc = "free" /\ szabad = 0
  \/ cpc = "done"

NoDeadlockWhileOpen ==
  kills = 0 /\ ppc \in {"read", "pek"} => ~(BakerStopped /\ CustomerStopped)

(***************************************************************************)
(* PermitsOnlyLost: wherever the program is killed and however often it is *)
(* started again, one process at a time is inside, there are never more    *)
(* places than the semaphores were created for, and s[0] is off by no more *)
(* than those.  Nearly every kill loses permits for ever; the one that     *)
(* strikes when "korte" is removed and "barack" is not multiplies them:    *)
(* ures is created anew for N places while tele still promises the old     *)
(* loaves, so that every such kill makes room for one shelf more.          *)
(***************************************************************************)
PermitsOnlyLost ==
  /\ szabad + B(BakerInside) + B(CustomerInside) <= 1
  /\ ures + tele + B(BakerHolds) + B(CustomerHolds) <= room
  /\ s0 \in -room..room

(***************************************************************************)
(* Served: until the shop closes or is killed, bread is baked and bought   *)
(* again and again, although nothing but the full shelf stops a faster     *)
(* baker, and although a second fork that failed leaves no parent.  Only   *)
(* a first fork that failed leaves a customer waiting for ever.            *)
(***************************************************************************)
Served ==
  \/ <>(s1 = 0 \/ kills > 0 \/ ppc = "vasarlo")
  \/ []<>(bpc = "store") /\ []<>(cpc = "store")

\* Implements: until a kill the shop is a shelf for N loaves (module Shelf).
S == INSTANCE Shelf WITH Room <- N, loaves <- s0
Implements == S!Init /\ [][kills' = 0 => S!Next]_s0

-----------------------------------------------------------------------------
(***************************************************************************)
(* ChildrenEnd: s[1] = 0 has the comment "gyerekek vege" (the children     *)
(* end): after it both children end.                                       *)
(***************************************************************************)
ChildrenEnd == s1 = 0 ~> bpc = "done" /\ cpc = "done"
=============================================================================
