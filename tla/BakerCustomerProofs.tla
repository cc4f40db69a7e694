------------------------ MODULE BakerCustomerProofs ------------------------
(***************************************************************************)
(* BakerCustomer for every number of places and, where it says so, for     *)
(* every number of kills: mutual exclusion, the count of the loaves and    *)
(* the shelf the two loops implement.                                      *)
(***************************************************************************)
EXTENDS BakerCustomer, TLAPS

USE BakerCustomerAssumption

(***************************************************************************)
(* Capacity: the part of PermitsOnlyLost that is inductive by itself.  A   *)
(* start that creates "korte" adds N to the permits and to room alike.     *)
(***************************************************************************)
Capacity ==
  /\ szabad + B(BakerInside) + B(CustomerInside) <= 1
  /\ ures + tele + B(BakerHolds) + B(CustomerHolds) <= room

\* Who runs while the parent forks or is dead.
Phases ==
  /\ ppc \in {"fork", "vasarlo", "killed"} => bpc = "none"
  /\ ppc = "killed" => cpc = "none"
  /\ ppc = "killed" => kills > 0

Inv == TypeOK /\ Balance /\ Capacity /\ Phases

LEMMA InvInit == Init => Inv
BY DEF Init, Inv, TypeOK, PC, ParentPC, Balance, Capacity, Phases, B, BakerInside,
       CustomerInside, BakerHolds, CustomerHolds

LEMMA InvStep ==
  ASSUME Inv, [Next]_vars
  PROVE  Inv'
<1> USE DEF Inv, TypeOK, PC, ParentPC, B, BakerInside, CustomerInside,
            BakerHolds, CustomerHolds, page, sems, baker, customer, starts, Names
<1>1. CASE ForkCustomer
  <2>1. TypeOK'
    BY <1>1 DEF ForkCustomer
  <2>2. Balance'
    BY <1>1 DEF ForkCustomer, Balance, Phases
  <2>3. Capacity'
    BY <1>1 DEF ForkCustomer, Capacity
  <2>4. Phases'
    BY <1>1 DEF ForkCustomer, Phases
  <2> QED BY <2>1, <2>2, <2>3, <2>4 DEF Inv
<1>2. CASE ForkCustomerFails
  <2>1. TypeOK'
    BY <1>2 DEF ForkCustomerFails
  <2>2. Balance'
    BY <1>2 DEF ForkCustomerFails, Balance, Phases
  <2>3. Capacity'
    BY <1>2 DEF ForkCustomerFails, Capacity
  <2>4. Phases'
    BY <1>2 DEF ForkCustomerFails, Phases
  <2> QED BY <2>1, <2>2, <2>3, <2>4 DEF Inv
<1>3. CASE ForkBaker
  <2>1. TypeOK'
    BY <1>3 DEF ForkBaker
  <2>2. Balance'
    BY <1>3 DEF ForkBaker, Balance, Phases
  <2>3. Capacity'
    BY <1>3 DEF ForkBaker, Capacity
  <2>4. Phases'
    BY <1>3 DEF ForkBaker, Phases
  <2> QED BY <2>1, <2>2, <2>3, <2>4 DEF Inv
<1>4. CASE ForkBakerFails
  <2>1. TypeOK'
    BY <1>4 DEF ForkBakerFails
  <2>2. Balance'
    BY <1>4 DEF ForkBakerFails, Balance, Phases
  <2>3. Capacity'
    BY <1>4 DEF ForkBakerFails, Capacity
  <2>4. Phases'
    BY <1>4 DEF ForkBakerFails, Phases
  <2> QED BY <2>1, <2>2, <2>3, <2>4 DEF Inv
<1>5. CASE Close
  <2>1. TypeOK'
    BY <1>5 DEF Close
  <2>2. Balance'
    BY <1>5 DEF Close, Balance, Phases
  <2>3. Capacity'
    BY <1>5 DEF Close, Capacity
  <2>4. Phases'
    BY <1>5 DEF Close, Phases
  <2> QED BY <2>1, <2>2, <2>3, <2>4 DEF Inv
<1>6. CASE WaitChildren
  <2>1. TypeOK'
    BY <1>6 DEF WaitChildren
  <2>2. Balance'
    BY <1>6 DEF WaitChildren, Balance, Phases
  <2>3. Capacity'
    BY <1>6 DEF WaitChildren, Capacity
  <2>4. Phases'
    BY <1>6 DEF WaitChildren, Phases
  <2> QED BY <2>1, <2>2, <2>3, <2>4 DEF Inv
<1>7. CASE RemovePage
  <2>1. TypeOK'
    BY <1>7 DEF RemovePage
  <2>2. Balance'
    BY <1>7 DEF RemovePage, Balance, Phases
  <2>3. Capacity'
    BY <1>7 DEF RemovePage, Capacity
  <2>4. Phases'
    BY <1>7 DEF RemovePage, Phases
  <2> QED BY <2>1, <2>2, <2>3, <2>4 DEF Inv
<1>8. CASE RemoveSzabad
  <2>1. TypeOK'
    BY <1>8 DEF RemoveSzabad, Removed
  <2>2. Balance'
    BY <1>8 DEF RemoveSzabad, Removed, Balance, Phases
  <2>3. Capacity'
    BY <1>8 DEF RemoveSzabad, Removed, Capacity
  <2>4. Phases'
    BY <1>8 DEF RemoveSzabad, Removed, Phases
  <2> QED BY <2>1, <2>2, <2>3, <2>4 DEF Inv
<1>9. CASE RemoveUres
  <2>1. TypeOK'
    BY <1>9 DEF RemoveUres, Removed
  <2>2. Balance'
    BY <1>9 DEF RemoveUres, Removed, Balance, Phases
  <2>3. Capacity'
    BY <1>9 DEF RemoveUres, Removed, Capacity
  <2>4. Phases'
    BY <1>9 DEF RemoveUres, Removed, Phases
  <2> QED BY <2>1, <2>2, <2>3, <2>4 DEF Inv
<1>10. CASE RemoveTele
  <2>1. TypeOK'
    BY <1>10 DEF RemoveTele, Removed
  <2>2. Balance'
    BY <1>10 DEF RemoveTele, Removed, Balance, Phases
  <2>3. Capacity'
    BY <1>10 DEF RemoveTele, Removed, Capacity
  <2>4. Phases'
    BY <1>10 DEF RemoveTele, Removed, Phases
  <2> QED BY <2>1, <2>2, <2>3, <2>4 DEF Inv
<1>11. CASE BakerLoop
  <2>1. TypeOK'
    BY <1>11 DEF BakerLoop
  <2>2. Balance'
    BY <1>11 DEF BakerLoop, Balance, Phases
  <2>3. Capacity'
    BY <1>11 DEF BakerLoop, Capacity
  <2>4. Phases'
    BY <1>11 DEF BakerLoop, Phases
  <2> QED BY <2>1, <2>2, <2>3, <2>4 DEF Inv
<1>12. CASE BakerWaitUres
  <2>1. TypeOK'
    BY <1>12 DEF BakerWaitUres
  <2>2. Balance'
    BY <1>12 DEF BakerWaitUres, Balance, Phases
  <2>3. Capacity'
    BY <1>12 DEF BakerWaitUres, Capacity
  <2>4. Phases'
    BY <1>12 DEF BakerWaitUres, Phases
  <2> QED BY <2>1, <2>2, <2>3, <2>4 DEF Inv
<1>13. CASE BakerWaitSzabad
  <2>1. TypeOK'
    BY <1>13 DEF BakerWaitSzabad
  <2>2. Balance'
    BY <1>13 DEF BakerWaitSzabad, Balance, Phases
  <2>3. Capacity'
    BY <1>13 DEF BakerWaitSzabad, Capacity
  <2>4. Phases'
    BY <1>13 DEF BakerWaitSzabad, Phases
  <2> QED BY <2>1, <2>2, <2>3, <2>4 DEF Inv
<1>14. CASE BakerLoad
  <2>1. TypeOK'
    BY <1>14 DEF BakerLoad
  <2>2. Balance'
    BY <1>14 DEF BakerLoad, Balance, Phases
  <2>3. Capacity'
    BY <1>14 DEF BakerLoad, Capacity
  <2>4. Phases'
    BY <1>14 DEF BakerLoad, Phases
  <2> QED BY <2>1, <2>2, <2>3, <2>4 DEF Inv
<1>15. CASE BakerStore
  <2>1. TypeOK'
    BY <1>15 DEF BakerStore
  <2>2. Balance'
    BY <1>15 DEF BakerStore, Balance, Phases
  <2>3. Capacity'
    BY <1>15 DEF BakerStore, Capacity
  <2>4. Phases'
    BY <1>15 DEF BakerStore, Phases
  <2> QED BY <2>1, <2>2, <2>3, <2>4 DEF Inv
<1>16. CASE BakerPostSzabad
  <2>1. TypeOK'
    BY <1>16 DEF BakerPostSzabad
  <2>2. Balance'
    BY <1>16 DEF BakerPostSzabad, Balance, Phases
  <2>3. Capacity'
    BY <1>16 DEF BakerPostSzabad, Capacity
  <2>4. Phases'
    BY <1>16 DEF BakerPostSzabad, Phases
  <2> QED BY <2>1, <2>2, <2>3, <2>4 DEF Inv
<1>17. CASE BakerPostTele
  <2>1. TypeOK'
    BY <1>17 DEF BakerPostTele
  <2>2. Balance'
    BY <1>17 DEF BakerPostTele, Balance, Phases
  <2>3. Capacity'
    BY <1>17 DEF BakerPostTele, Capacity
  <2>4. Phases'
    BY <1>17 DEF BakerPostTele, Phases
  <2> QED BY <2>1, <2>2, <2>3, <2>4 DEF Inv
<1>18. CASE CustomerLoop
  <2>1. TypeOK'
    BY <1>18 DEF CustomerLoop
  <2>2. Balance'
    BY <1>18 DEF CustomerLoop, Balance, Phases
  <2>3. Capacity'
    BY <1>18 DEF CustomerLoop, Capacity
  <2>4. Phases'
    BY <1>18 DEF CustomerLoop, Phases
  <2> QED BY <2>1, <2>2, <2>3, <2>4 DEF Inv
<1>19. CASE CustomerWaitTele
  <2>1. TypeOK'
    BY <1>19 DEF CustomerWaitTele
  <2>2. Balance'
    BY <1>19 DEF CustomerWaitTele, Balance, Phases
  <2>3. Capacity'
    BY <1>19 DEF CustomerWaitTele, Capacity
  <2>4. Phases'
    BY <1>19 DEF CustomerWaitTele, Phases
  <2> QED BY <2>1, <2>2, <2>3, <2>4 DEF Inv
<1>20. CASE CustomerWaitSzabad
  <2>1. TypeOK'
    BY <1>20 DEF CustomerWaitSzabad
  <2>2. Balance'
    BY <1>20 DEF CustomerWaitSzabad, Balance, Phases
  <2>3. Capacity'
    BY <1>20 DEF CustomerWaitSzabad, Capacity
  <2>4. Phases'
    BY <1>20 DEF CustomerWaitSzabad, Phases
  <2> QED BY <2>1, <2>2, <2>3, <2>4 DEF Inv
<1>21. CASE CustomerLoad
  <2>1. TypeOK'
    BY <1>21 DEF CustomerLoad
  <2>2. Balance'
    BY <1>21 DEF CustomerLoad, Balance, Phases
  <2>3. Capacity'
    BY <1>21 DEF CustomerLoad, Capacity
  <2>4. Phases'
    BY <1>21 DEF CustomerLoad, Phases
  <2> QED BY <2>1, <2>2, <2>3, <2>4 DEF Inv
<1>22. CASE CustomerStore
  <2>1. TypeOK'
    BY <1>22 DEF CustomerStore
  <2>2. Balance'
    BY <1>22 DEF CustomerStore, Balance, Phases
  <2>3. Capacity'
    BY <1>22 DEF CustomerStore, Capacity
  <2>4. Phases'
    BY <1>22 DEF CustomerStore, Phases
  <2> QED BY <2>1, <2>2, <2>3, <2>4 DEF Inv
<1>23. CASE CustomerPostSzabad
  <2>1. TypeOK'
    BY <1>23 DEF CustomerPostSzabad
  <2>2. Balance'
    BY <1>23 DEF CustomerPostSzabad, Balance, Phases
  <2>3. Capacity'
    BY <1>23 DEF CustomerPostSzabad, Capacity
  <2>4. Phases'
    BY <1>23 DEF CustomerPostSzabad, Phases
  <2> QED BY <2>1, <2>2, <2>3, <2>4 DEF Inv
<1>24. CASE CustomerPostUres
  <2>1. TypeOK'
    BY <1>24 DEF CustomerPostUres
  <2>2. Balance'
    BY <1>24 DEF CustomerPostUres, Balance, Phases
  <2>3. Capacity'
    BY <1>24 DEF CustomerPostUres, Capacity
  <2>4. Phases'
    BY <1>24 DEF CustomerPostUres, Phases
  <2> QED BY <2>1, <2>2, <2>3, <2>4 DEF Inv
<1>25. CASE Kill
  <2>1. TypeOK'
    BY <1>25 DEF Kill
  <2>2. Balance'
    BY <1>25 DEF Kill, Balance, Phases
  <2>3. Capacity'
    BY <1>25 DEF Kill, Capacity
  <2>4. Phases'
    BY <1>25 DEF Kill, Phases
  <2> QED BY <2>1, <2>2, <2>3, <2>4 DEF Inv
<1>26. CASE Restart
  <2>1. TypeOK'
    BY <1>26 DEF Restart, Opened
  <2>2. Balance'
    BY <1>26 DEF Restart, Opened, Balance, Phases
  <2>3. Capacity'
    <3>1. /\ szabad' = szabad \/ szabad' = 1
          /\ tele' = tele \/ tele' = 0
          /\ (ures' = ures /\ room' = room) \/ (ures' = N /\ room' = room + N)
          /\ bpc' = "none" /\ cpc' = "none"
      BY <1>26 DEF Restart, Opened, Phases
    <3>2. szabad <= 1 /\ ures + tele <= room
      BY DEF Capacity
    <3> QED BY <3>1, <3>2 DEF Capacity
  <2>4. Phases'
    BY <1>26 DEF Restart, Opened, Phases
  <2> QED BY <2>1, <2>2, <2>3, <2>4 DEF Inv
<1>27. CASE UNCHANGED vars
  BY <1>27 DEF vars, Balance, Capacity, Phases
<1> QED
  BY <1>1, <1>2, <1>3, <1>4, <1>5, <1>6, <1>7, <1>8, <1>9, <1>10, <1>11,
     <1>12, <1>13, <1>14, <1>15, <1>16, <1>17, <1>18, <1>19, <1>20,
     <1>21, <1>22, <1>23, <1>24, <1>25, <1>26, <1>27
  DEF Next, Parent, Baker, Customer

(***************************************************************************)
(* In every reachable state the variables have their types and a first run *)
(* keeps its balance; after any number of kills, those between two         *)
(* removals included, one process at a time is inside and the permits are  *)
(* no more than the places "korte" was created for.                        *)
(***************************************************************************)
THEOREM Invariant == Spec => [](TypeOK /\ Balance /\ Capacity /\ Phases)
<1>1. Inv /\ [Next]_vars => Inv'
  BY InvStep
<1> QED BY InvInit, <1>1, PTL DEF Spec, Inv

(***************************************************************************)
(* Every variable of the shop keeps its type: the semaphores are never     *)
(* below zero, for every N and every number of kills.                      *)
(***************************************************************************)
THEOREM TypeCorrect == Spec => []TypeOK
<1>1. TypeOK /\ Balance /\ Capacity /\ Phases => TypeOK
  OBVIOUS
<1> QED BY <1>1, Invariant, PTL

-----------------------------------------------------------------------------
(***************************************************************************)
(* If the program is never killed, s[0] is the number of loaves on a shelf *)
(* with N places.                                                          *)
(***************************************************************************)
LEMMA InvGivesLoaves ==
  ASSUME MaxKills = 0, Inv
  PROVE  LoavesOnShelf
<1>1. kills = 0
  BY DEF Inv, TypeOK
<1>2. /\ ures + tele + B(BakerHolds) + B(CustomerHolds) = N
      /\ s0 = tele + B(bpc \in {"leave", "signal"})
                   + B(cpc \in {"free", "load", "store"})
  BY <1>1 DEF Inv, Balance
<1> QED BY <1>2 DEF Inv, TypeOK, B, BakerHolds, CustomerHolds, LoavesOnShelf

THEOREM LoavesCorrect ==
  ASSUME MaxKills = 0
  PROVE  Spec => []LoavesOnShelf
<1>1. TypeOK /\ Balance /\ Capacity /\ Phases => LoavesOnShelf
  BY InvGivesLoaves DEF Inv
<1> QED BY <1>1, Invariant, PTL

(***************************************************************************)
(* Stock: s[0] and the permits that say bread differ by the loaves that    *)
(* were lost in earlier runs: as many as tele promised when the run began, *)
(* which is at most the room the semaphores were created for.              *)
(***************************************************************************)
Promised ==
  tele + B(bpc \in {"leave", "signal"}) + B(cpc \in {"free", "load", "store"})

Stock ==
  /\ ppc # "killed" => Promised - room <= s0 /\ s0 <= Promised
  /\ bpc = "store" => breg = s0
  /\ cpc = "store" => creg = s0
  /\ s0 \in -room..room

LEMMA StockStep ==
  ASSUME Inv, Stock, [Next]_vars
  PROVE  Stock'
<1> USE DEF Inv, TypeOK, PC, ParentPC, Capacity, Phases, Stock, Promised, B,
            BakerInside, CustomerInside, BakerHolds, CustomerHolds,
            page, sems, baker, customer, starts, Names
<1>1. CASE ForkCustomer
  BY <1>1 DEF ForkCustomer
<1>2. CASE ForkCustomerFails
  BY <1>2 DEF ForkCustomerFails
<1>3. CASE ForkBaker
  BY <1>3 DEF ForkBaker
<1>4. CASE ForkBakerFails
  BY <1>4 DEF ForkBakerFails
<1>5. CASE Close
  BY <1>5 DEF Close
<1>6. CASE WaitChildren
  BY <1>6 DEF WaitChildren
<1>7. CASE RemovePage
  BY <1>7 DEF RemovePage
<1>8. CASE RemoveSzabad
  BY <1>8 DEF RemoveSzabad, Removed
<1>9. CASE RemoveUres
  BY <1>9 DEF RemoveUres, Removed
<1>10. CASE RemoveTele
  BY <1>10 DEF RemoveTele, Removed
<1>11. CASE BakerLoop
  BY <1>11 DEF BakerLoop
<1>12. CASE BakerWaitUres
  BY <1>12 DEF BakerWaitUres
<1>13. CASE BakerWaitSzabad
  BY <1>13 DEF BakerWaitSzabad
<1>14. CASE BakerLoad
  BY <1>14 DEF BakerLoad
<1>15. CASE BakerStore
  BY <1>15 DEF BakerStore
<1>16. CASE BakerPostSzabad
  BY <1>16 DEF BakerPostSzabad
<1>17. CASE BakerPostTele
  BY <1>17 DEF BakerPostTele
<1>18. CASE CustomerLoop
  BY <1>18 DEF CustomerLoop
<1>19. CASE CustomerWaitTele
  BY <1>19 DEF CustomerWaitTele
<1>20. CASE CustomerWaitSzabad
  BY <1>20 DEF CustomerWaitSzabad
<1>21. CASE CustomerLoad
  BY <1>21 DEF CustomerLoad
<1>22. CASE CustomerStore
  BY <1>22 DEF CustomerStore
<1>23. CASE CustomerPostSzabad
  BY <1>23 DEF CustomerPostSzabad
<1>24. CASE CustomerPostUres
  BY <1>24 DEF CustomerPostUres
<1>25. CASE Kill
  BY <1>25 DEF Kill
<1>26. CASE Restart
  BY <1>26 DEF Restart, Opened
<1>27. CASE UNCHANGED vars
  BY <1>27 DEF vars
<1> QED
  BY <1>1, <1>2, <1>3, <1>4, <1>5, <1>6, <1>7, <1>8, <1>9, <1>10, <1>11,
     <1>12, <1>13, <1>14, <1>15, <1>16, <1>17, <1>18, <1>19, <1>20,
     <1>21, <1>22, <1>23, <1>24, <1>25, <1>26, <1>27
  DEF Next, Parent, Baker, Customer

(***************************************************************************)
(* However often and wherever the program is killed and started again, one *)
(* process is inside, and the permits and the error of s[0] are bounded by *)
(* N places for the first start and N more for every kill that fell        *)
(* between the removals of "korte" and "barack".                           *)
(***************************************************************************)
THEOREM PermitsCorrect == Spec => []PermitsOnlyLost
<1>1. Init => Stock
  BY DEF Init, Stock, Promised, B
<1>2. Inv /\ Stock /\ [Next]_vars => Stock'
  BY StockStep
<1>3. Inv /\ Stock => PermitsOnlyLost
  BY DEF Inv, Capacity, Stock, PermitsOnlyLost
<1> QED BY <1>1, <1>2, <1>3, Invariant, PTL DEF Spec, Inv

(***************************************************************************)
(* While the shop is open its two children never block each other.         *)
(***************************************************************************)
THEOREM NoDeadlock == Spec => []NoDeadlockWhileOpen
<1>1. TypeOK /\ Balance /\ Capacity /\ Phases => NoDeadlockWhileOpen
  <2> SUFFICES ASSUME TypeOK, Balance, kills = 0, ppc \in {"read", "pek"},
                      BakerStopped, CustomerStopped
               PROVE  FALSE
    BY DEF NoDeadlockWhileOpen
  <2>1. /\ szabad + B(BakerInside) + B(CustomerInside) = 1
        /\ ures + tele + B(BakerHolds) + B(CustomerHolds) = N
        /\ bpc # "done" /\ cpc # "done"
    BY DEF Balance
  <2>2. szabad = 1
    BY <2>1 DEF B, BakerStopped, CustomerStopped, BakerInside, CustomerInside, TypeOK
  <2>3. bpc = "wait" /\ ures = 0 /\ cpc = "wait" /\ tele = 0
    BY <2>1, <2>2 DEF BakerStopped, CustomerStopped
  <2> QED BY <2>1, <2>3 DEF B, BakerHolds, CustomerHolds
<1> QED BY <1>1, Invariant, PTL

-----------------------------------------------------------------------------
(***************************************************************************)
(* Until a kill the two loops implement the shelf: the two stores to s[0] *)
(* are Put and Take, all other steps leave it alone.                       *)
(***************************************************************************)
LEMMA ShelfStep ==
  ASSUME Inv, [Next]_vars, kills' = 0
  PROVE  [S!Next]_s0
<1> USE DEF Inv, TypeOK, PC, ParentPC, Balance, Phases, B, BakerInside, CustomerInside,
            BakerHolds, CustomerHolds, page, sems, baker, customer, starts, Names
<1>1. CASE ForkCustomer
  BY <1>1 DEF ForkCustomer
<1>2. CASE ForkCustomerFails
  BY <1>2 DEF ForkCustomerFails
<1>3. CASE ForkBaker
  BY <1>3 DEF ForkBaker
<1>4. CASE ForkBakerFails
  BY <1>4 DEF ForkBakerFails
<1>5. CASE Close
  BY <1>5 DEF Close
<1>6. CASE WaitChildren
  BY <1>6 DEF WaitChildren
<1>7. CASE RemovePage
  BY <1>7 DEF RemovePage
<1>8. CASE RemoveSzabad
  BY <1>8 DEF RemoveSzabad, Removed
<1>9. CASE RemoveUres
  BY <1>9 DEF RemoveUres, Removed
<1>10. CASE RemoveTele
  BY <1>10 DEF RemoveTele, Removed
<1>11. CASE BakerLoop
  BY <1>11 DEF BakerLoop
<1>12. CASE BakerWaitUres
  BY <1>12 DEF BakerWaitUres
<1>13. CASE BakerWaitSzabad
  BY <1>13 DEF BakerWaitSzabad
<1>14. CASE BakerLoad
  BY <1>14 DEF BakerLoad
<1>15. CASE BakerStore
  BY <1>15 DEF BakerStore, S!Next, S!Put
<1>16. CASE BakerPostSzabad
  BY <1>16 DEF BakerPostSzabad
<1>17. CASE BakerPostTele
  BY <1>17 DEF BakerPostTele
<1>18. CASE CustomerLoop
  BY <1>18 DEF CustomerLoop
<1>19. CASE CustomerWaitTele
  BY <1>19 DEF CustomerWaitTele
<1>20. CASE CustomerWaitSzabad
  BY <1>20 DEF CustomerWaitSzabad
<1>21. CASE CustomerLoad
  BY <1>21 DEF CustomerLoad
<1>22. CASE CustomerStore
  BY <1>22 DEF CustomerStore, S!Next, S!Take
<1>23. CASE CustomerPostSzabad
  BY <1>23 DEF CustomerPostSzabad
<1>24. CASE CustomerPostUres
  BY <1>24 DEF CustomerPostUres
<1>25. CASE Kill
  BY <1>25 DEF Kill
<1>26. CASE Restart
  BY <1>26 DEF Restart, Opened
<1>27. CASE UNCHANGED vars
  BY <1>27 DEF vars
<1> QED
  BY <1>1, <1>2, <1>3, <1>4, <1>5, <1>6, <1>7, <1>8, <1>9, <1>10, <1>11,
     <1>12, <1>13, <1>14, <1>15, <1>16, <1>17, <1>18, <1>19, <1>20,
     <1>21, <1>22, <1>23, <1>24, <1>25, <1>26, <1>27
  DEF Next, Parent, Baker, Customer

THEOREM ImplementsShelf == Spec => Implements
<1>1. Init => S!Init
  BY DEF Init, S!Init
<1>2. TypeOK /\ Balance /\ Capacity /\ Phases /\ [Next]_vars
        => [kills' = 0 => S!Next]_s0
  BY ShelfStep DEF Inv
<1> QED BY <1>1, <1>2, Invariant, PTL DEF Spec, Implements
=============================================================================
