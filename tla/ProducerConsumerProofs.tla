----------------------- MODULE ProducerConsumerProofs -----------------------
(***************************************************************************)
(* ProducerConsumer for every number of places and rounds: its semaphores  *)
(* stay balanced, the numbers it prints make sense, and it implements a    *)
(* shelf.                                                                  *)
(***************************************************************************)
EXTENDS ProducerConsumer, TLAPS

USE ProducerConsumerAssumption

Inv == TypeOK /\ Balance /\ Shutdown

LEMMA InvInit == Init => Inv
BY DEF Init, Inv, TypeOK, PC, ParentPC, Balance, Shutdown, B, InProducer,
       InConsumer, HeldByProducer, HeldByConsumer

LEMMA InvStep ==
  ASSUME Inv, [Next]_vars
  PROVE  Inv'
<1> USE DEF Inv, TypeOK, PC, ParentPC, Balance, Shutdown, B, InProducer,
            InConsumer, HeldByProducer, HeldByConsumer, sems, producer, consumer
<1>1. CASE Fork
  <2>1. TypeOK'
    BY <1>1 DEF Fork
  <2>2. Balance'
    BY <1>1 DEF Fork
  <2>3. Shutdown'
    BY <1>1 DEF Fork
  <2> QED BY <2>1, <2>2, <2>3 DEF Inv
<1>2. CASE PCloseEmpty
  <2>1. TypeOK'
    BY <1>2 DEF PCloseEmpty
  <2>2. Balance'
    BY <1>2 DEF PCloseEmpty
  <2>3. Shutdown'
    BY <1>2 DEF PCloseEmpty
  <2> QED BY <2>1, <2>2, <2>3 DEF Inv
<1>3. CASE PCloseFree
  <2>1. TypeOK'
    BY <1>3 DEF PCloseFree
  <2>2. Balance'
    BY <1>3 DEF PCloseFree
  <2>3. Shutdown'
    BY <1>3 DEF PCloseFree
  <2> QED BY <2>1, <2>2, <2>3 DEF Inv
<1>4. CASE PGetEmpty
  <2>1. TypeOK'
    BY <1>4 DEF PGetEmpty
  <2>2. Balance'
    BY <1>4 DEF PGetEmpty
  <2>3. Shutdown'
    BY <1>4 DEF PGetEmpty
  <2> QED BY <2>1, <2>2, <2>3 DEF Inv
<1>5. CASE POpenFree
  <2>1. TypeOK'
    BY <1>5 DEF POpenFree
  <2>2. Balance'
    BY <1>5 DEF POpenFree
  <2>3. Shutdown'
    BY <1>5 DEF POpenFree
  <2> QED BY <2>1, <2>2, <2>3 DEF Inv
<1>6. CASE POpenFull
  <2>1. TypeOK'
    BY <1>6 DEF POpenFull
  <2>2. Balance'
    BY <1>6 DEF POpenFull
  <2>3. Shutdown'
    BY <1>6 DEF POpenFull
  <2> QED BY <2>1, <2>2, <2>3 DEF Inv
<1>7. CASE WaitConsumer
  <2>1. TypeOK'
    BY <1>7 DEF WaitConsumer
  <2>2. Balance'
    BY <1>7 DEF WaitConsumer
  <2>3. Shutdown'
    BY <1>7 DEF WaitConsumer
  <2> QED BY <2>1, <2>2, <2>3 DEF Inv
<1>8. CASE RemoveFree
  <2>1. TypeOK'
    BY <1>8 DEF RemoveFree, Remove
  <2>2. Balance'
    BY <1>8 DEF RemoveFree, Remove
  <2>3. Shutdown'
    BY <1>8 DEF RemoveFree, Remove
  <2> QED BY <2>1, <2>2, <2>3 DEF Inv
<1>9. CASE RemoveEmpty
  <2>1. TypeOK'
    BY <1>9 DEF RemoveEmpty, Remove
  <2>2. Balance'
    BY <1>9 DEF RemoveEmpty, Remove
  <2>3. Shutdown'
    BY <1>9 DEF RemoveEmpty, Remove
  <2> QED BY <2>1, <2>2, <2>3 DEF Inv
<1>10. CASE RemoveFull
  <2>1. TypeOK'
    BY <1>10 DEF RemoveFull, Remove
  <2>2. Balance'
    BY <1>10 DEF RemoveFull, Remove
  <2>3. Shutdown'
    BY <1>10 DEF RemoveFull, Remove
  <2> QED BY <2>1, <2>2, <2>3 DEF Inv
<1>11. CASE CCloseFull
  <2>1. TypeOK'
    BY <1>11 DEF CCloseFull
  <2>2. Balance'
    BY <1>11 DEF CCloseFull
  <2>3. Shutdown'
    BY <1>11 DEF CCloseFull
  <2> QED BY <2>1, <2>2, <2>3 DEF Inv
<1>12. CASE CCloseFree
  <2>1. TypeOK'
    BY <1>12 DEF CCloseFree
  <2>2. Balance'
    BY <1>12 DEF CCloseFree
  <2>3. Shutdown'
    BY <1>12 DEF CCloseFree
  <2> QED BY <2>1, <2>2, <2>3 DEF Inv
<1>13. CASE CGetFull
  <2>1. TypeOK'
    BY <1>13 DEF CGetFull
  <2>2. Balance'
    BY <1>13 DEF CGetFull
  <2>3. Shutdown'
    BY <1>13 DEF CGetFull
  <2> QED BY <2>1, <2>2, <2>3 DEF Inv
<1>14. CASE COpenFree
  <2>1. TypeOK'
    BY <1>14 DEF COpenFree
  <2>2. Balance'
    BY <1>14 DEF COpenFree
  <2>3. Shutdown'
    BY <1>14 DEF COpenFree
  <2> QED BY <2>1, <2>2, <2>3 DEF Inv
<1>15. CASE COpenEmpty
  <2>1. TypeOK'
    BY <1>15 DEF COpenEmpty
  <2>2. Balance'
    BY <1>15 DEF COpenEmpty
  <2>3. Shutdown'
    BY <1>15 DEF COpenEmpty
  <2> QED BY <2>1, <2>2, <2>3 DEF Inv
<1>16. CASE CExit
  <2>1. TypeOK'
    BY <1>16 DEF CExit
  <2>2. Balance'
    BY <1>16 DEF CExit
  <2>3. Shutdown'
    BY <1>16 DEF CExit
  <2> QED BY <2>1, <2>2, <2>3 DEF Inv
<1>17. CASE UNCHANGED vars
  BY <1>17 DEF vars
<1> QED
  BY <1>1, <1>2, <1>3, <1>4, <1>5, <1>6, <1>7, <1>8, <1>9, <1>10, <1>11, <1>12, <1>13, <1>14, <1>15, <1>16, <1>17
  DEF Next, Producer, Consumer

(***************************************************************************)
(* The types and the balance of the semaphores, in every reachable state:  *)
(* free guards one process at a time, no place is lost or doubled.         *)
(***************************************************************************)
THEOREM Invariant == Spec => [](TypeOK /\ Balance /\ Shutdown)
<1>1. Inv /\ [Next]_vars => Inv'
  BY InvStep
<1> QED BY InvInit, <1>1, PTL DEF Spec, Inv

(***************************************************************************)
(* Every variable of the two loops keeps its type, for every number of     *)
(* places and rounds.                                                      *)
(***************************************************************************)
THEOREM TypeCorrect == Spec => []TypeOK
<1>1. TypeOK /\ Balance /\ Shutdown => TypeOK
  OBVIOUS
<1> QED BY <1>1, Invariant, PTL

(***************************************************************************)
(* The semaphores go last, when everything produced has been consumed.     *)
(***************************************************************************)
THEOREM RemovalCorrect == Spec => []RemovedLast
<1>1. TypeOK /\ Balance /\ Shutdown => RemovedLast
  BY DEF TypeOK, ParentPC, PC, Balance, Shutdown, RemovedLast, Made, Eaten, loaves,
         B, HeldByProducer, HeldByConsumer
<1> QED BY <1>1, Invariant, PTL

-----------------------------------------------------------------------------
(***************************************************************************)
(* The numbers printed: neither process can leave the critical section in  *)
(* which the other reads its semaphore.                                    *)
(***************************************************************************)
LEMMA PrintedStep ==
  ASSUME Inv, PrintedRight, [Next]_vars
  PROVE  PrintedRight'
<1> USE DEF Inv, TypeOK, PC, ParentPC, Balance, B, InProducer,
            InConsumer, HeldByProducer, HeldByConsumer, sems, producer, consumer,
            PrintedRight, Made, Eaten, loaves
<1>1. CASE Fork
  BY <1>1 DEF Fork
<1>2. CASE PCloseEmpty
  BY <1>2 DEF PCloseEmpty
<1>3. CASE PCloseFree
  BY <1>3 DEF PCloseFree
<1>4. CASE PGetEmpty
  BY <1>4 DEF PGetEmpty
<1>5. CASE POpenFree
  BY <1>5 DEF POpenFree
<1>6. CASE POpenFull
  BY <1>6 DEF POpenFull
<1>7. CASE WaitConsumer
  BY <1>7 DEF WaitConsumer
<1>8. CASE RemoveFree
  BY <1>8 DEF RemoveFree, Remove
<1>9. CASE RemoveEmpty
  BY <1>9 DEF RemoveEmpty, Remove
<1>10. CASE RemoveFull
  BY <1>10 DEF RemoveFull, Remove
<1>11. CASE CCloseFull
  BY <1>11 DEF CCloseFull
<1>12. CASE CCloseFree
  BY <1>12 DEF CCloseFree
<1>13. CASE CGetFull
  BY <1>13 DEF CGetFull
<1>14. CASE COpenFree
  BY <1>14 DEF COpenFree
<1>15. CASE COpenEmpty
  BY <1>15 DEF COpenEmpty
<1>16. CASE CExit
  BY <1>16 DEF CExit
<1>17. CASE UNCHANGED vars
  BY <1>17 DEF vars
<1> QED
  BY <1>1, <1>2, <1>3, <1>4, <1>5, <1>6, <1>7, <1>8, <1>9, <1>10, <1>11, <1>12, <1>13, <1>14, <1>15, <1>16, <1>17
  DEF Next, Producer, Consumer

THEOREM PrintedCorrect == Spec => []PrintedRight
<1>1. Init => PrintedRight
  BY DEF Init, PrintedRight
<1>2. Inv /\ PrintedRight /\ [Next]_vars => PrintedRight'
  BY PrintedStep
<1> QED BY <1>1, <1>2, Invariant, PTL DEF Spec, Inv

-----------------------------------------------------------------------------
(***************************************************************************)
(* The two loops implement the shelf: PGetEmpty puts, CGetFull takes, all  *)
(* other steps leave the shelf alone.                                      *)
(***************************************************************************)
LEMMA ShelfStep ==
  ASSUME Inv, [Next]_vars
  PROVE  [S!Next]_loaves
<1> USE DEF Inv, TypeOK, PC, ParentPC, Balance, Shutdown, B, InProducer,
            InConsumer, HeldByProducer, HeldByConsumer, sems, producer, consumer,
            Made, Eaten, loaves
<1>1. CASE Fork
  BY <1>1 DEF Fork
<1>2. CASE PCloseEmpty
  BY <1>2 DEF PCloseEmpty
<1>3. CASE PCloseFree
  BY <1>3 DEF PCloseFree
<1>4. CASE PGetEmpty
  BY <1>4 DEF PGetEmpty, S!Next, S!Put
<1>5. CASE POpenFree
  BY <1>5 DEF POpenFree
<1>6. CASE POpenFull
  BY <1>6 DEF POpenFull
<1>7. CASE WaitConsumer
  BY <1>7 DEF WaitConsumer
<1>8. CASE RemoveFree
  BY <1>8 DEF RemoveFree, Remove
<1>9. CASE RemoveEmpty
  BY <1>9 DEF RemoveEmpty, Remove
<1>10. CASE RemoveFull
  BY <1>10 DEF RemoveFull, Remove
<1>11. CASE CCloseFull
  BY <1>11 DEF CCloseFull
<1>12. CASE CCloseFree
  BY <1>12 DEF CCloseFree
<1>13. CASE CGetFull
  BY <1>13 DEF CGetFull, S!Next, S!Take
<1>14. CASE COpenFree
  BY <1>14 DEF COpenFree
<1>15. CASE COpenEmpty
  BY <1>15 DEF COpenEmpty
<1>16. CASE CExit
  BY <1>16 DEF CExit
<1>17. CASE UNCHANGED vars
  BY <1>17 DEF vars
<1> QED
  BY <1>1, <1>2, <1>3, <1>4, <1>5, <1>6, <1>7, <1>8, <1>9, <1>10, <1>11, <1>12, <1>13, <1>14, <1>15, <1>16, <1>17
  DEF Next, Producer, Consumer

THEOREM ImplementsShelf == Spec => Implements
<1>1. Init => S!Init
  BY DEF Init, S!Init, Made, Eaten, loaves
<1>2. Inv /\ [Next]_vars => [S!Next]_loaves
  BY ShelfStep
<1> QED BY <1>1, <1>2, Invariant, PTL DEF Spec, Inv, Implements, S!Spec
=============================================================================
