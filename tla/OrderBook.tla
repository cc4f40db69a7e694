----------------------------- MODULE OrderBook -----------------------------
(***************************************************************************)
(* What the menu of sub/sub1.c promises: a book of orders that grows by    *)
(* whole orders and is changed in one step, all of its lines at once.      *)
(* Vanish is what a crash at the worst moment may do.                      *)
(***************************************************************************)
EXTENDS Sequences

CONSTANTS
  Shipped,         \* the book at first
  Entry, NoOrder,  \* the orders there are, and none
  Printed(_),      \* the lines of an order
  Changed(_,_,_),  \* the books that a change for a filter may make of one
  Crashes          \* may there be a crash?

VARIABLE book

Init == book = Shipped

Add(o) == book' = book \o Printed(o)
Change(f, u) == book' \in Changed(book, f, u)
Vanish == Crashes /\ book' = <<>>

Next ==
  \/ \E o \in Entry : Add(o)
  \/ \E f \in Entry : \E u \in Entry \cup {NoOrder} : Change(f, u)
  \/ Vanish

Spec == Init /\ [][Next]_book
=============================================================================
