--------------------------- MODULE DispatchProofs ---------------------------
(***************************************************************************)
(* The daily protocol of Dispatch, for every data.txt, every day limit and *)
(* every number of orders a worker takes: its types, the handshake, what a *)
(* recorded day implies and what a hang implies; and why a tidy file gets  *)
(* done.                                                                   *)
(***************************************************************************)
EXTENDS Dispatch, FiniteSetTheorems, SequenceTheorems, TLAPS

-----------------------------------------------------------------------------
(***************************************************************************)
(* What filter and update of OrderFile return, for every content of        *)
(* data.txt and of uninitialised memory.                                   *)
(***************************************************************************)
\* A filter or update object that only names a performance or a done flag.
LEMMA AnyType ==
  /\ Any \in Order
  /\ \A n \in Int : /\ [Any EXCEPT !.perf = n] \in Order
                    /\ [Any EXCEPT !.done = n] \in Order
BY TextAssumption DEF Any, Order

LEMMA DoneType == [Any EXCEPT !.done = 1] \in Order
BY TextAssumption DEF Any, Order

\* The orders a line can hold with all seven columns.
Whole == {a \in Line : ~Short(a)}

LEMMA WholeType ==
  /\ Whole \subseteq Line /\ Line \subseteq Order
  /\ \A a \in Whole : FirstLine(a) = a /\ ~Short(a) /\ OneLine(a)
BY DEF Whole, Line, FirstLine

\* interpret_line yields an order for every line, a short one included.
LEMMA ReadingType ==
  ASSUME NEW lines \in Seq(Line), NEW read \in Readings(lines)
  PROVE  /\ read \in Seq(Order)
         /\ Len(read) = Len(lines)
         /\ DOMAIN read = 1..Len(lines)
         /\ \A n \in 1..Len(lines) :
              ~Short(lines[n]) => read[n] = lines[n]
<1>1. PICK stale \in [ShortLines(lines) -> Stale] : read = Interpret(lines, stale)
  BY DEF Readings
<1>2. ASSUME NEW n \in 1..Len(lines)
      PROVE  /\ Interpret(lines, stale)[n] \in Order
             /\ ~Short(lines[n]) => Interpret(lines, stale)[n] = lines[n]
  <2>0. lines[n] \in Order /\ lines[n].id \in Int
    BY <1>2 DEF Line, Order
  <2>1. CASE Short(lines[n])
    <3>1. stale[n] \in Order
      BY <1>2, <2>1, MemoryAssumption DEF ShortLines
    <3>2. [stale[n] EXCEPT !.id = lines[n].id] \in Order
      BY <2>0, <3>1 DEF Order
    <3> QED BY <3>2, <2>1, <1>2 DEF Interpret
  <2>2. CASE ~Short(lines[n])
    BY <1>2, <2>0, <2>2 DEF Interpret
  <2> QED BY <2>1, <2>2
<1>3. Interpret(lines, stale) = [n \in 1..Len(lines) |-> Interpret(lines, stale)[n]]
  BY DEF Interpret
<1>4. Interpret(lines, stale) \in [1..Len(lines) -> Order]
  BY <1>2, <1>3
<1> QED BY <1>1, <1>2, <1>4

LEMMA WholeRead ==
  ASSUME NEW lines \in Seq(Whole), NEW read \in Readings(lines)
  PROVE  read = lines
<1>1. lines \in Seq(Line) /\ \A n \in 1..Len(lines) : ~Short(lines[n])
  BY WholeType
<1>2. /\ read \in Seq(Order) /\ Len(read) = Len(lines)
      /\ \A n \in 1..Len(lines) : read[n] = lines[n]
  BY <1>1, ReadingType
<1>3. lines \in Seq(Order)
  BY <1>1, WholeType
<1> QED BY <1>2, <1>3, SeqEqual

LEMMA ShortLinesFinite ==
  ASSUME NEW lines \in Seq(Line)
  PROVE  IsFiniteSet(ShortLines(lines))
<1>1. Len(lines) \in Nat /\ ShortLines(lines) \subseteq 1..Len(lines)
  BY DEF ShortLines
<1>2. IsFiniteSet(1..Len(lines))
  BY <1>1, FS_Interval
<1> QED BY <1>1, <1>2, FS_Subset

\* The lines a filter matches are finitely many, at most all of them.
LEMMA HitsType ==
  ASSUME NEW read \in Seq(Order), NEW f \in Order
  PROVE  /\ Hits(f, read) \subseteq 1..Len(read)
         /\ Cardinality(Hits(f, read)) \in Nat
         /\ Cardinality(Hits(f, read)) <= Len(read)
<1>1. Hits(f, read) \subseteq 1..Len(read)
  BY DEF Hits
<1>2. IsFiniteSet(1..Len(read)) /\ Cardinality(1..Len(read)) = Len(read)
  <2>1. Len(read) \in Nat
    OBVIOUS
  <2>2. /\ IsFiniteSet(1..Len(read))
        /\ Cardinality(1..Len(read)) =
             IF 1 > Len(read) THEN 0 ELSE Len(read) - 1 + 1
    BY <2>1, FS_Interval
  <2> QED BY <2>1, <2>2
<1>3. /\ IsFiniteSet(Hits(f, read))
      /\ Cardinality(Hits(f, read)) <= Cardinality(1..Len(read))
  BY <1>1, <1>2, FS_Subset
<1> QED BY <1>1, <1>2, <1>3, FS_CardinalityType

(***************************************************************************)
(* filter returns an array of orders, never longer than the file, even if  *)
(* its two passes disagree.                                                *)
(***************************************************************************)
LEMMA FilterType ==
  ASSUME NEW lines \in Seq(Line), NEW f \in Order, NEW res \in Filter(lines, f)
  PROVE  res \in Seq(Order) /\ Len(res) <= Len(lines)
<1>1. PICK here \in Counts(lines, f) : res \in Filled(lines, f, here)
  BY DEF Filter
<1>2. here \in Nat /\ here <= Len(lines)
  BY <1>1, ReadingType, HitsType DEF Counts
<1>3. PICK read \in Readings(lines) :
        \E at \in Listings(Hits(f, read)), junk \in [1..here -> Junk] :
          res = Fill(read, at, junk)
  BY <1>1 DEF Filled
<1>4. PICK at \in Listings(Hits(f, read)), junk \in [1..here -> Junk] :
        res = Fill(read, at, junk)
  BY <1>3
<1>5. read \in Seq(Order)
  BY ReadingType
<1>6. at \in [1..Cardinality(Hits(f, read)) -> Hits(f, read)]
  BY DEF Listings
<1>7. \A k \in DOMAIN at : read[at[k]] \in Order
  <2>1. Hits(f, read) \subseteq 1..Len(read)
    BY <1>5, HitsType
  <2>2. \A k \in DOMAIN at : at[k] \in 1..Len(read)
    BY <1>6, <2>1
  <2> QED BY <1>5, <2>2
<1>8. \A k \in 1..here : junk[k] \in Order
  BY MemoryAssumption
<1>9. res \in [1..here -> Order]
  BY <1>4, <1>7, <1>8 DEF Fill
<1> QED BY <1>2, <1>9

\* Of natural numbers there is a least one: the induction the proofs need.
LEMMA Least ==
  ASSUME NEW T \in SUBSET Nat, T # {}
  PROVE  \E n \in T : \A m \in T : n <= m
<1>1. PICK n \in T : \A m \in T : ~(<<m, n>> \in OpToRel(<, Nat))
  BY NatLessThanWellFounded, WFMin
<1>2. ASSUME NEW m \in T PROVE n <= m
  <2>1. <<m, n>> \in Nat \X Nat
    OBVIOUS
  <2>2. ~(m < n)
    BY <1>1, <2>1, Zenon DEF OpToRel
  <2> QED BY <2>2
<1> QED BY <1>2

\* A strictly increasing listing of 1..n counts from 1 to n.
LEMMA CountingUp ==
  ASSUME NEW n \in Nat, NEW at \in Listings(1..n)
  PROVE  at \in [1..n -> 1..n] /\ \A k \in 1..n : at[k] = k
<1>1. IsFiniteSet(1..n) /\ Cardinality(1..n) = n
  <2>1. /\ IsFiniteSet(1..n)
        /\ Cardinality(1..n) = IF 1 > n THEN 0 ELSE n - 1 + 1
    BY FS_Interval
  <2> QED BY <2>1
<1>2. /\ at \in [1..n -> 1..n]
      /\ \A a, b \in 1..n : a < b => at[a] < at[b]
  BY <1>1 DEF Listings
<1>3. at \in Injection(1..n, 1..n)
  <2>1. ASSUME NEW a \in 1..n, NEW b \in 1..n, at[a] = at[b] PROVE a = b
    <3>1. at[a] \in 1..n /\ ~(a < b) /\ ~(b < a)
      BY <1>2, <2>1
    <3> QED BY <3>1
  <2> QED BY <1>2, <2>1 DEF Injection, IsInjective
<1>4. at \in Surjection(1..n, 1..n)
  BY <1>1, <1>3, FS_Injection
<1>5. \A b \in 1..n : \E a \in 1..n : at[a] = b
  BY <1>4 DEF Surjection
<1> DEFINE Odd == {k \in 1..n : at[k] # k}
<1>6. ASSUME Odd # {} PROVE FALSE
  <2>1. PICK m \in Odd : \A k \in Odd : m <= k
    <3>1. Odd \in SUBSET Nat
      OBVIOUS
    <3> HIDE DEF Odd
    <3> QED BY <1>6, <3>1, Least
  <2>2. \A k \in 1..n : k < m => at[k] = k
    BY <2>1
  <2>3. at[m] \in 1..n /\ m \in 1..n /\ at[m] # m
    BY <1>2, <2>1
  <2>4. ~(at[m] < m)
    BY <1>2, <2>2, <2>3
  <2>5. PICK b \in 1..n : at[b] = m
    BY <1>5, <2>3
  <2>6. ~(b < m) /\ b # m
    BY <2>2, <2>3, <2>5
  <2>7. at[m] < at[b]
    BY <1>2, <2>3, <2>6
  <2> QED BY <2>3, <2>4, <2>5, <2>7
<1> QED BY <1>2, <1>6

\* Without short lines, filter returns exactly the lines it matches, in order.
LEMMA FilterExact ==
  ASSUME NEW lines \in Seq(Whole), NEW f \in Order, NEW res \in Filter(lines, f)
  PROVE  \E at \in Listings(Hits(f, lines)) :
           res = [k \in 1..Cardinality(Hits(f, lines)) |-> lines[at[k]]]
<1>2. ASSUME NEW read \in Readings(lines) PROVE read = lines
  BY WholeRead
<1>3. PICK here \in Counts(lines, f) : res \in Filled(lines, f, here)
  BY DEF Filter
<1>4. here = Cardinality(Hits(f, lines))
  BY <1>2, <1>3 DEF Counts
<1>5. PICK read \in Readings(lines) :
        \E at \in Listings(Hits(f, read)), junk \in [1..here -> Junk] :
          res = Fill(read, at, junk)
  BY <1>3 DEF Filled
<1>6. PICK at \in Listings(Hits(f, lines)), junk \in [1..here -> Junk] :
        res = Fill(lines, at, junk)
  BY <1>2, <1>5
<1>7. DOMAIN at = 1..here /\ DOMAIN junk = 1..here
  BY <1>4 DEF Listings
<1> QED BY <1>4, <1>6, <1>7 DEF Fill

\* With nothing to compare with, filter returns all of them.
LEMMA AnyFindsAll ==
  ASSUME NEW lines \in Seq(Whole), NEW res \in Filter(lines, Any)
  PROVE  res = lines
<1>1. Any \in Order /\ DOMAIN lines = 1..Len(lines) /\ Len(lines) \in Nat
  BY TextAssumption DEF Any, Order
<1>2. Hits(Any, lines) = 1..Len(lines)
  BY <1>1 DEF Hits, Matches, Any
<1>3. PICK at \in Listings(1..Len(lines)) :
        res = [k \in 1..Cardinality(1..Len(lines)) |-> lines[at[k]]]
  BY <1>1, <1>2, FilterExact
<1>4. Cardinality(1..Len(lines)) = Len(lines)
  BY <1>1, FS_Interval
<1>5. \A k \in 1..Len(lines) : at[k] = k
  BY <1>1, CountingUp
<1> QED BY <1>1, <1>3, <1>4, <1>5

\* One hit, or two neighbouring ones.
LEMMA OneFound ==
  ASSUME NEW lines \in Seq(Whole), NEW f \in Order, NEW res \in Filter(lines, f),
         NEW b \in Nat, Hits(f, lines) = {b + 1}
  PROVE  Len(res) = 1 /\ res[1] = lines[b + 1]
<1>1. Cardinality({b + 1}) = 1
  BY FS_Singleton
<1>2. \E at \in Listings(Hits(f, lines)) :
        res = [k \in 1..Cardinality(Hits(f, lines)) |-> lines[at[k]]]
  BY FilterExact
<1>3. PICK at \in Listings({b + 1}) : res = [k \in 1..1 |-> lines[at[k]]]
  BY <1>1, <1>2, Zenon
<1>4. at \in [1..1 -> {b + 1}]
  <2>1. at \in [1..Cardinality({b + 1}) -> {b + 1}]
    BY DEF Listings
  <2> QED BY <1>1, <2>1, Zenon
<1>5. at[1] = b + 1
  BY <1>4
<1> QED BY <1>3, <1>5

LEMMA TwoFound ==
  ASSUME NEW lines \in Seq(Whole), NEW f \in Order, NEW res \in Filter(lines, f),
         NEW b \in Nat, Hits(f, lines) = {b + 1, b + 2}
  PROVE  /\ Len(res) = 2
         /\ res[1] = lines[b + 1] /\ res[2] = lines[b + 2]
<1>1. Cardinality({b + 1, b + 2}) = 2
  <2>1. IsFiniteSet({b + 1}) /\ Cardinality({b + 1}) = 1
    BY FS_Singleton
  <2>2. Cardinality({b + 1} \cup {b + 2}) = Cardinality({b + 1}) + 1
    <3>1. b + 2 \notin {b + 1}
      OBVIOUS
    <3>2. Cardinality({b + 1} \cup {b + 2}) =
            IF b + 2 \in {b + 1} THEN Cardinality({b + 1})
            ELSE Cardinality({b + 1}) + 1
      BY <2>1, FS_AddElement
    <3> QED BY <3>1, <3>2
  <2>3. {b + 1, b + 2} = {b + 1} \cup {b + 2}
    OBVIOUS
  <2> QED BY <2>1, <2>2, <2>3
<1>2. \E at \in Listings(Hits(f, lines)) :
        res = [k \in 1..Cardinality(Hits(f, lines)) |-> lines[at[k]]]
  BY FilterExact
<1>3. PICK at \in Listings({b + 1, b + 2}) :
        res = [k \in 1..2 |-> lines[at[k]]]
  BY <1>1, <1>2, Zenon
<1>4. at \in [1..2 -> {b + 1, b + 2}] /\ at[1] < at[2]
  <2>1. /\ at \in [1..Cardinality({b + 1, b + 2}) -> {b + 1, b + 2}]
        /\ \A x, y \in DOMAIN at : x < y => at[x] < at[y]
    BY DEF Listings
  <2>2. at \in [1..2 -> {b + 1, b + 2}]
    BY <1>1, <2>1, Zenon
  <2>3. 1 \in DOMAIN at /\ 2 \in DOMAIN at /\ 1 < 2
    BY <2>2
  <2>4. at[1] < at[2]
    BY <2>1, <2>3, Zenon
  <2> QED BY <2>2, <2>4
<1>5. at[1] = b + 1 /\ at[2] = b + 2
  BY <1>4
<1> QED BY <1>3, <1>5

\* A rewritten line is an order again; one that is marked stays whole.
LEMMA ReplacedType ==
  ASSUME NEW a \in Order, NEW u \in Order
  PROVE  Replaced(a, u) \in Order
BY TextAssumption DEF Replaced, Order

LEMMA ReplacedDone ==
  ASSUME NEW a \in Order
  PROVE  Replaced(a, [Any EXCEPT !.done = 1]) = Marked(a)
BY DEF Replaced, Any, Order, Marked

LEMMA MarkedWhole ==
  ASSUME NEW a \in Whole
  PROVE  Marked(a) \in Whole
BY DEF Whole, Line, Short, OneLine, Order, Marked

(***************************************************************************)
(* The places of orders that are printed: each has one, behind those of    *)
(* the orders before it, whatever else their texts print; and without      *)
(* newlines in them, the n-th order is on the n-th line.                   *)
(***************************************************************************)
LEMMA MoreLinesType ==
  ASSUME NEW printed \in Seq(Order)
  PROVE  /\ IsFiniteSet(MoreLines(printed)) /\ Cardinality(MoreLines(printed)) \in Nat
         /\ \A T \in SUBSET MoreLines(printed) :
              /\ IsFiniteSet(T) /\ Cardinality(T) \in Nat
              /\ Cardinality(T) <= Cardinality(MoreLines(printed))
<1>1. IsFiniteSet(DOMAIN printed) /\ IsFiniteSet(1..3)
  <2>1. DOMAIN printed = 1..Len(printed) /\ Len(printed) \in Int
    OBVIOUS
  <2>2. 1 \in Int /\ 3 \in Int
    OBVIOUS
  <2>3. IsFiniteSet(1..Len(printed)) /\ IsFiniteSet(1..3)
    BY <2>1, <2>2, FS_Interval, Zenon
  <2> QED BY <2>1, <2>3, Zenon
<1>2. IsFiniteSet((DOMAIN printed) \X (1..3))
  BY <1>1, FS_Product
<1>3. MoreLines(printed) \in SUBSET ((DOMAIN printed) \X (1..3))
  BY DEF MoreLines
<1>4. IsFiniteSet(MoreLines(printed))
  BY <1>2, <1>3, FS_Subset
<1> QED BY <1>4, FS_Subset, FS_CardinalityType

LEMMA PlacesType ==
  ASSUME NEW printed \in Seq(Order)
  PROVE  /\ PlacesOf(printed) \in
              [1..Len(printed) -> 1..(Len(printed) + Cardinality(MoreLines(printed)))]
         /\ \A n, m \in 1..Len(printed) :
              n < m => PlacesOf(printed)[n] < PlacesOf(printed)[m]
<1> DEFINE Before(n) == {more \in MoreLines(printed) : more[1] < n}
           total == Cardinality(MoreLines(printed))
<1>1. DOMAIN printed = 1..Len(printed) /\ Len(printed) \in Nat /\ total \in Nat
  BY MoreLinesType
<1>2. ASSUME NEW n \in 1..Len(printed)
      PROVE  /\ IsFiniteSet(Before(n)) /\ Cardinality(Before(n)) \in 0..total
             /\ PlacesOf(printed)[n] = n + Cardinality(Before(n))
  <2>1. Before(n) \in SUBSET MoreLines(printed)
    OBVIOUS
  <2>2. IsFiniteSet(Before(n)) /\ Cardinality(Before(n)) \in 0..total
    BY <1>1, <2>1, MoreLinesType
  <2> QED BY <1>1, <1>2, <2>2 DEF PlacesOf
<1>3. ASSUME NEW n \in 1..Len(printed), NEW m \in 1..Len(printed), n < m
      PROVE  Cardinality(Before(n)) <= Cardinality(Before(m))
  <2>1. ASSUME NEW more \in MoreLines(printed), more[1] < n PROVE more[1] < m
    <3>1. more[1] \in 1..Len(printed)
      BY <1>1 DEF MoreLines
    <3> QED BY <1>1, <1>3, <2>1, <3>1
  <2>2. Before(n) \in SUBSET Before(m)
    BY <2>1
  <2> QED BY <1>2, <2>2, FS_Subset
<1> HIDE DEF Before, total
<1>4. PlacesOf(printed) \in [1..Len(printed) -> 1..(Len(printed) + total)]
  <2>1. PlacesOf(printed) = [n \in 1..Len(printed) |-> PlacesOf(printed)[n]]
    BY <1>1 DEF PlacesOf
  <2>2. \A n \in 1..Len(printed) : PlacesOf(printed)[n] \in 1..(Len(printed) + total)
    BY <1>1, <1>2
  <2> QED BY <2>1, <2>2
<1>5. \A n, m \in 1..Len(printed) :
        n < m => PlacesOf(printed)[n] < PlacesOf(printed)[m]
  BY <1>1, <1>2, <1>3
<1> QED BY <1>4, <1>5 DEF total

LEMMA OnePlaceEach ==
  ASSUME NEW printed \in Seq(Order),
         \A n \in 1..Len(printed) : OneLine(printed[n])
  PROVE  /\ Cardinality(MoreLines(printed)) = 0
         /\ \A n \in 1..Len(printed) : PlacesOf(printed)[n] = n
<1>1. MoreLines(printed) = {}
  <2> SUFFICES ASSUME NEW more \in MoreLines(printed) PROVE FALSE
      OBVIOUS
  <2>1. more[1] \in 1..Len(printed) /\ more[2] \in 1..3
    BY DEF MoreLines
  <2>2. more[2] <= Newlines[printed[more[1]].who]
    BY DEF MoreLines
  <2>3. Newlines[printed[more[1]].who] = 0
    BY <2>1 DEF OneLine
  <2> QED BY <2>1, <2>2, <2>3
<1>2. Cardinality({}) = 0
  BY FS_EmptySet
<1>3. ASSUME NEW n \in 1..Len(printed) PROVE PlacesOf(printed)[n] = n
  <2>1. {more \in MoreLines(printed) : more[1] < n} = {}
    BY <1>1
  <2>2. PlacesOf(printed)[n] =
          n + Cardinality({more \in MoreLines(printed) : more[1] < n})
    BY DEF PlacesOf
  <2>3. Cardinality({more \in MoreLines(printed) : more[1] < n}) = 0
    BY <1>2, <2>1, Zenon
  <2> QED BY <2>2, <2>3
<1> QED BY <1>1, <1>2, <1>3

\* Every order has a line of the new file, and all its other lines are short.
LEMMA PrintType ==
  ASSUME NEW printed \in Seq(Order), NEW new \in PrintedLines(printed)
  PROVE  /\ new \in Seq(Line)
         /\ Len(new) = Len(printed) + Cardinality(MoreLines(printed))
         /\ DOMAIN new = 1..Len(new)
         /\ \A n \in 1..Len(printed) :
              new[PlacesOf(printed)[n]] = FirstLine(printed[n])
         /\ \A k \in 1..Len(new) :
              \/ Short(new[k])
              \/ \E n \in 1..Len(printed) : new[k] = FirstLine(printed[n])
<1> DEFINE place == PlacesOf(printed)
           all == 1..(Len(printed) + Cardinality(MoreLines(printed)))
           At(k) == {n \in DOMAIN printed : place[n] = k}
<1>1. PICK others \in [{k \in all : At(k) = {}} -> {a.id : a \in Stale}] :
        new = [k \in all |->
                 IF At(k) # {} THEN FirstLine(printed[CHOOSE n \in At(k) : TRUE])
                 ELSE ShortLine(others[k])]
  BY DEF PrintedLines
<1>2. /\ DOMAIN printed = 1..Len(printed)
      /\ Len(printed) + Cardinality(MoreLines(printed)) \in Nat
  BY MoreLinesType
<1>3. /\ place \in [1..Len(printed) -> all]
      /\ \A n, m \in 1..Len(printed) : n < m => place[n] < place[m]
  BY PlacesType
<1> HIDE DEF place, all
<1>4. ASSUME NEW n \in 1..Len(printed)
      PROVE  At(place[n]) = {n}
  <2>1. ASSUME NEW m \in 1..Len(printed), place[m] = place[n] PROVE m = n
    <3>1. place[m] \in Nat /\ place[n] \in Nat
      BY <1>2, <1>3 DEF all
    <3>2. ~(m < n) /\ ~(n < m)
      BY <1>3, <2>1, <3>1
    <3> QED BY <1>2, <3>2
  <2> QED BY <1>2, <2>1
<1>5. ASSUME NEW k \in all, At(k) # {}
      PROVE  \E n \in 1..Len(printed) : At(k) = {n} /\ new[k] = FirstLine(printed[n])
  <2>1. PICK n \in 1..Len(printed) : place[n] = k
    BY <1>2, <1>5
  <2>2. At(k) = {n}
    BY <1>4, <2>1
  <2>3. (CHOOSE m \in At(k) : TRUE) = n
    BY <2>2
  <2>4. new[k] = FirstLine(printed[CHOOSE m \in At(k) : TRUE])
    BY <1>1, <1>5
  <2> HIDE DEF At
  <2> QED BY <2>2, <2>3, <2>4
<1>6. ASSUME NEW k \in all, At(k) = {}
      PROVE  \E n \in Int : new[k] = ShortLine(n)
  <2>1. others[k] \in {a.id : a \in Stale}
    BY <1>1, <1>6
  <2>2. others[k] \in Int
    <3>1. PICK a \in Stale : others[k] = a.id
      BY <2>1
    <3>2. a \in Order
      BY MemoryAssumption
    <3> QED BY <3>1, <3>2 DEF Order
  <2>3. new[k] = ShortLine(others[k])
    BY <1>1, <1>6
  <2> QED BY <2>2, <2>3
<1>7. \A n \in Int : ShortLine(n) \in Line /\ Short(ShortLine(n))
  BY LineAssumption, TextAssumption DEF ShortLine, Line, Order, Short, OneLine
<1>8. ASSUME NEW n \in 1..Len(printed) PROVE FirstLine(printed[n]) \in Line
  <2>0. printed[n] \in Order
    OBVIOUS
  <2>1. printed[n] \in Order /\ printed[n].id \in Int
    BY <2>0 DEF Order
  <2> QED BY <1>7, <2>1 DEF FirstLine, Line
<1>9. new \in [all -> Line]
  <2>1. \A k \in all : new[k] \in Line
    <3> HIDE DEF At
    <3> QED BY <1>5, <1>6, <1>7, <1>8
  <2>2. new = [k \in all |-> new[k]]
    BY <1>1
  <2> QED BY <2>1, <2>2
<1>10. new \in Seq(Line) /\ DOMAIN new = all /\ Len(new) = Len(printed) + Cardinality(MoreLines(printed))
  BY <1>2, <1>9 DEF all
<1>11. \A n \in 1..Len(printed) : new[place[n]] = FirstLine(printed[n])
  <2> SUFFICES ASSUME NEW n \in 1..Len(printed)
               PROVE  new[place[n]] = FirstLine(printed[n])
      OBVIOUS
  <2>1. place[n] \in all /\ At(place[n]) = {n}
    BY <1>3, <1>4
  <2>2. PICK m \in 1..Len(printed) :
          At(place[n]) = {m} /\ new[place[n]] = FirstLine(printed[m])
    <3> HIDE DEF At
    <3> QED BY <1>5, <2>1
  <2> HIDE DEF At
  <2>3. m = n
    BY <2>1, <2>2
  <2> QED BY <2>2, <2>3
<1>12. \A k \in 1..Len(new) :
         Short(new[k]) \/ \E n \in 1..Len(printed) : new[k] = FirstLine(printed[n])
  <2> HIDE DEF At
  <2> QED BY <1>5, <1>6, <1>7, <1>10 DEF all
<1>13. DOMAIN new = 1..Len(new)
  BY <1>10
<1> QED BY <1>10, <1>11, <1>12, <1>13 DEF place

(***************************************************************************)
(* What update does when all it sets is done.  It copies every line but an *)
(* unterminated last one, and leaves a well-formed, terminated file.       *)
(***************************************************************************)
LEMMA CopiedType ==
  ASSUME NEW old \in File
  PROVE  /\ Copied(old) \in Seq(Line)
         /\ \/ old.ended /\ Len(Copied(old)) = Len(old.lines)
            \/ ~old.ended /\ old.lines = <<>> /\ Len(Copied(old)) = 0
            \/ ~old.ended /\ Len(Copied(old)) = Len(old.lines) - 1
         /\ \A n \in 1..Len(Copied(old)) :
              n \in 1..Len(old.lines) /\ Copied(old)[n] = old.lines[n]
<1>1. PICK n \in Nat : n = Len(old.lines)
  BY DEF File
<1>2. old.lines \in Seq(Line) /\ old.ended \in BOOLEAN
  BY DEF File
<1>3. CASE old.ended
  BY <1>1, <1>2, <1>3 DEF Copied
<1>4. CASE ~old.ended /\ n = 0
  <2>1. old.lines = <<>>
    BY <1>1, <1>2, <1>4, EmptySeq
  <2>2. Copied(old) = SubSeq(old.lines, 1, n - 1) /\ n - 1 < 1
    BY <1>1, <1>4 DEF Copied
  <2>3. Copied(old) = <<>>
    BY <1>2, <2>2, SubSeqEmpty
  <2> QED BY <1>4, <2>1, <2>3, EmptySeq
<1>5. CASE ~old.ended /\ n # 0
  <2>1. Copied(old) = SubSeq(old.lines, 1, n - 1)
    BY <1>1, <1>5 DEF Copied
  <2>2. \A k \in 1..(n - 1) : old.lines[k] \in Line
    BY <1>1, <1>2
  <2> QED BY <1>1, <1>2, <1>5, <2>1, <2>2, SubSeqProperties
<1> QED BY <1>3, <1>4, <1>5

LEMMA RewriteType ==
  ASSUME NEW lines \in Seq(Line), NEW read \in Readings(lines), NEW f \in Order
  PROVE  LET printed == Rewrite(lines, read, f, [Any EXCEPT !.done = 1])
         IN  /\ printed \in Seq(Order) /\ Len(printed) = Len(lines)
             /\ \A n \in 1..Len(lines) :
                  /\ ~Short(lines[n]) =>
                       printed[n] = IF Matches(f, lines[n]) THEN Marked(lines[n])
                                    ELSE lines[n]
                  /\ \/ printed[n] = lines[n]
                     \/ \E a \in Order : Matches(f, a) /\ printed[n] = Marked(a)
<1> DEFINE u == [Any EXCEPT !.done = 1]
           printed == Rewrite(lines, read, f, u)
<1>1. DOMAIN lines = 1..Len(lines) /\ Len(lines) \in Nat
  OBVIOUS
<1>2. u \in Order
  BY DoneType
<1>3. ASSUME NEW n \in 1..Len(lines)
      PROVE  /\ printed[n] \in Order
             /\ ~Short(lines[n]) =>
                  printed[n] = IF Matches(f, lines[n]) THEN Marked(lines[n])
                               ELSE lines[n]
             /\ \/ printed[n] = lines[n]
                \/ \E a \in Order : Matches(f, a) /\ printed[n] = Marked(a)
  <2>1. read[n] \in Order /\ lines[n] \in Order
    BY <1>1, <1>3, ReadingType, WholeType
  <2>2. printed[n] = IF Matches(f, read[n]) THEN Replaced(read[n], u) ELSE lines[n]
    BY <1>1, <1>3 DEF Rewrite
  <2>3. Replaced(read[n], u) = Marked(read[n]) /\ Replaced(read[n], u) \in Order
    BY <1>2, <2>1, ReplacedDone, ReplacedType
  <2>4. ~Short(lines[n]) => read[n] = lines[n]
    BY <1>3, ReadingType
  <2> HIDE DEF printed, u
  <2> QED BY <2>1, <2>2, <2>3, <2>4
<1>4. printed = [n \in 1..Len(lines) |-> printed[n]]
  BY <1>1 DEF Rewrite
<1>5. printed \in Seq(Order) /\ Len(printed) = Len(lines)
  <2> HIDE DEF printed
  <2> QED BY <1>1, <1>3, <1>4
<1> QED BY <1>3, <1>5

LEMMA UpdateLines ==
  ASSUME NEW old \in File, NEW f \in Order,
         NEW new \in Update(old, f, [Any EXCEPT !.done = 1])
  PROVE  /\ new \in File
         /\ \E place \in [1..Len(Copied(old)) -> 1..Len(new.lines)] :
              /\ \A n, m \in 1..Len(Copied(old)) : n < m => place[n] < place[m]
              /\ \A n \in 1..Len(Copied(old)) :
                   ~Short(old.lines[n]) =>
                     new.lines[place[n]] =
                       IF Matches(f, old.lines[n]) THEN Marked(old.lines[n])
                       ELSE old.lines[n]
              /\ Copied(old) \in Seq(Whole) =>
                   /\ Len(new.lines) = Len(Copied(old))
                   /\ \A n \in 1..Len(Copied(old)) : place[n] = n
         /\ \A k \in 1..Len(new.lines) :
              \/ Short(new.lines[k])
              \/ \E n \in 1..Len(old.lines) : new.lines[k] = old.lines[n]
              \/ \E a \in Order : Matches(f, a) /\ new.lines[k] = Marked(a)
<1> DEFINE u == [Any EXCEPT !.done = 1]
           lines == Copied(old)
<1>1. /\ lines \in Seq(Line) /\ Len(lines) \in Nat
      /\ \A n \in 1..Len(lines) :
           n \in 1..Len(old.lines) /\ lines[n] = old.lines[n]
  BY CopiedType
<1>a. PICK read \in Readings(lines) :
        \E out \in PrintedLines(Rewrite(lines, read, f, u)) :
          new = [lines |-> out, ended |-> TRUE]
  BY DEF Update
<1>2. PICK out \in PrintedLines(Rewrite(lines, read, f, u)) :
        new = [lines |-> out, ended |-> TRUE]
  BY <1>a
<1> DEFINE printed == Rewrite(lines, read, f, u)
<1>3. /\ printed \in Seq(Order) /\ Len(printed) = Len(lines)
      /\ \A n \in 1..Len(lines) :
           /\ ~Short(lines[n]) =>
                printed[n] = IF Matches(f, lines[n]) THEN Marked(lines[n])
                             ELSE lines[n]
           /\ \/ printed[n] = lines[n]
              \/ \E a \in Order : Matches(f, a) /\ printed[n] = Marked(a)
  BY <1>1, RewriteType
<1>4. out \in PrintedLines(printed)
  BY <1>2
<1> HIDE DEF printed, lines, u
<1> DEFINE place == PlacesOf(printed)
<1>5. /\ out \in Seq(Line)
      /\ Len(out) = Len(lines) + Cardinality(MoreLines(printed))
      /\ \A n \in 1..Len(lines) : out[place[n]] = FirstLine(printed[n])
      /\ \A k \in 1..Len(out) :
              \/ Short(out[k])
              \/ \E n \in 1..Len(lines) : out[k] = FirstLine(printed[n])
  BY <1>3, <1>4, PrintType
<1>6. new.lines = out /\ new \in File
  BY <1>2, <1>5 DEF File
<1>7. /\ place \in [1..Len(lines) -> 1..Len(out)]
      /\ \A n, m \in 1..Len(lines) : n < m => place[n] < place[m]
  BY <1>3, <1>5, PlacesType
<1>8. ASSUME NEW n \in 1..Len(lines), ~Short(lines[n])
      PROVE  FirstLine(printed[n]) = printed[n] /\ OneLine(printed[n])
  <2>1. lines[n] \in Whole
    BY <1>1, <1>8 DEF Whole
  <2>2. printed[n] \in Whole
    BY <1>3, <1>8, <2>1, MarkedWhole
  <2> QED BY <2>2, WholeType
<1>9. ASSUME lines \in Seq(Whole)
      PROVE  /\ Len(out) = Len(lines)
             /\ \A n \in 1..Len(lines) : place[n] = n
  <2>1. \A n \in 1..Len(printed) : OneLine(printed[n])
    BY <1>3, <1>8, <1>9, WholeType
  <2>2. /\ Cardinality(MoreLines(printed)) = 0
        /\ \A n \in 1..Len(printed) : place[n] = n
    BY <1>3, <2>1, OnePlaceEach
  <2> QED BY <1>1, <1>3, <1>5, <2>2
<1>10. ASSUME NEW k \in 1..Len(out), ~Short(out[k])
       PROVE  \/ \E n \in 1..Len(old.lines) : out[k] = old.lines[n]
              \/ \E a \in Order : Matches(f, a) /\ out[k] = Marked(a)
  <2>1. PICK n \in 1..Len(lines) : out[k] = FirstLine(printed[n])
    BY <1>5, <1>10
  <2>2. Short(ShortLine(printed[n].id))
    BY LineAssumption DEF Short, ShortLine
  <2>3. out[k] = printed[n]
    BY <1>10, <2>1, <2>2 DEF FirstLine
  <2> QED BY <1>1, <1>3, <2>1, <2>3
<1> HIDE DEF place
<1>11. \A n \in 1..Len(lines) :
         ~Short(old.lines[n]) =>
           out[place[n]] =
             IF Matches(f, old.lines[n]) THEN Marked(old.lines[n]) ELSE old.lines[n]
  BY <1>1, <1>3, <1>5, <1>8
<1> QED BY <1>6, <1>7, <1>9, <1>10, <1>11 DEF lines, u

-----------------------------------------------------------------------------
(***************************************************************************)
(* The daily protocol.                                                     *)
(***************************************************************************)
USE DispatchAssumption

LEMMA SizeType ==
  ASSUME NEW res \in Seq(Order)
  PROVE  /\ Size(res) \in Int
         /\ Size(res) > 0 => Size(res) = Len(res)
BY DEF Size

LEMMA QuotaType ==
  ASSUME NEW res \in Seq(Order)
  PROVE  /\ QuotaOf(res) \in Nat
         /\ QuotaOf(res) <= Len(res)
         /\ \A n \in Nat :
              (n < Size(res) /\ n < WorkerDayMax) <=> n < QuotaOf(res)
<1>1. Size(res) \in Int /\ Len(res) \in Nat
  BY SizeType
<1>2. Size(res) > 0 => Size(res) = Len(res)
  BY SizeType
<1> QED BY <1>1, <1>2 DEF QuotaOf

-----------------------------------------------------------------------------
LEMMA TypeStep ==
  ASSUME TypeOK, WithinQuota, [Next]_vars
  PROVE  TypeOK'
<1> USE DEF TypeOK, disk, book, company, worker, signals
<1>1. CASE ReadOrders
  <2>1. file.lines \in Seq(Line)
    BY DEF File
  <2>2. orders' \in Seq(Order)
    BY <1>1, <2>1, AnyType, FilterType DEF ReadOrders
  <2>3. skipped' \in Nat
    BY <1>1, <2>1, ShortLinesFinite, FS_CardinalityType DEF ReadOrders
  <2> QED BY <1>1, <2>2, <2>3 DEF ReadOrders, CompanyPC
<1>2. CASE StartDay
  BY <1>2 DEF StartDay, CompanyPC, WorkerPC
<1>3. CASE StartDayFails
  BY <1>3 DEF StartDayFails, CompanyPC
<1>4. CASE Finish
  BY <1>4 DEF Finish, CompanyPC
<1>5. CASE SelectTasks
  <2>1. PICK perf \in PerfOf(task) :
          result' \in Filter(file.lines, [Any EXCEPT !.perf = perf])
    BY <1>5 DEF SelectTasks
  <2>2. perf \in Int
    <3>1. CASE task < Len(orders)
      <4>1. orders[task + 1] \in Order
        BY <3>1
      <4> QED BY <4>1, <3>1, <2>1 DEF PerfOf, Order
    <3>2. CASE ~(task < Len(orders))
      BY <3>2, <2>1 DEF PerfOf
    <3> QED BY <3>1, <3>2
  <2>3. file.lines \in Seq(Line)
    BY DEF File
  <2>4. result' \in Seq(Order)
    BY <2>1, <2>2, <2>3, AnyType, FilterType
  <2> QED BY <1>5, <2>4 DEF SelectTasks, CompanyPC
<1>6. CASE AnnounceCount
  <2>1. Size(result) \in Int
    BY SizeType
  <2> QED BY <1>6, <2>1 DEF AnnounceCount, CompanyPC
<1>7. CASE WriteTask
  <2>1. i + 1 \in 1..Len(result)
    BY <1>7, SizeType DEF WriteTask, TaskLeft
  <2>2. result[i + 1] \in Order
    BY <2>1
  <2>3. result[i + 1].id \in Int
    BY <2>2 DEF Order
  <2> QED BY <1>7, <2>3, AppendProperties DEF WriteTask, CompanyPC
<1>8. CASE PauseForAck
  BY <1>8 DEF PauseForAck, CompanyPC
<1>9. CASE PauseForDone
  BY <1>9 DEF PauseForDone, CompanyPC
<1>10. CASE CompanyHandler
  <2>1. i' \in Nat /\ lost' \in Nat
    BY <1>10 DEF CompanyHandler
  <2>2. cpc' \in CompanyPC
    BY <1>10 DEF CompanyHandler, CompanyPC
  <2> QED BY <1>10, <2>1, <2>2 DEF CompanyHandler
<1>11. CASE WaitWorker
  BY <1>11 DEF WaitWorker, CompanyPC, WorkerPC
<1>12. CASE EndDay
  BY <1>12 DEF EndDay, CompanyPC
<1>13. CASE PauseForCount
  BY <1>13 DEF PauseForCount, WorkerPC
<1>14. CASE WorkerHandler
  BY <1>14 DEF WorkerHandler, WorkerPC
<1>15. CASE ReadTask
  <2>1. Head(pipe) \in Int /\ Tail(pipe) \in Seq(Int)
    BY <1>15, HeadTailProperties DEF ReadTask
  <2> QED BY <1>15, <2>1, AppendProperties DEF ReadTask, WorkerPC
<1>16. CASE Acknowledge
  BY <1>16 DEF Acknowledge, Signal, WorkerPC
<1>17. CASE ReportDone
  BY <1>17 DEF ReportDone, Signal, WorkerPC
<1>18. CASE Exit
  BY <1>18 DEF Exit, WorkerPC
<1>19. CASE UNCHANGED vars
  BY <1>19 DEF vars
<1>20. CASE MarkDone
  <2>1. j + 1 \in 1..Len(result)
    <3>1. j < i /\ i <= Quota
      BY <1>20 DEF MarkDone, WithinQuota
    <3> QED BY <3>1, QuotaType DEF Quota
  <2>2. result[j + 1] \in Order
    BY <2>1
  <2>3. file' \in File
    BY <1>20, <2>2, UpdateLines DEF MarkDone
  <2> QED BY <1>20, <2>3 DEF MarkDone, CompanyPC
<1>21. CASE MarkDoneFails
  BY <1>21 DEF MarkDoneFails
<1>22. CASE Rename
  BY <1>22 DEF Rename, CompanyPC
<1>23. CASE NothingToRead
  BY <1>23 DEF NothingToRead, CompanyPC
<1>24. CASE MarkDoneCrashes
  BY <1>24 DEF MarkDoneCrashes, CompanyPC
<1>25. CASE Kill
  <2>1. orders' \in Seq(Order) /\ result' \in Seq(Order)
    BY <1>25, EmptySeq DEF Kill
  <2>2. pipe' \in Seq(Int) /\ got' \in Seq(Int)
    BY <1>25, EmptySeq DEF Kill
  <2>3. file' \in File /\ named' \in BOOLEAN /\ killed' \in Nat
    BY <1>25 DEF Kill
  <2>4. usr1' \in BOOLEAN /\ sigterm' \subseteq Int
    BY <1>25 DEF Kill
  <2>5. cpc' \in CompanyPC /\ wpc' \in WorkerPC
    BY <1>25 DEF Kill, CompanyPC, WorkerPC
  <2>6. /\ day' \in Nat /\ task' \in Nat /\ skipped' \in Nat
        /\ i' \in Nat /\ j' \in Nat
        /\ count' \in Int /\ countRead' \in Nat /\ lost' \in Nat
    BY <1>25 DEF Kill
  <2> QED BY <2>1, <2>2, <2>3, <2>4, <2>5, <2>6
<1> QED
  BY <1>1, <1>2, <1>3, <1>4, <1>5, <1>6, <1>7, <1>8, <1>9, <1>10, <1>11,
     <1>12, <1>13, <1>14, <1>15, <1>16, <1>17, <1>18, <1>19, <1>20,
     <1>21, <1>22, <1>23, <1>24, <1>25
  DEF Next, CompanyStep, WorkerStep

-----------------------------------------------------------------------------
LEMMA QuotaStays ==
  ASSUME result' = result
  PROVE  Quota' = Quota /\ Size(result)' = Size(result)
BY DEF Quota, QuotaOf

\* The company appends the id of the next order to the pipe.
LEMMA IssueOne ==
  ASSUME NEW res \in Seq(Order), NEW read \in Seq(Int), NEW on \in Seq(Int),
         NEW n \in Nat, n + 1 \in 1..Len(res), Passed(res, read, on, n)
  PROVE  Passed(res, read, Append(on, res[n + 1].id), n + 1)
<1> DEFINE new == Append(on, res[n + 1].id)
<1>1. PICK a \in Nat, b \in Nat : a = Len(read) /\ b = Len(on)
  OBVIOUS
<1>2. /\ a + b = n
      /\ \A k \in 1..a : read[k] = res[k].id
      /\ \A k \in 1..b : on[k] = res[a + k].id
  BY <1>1 DEF Passed
<1>3. res[n + 1].id \in Int
  <2>1. res[n + 1] \in Order
    OBVIOUS
  <2> QED BY <2>1 DEF Order
<1>4. /\ Len(new) = b + 1
      /\ \A k \in 1..b : new[k] = on[k]
      /\ new[b + 1] = res[n + 1].id
  BY <1>1, <1>3, AppendProperties
<1> HIDE DEF new
<1>5. \A k \in 1..(b + 1) : new[k] = res[a + k].id
  <2> TAKE k \in 1..(b + 1)
  <2>1. CASE k \in 1..b
    BY <1>2, <1>4, <2>1
  <2>2. CASE k = b + 1
    <3>1. a + k = n + 1
      BY <1>2, <2>2
    <3> QED BY <1>4, <2>2, <3>1
  <2> QED BY <2>1, <2>2
<1>6. a + (b + 1) = n + 1
  BY <1>2
<1>7. Passed(res, read, new, n + 1)
  BY <1>1, <1>2, <1>4, <1>5, <1>6 DEF Passed
<1> QED BY <1>7 DEF new

\* The worker takes the first id from the pipe.
LEMMA ReadOne ==
  ASSUME NEW res \in Seq(Order), NEW read \in Seq(Int), NEW on \in Seq(Int),
         NEW n \in Nat, on # <<>>, Passed(res, read, on, n)
  PROVE  /\ Passed(res, Append(read, Head(on)), Tail(on), n)
         /\ Len(Append(read, Head(on))) = Len(read) + 1
<1> DEFINE new == Append(read, Head(on))
           rest == Tail(on)
<1>1. PICK a \in Nat, b \in Nat : a = Len(read) /\ b = Len(on)
  OBVIOUS
<1>2. /\ a + b = n
      /\ \A k \in 1..a : read[k] = res[k].id
      /\ \A k \in 1..b : on[k] = res[a + k].id
  BY <1>1 DEF Passed
<1>3. /\ b > 0 /\ Head(on) = on[1] /\ Head(on) \in Int
      /\ Len(rest) = b - 1
      /\ \A k \in 1..(b - 1) : rest[k] = on[k + 1]
  BY <1>1, HeadTailProperties
<1>4. /\ Len(new) = a + 1
      /\ \A k \in 1..a : new[k] = read[k]
      /\ new[a + 1] = on[1]
  BY <1>1, <1>3, AppendProperties
<1> HIDE DEF new, rest
<1>5. \A k \in 1..(a + 1) : new[k] = res[k].id
  <2> TAKE k \in 1..(a + 1)
  <2>1. CASE k \in 1..a
    BY <1>2, <1>4, <2>1
  <2>2. CASE k = a + 1
    BY <1>2, <1>3, <1>4, <2>2
  <2> QED BY <2>1, <2>2
<1>6. \A k \in 1..(b - 1) : rest[k] = res[(a + 1) + k].id
  <2> TAKE k \in 1..(b - 1)
  <2>1. k + 1 \in 1..b /\ (a + 1) + k = a + (k + 1)
    BY <1>3
  <2> QED BY <1>2, <1>3, <2>1
<1>7. (a + 1) + (b - 1) = n
  BY <1>2
<1>8. Passed(res, new, rest, n)
  BY <1>3, <1>4, <1>5, <1>6, <1>7 DEF Passed
<1> QED BY <1>1, <1>4, <1>8 DEF new, rest

LEMMA DayInit ==
  ASSUME Init
  PROVE  TypeOK /\ DayInv
<1>1. TypeOK
  <2>1. <<>> \in Seq(Order) /\ <<>> \in Seq(Int)
    BY EmptySeq
  <2>2. file \in File /\ named \in BOOLEAN /\ killed \in Nat
    BY DispatchAssumption DEF Init
  <2>3. orders \in Seq(Order) /\ result \in Seq(Order)
    BY <2>1 DEF Init
  <2>4. pipe \in Seq(Int) /\ got \in Seq(Int)
    BY <2>1 DEF Init
  <2>5. cpc \in CompanyPC /\ wpc \in WorkerPC
    BY DEF Init, CompanyPC, WorkerPC
  <2>6. usr1 \in BOOLEAN /\ sigterm \subseteq Int
    BY DEF Init
  <2>7. /\ day \in Nat /\ task \in Nat /\ skipped \in Nat /\ i \in Nat /\ j \in Nat
        /\ count \in Int /\ countRead \in Nat /\ lost \in Nat
    BY DEF Init
  <2> QED BY <2>2, <2>3, <2>4, <2>5, <2>6, <2>7 DEF TypeOK
<1>2. Quota \in Nat
  BY <1>1, QuotaType DEF TypeOK, Quota
<1> QED
  BY <1>1, <1>2 DEF Init, DayInv, Quiet, CountKnown, SignalBalance, WithinQuota,
     TasksInTransit, RecordedMeansWorked, Dispatching

\* What interrupts the company ends its pause or is lost: SIGUSR1 is counted once.
LEMMA HandlerBalance ==
  ASSUME TypeOK, Dispatching, SignalBalance, CompanyHandler
  PROVE  SignalBalance'
<1>1. i \in Nat /\ lost \in Nat
  BY DEF TypeOK
<1>2. SignalsSent = PausesEnded + lost + 1 /\ usr1' = FALSE
  BY DEF CompanyHandler, SignalBalance
<1>3. SignalsSent' = SignalsSent
  BY DEF CompanyHandler, SignalsSent, worker
<1>4. PausesEnded' + lost' + 0 = PausesEnded + lost + 1
  <2>1. CASE cpc = "awaitAck" /\ cpc' = "issue" /\ i' = i + 1 /\ lost' = lost
    BY <1>1, <2>1 DEF PausesEnded
  <2>2. CASE cpc = "awaitDone" /\ cpc' = "wait" /\ i' = i /\ lost' = lost
    BY <1>1, <2>2 DEF PausesEnded
  <2>3. CASE cpc' = cpc /\ i' = i /\ lost' = lost + 1
    <3>1. PausesEnded' = PausesEnded /\ PausesEnded \in Nat
      BY <1>1, <2>3 DEF PausesEnded
    <3> QED BY <1>1, <2>3, <3>1
  <2> QED BY <2>1, <2>2, <2>3 DEF CompanyHandler
<1> QED BY <1>2, <1>3, <1>4 DEF SignalBalance

LEMMA DayStep ==
  ASSUME TypeOK, DayInv, [Next]_vars
  PROVE  DayInv'
<1> USE DEF TypeOK, DayInv, disk, book, company, worker, signals, CompanyPC, WorkerPC
<1>0. /\ Quota \in Nat /\ Quota <= Len(result)
      /\ TaskLeft <=> i < Quota
  BY QuotaType DEF TaskLeft, Quota
<1>1. CASE ReadOrders
  <2> USE <1>1 DEF ReadOrders
  <2>0. Quota' = Quota /\ Size(result)' = Size(result)
    BY QuotaStays
  <2>1. Quiet'
    BY <1>0, <2>0 DEF Quiet, Dispatching
  <2>2. CountKnown'
    BY <1>0, <2>0 DEF CountKnown, Quiet, Dispatching
  <2>3. SignalBalance'
    BY <1>0, <2>0 DEF SignalBalance, Quiet, CountKnown, Dispatching, SignalsSent, PausesEnded
  <2>4. WithinQuota'
    BY <1>0, <2>0 DEF WithinQuota, Quiet, Dispatching
  <2>5. TasksInTransit'
    BY <1>0, <2>0 DEF TasksInTransit, Quiet, Dispatching, IssuedCount
  <2>6. RecordedMeansWorked'
    BY <1>0, <2>0 DEF RecordedMeansWorked
  <2> QED BY <2>1, <2>2, <2>3, <2>4, <2>5, <2>6
<1>2. CASE StartDay
  <2> USE <1>2 DEF StartDay
  <2>0. Quota' = Quota /\ Size(result)' = Size(result)
    BY QuotaStays
  <2>1. Quiet'
    BY <1>0, <2>0 DEF Quiet, Dispatching
  <2>2. CountKnown'
    BY <1>0, <2>0 DEF CountKnown, Quiet, Dispatching
  <2>3. SignalBalance'
    BY <1>0, <2>0 DEF SignalBalance, Quiet, CountKnown, Dispatching, SignalsSent, PausesEnded
  <2>4. WithinQuota'
    BY <1>0, <2>0 DEF WithinQuota, Quiet, Dispatching
  <2>5. TasksInTransit'
    BY <1>0, <2>0 DEF TasksInTransit, Quiet, Dispatching, IssuedCount
  <2>6. RecordedMeansWorked'
    BY <1>0, <2>0 DEF RecordedMeansWorked
  <2> QED BY <2>1, <2>2, <2>3, <2>4, <2>5, <2>6
<1>3. CASE StartDayFails
  <2> USE <1>3 DEF StartDayFails
  <2>0. Quota' = Quota /\ Size(result)' = Size(result)
    BY QuotaStays
  <2>1. Quiet'
    BY <1>0, <2>0 DEF Quiet, Dispatching
  <2>2. CountKnown'
    BY <1>0, <2>0 DEF CountKnown, Quiet, Dispatching
  <2>3. SignalBalance'
    BY <1>0, <2>0 DEF SignalBalance, Quiet, CountKnown, Dispatching, SignalsSent, PausesEnded
  <2>4. WithinQuota'
    BY <1>0, <2>0 DEF WithinQuota, Quiet, Dispatching
  <2>5. TasksInTransit'
    BY <1>0, <2>0 DEF TasksInTransit, Quiet, Dispatching, IssuedCount
  <2>6. RecordedMeansWorked'
    BY <1>0, <2>0 DEF RecordedMeansWorked
  <2> QED BY <2>1, <2>2, <2>3, <2>4, <2>5, <2>6
<1>4. CASE Finish
  <2> USE <1>4 DEF Finish
  <2>0. Quota' = Quota /\ Size(result)' = Size(result)
    BY QuotaStays
  <2>1. Quiet'
    BY <1>0, <2>0 DEF Quiet, Dispatching
  <2>2. CountKnown'
    BY <1>0, <2>0 DEF CountKnown, Quiet, Dispatching
  <2>3. SignalBalance'
    BY <1>0, <2>0 DEF SignalBalance, Quiet, CountKnown, Dispatching, SignalsSent, PausesEnded
  <2>4. WithinQuota'
    BY <1>0, <2>0 DEF WithinQuota, Quiet, Dispatching
  <2>5. TasksInTransit'
    BY <1>0, <2>0 DEF TasksInTransit, Quiet, Dispatching, IssuedCount
  <2>6. RecordedMeansWorked'
    BY <1>0, <2>0 DEF RecordedMeansWorked
  <2> QED BY <2>1, <2>2, <2>3, <2>4, <2>5, <2>6
<1>5. CASE SelectTasks
  <2> USE <1>5 DEF SelectTasks
  <2>1. Quiet'
    BY <1>0 DEF Quiet, Dispatching
  <2>2. CountKnown'
    BY <1>0 DEF CountKnown, Quiet, Dispatching
  <2>3. SignalBalance'
    BY <1>0 DEF SignalBalance, Quiet, CountKnown, Dispatching, SignalsSent, PausesEnded
  <2>4. WithinQuota'
    <3>1. result' \in Seq(Order)
      BY TypeStep
    <3>2. Quota' \in Nat
      BY <3>1, QuotaType DEF Quota
    <3> QED BY <3>2 DEF WithinQuota, Quiet, Dispatching
  <2>5. TasksInTransit'
    BY <1>0 DEF TasksInTransit, Quiet, Dispatching, IssuedCount
  <2>6. RecordedMeansWorked'
    BY <1>0 DEF RecordedMeansWorked
  <2> QED BY <2>1, <2>2, <2>3, <2>4, <2>5, <2>6
<1>6. CASE AnnounceCount
  <2> USE <1>6 DEF AnnounceCount
  <2>0. Quota' = Quota /\ Size(result)' = Size(result)
    BY QuotaStays
  <2>1. Quiet'
    BY <1>0, <2>0 DEF Quiet, Dispatching
  <2>2. CountKnown'
    BY <1>0, <2>0 DEF CountKnown, Quiet, Dispatching
  <2>3. SignalBalance'
    BY <1>0, <2>0 DEF SignalBalance, Quiet, CountKnown, Dispatching, SignalsSent, PausesEnded
  <2>4. WithinQuota'
    BY <1>0, <2>0 DEF WithinQuota, Quiet, Dispatching
  <2>5. TasksInTransit'
    <3>1. countRead = 0 /\ got = <<>> /\ pipe = <<>> /\ i = 0
      BY DEF Quiet
    <3>2. Passed(result, got, pipe, 0)
      BY <3>1 DEF Passed
    <3>3. wpc # "ack"
      BY DEF Quiet
    <3> QED BY <3>1, <3>2, <3>3 DEF TasksInTransit, IssuedCount
  <2>6. RecordedMeansWorked'
    BY <1>0, <2>0 DEF RecordedMeansWorked
  <2> QED BY <2>1, <2>2, <2>3, <2>4, <2>5, <2>6
<1>7. CASE WriteTask
  <2> USE <1>7 DEF WriteTask
  <2>0. Quota' = Quota /\ Size(result)' = Size(result)
    BY QuotaStays
  <2>1. Quiet'
    BY <1>0, <2>0 DEF Quiet, Dispatching
  <2>2. CountKnown'
    BY <1>0, <2>0 DEF CountKnown, Quiet, Dispatching
  <2>3. SignalBalance'
    BY <1>0, <2>0 DEF SignalBalance, Quiet, CountKnown, Dispatching, SignalsSent, PausesEnded
  <2>4. WithinQuota'
    BY <1>0, <2>0 DEF WithinQuota, Quiet, Dispatching
  <2>5. TasksInTransit'
    <3>1. Dispatching /\ IssuedCount = i /\ i + 1 \in 1..Len(result)
      BY <1>0 DEF Dispatching, IssuedCount
    <3>2. Passed(result, got, pipe', i + 1)
      BY <3>1, IssueOne DEF TasksInTransit
    <3> QED BY <3>1, <3>2 DEF TasksInTransit, IssuedCount
  <2>6. RecordedMeansWorked'
    BY <1>0, <2>0 DEF RecordedMeansWorked
  <2> QED BY <2>1, <2>2, <2>3, <2>4, <2>5, <2>6
<1>8. CASE PauseForAck
  <2> USE <1>8 DEF PauseForAck
  <2>0. Quota' = Quota /\ Size(result)' = Size(result)
    BY QuotaStays
  <2>1. Quiet'
    BY <1>0, <2>0 DEF Quiet, Dispatching
  <2>2. CountKnown'
    BY <1>0, <2>0 DEF CountKnown, Quiet, Dispatching
  <2>3. SignalBalance'
    BY <1>0, <2>0 DEF SignalBalance, Quiet, CountKnown, Dispatching, SignalsSent, PausesEnded
  <2>4. WithinQuota'
    BY <1>0, <2>0 DEF WithinQuota, Quiet, Dispatching
  <2>5. TasksInTransit'
    BY <1>0, <2>0 DEF TasksInTransit, Quiet, Dispatching, IssuedCount
  <2>6. RecordedMeansWorked'
    BY <1>0, <2>0 DEF RecordedMeansWorked
  <2> QED BY <2>1, <2>2, <2>3, <2>4, <2>5, <2>6
<1>9. CASE PauseForDone
  <2> USE <1>9 DEF PauseForDone
  <2>0. Quota' = Quota /\ Size(result)' = Size(result)
    BY QuotaStays
  <2>1. Quiet'
    BY <1>0, <2>0 DEF Quiet, Dispatching
  <2>2. CountKnown'
    BY <1>0, <2>0 DEF CountKnown, Quiet, Dispatching
  <2>3. SignalBalance'
    BY <1>0, <2>0 DEF SignalBalance, Quiet, CountKnown, Dispatching, SignalsSent, PausesEnded
  <2>4. WithinQuota'
    BY <1>0, <2>0 DEF WithinQuota, Quiet, Dispatching
  <2>5. TasksInTransit'
    BY <1>0, <2>0 DEF TasksInTransit, Quiet, Dispatching, IssuedCount
  <2>6. RecordedMeansWorked'
    BY <1>0, <2>0 DEF RecordedMeansWorked
  <2> QED BY <2>1, <2>2, <2>3, <2>4, <2>5, <2>6
<1>10. CASE CompanyHandler
  <2> USE <1>10 DEF CompanyHandler
  <2>0. Quota' = Quota /\ Size(result)' = Size(result)
    BY QuotaStays
  <2>1. Quiet'
    BY <1>0, <2>0 DEF Quiet, Dispatching
  <2>2. CountKnown'
    BY <1>0, <2>0 DEF CountKnown, Quiet, Dispatching
  <2>3. SignalBalance'
    BY HandlerBalance DEF Quiet
  <2>4. WithinQuota'
    BY <1>0, <2>0 DEF WithinQuota, Quiet, Dispatching
  <2>5. TasksInTransit'
    BY <1>0, <2>0 DEF TasksInTransit, Quiet, Dispatching, IssuedCount
  <2>6. RecordedMeansWorked'
    BY <1>0, <2>0 DEF RecordedMeansWorked
  <2> QED BY <2>1, <2>2, <2>3, <2>4, <2>5, <2>6
<1>11. CASE WaitWorker
  <2> USE <1>11 DEF WaitWorker
  <2>0. Quota' = Quota /\ Size(result)' = Size(result)
    BY QuotaStays
  <2>a. /\ i = Quota /\ countRead = Quota
        /\ countRead + 1 = i + 1 + lost + (IF usr1 THEN 1 ELSE 0)
    BY DEF WithinQuota, SignalBalance, Dispatching, SignalsSent, PausesEnded
  <2>b. lost = 0 /\ ~usr1
    BY <1>0, <2>a
  <2>c. Len(got) = i /\ got = IdsOf(result, i)
    <3>1. Len(got) = i /\ \A k \in 1..Len(got) : got[k] = result[k].id
      BY <2>a DEF TasksInTransit, Dispatching, Passed
    <3> QED BY <3>1 DEF IdsOf
  <2>1. Quiet'
    BY <2>b DEF Quiet, CountKnown, Dispatching
  <2>2. CountKnown'
    BY <1>0, <2>0 DEF CountKnown, Quiet, Dispatching
  <2>3. SignalBalance'
    BY <1>0, <2>0 DEF SignalBalance, Quiet, CountKnown, Dispatching, SignalsSent, PausesEnded
  <2>4. WithinQuota'
    BY <1>0, <2>0 DEF WithinQuota, Quiet, Dispatching
  <2>5. TasksInTransit'
    BY <1>0, <2>0 DEF TasksInTransit, Quiet, Dispatching, IssuedCount
  <2>6. RecordedMeansWorked'
    BY <2>0, <2>a, <2>c DEF RecordedMeansWorked, IdsOf
  <2> QED BY <2>1, <2>2, <2>3, <2>4, <2>5, <2>6
<1>12. CASE MarkDone
  <2> USE <1>12 DEF MarkDone
  <2>0. Quota' = Quota /\ Size(result)' = Size(result)
    BY QuotaStays
  <2>1. Quiet'
    BY <1>0, <2>0 DEF Quiet, Dispatching
  <2>2. CountKnown'
    BY <1>0, <2>0 DEF CountKnown, Quiet, Dispatching
  <2>3. SignalBalance'
    BY <1>0, <2>0 DEF SignalBalance, Quiet, CountKnown, Dispatching, SignalsSent, PausesEnded
  <2>4. WithinQuota'
    BY <1>0, <2>0 DEF WithinQuota, Quiet, Dispatching
  <2>5. TasksInTransit'
    BY <1>0, <2>0 DEF TasksInTransit, Quiet, Dispatching, IssuedCount
  <2>6. RecordedMeansWorked'
    BY <1>0, <2>0 DEF RecordedMeansWorked
  <2> QED BY <2>1, <2>2, <2>3, <2>4, <2>5, <2>6
<1>13. CASE EndDay
  <2> USE <1>13 DEF EndDay
  <2>0. Quota' = Quota /\ Size(result)' = Size(result)
    BY QuotaStays
  <2>1. Quiet'
    BY <1>0, <2>0 DEF Quiet, Dispatching
  <2>2. CountKnown'
    BY <1>0, <2>0 DEF CountKnown, Quiet, Dispatching
  <2>3. SignalBalance'
    BY <1>0, <2>0 DEF SignalBalance, Quiet, CountKnown, Dispatching, SignalsSent, PausesEnded
  <2>4. WithinQuota'
    BY <1>0, <2>0 DEF WithinQuota, Quiet, Dispatching
  <2>5. TasksInTransit'
    BY <1>0, <2>0 DEF TasksInTransit, Quiet, Dispatching, IssuedCount
  <2>6. RecordedMeansWorked'
    BY <1>0, <2>0 DEF RecordedMeansWorked
  <2> QED BY <2>1, <2>2, <2>3, <2>4, <2>5, <2>6
<1>14. CASE PauseForCount
  <2> USE <1>14 DEF PauseForCount
  <2>0. Quota' = Quota /\ Size(result)' = Size(result)
    BY QuotaStays
  <2>1. Quiet'
    BY <1>0, <2>0 DEF Quiet, Dispatching
  <2>2. CountKnown'
    BY <1>0, <2>0 DEF CountKnown, Quiet, Dispatching
  <2>3. SignalBalance'
    BY <1>0, <2>0 DEF SignalBalance, Quiet, CountKnown, Dispatching, SignalsSent, PausesEnded
  <2>4. WithinQuota'
    BY <1>0, <2>0 DEF WithinQuota, Quiet, Dispatching
  <2>5. TasksInTransit'
    BY <1>0, <2>0 DEF TasksInTransit, Quiet, Dispatching, IssuedCount
  <2>6. RecordedMeansWorked'
    BY <1>0, <2>0 DEF RecordedMeansWorked
  <2> QED BY <2>1, <2>2, <2>3, <2>4, <2>5, <2>6
<1>15. CASE WorkerHandler
  <2> USE <1>15 DEF WorkerHandler
  <2>0. Quota' = Quota /\ Size(result)' = Size(result)
    BY QuotaStays
  <2>1. Quiet'
    BY <1>0, <2>0 DEF Quiet, Dispatching
  <2>2. CountKnown'
    BY <1>0, <2>0 DEF CountKnown, Quiet, Dispatching
  <2>3. SignalBalance'
    BY <1>0, <2>0 DEF SignalBalance, Quiet, CountKnown, Dispatching, SignalsSent, PausesEnded
  <2>4. WithinQuota'
    BY <1>0, <2>0 DEF WithinQuota, Quiet, Dispatching
  <2>5. TasksInTransit'
    BY <1>0, <2>0 DEF TasksInTransit, Quiet, Dispatching, IssuedCount
  <2>6. RecordedMeansWorked'
    BY <1>0, <2>0 DEF RecordedMeansWorked
  <2> QED BY <2>1, <2>2, <2>3, <2>4, <2>5, <2>6
<1>16. CASE ReadTask
  <2> USE <1>16 DEF ReadTask
  <2>0. Quota' = Quota /\ Size(result)' = Size(result)
    BY QuotaStays
  <2>a. Dispatching /\ cpc \notin {"record", "rename"}
    BY DEF Quiet, Dispatching
  <2>b. count = Size(result) /\ (ReadLeft <=> countRead < Quota)
    BY <2>a, QuotaType DEF CountKnown, ReadLeft, Quota
  <2>1. Quiet'
    BY <1>0, <2>0 DEF Quiet, Dispatching
  <2>2. CountKnown'
    BY <1>0, <2>0 DEF CountKnown, Quiet, Dispatching
  <2>3. SignalBalance'
    BY <1>0, <2>0 DEF SignalBalance, Quiet, CountKnown, Dispatching, SignalsSent, PausesEnded
  <2>4. WithinQuota'
    BY <1>0, <2>0, <2>a, <2>b DEF WithinQuota, Quiet, Dispatching
  <2>5. TasksInTransit'
    <3>1. Passed(result, got, pipe, IssuedCount) /\ Len(got) = countRead
      BY <2>a DEF TasksInTransit
    <3>2. IssuedCount \in Nat
      BY DEF IssuedCount
    <3>3. /\ Passed(result, got', pipe', IssuedCount)
          /\ Len(got') = countRead + 1
      BY <3>1, <3>2, ReadOne
    <3> QED BY <2>a, <3>3 DEF TasksInTransit, Dispatching, IssuedCount
  <2>6. RecordedMeansWorked'
    BY <2>a DEF RecordedMeansWorked
  <2> QED BY <2>1, <2>2, <2>3, <2>4, <2>5, <2>6
<1>17. CASE Acknowledge
  <2> USE <1>17 DEF Acknowledge, Signal
  <2>0. Quota' = Quota /\ Size(result)' = Size(result)
    BY QuotaStays
  <2>a. Dispatching /\ cpc \notin {"record", "rename"}
    BY DEF Quiet, Dispatching
  <2>1. Quiet'
    BY <1>0, <2>0 DEF Quiet, Dispatching
  <2>2. CountKnown'
    BY <1>0, <2>0 DEF CountKnown, Quiet, Dispatching
  <2>3. SignalBalance'
    BY <1>0, <2>0 DEF SignalBalance, Quiet, CountKnown, Dispatching, SignalsSent, PausesEnded
  <2>4. WithinQuota'
    BY <1>0, <2>0 DEF WithinQuota, Quiet, Dispatching
  <2>5. TasksInTransit'
    BY <1>0, <2>0 DEF TasksInTransit, Quiet, Dispatching, IssuedCount
  <2>6. RecordedMeansWorked'
    BY <2>a DEF RecordedMeansWorked
  <2> QED BY <2>1, <2>2, <2>3, <2>4, <2>5, <2>6
<1>18. CASE ReportDone
  <2> USE <1>18 DEF ReportDone, Signal
  <2>0. Quota' = Quota /\ Size(result)' = Size(result)
    BY QuotaStays
  <2>a. Dispatching /\ cpc \notin {"record", "rename"}
    BY DEF Quiet, Dispatching
  <2>b. count = Size(result) /\ (ReadLeft <=> countRead < Quota)
    BY <2>a, QuotaType DEF CountKnown, ReadLeft, Quota
  <2>1. Quiet'
    BY <1>0, <2>0 DEF Quiet, Dispatching
  <2>2. CountKnown'
    BY <1>0, <2>0 DEF CountKnown, Quiet, Dispatching
  <2>3. SignalBalance'
    BY <1>0, <2>0 DEF SignalBalance, Quiet, CountKnown, Dispatching, SignalsSent, PausesEnded
  <2>4. WithinQuota'
    BY <1>0, <2>0, <2>a, <2>b DEF WithinQuota, Quiet, Dispatching
  <2>5. TasksInTransit'
    BY <1>0, <2>0 DEF TasksInTransit, Quiet, Dispatching, IssuedCount
  <2>6. RecordedMeansWorked'
    BY <2>a DEF RecordedMeansWorked
  <2> QED BY <2>1, <2>2, <2>3, <2>4, <2>5, <2>6
<1>19. CASE Exit
  <2> USE <1>19 DEF Exit
  <2>0. Quota' = Quota /\ Size(result)' = Size(result)
    BY QuotaStays
  <2>1. Quiet'
    BY <1>0, <2>0 DEF Quiet, Dispatching
  <2>2. CountKnown'
    BY <1>0, <2>0 DEF CountKnown, Quiet, Dispatching
  <2>3. SignalBalance'
    BY <1>0, <2>0 DEF SignalBalance, Quiet, CountKnown, Dispatching, SignalsSent, PausesEnded
  <2>4. WithinQuota'
    BY <1>0, <2>0 DEF WithinQuota, Quiet, Dispatching
  <2>5. TasksInTransit'
    BY <1>0, <2>0 DEF TasksInTransit, Quiet, Dispatching, IssuedCount
  <2>6. RecordedMeansWorked'
    BY <1>0, <2>0 DEF RecordedMeansWorked
  <2> QED BY <2>1, <2>2, <2>3, <2>4, <2>5, <2>6
<1>20. CASE UNCHANGED vars
  BY <1>20, QuotaStays DEF vars, Quiet, CountKnown, SignalBalance, WithinQuota,
     TasksInTransit, RecordedMeansWorked, Dispatching, SignalsSent, PausesEnded,
     IssuedCount, IdsOf
<1>21. CASE MarkDoneFails
  <2> USE <1>21 DEF MarkDoneFails
  <2>0. Quota' = Quota /\ Size(result)' = Size(result)
    BY QuotaStays
  <2>1. Quiet'
    BY <1>0, <2>0 DEF Quiet, Dispatching
  <2>2. CountKnown'
    BY <1>0, <2>0 DEF CountKnown, Quiet, Dispatching
  <2>3. SignalBalance'
    BY <1>0, <2>0 DEF SignalBalance, Quiet, CountKnown, Dispatching, SignalsSent, PausesEnded
  <2>4. WithinQuota'
    BY <1>0, <2>0 DEF WithinQuota, Quiet, Dispatching
  <2>5. TasksInTransit'
    BY <1>0, <2>0 DEF TasksInTransit, Quiet, Dispatching, IssuedCount
  <2>6. RecordedMeansWorked'
    BY <1>0, <2>0 DEF RecordedMeansWorked
  <2> QED BY <2>1, <2>2, <2>3, <2>4, <2>5, <2>6
<1>22. CASE Rename
  <2> USE <1>22 DEF Rename
  <2>0. Quota' = Quota /\ Size(result)' = Size(result)
    BY QuotaStays
  <2>1. Quiet'
    BY <1>0, <2>0 DEF Quiet, Dispatching
  <2>2. CountKnown'
    BY <1>0, <2>0 DEF CountKnown, Quiet, Dispatching
  <2>3. SignalBalance'
    BY <1>0, <2>0 DEF SignalBalance, Quiet, CountKnown, Dispatching, SignalsSent, PausesEnded
  <2>4. WithinQuota'
    BY <1>0, <2>0 DEF WithinQuota, Quiet, Dispatching
  <2>5. TasksInTransit'
    BY <1>0, <2>0 DEF TasksInTransit, Quiet, Dispatching, IssuedCount
  <2>6. RecordedMeansWorked'
    BY <1>0, <2>0 DEF RecordedMeansWorked
  <2> QED BY <2>1, <2>2, <2>3, <2>4, <2>5, <2>6
<1>23. CASE NothingToRead
  <2> USE <1>23 DEF NothingToRead
  <2>0. Quota' = Quota /\ Size(result)' = Size(result)
    BY QuotaStays
  <2>1. Quiet'
    BY <1>0, <2>0 DEF Quiet, Dispatching
  <2>2. CountKnown'
    BY <1>0, <2>0 DEF CountKnown, Quiet, Dispatching
  <2>3. SignalBalance'
    BY <1>0, <2>0 DEF SignalBalance, Quiet, CountKnown, Dispatching, SignalsSent, PausesEnded
  <2>4. WithinQuota'
    BY <1>0, <2>0 DEF WithinQuota, Quiet, Dispatching
  <2>5. TasksInTransit'
    BY <1>0, <2>0 DEF TasksInTransit, Quiet, Dispatching, IssuedCount
  <2>6. RecordedMeansWorked'
    BY <1>0, <2>0 DEF RecordedMeansWorked
  <2> QED BY <2>1, <2>2, <2>3, <2>4, <2>5, <2>6
<1>24. CASE MarkDoneCrashes
  <2> USE <1>24 DEF MarkDoneCrashes
  <2>0. Quota' = Quota /\ Size(result)' = Size(result)
    BY QuotaStays
  <2>1. Quiet'
    BY <1>0, <2>0 DEF Quiet, Dispatching
  <2>2. CountKnown'
    BY <1>0, <2>0 DEF CountKnown, Quiet, Dispatching
  <2>3. SignalBalance'
    BY <1>0, <2>0 DEF SignalBalance, Quiet, CountKnown, Dispatching, SignalsSent, PausesEnded
  <2>4. WithinQuota'
    BY <1>0, <2>0 DEF WithinQuota, Quiet, Dispatching
  <2>5. TasksInTransit'
    BY <1>0, <2>0 DEF TasksInTransit, Quiet, Dispatching, IssuedCount
  <2>6. RecordedMeansWorked'
    BY <1>0, <2>0 DEF RecordedMeansWorked
  <2> QED BY <2>1, <2>2, <2>3, <2>4, <2>5, <2>6
<1>25. CASE Kill
  <2> USE <1>25 DEF Kill
  <2>1. Quiet' /\ CountKnown' /\ SignalBalance' /\ TasksInTransit'
    BY DEF Quiet, CountKnown, SignalBalance, TasksInTransit, Dispatching
  <2>2. WithinQuota'
    <3>1. result' \in Seq(Order)
      BY TypeStep
    <3>2. Quota' \in Nat
      BY <3>1, QuotaType DEF Quota
    <3> QED BY <3>2 DEF WithinQuota, Dispatching
  <2>3. RecordedMeansWorked'
    BY DEF RecordedMeansWorked
  <2> QED BY <2>1, <2>2, <2>3
<1> QED
  BY <1>1, <1>2, <1>3, <1>4, <1>5, <1>6, <1>7, <1>8, <1>9, <1>10, <1>11, <1>12, <1>13, <1>14, <1>15, <1>16, <1>17, <1>18, <1>19, <1>20,
     <1>21, <1>22, <1>23, <1>24, <1>25
  DEF Next, CompanyStep, WorkerStep

-----------------------------------------------------------------------------
(***************************************************************************)
(* DayInv and the types hold in every reachable state.                     *)
(***************************************************************************)
THEOREM DayInvariant == Spec => [](TypeOK /\ DayInv)
<1>1. Init => TypeOK /\ DayInv
  BY DayInit
<1>2. TypeOK /\ DayInv /\ [Next]_vars => (TypeOK /\ DayInv)'
  BY TypeStep, DayStep DEF DayInv
<1> QED BY <1>1, <1>2, PTL DEF Spec

(***************************************************************************)
(* Every variable keeps its type; with WithinQuota, the arrays of orders   *)
(* are never indexed beyond what filter returned.                          *)
(***************************************************************************)
THEOREM TypeCorrect == Spec => []TypeOK
BY DayInvariant, PTL

(***************************************************************************)
(* The worker reads the ids the company issued, in order and one at a      *)
(* time, for every number of orders and whatever the signals do.           *)
(***************************************************************************)
THEOREM HandshakeCorrect == Spec => []Handshake
<1>1. TypeOK /\ DayInv => Handshake
  <2> SUFFICES ASSUME TypeOK, DayInv, Dispatching
               PROVE  got \o pipe = IdsOf(result, IssuedCount) /\ Len(pipe) <= 1
    BY DEF Handshake
  <2>1. PICK a \in Nat, b \in Nat : a = Len(got) /\ b = Len(pipe)
    BY DEF TypeOK
  <2>2. /\ a + b = IssuedCount
        /\ \A k \in 1..a : got[k] = result[k].id
        /\ \A k \in 1..b : pipe[k] = result[a + k].id
    BY <2>1 DEF DayInv, TasksInTransit, Passed
  <2>3. /\ got \o pipe \in Seq(Int)
        /\ Len(got \o pipe) = a + b
        /\ \A k \in 1..(a + b) :
             (got \o pipe)[k] = IF k <= a THEN got[k] ELSE pipe[k - a]
    BY <2>1, ConcatProperties DEF TypeOK
  <2>4. \A k \in 1..(a + b) : (got \o pipe)[k] = result[k].id
    <3> TAKE k \in 1..(a + b)
    <3>1. CASE k <= a
      BY <2>2, <2>3, <3>1
    <3>2. CASE ~(k <= a)
      <4>1. k - a \in 1..b /\ a + (k - a) = k
        BY <3>2
      <4> QED BY <2>2, <2>3, <3>2, <4>1
    <3> QED BY <3>1, <3>2
  <2>5. got \o pipe = IdsOf(result, IssuedCount)
    <3>1. got \o pipe = [k \in 1..(a + b) |-> (got \o pipe)[k]]
      <4> DEFINE q == got \o pipe
      <4>1. q \in Seq(Int) /\ Len(q) = a + b
        BY <2>3
      <4> HIDE DEF q
      <4>2. q \in [1..(a + b) -> Int]
        BY <4>1, LenProperties
      <4>3. q = [k \in 1..(a + b) |-> q[k]]
        BY <4>2
      <4> QED BY <4>3 DEF q
    <3>2. [k \in 1..(a + b) |-> (got \o pipe)[k]] =
            [k \in 1..(a + b) |-> result[k].id]
      BY <2>4
    <3> QED BY <2>2, <3>1, <3>2 DEF IdsOf
  <2>6. b <= 1
    <3>1. /\ a = IF wpc = "ack" THEN countRead + 1 ELSE countRead
          /\ SignalsSent = PausesEnded + lost + (IF usr1 THEN 1 ELSE 0)
      BY <2>1 DEF DayInv, TasksInTransit, SignalBalance
    <3>2. /\ IssuedCount <= Quota /\ IssuedCount <= i + 1 /\ PausesEnded >= i
          /\ IssuedCount \in Nat /\ PausesEnded \in Nat /\ Quota \in Nat
      BY QuotaType DEF TypeOK, DayInv, WithinQuota, IssuedCount, PausesEnded, Quota
    <3>3. CASE wpc \in {"leave", "gone"}
      <4>1. a = Quota
        BY <3>1, <3>3 DEF DayInv, WithinQuota
      <4> QED BY <2>2, <3>2, <4>1
    <3>4. CASE wpc \notin {"leave", "gone"}
      <4>1. i <= countRead /\ countRead <= a
        BY <3>1, <3>2, <3>4 DEF SignalsSent, TypeOK
      <4> QED BY <2>2, <3>2, <4>1 DEF TypeOK
    <3> QED BY <3>3, <3>4
  <2> QED BY <2>1, <2>5, <2>6
<1> QED BY <1>1, DayInvariant, PTL

(***************************************************************************)
(* When the company starts to mark orders, the day's worker has read and   *)
(* answered each of them and is finished.                                  *)
(***************************************************************************)
THEOREM RecordedCorrect == Spec => []RecordedMeansWorked
<1>1. DayInv => RecordedMeansWorked
  BY DEF DayInv
<1> QED BY <1>1, DayInvariant, PTL

(***************************************************************************)
(* A lost wake-up keeps the company from waiting for the worker and from   *)
(* marking anything: no pause is ended by a signal meant for another one.  *)
(***************************************************************************)
THEOREM LossIsSafe == Spec => []NothingRecordedAfterLoss
<1>1. TypeOK /\ DayInv => NothingRecordedAfterLoss
  <2> SUFFICES ASSUME TypeOK, DayInv, WakeUpLost
               PROVE  cpc \in {"issue", "sent", "awaitAck", "awaitDone"}
    BY DEF NothingRecordedAfterLoss
  <2>1. Dispatching
    BY DEF DayInv, Quiet, WakeUpLost, CountMissed, TypeOK
  <2>2. ASSUME cpc = "wait" PROVE FALSE
    <3>1. SignalsSent = i + 1 + lost + (IF usr1 THEN 1 ELSE 0)
      BY <2>1, <2>2 DEF DayInv, SignalBalance, PausesEnded
    <3>2. /\ i = Quota /\ countRead <= i
          /\ wpc \in {"fresh", "idle"} => countRead = 0
      BY <2>1, <2>2 DEF DayInv, WithinQuota, CountKnown
    <3>3. lost = 0
      BY <3>1, <3>2 DEF SignalsSent, TypeOK
    <3>4. wpc \notin {"fresh", "idle"}
      BY <3>1, <3>2 DEF SignalsSent, TypeOK
    <3> QED BY <3>3, <3>4 DEF WakeUpLost, CountMissed
  <2> QED BY <2>1, <2>2 DEF Dispatching
<1> QED BY <1>1, DayInvariant, PTL

(***************************************************************************)
(* Company and worker wait for each other only if a wake-up was lost,      *)
(* whatever the daily maximum and the number of orders found.              *)
(***************************************************************************)
THEOREM NoOtherHang == Spec => []HangsOnlyByLoss
<1>1. TypeOK /\ DayInv => HangsOnlyByLoss
  <2> SUFFICES ASSUME TypeOK, DayInv, ~usr1, WorkerStuck, lost = 0,
                      cpc \in {"awaitAck", "awaitDone"}
               PROVE  CountMissed
    BY DEF HangsOnlyByLoss, WakeUpLost, TypeOK
  <2>1. Dispatching /\ SignalsSent = i
    BY DEF DayInv, SignalBalance, Dispatching, PausesEnded, TypeOK
  <2>2. wpc # "none" /\ i <= Quota /\ Quota \in Nat
    BY <2>1, QuotaType DEF DayInv, WithinQuota, TypeOK, Quota
  <2>3. CASE wpc = "idle" /\ sigterm = {}
    BY <2>1, <2>3 DEF CountMissed
  <2>4. CASE wpc = "read" /\ ReadLeft /\ pipe = <<>>
    <3>1. countRead = i /\ Len(got) = i /\ Len(got) + Len(pipe) = IssuedCount
      BY <2>1, <2>4 DEF SignalsSent, DayInv, TasksInTransit, Passed
    <3>2. IssuedCount = i
      BY <2>4, <3>1 DEF TypeOK
    <3>3. cpc = "awaitDone" /\ i = Quota
      BY <3>2 DEF IssuedCount, DayInv, WithinQuota, TypeOK
    <3>4. countRead < Quota
      BY <2>1, <2>4, QuotaType DEF DayInv, CountKnown, ReadLeft, TypeOK, Quota
    <3> QED BY <3>1, <3>3, <3>4 DEF TypeOK
  <2>5. CASE wpc = "gone"
    <3>1. countRead = Quota /\ countRead + 1 = i
      BY <2>1, <2>5 DEF SignalsSent, DayInv, WithinQuota
    <3> QED BY <2>2, <3>1 DEF TypeOK
  <2> QED BY <2>2, <2>3, <2>4, <2>5 DEF WorkerStuck
<1> QED BY <1>1, DayInvariant, PTL

-----------------------------------------------------------------------------
\* No order is lost, moved before another or changed but by a mark.
LEMMA UpdateKeeps ==
  ASSUME NEW old \in File, NEW f \in Order,
         NEW new \in Update(old, f, [Any EXCEPT !.done = 1])
  PROVE  Kept(old, new)
<1> DEFINE all == {n \in DOMAIN old.lines : old.ended \/ n < Len(old.lines)}
<1>1. PICK place \in [1..Len(Copied(old)) -> 1..Len(new.lines)] :
        /\ \A n, m \in 1..Len(Copied(old)) : n < m => place[n] < place[m]
        /\ \A n \in 1..Len(Copied(old)) :
             ~Short(old.lines[n]) =>
               new.lines[place[n]] =
                 IF Matches(f, old.lines[n]) THEN Marked(old.lines[n])
                 ELSE old.lines[n]
  BY UpdateLines
<1>2. new.lines \in Seq(Line) /\ old.lines \in Seq(Line) /\ old.ended \in BOOLEAN
  <2>1. new \in File
    BY UpdateLines
  <2> QED BY <2>1 DEF File
<1>3. DOMAIN new.lines = 1..Len(new.lines) /\ DOMAIN old.lines = 1..Len(old.lines)
  BY <1>2
<1>4. all = 1..Len(Copied(old))
  <2>1. PICK n \in Nat : n = Len(old.lines)
    BY <1>2
  <2>2. CASE old.ended
    BY <1>3, <2>1, <2>2, CopiedType
  <2>3. CASE ~old.ended
    <3>1. \/ n = 0 /\ Len(Copied(old)) = 0
          \/ Len(Copied(old)) = n - 1
      BY <2>1, <2>3, CopiedType, EmptySeq
    <3>2. all = {k \in 1..n : k < n}
      BY <1>3, <2>1, <2>3
    <3> QED BY <2>1, <3>1, <3>2
  <2> QED BY <2>2, <2>3
<1> HIDE DEF all
<1>5. place \in [all -> DOMAIN new.lines]
  BY <1>1, <1>3, <1>4
<1> QED BY <1>1, <1>4, <1>5 DEF Kept, all

\* An order that was not in the file belongs to the order in the filter.
LEMMA UpdateMarks ==
  ASSUME NEW old \in File, NEW f \in Order, f.id >= 0,
         NEW new \in Update(old, f, [Any EXCEPT !.done = 1]),
         NEW k \in DOMAIN new.lines, ~Short(new.lines[k]),
         \A m \in DOMAIN old.lines : new.lines[k] # old.lines[m]
  PROVE  new.lines[k].id = f.id
<1>1. DOMAIN new.lines = 1..Len(new.lines) /\ DOMAIN old.lines = 1..Len(old.lines)
  BY UpdateLines DEF File
<1>2. \E a \in Order : Matches(f, a) /\ new.lines[k] = Marked(a)
  <2>1. \A l \in 1..Len(new.lines) :
          \/ Short(new.lines[l])
          \/ \E n \in 1..Len(old.lines) : new.lines[l] = old.lines[n]
          \/ \E a \in Order : Matches(f, a) /\ new.lines[l] = Marked(a)
    BY UpdateLines
  <2>2. k \in 1..Len(new.lines)
    BY <1>1
  <2>3. ~\E n \in 1..Len(old.lines) : new.lines[k] = old.lines[n]
    BY <1>1
  <2> QED BY <2>1, <2>2, <2>3, Zenon
<1>3. PICK a \in Order : Matches(f, a) /\ new.lines[k] = Marked(a)
  BY <1>2
<1>4. a.id = f.id
  BY <1>3 DEF Matches
<1> QED BY <1>3, <1>4 DEF Marked, Order

LEMMA OnlyUpdateWrites ==
  ASSUME [Next]_vars, ~MarkDone
  PROVE  file' = file
<1> USE DEF disk, book, company
<1>1. CASE UNCHANGED vars
  BY <1>1 DEF vars
<1>2. CASE WorkerStep \/ WorkerHandler
  BY <1>2 DEF WorkerStep, WorkerHandler, PauseForCount, ReadTask, Acknowledge,
     ReportDone, Exit
<1>3. CASE StartDayFails \/ CompanyHandler \/ Kill
  BY <1>3 DEF StartDayFails, CompanyHandler, Kill
<1>4. CASE CompanyStep
  BY <1>4 DEF CompanyStep, ReadOrders, NothingToRead, StartDay, Finish,
     SelectTasks, AnnounceCount, WriteTask, PauseForAck, PauseForDone,
     WaitWorker, MarkDoneFails, MarkDoneCrashes, Rename, EndDay
<1> QED BY <1>1, <1>2, <1>3, <1>4 DEF Next

\* The order that update gets is one of the day's quota.
LEMMA DispatchedType ==
  ASSUME TypeOK, DayInv, MarkDone
  PROVE  j + 1 \in 1..i /\ j + 1 \in 1..Len(result) /\ result[j + 1] \in Order
<1>1. j < i /\ i <= Quota
  BY DEF MarkDone, DayInv, WithinQuota
<1>2. j + 1 \in 1..i /\ j + 1 \in 1..Len(result)
  BY <1>1, QuotaType DEF Quota, TypeOK
<1> QED BY <1>2 DEF TypeOK

NameKept == named \/ cpc = "rename" \/ (killed > 0 /\ cpc \in {"start", "crashed"})

(***************************************************************************)
(* Whatever is killed when, data.txt lacks its name only inside update and *)
(* after a kill there, and under both names every order is still there     *)
(* with the mark it had.                                                   *)
(***************************************************************************)
THEOREM DatabaseSurvivesCorrect == Spec => DatabaseSurvives
<1>1. Init => NameKept
  BY DEF Init, NameKept
<1>2. ASSUME TypeOK, DayInv, NameKept, [Next]_vars
      PROVE  NameKept'
  <2> USE DEF NameKept, disk, book, company
  <2>1. CASE UNCHANGED vars
    BY <1>2, <2>1 DEF vars
  <2>2. CASE WorkerStep \/ WorkerHandler
    BY <1>2, <2>2 DEF WorkerStep, WorkerHandler, PauseForCount, ReadTask, Acknowledge,
       ReportDone, Exit
  <2>3. CASE StartDayFails \/ CompanyHandler
    BY <1>2, <2>3 DEF StartDayFails, CompanyHandler
  <2>4. CASE Kill
    BY <1>2, <2>4 DEF Kill, TypeOK
  <2>5. CASE CompanyStep
    BY <1>2, <2>5 DEF CompanyStep, ReadOrders, NothingToRead, StartDay, Finish,
       SelectTasks, AnnounceCount, WriteTask, PauseForAck, PauseForDone, WaitWorker,
       MarkDone, MarkDoneFails, MarkDoneCrashes, Rename, EndDay
  <2> QED BY <1>2, <2>1, <2>2, <2>3, <2>4, <2>5 DEF Next
<1>3. ASSUME TypeOK, DayInv, [Next]_vars
      PROVE  Kept(file, file')
  <2>0. file \in File
    BY <1>3 DEF TypeOK
  <2>1. CASE MarkDone
    BY <1>3, <2>0, <2>1, DispatchedType, UpdateKeeps DEF MarkDone
  <2>2. CASE ~MarkDone
    BY <1>3, <2>2, OnlyUpdateWrites DEF Kept
  <2> QED BY <2>1, <2>2
<1>4. NameKept => (named \/ cpc = "rename" \/ (killed > 0 /\ cpc \in {"start", "crashed"}))
  BY DEF NameKept
<1>5. Spec => []NameKept
  BY <1>1, <1>2, DayInvariant, PTL DEF Spec
<1>6. Spec => [][Kept(file, file')]_vars
  BY <1>3, DayInvariant, PTL DEF Spec
<1> QED BY <1>4, <1>5, <1>6, PTL DEF DatabaseSurvives

(***************************************************************************)
(* update changes a line only to mark an order that the worker of the day  *)
(* had read, as long as the day's orders have no negative ids.             *)
(***************************************************************************)
THEOREM OnlyWorkedIsMarked == Spec => MarksOnlyWorked
<1>1. ASSUME TypeOK, DayInv, [Next]_vars,
             NEW n \in DOMAIN file'.lines, ~Short(file'.lines[n]),
             \A m \in DOMAIN file.lines : file'.lines[n] # file.lines[m],
             \A k \in 1..i : result[k].id >= 0
      PROVE  \E k \in DOMAIN got : got[k] = file'.lines[n].id
  <2>1. MarkDone
    BY <1>1, OnlyUpdateWrites
  <2>2. j + 1 \in 1..i /\ result[j + 1] \in Order /\ file \in File
    BY <1>1, <2>1, DispatchedType DEF TypeOK
  <2>3. result[j + 1].id >= 0
    BY <1>1, <2>2
  <2>4. file'.lines[n].id = result[j + 1].id
    BY <1>1, <2>1, <2>2, <2>3, UpdateMarks DEF MarkDone
  <2>5. got = IdsOf(result, i)
    BY <1>1, <2>1 DEF MarkDone, DayInv, RecordedMeansWorked
  <2>6. j + 1 \in DOMAIN got /\ got[j + 1] = result[j + 1].id
    BY <2>2, <2>5 DEF IdsOf
  <2> QED BY <2>4, <2>6
<1>2. TypeOK /\ DayInv /\ [Next]_vars =>
        (\A n \in DOMAIN file'.lines :
           (/\ ~Short(file'.lines[n])
            /\ \A m \in DOMAIN file.lines : file'.lines[n] # file.lines[m]
            /\ \A k \in 1..i : result[k].id >= 0)
             => \E k \in DOMAIN got : got[k] = file'.lines[n].id)
  BY <1>1
<1> QED BY <1>2, DayInvariant, PTL DEF Spec, MarksOnlyWorked

-----------------------------------------------------------------------------
(***************************************************************************)
(* TidyInv: why they get done.  Handled tasks have been marked today or on *)
(* an earlier day, and today's began behind the first Before of them, at   *)
(* an order whose performance differs from the one before.  As long as     *)
(* there are orders left, the day's filter finds the next one or two,      *)
(* unmarked ones as they are in the file, so that no day goes by without   *)
(* progress.  It is inductive, if a worker takes two orders a day.         *)
(***************************************************************************)
Marking == cpc \in {"record", "rename"}
Before  == IF Marking THEN task - j ELSE task
Handled == IF cpc = "rename" THEN task + 1 ELSE task

OneOf(line, a) == line \in {a, Marked(a)}

Boundary(n) ==
  n = 0 \/ n >= Len(orders) \/ orders[n].perf # orders[n + 1].perf

MarksOnly ==
  /\ orders \in Seq(Whole) /\ Len(file.lines) <= Len(orders)
  /\ \A n \in DOMAIN file.lines : OneOf(file.lines[n], orders[n])

DaysWork ==
  /\ Len(result) \in 1..2 /\ Before + Len(result) <= Len(orders)
  /\ Boundary(Before + Len(result))
  /\ \A k \in 1..Len(result) :
       /\ OneOf(result[k], orders[Before + k])
       /\ Before + k > Handled => result[k] = file.lines[Before + k]

Progress ==
  /\ Boundary(Before)
  /\ Before >= day \/ Before >= Len(orders)
  /\ \A n \in DOMAIN orders : n <= Handled => file.lines[n].done = 1
  /\ cpc \notin {"day", "select", "finished", "failed"} /\ Before < Len(orders)
       => DaysWork

TidyInv ==
  /\ cpc = "start" => task = 0 /\ day = 0
  /\ Marking => j <= i /\ j <= task /\ (cpc = "rename" => j < i)
  /\ cpc = "finished" => ~DayLeft
  /\ cpc \notin {"start", "crashed"} /\ skipped = 0 =>
       MarksOnly /\ (Tidy => Progress)

\* Only the mark of an order differs from what company() read.
LEMMA OneOfType ==
  ASSUME NEW a \in Whole, NEW line, OneOf(line, a)
  PROVE  /\ line \in Whole /\ line \in Order
         /\ line.id = a.id /\ line.perf = a.perf
         /\ OneOf(Marked(line), a)
<1>1. line \in Whole
  BY MarkedWhole DEF OneOf
<1> QED BY <1>1, WholeType DEF OneOf, Order, Marked

LEMMA MatchesItself ==
  ASSUME NEW a \in Order
  PROVE  Matches(a, a)
BY TextAssumption DEF Matches, Order

\* What is in the file are orders, with the ids and performances of `orders`.
LEMMA LinesType ==
  ASSUME TypeOK, MarksOnly
  PROVE  /\ file.lines \in Seq(Whole)
         /\ Len(file.lines) \in Nat /\ Len(orders) \in Nat
         /\ DOMAIN file.lines = 1..Len(file.lines)
         /\ DOMAIN orders = 1..Len(orders)
         /\ \A n \in 1..Len(file.lines) :
              /\ n \in 1..Len(orders)
              /\ orders[n] \in Whole /\ OneOf(file.lines[n], orders[n])
              /\ file.lines[n] \in Whole /\ file.lines[n] \in Order
              /\ file.lines[n].id = orders[n].id
              /\ file.lines[n].perf = orders[n].perf
<1>1. /\ file.lines \in Seq(Line) /\ orders \in Seq(Whole)
      /\ Len(file.lines) <= Len(orders)
      /\ \A n \in DOMAIN file.lines : OneOf(file.lines[n], orders[n])
  BY DEF TypeOK, MarksOnly, File
<1>2. /\ Len(file.lines) \in Nat /\ Len(orders) \in Nat
      /\ DOMAIN file.lines = 1..Len(file.lines)
      /\ DOMAIN orders = 1..Len(orders)
  BY <1>1
<1>3. ASSUME NEW n \in 1..Len(file.lines)
      PROVE  /\ n \in 1..Len(orders)
             /\ orders[n] \in Whole /\ OneOf(file.lines[n], orders[n])
             /\ file.lines[n] \in Whole /\ file.lines[n] \in Order
             /\ file.lines[n].id = orders[n].id
             /\ file.lines[n].perf = orders[n].perf
  <2>1. n \in 1..Len(orders) /\ orders[n] \in Whole
    BY <1>1, <1>2
  <2>2. OneOf(file.lines[n], orders[n])
    BY <1>1, <1>2
  <2> QED BY <2>1, <2>2, OneOfType
<1>4. file.lines \in Seq(Whole)
  <2>1. file.lines \in [1..Len(file.lines) -> Whole]
    BY <1>1, <1>2, <1>3
  <2> QED BY <1>2, <2>1
<1> QED BY <1>2, <1>3, <1>4

-----------------------------------------------------------------------------
\* company() reads a file without short lines as it is.
LEMMA TidyRead ==
  ASSUME TypeOK, TidyInv, ReadOrders, skipped' = 0
  PROVE  (MarksOnly /\ (Tidy => Progress))'
<1>1. /\ file' = file /\ task' = 0 /\ day' = 0 /\ cpc' = "day"
      /\ skipped' = Cardinality(ShortLines(file.lines))
      /\ orders' \in Filter(file.lines, Any)
  BY DEF ReadOrders, TidyInv, disk
<1>2. file.lines \in Seq(Line) /\ Len(file.lines) \in Nat
  BY DEF TypeOK, File
<1>3. ShortLines(file.lines) = {}
  <2>1. IsFiniteSet(ShortLines(file.lines))
    BY <1>2, ShortLinesFinite
  <2> QED BY <1>1, <2>1, FS_EmptySet
<1>4. file.lines \in Seq(Whole)
  <2>1. \A n \in 1..Len(file.lines) : file.lines[n] \in Whole
    BY <1>2, <1>3 DEF ShortLines, Whole
  <2>2. file.lines \in [1..Len(file.lines) -> Whole]
    BY <1>2, <2>1
  <2> QED BY <1>2, <2>2
<1>5. orders' = file.lines
  BY <1>1, <1>4, AnyFindsAll
<1>6. MarksOnly'
  BY <1>1, <1>2, <1>4, <1>5 DEF MarksOnly, OneOf
<1>7. Before' = 0 /\ Handled' = 0
  BY <1>1 DEF Before, Handled, Marking
<1>8. Progress'
  <2>1. Boundary(Before)' /\ (Before >= day)'
    BY <1>1, <1>7 DEF Boundary
  <2>2. \A n \in DOMAIN orders' : ~(n <= Handled')
    BY <1>2, <1>5, <1>7
  <2> QED BY <1>1, <2>1, <2>2 DEF Progress
<1> QED BY <1>6, <1>8

(***************************************************************************)
(* The day's filter finds the next order, and the one behind it if it has  *)
(* the same performance, and no other.                                     *)
(***************************************************************************)
LEMMA TidySelect ==
  ASSUME TypeOK, MarksOnly, Tidy, Progress, SelectTasks, task < Len(orders)
  PROVE  DaysWork'
<1>1. /\ file' = file /\ orders' = orders /\ task' = task
      /\ cpc = "select" /\ cpc' = "announce"
  BY DEF SelectTasks, book, disk
<1>2. /\ Before = task /\ Before' = task /\ Handled' = task /\ task \in Nat
      /\ Boundary(task)
  BY <1>1 DEF Before, Handled, Marking, Progress, TypeOK
<1>3. PICK n \in Nat : n = Len(orders)
  BY DEF TypeOK
<1>4. /\ file.lines \in Seq(Whole) /\ Len(file.lines) = n
      /\ \A a \in 1..n : /\ orders[a] \in Order /\ file.lines[a] \in Order
                         /\ OneOf(file.lines[a], orders[a])
                         /\ file.lines[a].perf = orders[a].perf
                         /\ orders[a].perf \in Int
  <2>1. file.lines \in Seq(Whole) /\ Len(file.lines) = n
    BY <1>3, LinesType DEF Tidy
  <2>2. ASSUME NEW a \in 1..n
        PROVE  /\ orders[a] \in Order /\ file.lines[a] \in Order
               /\ OneOf(file.lines[a], orders[a])
               /\ file.lines[a].perf = orders[a].perf
    <3>1. /\ orders[a] \in Whole /\ file.lines[a] \in Order
          /\ OneOf(file.lines[a], orders[a])
          /\ file.lines[a].perf = orders[a].perf
      BY <2>1, LinesType
    <3> QED BY <3>1, WholeType
  <2> QED BY <2>1, <2>2 DEF Order
<1>5. /\ \A a \in 1..n : orders[a].perf >= 0
      /\ \A a, b \in 1..n : orders[a].perf = orders[b].perf => a - b \in -1..1
  BY <1>3, LinesType DEF Tidy
<1>6. task < n /\ task + 1 \in 1..n
  BY <1>2, <1>3
<1> DEFINE p == orders[task + 1].perf
           f == [Any EXCEPT !.perf = p]
           lines == file.lines
<1>7. result' \in Filter(lines, f) /\ f \in Order /\ p >= 0
  <2>1. p \in Int /\ p >= 0
    BY <1>4, <1>5, <1>6
  <2>2. PICK perf \in PerfOf(task) :
          result' \in Filter(file.lines, [Any EXCEPT !.perf = perf])
    BY DEF SelectTasks
  <2>3. perf = p
    BY <2>2 DEF PerfOf
  <2> QED BY <2>1, <2>2, <2>3, AnyType
<1>8. Hits(f, lines) = {a \in 1..n : orders[a].perf = p}
  <2>1. DOMAIN lines = 1..n
    BY <1>3, <1>4
  <2>2. \A a \in 1..n : Matches(f, lines[a]) <=> orders[a].perf = p
    BY <1>4, <1>7 DEF Matches, Any
  <2> QED BY <2>1, <2>2 DEF Hits
<1>9. \A a \in 1..n : orders[a].perf = p => a \in {task + 1, task + 2}
  <2> SUFFICES ASSUME NEW a \in 1..n, orders[a].perf = p
               PROVE  a \in {task + 1, task + 2}
    OBVIOUS
  <2>1. a - (task + 1) \in -1..1
    BY <1>5, <1>6
  <2>2. a # task
    BY <1>2, <1>3, <1>6 DEF Boundary
  <2> QED BY <1>2, <2>1, <2>2
<1>10. Len(orders) = n /\ Len(orders') = n
  BY <1>1, <1>3
<1>11. DaysWork' <=>
        /\ Len(result') \in 1..2 /\ task + Len(result') <= n
        /\ \/ task + Len(result') = 0 \/ task + Len(result') >= n
           \/ orders[task + Len(result')].perf # orders[task + Len(result') + 1].perf
        /\ \A k \in 1..Len(result') :
             /\ OneOf(result'[k], orders[task + k])
             /\ task + k > task => result'[k] = lines[task + k]
  BY <1>1, <1>2, <1>10 DEF DaysWork, Boundary
<1> HIDE DEF f
<1>12. CASE task + 2 \in 1..n /\ orders[task + 2].perf = p
  <2>1. Hits(f, lines) = {task + 1, task + 2}
    BY <1>6, <1>8, <1>9, <1>12
  <2>2. /\ Len(result') = 2
        /\ result'[1] = lines[task + 1] /\ result'[2] = lines[task + 2]
    BY <1>2, <1>4, <1>7, <2>1, TwoFound
  <2>3. \A k \in 1..2 : result'[k] = lines[task + k] /\ task + k \in 1..n
    BY <1>6, <1>12, <2>2
  <2>4. task + 2 >= n \/ orders[task + 2].perf # orders[task + 3].perf
    <3>1. ASSUME task + 3 \in 1..n PROVE orders[task + 3].perf # p
      <4>1. (task + 3) \notin {task + 1, task + 2}
        BY <1>2
      <4> QED BY <1>9, <3>1, <4>1
    <3> QED BY <1>2, <1>3, <1>12, <3>1
  <2>5. \A k \in 1..2 : OneOf(result'[k], orders[task + k])
    BY <1>4, <2>3
  <2>6. task + 2 <= n /\ (task + 2) + 1 = task + 3
    BY <1>2, <1>12
  <2> HIDE DEF lines
  <2> QED BY <1>11, <2>2, <2>3, <2>4, <2>5, <2>6
<1>13. CASE ~(task + 2 \in 1..n /\ orders[task + 2].perf = p)
  <2>1. Hits(f, lines) = {task + 1}
    BY <1>6, <1>8, <1>9, <1>13
  <2>2. Len(result') = 1 /\ result'[1] = lines[task + 1]
    BY <1>2, <1>4, <1>7, <2>1, OneFound
  <2>3. \A k \in 1..1 : result'[k] = lines[task + k] /\ task + k \in 1..n
    BY <1>6, <2>2
  <2>4. task + 1 >= n \/ orders[task + 1].perf # orders[task + 2].perf
    BY <1>2, <1>3, <1>13
  <2>5. \A k \in 1..1 : OneOf(result'[k], orders[task + k])
    BY <1>4, <2>3
  <2>6. task + 1 <= n /\ (task + 1) + 1 = task + 2
    BY <1>2, <1>6
  <2> HIDE DEF lines
  <2> QED BY <1>11, <2>2, <2>3, <2>4, <2>5, <2>6
<1> QED BY <1>12, <1>13

(***************************************************************************)
(* update marks the order it is given, and no other.                       *)
(***************************************************************************)
LEMMA MarkLines ==
  ASSUME TypeOK, DayInv, MarksOnly, MarkDone
  PROVE  /\ Len(file'.lines) \in Nat /\ DOMAIN file'.lines = 1..Len(file'.lines)
         /\ Len(file'.lines) <= Len(file.lines)
         /\ \A n \in 1..Len(file'.lines) :
              /\ \/ file'.lines[n] = file.lines[n]
                 \/ /\ file'.lines[n] = Marked(file.lines[n])
                    /\ Matches(result[j + 1], file.lines[n])
              /\ Matches(result[j + 1], file.lines[n]) =>
                   file'.lines[n] = Marked(file.lines[n])
<1> DEFINE f == result[j + 1]
<1>1. f \in Order /\ file \in File
  BY DispatchedType DEF TypeOK
<1>2. file' \in Update(file, f, [Any EXCEPT !.done = 1])
  BY DEF MarkDone
<1> HIDE DEF f
<1>3. /\ file.lines \in Seq(Whole) /\ Len(file.lines) \in Nat
      /\ \A n \in 1..Len(file.lines) : ~Short(file.lines[n])
  BY LinesType, WholeType
<1>4. /\ Copied(file) \in Seq(Whole)
      /\ Len(Copied(file)) \in Nat /\ Len(Copied(file)) <= Len(file.lines)
  <2>1. /\ Copied(file) \in Seq(Line)
        /\ Len(Copied(file)) <= Len(file.lines)
        /\ \A n \in 1..Len(Copied(file)) :
             n \in 1..Len(file.lines) /\ Copied(file)[n] = file.lines[n]
    BY <1>1, <1>3, CopiedType, EmptySeq
  <2>2. \A n \in 1..Len(Copied(file)) : Copied(file)[n] \in Whole
    BY <1>3, <2>1
  <2>3. Copied(file) \in [1..Len(Copied(file)) -> Whole] /\ Len(Copied(file)) \in Nat
    BY <2>1, <2>2
  <2> QED BY <2>1, <2>3
<1>5. PICK place \in [1..Len(Copied(file)) -> 1..Len(file'.lines)] :
        /\ \A n \in 1..Len(Copied(file)) :
             ~Short(file.lines[n]) =>
               file'.lines[place[n]] =
                 IF Matches(f, file.lines[n]) THEN Marked(file.lines[n])
                 ELSE file.lines[n]
        /\ Copied(file) \in Seq(Whole) =>
             /\ Len(file'.lines) = Len(Copied(file))
             /\ \A n \in 1..Len(Copied(file)) : place[n] = n
  BY <1>1, <1>2, UpdateLines
<1>6. Len(file'.lines) = Len(Copied(file))
  BY <1>4, <1>5
<1>7. DOMAIN file'.lines = 1..Len(file'.lines)
  <2>1. file' \in File
    BY <1>1, <1>2, UpdateLines
  <2>2. file'.lines \in Seq(Line)
    BY <2>1 DEF File
  <2> QED BY <2>2
<1>8. ASSUME NEW n \in 1..Len(Copied(file))
      PROVE  file'.lines[n] = IF Matches(f, file.lines[n]) THEN Marked(file.lines[n])
                              ELSE file.lines[n]
  <2>1. place[n] = n /\ n \in 1..Len(file.lines)
    BY <1>3, <1>4, <1>5
  <2> QED BY <1>3, <1>5, <2>1
<1> QED BY <1>4, <1>6, <1>7, <1>8 DEF f

LEMMA TidyMark ==
  ASSUME TypeOK, DayInv, MarksOnly, Tidy => Progress, MarkDone
  PROVE  (MarksOnly /\ (Tidy => Progress))'
<1>1. /\ cpc = "record" /\ cpc' = "rename" /\ j < i
      /\ orders' = orders /\ task' = task /\ day' = day /\ j' = j
      /\ result' = result
  BY DEF MarkDone
<1>2. MarksOnly'
  <2>1. Len(file'.lines) <= Len(orders')
    BY <1>1, MarkLines, LinesType
  <2>2. ASSUME NEW n \in DOMAIN file'.lines
        PROVE  OneOf(file'.lines[n], orders'[n])
    <3>1. n \in 1..Len(file'.lines) /\ n \in 1..Len(file.lines)
      BY <2>2, MarkLines, LinesType
    <3>2. orders[n] \in Whole /\ OneOf(file.lines[n], orders[n])
      BY <3>1, LinesType
    <3>3. OneOf(Marked(file.lines[n]), orders[n])
      BY <3>2, OneOfType
    <3>4. \/ file'.lines[n] = file.lines[n]
          \/ file'.lines[n] = Marked(file.lines[n])
      BY <3>1, MarkLines
    <3> QED BY <1>1, <3>2, <3>3, <3>4
  <2>3. orders' \in Seq(Whole)
    BY <1>1 DEF MarksOnly
  <2> QED BY <2>1, <2>2, <2>3 DEF MarksOnly
<1>3. ASSUME Tidy' PROVE Progress'
  <2>1. Tidy /\ Len(file'.lines) = Len(file.lines)
    <3>1. Len(file'.lines) = Len(orders)
      BY <1>1, <1>3 DEF Tidy
    <3>2. Len(file'.lines) = Len(file.lines) /\ Len(file.lines) = Len(orders)
      BY <3>1, MarkLines, LinesType
    <3> QED BY <1>1, <1>3, <3>2 DEF Tidy
  <2>2. Progress
    BY <2>1
  <2>3. PICK n \in Nat : n = Len(orders)
    BY LinesType
  <2>4. /\ j \in Nat /\ task \in Nat /\ day \in Nat /\ task - j \in Int
        /\ Before = task - j /\ Before' = task - j
        /\ Handled = task /\ Handled' = task + 1
    BY <1>1 DEF TypeOK, Before, Handled, Marking
  <2>5. Len(file.lines) = n /\ Len(file'.lines) = n /\ DOMAIN orders = 1..n
    BY <2>1, <2>3, LinesType DEF Tidy
  <2>6. /\ Boundary(task - j) /\ (task - j >= day \/ task - j >= n)
        /\ \A m \in 1..n : m <= task => file.lines[m].done = 1
        /\ task - j < n => DaysWork
    BY <1>1, <2>2, <2>3, <2>4, <2>5 DEF Progress
  <2>7. \A m \in 1..n : /\ orders[m] \in Whole /\ file.lines[m] \in Order
                        /\ file.lines[m].id = orders[m].id
                        /\ orders[m].id \in Int
    <3> SUFFICES ASSUME NEW m \in 1..n
                 PROVE  /\ orders[m] \in Whole /\ file.lines[m] \in Order
                        /\ file.lines[m].id = orders[m].id
                        /\ orders[m].id \in Int
      OBVIOUS
    <3>1. /\ orders[m] \in Whole /\ file.lines[m] \in Order
          /\ file.lines[m].id = orders[m].id
      BY <2>5, LinesType
    <3>2. orders[m] \in Order
      BY <3>1, WholeType
    <3> QED BY <3>1, <3>2 DEF Order
  <2>8. j + 1 \in 1..Len(result) /\ result[j + 1] \in Order
    BY DispatchedType
  <2>9. ASSUME NEW m \in 1..n, m <= task + 1
        PROVE  file'.lines[m].done = 1
    <3>1. \/ file'.lines[m] = file.lines[m]
          \/ file'.lines[m] = Marked(file.lines[m])
      BY <2>5, MarkLines
    <3>2. Marked(file.lines[m]).done = 1
      <4>1. m \in 1..n
        BY <2>9
      <4>2. file.lines[m] \in Order
        BY <2>7, <4>1
      <4> QED BY <4>2 DEF Order, Marked
    <3>3. CASE m <= task
      BY <2>6, <3>1, <3>2, <3>3
    <3>4. CASE m = task + 1
      <4>1. task - j < n /\ (task - j) + (j + 1) = m
        BY <2>4, <3>4
      <4>2. result[j + 1] = file.lines[m]
        <5>1. (task - j) + (j + 1) > task
          BY <2>4
        <5> QED BY <2>4, <2>6, <2>8, <4>1, <5>1 DEF DaysWork
      <4>3. Matches(result[j + 1], file.lines[m])
        BY <2>8, <4>2, MatchesItself
      <4>4. file'.lines[m] = Marked(file.lines[m])
        BY <2>5, <4>3, MarkLines
      <4> QED BY <3>2, <4>4
    <3> QED BY <2>4, <2>9, <3>3, <3>4
  <2>10. ASSUME task - j < n PROVE DaysWork'
    <3>1. /\ Len(result) \in 1..2 /\ (task - j) + Len(result) <= n
          /\ Boundary((task - j) + Len(result))
          /\ \A k \in 1..Len(result) :
               /\ OneOf(result[k], orders[(task - j) + k])
               /\ (task - j) + k > task => result[k] = file.lines[(task - j) + k]
      BY <2>3, <2>4, <2>6, <2>10 DEF DaysWork
    <3>2. ASSUME NEW k \in 1..Len(result), (task - j) + k > task + 1
          PROVE  result[k] = file'.lines[(task - j) + k]
      <4>1. PICK m \in Int, a \in Int : m = (task - j) + k /\ a = task + 1
        BY <2>4
      <4>2. m \in 1..n /\ a \in 1..n /\ m # a /\ m > task
        <5>1. m > a /\ a > task /\ a >= 1
          BY <2>4, <3>2, <4>1
        <5>2. m <= n
          <6>1. PICK l \in Int : l = Len(result)
            BY <3>1
          <6>2. k \in Int /\ k <= l /\ (task - j) + l <= n
            BY <3>1, <3>2, <6>1
          <6> QED BY <2>4, <4>1, <6>2
        <5> QED BY <2>3, <2>4, <4>1, <5>1, <5>2
      <4>3. result[k] = file.lines[m]
        BY <2>4, <3>1, <4>1, <4>2
      <4>4. /\ result[j + 1].id = orders[a].id
            /\ orders[a].id >= 0 /\ orders[m].id # orders[a].id
        <5>1. (task - j) + (j + 1) = a
          BY <2>4, <4>1
        <5>2. OneOf(result[j + 1], orders[a])
          BY <2>8, <3>1, <5>1
        <5>3. orders[a] \in Whole /\ a \in DOMAIN orders /\ m \in DOMAIN orders
          BY <2>5, <2>7, <4>2
        <5>4. result[j + 1].id = orders[a].id
          BY <5>2, <5>3, OneOfType
        <5>5. orders[a].id >= 0 /\ (orders[m].id = orders[a].id => m = a)
          BY <2>1, <5>3 DEF Tidy
        <5> QED BY <4>2, <5>4, <5>5
      <4>5. ~Matches(result[j + 1], file.lines[m])
        BY <2>7, <4>2, <4>4 DEF Matches
      <4>6. file'.lines[m] = file.lines[m]
        BY <2>5, <4>2, <4>5, MarkLines
      <4> QED BY <4>1, <4>3, <4>6
    <3>3. Boundary((task - j) + Len(result))'
      BY <1>1, <3>1 DEF Boundary
    <3> QED BY <1>1, <2>3, <2>4, <3>1, <3>2, <3>3 DEF DaysWork
  <2>11. Boundary(task - j)'
    BY <1>1, <2>6 DEF Boundary
  <2> QED BY <1>1, <2>3, <2>4, <2>5, <2>6, <2>9, <2>10, <2>11 DEF Progress
<1> QED BY <1>2, <1>3

(***************************************************************************)
(* A day with orders left takes all that its filter found.                 *)
(***************************************************************************)
LEMMA TidyEndDay ==
  ASSUME TypeOK, DayInv, TidyInv, WorkerDayMax >= 2, Progress, EndDay
  PROVE  Progress'
<1>1. /\ cpc = "record" /\ cpc' = "day" /\ j = i /\ j <= task
      /\ file' = file /\ orders' = orders /\ task' = task /\ day' = day + 1
  BY DEF EndDay, TidyInv, Marking, disk, TypeOK
<1>2. PICK n \in Nat : n = Len(orders) /\ DOMAIN orders = 1..n
  BY DEF TypeOK
<1>3. /\ j \in Nat /\ task \in Nat /\ day \in Nat /\ task - j \in Nat
      /\ Before = task - j /\ Before' = task
      /\ Handled = task /\ Handled' = task
  BY <1>1 DEF TypeOK, Before, Handled, Marking
<1>4. /\ task - j >= day \/ task - j >= n
      /\ \A m \in 1..n : m <= task => file.lines[m].done = 1
      /\ task - j < n => DaysWork
  BY <1>1, <1>2, <1>3 DEF Progress
<1>5. Boundary(task) /\ (task >= day + 1 \/ task >= n)
  <2>1. CASE task - j >= n
    <3>1. task >= n
      BY <1>3, <2>1
    <3> QED BY <1>2, <3>1 DEF Boundary
  <2>2. CASE task - j < n
    <3>1. /\ Len(result) \in 1..2
          /\ Boundary((task - j) + Len(result))
      BY <1>3, <1>4, <2>2 DEF DaysWork
    <3>2. j = Len(result)
      <4>1. i = QuotaOf(result)
        BY <1>1 DEF DayInv, RecordedMeansWorked, Quota
      <4>2. Size(result) = Len(result)
        BY <3>1 DEF Size
      <4>3. QuotaOf(result) = Len(result)
        BY <3>1, <4>2 DEF QuotaOf
      <4> QED BY <1>1, <4>1, <4>3
    <3>3. (task - j) + Len(result) = task /\ j >= 1
      BY <1>3, <3>1, <3>2
    <3> QED BY <1>2, <1>3, <1>4, <2>2, <3>1, <3>3
  <2> QED BY <1>2, <1>3, <2>1, <2>2
<1>6. Boundary(task)'
  BY <1>1, <1>5 DEF Boundary
<1> QED BY <1>1, <1>2, <1>3, <1>4, <1>5, <1>6 DEF Progress

LEMMA TidyRename ==
  ASSUME TypeOK, Progress, Rename
  PROVE  Progress'
<1>1. /\ cpc = "rename" /\ cpc' = "record"
      /\ file' = file /\ orders' = orders /\ day' = day /\ result' = result
      /\ task' = task + 1 /\ j' = j + 1
  BY DEF Rename
<1>2. j \in Nat /\ task \in Nat
  BY DEF TypeOK
<1>3. Before' = Before /\ Handled' = Handled
  BY <1>1, <1>2 DEF Before, Handled, Marking
<1>4. DaysWork => DaysWork'
  BY <1>1, <1>3 DEF DaysWork, Boundary
<1>5. Boundary(Before)' = Boundary(Before)
  BY <1>1, <1>3 DEF Boundary
<1> QED BY <1>1, <1>3, <1>4, <1>5 DEF Progress

\* A step that leaves the book alone keeps what has been found and handled.
Idle == {"day", "select", "finished", "failed"}

LEMMA TidyStays ==
  ASSUME MarksOnly, Tidy => Progress,
         file' = file, orders' = orders, day' = day, result' = result,
         Before' = Before, Handled' = Handled,
         cpc' \in Idle \/ cpc \notin Idle
  PROVE  (MarksOnly /\ (Tidy => Progress))'
<1>1. MarksOnly' /\ (Tidy' <=> Tidy)
  BY DEF MarksOnly, Tidy, OneOf
<1>2. DaysWork => DaysWork'
  BY DEF DaysWork, Boundary
<1>3. Boundary(Before)' = Boundary(Before)
  BY DEF Boundary
<1>4. Progress => Progress'
  BY <1>2, <1>3 DEF Progress, Idle
<1> QED BY <1>1, <1>4

\* When the days run out there is no task left.
LEMMA TidyDone ==
  ASSUME TypeOK, TidyInv
  PROVE  TidyFilesGetDone
<1> SUFFICES ASSUME cpc = "finished", skipped = 0, Tidy, Len(orders) <= DayLimit,
                    NEW m \in DOMAIN file.lines
             PROVE  file.lines[m].done = 1
  BY DEF TidyFilesGetDone
<1>1. MarksOnly /\ Progress /\ ~DayLeft
  BY DEF TidyInv
<1>2. PICK n \in Nat : n = Len(orders)
  BY LinesType, <1>1
<1>3. m \in 1..n /\ DOMAIN orders = 1..n
  BY <1>1, <1>2, LinesType
<1>4. task \in Nat /\ day \in Nat /\ Before = task /\ Handled = task
  BY DEF TypeOK, Before, Handled, Marking
<1>5. Size(orders) = n
  BY <1>2, <1>3 DEF Size
<1>6. day >= n
  BY <1>1, <1>2, <1>4, <1>5 DEF DayLeft
<1>7. task >= n
  BY <1>1, <1>2, <1>4, <1>6 DEF Progress
<1>8. m <= task
  BY <1>2, <1>3, <1>4, <1>7
<1> QED BY <1>1, <1>3, <1>4, <1>8 DEF Progress

Tracked == cpc \notin {"start", "crashed"} /\ skipped = 0 =>
             MarksOnly /\ (Tidy => Progress)

\* Tasks are counted from 0 and marked one by one, and days end the program.
LEMMA CountingStep ==
  ASSUME TypeOK, DayInv, TidyInv, [Next]_vars
  PROVE  /\ (cpc = "start" => task = 0 /\ day = 0)'
         /\ (Marking => j <= i /\ j <= task /\ (cpc = "rename" => j < i))'
         /\ (cpc = "finished" => ~DayLeft)'
<1> USE DEF disk, book, company, Marking
<1>0. /\ cpc = "start" => task = 0 /\ day = 0
      /\ cpc = "record" \/ cpc = "rename" => j <= i /\ j <= task
      /\ cpc = "rename" => j < i
      /\ cpc = "finished" => ~DayLeft
      /\ i \in Nat /\ j \in Nat /\ task \in Nat
  BY DEF TidyInv, TypeOK
<1>1. CASE UNCHANGED vars
  BY <1>0, <1>1 DEF vars, DayLeft
<1>2. CASE WorkerStep \/ WorkerHandler
  BY <1>0, <1>2 DEF WorkerStep, WorkerHandler, PauseForCount, ReadTask,
     Acknowledge, ReportDone, Exit, DayLeft
<1>3. CASE StartDayFails
  BY <1>0, <1>3 DEF StartDayFails
<1>4. CASE CompanyHandler
  BY <1>0, <1>4 DEF CompanyHandler, DayLeft
<1>5. CASE Kill
  BY <1>0, <1>5 DEF Kill
<1>6. CASE ReadOrders \/ NothingToRead \/ StartDay \/ SelectTasks \/ AnnounceCount
  BY <1>0, <1>6 DEF ReadOrders, NothingToRead, StartDay, SelectTasks, AnnounceCount
<1>7. CASE Finish
  BY <1>0, <1>7 DEF Finish, DayLeft
<1>8. CASE WriteTask \/ PauseForAck \/ PauseForDone \/ WaitWorker \/ EndDay
  BY <1>0, <1>8 DEF WriteTask, PauseForAck, PauseForDone, WaitWorker, EndDay
<1>9. CASE MarkDone \/ MarkDoneFails \/ MarkDoneCrashes \/ Rename
  BY <1>0, <1>9 DEF MarkDone, MarkDoneFails, MarkDoneCrashes, Rename
<1> QED BY <1>1, <1>2, <1>3, <1>4, <1>5, <1>6, <1>7, <1>8, <1>9
  DEF Next, CompanyStep

LEMMA TrackedStep ==
  ASSUME TypeOK, DayInv, TidyInv, WorkerDayMax >= 2, [Next]_vars
  PROVE  Tracked'
<1> SUFFICES ASSUME cpc' \notin {"start", "crashed"}, skipped' = 0
             PROVE  (MarksOnly /\ (Tidy => Progress))'
  BY DEF Tracked
<1> DEFINE Held == MarksOnly /\ (Tidy => Progress)
<1>1. cpc \notin {"start", "crashed"} /\ skipped = 0 => Held
  BY DEF TidyInv
<1>2. CASE ReadOrders
  BY <1>2, TidyRead
<1>3. CASE NothingToRead \/ MarkDoneCrashes \/ Kill
  BY <1>3 DEF NothingToRead, MarkDoneCrashes, Kill
<1>4. CASE MarkDoneFails
  BY <1>4 DEF MarkDoneFails, TypeOK
<1>5. CASE MarkDone
  BY <1>1, <1>5, TidyMark DEF MarkDone
<1>6. CASE SelectTasks
  <2>1. /\ file' = file /\ orders' = orders /\ day' = day /\ task' = task
        /\ cpc = "select" /\ cpc' = "announce" /\ skipped' = skipped
    BY <1>6 DEF SelectTasks, book, disk
  <2>2. Before' = task /\ Handled' = task /\ Before = task /\ Handled = task
    BY <2>1 DEF Before, Handled, Marking
  <2>3. Held
    BY <1>1, <2>1
  <2>4. MarksOnly' /\ (Tidy' <=> Tidy)
    BY <2>1, <2>3 DEF MarksOnly, Tidy, OneOf
  <2>5. Tidy /\ task < Len(orders) => DaysWork'
    BY <1>6, <2>3, TidySelect
  <2>6. Boundary(Before)' = Boundary(Before)
    BY <2>1, <2>2 DEF Boundary
  <2>7. Tidy => Progress'
    BY <2>1, <2>2, <2>3, <2>5, <2>6 DEF Progress
  <2> QED BY <2>4, <2>7
<1>7. CASE EndDay
  <2>1. /\ file' = file /\ orders' = orders
        /\ cpc = "record" /\ skipped' = skipped
    BY <1>7 DEF EndDay, disk
  <2>2. Held
    BY <1>1, <2>1
  <2>3. MarksOnly' /\ (Tidy' <=> Tidy)
    BY <2>1, <2>2 DEF MarksOnly, Tidy, OneOf
  <2> QED BY <1>7, <2>2, <2>3, TidyEndDay
<1>8. CASE Rename
  <2>1. /\ file' = file /\ orders' = orders
        /\ cpc = "rename" /\ skipped' = skipped
    BY <1>8 DEF Rename
  <2>2. Held
    BY <1>1, <2>1
  <2>3. MarksOnly' /\ (Tidy' <=> Tidy)
    BY <2>1, <2>2 DEF MarksOnly, Tidy, OneOf
  <2> QED BY <1>8, <2>2, <2>3, TidyRename
<1>9. CASE StartDay \/ StartDayFails \/ Finish
  <2>1. /\ file' = file /\ orders' = orders /\ day' = day /\ task' = task
        /\ skipped' = skipped /\ result' = result
        /\ cpc = "day" /\ cpc' \in {"select", "failed", "finished"}
    BY <1>9 DEF StartDay, StartDayFails, Finish, book, disk
  <2>2. Before' = Before /\ Handled' = Handled
    BY <2>1 DEF Before, Handled, Marking
  <2> QED BY <1>1, <2>1, <2>2, TidyStays DEF Idle
<1>10. CASE AnnounceCount \/ WriteTask \/ PauseForAck \/ PauseForDone
  <2>1. /\ file' = file /\ orders' = orders /\ day' = day /\ task' = task
        /\ skipped' = skipped /\ result' = result
        /\ cpc \in {"announce", "issue", "sent"}
        /\ cpc' \in {"issue", "sent", "awaitAck", "awaitDone"}
    BY <1>10 DEF AnnounceCount, WriteTask, PauseForAck, PauseForDone, book, disk
  <2>2. Before' = Before /\ Handled' = Handled
    BY <2>1 DEF Before, Handled, Marking
  <2> QED BY <1>1, <2>1, <2>2, TidyStays DEF Idle
<1>11. CASE WaitWorker
  <2>1. /\ file' = file /\ orders' = orders /\ day' = day /\ task' = task
        /\ skipped' = skipped /\ result' = result
        /\ cpc = "wait" /\ cpc' = "record" /\ j' = 0 /\ task \in Nat
    BY <1>11 DEF WaitWorker, book, disk, TypeOK
  <2>2. Before' = Before /\ Handled' = Handled
    BY <2>1 DEF Before, Handled, Marking
  <2> QED BY <1>1, <2>1, <2>2, TidyStays DEF Idle
<1>12. CASE CompanyHandler
  <2>1. /\ file' = file /\ orders' = orders /\ day' = day /\ task' = task
        /\ skipped' = skipped /\ result' = result /\ j' = j
        /\ \/ cpc' = cpc
           \/ cpc = "awaitAck" /\ cpc' = "issue"
           \/ cpc = "awaitDone" /\ cpc' = "wait"
    BY <1>12 DEF CompanyHandler, book, disk
  <2>2. Before' = Before /\ Handled' = Handled
    BY <2>1 DEF Before, Handled, Marking
  <2> QED BY <1>1, <2>1, <2>2, TidyStays DEF Idle
<1>13. CASE WorkerStep \/ WorkerHandler \/ UNCHANGED vars
  <2>1. /\ file' = file /\ orders' = orders /\ day' = day /\ task' = task
        /\ skipped' = skipped /\ result' = result /\ j' = j /\ cpc' = cpc
    BY <1>13 DEF WorkerStep, WorkerHandler, PauseForCount, ReadTask,
       Acknowledge, ReportDone, Exit, vars, company, book, disk
  <2>2. Before' = Before /\ Handled' = Handled
    BY <2>1 DEF Before, Handled, Marking
  <2> QED BY <1>1, <2>1, <2>2, TidyStays
<1> QED BY <1>2, <1>3, <1>4, <1>5, <1>6, <1>7, <1>8, <1>9, <1>10, <1>11,
     <1>12, <1>13
  DEF Next, CompanyStep

(***************************************************************************)
(* If a worker takes two orders a day, as WORKER_DAY_MAX has it, every     *)
(* tidy file of any length ends with all its orders done, started again or *)
(* not: each day with orders left marks the next one or two, so the days   *)
(* go no further than the orders, and what is marked behind their end was  *)
(* marked before.                                                          *)
(***************************************************************************)
THEOREM TidyFilesGetDoneCorrect ==
  ASSUME WorkerDayMax >= 2
  PROVE  Spec => []TidyFilesGetDone
<1>1. Init => TidyInv
  BY DEF Init, TidyInv, Marking
<1>2. TypeOK /\ DayInv /\ TidyInv /\ [Next]_vars => TidyInv'
  BY CountingStep, TrackedStep DEF TidyInv, Tracked
<1>3. TypeOK /\ TidyInv => TidyFilesGetDone
  BY TidyDone
<1> QED BY <1>1, <1>2, <1>3, DayInvariant, PTL DEF Spec
=============================================================================
