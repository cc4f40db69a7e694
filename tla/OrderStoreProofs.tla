-------------------------- MODULE OrderStoreProofs --------------------------
(***************************************************************************)
(* Theorems about the menu of sub/sub1.c: types, the copying loop of       *)
(* update, and what a kill leaves behind.                                  *)
(***************************************************************************)
EXTENDS OrderStore, SequenceTheorems, FiniteSetTheorems,
        FunctionTheorems, WellFoundedInduction, TLAPS

-----------------------------------------------------------------------------
(***************************************************************************)
(* What the operators of OrderLines return.                                *)
(***************************************************************************)
LEMMA AnyType == Any \in Order
  BY TokenAssumption DEF Any, Order, Columns

\* An entered order has five columns, whatever the memory held.
LEMMA EntryType == Entry \subseteq Order
<1> SUFFICES ASSUME NEW typed \in Typed, NEW memory \in Leftover
             PROVE  Entered(typed, memory) \in Order
  BY DEF Entry
<1>1. typed \in [2..5 -> Token \cup {Ignored}] /\ memory \in Order
  BY MemoryAssumption
<1>2. ASSUME NEW c \in Columns
      PROVE  (IF c = 1 THEN MinusOne
              ELSE IF typed[c] = Ignored THEN memory[c] ELSE typed[c]) \in Token
  <2>1. CASE c = 1
    BY <2>1, TokenAssumption
  <2>2. CASE c # 1
    <3>1. c \in 2..5
      BY <2>2 DEF Columns
    <3>2. typed[c] \in Token \cup {Ignored} /\ memory[c] \in Token
      BY <1>1, <3>1 DEF Order
    <3> QED BY <2>2, <3>2
  <2> QED BY <2>1, <2>2
<1> QED BY <1>2 DEF Entered, Order

\* strtok finds columns of the line; the others come from the stack.
LEMMA InterpretType ==
  ASSUME NEW line \in Seq(Token), NEW stale \in Order
  PROVE  Interpret(line, stale) \in Order
<1> DEFINE has(c) == \E n \in Filled(line) : Rank(Filled(line), n) = c
           col(c) == LET t == line[Nth(Filled(line), c)]
                     IN  IF c = 1 THEN Num[t] ELSE t
<1>1. ASSUME NEW c \in Columns, has(c) PROVE col(c) \in Token
  <2>1. Nth(Filled(line), c) \in Filled(line)
    BY <1>1 DEF Nth
  <2>2. line[Nth(Filled(line), c)] \in Token
    BY <2>1, ElementOfSeq DEF Filled
  <2> QED BY <2>2, TokenAssumption
<1>2. ASSUME NEW c \in Columns PROVE stale[c] \in Token
  BY <1>2 DEF Order
<1>3. \A c \in Columns : (IF has(c) THEN col(c) ELSE stale[c]) \in Token
  BY <1>1, <1>2
<1> QED BY <1>3 DEF Interpret, Order

\* Printing an order writes seven columns.
LEMMA PrintedType ==
  ASSUME NEW o \in Order
  PROVE  Printed(o) \in Seq(Token)
<1>1. o[1] \in Token /\ o[2] \in Token /\ o[3] \in Token /\ o[4] \in Token
      /\ o[5] \in Token
  BY DEF Order, Columns
<1>2. Date \in Token /\ Brace \in Token
  BY TokenAssumption
<1> QED BY <1>1, <1>2 DEF Printed

LEMMA ReplacedType ==
  ASSUME NEW a \in Order, NEW u \in Order
  PROVE  Replaced(a, u) \in Order
<1>1. ASSUME NEW c \in Columns
      PROVE  (IF c > 1 /\ u[c] # Empty THEN Splice[<<a[c], u[c]>>] ELSE a[c])
               \in Token
  <2>1. a[c] \in Token /\ u[c] \in Token
    BY DEF Order
  <2>2. Splice[<<a[c], u[c]>>] \in Token
    BY <2>1, TokenAssumption
  <2> QED BY <2>1, <2>2
<1> QED BY <1>1 DEF Replaced, Order

\* What update writes for a line is a sequence of columns again.
LEMMA RewritesType ==
  ASSUME NEW line \in Seq(Token), NEW f, NEW u \in Order \cup {NoOrder}
  PROVE  Rewrites(line, f, u) \subseteq Seq(Token)
<1> SUFFICES ASSUME NEW stale \in Stale
             PROVE  Rewritten(line, Interpret(line, stale), f, u) \in Seq(Token)
  BY DEF Rewrites, Readings
<1>1. Interpret(line, stale) \in Order
  BY InterpretType, MemoryAssumption
<1> DEFINE a == Interpret(line, stale)
<1>2. a \in Order
  BY <1>1
<1> HIDE DEF a
<1>3. Rewritten(line, a, f, u) \in Seq(Token)
  <2>1. <<>> \in Seq(Token)
    BY EmptySeq
  <2>2. CASE u = NoOrder
    BY <2>1, <2>2 DEF Rewritten
  <2>3. CASE u # NoOrder
    <3>1. Printed(Replaced(a, u)) \in Seq(Token)
      BY <1>2, <2>3, ReplacedType, PrintedType
    <3> QED BY <2>3, <3>1 DEF Rewritten
  <2> QED BY <2>2, <2>3
<1> QED BY <1>3 DEF a

\* The line that ends at e is a part of the file.
LEMMA LineAtType ==
  ASSUME NEW lines \in Seq(Token), NEW e \in DOMAIN lines
  PROVE  LineAt(lines, e) \in Seq(Token)
<1> DEFINE B == {b \in 1..(e - 1) : \A n \in b..(e - 1) : lines[n] \notin Ending}
<1>1. e \in Nat \ {0} /\ e <= Len(lines)
  BY LenProperties
<1>2. IsFiniteSet(1..(e - 1)) /\ Cardinality(1..(e - 1)) <= e - 1
  <2>1. 1 \in Int /\ e - 1 \in Int
    BY <1>1
  <2>2. /\ IsFiniteSet(1..(e - 1))
        /\ Cardinality(1..(e - 1)) = IF 1 > e - 1 THEN 0 ELSE (e - 1) - 1 + 1
    BY <2>1, FS_Interval
  <2> QED BY <1>1, <2>2
<1>3. IsFiniteSet(B) /\ Cardinality(B) <= Cardinality(1..(e - 1))
  BY <1>2, FS_Subset
<1>4. Cardinality(B) \in Nat /\ Cardinality(1..(e - 1)) \in Nat
  BY <1>2, <1>3, FS_CardinalityType
<1> HIDE DEF B
<1>5. e - Cardinality(B) \in 1..e
  BY <1>1, <1>2, <1>3, <1>4
<1>6. Begins(lines, e) \in 1..e
  BY <1>5 DEF B, Begins
<1>7. \A n \in Begins(lines, e)..e : lines[n] \in Token
  BY <1>1, <1>6, ElementOfSeq
<1> QED BY <1>1, <1>6, <1>7, SubSeqProperties DEF LineAt

(***************************************************************************)
(* filter returns orders, as many as one of its passes has counted.        *)
(***************************************************************************)
LEMMA FilterType ==
  ASSUME NEW lines \in Seq(Token), NEW f
  PROVE  Filter(lines, f) \subseteq Seq(Order)
<1>1. AllEnds(lines) \subseteq DOMAIN lines /\ IsFiniteSet(AllEnds(lines))
  <2>1. AllEnds(lines) \subseteq DOMAIN lines
    <3>1. lines # <<>> => Len(lines) \in DOMAIN lines
      BY LenProperties, EmptySeq
    <3> QED BY <3>1 DEF AllEnds, LineEnds
  <2>2. IsFiniteSet(DOMAIN lines)
    BY LenProperties, FS_Interval
  <2> QED BY <2>1, <2>2, FS_Subset
<1>2. ASSUME NEW read \in FileReadings(lines)
      PROVE  read \in [AllEnds(lines) -> Order]
  <2>1. PICK stale \in [AllEnds(lines) -> Stale] :
          read = [e \in AllEnds(lines) |-> Interpret(LineAt(lines, e), stale[e])]
    BY DEF FileReadings
  <2>2. ASSUME NEW e \in AllEnds(lines)
        PROVE  Interpret(LineAt(lines, e), stale[e]) \in Order
    BY <1>1, LineAtType, InterpretType, MemoryAssumption
  <2> QED BY <2>1, <2>2
<1>3. ASSUME NEW read \in FileReadings(lines)
      PROVE  /\ Hits(f, read) \subseteq AllEnds(lines)
             /\ Cardinality(Hits(f, read)) \in Nat
  <2>1. Hits(f, read) \subseteq AllEnds(lines)
    BY <1>2 DEF Hits
  <2> QED BY <1>1, <2>1, FS_Subset, FS_CardinalityType
<1>4. ASSUME NEW read \in FileReadings(lines), NEW here \in Nat,
             NEW junk \in [1..here -> Junk]
      PROVE  Fill(Hits(f, read), read, junk) \in Seq(Order)
  <2> DEFINE hits == Hits(f, read)
  <2>1. ASSUME NEW k \in 1..here
        PROVE  (IF \E e \in hits : Rank(hits, e) = k
                THEN read[Nth(hits, k)] ELSE junk[k]) \in Order
    <3>1. ASSUME \E e \in hits : Rank(hits, e) = k
          PROVE  read[Nth(hits, k)] \in Order
      <4>1. Nth(hits, k) \in hits
        BY <3>1 DEF Nth
      <4>2. Nth(hits, k) \in AllEnds(lines)
        BY <1>3, <4>1
      <4> QED BY <1>2, <4>2
    <3>2. junk[k] \in Order
      BY MemoryAssumption
    <3> QED BY <3>1, <3>2
  <2>2. Fill(hits, read, junk) \in [1..here -> Order]
    <3> HIDE DEF hits
    <3>1. DOMAIN junk = 1..here
      OBVIOUS
    <3> QED BY <2>1, <3>1 DEF Fill
  <2> QED BY <2>2, IsASeq
<1> SUFFICES ASSUME NEW read \in FileReadings(lines), NEW count \in FileReadings(lines),
                    NEW junk \in [1..Cardinality(Hits(f, count)) -> Junk]
             PROVE  Fill(Hits(f, read), read, junk) \in Seq(Order)
  BY DEF Filter
<1> QED BY <1>3, <1>4

-----------------------------------------------------------------------------
(***************************************************************************)
(* The ghosts.  A cut is unchanged by what is appended behind it.          *)
(***************************************************************************)
LEMMA CutType ==
  ASSUME TypeOK, NEW k \in 0..Len(cuts)
  PROVE  CutAt(k) \in Cut
<1>1. cuts \in Seq(Cut)
  BY DEF TypeOK
<1>2. CASE k = 0
  BY <1>2 DEF CutAt, Cut
<1>3. CASE k # 0
  <2>1. k \in 1..Len(cuts)
    BY <1>1, <1>3, LenProperties
  <2>2. cuts[k] \in Cut
    BY <1>1, <2>1, ElementOfSeq
  <2> QED BY <1>3, <2>2 DEF CutAt
<1> QED BY <1>2, <1>3

\* Steps that do not touch the files and the update leave the copy alone.
LEMMA CopyStays ==
  ASSUME RewrittenSoFar, UNCHANGED update
  PROVE  RewrittenSoFar'
BY DEF RewrittenSoFar, Ordered, OneByOne, NoneMissing, LastCut, CutAt, OldLine,
       NewLine, update

LEMMA FileStays ==
  ASSUME WrittenSoFar, UNCHANGED <<temp, update>>
  PROVE  WrittenSoFar'
BY DEF WrittenSoFar, update

LEMMA LastCutStays ==
  ASSUME UNCHANGED update
  PROVE  LastCut' = LastCut /\ old' = old /\ pos' = pos
BY DEF LastCut, CutAt, update

(***************************************************************************)
(* CopyLine writes one line: the lines before it keep their place, the new *)
(* one follows them.                                                       *)
(***************************************************************************)
LEMMA CopyLineFacts ==
  ASSUME TypeOK, CopyInv, CopyLine
  PROVE  \E e \in NextEnds, new \in Seq(Token) :
           /\ \A d \in NextEnds : e <= d
           /\ new \in Rewrites(SubSeq(old, LastCut.from + 1, e), filter_obj, update_obj)
           /\ printed \in Seq(Token) /\ printed' = printed \o new
           /\ pos' = e
           /\ cuts' = Append(cuts, [from |-> e, to |-> Len(printed')])
<1>1. data = old /\ pos = LastCut.from
  BY DEF CopyLine, CopyInv, Updating
<1>2. printed \in Seq(Token) /\ data \in Seq(Token)
  BY <1>1 DEF TypeOK
<1>3. PICK e \in NextEnds :
        /\ \A d \in NextEnds : e <= d
        /\ \E new \in Rewrites(SubSeq(data, pos + 1, e), filter_obj, update_obj) :
             printed' = printed \o new
        /\ pos' = e
        /\ cuts' = Append(cuts, [from |-> e, to |-> Len(printed')])
  BY DEF CopyLine
<1>4. SubSeq(data, pos + 1, e) \in Seq(Token)
  <2>1. e \in 1..Len(data) /\ pos + 1 \in Nat \ {0} /\ e \in Int
    BY <1>2, LenProperties DEF NextEnds, LineEnds, TypeOK
  <2>2. \A n \in (pos + 1)..e : data[n] \in Token
    BY <1>2, <2>1, LenProperties, ElementOfSeq
  <2> QED BY <2>1, <2>2, SubSeqProperties
<1>5. PICK new \in Rewrites(SubSeq(data, pos + 1, e), filter_obj, update_obj) :
        printed' = printed \o new
  BY <1>3
<1>6. new \in Seq(Token)
  BY <1>4, <1>5, RewritesType DEF TypeOK
<1> QED BY <1>1, <1>2, <1>3, <1>5, <1>6

\* A part of a sequence is the same in every extension of the sequence.
LEMMA PartStays ==
  ASSUME NEW s \in Seq(Token), NEW t \in Seq(Token),
         NEW m \in Nat, NEW n \in Nat, n <= Len(s)
  PROVE  SubSeq(s \o t, m + 1, n) = SubSeq(s, m + 1, n)
<1>1. CASE m + 1 <= n
  <2>1. m + 1 \in 1..Len(s) /\ n \in 1..Len(s)
    BY <1>1, LenProperties
  <2> QED BY <2>1, SubSeqOfConcat1
<1>2. CASE m + 1 > n
  BY <1>2, SubSeqEmpty
<1> QED BY <1>1, <1>2

\* What was appended is the rest.
LEMMA RestIsNew ==
  ASSUME NEW s \in Seq(Token), NEW t \in Seq(Token)
  PROVE  SubSeq(s \o t, Len(s) + 1, Len(s \o t)) = t
<1>1. Len(s) \in Nat /\ Len(t) \in Nat /\ Len(s \o t) = Len(s) + Len(t)
  BY LenProperties, ConcatProperties
<1>2. CASE t = <<>>
  <2>1. Len(t) = 0
    BY <1>2, EmptySeq
  <2>2. SubSeq(s \o t, Len(s) + 1, Len(s \o t)) = <<>>
    BY <1>1, <2>1, SubSeqEmpty
  <2> QED BY <1>2, <2>2
<1>3. CASE t # <<>>
  <2>1. Len(t) \in Nat \ {0}
    BY <1>3, EmptySeq
  <2>2. SubSeq(s \o t, Len(s) + 1, Len(s) + Len(t))
          = SubSeq(t, Len(s) + 1 - Len(s), Len(s) + Len(t) - Len(s))
    BY <1>1, <2>1, SubSeqOfConcat2
  <2>3. Len(s) + 1 - Len(s) = 1 /\ Len(s) + Len(t) - Len(s) = Len(t)
    BY <1>1
  <2>4. SubSeq(t, 1, Len(t)) = t
    BY SubSeqFull
  <2> QED BY <1>1, <2>2, <2>3, <2>4
<1> QED BY <1>2, <1>3

\* Whatever stdio writes out, the file is a beginning of what was printed.
LEMMA Written ==
  ASSUME NEW s \in Seq(Token), NEW t \in Seq(Token), temp \in Seq(Token),
         Len(temp) <= Len(s), temp = SubSeq(s, 1, Len(temp)), WriteOut(s \o t)
  PROVE  /\ temp' \in Seq(Token) /\ Len(temp') <= Len(s \o t)
         /\ temp' = SubSeq(s \o t, 1, Len(temp'))
<1>1. /\ s \o t \in Seq(Token) /\ Len(s \o t) = Len(s) + Len(t)
      /\ Len(s) \in Nat /\ Len(t) \in Nat /\ Len(temp) \in Nat
  BY LenProperties, ConcatProperties
<1>2. CASE temp' = temp
  <2>1. SubSeq(s \o t, 0 + 1, Len(temp)) = SubSeq(s, 0 + 1, Len(temp))
    BY <1>1, PartStays
  <2>2. SubSeq(s \o t, 1, Len(temp)) = temp
    BY <2>1
  <2> QED BY <1>1, <1>2, <2>2
<1>3. ASSUME NEW n \in Len(temp)..Len(s \o t), temp' = SubSeq(s \o t, 1, n)
      PROVE  /\ temp' \in Seq(Token) /\ Len(temp') <= Len(s \o t)
             /\ temp' = SubSeq(s \o t, 1, Len(temp'))
  <2>1. n \in Nat /\ n <= Len(s \o t)
    BY <1>1
  <2>2. \A k \in 1..n : (s \o t)[k] \in Token
    BY <1>1, <2>1, LenProperties, ElementOfSeq
  <2>3. SubSeq(s \o t, 1, n) \in Seq(Token) /\ Len(SubSeq(s \o t, 1, n)) = n
    <3>1. CASE n = 0
      <4>1. SubSeq(s \o t, 1, n) = <<>>
        BY <1>1, <3>1, SubSeqEmpty
      <4> QED BY <3>1, <4>1, EmptySeq
    <3>2. CASE n # 0
      <4>1. n \in 1..Len(s \o t) /\ 1 \in 1..Len(s \o t)
        BY <1>1, <2>1, <3>2
      <4>2. 1 \in Nat /\ n \in Nat /\ n - 1 + 1 = n /\ 1 <= n
        BY <2>1, <3>2
      <4> QED BY <1>1, <2>1, <2>2, <4>1, <4>2, SubSeqProperties
    <3> QED BY <3>1, <3>2
  <2> QED BY <1>3, <2>1, <2>3
<1> QED BY <1>2, <1>3 DEF WriteOut

\* One more line: the cuts there were stay, the new one comes last.
LEMMA CutsGrow ==
  ASSUME TypeOK, NEW c \in Cut, cuts' = Append(cuts, c)
  PROVE  /\ Len(cuts) \in Nat /\ Len(cuts') = Len(cuts) + 1
         /\ DOMAIN cuts = 1..Len(cuts) /\ DOMAIN cuts' = 1..(Len(cuts) + 1)
         /\ \A k \in 0..Len(cuts) : CutAt(k)' = CutAt(k)
         /\ cuts'[Len(cuts) + 1] = c /\ LastCut' = c
<1>1. cuts \in Seq(Cut)
  BY DEF TypeOK
<1>2. /\ Len(cuts) \in Nat /\ Len(cuts') = Len(cuts) + 1
      /\ DOMAIN cuts = 1..Len(cuts) /\ DOMAIN cuts' = 1..(Len(cuts) + 1)
  BY <1>1, LenProperties, AppendProperties
<1>3. \A k \in 1..Len(cuts) : cuts'[k] = cuts[k]
  BY <1>1, AppendProperties
<1>4. cuts'[Len(cuts) + 1] = c
  BY <1>1, AppendProperties
<1>5. ASSUME NEW k \in 0..Len(cuts) PROVE CutAt(k)' = CutAt(k)
  <2>1. k # 0 => k \in 1..Len(cuts)
    BY <1>2
  <2> QED BY <1>3, <2>1 DEF CutAt
<1>6. LastCut' = c
  BY <1>2, <1>4 DEF LastCut, CutAt
<1> QED BY <1>2, <1>4, <1>5, <1>6

(***************************************************************************)
(* CopyLine keeps the copy what it is.                                     *)
(***************************************************************************)
LEMMA CopyLineCopies ==
  ASSUME TypeOK, CopyInv, CopyLine
  PROVE  RewrittenSoFar'
<1>1. PICK e \in NextEnds, new \in Seq(Token) :
        /\ \A d \in NextEnds : e <= d
        /\ new \in Rewrites(SubSeq(old, LastCut.from + 1, e), filter_obj, update_obj)
        /\ printed \in Seq(Token) /\ printed' = printed \o new
        /\ pos' = e
        /\ cuts' = Append(cuts, [from |-> e, to |-> Len(printed')])
  BY CopyLineFacts
<1>2. /\ data = old /\ pos = LastCut.from
      /\ Ordered /\ OneByOne /\ NoneMissing /\ LastCut.to = Len(printed)
  BY DEF CopyLine, CopyInv, Updating, RewrittenSoFar
<1>3. old' = old /\ filter_obj' = filter_obj /\ update_obj' = update_obj
  BY DEF CopyLine
<1>4. PICK n, to : n = Len(cuts) /\ to = Len(printed')
  OBVIOUS
<1>5. /\ printed' \in Seq(Token)
      /\ Len(printed) \in Nat /\ to \in Nat /\ Len(printed) <= to
  <2>1. Len(printed) \in Nat /\ Len(new) \in Nat
    BY <1>1, LenProperties
  <2>2. printed \o new \in Seq(Token) /\ Len(printed \o new) = Len(printed) + Len(new)
    BY <1>1, ConcatProperties
  <2> QED BY <1>1, <1>4, <2>1, <2>2
<1>6. e \in 1..Len(old) /\ e \in Nat /\ Len(old) \in Nat /\ LastCut.from < e
  <2>1. Len(old) \in Nat /\ DOMAIN old = 1..Len(old)
    BY LenProperties DEF TypeOK
  <2> QED BY <1>1, <1>2, <2>1 DEF NextEnds, LineEnds
<1>7. [from |-> e, to |-> to] \in Cut
  BY <1>5, <1>6 DEF Cut
<1>8. /\ n \in Nat
      /\ DOMAIN cuts = 1..n /\ DOMAIN cuts' = 1..(n + 1)
      /\ \A k \in 0..n : CutAt(k)' = CutAt(k) /\ CutAt(k) \in Cut
      /\ cuts'[n + 1] = [from |-> e, to |-> to]
      /\ LastCut' = [from |-> e, to |-> to]
  BY <1>1, <1>4, <1>7, CutsGrow, CutType
<1>9. CutAt(n + 1)' = [from |-> e, to |-> to] /\ CutAt(n) = LastCut
  BY <1>4, <1>8 DEF CutAt, LastCut
<1>10. n + 1 - 1 = n
  BY <1>8
<1>11. Ordered'
  <2> SUFFICES ASSUME NEW k \in 1..(n + 1)
               PROVE  /\ CutAt(k - 1)'.from < CutAt(k)'.from /\ CutAt(k)'.from <= Len(old)
                      /\ CutAt(k - 1)'.to <= CutAt(k)'.to /\ CutAt(k)'.to <= Len(printed')
    BY <1>3, <1>8 DEF Ordered
  <2>1. CASE k = n + 1
    BY <1>2, <1>4, <1>5, <1>6, <1>8, <1>9, <1>10, <2>1
  <2>2. CASE k # n + 1
    <3>1. k \in 1..n /\ k \in 0..n /\ k - 1 \in 0..n
      BY <1>8, <2>2
    <3>2. /\ CutAt(k - 1).from < CutAt(k).from /\ CutAt(k).from <= Len(old)
          /\ CutAt(k - 1).to <= CutAt(k).to /\ CutAt(k).to <= Len(printed)
      BY <1>2, <1>8, <3>1 DEF Ordered
    <3>3. CutAt(k)'= CutAt(k) /\ CutAt(k - 1)' = CutAt(k - 1) /\ CutAt(k).to \in Nat
      BY <1>8, <3>1 DEF Cut
    <3> QED BY <1>4, <1>5, <3>2, <3>3
  <2> QED BY <2>1, <2>2
<1>12. OneByOne'
  <2> SUFFICES ASSUME NEW k \in 1..(n + 1)
               PROVE  SubSeq(printed', CutAt(k - 1)'.to + 1, CutAt(k)'.to)
                        \in Rewrites(SubSeq(old, CutAt(k - 1)'.from + 1, CutAt(k)'.from),
                                     filter_obj, update_obj)
    BY <1>3, <1>8 DEF OneByOne, NewLine, OldLine
  <2>1. CASE k = n + 1
    <3>1. /\ CutAt(k - 1)'.to = Len(printed) /\ CutAt(k)'.to = Len(printed')
          /\ CutAt(k - 1)'.from = LastCut.from /\ CutAt(k)'.from = e
      BY <1>2, <1>4, <1>8, <1>9, <1>10, <2>1
    <3>2. SubSeq(printed \o new, Len(printed) + 1, Len(printed \o new)) = new
      BY <1>1, RestIsNew
    <3> QED BY <1>1, <3>1, <3>2
  <2>2. CASE k # n + 1
    <3>1. k \in 1..n /\ k \in 0..n /\ k - 1 \in 0..n
      BY <1>8, <2>2
    <3>2. /\ CutAt(k)'= CutAt(k) /\ CutAt(k - 1)' = CutAt(k - 1)
          /\ CutAt(k).to \in Nat /\ CutAt(k - 1).to \in Nat
      BY <1>8, <3>1 DEF Cut
    <3>3. CutAt(k).to <= Len(printed)
      BY <1>2, <1>8, <3>1 DEF Ordered
    <3>4. SubSeq(printed \o new, CutAt(k - 1).to + 1, CutAt(k).to)
            = SubSeq(printed, CutAt(k - 1).to + 1, CutAt(k).to)
      BY <1>1, <3>2, <3>3, PartStays
    <3>5. NewLine(printed, k) \in Rewrites(OldLine(k), filter_obj, update_obj)
      BY <1>2, <1>8, <3>1 DEF OneByOne
    <3> QED BY <1>1, <3>2, <3>4, <3>5 DEF NewLine, OldLine
  <2> QED BY <2>1, <2>2
<1>13. NoneMissing'
  <2> SUFFICES ASSUME NEW d \in LineEnds(old), d <= e
               PROVE  \E k \in 1..(n + 1) : cuts'[k].from = d
    BY <1>3, <1>8 DEF NoneMissing
  <2>0. d \in Nat /\ LastCut.from \in Nat
    <3>1. DOMAIN old = 1..Len(old)
      BY LenProperties DEF TypeOK
    <3>2. CutAt(n) \in Cut
      BY <1>8
    <3> QED BY <1>9, <3>1, <3>2 DEF LineEnds, Cut
  <2>1. CASE d <= LastCut.from
    <3>1. PICK k \in 1..n : cuts[k].from = d
      BY <1>2, <1>8, <2>1 DEF NoneMissing
    <3>2. CutAt(k)' = CutAt(k) /\ k # 0 /\ k \in 1..(n + 1)
      BY <1>8, <3>1
    <3> QED BY <3>1, <3>2 DEF CutAt
  <2>2. CASE d > LastCut.from
    <3>1. d \in NextEnds
      BY <1>2, <2>2 DEF NextEnds
    <3>2. d = e
      BY <1>1, <1>6, <2>0, <3>1
    <3> QED BY <1>8, <3>2
  <2> QED BY <2>0, <2>1, <2>2
<1>14. LastCut'.to = Len(printed')
  BY <1>4, <1>8
<1> QED BY <1>11, <1>12, <1>13, <1>14 DEF RewrittenSoFar

LEMMA CopyLineWrites ==
  ASSUME TypeOK, CopyInv, CopyLine
  PROVE  temp' \in Seq(Token) /\ WrittenSoFar'
<1>1. PICK new \in Seq(Token) : printed \in Seq(Token) /\ printed' = printed \o new
  BY CopyLineFacts
<1>2. temp # NoFile /\ WriteOut(printed')
  BY DEF CopyLine, CopyInv, Updating
<1>3. /\ temp \in Seq(Token) /\ Len(temp) <= Len(printed)
      /\ temp = SubSeq(printed, 1, Len(temp))
  BY <1>2 DEF CopyInv, WrittenSoFar, TypeOK, File
<1>4. WriteOut(printed \o new)
  BY <1>1, <1>2 DEF WriteOut
<1>5. /\ temp' \in Seq(Token) /\ Len(temp') <= Len(printed \o new)
      /\ temp' = SubSeq(printed \o new, 1, Len(temp'))
  BY <1>1, <1>3, <1>4, Written
<1> QED BY <1>1, <1>5 DEF WrittenSoFar

-----------------------------------------------------------------------------
(***************************************************************************)
(* Types.  The copying loop needs CopyInv for its own: its line comes from *)
(* a file that exists, and goes to one.                                    *)
(***************************************************************************)
LEMMA TypeStep ==
  ASSUME TypeOK, CopyInv, [Next]_vars
  PROVE  TypeOK'
<1> USE DEF TypeOK, update, listing, files, bounds, PC
<1>0. NoFile \in File /\ Any \in Order /\ MaxCommands \in Nat /\ MaxCrashes \in Nat
  BY AnyType, StoreAssumption DEF File
<1>a. ASSUME Command PROVE commands' \in 0..MaxCommands /\ crashes' = crashes
  BY <1>0, <1>a DEF Command
<1>1. CASE Start
  BY <1>1 DEF Start
<1>2. CASE Quit
  BY <1>2 DEF Quit
<1>3. ASSUME NEW f \in Entry \cup {Any}, Read(f) PROVE TypeOK'
  <2>1. f \in Order
    BY <1>0, EntryType
  <2>2. data \in Seq(Token)
    BY <1>3 DEF Read, File
  <2>3. shown' \in Seq(Order)
    BY <1>3, <2>2, FilterType DEF Read
  <2> QED BY <1>3, <1>a, <2>1, <2>3 DEF Read
<1>4. CASE ReadFails
  BY <1>4, <1>a DEF ReadFails
<1>5. CASE PrintOrders
  <2>1. <<>> \in Seq(Order)
    BY EmptySeq
  <2> QED BY <1>0, <1>5, <2>1 DEF PrintOrders
<1>6. ASSUME NEW o \in Entry, Create(o) PROVE TypeOK'
  <2>1. Printed(o) \in Seq(Token)
    BY EntryType, PrintedType
  <2>2. (IF data = NoFile THEN <<>> ELSE data) \in Seq(Token)
    <3>1. <<>> \in Seq(Token)
      BY EmptySeq
    <3> QED BY <3>1 DEF File
  <2>3. data' \in Seq(Token)
    BY <1>6, <2>1, <2>2, ConcatProperties DEF Create
  <2>4. data' \in File
    BY <2>3 DEF File
  <2> QED BY <1>6, <1>a, <2>4 DEF Create
<1>7. ASSUME NEW f \in Entry, NEW u \in Entry \cup {NoOrder}, OpenUpdate(f, u)
      PROVE  TypeOK'
  <2>1. f \in Order /\ u \in Order \cup {NoOrder}
    BY EntryType
  <2>2. data \in Seq(Token)
    BY <1>7 DEF OpenUpdate, File
  <2>3. <<>> \in Seq(Token) /\ <<>> \in Seq(Cut)
    BY EmptySeq
  <2>4. temp' \in File
    BY <1>7, <2>3 DEF OpenUpdate, File
  <2> QED BY <1>7, <1>a, <2>1, <2>2, <2>3, <2>4 DEF OpenUpdate
<1>8. CASE UpdateFails
  BY <1>8, <1>a DEF UpdateFails
<1>9. CASE CopyLine
  <2>1. PICK e \in NextEnds, new \in Seq(Token) :
          /\ printed \in Seq(Token) /\ printed' = printed \o new
          /\ pos' = e
          /\ cuts' = Append(cuts, [from |-> e, to |-> Len(printed')])
    BY <1>9, CopyLineFacts
  <2>2. printed' \in Seq(Token)
    BY <2>1, ConcatProperties
  <2>3. data \in Seq(Token)
    BY <1>9 DEF CopyLine, CopyInv, Updating
  <2>4. e \in Nat
    BY <2>1, <2>3, LenProperties DEF NextEnds, LineEnds
  <2>5. [from |-> e, to |-> Len(printed')] \in Cut
    BY <2>2, <2>4, LenProperties DEF Cut
  <2>6. cuts' \in Seq(Cut)
    BY <2>1, <2>5, AppendProperties
  <2>7. temp' \in File
    BY <1>9, CopyLineWrites DEF File
  <2> QED BY <1>9, <2>1, <2>2, <2>4, <2>6, <2>7 DEF CopyLine
<1>10. CASE Close
  BY <1>10 DEF Close, File
<1>11. CASE Remove
  BY <1>0, <1>11 DEF Remove
<1>12. CASE Rename
  BY <1>0, <1>12 DEF Rename
<1>13. CASE Crash
  <2>1. <<>> \in Seq(Order)
    BY EmptySeq
  <2>2. crashes' \in 0..MaxCrashes
    BY <1>0, <1>13 DEF Crash
  <2> QED BY <1>0, <1>13, <2>1, <2>2 DEF Crash
<1>14. CASE UNCHANGED vars
  BY <1>14 DEF vars
<1> QED
  BY <1>1, <1>2, <1>3, <1>4, <1>5, <1>6, <1>7, <1>8, <1>9, <1>10, <1>11,
     <1>12, <1>13, <1>14 DEF Next

(***************************************************************************)
(* CopyInv is inductive.                                                   *)
(***************************************************************************)
LEMMA CopyStep ==
  ASSUME TypeOK, CopyInv, [Next]_vars
  PROVE  CopyInv'
<1> USE DEF files
\* Outside update nothing but the place of the program changes.
<1>a. ASSUME UNCHANGED <<files, update>>, pc' \notin {"copy", "closed", "removed"}
      PROVE  CopyInv'
  <2>1. RewrittenSoFar' /\ WrittenSoFar'
    BY <1>a, CopyStays, FileStays DEF CopyInv
  <2>2. LastCut' = LastCut /\ old' = old
    BY <1>a, LastCutStays
  <2> QED BY <1>a, <2>1, <2>2 DEF CopyInv, Updating, OneFileLeft, update
<1>1. CASE Start
  BY <1>1, <1>a DEF Start
<1>2. CASE Quit
  BY <1>2, <1>a DEF Quit
<1>3. ASSUME NEW f \in Entry \cup {Any}, Read(f) PROVE CopyInv'
  BY <1>3, <1>a DEF Read
<1>4. CASE ReadFails
  BY <1>4, <1>a DEF ReadFails
<1>5. CASE PrintOrders
  BY <1>5, <1>a DEF PrintOrders
<1>6. ASSUME NEW o \in Entry, Create(o) PROVE CopyInv'
  <2>1. RewrittenSoFar' /\ WrittenSoFar'
    BY <1>6, CopyStays, FileStays DEF Create, CopyInv
  <2>2. pc = "menu" /\ pc' = "menu"
    BY <1>6 DEF Create, Command
  <2>3. data' # NoFile
    <3>1. Printed(o) \in Seq(Token)
      BY EntryType, PrintedType
    <3>2. (IF data = NoFile THEN <<>> ELSE data) \in Seq(Token)
      <4>1. <<>> \in Seq(Token)
        BY EmptySeq
      <4> QED BY <4>1 DEF File, TypeOK
    <3>3. data' \in Seq(Token)
      BY <1>6, <3>1, <3>2, ConcatProperties DEF Create
    <3> QED BY <3>3, StoreAssumption
  <2> QED BY <2>1, <2>2, <2>3 DEF CopyInv, Updating, OneFileLeft
<1>7. ASSUME NEW f \in Entry, NEW u \in Entry \cup {NoOrder}, OpenUpdate(f, u)
      PROVE  CopyInv'
  <2>1. /\ temp' = <<>> /\ printed' = <<>> /\ cuts' = <<>> /\ old' = data /\ data' = data
        /\ pos' = 0 /\ pc' = "copy" /\ data # NoFile
    BY <1>7 DEF OpenUpdate
  <2>2. Len(printed') = 0 /\ Len(temp') = 0 /\ Len(cuts') = 0 /\ DOMAIN cuts' = {} /\ temp' # NoFile
    <3>1. <<>> \in Seq(Token) /\ Len(<<>>) = 0
      BY EmptySeq
    <3>2. temp' # NoFile
      BY <2>1, <3>1, StoreAssumption
    <3>3. DOMAIN <<>> = 1..0
      BY <3>1, LenProperties
    <3> QED BY <2>1, <3>1, <3>2, <3>3
  <2>3. LastCut' = [from |-> 0, to |-> 0]
    BY <2>2 DEF LastCut, CutAt
  <2>4. \A e \in LineEnds(data) : ~(e <= 0)
    <3>1. data \in Seq(Token)
      BY <2>1 DEF TypeOK, File
    <3> QED BY <3>1, LenProperties DEF LineEnds
  <2>5. RewrittenSoFar'
    BY <2>1, <2>2, <2>3, <2>4 DEF RewrittenSoFar, Ordered, OneByOne, NoneMissing
  <2>6. WrittenSoFar'
    <3>1. <<>> \in Seq(Token) /\ Len(<<>>) = 0
      BY EmptySeq
    <3>2. SubSeq(<<>>, 1, 0) = <<>>
      BY <3>1, SubSeqEmpty
    <3> QED BY <2>1, <3>1, <3>2 DEF WrittenSoFar
  <2> QED BY <2>1, <2>2, <2>3, <2>5, <2>6 DEF CopyInv, Updating, OneFileLeft
<1>8. CASE UpdateFails
  <2>1. pc' = "menu"
    BY <1>8 DEF UpdateFails, Command
  <2> QED BY <1>8, <2>1, <1>a DEF UpdateFails
<1>9. CASE CopyLine
  <2>1. RewrittenSoFar'
    BY <1>9, CopyLineCopies
  <2>2. PICK e \in NextEnds, new \in Seq(Token) :
          /\ printed \in Seq(Token) /\ printed' = printed \o new
          /\ pos' = e
          /\ cuts' = Append(cuts, [from |-> e, to |-> Len(printed')])
    BY <1>9, CopyLineFacts
  <2>3. /\ data = old /\ data' = data /\ old' = old /\ pc' = "copy"
        /\ data \in Seq(Token)
    BY <1>9 DEF CopyLine, CopyInv, Updating, TypeOK
  <2>4. printed' \in Seq(Token) /\ e \in Nat
    <3>1. printed' \in Seq(Token)
      BY <2>2, ConcatProperties
    <3> QED BY <2>2, <2>3, <3>1, LenProperties DEF NextEnds, LineEnds
  <2>5. [from |-> e, to |-> Len(printed')] \in Cut
    BY <2>4, LenProperties DEF Cut
  <2>6. LastCut' = [from |-> e, to |-> Len(printed')]
    BY <2>2, <2>5, CutsGrow
  <2>7. temp' # NoFile /\ data' # NoFile /\ WrittenSoFar'
    BY <1>9, <2>3, CopyLineWrites, StoreAssumption
  <2> QED BY <2>1, <2>2, <2>3, <2>6, <2>7 DEF CopyInv, Updating, OneFileLeft
<1>10. CASE Close
  <2>1. RewrittenSoFar'
    BY <1>10, CopyStays DEF Close, CopyInv
  <2>2. LastCut' = LastCut /\ old' = old /\ pos' = pos
    BY <1>10, LastCutStays DEF Close
  <2>3. /\ pc = "copy" /\ pc' = "closed" /\ NextEnds = {}
        /\ data' = data /\ temp' = printed /\ printed' = printed
        /\ data = old
    BY <1>10 DEF Close, update, CopyInv, Updating
  <2>4. NextEnds' = {}
    BY <2>2, <2>3 DEF NextEnds
  <2>5. printed \in Seq(Token) /\ old \in Seq(Token)
    BY DEF TypeOK
  <2>6. temp' # NoFile /\ data' # NoFile
    BY <2>3, <2>5, StoreAssumption
  <2>7. WrittenSoFar'
    <3>1. SubSeq(printed, 1, Len(printed)) = printed /\ Len(printed) \in Nat
      BY <2>5, SubSeqFull, LenProperties
    <3> QED BY <2>3, <3>1 DEF WrittenSoFar
  <2>8. pos = LastCut.from
    BY <2>3 DEF CopyInv, Updating
  <2> QED BY <2>1, <2>2, <2>3, <2>4, <2>6, <2>7, <2>8
          DEF CopyInv, Updating, OneFileLeft
<1>11. CASE Remove
  <2>1. RewrittenSoFar' /\ WrittenSoFar'
    BY <1>11, CopyStays, FileStays DEF Remove, CopyInv
  <2>2. LastCut' = LastCut /\ old' = old
    BY <1>11, LastCutStays DEF Remove
  <2>3. /\ data = old /\ pos = LastCut.from /\ NextEnds = {} /\ temp = printed
        /\ data' = NoFile /\ temp' = temp /\ printed' = printed /\ pc' = "removed"
    BY <1>11 DEF Remove, CopyInv, Updating, update
  <2>4. \A e \in LineEnds(old) : e <= LastCut.from
    <3>1. old \in Seq(Token) /\ pos \in Nat
      BY DEF TypeOK
    <3>2. \A e \in LineEnds(old) : e \in Nat
      BY <3>1, LenProperties DEF LineEnds
    <3>3. \A e \in LineEnds(old) : ~(e > pos)
      BY <2>3 DEF NextEnds
    <3> QED BY <2>3, <3>1, <3>2, <3>3
  <2> QED BY <2>1, <2>2, <2>3, <2>4 DEF CopyInv, Updating, OneFileLeft
<1>12. CASE Rename
  <2>1. data' = temp /\ temp' = NoFile /\ pc' = "menu" /\ temp = printed
    BY <1>12 DEF Rename, CopyInv, OneFileLeft
  <2>2. temp # NoFile
    BY <2>1, StoreAssumption DEF TypeOK
  <2>3. RewrittenSoFar'
    BY <1>12, CopyStays DEF Rename, CopyInv
  <2> QED BY <2>1, <2>2, <2>3 DEF CopyInv, WrittenSoFar, Updating, OneFileLeft
<1>13. CASE Crash
  BY <1>13, <1>a DEF Crash
<1>14. CASE UNCHANGED vars
  <2>1. UNCHANGED <<files, update>> /\ pc' = pc
    BY <1>14 DEF vars
  <2>2. RewrittenSoFar' /\ WrittenSoFar'
    BY <2>1, CopyStays, FileStays DEF CopyInv
  <2>3. LastCut' = LastCut /\ old' = old /\ pos' = pos
    BY <2>1, LastCutStays
  <2> QED BY <2>1, <2>2, <2>3 DEF CopyInv, Updating, OneFileLeft, NextEnds, update
<1> QED
  BY <1>1, <1>2, <1>3, <1>4, <1>5, <1>6, <1>7, <1>8, <1>9, <1>10, <1>11,
     <1>12, <1>13, <1>14 DEF Next

-----------------------------------------------------------------------------
\* The invariant, with its types, holds of every run.
THEOREM StoreInvariant == Spec => [](TypeOK /\ CopyInv)
<1>1. Init => TypeOK /\ CopyInv
  <2> SUFFICES ASSUME Init PROVE TypeOK /\ CopyInv
    OBVIOUS
  <2>1. <<>> \in Seq(Token) /\ <<>> \in Seq(Cut) /\ <<>> \in Seq(Order)
    BY EmptySeq
  <2>2. TypeOK
    BY <2>1, AnyType, StoreAssumption DEF Init, TypeOK, File, PC
  <2>3. CopyInv
    <3>1. Len(printed) = 0 /\ Len(cuts) = 0 /\ DOMAIN cuts = {}
      <4>1. DOMAIN <<>> = 1..0
        BY <2>1, EmptySeq, LenProperties
      <4> QED BY <2>1, <4>1, EmptySeq DEF Init
    <3>2. LastCut = [from |-> 0, to |-> 0]
      BY <3>1 DEF LastCut, CutAt
    <3>3. \A e \in LineEnds(old) : ~(e <= 0)
      BY <2>2, LenProperties DEF LineEnds, TypeOK
    <3>4. data # NoFile
      BY StoreAssumption DEF Init
    <3> QED BY <3>1, <3>2, <3>3, <3>4
            DEF Init, CopyInv, RewrittenSoFar, Ordered, OneByOne, NoneMissing,
                WrittenSoFar, Updating, OneFileLeft
  <2> QED BY <2>2, <2>3
<1>2. TypeOK /\ CopyInv /\ [Next]_vars => (TypeOK /\ CopyInv)'
  BY TypeStep, CopyStep
<1> QED BY <1>1, <1>2, PTL DEF Spec

(***************************************************************************)
(* Every variable of the menu program keeps its type, uninitialised memory *)
(* and lines with too few columns included.                                *)
(***************************************************************************)
THEOREM TypeCorrect == Spec => []TypeOK
  BY StoreInvariant, PTL

(***************************************************************************)
(* update rewrites each line for itself, in order, and loses none; what a  *)
(* kill leaves of temp.txt, wherever stdio was writing, is a beginning of  *)
(* that, and all of it once data.txt is gone.                              *)
(***************************************************************************)
THEOREM CopyCorrect == Spec => []CopyInv
  BY StoreInvariant, PTL

(***************************************************************************)
(* Killed between remove and rename, or anywhere else, the program leaves  *)
(* the orders in one of its two files.                                     *)
(***************************************************************************)
THEOREM CrashCorrect == Spec => []CrashSafe
<1>1. TypeOK /\ CopyInv => CrashSafe
  <2> SUFFICES ASSUME TypeOK, CopyInv, data = NoFile
               PROVE  /\ temp # NoFile /\ temp = printed
                      /\ \A e \in LineEnds(old) : \E k \in DOMAIN cuts :
                           /\ cuts[k].from = e
                           /\ NewLine(temp, k)
                                \in Rewrites(OldLine(k), filter_obj, update_obj)
    BY DEF CrashSafe
  <2>1. temp = printed /\ \A e \in LineEnds(old) : e <= LastCut.from
    BY DEF CopyInv, OneFileLeft
  <2>2. NoneMissing /\ OneByOne
    BY DEF CopyInv, RewrittenSoFar
  <2>3. temp # NoFile
    BY <2>1, StoreAssumption DEF TypeOK
  <2> QED BY <2>1, <2>2, <2>3 DEF NoneMissing, OneByOne
<1> QED BY <1>1, StoreInvariant, PTL

-----------------------------------------------------------------------------
(***************************************************************************)
(* The lines of a file, one after the other.                               *)
(***************************************************************************)
\* Of natural numbers there is a least one: the induction the proofs need.
LEMMA Least ==
  ASSUME NEW T \in SUBSET Nat, T # {}
  PROVE  \E n \in T : \A m \in T : n <= m
<1>1. PICK n \in T : \A m \in T : ~(<<m, n>> \in OpToRel(<, Nat))
  BY NatLessThanWellFounded, WFMin
<1>2. ASSUME NEW m \in T PROVE n <= m
  <2>1. m \in Nat /\ n \in Nat
    OBVIOUS
  <2>2. <<m, n>> \in Nat \X Nat
    BY <2>1
  <2>3. ~(m < n)
    BY <1>1, <2>2, Zenon DEF OpToRel
  <2> QED BY <2>1, <2>3
<1> QED BY <1>2

LEMMA EndsType ==
  ASSUME NEW lines \in Seq(Token)
  PROVE  /\ Len(lines) \in Nat
         /\ \A e \in LineEnds(lines) :
              e \in Nat \ {0} /\ e <= Len(lines) /\ lines[e] \in Ending
         /\ \A e \in 1..Len(lines) : lines[e] \in Ending => e \in LineEnds(lines)
BY LenProperties DEF LineEnds

\* A line begins behind the end before it.
LEMMA BeginsAfter ==
  ASSUME NEW lines \in Seq(Token), NEW e \in LineEnds(lines),
         NEW p \in LineEnds(lines) \cup {0}, p < e,
         \A d \in LineEnds(lines) : ~(p < d /\ d < e)
  PROVE  Begins(lines, e) = p + 1
<1> DEFINE B == {b \in 1..(e - 1) : \A n \in b..(e - 1) : lines[n] \notin Ending}
<1>1. e \in Nat \ {0} /\ e <= Len(lines) /\ Len(lines) \in Nat /\ p \in Nat
  BY EndsType
<1>2. ASSUME NEW b \in 1..(e - 1), p < b, NEW n \in b..(e - 1)
      PROVE  lines[n] \notin Ending
  <2>1. n \in 1..Len(lines) /\ p < n /\ n < e
    BY <1>1, <1>2
  <2> QED BY <2>1, EndsType
<1>3. ASSUME NEW b \in B PROVE p < b
  <2> SUFFICES ASSUME ~(p < b) PROVE FALSE
    OBVIOUS
  <2>1. b \in 1..(e - 1) /\ p \in b..(e - 1) /\ p # 0
    BY <1>1
  <2>2. lines[p] \notin Ending
    BY <2>1
  <2> QED BY <2>1, <2>2, EndsType
<1>4. B = (p + 1)..(e - 1)
  BY <1>1, <1>2, <1>3
<1>5. Cardinality((p + 1)..(e - 1)) = e - 1 - p
  <2>1. p + 1 \in Int /\ e - 1 \in Int
    BY <1>1
  <2>2. Cardinality((p + 1)..(e - 1))
          = IF p + 1 > e - 1 THEN 0 ELSE (e - 1) - (p + 1) + 1
    BY <2>1, FS_Interval
  <2> QED BY <1>1, <2>2
<1>6. Begins(lines, e) = e - Cardinality(B)
  BY DEF Begins
<1> HIDE DEF B
<1> QED BY <1>1, <1>4, <1>5, <1>6

LEMMA LineBefore ==
  ASSUME NEW lines \in Seq(Token), NEW e \in LineEnds(lines)
  PROVE  Begins(lines, e) - 1 \in LineEnds(lines) \cup {0} /\ Begins(lines, e) - 1 < e
<1> DEFINE T == {e - d : d \in {c \in LineEnds(lines) \cup {0} : c < e}}
<1>1. e \in Nat \ {0} /\ \A d \in LineEnds(lines) : d \in Nat
  BY EndsType
<1>2. T \in SUBSET Nat /\ e - 0 \in T
  BY <1>1
<1>3. PICK t \in T : \A s \in T : t <= s
  BY <1>2, Least
<1>4. PICK p \in LineEnds(lines) \cup {0} : p < e /\ t = e - p
  BY <1>3
<1>5. ASSUME NEW d \in LineEnds(lines), p < d, d < e PROVE FALSE
  <2>1. t <= e - d
    BY <1>3, <1>5
  <2>2. d \in Nat /\ p \in Nat
    BY <1>1, <1>4
  <2> QED BY <1>1, <1>4, <1>5, <2>1, <2>2
<1>6. Begins(lines, e) = p + 1
  BY <1>4, <1>5, BeginsAfter
<1>7. p \in Nat
  BY <1>1, <1>4
<1> QED BY <1>4, <1>6, <1>7

(***************************************************************************)
(* Made is the function its definition describes: there is one, because a  *)
(* line refers to the line before it.                                      *)
(***************************************************************************)
LEMMA MadeLines ==
  ASSUME NEW lines \in Seq(Token), NEW f, NEW u
  PROVE  /\ Made(lines, f, u)[0] = {<<>>}
         /\ \A e \in LineEnds(lines) :
              Made(lines, f, u)[e]
                = Extended(Made(lines, f, u)[Begins(lines, e) - 1],
                           Rewrites(LineAt(lines, e), f, u))
<1> DEFINE Ends == LineEnds(lines) \cup {0}
           Line(g, e) == IF e = 0 THEN {<<>>}
                         ELSE Extended(g[Begins(lines, e) - 1],
                                       Rewrites(LineAt(lines, e), f, u))
           Upto(n) == {e \in Ends : e <= n}
           Begun(n) == \E g : g = [e \in Upto(n) |-> Line(g, e)]
           Whole(g) == [e \in Ends |-> Line(g, e)]
<1>1. \A e \in Ends : e \in Nat /\ e <= Len(lines)
  BY EndsType
<1>2. \A e \in Ends \ {0} : Begins(lines, e) - 1 \in Ends /\ Begins(lines, e) - 1 < e
  BY LineBefore
<1>3. \A n \in Nat : Begun(n)
  <2> SUFFICES ASSUME NEW m \in Nat, ~Begun(m) PROVE FALSE
    OBVIOUS
  <2>1. {n \in Nat : ~Begun(n)} \in SUBSET Nat /\ {n \in Nat : ~Begun(n)} # {}
    OBVIOUS
  <2>2. PICK n \in Nat : ~Begun(n) /\ \A k \in Nat : ~Begun(k) => n <= k
    <3> HIDE DEF Begun
    <3> QED BY <2>1, Least
  <2>3. CASE n = 0
    <3> DEFINE g == [e \in Upto(0) |-> {<<>>}]
    <3>1. \A e \in Upto(0) : e = 0
      BY <1>1
    <3>2. g = [e \in Upto(0) |-> Line(g, e)]
      BY <3>1
    <3> QED BY <2>2, <2>3, <3>2
  <2>4. CASE n # 0
    <3>1. n - 1 \in Nat /\ ~(n <= n - 1)
      BY <2>4
    <3>2. PICK g : g = [e \in Upto(n - 1) |-> Line(g, e)]
      BY <2>2, <3>1
    <3> DEFINE h == [e \in Upto(n) |-> IF e = n THEN Line(g, e) ELSE g[e]]
    <3>3. \A e \in Upto(n) : e # n => e \in Upto(n - 1)
      BY <1>1
    <3>4. \A e \in Upto(n) \ {0} :
            Begins(lines, e) - 1 \in Upto(n) /\ Begins(lines, e) - 1 # n
      BY <1>1, <1>2
    <3>5. \A e \in Upto(n) \ {0} : h[Begins(lines, e) - 1] = g[Begins(lines, e) - 1]
      BY <3>4
    <3>6. \A e \in Upto(n) : Line(h, e) = Line(g, e)
      <4> HIDE DEF h, Upto
      <4> QED BY <3>5
    <3>7. \A e \in Upto(n) : h[e] = Line(g, e)
      <4> HIDE DEF Upto
      <4>1. \A e \in Upto(n) : h[e] = IF e = n THEN Line(g, e) ELSE g[e]
        OBVIOUS
      <4> HIDE DEF h, Line
      <4>2. \A e \in Upto(n - 1) : g[e] = Line(g, e)
        BY <3>2
      <4> QED BY <3>3, <4>1, <4>2
    <3>8. h = [e \in Upto(n) |-> Line(h, e)]
      <4> HIDE DEF Upto, Line
      <4>1. h = [e \in Upto(n) |-> h[e]]
        OBVIOUS
      <4> HIDE DEF h
      <4> QED BY <3>6, <3>7, <4>1
    <3> QED BY <2>2, <3>8
  <2> QED BY <2>3, <2>4
<1>4. Upto(Len(lines)) = Ends /\ Len(lines) \in Nat
  BY <1>1, EndsType
<1>5. \E g : g = Whole(g)
  <2>1. Begun(Len(lines))
    BY <1>3, <1>4
  <2> QED BY <1>4, <2>1
<1>6. Made(lines, f, u) = CHOOSE g : g = Whole(g)
  BY DEF Made
<1>7. Made(lines, f, u) = Whole(Made(lines, f, u))
  <2> HIDE DEF Whole
  <2>1. (CHOOSE g : g = Whole(g)) = Whole(CHOOSE g : g = Whole(g))
    BY <1>5, Zenon
  <2> QED BY <1>6, <2>1, Zenon
<1>8. \A e \in Ends : Made(lines, f, u)[e] = Line(Made(lines, f, u), e)
  BY <1>7
<1>9. \A e \in LineEnds(lines) : e \in Ends /\ e # 0
  BY EndsType
<1> QED BY <1>8, <1>9

-----------------------------------------------------------------------------
(***************************************************************************)
(* The book.  What update has printed is one of the ways to rewrite        *)
(* data.txt up to the line that was read last.                             *)
(***************************************************************************)
Making ==
  pc \in {"copy", "closed"} =>
    /\ filter_obj \in Entry /\ update_obj \in Entry \cup {NoOrder}
    /\ pos \in LineEnds(data) \cup {0}
    /\ printed \in Made(data, filter_obj, update_obj)[pos]

\* One more line.
LEMMA MakingLine ==
  ASSUME TypeOK, CopyInv, Making, CopyLine
  PROVE  Making'
<1>1. /\ pc = "copy" /\ data \in Seq(Token)
      /\ UNCHANGED <<pc, data, filter_obj, update_obj>>
  BY DEF CopyLine, CopyInv, Updating, TypeOK
<1>2. PICK e \in NextEnds :
        /\ \A d \in NextEnds : e <= d
        /\ \E new \in Rewrites(SubSeq(data, pos + 1, e), filter_obj, update_obj) :
             printed' = printed \o new
        /\ pos' = e
  BY DEF CopyLine
<1>3. PICK new \in Rewrites(SubSeq(data, pos + 1, e), filter_obj, update_obj) :
        printed' = printed \o new
  BY <1>2
<1>4. /\ pos \in LineEnds(data) \cup {0}
      /\ printed \in Made(data, filter_obj, update_obj)[pos]
  BY <1>1 DEF Making
<1>5. e \in LineEnds(data) /\ pos < e /\ pos \in Nat /\ e \in Nat
  BY <1>1, <1>2, EndsType DEF NextEnds, TypeOK
<1>6. \A d \in LineEnds(data) : ~(pos < d /\ d < e)
  <2> SUFFICES ASSUME NEW d \in LineEnds(data), pos < d, d < e PROVE FALSE
    OBVIOUS
  <2>1. d \in Nat
    BY <1>1, EndsType
  <2>2. e <= d
    BY <1>2, <1>5, <2>1 DEF NextEnds
  <2> QED BY <1>5, <2>1, <2>2
<1>7. Begins(data, e) = pos + 1
  BY <1>1, <1>4, <1>5, <1>6, BeginsAfter
<1>8. Begins(data, e) - 1 = pos
  BY <1>5, <1>7
<1>9. new \in Rewrites(LineAt(data, e), filter_obj, update_obj)
  BY <1>3, <1>7 DEF LineAt
<1>10. printed' \in Extended(Made(data, filter_obj, update_obj)[pos],
                          Rewrites(LineAt(data, e), filter_obj, update_obj))
  BY <1>3, <1>4, <1>9 DEF Extended
<1>11. printed' \in Made(data, filter_obj, update_obj)[e]
  BY <1>1, <1>5, <1>8, <1>10, MadeLines
<1> QED BY <1>1, <1>2, <1>4, <1>5, <1>11 DEF Making

LEMMA MakingStep ==
  ASSUME TypeOK, CopyInv, Making, [Next]_vars
  PROVE  Making'
<1>1. CASE pc' \notin {"copy", "closed"}
  BY <1>1 DEF Making
<1>2. ASSUME NEW f \in Entry, NEW u \in Entry \cup {NoOrder}, OpenUpdate(f, u)
      PROVE  Making'
  <2>1. /\ filter_obj' = f /\ update_obj' = u /\ pos' = 0 /\ printed' = <<>>
        /\ data' = data /\ data \in Seq(Token)
    BY <1>2 DEF OpenUpdate, TypeOK, File
  <2>2. printed' \in Made(data', f, u)[0]
    BY <2>1, MadeLines
  <2> QED BY <2>1, <2>2 DEF Making
<1>3. CASE CopyLine
  BY <1>3, MakingLine
<1>4. CASE Close
  BY <1>4 DEF Close, Making, files, update
<1>5. CASE UNCHANGED vars
  BY <1>5 DEF vars, Making, files, update
<1>6. CASE \/ Start \/ Quit \/ ReadFails \/ PrintOrders \/ UpdateFails
           \/ Remove \/ Rename \/ Crash
  <2>1. pc' \notin {"copy", "closed"}
    BY <1>6 DEF Start, Quit, ReadFails, PrintOrders, UpdateFails, Command, Remove,
                Rename, Crash
  <2> QED BY <1>1, <2>1
<1>7. CASE \/ \E f \in Entry \cup {Any} : Read(f)
           \/ \E o \in Entry : Create(o)
  <2>1. pc' \notin {"copy", "closed"}
    BY <1>7 DEF Read, Create, Command
  <2> QED BY <1>1, <2>1
<1> QED BY <1>2, <1>3, <1>4, <1>5, <1>6, <1>7 DEF Next

\* At the end of the file printed.txt is one of the ways to change all of it.
LEMMA MadeAll ==
  ASSUME TypeOK, CopyInv, Making, pc = "closed"
  PROVE  data \in Seq(Token) /\ temp \in Changed(data, filter_obj, update_obj)
<1>1. data \in Seq(Token) /\ NextEnds = {} /\ temp = printed
  BY DEF CopyInv, Updating, TypeOK
<1>2. /\ pos \in LineEnds(data) \cup {0}
      /\ printed \in Made(data, filter_obj, update_obj)[pos]
  BY DEF Making
<1>3. \A d \in LineEnds(data) \cup {0} : d \in Nat /\ d <= pos
  <2>1. pos \in Nat
    BY DEF TypeOK
  <2>2. \A d \in LineEnds(data) : d \in Nat /\ ~(d > pos)
    BY <1>1, EndsType DEF NextEnds
  <2> QED BY <2>1, <2>2
<1> DEFINE last == CHOOSE e \in LineEnds(data) \cup {0} : \A d \in LineEnds(data) : d <= e
<1>4. last \in LineEnds(data) \cup {0} /\ \A d \in LineEnds(data) : d <= last
  BY <1>2, <1>3
<1> HIDE DEF last
<1>5. pos \in Nat /\ last \in Nat /\ last <= pos
  BY <1>2, <1>3, <1>4
<1>6. pos <= last
  BY <1>2, <1>4, <1>5
<1>7. last = pos
  BY <1>5, <1>6
<1> QED BY <1>1, <1>2, <1>7 DEF Changed, last

LEMMA BookStep ==
  ASSUME TypeOK, CopyInv, Making, [Next]_vars
  PROVE  [Book!Next]_book
<1> USE DEF files
<1>a. ASSUME pc # "removed", pc' # "removed", data' = data
      PROVE  book' = book
  BY <1>a DEF book
<1>b. NoFile \notin Seq(Token) /\ <<>> \in Seq(Token)
  BY StoreAssumption, EmptySeq
<1>1. CASE \/ Start \/ Quit \/ ReadFails \/ PrintOrders \/ UpdateFails
           \/ CopyLine \/ Close
  <2>1. data' = data /\ pc # "removed" /\ pc' # "removed"
    BY <1>1 DEF Start, Quit, ReadFails, PrintOrders, UpdateFails, CopyLine, Close, Command
  <2> QED BY <1>a, <2>1
<1>2. CASE \/ \E f \in Entry \cup {Any} : Read(f)
           \/ \E f \in Entry : \E u \in Entry \cup {NoOrder} : OpenUpdate(f, u)
  <2>1. data' = data /\ pc # "removed" /\ pc' # "removed"
    BY <1>2 DEF Read, OpenUpdate, Command
  <2> QED BY <1>a, <2>1
<1>3. ASSUME NEW o \in Entry, Create(o) PROVE [Book!Next]_book
  <2>1. /\ pc = "menu" /\ pc' = "menu"
        /\ data' = (IF data = NoFile THEN <<>> ELSE data) \o Printed(o)
    BY <1>3 DEF Create, Command
  <2>2. (IF data = NoFile THEN <<>> ELSE data) \in Seq(Token)
    BY <1>b DEF TypeOK, File
  <2>3. data' # NoFile
    BY <1>b, <2>1, <2>2, EntryType, PrintedType, ConcatProperties
  <2>4. book' = book \o Printed(o)
    BY <2>1, <2>3 DEF book
  <2> QED BY <2>4 DEF Book!Next, Book!Add
<1>4. CASE Remove
  <2>1. /\ pc = "closed" /\ pc' = "removed" /\ temp' = temp
        /\ filter_obj \in Entry /\ update_obj \in Entry \cup {NoOrder}
    BY <1>4 DEF Remove, Making
  <2>2. data \in Seq(Token) /\ temp \in Changed(data, filter_obj, update_obj)
    BY <2>1, MadeAll
  <2>3. book = data /\ book' = temp
    BY <1>b, <2>1, <2>2 DEF book
  <2> QED BY <2>1, <2>2, <2>3 DEF Book!Next, Book!Change
<1>5. CASE Rename
  <2>1. /\ pc = "removed" /\ pc' = "menu" /\ data' = temp /\ temp # NoFile
    BY <1>5, StoreAssumption DEF Rename, CopyInv, OneFileLeft, TypeOK
  <2>2. book' = book
    BY <2>1 DEF book
  <2> QED BY <2>2
<1>6. CASE Crash
  <2>1. data' = data /\ pc' = "off" /\ MaxCrashes > 0
    BY <1>6, StoreAssumption DEF Crash, TypeOK
  <2>2. CASE pc = "removed"
    <3>1. book' = <<>>
      BY <2>1, <2>2 DEF book, CopyInv, OneFileLeft
    <3> QED BY <2>1, <3>1 DEF Book!Next, Book!Vanish
  <2>3. CASE pc # "removed"
    BY <1>a, <2>1, <2>3
  <2> QED BY <2>2, <2>3
<1>7. CASE UNCHANGED vars
  BY <1>7 DEF vars, book
<1> QED BY <1>1, <1>2, <1>3, <1>4, <1>5, <1>6, <1>7 DEF Next

(***************************************************************************)
(* The program implements the book of orders: update changes all lines at  *)
(* once, when data.txt is removed, however many commands are given and     *)
(* wherever the program is killed.                                         *)
(***************************************************************************)
THEOREM ImplementsBook == Spec => Implements
<1>1. Init => Making /\ Book!Init
  BY StoreAssumption DEF Init, Making, Book!Init, book
<1>2. TypeOK /\ CopyInv /\ Making /\ [Next]_vars => Making'
  BY MakingStep
<1>3. TypeOK /\ CopyInv /\ Making /\ [Next]_vars => [Book!Next]_book
  BY BookStep
<1> QED BY <1>1, <1>2, <1>3, StoreInvariant, PTL DEF Spec, Implements, Book!Spec

-----------------------------------------------------------------------------
(***************************************************************************)
(* Rank numbers the elements of a finite set of numbers, Nth finds them.   *)
(***************************************************************************)
LEMMA RankRange ==
  ASSUME NEW S \in SUBSET Nat, IsFiniteSet(S), NEW n \in S
  PROVE  Cardinality(S) \in Nat /\ Rank(S, n) \in 1..Cardinality(S)
<1> DEFINE Below == {m \in S : m <= n}
<1>1. /\ IsFiniteSet(Below) /\ Cardinality(Below) <= Cardinality(S)
      /\ Cardinality(Below) \in Nat /\ Cardinality(S) \in Nat
  BY FS_Subset, FS_CardinalityType
<1>2. n \in Below
  OBVIOUS
<1>3. Cardinality(Below) # 0
  BY <1>1, <1>2, FS_EmptySet
<1> HIDE DEF Below
<1>4. Cardinality(Below) \in 1..Cardinality(S)
  BY <1>1, <1>3
<1> QED BY <1>1, <1>4 DEF Rank, Below

LEMMA RankRises ==
  ASSUME NEW S \in SUBSET Nat, IsFiniteSet(S), NEW m \in S, NEW n \in S, m < n
  PROVE  Rank(S, m) < Rank(S, n)
<1> DEFINE Below(k) == {i \in S : i <= k}
<1>1. Below(m) \subseteq Below(n) /\ Below(m) # Below(n)
  <2>1. m \in Nat /\ n \in Nat /\ n \in Below(n) /\ n \notin Below(m)
    OBVIOUS
  <2>2. ASSUME NEW i \in S, i <= m PROVE i <= n
    <3>1. i \in Nat
      OBVIOUS
    <3> QED BY <2>1, <2>2, <3>1
  <2>3. Below(m) \subseteq Below(n)
    BY <2>2
  <2> HIDE DEF Below
  <2> QED BY <2>1, <2>3
<1>2. IsFiniteSet(Below(n))
  BY FS_Subset
<1> HIDE DEF Below
<1>3. /\ IsFiniteSet(Below(m)) /\ Cardinality(Below(m)) <= Cardinality(Below(n))
      /\ Cardinality(Below(m)) # Cardinality(Below(n))
  BY <1>1, <1>2, FS_Subset
<1>4. Cardinality(Below(m)) \in Nat /\ Cardinality(Below(n)) \in Nat
  BY <1>2, <1>3, FS_CardinalityType
<1>5. Cardinality(Below(m)) < Cardinality(Below(n))
  BY <1>3, <1>4
<1> QED BY <1>5 DEF Rank, Below

\* Every number up to the size of the set is the rank of one element.
LEMMA NthRank ==
  ASSUME NEW S \in SUBSET Nat, IsFiniteSet(S)
  PROVE  /\ \A k \in 1..Cardinality(S) :
              /\ \E n \in S : Rank(S, n) = k
              /\ Nth(S, k) \in S /\ Rank(S, Nth(S, k)) = k
         /\ \A n \in S : Nth(S, Rank(S, n)) = n
<1> DEFINE c == Cardinality(S)
           rank == [n \in S |-> Rank(S, n)]
<1>1. c \in Nat /\ IsFiniteSet(1..c) /\ Cardinality(1..c) = c
  <2>1. c \in Nat
    BY FS_CardinalityType
  <2> QED BY <2>1, FS_Interval
<1>2. \A m, n \in S : Rank(S, m) = Rank(S, n) => m = n
  <2> SUFFICES ASSUME NEW m \in S, NEW n \in S, m < n PROVE Rank(S, m) # Rank(S, n)
    OBVIOUS
  <2>1. Rank(S, m) \in Nat /\ Rank(S, n) \in Nat
    BY RankRange
  <2> QED BY <2>1, RankRises
<1>3. rank \in Injection(S, 1..c)
  <2>1. rank \in [S -> 1..c]
    BY RankRange
  <2> QED BY <1>2, <2>1, Fun_IsInj
<1>4. rank \in Surjection(S, 1..c)
  BY <1>1, <1>3, FS_Injection
<1>5. \A k \in 1..c : \E n \in S : Rank(S, n) = k
  BY <1>4 DEF Surjection
<1>6. \A k \in 1..c : Nth(S, k) \in S /\ Rank(S, Nth(S, k)) = k
  BY <1>5 DEF Nth
<1>7. \A n \in S : Nth(S, Rank(S, n)) = n
  BY <1>2, <1>6, RankRange
<1> QED BY <1>5, <1>6, <1>7

\* A line with all its columns is read the same whatever was in the memory.
LEMMA FullLine ==
  ASSUME NEW line \in Seq(Token), ~Short(line), NEW x, NEW y
  PROVE  Interpret(line, x) = Interpret(line, y)
<1>1. Filled(line) \in SUBSET Nat /\ IsFiniteSet(Filled(line))
  <2>1. DOMAIN line = 1..Len(line) /\ Len(line) \in Nat
    BY LenProperties
  <2>2. Filled(line) \subseteq 1..Len(line) /\ IsFiniteSet(1..Len(line))
    BY <2>1, FS_Interval DEF Filled
  <2> QED BY <2>1, <2>2, FS_Subset
<1>2. \A c \in Columns : c \in 1..Cardinality(Filled(line))
  <2>1. Cardinality(Filled(line)) \in Nat
    BY <1>1, FS_CardinalityType
  <2> QED BY <2>1 DEF Short, Columns
<1>3. \A c \in Columns : \E n \in Filled(line) : Rank(Filled(line), n) = c
  BY <1>1, <1>2, NthRank
<1> QED BY <1>3 DEF Interpret

-----------------------------------------------------------------------------
(***************************************************************************)
(* Listed: what the menu has on its screen is what filter returned.        *)
(***************************************************************************)
Listed == pc = "list" => data \in Seq(Token) /\ shown \in Filter(data, asked)

LEMMA ListedStep ==
  ASSUME TypeOK, Listed, [Next]_vars
  PROVE  Listed'
<1>1. CASE pc' # "list"
  BY <1>1 DEF Listed
<1>2. ASSUME NEW f \in Entry \cup {Any}, Read(f) PROVE Listed'
  <2>1. /\ data \in Seq(Token) /\ data' = data
        /\ asked' = f /\ shown' \in Filter(data, f)
    BY <1>2 DEF Read, TypeOK, File, files
  <2> QED BY <2>1 DEF Listed
<1>3. CASE UNCHANGED vars
  BY <1>3 DEF Listed, vars, files, listing
<1>4. CASE \/ Start \/ Quit \/ ReadFails \/ PrintOrders \/ UpdateFails
           \/ CopyLine \/ Close \/ Remove \/ Rename \/ Crash
  <2>1. pc' # "list"
    BY <1>4 DEF Start, Quit, ReadFails, PrintOrders, UpdateFails, Command, CopyLine,
                Close, Remove, Rename, Crash
  <2> QED BY <1>1, <2>1
<1>5. CASE \/ \E o \in Entry : Create(o)
           \/ \E f \in Entry : \E u \in Entry \cup {NoOrder} : OpenUpdate(f, u)
  <2>1. pc' # "list"
    BY <1>5 DEF Create, OpenUpdate, Command
  <2> QED BY <1>1, <2>1
<1> QED BY <1>2, <1>3, <1>4, <1>5 DEF Next

(***************************************************************************)
(* The two passes of filter: if every line has its columns, the array is   *)
(* as long as what is put into it.                                         *)
(***************************************************************************)
LEMMA TidyFilter ==
  ASSUME NEW lines \in Seq(Token), NEW f, NEW found \in Filter(lines, f),
         \A e \in AllEnds(lines) : ~Short(LineAt(lines, e))
  PROVE  /\ \A k \in DOMAIN found : MatchesFilter(f, found[k])
         /\ \E at \in [DOMAIN found -> AllEnds(lines)] :
              /\ \A j, k \in DOMAIN at : j < k => at[j] < at[k]
              /\ \A k \in DOMAIN at : found[k] \in Readings(LineAt(lines, at[k]))
              /\ \A e \in AllEnds(lines) \ {at[k] : k \in DOMAIN at} :
                   \A a \in Readings(LineAt(lines, e)) : ~MatchesFilter(f, a)
<1>1. PICK read \in FileReadings(lines), count \in FileReadings(lines) :
        \E junk \in [1..Cardinality(Hits(f, count)) -> Junk] :
          found = Fill(Hits(f, read), read, junk)
  BY DEF Filter
<1>2. /\ AllEnds(lines) \in SUBSET Nat /\ IsFiniteSet(AllEnds(lines))
      /\ AllEnds(lines) \subseteq DOMAIN lines
  <2>1. DOMAIN lines = 1..Len(lines) /\ Len(lines) \in Nat
    BY LenProperties
  <2>2. AllEnds(lines) \subseteq 1..Len(lines)
    <3>1. lines # <<>> => Len(lines) \in 1..Len(lines)
      BY <2>1, EmptySeq
    <3> QED BY <2>1, <3>1 DEF AllEnds, LineEnds
  <2>3. IsFiniteSet(1..Len(lines))
    BY <2>1, FS_Interval
  <2> QED BY <2>1, <2>2, <2>3, FS_Subset
<1>3. \A e \in AllEnds(lines) : \A x, y :
        Interpret(LineAt(lines, e), x) = Interpret(LineAt(lines, e), y)
  BY <1>2, LineAtType, FullLine
<1>4. PICK stale \in [AllEnds(lines) -> Stale] :
        read = [e \in AllEnds(lines) |-> Interpret(LineAt(lines, e), stale[e])]
  BY DEF FileReadings
<1>5. count = read
  <2>1. PICK other \in [AllEnds(lines) -> Stale] :
          count = [e \in AllEnds(lines) |-> Interpret(LineAt(lines, e), other[e])]
    BY DEF FileReadings
  <2> QED BY <1>3, <1>4, <2>1
<1> DEFINE hits == Hits(f, read)
           c == Cardinality(hits)
           at == [k \in 1..c |-> Nth(hits, k)]
<1>6. /\ hits \in SUBSET Nat /\ IsFiniteSet(hits) /\ hits \subseteq AllEnds(lines)
      /\ \A e \in hits : MatchesFilter(f, read[e])
      /\ \A e \in AllEnds(lines) : MatchesFilter(f, read[e]) => e \in hits
  <2>1. DOMAIN read = AllEnds(lines)
    BY <1>4
  <2>2. /\ hits \subseteq AllEnds(lines)
        /\ \A e \in hits : MatchesFilter(f, read[e])
        /\ \A e \in AllEnds(lines) : MatchesFilter(f, read[e]) => e \in hits
    BY <2>1 DEF Hits
  <2> HIDE DEF hits
  <2> QED BY <1>2, <2>2, FS_Subset
<1> HIDE DEF hits
<1>7. c \in Nat
  BY <1>6, FS_CardinalityType
<1>8. /\ \A k \in 1..c :
           /\ \E n \in hits : Rank(hits, n) = k
           /\ at[k] \in hits /\ Rank(hits, at[k]) = k
      /\ \A n \in hits : Rank(hits, n) \in 1..c /\ at[Rank(hits, n)] = n
  BY <1>6, NthRank, RankRange
<1>9. DOMAIN found = 1..c /\ \A k \in 1..c : found[k] = read[at[k]]
  <2>1. PICK junk \in [1..c -> Junk] : found = Fill(hits, read, junk)
    BY <1>1, <1>5 DEF hits
  <2>2. DOMAIN junk = 1..c
    BY <2>1
  <2>3. found = [k \in 1..c |-> IF \E e \in hits : Rank(hits, e) = k
                                THEN read[Nth(hits, k)] ELSE junk[k]]
    BY <2>1, <2>2, Zenon DEF Fill
  <2> QED BY <1>8, <2>3
<1>10. at \in [DOMAIN found -> AllEnds(lines)] /\ DOMAIN at = 1..c
  BY <1>6, <1>8, <1>9
<1> HIDE DEF at, c
<1>11. \A k \in 1..c : MatchesFilter(f, found[k])
  BY <1>6, <1>8, <1>9
<1>12. \A j, k \in 1..c : j < k => at[j] < at[k]
  <2> SUFFICES ASSUME NEW j \in 1..c, NEW k \in 1..c, j < k, ~(at[j] < at[k])
               PROVE  FALSE
    OBVIOUS
  <2>1. at[j] \in hits /\ at[k] \in hits /\ at[j] \in Nat /\ at[k] \in Nat
        /\ Rank(hits, at[j]) = j /\ Rank(hits, at[k]) = k
    BY <1>6, <1>8
  <2>2. CASE at[j] = at[k]
    BY <1>7, <2>1, <2>2
  <2>3. CASE at[k] < at[j]
    <3>1. k < j
      BY <1>6, <2>1, <2>3, RankRises
    <3> QED BY <1>7, <3>1
  <2> QED BY <2>1, <2>2, <2>3
<1>13. \A k \in 1..c : found[k] \in Readings(LineAt(lines, at[k]))
  <2> SUFFICES ASSUME NEW k \in 1..c
               PROVE  found[k] \in Readings(LineAt(lines, at[k]))
    OBVIOUS
  <2>1. at[k] \in AllEnds(lines) /\ stale[at[k]] \in Stale
    BY <1>6, <1>8
  <2>2. found[k] = Interpret(LineAt(lines, at[k]), stale[at[k]])
    BY <1>4, <1>9, <2>1
  <2> QED BY <2>1, <2>2 DEF Readings
<1>14. ASSUME NEW e \in AllEnds(lines) \ {at[k] : k \in 1..c},
              NEW a \in Readings(LineAt(lines, e)), MatchesFilter(f, a)
       PROVE  FALSE
  <2>1. PICK x \in Stale : a = Interpret(LineAt(lines, e), x)
    BY DEF Readings
  <2>2. read[e] = a
    BY <1>3, <1>4, <2>1
  <2>3. e \in hits
    BY <1>6, <1>14, <2>2
  <2> QED BY <1>8, <1>14, <2>3
<1> QED BY <1>9, <1>10, <1>11, <1>12, <1>13, <1>14

(***************************************************************************)
(* Of a file whose lines have all their columns a listing shows the orders *)
(* that match, each once and in the order of the file, however long it is. *)
(***************************************************************************)
THEOREM ListingTidy == Spec => []TidyListing
<1>1. Init => Listed
  BY DEF Init, Listed
<1>2. TypeOK /\ Listed /\ [Next]_vars => Listed'
  BY ListedStep
<1>3. Listed => TidyListing
  BY TidyFilter, Zenon DEF Listed, TidyListing
<1> QED BY <1>1, <1>2, <1>3, TypeCorrect, PTL DEF Spec
=============================================================================
