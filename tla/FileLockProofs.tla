--------------------------- MODULE FileLockProofs ---------------------------
(***************************************************************************)
(* The lock of fcntl.c keeps the lines of the file whole, for any number   *)
(* and length of the lines, however many locks fail and runs are killed.   *)
(***************************************************************************)
EXTENDS FileLock, SequenceTheorems, TLAPS

\* How far a process is in its lines.
Stages ==
  /\ \A p \in Process : At(p) \in {"write", "unlock"} => round[p] < Rounds
  /\ \A p \in Process : at[p] # 0 => At(p) = "write"
  /\ parent \in {"off", "fork"} =>
       child = "none" /\ \A p \in Process : round[p] = 0
  /\ parent \in {"wait", "done"} => round["parent"] = Rounds
  /\ child = "end" => round["child"] = Rounds
  /\ parent = "done" => child = "end"

\* Who holds the lock is writing one of its lines, and nobody else is.
Held == \A p \in Process : holder = p <=> At(p) \in {"write", "unlock"}

\* The end of the file tells who is in the middle of a line, and where.
Ending(f) ==
  /\ f = <<>> => \A p \in Process : at[p] = 0
  /\ f # <<>> =>
       \/ f[Len(f)][2] = Newline /\ \A p \in Process : at[p] = 0
       \/ \E p \in Process : At(p) = "write" /\ f[Len(f)] = <<p, at[p]>>
EndKnown == parent # "off" => Ending(file)

Whole(f) == \A i \in 1..Len(f) - 1 : Follows(f[i], f[i + 1])

IInv == TypeOK /\ Stages /\ Held /\ EndKnown /\ Whole(file)

LEMMA TypeStep ==
  ASSUME Length \in Nat, Rounds \in Nat, TypeOK, Stages, [Next]_vars
  PROVE  TypeOK'
<1> USE DEF TypeOK, Moves, At, Process
<1>1. CASE Open
  <2>1. file' \in Seq(Process \X (1..Newline))
    BY <1>1, EmptySeq DEF Open
  <2> QED BY <1>1, <2>1 DEF Open
<1>2. CASE Fork \/ WaitChild
  BY <1>2 DEF Fork, WaitChild
<1>3. CASE ForkFails
  BY <1>3 DEF ForkFails
<1>4. CASE Kill
  BY <1>4 DEF Kill
<1>5. ASSUME NEW p \in Process, Lock(p) \/ Leave(p)
      PROVE  TypeOK'
  BY <1>5 DEF Lock, Leave
<1>6. ASSUME NEW p \in Process, Unlock(p) \/ LockFails(p)
      PROVE  TypeOK'
  <2>1. round[p] \in 0..Rounds /\ round[p] < Rounds
    BY <1>6 DEF Unlock, LockFails, Stages
  <2>2. round' = [round EXCEPT ![p] = @ + 1]
    BY <1>6 DEF Unlock, LockFails
  <2>3. round' \in [Process -> 0..Rounds]
    BY <2>1, <2>2
  <2>4. CASE Unlock(p)
    BY <2>3, <2>4 DEF Unlock
  <2>5. CASE LockFails(p)
    BY <2>3, <2>5 DEF LockFails
  <2> QED BY <1>6, <2>4, <2>5
<1>7. ASSUME NEW p \in Process, Write(p)
      PROVE  TypeOK'
  <2>1. <<p, at[p] + 1>> \in Process \X (1..Newline)
    BY DEF Newline
  <2>2. file' \in Seq(Process \X (1..Newline))
    BY <1>7, <2>1, AppendProperties DEF Write
  <2>3. at' \in [Process -> 0..Length]
    BY <1>7 DEF Write
  <2> QED BY <1>7, <2>2, <2>3 DEF Write
<1>8. CASE UNCHANGED vars
  BY <1>8 DEF vars
<1> QED
  BY <1>1, <1>2, <1>3, <1>4, <1>5, <1>6, <1>7, <1>8
  DEF Next, Parent, Child, Stop, Writer

LEMMA StagesStep ==
  ASSUME Length \in Nat, Rounds \in Nat, TypeOK, Stages, [Next]_vars
  PROVE  Stages'
<1> USE DEF TypeOK, Stages, Moves, At, Process
<1>1. CASE Open \/ Fork \/ WaitChild \/ ForkFails
  BY <1>1 DEF Open, Fork, WaitChild, ForkFails
<1>2. CASE Kill
  BY <1>2 DEF Kill
<1>3. ASSUME NEW p \in Process, Lock(p)
      PROVE  Stages'
  BY <1>3 DEF Lock
<1>4. ASSUME NEW p \in Process, Write(p)
      PROVE  Stages'
  BY <1>4 DEF Write
<1>5. ASSUME NEW p \in Process, Unlock(p)
      PROVE  Stages'
  BY <1>5 DEF Unlock
<1>6. ASSUME NEW p \in Process, Leave(p)
      PROVE  Stages'
  BY <1>6 DEF Leave
<1>7. ASSUME NEW p \in Process, LockFails(p)
      PROVE  Stages'
  BY <1>7 DEF LockFails
<1>8. CASE UNCHANGED vars
  BY <1>8 DEF vars
<1> QED
  BY <1>1, <1>2, <1>3, <1>4, <1>5, <1>6, <1>7, <1>8
  DEF Next, Parent, Child, Stop, Writer

LEMMA HeldStep ==
  ASSUME Length \in Nat, Rounds \in Nat, Locked = TRUE,
         TypeOK, Stages, Held, [Next]_vars
  PROVE  Held'
<1> USE DEF TypeOK, Stages, Held, Moves, At, Process
<1>1. CASE Open \/ Fork \/ WaitChild \/ ForkFails
  BY <1>1 DEF Open, Fork, WaitChild, ForkFails
<1>2. CASE Kill
  BY <1>2 DEF Kill
<1>3. ASSUME NEW p \in Process, Lock(p)
      PROVE  Held'
  BY <1>3 DEF Lock
<1>4. ASSUME NEW p \in Process, Write(p)
      PROVE  Held'
  BY <1>4 DEF Write
<1>5. ASSUME NEW p \in Process, Unlock(p)
      PROVE  Held'
  BY <1>5 DEF Unlock
<1>6. ASSUME NEW p \in Process, Leave(p)
      PROVE  Held'
  BY <1>6 DEF Leave
<1>7. ASSUME NEW p \in Process, LockFails(p)
      PROVE  Held'
  BY <1>7 DEF LockFails
<1>8. CASE UNCHANGED vars
  BY <1>8 DEF vars
<1> QED
  BY <1>1, <1>2, <1>3, <1>4, <1>5, <1>6, <1>7, <1>8
  DEF Next, Parent, Child, Stop, Writer

\* One character: it follows the one before it and is the new end.
LEMMA WriteStep ==
  ASSUME Length \in Nat, IInv, NEW p \in Process, Write(p)
  PROVE  EndKnown' /\ Whole(file')
<1> USE DEF IInv
<1> DEFINE c == <<p, at[p] + 1>>
<1>1. PICK n \in Nat : n = Len(file)
  BY DEF TypeOK
<1>2. At(p) = "write" /\ parent # "off" /\ holder = p
  BY DEF Write, Moves, Stages, Held, At, Process
<1>3. \A q \in Process : q # p => At(q) # "write" /\ at[q] = 0
  BY <1>2 DEF Stages, Held
<1>4. c \in Process \X (1..Newline)
  BY DEF TypeOK, Newline
<1>5. /\ Len(file') = n + 1 /\ file'[n + 1] = c
      /\ \A k \in 1..n : file'[k] = file[k]
      /\ file' # <<>>
  <2>1. file' = Append(file, c)
    BY DEF Write
  <2>2. /\ Len(file') = n + 1 /\ file'[n + 1] = c
        /\ \A k \in 1..n : file'[k] = file[k]
    BY <1>1, <1>4, <2>1, AppendProperties DEF TypeOK
  <2>3. file' # <<>>
    BY <1>1, <2>2, EmptySeq
  <2> QED BY <2>2, <2>3
<1>6. n > 0 => Follows(file[n], c)
  <2> SUFFICES ASSUME n > 0
               PROVE  Follows(file[n], c)
    OBVIOUS
  <2>0. file # <<>> /\ file[n] \in Process \X (1..Newline)
    BY <1>1, EmptySeq DEF TypeOK
  <2>1. CASE file[n][2] = Newline /\ \A q \in Process : at[q] = 0
    BY <2>1 DEF Follows
  <2>2. CASE \E q \in Process : At(q) = "write" /\ file[n] = <<q, at[q]>>
    <3>1. file[n] = <<p, at[p]>>
      BY <1>3, <2>2
    <3>2. file[n][1] = p /\ file[n][2] = at[p] /\ at[p] # Newline
      BY <3>1 DEF TypeOK, Newline
    <3> QED BY <3>2 DEF Follows
  <2> QED BY <1>1, <1>2, <2>0, <2>1, <2>2 DEF EndKnown, Ending
<1>7. Whole(file')
  <2> SUFFICES ASSUME NEW k \in 1..n
               PROVE  Follows(file'[k], file'[k + 1])
    BY <1>5 DEF Whole
  <2>1. CASE k = n
    BY <1>5, <1>6, <2>1
  <2>2. CASE k # n
    <3>1. k \in 1..n - 1 /\ k + 1 \in 1..n
      BY <2>2
    <3> QED BY <1>1, <1>5, <3>1 DEF Whole
  <2> QED BY <2>1, <2>2
<1>8. EndKnown'
  <2>1. CASE at[p] = Length
    <3>1. c[2] = Newline
      BY <2>1 DEF Newline
    <3>2. \A q \in Process : at'[q] = 0
      BY <1>3, <2>1 DEF Write, TypeOK
    <3> QED BY <1>5, <3>1, <3>2 DEF EndKnown, Ending, Newline
  <2>2. CASE at[p] # Length
    <3>1. at'[p] = at[p] + 1
      BY <2>2 DEF Write, TypeOK
    <3>2. At(p)' = "write"
      BY <2>2 DEF Write, Moves, At, Process
    <3> QED BY <1>5, <3>1, <3>2 DEF EndKnown, Ending
  <2> QED BY <2>1, <2>2
<1> QED BY <1>7, <1>8

LEMMA EndStep ==
  ASSUME Length \in Nat, Locked = TRUE, IInv, [Next]_vars
  PROVE  EndKnown' /\ Whole(file')
<1> USE DEF IInv, TypeOK, Stages, Held, EndKnown, Ending, Moves, At, Process, Newline
<1>1. CASE Open
  <2>1. file' = <<>> /\ Len(file') = 0
    BY <1>1 DEF Open
  <2> QED BY <1>1, <2>1 DEF Open, Whole
<1>2. CASE Fork \/ WaitChild \/ ForkFails \/ Kill
  BY <1>2 DEF Fork, WaitChild, ForkFails, Kill
<1>3. ASSUME NEW p \in Process, Lock(p) \/ Unlock(p) \/ Leave(p) \/ LockFails(p)
      PROVE  EndKnown' /\ Whole(file')
  BY <1>3 DEF Lock, Unlock, Leave, LockFails
<1>4. ASSUME NEW p \in Process, Write(p)
      PROVE  EndKnown' /\ Whole(file')
  BY <1>4, WriteStep
<1>5. CASE UNCHANGED vars
  BY <1>5 DEF vars
<1> QED
  BY <1>1, <1>2, <1>3, <1>4, <1>5 DEF Next, Parent, Child, Stop, Writer

(***************************************************************************)
(* With the lock, every line of the file is the text of one process from   *)
(* its first character to the newline, but for an incomplete last one.     *)
(***************************************************************************)
THEOREM LinesWholeCorrect ==
  ASSUME Rounds \in Nat, Length \in Nat, Locked \in BOOLEAN
  PROVE  Spec => []LinesWhole
<1>1. CASE Locked = TRUE
  <2>1. Init => IInv
    BY EmptySeq DEF Init, IInv, TypeOK, Stages, Held, EndKnown, Whole, At, Process
  <2>2. IInv /\ [Next]_vars => IInv'
    BY <1>1, TypeStep, StagesStep, HeldStep, EndStep DEF IInv
  <2>3. IInv => LinesWhole
    BY DEF IInv, Whole, LinesWhole
  <2> QED BY <2>1, <2>2, <2>3, PTL DEF Spec
<1>2. CASE Locked = FALSE
  <2>1. LinesWhole
    BY <1>2 DEF LinesWhole
  <2> QED BY <2>1, PTL
<1> QED BY <1>1, <1>2

-----------------------------------------------------------------------------
(***************************************************************************)
(* The text of one process, with or without the lock: `at` is where its    *)
(* last character left it, and the file is as long as the lines that were  *)
(* written and not left out.                                               *)
(***************************************************************************)
Ordered(f) ==
  \A i, j \in 1..Len(f) :
    Neighbours(f, i, j) => f[j][2] = (f[i][2] % Newline) + 1
Latest(f, i) == \A k \in i + 1..Len(f) : f[k][1] # f[i][1]
AtKnown == \A i \in 1..Len(file) : Latest(file, i) => at[file[i][1]] = file[i][2] % Newline

Part(p) == round[p] * Newline + at[p] + (IF At(p) = "unlock" THEN Newline ELSE 0)
Measured ==
  /\ Len(file) <= Part("parent") + Part("child")
  /\ Len(file) + stops * Newline >= Part("parent") + Part("child")

TextInv ==
  /\ TypeOK /\ Stages
  /\ parent # "off" => Ordered(file) /\ AtKnown /\ Measured

LEMMA ModNewline ==
  ASSUME Length \in Nat
  PROVE  /\ \A n \in 0..Length : n % Newline = n
         /\ Newline % Newline = 0
  BY DEF Newline

LEMMA Products ==
  ASSUME Length \in Nat
  PROVE  /\ 0 * Newline = 0
         /\ \A n \in Nat : n * Newline \in Nat /\ (n + 1) * Newline = n * Newline + Newline
  BY DEF Newline

LEMMA OrderedWrite ==
  ASSUME Length \in Nat, TypeOK, Stages, Ordered(file), AtKnown,
         NEW p \in Process, Write(p)
  PROVE  Ordered(file)' /\ AtKnown'
<1> DEFINE c == <<p, at[p] + 1>>
<1>1. PICK n \in Nat : n = Len(file)
  BY DEF TypeOK
<1>2. /\ Len(file') = n + 1 /\ file'[n + 1] = c
      /\ \A k \in 1..n : file'[k] = file[k]
  <2>1. c \in Process \X (1..Newline)
    BY DEF TypeOK, Newline
  <2> QED BY <1>1, <2>1, AppendProperties DEF Write, TypeOK
<1>3. \A k \in 1..n : file[k] \in Process \X (1..Newline)
  BY <1>1, ElementOfSeq DEF TypeOK
<1>4. c[1] = p /\ c[2] = at[p] + 1 /\ at[p] \in 0..Length
  BY DEF TypeOK
<1>5. ASSUME NEW i \in 1..n + 1, NEW j \in 1..n + 1, Neighbours(file', i, j)
      PROVE  file'[j][2] = (file'[i][2] % Newline) + 1
  <2>1. i \in 1..n /\ i < j /\ file'[i] = file[i]
    BY <1>2, <1>5 DEF Neighbours
  <2>2. CASE j \in 1..n
    <3>1. Neighbours(file, i, j)
      <4>1. \A k \in i + 1..j - 1 : k \in 1..n
        BY <2>1, <2>2
      <4> QED BY <1>2, <1>5, <2>1, <2>2, <4>1 DEF Neighbours
    <3> QED BY <1>1, <1>2, <2>1, <2>2, <3>1 DEF Ordered
  <2>3. CASE j = n + 1
    <3>1. file[i][1] = p /\ \A k \in i + 1..n : file'[k][1] # p
      BY <1>2, <1>4, <1>5, <2>1, <2>3 DEF Neighbours
    <3>2. Latest(file, i)
      <4>1. \A k \in i + 1..n : k \in 1..n
        BY <2>1
      <4> QED BY <1>1, <1>2, <3>1, <4>1 DEF Latest
    <3>3. at[p] = file[i][2] % Newline
      BY <1>1, <2>1, <3>1, <3>2 DEF AtKnown
    <3> QED BY <1>2, <1>4, <2>1, <2>3, <3>3
  <2> QED BY <2>2, <2>3
<1>6. ASSUME NEW i \in 1..n + 1, Latest(file', i)
      PROVE  at'[file'[i][1]] = file'[i][2] % Newline
  <2>1. at' = [at EXCEPT ![p] = IF @ = Length THEN 0 ELSE @ + 1]
    BY DEF Write
  <2>2. CASE i = n + 1
    <3>1. at'[p] = IF at[p] = Length THEN 0 ELSE at[p] + 1
      BY <2>1 DEF TypeOK
    <3>2. at'[p] = (at[p] + 1) % Newline
      <4>1. CASE at[p] = Length
        BY <3>1, <4>1, ModNewline DEF Newline
      <4>2. CASE at[p] # Length
        <5>1. at[p] + 1 \in 0..Length
          BY <1>4, <4>2
        <5> QED BY <3>1, <4>2, <5>1, ModNewline
      <4> QED BY <4>1, <4>2
    <3> QED BY <1>2, <1>4, <2>2, <3>2
  <2>3. CASE i \in 1..n
    <3>1. file'[i] = file[i] /\ file[i][1] \in Process
      BY <1>2, <1>3, <2>3
    <3>2. file[i][1] # p
      BY <1>2, <1>4, <1>6, <2>3, <3>1 DEF Latest
    <3>3. Latest(file, i)
      <4>1. \A k \in i + 1..n : k \in 1..n /\ k \in i + 1..n + 1
        BY <2>3
      <4> QED BY <1>1, <1>2, <1>6, <3>1, <4>1 DEF Latest
    <3>4. at[file[i][1]] = file[i][2] % Newline
      BY <1>1, <2>3, <3>3 DEF AtKnown
    <3>5. at'[file[i][1]] = at[file[i][1]]
      BY <2>1, <3>1, <3>2 DEF TypeOK
    <3> QED BY <3>1, <3>4, <3>5
  <2> QED BY <2>2, <2>3
<1> QED BY <1>2, <1>5, <1>6 DEF Ordered, AtKnown

LEMMA PartNat ==
  ASSUME Length \in Nat, Rounds \in Nat, TypeOK, NEW p \in Process
  PROVE  Part(p) \in Nat
<1>1. round[p] \in Nat /\ at[p] \in Nat /\ Newline \in Nat
  BY DEF TypeOK, Newline
<1>2. round[p] * Newline \in Nat
  BY <1>1, Products
<1> QED BY <1>1, <1>2 DEF Part

\* What a step of one process adds to its part.
LEMMA PartStep ==
  ASSUME Length \in Nat, Rounds \in Nat, TypeOK, Stages, NEW p \in Process
  PROVE  /\ Lock(p) \/ Leave(p) \/ Unlock(p) => Part(p)' = Part(p)
         /\ Write(p) => Part(p)' = Part(p) + 1
         /\ LockFails(p) => Part(p)' = Part(p) + Newline
         /\ \A q \in Process :
              q # p /\ (Writer(p) \/ LockFails(p)) => Part(q)' = Part(q)
<1>1. /\ round[p] \in Nat /\ at[p] \in 0..Length /\ Newline = Length + 1
      /\ round[p] * Newline \in Nat
      /\ (round[p] + 1) * Newline = round[p] * Newline + Newline
  BY Products DEF TypeOK, Newline
<1>2. Newline' = Newline
  BY DEF Newline
<1>3. ASSUME Lock(p) \/ Leave(p)
      PROVE  Part(p)' = Part(p)
  BY <1>2, <1>3 DEF Part, Lock, Leave, Moves, At, Process
<1>4. ASSUME Unlock(p)
      PROVE  Part(p)' = Part(p)
  <2>1. At(p) = "unlock" /\ At(p)' # "unlock" /\ at[p] = 0 /\ at'[p] = 0
    BY <1>4 DEF Unlock, Moves, At, Process, Stages
  <2>2. round'[p] = round[p] + 1
    BY <1>4 DEF Unlock, TypeOK
  <2> QED BY <1>1, <1>2, <2>1, <2>2 DEF Part
<1>5. ASSUME Write(p)
      PROVE  Part(p)' = Part(p) + 1
  <2>1. At(p) # "unlock" /\ round' = round
    BY <1>5 DEF Write, Moves, At, Process
  <2>2. CASE at[p] = Length
    <3>1. At(p)' = "unlock" /\ at'[p] = 0
      BY <1>5, <2>2 DEF Write, Moves, At, Process, TypeOK
    <3> QED BY <1>1, <1>2, <2>1, <2>2, <3>1 DEF Part
  <2>3. CASE at[p] # Length
    <3>1. At(p)' # "unlock" /\ at'[p] = at[p] + 1
      BY <1>5, <2>3 DEF Write, Moves, At, Process, TypeOK
    <3> QED BY <1>1, <1>2, <2>1, <2>3, <3>1 DEF Part
  <2> QED BY <2>2, <2>3
<1>6. ASSUME LockFails(p)
      PROVE  Part(p)' = Part(p) + Newline
  <2>1. At(p) # "unlock" /\ At(p)' # "unlock" /\ at' = at
    BY <1>6 DEF LockFails, At
  <2>2. round'[p] = round[p] + 1
    BY <1>6 DEF LockFails, TypeOK
  <2> QED BY <1>1, <1>2, <2>1, <2>2 DEF Part
<1>7. ASSUME NEW q \in Process, q # p, Writer(p) \/ LockFails(p)
      PROVE  Part(q)' = Part(q)
  <2>1. At(q)' = At(q)
    BY <1>7 DEF Writer, Lock, Write, Unlock, Leave, LockFails, Moves, At, Process
  <2>2. round'[q] = round[q] /\ at'[q] = at[q]
    BY <1>7 DEF Writer, Lock, Write, Unlock, Leave, LockFails, TypeOK
  <2> QED BY <1>2, <2>1, <2>2 DEF Part
<1> QED BY <1>3, <1>4, <1>5, <1>6, <1>7

LEMMA MeasuredStep ==
  ASSUME Length \in Nat, Rounds \in Nat, TypeOK, Stages, Measured,
         NEW p \in Process, Writer(p) \/ LockFails(p)
  PROVE  Measured'
<1> DEFINE both == Part("parent") + Part("child")
<1>1. /\ Part("parent") \in Nat /\ Part("child") \in Nat /\ Len(file) \in Nat
      /\ stops \in Nat /\ Newline \in Nat /\ Newline' = Newline
      /\ stops * Newline \in Nat
      /\ (stops + 1) * Newline = stops * Newline + Newline
  BY PartNat, Products DEF TypeOK, Process, Newline
<1>2. CASE Lock(p) \/ Leave(p) \/ Unlock(p)
  <2>1. both' = both
    BY <1>2, PartStep DEF Process, Writer
  <2>2. file' = file /\ stops' = stops
    BY <1>2 DEF Lock, Leave, Unlock
  <2> QED BY <1>1, <2>1, <2>2 DEF Measured
<1>3. CASE Write(p)
  <2>1. both' = both + 1
    BY <1>1, <1>3, PartStep DEF Process, Writer
  <2>2. Len(file') = Len(file) + 1 /\ stops' = stops
    BY <1>3, AppendProperties DEF Write, TypeOK, Newline
  <2> QED BY <1>1, <2>1, <2>2 DEF Measured
<1>4. CASE LockFails(p)
  <2>1. both' = both + Newline
    BY <1>1, <1>4, PartStep DEF Process
  <2>2. file' = file /\ stops' = stops + 1
    BY <1>4 DEF LockFails
  <2> QED BY <1>1, <2>1, <2>2 DEF Measured
<1> QED BY <1>2, <1>3, <1>4 DEF Writer

LEMMA TextStep ==
  ASSUME Length \in Nat, Rounds \in Nat, TextInv, [Next]_vars
  PROVE  TextInv'
<1> USE DEF TextInv
<1>1. TypeOK' /\ Stages'
  BY TypeStep, StagesStep
<1>2. ASSUME NEW p \in Process, Write(p)
      PROVE  TextInv'
  BY <1>1, <1>2, OrderedWrite, MeasuredStep DEF Writer, Write, Moves, At, Process
<1>3. ASSUME NEW p \in Process, Lock(p) \/ Leave(p) \/ Unlock(p) \/ LockFails(p)
      PROVE  TextInv'
  <2>1. UNCHANGED <<file, at>> /\ (parent' # "off" => parent # "off")
    BY <1>3 DEF Lock, Leave, Unlock, LockFails, Moves, At
  <2>2. Ordered(file) /\ AtKnown => Ordered(file)' /\ AtKnown'
    BY <2>1 DEF Ordered, AtKnown, Neighbours, Latest, Newline
  <2> QED BY <1>1, <1>3, <2>1, <2>2, MeasuredStep DEF Writer
<1>4. CASE Open
  <2>1. file' = <<>> /\ Len(file') = 0 /\ parent' = "fork" /\ UNCHANGED <<round, at, child, stops>>
    BY <1>4 DEF Open
  <2>2. \A p \in Process : round[p] = 0 /\ at[p] = 0
    BY <1>4 DEF Open, Stages, At, Process
  <2>3. Part("parent")' = 0 /\ Part("child")' = 0
    BY <1>1, <2>1, <2>2, Products DEF Part, At, Stages, Process, Newline
  <2>4. Measured'
    <3>1. stops \in Nat /\ stops * Newline \in Nat /\ Newline' = Newline
      BY Products DEF TypeOK, Newline
    <3> QED BY <2>1, <2>3, <3>1 DEF Measured
  <2> QED BY <1>1, <2>1, <2>4 DEF Ordered, AtKnown
<1>5. CASE Kill
  BY <1>1, <1>5 DEF Kill
<1>6. CASE Fork \/ WaitChild \/ ForkFails \/ UNCHANGED vars
  <2>1. UNCHANGED <<file, at, round>> /\ (parent' # "off" => parent # "off")
    BY <1>6 DEF Fork, WaitChild, ForkFails, vars
  <2>2. Ordered(file) /\ AtKnown => Ordered(file)' /\ AtKnown'
    BY <2>1 DEF Ordered, AtKnown, Neighbours, Latest, Newline
  <2>3. ASSUME parent # "off"
        PROVE  /\ Part("parent")' = Part("parent")
               /\ Part("child")' = Part("child")
    BY <1>6, <2>1 DEF Part, At, Fork, WaitChild, ForkFails, Newline, Stages, vars
  <2>4. Measured /\ parent # "off" => Measured'
    <3>1. /\ stops \in Nat /\ stops * Newline \in Nat /\ Newline' = Newline
          /\ (stops + 1) * Newline = stops * Newline + Newline
          /\ Newline \in Nat /\ Len(file) \in Nat
          /\ Part("parent") \in Nat /\ Part("child") \in Nat
      BY Products, PartNat DEF TypeOK, Newline, Process
    <3>2. stops' \in {stops, stops + 1}
      BY <1>6 DEF Fork, WaitChild, ForkFails, vars
    <3> QED BY <2>1, <2>3, <3>1, <3>2 DEF Measured
  <2> QED BY <1>1, <2>1, <2>2, <2>4
<1> QED
  BY <1>2, <1>3, <1>4, <1>5, <1>6 DEF Next, Parent, Child, Stop, Writer, Process

LEMMA TextInit == Rounds \in Nat /\ Length \in Nat /\ Init => TextInv
  BY EmptySeq DEF Init, TextInv, TypeOK, Stages, At, Process

LEMMA TextDone ==
  ASSUME Length \in Nat, Rounds \in Nat, TextInv
  PROVE  TextsComplete
<1> USE DEF TextInv
<1>1. ASSUME parent = "done"
      PROVE  /\ Len(file) <= 2 * Rounds * Newline
             /\ Len(file) >= (2 * Rounds - stops) * Newline
  <2>1. Part("parent") = Rounds * Newline /\ Part("child") = Rounds * Newline
    <3>1. /\ round["parent"] = Rounds /\ round["child"] = Rounds
          /\ at["parent"] = 0 /\ at["child"] = 0
          /\ At("parent") # "unlock" /\ At("child") # "unlock"
      BY <1>1 DEF Stages, At, Process
    <3>2. Rounds * Newline \in Nat
      BY Products
    <3> QED BY <3>1, <3>2 DEF Part
  <2>2. /\ 2 * Rounds * Newline = Rounds * Newline + Rounds * Newline
        /\ (2 * Rounds - stops) * Newline =
             Rounds * Newline + Rounds * Newline - stops * Newline
    BY DEF TypeOK, Newline
  <2>3. Rounds * Newline \in Nat /\ stops * Newline \in Nat
    BY Products DEF TypeOK
  <2>4. Len(file) \in Nat
    BY LenProperties DEF TypeOK
  <2> QED BY <1>1, <2>1, <2>2, <2>3, <2>4 DEF Measured
<1> QED BY <1>1 DEF TextsComplete, Ordered

(***************************************************************************)
(* With or without the lock each process finds its own characters in the   *)
(* order of its text, and what is missing are the lines left out.          *)
(***************************************************************************)
THEOREM TextsCompleteCorrect ==
  ASSUME Rounds \in Nat, Length \in Nat
  PROVE  Spec => []TextsComplete
<1>1. TextInv /\ [Next]_vars => TextInv'
  BY TextStep
<1>2. TextInv => TextsComplete
  BY TextDone
<1>3. Init => TextInv
  BY TextInit
<1> QED BY <1>1, <1>2, <1>3, PTL DEF Spec
=============================================================================
