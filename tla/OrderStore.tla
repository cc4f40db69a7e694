----------------------------- MODULE OrderStore -----------------------------
(***************************************************************************)
(* sub/sub1.c: the menu of the order database.                             *)
(*                                                                         *)
(* A command is one action, but for update: it copies data.txt line by     *)
(* line to temp.txt, removes the one and renames the other, and the        *)
(* program may be killed between any two of these steps.  What fprintf     *)
(* prints is on the disk for certain only after fclose; before, a kill     *)
(* leaves whatever stdio has written out of it.                            *)
(***************************************************************************)
EXTENDS OrderLines

CONSTANTS
  Shipped,      \* the data.txt that comes with the program
  NoFile,       \* in place of the contents of a file that does not exist
  Faults,       \* may fopen fail for temp.txt?
  Blocks,       \* numbers of columns at which stdio's buffer may be full
  MaxCommands,  \* bound on the commands given
  MaxCrashes    \* bound on the kills

ASSUME StoreAssumption ==
  /\ Shipped \in Seq(Token)
  /\ NoFile \notin Seq(Token)
  /\ Faults \in BOOLEAN
  /\ Blocks \subseteq Nat
  /\ MaxCommands \in Nat /\ MaxCrashes \in Nat

VARIABLES
  pc,          \* where the program is; "off" when it does not run
  data, temp,  \* the two files, as they are on the disk
  filter_obj,  \* the filter of the last update
  update_obj,  \* its replacement, NoOrder in delete
  pos,         \* how far it has read
  printed,     \* all it has printed for temp.txt
  asked,       \* the filter of the listing, _read_filter
  shown,       \* the orders listed
  old,         \* ghost: data.txt as update found it
  cuts,        \* ghost: per line read, the positions reached in old and printed
  commands, crashes

files  == <<data, temp>>
update == <<filter_obj, update_obj, pos, printed, old, cuts>>
listing == <<asked, shown>>
bounds == <<commands, crashes>>
vars == <<pc, files, update, listing, bounds>>

PC == {"off", "menu", "list", "copy", "closed", "removed"}
File == Seq(Token) \cup {NoFile}
Cut  == [from : Nat, to : Nat]

TypeOK ==
  /\ pc \in PC
  /\ data \in File /\ temp \in File
  /\ filter_obj \in Order /\ asked \in Order
  /\ update_obj \in Order \cup {NoOrder}
  /\ pos \in Nat /\ printed \in Seq(Token)
  /\ shown \in Seq(Order)
  /\ old \in Seq(Token) /\ cuts \in Seq(Cut)
  /\ commands \in 0..MaxCommands /\ crashes \in 0..MaxCrashes

Init ==
  /\ pc = "off"
  /\ data = Shipped /\ temp = NoFile
  /\ filter_obj = Any /\ update_obj = NoOrder
  /\ pos = 0 /\ printed = <<>>
  /\ asked = Any /\ shown = <<>>
  /\ old = <<>> /\ cuts = <<>>
  /\ commands = 0 /\ crashes = 0

-----------------------------------------------------------------------------
(***************************************************************************)
(* The menu.                                                               *)
(***************************************************************************)
Start ==
  /\ pc = "off"
  /\ pc' = "menu"
  /\ UNCHANGED <<files, update, listing, bounds>>

Quit ==
  /\ pc = "menu"
  /\ pc' = "off"
  /\ UNCHANGED <<files, update, listing, bounds>>

Command ==
  /\ pc = "menu" /\ commands < MaxCommands
  /\ commands' = commands + 1
  /\ crashes' = crashes

\* List is a Read without a filter.
Read(f) ==
  /\ Command
  /\ data # NoFile
  /\ asked' = f
  /\ shown' \in Filter(data, f)
  /\ pc' = "list"
  /\ UNCHANGED <<files, update>>

\* filter does not test what fopen returned: getline dies of it.
ReadFails ==
  /\ Command
  /\ data = NoFile
  /\ pc' = "off"
  /\ UNCHANGED <<files, update, listing>>

PrintOrders ==
  /\ pc = "list"
  /\ asked' = Any /\ shown' = <<>>
  /\ pc' = "menu"
  /\ UNCHANGED <<files, update, bounds>>

\* Deviation: fopen with "w".
CreateAnew(o) ==
  /\ Command
  /\ data' = Printed(o)
  /\ UNCHANGED <<pc, temp, update, listing>>

\* fopen with "a" makes a file that is not there.
Create(o) ==
  /\ Command
  /\ data' = (IF data = NoFile THEN <<>> ELSE data) \o Printed(o)
  /\ UNCHANGED <<pc, temp, update, listing>>

-----------------------------------------------------------------------------
(***************************************************************************)
(* update, and delete, which is update with NoOrder.                       *)
(***************************************************************************)
\* Deviation: fptr1 is not tested.
OpenUpdateUntested(f, u) ==
  /\ Command
  /\ filter_obj' = f /\ update_obj' = u
  /\ temp' = <<>>
  /\ pos' = 0 /\ printed' = <<>>
  /\ old' = data /\ cuts' = <<>>
  /\ pc' = "copy"
  /\ UNCHANGED <<data, listing>>

OpenUpdate(f, u) ==
  /\ Command
  /\ data # NoFile
  /\ filter_obj' = f /\ update_obj' = u
  /\ temp' = <<>>
  /\ pos' = 0 /\ printed' = <<>>
  /\ old' = data /\ cuts' = <<>>
  /\ pc' = "copy"
  /\ UNCHANGED <<data, listing>>

\* update returns early when it cannot open one of the files.
UpdateFails ==
  /\ Command
  /\ data = NoFile \/ Faults
  /\ UNCHANGED <<pc, files, update, listing>>

NextEnds == {e \in LineEnds(data) : e > pos}

\* stdio writes its buffer out when that is full, or keeps it until fclose.
WriteOut(text) ==
  \/ temp' = temp
  \/ \E n \in Blocks \cap Len(temp)..Len(text) : temp' = SubSeq(text, 1, n)

\* Deviation: a line that does not match is not written.
CopyLineMatching ==
  /\ pc = "copy"
  /\ \E e \in NextEnds :
       /\ \A d \in NextEnds : e <= d
       /\ LET line == SubSeq(data, pos + 1, e)
          IN  \E new \in Rewrites(line, filter_obj, update_obj) :
                printed' = printed \o (IF new = line THEN <<>> ELSE new)
       /\ pos' = e
       /\ cuts' = Append(cuts, [from |-> e, to |-> Len(printed')])
  /\ WriteOut(printed')
  /\ UNCHANGED <<pc, data, filter_obj, update_obj, listing, old, bounds>>

CopyLine ==
  /\ pc = "copy"
  /\ \E e \in NextEnds :
       /\ \A d \in NextEnds : e <= d
       /\ LET line == SubSeq(data, pos + 1, e)
          IN  \E new \in Rewrites(line, filter_obj, update_obj) :
                printed' = printed \o new
       /\ pos' = e
       /\ cuts' = Append(cuts, [from |-> e, to |-> Len(printed')])
  /\ WriteOut(printed')
  /\ UNCHANGED <<pc, data, filter_obj, update_obj, listing, old, bounds>>

\* Deviation: fptr2 is not closed before remove and rename.
CloseNothing ==
  /\ pc = "copy" /\ NextEnds = {}
  /\ pc' = "closed"
  /\ UNCHANGED <<files, update, listing, bounds>>

(***************************************************************************)
(* At the end of the file; a line that no newline ends is not copied.      *)
(* fclose writes out what is left.                                         *)
(***************************************************************************)
Close ==
  /\ pc = "copy" /\ NextEnds = {}
  /\ temp' = printed
  /\ pc' = "closed"
  /\ UNCHANGED <<data, update, listing, bounds>>

Remove ==
  /\ pc = "closed"
  /\ data' = NoFile
  /\ pc' = "removed"
  /\ UNCHANGED <<temp, update, listing, bounds>>

Rename ==
  /\ pc = "removed"
  /\ data' = temp /\ temp' = NoFile
  /\ pc' = "menu"
  /\ UNCHANGED <<update, listing, bounds>>

(***************************************************************************)
(* The program is killed; what it had in memory is gone, the part of       *)
(* printed that is not in temp.txt included.                               *)
(***************************************************************************)
Crash ==
  /\ pc # "off" /\ crashes < MaxCrashes
  /\ crashes' = crashes + 1
  /\ pc' = "off"
  /\ asked' = Any /\ shown' = <<>>
  /\ UNCHANGED <<files, update, commands>>

Next ==
  \/ Start \/ Quit
  \/ \E f \in Entry \cup {Any} : Read(f)
  \/ ReadFails \/ PrintOrders
  \/ \E o \in Entry : Create(o)
  \/ \E f \in Entry : \E u \in Entry \cup {NoOrder} : OpenUpdate(f, u)
  \/ UpdateFails \/ CopyLine \/ Close \/ Remove \/ Rename
  \/ Crash

Spec == Init /\ [][Next]_vars

-----------------------------------------------------------------------------
(***************************************************************************)
(* CopyInv: what update prints consists of what it made of the lines it    *)
(* has read, each rewritten for itself, none missing, in their order, and  *)
(* the lines come from data.txt as it still is; temp.txt is a beginning of *)
(* it, and all of it before data.txt is removed.  Inductive.               *)
(***************************************************************************)
CutAt(k) == IF k = 0 THEN [from |-> 0, to |-> 0] ELSE cuts[k]
OldLine(k) == SubSeq(old, CutAt(k - 1).from + 1, CutAt(k).from)
NewLine(text, k) == SubSeq(text, CutAt(k - 1).to + 1, CutAt(k).to)
LastCut == CutAt(Len(cuts))

Ordered ==
  \A k \in DOMAIN cuts :
    /\ CutAt(k - 1).from < CutAt(k).from /\ CutAt(k).from <= Len(old)
    /\ CutAt(k - 1).to <= CutAt(k).to /\ CutAt(k).to <= Len(printed)

OneByOne ==
  \A k \in DOMAIN cuts :
    NewLine(printed, k) \in Rewrites(OldLine(k), filter_obj, update_obj)

NoneMissing ==
  \A e \in LineEnds(old) : e <= LastCut.from =>
    \E k \in DOMAIN cuts : cuts[k].from = e

RewrittenSoFar ==
  Ordered /\ OneByOne /\ NoneMissing /\ LastCut.to = Len(printed)

WrittenSoFar ==
  temp # NoFile =>
    Len(temp) <= Len(printed) /\ temp = SubSeq(printed, 1, Len(temp))

Updating ==
  /\ pc \in {"copy", "closed"} =>
       temp # NoFile /\ data = old /\ pos = LastCut.from
  /\ pc = "closed" => NextEnds = {} /\ temp = printed

OneFileLeft ==
  /\ pc = "removed" => data = NoFile
  /\ data = NoFile =>
       temp = printed /\ \A e \in LineEnds(old) : e <= LastCut.from

CopyInv == RewrittenSoFar /\ WrittenSoFar /\ Updating /\ OneFileLeft

(***************************************************************************)
(* CrashSafe: wherever the program is killed, the orders are in one of the *)
(* two files: if data.txt does not exist, then all that was printed is in  *)
(* temp.txt, and is the result of a completed rewriting of all its lines.  *)
(***************************************************************************)
CrashSafe ==
  data = NoFile =>
    /\ temp # NoFile /\ temp = printed
    /\ \A e \in LineEnds(old) : \E k \in DOMAIN cuts :
         cuts[k].from = e
         /\ NewLine(temp, k) \in Rewrites(OldLine(k), filter_obj, update_obj)

(***************************************************************************)
(* TidyListing: if every line of the file has its five columns, a listing  *)
(* shows the orders that match, each once and in the order of the file.    *)
(***************************************************************************)
TidyListing ==
  pc = "list" /\ (\A e \in AllEnds(data) : ~Short(LineAt(data, e))) =>
    /\ \A k \in DOMAIN shown : MatchesFilter(asked, shown[k])
    /\ \E at \in [DOMAIN shown -> AllEnds(data)] :
         /\ \A j, k \in DOMAIN at : j < k => at[j] < at[k]
         /\ \A k \in DOMAIN at : shown[k] \in Readings(LineAt(data, at[k]))
         /\ \A e \in AllEnds(data) \ {at[k] : k \in DOMAIN at} :
              \A a \in Readings(LineAt(data, e)) : ~MatchesFilter(asked, a)

(***************************************************************************)
(* Implements: seen through its files the program is a book of orders.  An *)
(* update happens when data.txt is removed; killed before, it has changed  *)
(* nothing, killed between that and rename, the book is empty.             *)
(***************************************************************************)
book ==
  IF pc = "removed" THEN temp ELSE IF data = NoFile THEN <<>> ELSE data

Book == INSTANCE OrderBook WITH Crashes <- MaxCrashes > 0
Implements == Book!Spec

-----------------------------------------------------------------------------
(***************************************************************************)
(* DeletesWhatItShows: the menu calls the same answers a Filter in "2.     *)
(* Read" and "4. Delete"; the orders deleted are those a Read shows.       *)
(***************************************************************************)
DeletesWhatItShows ==
  update_obj = NoOrder =>
    \A k \in DOMAIN cuts :
      ~Short(OldLine(k)) /\ NewLine(printed, k) = <<>> =>
        \E a \in Readings(OldLine(k)) : MatchesFilter(filter_obj, a)
=============================================================================
