---------------------------- MODULE Introduction ----------------------------
(***************************************************************************)
(* What exam_a/readme.md asks of the opening of the game: the players come *)
(* on stage; when all of them are there each says a name; the leader       *)
(* repeats the names in the order of the players; a player leaves only     *)
(* after that.                                                             *)
(***************************************************************************)
EXTENDS Integers

CONSTANTS Player, Name, NoName

VARIABLES
  place,  \* where a player is
  said,   \* the name a player said
  heard   \* the name of a player as the leader repeated it

vars == <<place, said, heard>>

Init ==
  /\ place = [p \in Player |-> "off"]
  /\ said = [p \in Player |-> NoName]
  /\ heard = [p \in Player |-> NoName]

Arrive(p) ==
  /\ place[p] = "off"
  /\ place' = [place EXCEPT ![p] = "on"]
  /\ UNCHANGED <<said, heard>>

Say(p) ==
  /\ \A q \in Player : place[q] # "off"
  /\ said[p] = NoName
  /\ \E n \in Name : said' = [said EXCEPT ![p] = n]
  /\ UNCHANGED <<place, heard>>

Repeat(p) ==
  /\ said[p] # NoName /\ heard[p] = NoName
  /\ \A q \in Player : q < p => heard[q] # NoName
  /\ heard' = [heard EXCEPT ![p] = said[p]]
  /\ UNCHANGED <<place, said>>

Leave(p) ==
  /\ place[p] = "on" /\ heard[p] # NoName
  /\ place' = [place EXCEPT ![p] = "left"]
  /\ UNCHANGED <<said, heard>>

Next == \E p \in Player : Arrive(p) \/ Say(p) \/ Repeat(p) \/ Leave(p)

Spec == Init /\ [][Next]_vars
=============================================================================
