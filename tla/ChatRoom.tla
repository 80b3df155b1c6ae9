------------------------------ MODULE ChatRoom ------------------------------
(***************************************************************************)
(* What the chat server promises to the people in one room: whoever comes  *)
(* in gets the latest messages, and from then on every message of somebody *)
(* else, each of them once and all in the order in which they were said.   *)
(* Messages are numbered in that order.                                    *)
(*                                                                         *)
(* There are no queues, sockets, lists or locks here: ChatServer shows     *)
(* that with them the same holds.                                          *)
(***************************************************************************)
EXTENDS Naturals, Sequences

CONSTANTS
  Person,   \* whoever may come in or speak
  History,  \* how many messages are kept for those who come later
  MaxSaid   \* bound: messages said in the room

VARIABLES
  said,      \* how many messages were said
  present,   \* who is in the room
  welcomed,  \* who has been let in and told what was said before
  feed       \* the numbers of the messages each person has been given

vars == <<said, present, welcomed, feed>>

Init ==
  /\ said = 0
  /\ present = {}
  /\ welcomed = {}
  /\ feed = [p \in Person |-> <<>>]

OldestKept == IF said > History THEN said - History + 1 ELSE 1
Latest == [k \in 1..(said - OldestKept + 1) |-> OldestKept + k - 1]

Enter(p) ==
  /\ p \notin present
  /\ present' = present \cup {p}
  /\ welcomed' = welcomed \cup {p}
  /\ feed' = [feed EXCEPT ![p] = @ \o Latest]
  /\ UNCHANGED said

(* Someone who did not introduce himself properly is let in but told       *)
(* nothing of what was said before.                                        *)
SlipIn(p) ==
  /\ p \notin present
  /\ present' = present \cup {p}
  /\ UNCHANGED <<said, welcomed, feed>>

(* One need not be in the room to be heard there.                          *)
Say(p) ==
  /\ said < MaxSaid
  /\ said' = said + 1
  /\ feed' = [q \in Person |->
                IF q \in present \ {p} THEN Append(feed[q], said') ELSE feed[q]]
  /\ UNCHANGED <<present, welcomed>>

Exit(p) ==
  /\ present' = present \ {p}
  /\ UNCHANGED <<said, welcomed, feed>>

Next == \E p \in Person : Enter(p) \/ SlipIn(p) \/ Say(p) \/ Exit(p)

Spec == Init /\ [][Next]_vars
=============================================================================
