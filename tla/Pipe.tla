--------------------------------- MODULE Pipe ---------------------------------
(***************************************************************************)
(* What the users of a connection rely on: the lines that arrive are the   *)
(* first ones that were sent, in the order in which they were sent.  The   *)
(* pipe may break at any moment, and then nothing arrives any more.        *)
(* Lines are numbered in the order in which they are sent.                 *)
(***************************************************************************)
EXTENDS Naturals, Sequences

VARIABLES
  sent,    \* how many lines were sent
  got,     \* the lines that arrived
  broken

vars == <<sent, got, broken>>

Init == sent \in Nat /\ got = <<>> /\ broken = FALSE

Put ==
  /\ sent' = sent + 1
  /\ UNCHANGED <<got, broken>>

Get ==
  /\ ~broken
  /\ Len(got) < sent
  /\ got' = Append(got, Len(got) + 1)
  /\ UNCHANGED <<sent, broken>>

Break ==
  /\ broken' = TRUE
  /\ UNCHANGED <<sent, got>>

Next == Put \/ Get \/ Break

Spec == Init /\ [][Next]_vars
=============================================================================
