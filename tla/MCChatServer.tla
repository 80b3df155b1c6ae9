---------------------------- MODULE MCChatServer ----------------------------
(* Instances of ChatServer with two connections of one user, who is also   *)
(* whom account_ is found to name before a hello.                          *)
EXTENDS ChatServer, TLC

CONSTANTS s1, s2, a1, i1, u1

MCInit == Init /\ \A s \in Session : account[s] = a1

(* Without icon changes nobody looks at the author of a message.           *)
MCOneAuthor == \A k \in DOMAIN posted' : posted'[k] = a1

MCNext == Next /\ MCOneAuthor

MCSpec == MCInit /\ [][MCNext]_vars

(* The first session may say hello twice, the second once.                 *)
MCHellos == hellos'[s2] <= 1

MCFairSpec == MCInit /\ [][MCNext /\ MCHellos]_vars /\ Fairness

(* Two sessions are exchanged.                                             *)
MCSessions == Permutations({s1, s2})

(* Only the first session misbehaves: it may say hello twice, changes the  *)
(* icon and sends a message of no account; the second says hello once, and *)
(* neither stops.                                                          *)
MCOneMisbehaves ==
  /\ MCHellos
  /\ thread'[u1].owner # s2
  /\ io'.pc = "post" /\ posted'[Len(posted')] = NoNumber => io'.sess = s1
  /\ \A s \in Session : peer'[s] = "up" /\ phase'[s] # "ignored"

MCTwiceSpec == MCInit /\ [][Next /\ MCOneMisbehaves]_vars
=============================================================================
