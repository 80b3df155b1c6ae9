------------------------------ MODULE MCIcons ------------------------------
(* A small room: one session that comes and goes, messages of its user, of *)
(* another and of nobody, two icon changes, and a deque of two messages.   *)
EXTENDS Icons, TLC

CONSTANTS s1, a1, a2, i1, i2, u1, u2

(* The threads are alike, so that u2 is created after u1.  Clients come in *)
(* as a1, or as the nobody that is found in account_, and write with the   *)
(* icon i1; the first change is of a1, asks for i2 and gets into the data  *)
(* base, the other is of a1, asks for either and may not get there.  The   *)
(* first message is of a1 or a2, the second of either or of no account,    *)
(* the third of a1.                                                        *)
Created(u) == thread[u].pc = "idle" /\ thread'[u].pc # "idle"

Representative ==
  /\ Created(u1) => /\ thread'[u1].icon = i2 /\ thread'[u1].account = a1
                    /\ stored'[a1] = i2
  /\ Created(u2) => thread[u1].pc # "idle" /\ thread'[u2].account = a1
  /\ participants'[s1] > participants[s1] =>
       icon'[s1] \in {icon[s1], i1} /\ account'[s1] \in {account[s1], a1}
  /\ Len(posted') > Len(posted)
       => /\ recentMessages'[Len(recentMessages')].icon = i1
          /\ posted'[Len(posted')] \in <<{a1, a2}, Author, {a1}>>[Len(posted')]

MCNext == IconsNext /\ Representative

MCInit == IconsInit /\ account[s1] = NoAccount

MCSpec == MCInit /\ [][MCNext]_iconsVars /\ GroupFairness
=============================================================================
