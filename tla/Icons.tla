------------------------------- MODULE Icons -------------------------------
(***************************************************************************)
(* The icon of an account in three places: the data base, the sessions on  *)
(* the list of the room, and the messages of the history.  SettingRequest  *)
(* (server/server.cc) stores it in the first while it handles the request, *)
(* and leaves the other two to a thread of Group that it detaches; several *)
(* changes of one account end in any order.                                *)
(***************************************************************************)
EXTENDS Group, FiniteSets

VARIABLES
  stored,  \* the column icon of the data base, per account
  asked    \* history variable: the changes of an account since it was settled

iconsVars == <<groupVars, stored, asked>>

(* icons: what was asked for; members, upTo: the sessions and the messages *)
(* of the room when the last change was asked for; skipped: a thread found *)
(* no history, and returned before it came to the sessions; lost: an icon  *)
(* did not get into the data base.                                         *)
Asked == [icons : SUBSET Icon, members : SUBSET Session, upTo : Nat,
          skipped : BOOLEAN, lost : BOOLEAN]

IconsTypeOK ==
  /\ GroupTypeOK
  /\ stored \in [Account -> Icon \cup {NoIcon}]
  /\ asked \in [Account -> Asked]

IconsInit ==
  /\ GroupInit
  /\ stored = [a \in Account |-> NoIcon]
  /\ asked = [a \in Account |->
       [icons |-> {}, members |-> {}, upTo |-> 0, skipped |-> FALSE,
        lost |-> FALSE]]

Settled(a) ==
  \A u \in Updater : thread[u].account = a => thread[u].pc = "done"

MembersOf(a) == {s \in Session : participants[s] > 0 /\ account[s] = a}

AskAgain(a, i, works) ==
  [icons   |-> IF Settled(a) THEN {i} ELSE asked[a].icons \cup {i},
   members |-> MembersOf(a),
   upTo    |-> Len(posted),
   skipped |-> ~Settled(a) /\ asked[a].skipped,
   lost    |-> ~works \/ (~Settled(a) /\ asked[a].lost)]

(* SettingRequest with an icon: the data base, then the thread.  The       *)
(* handler ignores what UpdateByID returns, so that the thread runs and    *)
(* the room is told also when the statement failed, or found no row.       *)
ChangeIcon(u, s, a, i, works) ==
  /\ Spawn(u, s, a, i)
  /\ stored' = IF works THEN [stored EXCEPT ![a] = i] ELSE stored
  /\ asked' = [asked EXCEPT ![a] = AskAgain(a, i, works)]

Skips(u) == thread[u].pc = "start" /\ thread'[u].pc = "done"

(* Every other step of the room; a session that says hello sets its icon   *)
(* itself, and one that leaves shows none.                                 *)
OtherStep ==
  /\ RoomStep
  /\ UNCHANGED stored
  /\ asked' = [a \in Account |-> [asked[a] EXCEPT
       !.members = {s \in @ : participants'[s] = participants[s]},
       !.skipped = @ \/ \E u \in Updater : Skips(u) /\ thread[u].account = a]]

IconsNext ==
  \/ \E u \in Updater, s \in Session, a \in Account, i \in Icon,
        works \in BOOLEAN : ChangeIcon(u, s, a, i, works)
  \/ OtherStep

IconsSpec == IconsInit /\ [][IconsNext]_iconsVars

(* The threads are scheduled as in Group.                                  *)
FairIconsSpec == IconsSpec /\ GroupFairness

-----------------------------------------------------------------------------
(* Where no change of the account is under way, the sessions that were on  *)
(* the list when the last one was asked for show the icon of the data      *)
(* base; where changes overlapped, or one did not get into the data base,  *)
(* they show one of those asked for since the account was last settled.    *)
(* So do the messages of that time, as long as none was trimmed.  A        *)
(* history that was empty when a thread started makes an exception of the  *)
(* account (server.hpp:115).                                               *)
MayShow(a) ==
  IF Cardinality(asked[a].icons) = 1 /\ ~asked[a].lost
  THEN {stored[a]} ELSE asked[a].icons

IconsSettle ==
  \A a \in Account :
    process = "running" /\ asked[a].icons # {} /\ Settled(a)
      /\ ~asked[a].skipped =>
      /\ \A s \in asked[a].members : icon[s] \in MayShow(a)
      /\ Trimmed = 0 =>
           \A k \in DOMAIN recentMessages :
             recentMessages[k].author = a /\ recentMessages[k].seq <= asked[a].upTo
               => recentMessages[k].icon \in MayShow(a)
=============================================================================
