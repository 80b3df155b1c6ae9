------------------------------ MODULE Accounts ------------------------------
(***************************************************************************)
(* The accounts of the chat server: the requests of server/server.cc that  *)
(* register users and change their passwords, over the two tables of the   *)
(* SQLite data base behind class SBase.                                    *)
(*                                                                         *)
(* The io thread handles one request at a time, but a request executes     *)
(* several statements, each committed on its own.  The process may end     *)
(* between two of them (an exception in a DataUpdate thread terminates it), *)
(* and any of them may fail: the handlers ignore what SBase returns.  Both *)
(* are a lapse here.  Reads are assumed to work.                           *)
(*                                                                         *)
(* Requests that only read (a wrong invite code, PermissionRequest, a wrong *)
(* password) change nothing and are left out, and so are names and icons.  *)
(***************************************************************************)
EXTENDS Naturals, Sequences, FiniteSets

CONSTANTS
  FirstId,       \* 522000
  Limit,         \* 30, the registrations one invite code is good for
  Password,      \* passwords
  NoPassword,    \* the empty one, which ReadByID finds for no account
  Code,          \* invite codes
  NoCode,        \* no code
  Shipped,       \* accounts in the data base the server starts with
  ShippedTimes,  \* times used of the invite code it starts with
  MaxUsers,      \* bound: accounts in the data base
  MaxLapses      \* bound: statements that fail and processes that end

ASSUME AccountsAssumption ==
  /\ FirstId \in Nat
  /\ Limit \in Nat \ {0}
  /\ NoPassword \in Password
  /\ NoCode \notin Code
  /\ Shipped \in Nat
  /\ ShippedTimes \in 0..Limit
  /\ MaxUsers \in Nat
  /\ MaxLapses \in Nat

VARIABLES
  users,   \* user_table: the password of each account
  code,    \* code of invite_code_table
  times,   \* times of invite_code_table
  op,      \* the request under way
  lapses,  \* statements that failed and processes that ended in a request
  spent,   \* history variable: accounts stored since the code was changed
  acks,    \* history variable: the registrations that were acknowledged
  told     \* history variable: the password last acknowledged per account

vars == <<users, code, times, op, lapses, spent, acks, told>>

Ack == [id : Nat, stored : BOOLEAN]

Idle == [pc |-> "idle", id |-> FirstId, passw |-> NoPassword, times |-> 0,
         code |-> NoCode, stored |-> FALSE]

Op == [pc : {"idle", "insert", "count", "change", "reset"}, id : Nat,
       passw : Password, times : Nat,
       code : Code \cup {NoCode}, stored : BOOLEAN]

AccountsTypeOK ==
  /\ DOMAIN users \in SUBSET Nat
  /\ IsFiniteSet(DOMAIN users)
  /\ users \in [DOMAIN users -> Password]
  /\ code \in Code
  /\ times \in 0..Limit
  /\ op \in Op
  /\ lapses \in Nat
  /\ spent \in Nat
  /\ acks \in Seq(Ack)
  /\ DOMAIN told \in SUBSET Nat
  /\ told \in [DOMAIN told -> Password]

Init ==
  /\ users \in [FirstId..(FirstId + Shipped - 1) -> Password]
  /\ code \in Code
  /\ times = ShippedTimes
  /\ op = Idle
  /\ lapses = 0
  /\ spent = ShippedTimes
  /\ acks = <<>>
  /\ told = users

-----------------------------------------------------------------------------
(* f with x mapped to y.                                                   *)
Set(f, x, y) ==
  [z \in DOMAIN f \cup {x} |-> IF z = x THEN y ELSE f[z]]

(* A statement works, or fails and is not noticed.                         *)
Statement(works) ==
  /\ works \/ lapses < MaxLapses
  /\ lapses' = IF works THEN lapses ELSE lapses + 1

(* The process ends in the middle of a request and is started again.       *)
Crash ==
  /\ op.pc # "idle"
  /\ lapses < MaxLapses
  /\ lapses' = lapses + 1
  /\ op' = Idle
  /\ UNCHANGED <<users, code, times, spent, acks, told>>

-----------------------------------------------------------------------------
(* RegisterRequest with the right invite code.                             *)

ByTimes == FirstId + times
NextId == FirstId + Cardinality(DOMAIN users)

OneMore == times <= Limit
CodeIsGood == times < Limit

Register(p) ==
  /\ op.pc = "idle"
  /\ CodeIsGood
  /\ Cardinality(DOMAIN users) < MaxUsers
  /\ op' = [Idle EXCEPT !.pc = "insert", !.id = NextId, !.passw = p,
                        !.times = times]
  /\ UNCHANGED <<users, code, times, lapses, spent, acks, told>>

(* id is the primary key: a second row for it is refused.                  *)
Insert(works) ==
  /\ op.pc = "insert"
  /\ Statement(works)
  /\ LET stored == works /\ op.id \notin DOMAIN users IN
     /\ users' = IF stored THEN Set(users, op.id, op.passw) ELSE users
     /\ spent' = IF stored THEN spent + 1 ELSE spent
     /\ op' = [op EXCEPT !.pc = "count", !.stored = stored]
  /\ UNCHANGED <<code, times, acks, told>>

(* UpdateInviteCodeTimes, and the response with the account number and the *)
(* password, whatever became of the statements.                            *)
Count(works) ==
  /\ op.pc = "count"
  /\ Statement(works)
  /\ times' = IF works THEN op.times + 1 ELSE times
  /\ acks' = Append(acks, [id |-> op.id, stored |-> op.stored])
  /\ told' = Set(told, op.id, op.passw)
  /\ op' = Idle
  /\ UNCHANGED <<users, code, spent>>

(* The code is used up: the client gets a new one instead of an account.   *)
GenerateCode(c) ==
  /\ op.pc = "idle"
  /\ ~CodeIsGood
  /\ op' = [Idle EXCEPT !.pc = "change", !.code = c]
  /\ UNCHANGED <<users, code, times, lapses, spent, acks, told>>

(* ChangeInviteCode is two statements, the code and then its times.        *)
ChangeCode(works) ==
  /\ op.pc = "change"
  /\ Statement(works)
  /\ code' = IF works THEN op.code ELSE code
  /\ spent' = IF works THEN 0 ELSE spent
  /\ op' = [op EXCEPT !.pc = "reset"]
  /\ UNCHANGED <<users, times, acks, told>>

ResetTimes(works) ==
  /\ op.pc = "reset"
  /\ Statement(works)
  /\ times' = IF works THEN 0 ELSE times
  /\ op' = Idle
  /\ UNCHANGED <<users, code, spent, acks, told>>

-----------------------------------------------------------------------------
(* SettingRequest with Alter 0.  The response says that the password was   *)
(* changed whatever UpdateByID did.  The empty password is found for an    *)
(* account that does not exist, whose update changes no row and is no      *)
(* error; told keeps only what is said of an account that exists, or that  *)
(* a registration has given away.                                          *)

ReadPassw(id) == IF id \in DOMAIN users THEN users[id] ELSE NoPassword

OldMatches(id, old) == ReadPassw(id) = old

ChangePassword(id, old, new, works) ==
  /\ op.pc = "idle"
  /\ OldMatches(id, old)
  /\ Statement(works)
  /\ users' = IF works /\ id \in DOMAIN users THEN Set(users, id, new) ELSE users
  /\ told' = IF id \in DOMAIN users \cup DOMAIN told
              THEN Set(told, id, new) ELSE told
  /\ UNCHANGED <<code, times, op, spent, acks>>

-----------------------------------------------------------------------------
Ids == FirstId..(FirstId + MaxUsers)

Next ==
  \/ \E p \in Password : Register(p)
  \/ \E works \in BOOLEAN :
       \/ Insert(works)
       \/ Count(works)
       \/ ChangeCode(works)
       \/ ResetTimes(works)
  \/ \E c \in Code : GenerateCode(c)
  \/ \E id \in Ids, old \in Password, new \in Password, works \in BOOLEAN :
       ChangePassword(id, old, new, works)
  \/ Crash

Spec == Init /\ [][Next]_vars

-----------------------------------------------------------------------------
(* Nobody is given the number of an account that was stored for somebody   *)
(* else, although the number is a count taken before the insert, and the   *)
(* insert and the count of the code may each be lost.                      *)
NumberNotTaken ==
  \A j, k \in DOMAIN acks :
    j < k /\ acks[j].stored => acks[k].id # acks[j].id

(* One invite code admits no more than its limit, and another limit's      *)
(* worth for every lapse: an insert may go uncounted, and the times may be *)
(* reset although the code was not changed.                                *)
CodeLimited == spent <= Limit * (lapses + 1)

(* The accounts whose last acknowledged password, that of a registration   *)
(* or of a change, is not the one that logs in.                            *)
Misled == {id \in DOMAIN told : id \notin DOMAIN users \/ users[id] # told[id]}

(* An acknowledgement does not tell whether the statements behind it       *)
(* worked, but nothing else than a lapse misleads anybody, and no lapse    *)
(* misleads the users of two accounts: the number of a registration is     *)
(* free, also after lapses, and a change keeps to its row.                 *)
PasswordsKept == Cardinality(Misled) <= lapses
=============================================================================
