--------------------------- MODULE AccountsProofs ---------------------------
(***************************************************************************)
(* Theorems about Accounts, for every limit of the invite codes and any    *)
(* number of accounts, failing statements and restarts.                    *)
(***************************************************************************)
EXTENDS Accounts, FiniteSetTheorems, TLAPS

-----------------------------------------------------------------------------
(* The inductive invariant.                                                *)

(* The numbers in use have no gap: the count is the first free one.        *)
Contiguous == DOMAIN users = FirstId..(NextId - 1)

(* What a request remembers is still true when it uses it.                 *)
Fresh ==
  /\ op.pc \in {"insert", "count"} =>
       op.times = times /\ times < Limit /\ op.passw \in Password
  /\ op.pc = "insert" => op.id = NextId
  /\ op.pc = "count" /\ op.stored =>
       op.id \in DOMAIN users /\ users[op.id] = op.passw
  /\ op.pc = "change" => times = Limit /\ op.code \in Code

Uncounted == IF op.pc = "count" /\ op.stored THEN 1 ELSE 0

Covered ==
  /\ spent <= times + Uncounted + Limit * lapses
  /\ op.pc = "reset" => spent <= Limit * lapses

(* The stored accounts that clients know of are rows, other than the one a *)
(* request is about to store or to acknowledge.                            *)
AcksStored ==
  \A k \in 1..Len(acks) :
    acks[k].stored =>
      /\ acks[k].id \in DOMAIN users
      /\ op.pc \in {"insert", "count"} => acks[k].id # op.id

Distinct ==
  \A j, k \in 1..Len(acks) :
    j < k /\ acks[j].stored => acks[k].id # acks[j].id

(* The accounts that a client was, or is about to be, told wrongly of.     *)
Doubtful ==
  Misled \cup (IF op.pc = "count" /\ ~op.stored THEN {op.id} ELSE {})

Kept ==
  /\ IsFiniteSet(Doubtful)
  /\ Cardinality(Doubtful) <= lapses

IInv ==
  /\ AccountsTypeOK
  /\ Contiguous
  /\ Fresh
  /\ Covered
  /\ AcksStored
  /\ Distinct
  /\ Kept

-----------------------------------------------------------------------------
(* Set(f, x, y) is f with one more argument, or another value for one.     *)
LEMMA SetProperties ==
  ASSUME NEW f, NEW x, NEW y
  PROVE  /\ DOMAIN Set(f, x, y) = DOMAIN f \cup {x}
         /\ Set(f, x, y)[x] = y
         /\ \A z \in DOMAIN f : z # x => Set(f, x, y)[z] = f[z]
BY DEF Set

LEMMA SetType ==
  ASSUME NEW f, NEW V, DOMAIN f \in SUBSET Nat, f \in [DOMAIN f -> V],
         NEW x \in Nat, NEW y \in V
  PROVE  /\ DOMAIN Set(f, x, y) \in SUBSET Nat
         /\ Set(f, x, y) \in [DOMAIN Set(f, x, y) -> V]
BY DEF Set

(* The next number is that of no row.                                      *)
LEMMA NextIsFree ==
  ASSUME AccountsTypeOK, Contiguous
  PROVE  NextId \in Nat /\ NextId \notin DOMAIN users
<1>1. Cardinality(DOMAIN users) \in Nat
  BY FS_CardinalityType DEF AccountsTypeOK
<1>. QED  BY <1>1, AccountsAssumption DEF NextId, Contiguous

(* The numbers stay without a gap when the next one is stored.             *)
LEMMA StoreNext ==
  ASSUME AccountsTypeOK, Contiguous, NEW p \in Password,
         users' = Set(users, NextId, p)
  PROVE  /\ Contiguous'
         /\ IsFiniteSet(DOMAIN users)'
         /\ (DOMAIN users \in SUBSET Nat /\ users \in [DOMAIN users -> Password])'
<1>1. /\ Cardinality(DOMAIN users) \in Nat
      /\ IsFiniteSet(DOMAIN users)
  BY FS_CardinalityType DEF AccountsTypeOK
<1>2. NextId \in Nat /\ NextId \notin DOMAIN users
  BY NextIsFree
<1>3. DOMAIN users' = DOMAIN users \cup {NextId}
  BY SetProperties
<1>4. /\ IsFiniteSet(DOMAIN users')
      /\ Cardinality(DOMAIN users') = Cardinality(DOMAIN users) + 1
  BY <1>1, <1>2, <1>3, FS_AddElement
<1>5. NextId' = NextId + 1
  BY <1>1, <1>4, AccountsAssumption DEF NextId
<1>6. FirstId <= NextId
  BY <1>1, AccountsAssumption DEF NextId
<1>7. Contiguous'
  <2>1. FirstId..NextId = (FirstId..(NextId - 1)) \cup {NextId}
    BY <1>2, <1>6, AccountsAssumption
  <2>2. NextId' - 1 = NextId
    BY <1>2, <1>5
  <2>. QED  BY <1>3, <2>1, <2>2 DEF Contiguous
<1>8. (DOMAIN users \in SUBSET Nat /\ users \in [DOMAIN users -> Password])'
  BY <1>2, SetType DEF AccountsTypeOK
<1>. QED  BY <1>4, <1>7, <1>8

(* Storing again an account that exists leaves the numbers alone.          *)
LEMMA StoreAgain ==
  ASSUME AccountsTypeOK, Contiguous, NEW p \in Password,
         NEW id \in DOMAIN users, users' = Set(users, id, p)
  PROVE  /\ Contiguous'
         /\ NextId' = NextId
         /\ DOMAIN users' = DOMAIN users
         /\ users' \in [DOMAIN users -> Password]
<1>1. DOMAIN users' = DOMAIN users
  BY DEF Set
<1>2. NextId' = NextId
  BY <1>1 DEF NextId
<1>3. users' \in [DOMAIN users -> Password]
  BY <1>1, SetType DEF AccountsTypeOK
<1>. QED  BY <1>1, <1>2, <1>3 DEF Contiguous

(* A lapse is worth a whole limit.                                         *)
LEMMA LapseIsWorth ==
  ASSUME NEW n \in Nat
  PROVE  /\ Limit * n \in Nat
         /\ Limit * (n + 1) = Limit * n + Limit
         /\ Limit >= 1
BY AccountsAssumption

(* Kept, when nobody new is in doubt, and when a lapse puts one there.     *)
LEMMA NoNewDoubt ==
  ASSUME Kept, lapses \in Nat, lapses' \in {lapses, lapses + 1},
         Doubtful' \subseteq Doubtful
  PROVE  Kept'
<1>1. /\ IsFiniteSet(Doubtful')
      /\ Cardinality(Doubtful') <= Cardinality(Doubtful)
  BY FS_Subset DEF Kept
<1>2. Cardinality(Doubtful) \in Nat /\ Cardinality(Doubtful') \in Nat
  BY <1>1, FS_CardinalityType DEF Kept
<1>3. Cardinality(Doubtful) <= lapses
  BY DEF Kept
<1>4. Cardinality(Doubtful') <= lapses'
  BY <1>1, <1>2, <1>3
<1>. QED  BY <1>1, <1>4 DEF Kept

LEMMA OneNewDoubt ==
  ASSUME Kept, lapses \in Nat, lapses' = lapses + 1, NEW x,
         Doubtful' \subseteq Doubtful \cup {x}
  PROVE  Kept'
<1>. DEFINE More == Doubtful \cup {x}
<1>1. Cardinality(Doubtful) \in Nat
  BY FS_CardinalityType DEF Kept
<1>2. /\ IsFiniteSet(More)
      /\ \/ Cardinality(More) = Cardinality(Doubtful)
         \/ Cardinality(More) = Cardinality(Doubtful) + 1
  BY FS_AddElement DEF Kept
<1>3. /\ IsFiniteSet(Doubtful')
      /\ Cardinality(Doubtful') <= Cardinality(More)
  BY <1>2, FS_Subset
<1>4. Cardinality(Doubtful') \in Nat
  BY <1>3, FS_CardinalityType
<1>5. Cardinality(Doubtful) <= lapses
  BY DEF Kept
<1>. HIDE DEF More
<1>6. Cardinality(Doubtful') <= lapses'
  BY <1>1, <1>2, <1>3, <1>4, <1>5
<1>. QED  BY <1>3, <1>6 DEF Kept

-----------------------------------------------------------------------------
LEMMA InitHolds == Init => IInv
<1>. SUFFICES ASSUME Init PROVE IInv
  OBVIOUS
<1>. USE AccountsAssumption DEF Init
<1>1. /\ DOMAIN users = FirstId..(FirstId + Shipped - 1)
      /\ users \in [DOMAIN users -> Password]
  OBVIOUS
<1>2. /\ IsFiniteSet(DOMAIN users)
      /\ Cardinality(DOMAIN users) = Shipped
  BY <1>1, FS_Interval
<1>3. AccountsTypeOK
  BY <1>1, <1>2 DEF AccountsTypeOK, Idle, Op
<1>4. Contiguous
  BY <1>1, <1>2 DEF Contiguous, NextId
<1>5. Fresh /\ AcksStored /\ Distinct
  BY DEF Fresh, AcksStored, Distinct, Idle
<1>7. Kept
  <2>1. Doubtful = {}
    BY DEF Doubtful, Misled, Idle
  <2>. QED  BY <2>1, FS_EmptySet DEF Kept
<1>6. Covered
  BY DEF Covered, Uncounted, Idle
<1>. QED  BY <1>3, <1>4, <1>5, <1>6, <1>7 DEF IInv

(* Register reads a count and the times; nothing is stored yet.            *)
LEMMA RegisterStep ==
  ASSUME IInv, NEW p \in Password, Register(p)
  PROVE  IInv'
<1>. USE AccountsAssumption DEF IInv
<1>1. /\ UNCHANGED <<users, code, times, lapses, spent, acks, told>>
      /\ op.pc = "idle" /\ times < Limit
  BY DEF Register, CodeIsGood
<1>2. NextId \in Nat /\ NextId \notin DOMAIN users /\ NextId' = NextId
  BY <1>1, NextIsFree DEF NextId
<1>3. op' = [pc |-> "insert", id |-> NextId, passw |-> p, times |-> times,
             code |-> NoCode, stored |-> FALSE]
  BY DEF Register, Idle
<1>4. AccountsTypeOK'
  BY <1>1, <1>2, <1>3 DEF AccountsTypeOK, Op
<1>5. Contiguous' /\ Distinct'
  BY <1>1, <1>2 DEF Contiguous, Distinct
<1>9. Kept'
  <2>1. Doubtful' \subseteq Doubtful
    BY <1>1, <1>3 DEF Doubtful, Misled
  <2>. QED  BY <1>1, <2>1, NoNewDoubt DEF AccountsTypeOK
<1>6. Fresh'
  BY <1>1, <1>2, <1>3 DEF Fresh
<1>7. Covered'
  BY <1>1, <1>3 DEF Covered, Uncounted
<1>8. AcksStored'
  BY <1>1, <1>2, <1>3 DEF AcksStored
<1>. QED  BY <1>4, <1>5, <1>6, <1>7, <1>8, <1>9

LEMMA InsertStep ==
  ASSUME IInv, NEW works \in BOOLEAN, Insert(works)
  PROVE  IInv'
<1>. USE AccountsAssumption DEF IInv
<1>1. /\ NextId \in Nat /\ NextId \notin DOMAIN users
      /\ op.id = NextId /\ op.passw \in Password
      /\ op.pc = "insert"
  BY NextIsFree DEF Insert, Fresh
<1>2. /\ op' = [op EXCEPT !.pc = "count", !.stored = works]
      /\ users' = IF works THEN Set(users, NextId, op.passw) ELSE users
      /\ spent' = IF works THEN spent + 1 ELSE spent
      /\ UNCHANGED <<code, times, acks, told>>
  BY <1>1 DEF Insert
<1>3. /\ lapses' = IF works THEN lapses ELSE lapses + 1
      /\ lapses \in Nat /\ spent \in Nat /\ times \in Nat
  BY DEF Insert, Statement, AccountsTypeOK
<1>4. op \in Op
  BY DEF AccountsTypeOK
<1>5. /\ op'.pc = "count" /\ op'.stored = works /\ op'.id = op.id
      /\ op'.passw = op.passw /\ op'.times = op.times
      /\ op' \in Op
  BY <1>2, <1>4 DEF Op
<1>6. Contiguous' /\ (IsFiniteSet(DOMAIN users) /\ DOMAIN users \in SUBSET Nat
                        /\ users \in [DOMAIN users -> Password])'
  <2>1. CASE works
    BY <1>1, <1>2, <2>1, StoreNext
  <2>2. CASE ~works
    BY <1>2, <2>2 DEF Contiguous, NextId, AccountsTypeOK
  <2>. QED  BY <2>1, <2>2
<1>7. /\ DOMAIN users \subseteq DOMAIN users'
      /\ \A id \in DOMAIN users : users'[id] = users[id]
      /\ works => NextId \in DOMAIN users' /\ users'[NextId] = op.passw
  BY <1>1, <1>2 DEF Set
<1>8. AccountsTypeOK'
  BY <1>2, <1>3, <1>5, <1>6 DEF AccountsTypeOK
<1>9. Fresh'
  BY <1>1, <1>2, <1>5, <1>7 DEF Fresh
<1>10. Covered'
  BY <1>1, <1>2, <1>3, <1>5, LapseIsWorth DEF Covered, Uncounted
<1>11. AcksStored'
  BY <1>1, <1>2, <1>5, <1>7 DEF AcksStored
<1>12. Distinct'
  BY <1>2 DEF Distinct
<1>13. Kept'
  <2>1. CASE works
    <3>1. Misled' \subseteq Misled
      BY <1>1, <1>2, <1>7, <2>1 DEF Misled
    <3>2. Doubtful' = Misled' /\ Doubtful = Misled
      BY <1>1, <1>5, <2>1 DEF Doubtful
    <3>. QED  BY <1>3, <2>1, <3>1, <3>2, NoNewDoubt
  <2>2. CASE ~works
    <3>1. Misled' = Misled
      BY <1>2, <2>2 DEF Misled
    <3>2. Doubtful' = Misled' \cup {op.id} /\ Doubtful = Misled
      BY <1>1, <1>5, <2>2 DEF Doubtful
    <3>. QED  BY <1>3, <2>2, <3>1, <3>2, OneNewDoubt
  <2>. QED  BY <2>1, <2>2
<1>. QED  BY <1>6, <1>8, <1>9, <1>10, <1>11, <1>12, <1>13

LEMMA CountStep ==
  ASSUME IInv, NEW works \in BOOLEAN, Count(works)
  PROVE  IInv'
<1>. USE AccountsAssumption DEF IInv
<1>. DEFINE ack == [id |-> op.id, stored |-> op.stored]
<1>1. /\ op.pc = "count" /\ op.passw \in Password
      /\ op.times = times /\ times < Limit
      /\ op.stored => op.id \in DOMAIN users /\ users[op.id] = op.passw
  BY DEF Count, Fresh
<1>2. /\ op' = Idle
      /\ times' = IF works THEN times + 1 ELSE times
      /\ lapses' = IF works THEN lapses ELSE lapses + 1
      /\ told' = Set(told, op.id, op.passw)
      /\ UNCHANGED <<users, code, spent>>
  BY <1>1 DEF Count, Statement
<1>3. /\ lapses \in Nat /\ spent \in Nat /\ times \in Nat
      /\ op.id \in Nat /\ op.stored \in BOOLEAN /\ acks \in Seq(Ack)
  BY DEF AccountsTypeOK, Op
<1>4. /\ acks' \in Seq(Ack)
      /\ Len(acks') = Len(acks) + 1
      /\ \A k \in 1..Len(acks) : acks'[k] = acks[k]
      /\ acks'[Len(acks) + 1] = ack
  <2>1. acks' = Append(acks, ack) /\ ack \in Ack
    BY <1>3 DEF Count, Ack
  <2>. HIDE DEF ack
  <2>. QED  BY <1>3, <2>1
<1>5. op'.pc = "idle" /\ op' \in Op
  BY <1>2 DEF Idle, Op
<1>6. NextId' = NextId
  BY <1>2 DEF NextId
<1>7. AccountsTypeOK'
  <2>1. (DOMAIN told \in SUBSET Nat /\ told \in [DOMAIN told -> Password])'
    BY <1>1, <1>2, <1>3, SetType DEF AccountsTypeOK
  <2>. QED  BY <1>1, <1>2, <1>3, <1>4, <1>5, <2>1, SMTT(40) DEF AccountsTypeOK
<1>8. Contiguous' /\ Fresh'
  BY <1>2, <1>5, <1>6 DEF Contiguous, Fresh
<1>9. Covered'
  BY <1>1, <1>2, <1>3, <1>5, LapseIsWorth DEF Covered, Uncounted
<1>10. AcksStored'
  BY <1>1, <1>2, <1>3, <1>4, <1>5 DEF AcksStored
<1>11. Distinct'
  BY <1>1, <1>3, <1>4 DEF Distinct, AcksStored
<1>12. Kept'
  <2>1. Doubtful' = Misled'
    BY <1>5 DEF Doubtful
  <2>2. Misled' \subseteq Misled \cup {op.id}
    BY <1>2 DEF Misled, Set
  <2>3. op.stored => op.id \notin Misled'
    BY <1>1, <1>2 DEF Misled, Set
  <2>4. Doubtful' \subseteq Doubtful
    BY <1>1, <2>1, <2>2, <2>3 DEF Doubtful
  <2>. QED  BY <1>2, <1>3, <2>4, NoNewDoubt
<1>. QED  BY <1>7, <1>8, <1>9, <1>10, <1>11, <1>12

(* The steps that touch the invite code only.                              *)
LEMMA CodeStep ==
  ASSUME IInv,
         \/ \E c \in Code : GenerateCode(c)
         \/ \E works \in BOOLEAN : ChangeCode(works) \/ ResetTimes(works)
         \/ Crash
  PROVE  IInv'
<1>. USE AccountsAssumption DEF IInv
<1>1. UNCHANGED <<users, acks, told>>
  BY DEF GenerateCode, ChangeCode, ResetTimes, Crash
<1>2. Contiguous' /\ Distinct'
  BY <1>1 DEF Contiguous, NextId, Distinct
<1>6. Kept'
  <2>1. Misled' = Misled
    BY <1>1 DEF Misled
  <2>2. op'.pc # "count"
    <3>1. op \in Op /\ Idle \in Op /\ Idle.pc = "idle"
      BY DEF AccountsTypeOK, Idle, Op
    <3>2. ASSUME NEW c \in Code, GenerateCode(c) PROVE op'.pc # "count"
      BY <3>2 DEF GenerateCode, Idle
    <3>3. ASSUME NEW works \in BOOLEAN, ChangeCode(works)
          PROVE  op'.pc # "count"
      BY <3>1, <3>3 DEF ChangeCode, Op
    <3>4. ASSUME NEW works \in BOOLEAN, ResetTimes(works)
          PROVE  op'.pc # "count"
      BY <3>1, <3>4 DEF ResetTimes
    <3>5. ASSUME Crash PROVE op'.pc # "count"
      BY <3>1, <3>5 DEF Crash
    <3>. QED  BY <3>2, <3>3, <3>4, <3>5
  <2>3. Doubtful' \subseteq Doubtful
    BY <2>1, <2>2 DEF Doubtful
  <2>4. lapses \in Nat /\ lapses' \in {lapses, lapses + 1}
    BY DEF GenerateCode, ChangeCode, ResetTimes, Crash, Statement, AccountsTypeOK
  <2>. QED  BY <2>3, <2>4, NoNewDoubt
<1>3. op'.pc \notin {"insert", "count"} => AcksStored'
  BY <1>1 DEF AcksStored
<1>4. /\ times \in Nat /\ times <= Limit /\ lapses \in Nat /\ spent \in Nat
      /\ op \in Op
  BY DEF AccountsTypeOK
<1>5. AccountsTypeOK' /\ Fresh' /\ Covered' /\ AcksStored'
  <2>1. ASSUME NEW c \in Code, GenerateCode(c)
        PROVE  AccountsTypeOK' /\ Fresh' /\ Covered' /\ AcksStored'
    <3>1. op' = [pc |-> "change", id |-> FirstId, passw |-> NoPassword,
                 times |-> 0, code |-> c, stored |-> FALSE]
      BY <2>1 DEF GenerateCode, Idle
    <3>2. /\ UNCHANGED <<times, lapses, spent, code>>
          /\ op.pc = "idle" /\ ~(times < Limit)
      BY <2>1 DEF GenerateCode, CodeIsGood
    <3>3. AccountsTypeOK'
      BY <1>1, <3>1, <3>2 DEF AccountsTypeOK, Op
    <3>4. Fresh'
      BY <1>4, <3>1, <3>2 DEF Fresh
    <3>5. Covered'
      BY <3>1, <3>2 DEF Covered, Uncounted
    <3>. QED  BY <1>3, <3>1, <3>3, <3>4, <3>5
  <2>2. ASSUME NEW works \in BOOLEAN, ChangeCode(works)
        PROVE  AccountsTypeOK' /\ Fresh' /\ Covered' /\ AcksStored'
    <3>1. /\ op'.pc = "reset" /\ op' \in Op
          /\ op.pc = "change" /\ op.code \in Code /\ times = Limit
      BY <1>4, <2>2 DEF ChangeCode, Op, Fresh
    <3>2. /\ code' = IF works THEN op.code ELSE code
          /\ spent' = IF works THEN 0 ELSE spent
          /\ lapses' = IF works THEN lapses ELSE lapses + 1
          /\ times' = times
      BY <2>2 DEF ChangeCode, Statement
    <3>3. AccountsTypeOK'
      BY <1>1, <1>4, <3>1, <3>2 DEF AccountsTypeOK
    <3>4. Fresh'
      BY <3>1 DEF Fresh
    <3>5. Covered'
      BY <1>4, <3>1, <3>2, LapseIsWorth DEF Covered, Uncounted
    <3>. QED  BY <1>3, <3>1, <3>3, <3>4, <3>5
  <2>3. ASSUME NEW works \in BOOLEAN, ResetTimes(works)
        PROVE  AccountsTypeOK' /\ Fresh' /\ Covered' /\ AcksStored'
    <3>1. op' = Idle /\ op.pc = "reset" /\ UNCHANGED <<code, spent>>
      BY <2>3 DEF ResetTimes
    <3>2. /\ times' = IF works THEN 0 ELSE times
          /\ lapses' = IF works THEN lapses ELSE lapses + 1
      BY <2>3 DEF ResetTimes, Statement
    <3>3. AccountsTypeOK' /\ Fresh'
      BY <1>1, <1>4, <3>1, <3>2 DEF AccountsTypeOK, Fresh, Idle, Op
    <3>4. Covered'
      BY <1>4, <3>1, <3>2, LapseIsWorth DEF Covered, Uncounted, Idle
    <3>. QED  BY <1>3, <3>1, <3>3, <3>4 DEF Idle
  <2>4. ASSUME Crash
        PROVE  AccountsTypeOK' /\ Fresh' /\ Covered' /\ AcksStored'
    <3>1. op' = Idle /\ lapses' = lapses + 1 /\ UNCHANGED <<code, times, spent>>
      BY <2>4 DEF Crash
    <3>2. AccountsTypeOK' /\ Fresh'
      BY <1>1, <1>4, <3>1 DEF AccountsTypeOK, Fresh, Idle, Op
    <3>3. Covered'
      BY <1>4, <3>1, LapseIsWorth DEF Covered, Uncounted, Idle
    <3>. QED  BY <1>3, <3>1, <3>2, <3>3 DEF Idle
  <2>. QED  BY <2>1, <2>2, <2>3, <2>4
<1>. QED  BY <1>2, <1>5, <1>6

(* A change keeps to the row of its account, where there is one, and the   *)
(* number of an account that does not exist stays free.                    *)
LEMMA ChangePasswordStep ==
  ASSUME IInv, NEW id \in Ids, NEW old \in Password, NEW new \in Password,
         NEW works \in BOOLEAN, ChangePassword(id, old, new, works)
  PROVE  IInv'
<1>. USE AccountsAssumption DEF IInv
<1>1. id \in Nat
  BY DEF Ids
<1>2. /\ users' = IF works /\ id \in DOMAIN users
                   THEN Set(users, id, new) ELSE users
      /\ told' = IF id \in DOMAIN users \cup DOMAIN told
                  THEN Set(told, id, new) ELSE told
      /\ lapses' = IF works THEN lapses ELSE lapses + 1
      /\ UNCHANGED <<code, times, op, spent, acks>>
      /\ op.pc = "idle"
  BY <1>1 DEF ChangePassword, Statement
<1>3. /\ times \in Nat /\ lapses \in Nat /\ spent \in Nat
  BY DEF AccountsTypeOK
<1>4. /\ Contiguous' /\ NextId' = NextId /\ DOMAIN users' = DOMAIN users
      /\ users' \in [DOMAIN users -> Password]
  <2>1. CASE works /\ id \in DOMAIN users
    BY <1>1, <1>2, <2>1, StoreAgain
  <2>2. CASE ~(works /\ id \in DOMAIN users)
    BY <1>2, <2>2 DEF Contiguous, NextId, AccountsTypeOK
  <2>. QED  BY <2>1, <2>2
<1>5. (DOMAIN told \in SUBSET Nat /\ told \in [DOMAIN told -> Password])'
  BY <1>1, <1>2, SetType DEF AccountsTypeOK
<1>6. AccountsTypeOK'
  BY <1>2, <1>3, <1>4, <1>5 DEF AccountsTypeOK
<1>7. Fresh' /\ AcksStored' /\ Distinct'
  BY <1>2, <1>4 DEF Fresh, AcksStored, Distinct
<1>8. Covered'
  BY <1>2, <1>3, LapseIsWorth DEF Covered, Uncounted
<1>9. Kept'
  <2>1. Doubtful' = Misled' /\ Doubtful = Misled
    BY <1>2 DEF Doubtful
  <2>2. Misled' \subseteq Misled \cup {id}
    BY <1>2 DEF Misled, Set
  <2>3. CASE works
    <3>1. id \in DOMAIN users => id \notin Misled'
      BY <1>2, <2>3 DEF Misled, Set
    <3>2. id \notin DOMAIN users /\ id \in Misled' => id \in Misled
      BY <1>2 DEF Misled
    <3>. QED  BY <1>2, <1>3, <2>1, <2>2, <2>3, <3>1, <3>2, NoNewDoubt
  <2>4. CASE ~works
    BY <1>2, <1>3, <2>1, <2>2, <2>4, OneNewDoubt
  <2>. QED  BY <2>3, <2>4
<1>. QED  BY <1>4, <1>6, <1>7, <1>8, <1>9

(* The strengthened invariant holds of every execution.                    *)
THEOREM Inductive == Spec => []IInv
<1>1. Init => IInv
  BY InitHolds
<1>2. IInv /\ [Next]_vars => IInv'
  <2>. SUFFICES ASSUME IInv, [Next]_vars PROVE IInv'
    OBVIOUS
  <2>1. CASE Next
    BY <2>1, RegisterStep, InsertStep, CountStep, CodeStep, ChangePasswordStep
    DEF Next
  <2>2. CASE UNCHANGED vars
    BY <2>2 DEF vars, IInv, AccountsTypeOK, Contiguous, NextId, Fresh,
       Covered, Uncounted, AcksStored, Distinct, Kept, Doubtful, Misled
  <2>. QED  BY <2>1, <2>2
<1>. QED  BY <1>1, <1>2, PTL DEF Spec

(* Every variable keeps its type; the times of a code never pass the limit. *)
THEOREM TypeCorrect == Spec => []AccountsTypeOK
<1>1. IInv => AccountsTypeOK
  BY DEF IInv
<1>. QED  BY <1>1, Inductive, PTL

(* No client is given the number of an account stored for another one.     *)
THEOREM NumbersAreOwn == Spec => []NumberNotTaken
<1>1. IInv => NumberNotTaken
  <2>. SUFFICES ASSUME IInv PROVE NumberNotTaken
    OBVIOUS
  <2>1. DOMAIN acks = 1..Len(acks)
    BY DEF IInv, AccountsTypeOK
  <2>. QED  BY <2>1 DEF IInv, Distinct, NumberNotTaken
<1>. QED  BY <1>1, Inductive, PTL

(* An invite code admits its limit, and that much again for every lapse.   *)
THEOREM CodesAreLimited == Spec => []CodeLimited
<1>1. IInv => CodeLimited
  <2>. SUFFICES ASSUME IInv PROVE CodeLimited
    OBVIOUS
  <2>1. times \in 0..Limit /\ lapses \in Nat /\ spent \in Nat
    BY DEF IInv, AccountsTypeOK
  <2>2. times + Uncounted <= Limit /\ Uncounted \in 0..1
    BY <2>1, AccountsAssumption DEF IInv, Fresh, Uncounted
  <2>3. spent <= times + Uncounted + Limit * lapses
    BY DEF IInv, Covered
  <2>. QED  BY <2>1, <2>2, <2>3, LapseIsWorth, AccountsAssumption DEF CodeLimited
<1>. QED  BY <1>1, Inductive, PTL

(* There are no more accounts whose acknowledged password does not open    *)
(* them than there were failed statements and crashes.                     *)
THEOREM PasswordsHold == Spec => []PasswordsKept
<1>1. IInv => PasswordsKept
  <2>. SUFFICES ASSUME IInv PROVE PasswordsKept
    OBVIOUS
  <2>1. /\ IsFiniteSet(Doubtful) /\ Cardinality(Doubtful) <= lapses
        /\ lapses \in Nat
    BY DEF IInv, Kept, AccountsTypeOK
  <2>2. Misled \subseteq Doubtful
    BY DEF Doubtful
  <2>3. IsFiniteSet(Misled) /\ Cardinality(Misled) <= Cardinality(Doubtful)
    BY <2>1, <2>2, FS_Subset
  <2>4. Cardinality(Misled) \in Nat /\ Cardinality(Doubtful) \in Nat
    BY <2>1, <2>3, FS_CardinalityType
  <2>5. Cardinality(Misled) <= lapses
    BY <2>1, <2>3, <2>4
  <2>. QED  BY <2>5 DEF PasswordsKept
<1>. QED  BY <1>1, Inductive, PTL
=============================================================================
