-------------------------- MODULE NumberMarkProofs --------------------------
(***************************************************************************)
(* Proofs about NumberMark: its type invariant, and that a number has at   *)
(* most one mark of the user, for any threads, numbers, spellings and      *)
(* types, whatever fails.                                                  *)
(***************************************************************************)
EXTENDS NumberMark, SequenceTheorems, TLAPS

\* Overwriting every element of a sequence keeps its length.
LEMMA Overwritten ==
  ASSUME NEW S, NEW s \in Seq(S), NEW x \in S
  PROVE  /\ [i \in DOMAIN s |-> x] \in Seq(S)
         /\ Len([i \in DOMAIN s |-> x]) = Len(s)
<1>1. DOMAIN s = 1..Len(s) /\ Len(s) \in Nat
  BY LenProperties
<1> QED
  BY <1>1

-----------------------------------------------------------------------------
(* Type correctness. *)

LEMMA SomeSpelling == (CHOOSE p \in Spellings : TRUE) \in Spellings
  BY MarkAssumption

LEMMA NoRequestType ==
  /\ [phone |-> CHOOSE p \in Spellings : TRUE, type |-> None] \in Request
  /\ [hasUserMark |-> FALSE, cloud |-> None]
       \in [hasUserMark : BOOLEAN, cloud : Types \cup {None}]
  BY SomeSpelling DEF Request

LEMMA InitType == Init => TypeOK
<1> SUFFICES ASSUME Init PROVE TypeOK
  OBVIOUS
<1>1. << >> \in Seq(Types)
  OBVIOUS
<1>2. callLog \in [Spellings -> Mark]
  BY MarkAssumption DEF Init, Mark
<1> QED
  BY <1>1, <1>2, NoRequestType DEF Init, TypeOK

LEMMA NumberType ==
  ASSUME TypeOK, NEW t \in Threads
  PROVE  request[t] \in Request /\ Number(t) \in Numbers /\ request[t].phone \in Spellings
<1>1. request[t] \in Request /\ request[t].phone \in Spellings
  BY DEF TypeOK, Request
<1> QED
  BY <1>1, MarkAssumption DEF Number

LEMMA DoneType ==
  ASSUME TypeOK, NEW t \in Threads, NEW success \in BOOLEAN, Done(t, success)
  PROVE  /\ request' \in [Threads -> Request]
         /\ old' \in [Threads -> [hasUserMark : BOOLEAN, cloud : Types \cup {None}]]
         /\ new' \in [Threads -> Seq(Types)]
         /\ alone' \in [Threads -> BOOLEAN]
         /\ promised' \in [Numbers -> Request \cup {Unknown}]
         /\ pc' = [pc EXCEPT ![t] = "idle"]
<1>1. << >> \in Seq(Types)
  OBVIOUS
<1> QED
  BY <1>1, NoRequestType, NumberType DEF Done, GoTo, TypeOK

LEMMA WrittenType ==
  ASSUME TypeOK, NEW t \in Threads
  PROVE  Written(t) \in Seq(Types)
<1>1. user[Number(t)] \in Seq(Types)
  BY NumberType DEF TypeOK
<1>2. CASE request[t].type = None
  BY <1>2 DEF Written
<1>3. CASE request[t].type # None
  <2>1. request[t].type \in Types
    BY <1>3, NumberType DEF Request
  <2>2. Append(user[Number(t)], request[t].type) \in Seq(Types)
    BY <1>1, <2>1
  <2>3. [i \in DOMAIN user[Number(t)] |-> request[t].type] \in Seq(Types)
    BY <1>1, <2>1, Overwritten
  <2> QED
    BY <1>3, <2>2, <2>3 DEF Written
<1> QED
  BY <1>2, <1>3

\* The table, the call log and every thread's copies always have their types: no failure
\* leaves SetNumberMark with a mark of no valid type in the table.
THEOREM TypeCorrect == Spec => []TypeOK
<1>1. ASSUME TypeOK, [Next]_vars
      PROVE  TypeOK'
  <2> USE <1>1 DEF TypeOK
  <2>1. ASSUME NEW t \in Threads, NEW r \in Request, SetNumberMark(t, r)
        PROVE  TypeOK'
    BY <2>1, MarkAssumption DEF SetNumberMark, GoTo, table, Request
  <2>2. ASSUME NEW t \in Threads, BeginTransaction(t)
        PROVE  TypeOK'
    <3>1. CASE Fault /\ Done(t, FALSE) /\ UNCHANGED holder
      BY <2>2, <3>1, DoneType DEF BeginTransaction, Fault, table
    <3>2. CASE ~(Fault /\ Done(t, FALSE) /\ UNCHANGED holder)
      BY <2>2, <3>2 DEF BeginTransaction, GoTo, table, history
    <3> QED
      BY <3>1, <3>2
  <2>3. ASSUME NEW t \in Threads, QueryLocalNumberMark(t)
        PROVE  TypeOK'
    <3>1. [hasUserMark |-> user[Number(t)] # << >>, cloud |-> cloud[Number(t)]]
            \in [hasUserMark : BOOLEAN, cloud : Types \cup {None}]
      BY NumberType
    <3> QED
      BY <2>3, <3>1 DEF QueryLocalNumberMark, GoTo, table, history
  <2>4. ASSUME NEW t \in Threads, SetLocalNumberMark(t)
        PROVE  TypeOK'
    BY <2>4, WrittenType DEF SetLocalNumberMark, GoTo, table, history
  <2>5. ASSUME NEW t \in Threads, BodyFails(t)
        PROVE  TypeOK'
    BY <2>5 DEF BodyFails, Fault, GoTo, table
  <2>6. ASSUME NEW t \in Threads, Commit(t)
        PROVE  TypeOK'
    <3>1. CASE Done(t, FALSE) /\ Fault /\ UNCHANGED user
      BY <2>6, <3>1, DoneType DEF Commit, Fault
    <3>2. CASE ~(Done(t, FALSE) /\ Fault /\ UNCHANGED user)
      BY <2>6, <3>2 DEF Commit, GoTo, history
    <3> QED
      BY <3>1, <3>2
  <2>7. ASSUME NEW t \in Threads, RollBack(t)
        PROVE  TypeOK'
    <3>1. CASE Done(t, FALSE) /\ Fault
      BY <2>7, <3>1, DoneType DEF RollBack, Fault, table
    <3>2. CASE ~(Done(t, FALSE) /\ Fault)
      BY <2>7, <3>2 DEF RollBack, GoTo, table, history
    <3> QED
      BY <3>1, <3>2
  <2>8. ASSUME NEW t \in Threads, UpdateCallLog(t)
        PROVE  TypeOK'
    <3>1. CallLogMark(t) \in Mark
      BY NumberType DEF CallLogMark, Mark, Request
    <3>2. callLog' \in [Spellings -> Mark] /\ faulted' \in BOOLEAN
      BY <2>8, <3>1, NumberType DEF UpdateCallLog, Fault
    <3>3. PICK success \in BOOLEAN : Done(t, success)
      BY <2>8 DEF UpdateCallLog
    <3> QED
      BY <2>8, <3>2, <3>3, DoneType DEF UpdateCallLog, table
  <2>9. CASE UNCHANGED vars
    BY <2>9 DEF vars
  <2> QED
    BY <2>1, <2>2, <2>3, <2>4, <2>5, <2>6, <2>7, <2>8, <2>9 DEF Next
<1> QED
  BY <1>1, InitType, PTL DEF Spec
-----------------------------------------------------------------------------
(* One mark of the user. *)

InTransaction == {"query", "write", "commit", "rollback"}

\* The threads in a transaction are the holders, and there is one holder at most.
Exclusive ==
    /\ \A t \in Threads : pc[t] \in InTransaction => t \in holder
    /\ \A t, u \in holder : t = u

\* The holder's copies agree with the table: what it has read is still so, and what it
\* will commit is one mark at most.
FreshRead(t) == pc[t] = "write" => old[t].hasUserMark = (user[Number(t)] # << >>)
SmallWrite(t) == pc[t] = "commit" => Len(new[t]) <= 1

MarkInv ==
    /\ TypeOK
    /\ Exclusive
    /\ OneUserMark
    /\ \A t \in Threads : FreshRead(t) /\ SmallWrite(t)

LEMMA WrittenLength ==
  ASSUME TypeOK, OneUserMark, NEW t \in Threads, FreshRead(t), pc[t] = "write"
  PROVE  Len(Written(t)) <= 1
<1>1. user[Number(t)] \in Seq(Types) /\ Len(user[Number(t)]) <= 1
  BY NumberType DEF TypeOK, OneUserMark
<1>2. CASE request[t].type = None
  <2>1. Len(<< >>) = 0
    OBVIOUS
  <2> QED
    BY <1>2, <2>1 DEF Written
<1>3. CASE request[t].type # None
  <2>1. request[t].type \in Types
    BY <1>3, NumberType DEF Request
  <2>2. CASE old[t].hasUserMark
    BY <1>1, <1>3, <2>1, <2>2, Overwritten DEF Written
  <2>3. CASE ~old[t].hasUserMark
    <3>1. user[Number(t)] = << >>
      BY <2>3 DEF FreshRead
    <3>2. Len(Append(<< >>, request[t].type)) = 1
      OBVIOUS
    <3> QED
      BY <1>3, <2>3, <3>1, <3>2 DEF Written
  <2> QED
    BY <2>2, <2>3
<1> QED
  BY <1>2, <1>3

LEMMA MarkInit == Init => MarkInv
<1> SUFFICES ASSUME Init PROVE MarkInv
  OBVIOUS
<1>1. Len(<< >>) = 0
  OBVIOUS
<1> QED
  BY <1>1, InitType DEF Init, MarkInv, Exclusive, InTransaction, OneUserMark, FreshRead, SmallWrite

\* A step of thread t outside of a transaction that leaves the table and every holder alone.
LEMMA Outside ==
  ASSUME MarkInv, TypeOK', NEW t \in Threads,
         pc' = [pc EXCEPT ![t] = pc'[t]], pc'[t] \notin InTransaction,
         UNCHANGED user, holder' = holder \/ holder' = holder \ {t},
         \A u \in Threads : u # t => request'[u] = request[u] /\ old'[u] = old[u]
                                                              /\ new'[u] = new[u]
  PROVE  MarkInv'
<1>1. \A u \in Threads : u # t => pc'[u] = pc[u]
  BY DEF MarkInv, TypeOK
<1>2. Exclusive'
  BY <1>1 DEF MarkInv, Exclusive
<1>3. OneUserMark'
  BY DEF MarkInv, OneUserMark
<1>4. FreshRead(t)' /\ SmallWrite(t)'
  BY DEF InTransaction, FreshRead, SmallWrite
<1>5. ASSUME NEW u \in Threads, u # t
      PROVE  FreshRead(u)' /\ SmallWrite(u)'
  BY <1>1, <1>5 DEF MarkInv, FreshRead, SmallWrite, Number
<1> QED
  BY <1>2, <1>3, <1>4, <1>5 DEF MarkInv

\* A step of the holder t that stays in its transaction and leaves the table alone.
LEMMA Inside ==
  ASSUME MarkInv, TypeOK', NEW t \in Threads, holder' = {t},
         holder = {} \/ t \in holder,
         pc' = [pc EXCEPT ![t] = pc'[t]], UNCHANGED <<user, request>>,
         FreshRead(t)', SmallWrite(t)'
  PROVE  MarkInv'
<1>1. \A u \in Threads : u # t => pc'[u] = pc[u] /\ pc[u] \notin InTransaction
  BY DEF MarkInv, TypeOK, Exclusive
<1>2. Exclusive'
  BY <1>1 DEF Exclusive
<1>3. OneUserMark'
  BY DEF MarkInv, OneUserMark
<1>4. \A u \in Threads : u # t => FreshRead(u)' /\ SmallWrite(u)'
  BY <1>1 DEF FreshRead, SmallWrite, InTransaction
<1> QED
  BY <1>2, <1>3, <1>4 DEF MarkInv

\* When SetNumberMark returns, only the thread's own copies change.
LEMMA DoneOwn ==
  ASSUME TypeOK, NEW t \in Threads, NEW success \in BOOLEAN, Done(t, success)
  PROVE  /\ pc' = [pc EXCEPT ![t] = "idle"] /\ pc'[t] = "idle"
         /\ \A u \in Threads : u # t => request'[u] = request[u] /\ old'[u] = old[u]
                                                                 /\ new'[u] = new[u]
  BY DEF Done, GoTo, TypeOK

LEMMA MarkNext ==
  ASSUME MarkInv, TypeOK', [Next]_vars
  PROVE  MarkInv'
<1>0. TypeOK /\ pc \in [Threads -> {"idle", "begin", "query", "write", "commit",
                                    "rollback", "callLog"}]
  BY DEF MarkInv, TypeOK
<1>1. ASSUME NEW t \in Threads, NEW r \in Request, SetNumberMark(t, r)
      PROVE  MarkInv'
  <2>1. pc' = [pc EXCEPT ![t] = "begin"] /\ pc'[t] = "begin"
    BY <1>0, <1>1 DEF SetNumberMark, GoTo
  <2>2. \A u \in Threads : u # t => request'[u] = request[u]
    BY <1>0, <1>1 DEF SetNumberMark, TypeOK
  <2> QED
    BY <1>1, <2>1, <2>2, Outside DEF SetNumberMark, table, InTransaction
<1>2. ASSUME NEW t \in Threads, BeginTransaction(t)
      PROVE  MarkInv'
  <2>1. CASE Fault /\ Done(t, FALSE) /\ UNCHANGED holder
    BY <1>0, <1>2, <2>1, DoneOwn, Outside DEF BeginTransaction, table, InTransaction
  <2>2. CASE holder = {} /\ holder' = {t} /\ GoTo(t, "query") /\ UNCHANGED <<request, old, new>>
    <3>1. pc' = [pc EXCEPT ![t] = "query"] /\ pc'[t] = "query"
      BY <1>0, <2>2 DEF GoTo
    <3>2. FreshRead(t)' /\ SmallWrite(t)'
      BY <3>1 DEF FreshRead, SmallWrite
    <3> QED
      BY <1>2, <2>2, <3>1, <3>2, Inside DEF BeginTransaction, table
  <2> QED
    BY <1>2, <2>1, <2>2 DEF BeginTransaction
<1>3. ASSUME NEW t \in Threads, pc[t] \in InTransaction
      PROVE  t \in holder /\ holder = {t}
  BY <1>3 DEF MarkInv, Exclusive
<1>4. ASSUME NEW t \in Threads, QueryLocalNumberMark(t)
      PROVE  MarkInv'
  <2>1. pc' = [pc EXCEPT ![t] = "write"] /\ pc'[t] = "write" /\ holder = {t}
    BY <1>0, <1>3, <1>4 DEF QueryLocalNumberMark, GoTo, InTransaction
  <2>2. old'[t] = [hasUserMark |-> user[Number(t)] # << >>, cloud |-> cloud[Number(t)]]
    BY <1>0, <1>4 DEF QueryLocalNumberMark, TypeOK
  <2>3. UNCHANGED <<user, request>>
    BY <1>4 DEF QueryLocalNumberMark, table
  <2>4. old'[t].hasUserMark = (user[Number(t)] # << >>)
    BY <2>2
  <2>5. FreshRead(t)'
    BY <2>1, <2>3, <2>4 DEF FreshRead, Number
  <2>6. SmallWrite(t)'
    BY <2>1 DEF SmallWrite
  <2> QED
    BY <1>4, <2>1, <2>3, <2>5, <2>6, Inside DEF QueryLocalNumberMark
<1>5. ASSUME NEW t \in Threads, SetLocalNumberMark(t)
      PROVE  MarkInv'
  <2>1. pc' = [pc EXCEPT ![t] = "commit"] /\ pc'[t] = "commit" /\ holder = {t}
    BY <1>0, <1>3, <1>5 DEF SetLocalNumberMark, GoTo, InTransaction
  <2>2. new'[t] = Written(t)
    BY <1>0, <1>5 DEF SetLocalNumberMark, TypeOK
  <2>3. Len(Written(t)) <= 1
    BY <1>5, WrittenLength DEF MarkInv, SetLocalNumberMark
  <2>4. FreshRead(t)' /\ SmallWrite(t)'
    BY <2>1, <2>2, <2>3 DEF FreshRead, SmallWrite
  <2> QED
    BY <1>5, <2>1, <2>4, Inside DEF SetLocalNumberMark, table
<1>6. ASSUME NEW t \in Threads, BodyFails(t)
      PROVE  MarkInv'
  <2>1. pc' = [pc EXCEPT ![t] = "rollback"] /\ pc'[t] = "rollback" /\ holder = {t}
    BY <1>0, <1>3, <1>6 DEF BodyFails, GoTo, InTransaction
  <2>2. FreshRead(t)' /\ SmallWrite(t)'
    BY <2>1 DEF FreshRead, SmallWrite
  <2> QED
    BY <1>6, <2>1, <2>2, Inside DEF BodyFails, table
<1>7. ASSUME NEW t \in Threads, Commit(t)
      PROVE  MarkInv'
  <2>1. holder = {t} /\ holder' = {} /\ Len(new[t]) <= 1
    BY <1>3, <1>7 DEF Commit, InTransaction, MarkInv, SmallWrite
  <2>2. CASE Fault /\ Done(t, FALSE) /\ UNCHANGED user
    BY <1>0, <1>7, <2>2, DoneOwn, Outside DEF Commit, InTransaction
  <2>3. CASE user' = [user EXCEPT ![Number(t)] = new[t]] /\ GoTo(t, "callLog")
    <3>1. pc' = [pc EXCEPT ![t] = "callLog"]
      BY <2>3 DEF GoTo
    <3>2. \A u \in Threads : pc'[u] \notin InTransaction
      BY <1>0, <2>1, <3>1 DEF MarkInv, Exclusive, InTransaction
    <3>3. OneUserMark'
      BY <1>0, <2>1, <2>3, NumberType DEF MarkInv, OneUserMark, TypeOK
    <3> QED
      BY <2>1, <3>2, <3>3 DEF MarkInv, Exclusive, FreshRead, SmallWrite, InTransaction
  <2> QED
    BY <1>7, <2>2, <2>3 DEF Commit
<1>8. ASSUME NEW t \in Threads, RollBack(t)
      PROVE  MarkInv'
  <2>1. CASE Fault /\ Done(t, FALSE)
    BY <1>0, <1>8, <2>1, DoneOwn, Outside DEF RollBack, table, InTransaction
  <2>2. CASE GoTo(t, "callLog") /\ UNCHANGED <<request, old, new>>
    <3>1. pc' = [pc EXCEPT ![t] = "callLog"] /\ pc'[t] = "callLog"
      BY <1>0, <2>2 DEF GoTo
    <3> QED
      BY <1>8, <2>2, <3>1, Outside DEF RollBack, table, InTransaction
  <2> QED
    BY <1>8, <2>1, <2>2 DEF RollBack
<1>9. ASSUME NEW t \in Threads, UpdateCallLog(t)
      PROVE  MarkInv'
  <2>1. PICK success \in BOOLEAN : Done(t, success)
    BY <1>9 DEF UpdateCallLog
  <2> QED
    BY <1>0, <1>9, <2>1, DoneOwn, Outside DEF UpdateCallLog, table, InTransaction
<1>10. CASE UNCHANGED vars
  BY <1>10 DEF vars, MarkInv, Exclusive, OneUserMark, FreshRead, SmallWrite, Number
<1> QED
  BY <1>1, <1>2, <1>4, <1>5, <1>6, <1>7, <1>8, <1>9, <1>10 DEF Next

\* Two threads that set a mark for the same number never both insert one, whatever fails
\* in RunInTransaction, SetLocalNumberMark and UpdateCallLog.
THEOREM AtMostOneUserMark == Spec => []OneUserMark
<1>1. MarkInv => OneUserMark
  BY DEF MarkInv
<1> QED
  BY <1>1, MarkInit, MarkNext, TypeCorrect, PTL DEF Spec

-----------------------------------------------------------------------------
(* The call log follows the mark. *)

\* The rows s show the mark that t was asked to set.
Fits(s, t) ==
    IF request[t].type = None THEN s = << >> ELSE s # << >> /\ Head(s) = request[t].type

\* What a query of n finds, or else the mark of the cloud.
Shown(n) ==
    IF user[n] # << >> THEN [type |-> UserMark(n), isCloud |-> FALSE]
                       ELSE [type |-> cloud[n], isCloud |-> cloud[n] # None]

\* A thread that runs alone is the only one that runs.
OnlyOne == \A t \in Threads : alone[t] => pc[t] # "idle" /\ \A u \in Threads : u # t => pc[u] = "idle"

\* What t has read of the cloud's mark, and what it is about to commit.
CloudRead(t) == pc[t] \in {"write", "commit", "callLog"} /\ ~faulted => old[t].cloud = cloud[Number(t)]
Meant(t) == pc[t] = "commit" => Fits(new[t], t)

\* Between the two stores the table has the mark, if t runs alone.
Between(t) == pc[t] = "callLog" /\ alone[t] /\ ~faulted => Fits(user[Number(t)], t)
OnlyFaulted(t) == pc[t] = "rollback" => faulted

\* The promise for n is about a spelling of n, and no thread works on n.
Kept(n) ==
    promised[n] # Unknown =>
        /\ promised[n].phone \in Spellings /\ Standard[promised[n].phone] = n
        /\ \A t \in Threads : pc[t] # "idle" => Number(t) # n
        /\ ~faulted => callLog[promised[n].phone] = Shown(n)

FollowInv ==
    /\ OnlyOne
    /\ \A t \in Threads : CloudRead(t) /\ Meant(t) /\ Between(t) /\ OnlyFaulted(t)
    /\ \A n \in Numbers : Kept(n)

LEMMA FollowInit == Init => FollowInv
BY DEF Init, FollowInv, OnlyOne, CloudRead, Meant, Between, OnlyFaulted, Kept

LEMMA WrittenFits ==
  ASSUME TypeOK, NEW t \in Threads, FreshRead(t), pc[t] = "write"
  PROVE  Fits(Written(t), t)
<1>1. user[Number(t)] \in Seq(Types)
  BY NumberType DEF TypeOK
<1>2. CASE request[t].type = None
  BY <1>2 DEF Written, Fits
<1>3. CASE request[t].type # None /\ ~old[t].hasUserMark
  <2>1. user[Number(t)] = << >>
    BY <1>3 DEF FreshRead
  <2>2. Append(<< >>, request[t].type) # << >> /\ Head(Append(<< >>, request[t].type)) = request[t].type
    OBVIOUS
  <2> QED
    BY <1>3, <2>1, <2>2 DEF Written, Fits
<1>4. CASE request[t].type # None /\ old[t].hasUserMark
  <2>1. user[Number(t)] # << >>
    BY <1>4 DEF FreshRead
  <2>2. request[t].type \in Types
    BY <1>4, NumberType DEF Request
  <2> DEFINE s == [i \in DOMAIN user[Number(t)] |-> request[t].type]
  <2>3. s \in Seq(Types) /\ Len(s) = Len(user[Number(t)])
    BY <1>1, <2>2, Overwritten
  <2>4. Len(s) \in Nat \ {0} /\ DOMAIN user[Number(t)] = 1..Len(s)
    BY <1>1, <2>1, <2>3
  <2>5. s # << >> /\ Head(s) = s[1] /\ s[1] = request[t].type
    BY <2>3, <2>4
  <2> QED
    BY <1>4, <2>5 DEF Written, Fits
<1> QED
  BY <1>2, <1>3, <1>4

\* A step of t within its call, before it has committed or with the call log still to do,
\* that leaves table and call log alone.
LEMMA Within ==
  ASSUME FollowInv, TypeOK, NEW t \in Threads, pc[t] # "idle",
         pc' = [pc EXCEPT ![t] = pc'[t]], pc'[t] \in {"query", "write", "commit", "rollback", "callLog"},
         UNCHANGED <<user, cloud, callLog, request, alone, promised>>,
         \A u \in Threads : u # t => old'[u] = old[u] /\ new'[u] = new[u],
         faulted => faulted',
         (CloudRead(t) /\ Meant(t) /\ Between(t) /\ OnlyFaulted(t))'
  PROVE  FollowInv'
<1>1. \A u \in Threads : u # t => pc'[u] = pc[u]
  BY DEF TypeOK
<1>2. OnlyOne'
  BY <1>1 DEF FollowInv, OnlyOne
<1>3. \A u \in Threads : (CloudRead(u) /\ Meant(u) /\ Between(u) /\ OnlyFaulted(u))'
  BY <1>1 DEF FollowInv, CloudRead, Meant, Between, OnlyFaulted, Number, Fits
<1>4. \A n \in Numbers : Kept(n)'
  BY <1>1 DEF FollowInv, Kept, Number, Shown, UserMark
<1> QED
  BY <1>2, <1>3, <1>4 DEF FollowInv

\* A call that fails.
LEMMA Failed ==
  ASSUME FollowInv, TypeOK, NEW t \in Threads, NEW success \in BOOLEAN, pc[t] # "idle",
         Done(t, success), faulted', UNCHANGED <<user, cloud, callLog>>
  PROVE  FollowInv'
<1>1. /\ pc'[t] = "idle" /\ alone'[t] = FALSE
      /\ \A u \in Threads : u # t => /\ pc'[u] = pc[u] /\ request'[u] = request[u] /\ old'[u] = old[u]
                                     /\ new'[u] = new[u] /\ alone'[u] = alone[u]
  BY DEF Done, GoTo, TypeOK
<1>2. OnlyOne'
  BY <1>1 DEF FollowInv, OnlyOne
<1>3. \A u \in Threads : (CloudRead(u) /\ Meant(u) /\ Between(u) /\ OnlyFaulted(u))'
  BY <1>1 DEF FollowInv, CloudRead, Meant, Between, OnlyFaulted, Number, Fits
<1>4. ASSUME NEW n \in Numbers PROVE Kept(n)'
  <2>1. CASE promised'[n] = promised[n]
    BY <1>1, <2>1 DEF FollowInv, Kept, Number
  <2>2. CASE promised'[n] # promised[n]
    <3>1. n = Number(t) /\ promised'[n] = request[t] /\ alone[t]
      BY <2>2, NumberType DEF Done, TypeOK
    <3>2. \A u \in Threads : pc'[u] = "idle"
      BY <1>1, <3>1 DEF FollowInv, OnlyOne
    <3> QED
      BY <3>1, <3>2, NumberType DEF Kept, Number
  <2> QED
    BY <2>1, <2>2
<1> QED
  BY <1>2, <1>3, <1>4 DEF FollowInv

LEMMA FollowCall ==
  ASSUME FollowInv, TypeOK, NEW t \in Threads, NEW r \in Request, SetNumberMark(t, r)
  PROVE  FollowInv'
<1>1. /\ pc[t] = "idle" /\ pc'[t] = "begin" /\ request'[t] = r
      /\ \A u \in Threads : u # t => pc'[u] = pc[u] /\ request'[u] = request[u]
      /\ \A u \in Threads : alone'[u] => u = t /\ Active = {}
      /\ UNCHANGED <<user, cloud, callLog, old, new, faulted>>
  BY DEF SetNumberMark, GoTo, TypeOK, table
<1>2. OnlyOne'
  BY <1>1 DEF OnlyOne, Active
<1>3. \A u \in Threads : (CloudRead(u) /\ Meant(u) /\ Between(u) /\ OnlyFaulted(u))'
  BY <1>1 DEF FollowInv, CloudRead, Meant, Between, OnlyFaulted, Number, Fits
<1>4. ASSUME NEW n \in Numbers, promised'[n] # Unknown PROVE Kept(n)'
  <2>1. n # Standard[r.phone] /\ promised'[n] = promised[n]
    BY <1>4 DEF SetNumberMark, TypeOK
  <2> QED
    BY <1>1, <1>4, <2>1 DEF FollowInv, Kept, Number, Shown, UserMark
<1> QED
  BY <1>2, <1>3, <1>4 DEF FollowInv, Kept

LEMMA FollowCommit ==
  ASSUME FollowInv, TypeOK, NEW t \in Threads, pc[t] = "commit",
         user' = [user EXCEPT ![Number(t)] = new[t]], GoTo(t, "callLog"),
         UNCHANGED <<cloud, callLog, request, old, new, alone, promised, faulted>>
  PROVE  FollowInv'
<1>1. /\ pc'[t] = "callLog" /\ Number(t) \in Numbers
      /\ \A u \in Threads : u # t => pc'[u] = pc[u]
      /\ \A n \in Numbers : n # Number(t) => user'[n] = user[n]
      /\ user'[Number(t)] = new[t]
  BY NumberType DEF GoTo, TypeOK
<1>2. OnlyOne'
  BY <1>1 DEF FollowInv, OnlyOne
<1>3. \A u \in Threads : (CloudRead(u) /\ Meant(u) /\ OnlyFaulted(u))'
  BY <1>1 DEF FollowInv, CloudRead, Meant, OnlyFaulted, Number, Fits
<1>4. Between(t)'
  BY <1>1 DEF FollowInv, Meant, Between, Number, Fits
<1>5. \A u \in Threads : u # t => Between(u)'
  BY <1>1 DEF FollowInv, OnlyOne, Between
<1>6. ASSUME NEW n \in Numbers, promised[n] # Unknown PROVE Kept(n)'
  <2>1. Number(t) # n
    BY <1>6 DEF FollowInv, Kept
  <2>2. Shown(n)' = Shown(n)
    BY <1>1, <2>1 DEF Shown, UserMark
  <2>3. \A u \in Threads : pc[u] # "idle" => Number(u) # n
    BY <1>6 DEF FollowInv, Kept
  <2>4. \A u \in Threads : pc'[u] # "idle" => Number(u)' # n
    BY <1>1, <2>1, <2>3 DEF Number
  <2> QED
    BY <1>6, <2>2, <2>4 DEF FollowInv, Kept
<1> QED
  BY <1>2, <1>3, <1>4, <1>5, <1>6 DEF FollowInv, Kept

LEMMA FollowCallLog ==
  ASSUME FollowInv, TypeOK, NEW t \in Threads, pc[t] = "callLog", Done(t, TRUE),
         callLog' = [callLog EXCEPT ![request[t].phone] = CallLogMark(t)],
         UNCHANGED <<user, cloud, faulted>>
  PROVE  FollowInv'
<1>1. /\ pc'[t] = "idle" /\ alone'[t] = FALSE
      /\ \A u \in Threads : u # t => /\ pc'[u] = pc[u] /\ request'[u] = request[u] /\ old'[u] = old[u]
                                     /\ new'[u] = new[u] /\ alone'[u] = alone[u]
  BY DEF Done, GoTo, TypeOK
<1>2. OnlyOne'
  BY <1>1 DEF FollowInv, OnlyOne
<1>3. \A u \in Threads : (CloudRead(u) /\ Meant(u) /\ Between(u) /\ OnlyFaulted(u))'
  BY <1>1 DEF FollowInv, CloudRead, Meant, Between, OnlyFaulted, Number, Fits
<1>4. ASSUME NEW n \in Numbers, promised'[n] # Unknown PROVE Kept(n)'
  <2>1. CASE alone[t] /\ n = Number(t)
    <3>1. promised'[n] = request[t]
      BY <2>1 DEF Done, TypeOK
    <3>2. \A u \in Threads : pc'[u] = "idle"
      BY <1>1, <2>1 DEF FollowInv, OnlyOne
    <3>3. callLog'[request[t].phone] = CallLogMark(t)
      BY NumberType DEF TypeOK
    <3>4. ~faulted => CallLogMark(t) = Shown(n)
      BY <2>1 DEF FollowInv, CloudRead, Between, Fits, CallLogMark, Shown, UserMark
    <3>5. Shown(n)' = Shown(n)
      BY DEF Shown, UserMark
    <3> QED
      BY <2>1, <3>1, <3>2, <3>3, <3>4, <3>5, NumberType DEF Kept, Number
  <2>2. CASE ~(alone[t] /\ n = Number(t))
    <3>1. promised'[n] = promised[n]
      BY <2>2, NumberType DEF Done, TypeOK
    <3>2. promised[n].phone # request[t].phone /\ promised[n].phone \in Spellings
      BY <1>4, <3>1 DEF FollowInv, Kept, Number
    <3>3. callLog'[promised[n].phone] = callLog[promised[n].phone]
      BY <3>2 DEF TypeOK
    <3> QED
      BY <1>1, <1>4, <3>1, <3>3 DEF FollowInv, Kept, Number, Shown, UserMark
  <2> QED
    BY <2>1, <2>2
<1> QED
  BY <1>2, <1>3, <1>4 DEF FollowInv, Kept

LEMMA FollowNext ==
  ASSUME MarkInv, FollowInv, [Next]_vars
  PROVE  FollowInv'
<1>0. TypeOK /\ faulted \in BOOLEAN /\ pc \in [Threads -> {"idle", "begin", "query", "write", "commit",
                                                          "rollback", "callLog"}]
  BY DEF MarkInv, TypeOK
<1>1. ASSUME NEW t \in Threads, NEW r \in Request, SetNumberMark(t, r)
      PROVE  FollowInv'
  BY <1>0, <1>1, FollowCall
<1>2. ASSUME NEW t \in Threads, BeginTransaction(t)
      PROVE  FollowInv'
  <2>1. CASE Fault /\ Done(t, FALSE)
    BY <1>0, <1>2, <2>1, Failed DEF BeginTransaction, Fault, table
  <2>2. CASE GoTo(t, "query") /\ UNCHANGED <<request, old, new, history>>
    <3>1. pc' = [pc EXCEPT ![t] = "query"] /\ pc'[t] = "query"
      BY <1>0, <2>2 DEF GoTo
    <3>2. (CloudRead(t) /\ Meant(t) /\ Between(t) /\ OnlyFaulted(t))'
      BY <3>1 DEF CloudRead, Meant, Between, OnlyFaulted
    <3> QED
      BY <1>0, <1>2, <2>2, <3>1, <3>2, Within DEF BeginTransaction, history, table
  <2> QED
    BY <1>2, <2>1, <2>2 DEF BeginTransaction
<1>3. ASSUME NEW t \in Threads, QueryLocalNumberMark(t)
      PROVE  FollowInv'
  <2>1. pc' = [pc EXCEPT ![t] = "write"] /\ pc'[t] = "write"
    BY <1>0, <1>3 DEF QueryLocalNumberMark, GoTo
  <2>2. old'[t].cloud = cloud[Number(t)] /\ \A u \in Threads : u # t => old'[u] = old[u]
    BY <1>0, <1>3 DEF QueryLocalNumberMark, TypeOK
  <2>3. (CloudRead(t) /\ Meant(t) /\ Between(t) /\ OnlyFaulted(t))'
    BY <1>3, <2>1, <2>2 DEF QueryLocalNumberMark, table, CloudRead, Meant, Between, OnlyFaulted, Number
  <2> QED
    BY <1>0, <1>3, <2>1, <2>2, <2>3, Within DEF QueryLocalNumberMark, table, history
<1>4. ASSUME NEW t \in Threads, SetLocalNumberMark(t)
      PROVE  FollowInv'
  <2>1. pc' = [pc EXCEPT ![t] = "commit"] /\ pc'[t] = "commit"
    BY <1>0, <1>4 DEF SetLocalNumberMark, GoTo
  <2>2. new'[t] = Written(t) /\ \A u \in Threads : u # t => new'[u] = new[u]
    BY <1>0, <1>4 DEF SetLocalNumberMark, TypeOK
  <2>3. Fits(Written(t), t)
    BY <1>0, <1>4, WrittenFits DEF MarkInv, SetLocalNumberMark
  <2>4. Meant(t)'
    BY <1>4, <2>2, <2>3 DEF SetLocalNumberMark, Meant, Fits
  <2>5. (CloudRead(t) /\ Between(t) /\ OnlyFaulted(t))'
    BY <1>4, <2>1 DEF SetLocalNumberMark, table, history, FollowInv, CloudRead, Between, OnlyFaulted, Number
  <2> QED
    BY <1>0, <1>4, <2>1, <2>2, <2>4, <2>5, Within DEF SetLocalNumberMark, table, history
<1>5. ASSUME NEW t \in Threads, BodyFails(t)
      PROVE  FollowInv'
  <2>1. pc' = [pc EXCEPT ![t] = "rollback"] /\ pc'[t] = "rollback" /\ faulted'
    BY <1>0, <1>5 DEF BodyFails, GoTo, Fault
  <2>2. (CloudRead(t) /\ Meant(t) /\ Between(t) /\ OnlyFaulted(t))'
    BY <2>1 DEF CloudRead, Meant, Between, OnlyFaulted
  <2> QED
    BY <1>0, <1>5, <2>1, <2>2, Within DEF BodyFails, table
<1>6. ASSUME NEW t \in Threads, Commit(t)
      PROVE  FollowInv'
  <2>1. CASE Fault /\ Done(t, FALSE) /\ UNCHANGED user
    BY <1>0, <1>6, <2>1, Failed DEF Commit, Fault
  <2>2. CASE user' = [user EXCEPT ![Number(t)] = new[t]] /\ GoTo(t, "callLog") /\ UNCHANGED <<request, old, new, history>>
    BY <1>0, <1>6, <2>2, FollowCommit DEF Commit, history
  <2> QED
    BY <1>6, <2>1, <2>2 DEF Commit
<1>7. ASSUME NEW t \in Threads, RollBack(t)
      PROVE  FollowInv'
  <2>1. CASE Fault /\ Done(t, FALSE)
    BY <1>0, <1>7, <2>1, Failed DEF RollBack, Fault, table
  <2>2. CASE GoTo(t, "callLog") /\ UNCHANGED <<request, old, new, history>>
    <3>1. pc' = [pc EXCEPT ![t] = "callLog"] /\ pc'[t] = "callLog"
      BY <1>0, <2>2 DEF GoTo
    <3>2. faulted /\ faulted'
      BY <1>7, <2>2 DEF RollBack, FollowInv, OnlyFaulted, history
    <3>3. (CloudRead(t) /\ Meant(t) /\ Between(t) /\ OnlyFaulted(t))'
      BY <3>1, <3>2 DEF CloudRead, Meant, Between, OnlyFaulted
    <3> QED
      BY <1>0, <1>7, <2>2, <3>1, <3>2, <3>3, Within DEF RollBack, history, table
  <2> QED
    BY <1>7, <2>1, <2>2 DEF RollBack
<1>8. ASSUME NEW t \in Threads, UpdateCallLog(t)
      PROVE  FollowInv'
  <2>1. CASE Done(t, TRUE) /\ callLog' = [callLog EXCEPT ![request[t].phone] = CallLogMark(t)] /\ UNCHANGED faulted
    BY <1>0, <1>8, <2>1, FollowCallLog DEF UpdateCallLog, table
  <2>2. CASE \E success \in BOOLEAN : Fault /\ Done(t, success) /\ UNCHANGED callLog
    BY <1>0, <1>8, <2>2, Failed DEF UpdateCallLog, Fault, table
  <2> QED
    BY <1>8, <2>1, <2>2 DEF UpdateCallLog
<1>9. CASE UNCHANGED vars
  BY <1>9 DEF vars, FollowInv, OnlyOne, CloudRead, Meant, Between, OnlyFaulted, Kept, Number, Fits, Shown, UserMark
<1> QED
  BY <1>1, <1>2, <1>3, <1>4, <1>5, <1>6, <1>7, <1>8, <1>9 DEF Next

\* For any threads, spellings and numbers: when SetNumberMark has run without overlap and
\* nothing has failed, UpdateCallLog has left in the call log what QueryByPhoneNumber finds,
\* until the next mark is set for the number.
THEOREM CallLogFollows == Spec => []CallLogFollowsMark
<1>1. FollowInv => CallLogFollowsMark
  BY DEF FollowInv, Kept, Shown, CallLogFollowsMark
<1> QED
  BY <1>1, MarkInit, MarkNext, TypeCorrect, FollowInit, FollowNext, PTL DEF Spec
=============================================================================
