----------------------------- MODULE NumberMark -----------------------------
(***************************************************************************)
(* Marking a number: NumberMarkAbility::SetNumberMark and what it calls,   *)
(* for several IPC threads.  A mark is written to the table number_mark in *)
(* a transaction, and then, outside of it, to the rows of the call log     *)
(* that have the number.  The type "none" deletes the mark of the user,    *)
(* and the call log gets back the cloud mark it had before.                *)
(*                                                                         *)
(* A number can be spelled in several ways.  The table has the standard    *)
(* form, the call log the spelling of each call.  Arguments that           *)
(* ParseNumberMark refuses change nothing and are left out, and so is the  *)
(* network refresh at the end, after which nothing is reported.            *)
(***************************************************************************)
EXTENDS Integers, Sequences, FiniteSets

CONSTANTS
    Threads,    \* IPC threads
    Spellings,  \* the ways of writing numbers
    Numbers,    \* the standard forms
    Standard,   \* TransformNumberMarkNumber, a function
    Types,      \* types of valid marks
    Faults      \* may the database and the call log fail

None == "none"    \* MARK_TYPE_NONE

ASSUME MarkAssumption ==
    /\ Spellings # {} /\ Standard \in [Spellings -> Numbers]
    /\ None \notin Types
    /\ Faults \in BOOLEAN

VARIABLES
    user,       \* user[n]: types of the rows of n with IS_CLOUD 0 (committed)
    cloud,      \* cloud[n]: type of the row of n with IS_CLOUD 1, or None
    holder,     \* the threads that are in a transaction
    callLog,    \* callLog[p]: the mark on the calls of spelling p
    pc,         \* where each thread is in SetNumberMark
    request,    \* request[t]: rawMark, its spelling and type
    old,        \* old[t]: hasUserMark and the old cloud mark, found by its query
    new,        \* new[t]: the user rows its transaction leaves
    alone,      \* history: no other SetNumberMark has run during that of t
    promised,   \* history: the last mark set for n without overlap, by spelling and type
    faulted     \* history: has anything failed

vars == <<user, cloud, holder, callLog, pc, request, old, new, alone, promised, faulted>>
history == <<alone, promised, faulted>>
table == <<user, cloud>>

Mark == [type : Types \cup {None}, isCloud : BOOLEAN]
Request == [phone : Spellings, type : Types \cup {None}]
Unknown == [phone |-> CHOOSE p \in Spellings : TRUE, type |-> "unknown"]

TypeOK ==
    /\ user \in [Numbers -> Seq(Types)]
    /\ cloud \in [Numbers -> Types \cup {None}]
    /\ holder \subseteq Threads
    /\ callLog \in [Spellings -> Mark]
    /\ pc \in [Threads -> {"idle", "begin", "query", "write", "commit", "rollback", "callLog"}]
    /\ request \in [Threads -> Request]
    /\ old \in [Threads -> [hasUserMark : BOOLEAN, cloud : Types \cup {None}]]
    /\ new \in [Threads -> Seq(Types)]
    /\ alone \in [Threads -> BOOLEAN]
    /\ promised \in [Numbers -> Request \cup {Unknown}]
    /\ faulted \in BOOLEAN

\* Marks of the cloud may be in the table already; the call log shows them.
Init ==
    /\ user = [n \in Numbers |-> << >>]
    /\ cloud \in [Numbers -> Types \cup {None}]
    /\ holder = {}
    /\ callLog = [p \in Spellings |-> [type |-> cloud[Standard[p]],
                                       isCloud |-> cloud[Standard[p]] # None]]
    /\ pc = [t \in Threads |-> "idle"]
    /\ request = [t \in Threads |-> [phone |-> CHOOSE p \in Spellings : TRUE, type |-> None]]
    /\ old = [t \in Threads |-> [hasUserMark |-> FALSE, cloud |-> None]]
    /\ new = [t \in Threads |-> << >>]
    /\ alone = [t \in Threads |-> FALSE]
    /\ promised = [n \in Numbers |-> Unknown]
    /\ faulted = FALSE

-----------------------------------------------------------------------------
Number(t) == Standard[request[t].phone]
Active == {t \in Threads : pc[t] # "idle"}
GoTo(t, label) == pc' = [pc EXCEPT ![t] = label]
Fault == Faults /\ faulted' = TRUE

\* A new call.  It makes the outcome of calls that it overlaps uncertain.
SetNumberMark(t, r) ==
    /\ pc[t] = "idle"
    /\ GoTo(t, "begin")
    /\ request' = [request EXCEPT ![t] = r]
    /\ alone' = [u \in Threads |-> u = t /\ Active = {}]
    /\ promised' = [promised EXCEPT ![Standard[r.phone]] = Unknown]
    /\ UNCHANGED <<table, holder, callLog, old, new, faulted>>

\* SetNumberMark returns.
Done(t, success) ==
    /\ GoTo(t, "idle")
    /\ request' = [request EXCEPT ![t] = [phone |-> CHOOSE p \in Spellings : TRUE, type |-> None]]
    /\ old' = [old EXCEPT ![t] = [hasUserMark |-> FALSE, cloud |-> None]]
    /\ new' = [new EXCEPT ![t] = << >>]
    /\ alone' = [alone EXCEPT ![t] = FALSE]
    /\ promised' = IF success /\ alone[t] THEN [promised EXCEPT ![Number(t)] = request[t]]
                                          ELSE promised

(* RunInTransaction *)

\* Mutant: no transaction.
BeginUnlocked(t) ==
    /\ pc[t] = "begin"
    /\ holder' = holder \cup {t}
    /\ GoTo(t, "query")
    /\ UNCHANGED <<table, callLog, request, old, new, history>>

\* The store lets one transaction run at a time.
BeginTransaction(t) ==
    /\ pc[t] = "begin"
    /\ \/ /\ holder = {}
          /\ holder' = {t}
          /\ GoTo(t, "query")
          /\ UNCHANGED <<request, old, new, history>>
       \/ Fault /\ Done(t, FALSE) /\ UNCHANGED holder
    /\ UNCHANGED <<table, callLog>>

\* SetLocalNumberMark fails: the transaction is rolled back.
BodyFails(t) ==
    /\ pc[t] \in {"query", "write"}
    /\ Fault
    /\ GoTo(t, "rollback")
    /\ UNCHANGED <<table, holder, callLog, request, old, new, alone, promised>>

QueryLocalNumberMark(t) ==
    /\ pc[t] = "query"
    /\ old' = [old EXCEPT ![t] = [hasUserMark |-> user[Number(t)] # << >>,
                                    cloud |-> cloud[Number(t)]]]
    /\ GoTo(t, "write")
    /\ UNCHANGED <<table, holder, callLog, request, new, history>>

\* Mutant: "none" is stored like any type.
WrittenAlways(t) ==
    IF ~old[t].hasUserMark THEN Append(user[Number(t)], request[t].type)
    ELSE [i \in DOMAIN user[Number(t)] |-> request[t].type]

\* RawDelete, RawUpdate or RawInsert, by what was read.
Written(t) ==
    IF request[t].type = None THEN << >>
    ELSE IF ~old[t].hasUserMark THEN Append(user[Number(t)], request[t].type)
    ELSE [i \in DOMAIN user[Number(t)] |-> request[t].type]

SetLocalNumberMark(t) ==
    /\ pc[t] = "write"
    /\ new' = [new EXCEPT ![t] = Written(t)]
    /\ GoTo(t, "commit")
    /\ UNCHANGED <<table, holder, callLog, request, old, history>>

\* When the commit fails, nothing of the transaction is kept.
Commit(t) ==
    /\ pc[t] = "commit"
    /\ holder' = holder \ {t}
    /\ \/ /\ user' = [user EXCEPT ![Number(t)] = new[t]]
          /\ GoTo(t, "callLog")
          /\ UNCHANGED <<request, old, new, history>>
       \/ Fault /\ Done(t, FALSE) /\ UNCHANGED user
    /\ UNCHANGED <<cloud, callLog>>

\* The result of RunInTransaction is that of RollBack, success as a rule.
RollBack(t) ==
    /\ pc[t] = "rollback"
    /\ holder' = holder \ {t}
    /\ \/ GoTo(t, "callLog") /\ UNCHANGED <<request, old, new, history>>
       \/ Fault /\ Done(t, FALSE)
    /\ UNCHANGED <<table, callLog>>

(* After the transaction. *)

\* Mutant: the mark of the cloud is not restored.
CallLogMarkOnly(t) == [type |-> request[t].type, isCloud |-> FALSE]

CallLogMark(t) ==
    IF request[t].type = None
    THEN [type |-> old[t].cloud, isCloud |-> old[t].cloud # None]
    ELSE [type |-> request[t].type, isCloud |-> FALSE]

\* Without a helper it fails; how many rows the update changed is not looked at.
UpdateCallLog(t) ==
    /\ pc[t] = "callLog"
    /\ \/ /\ callLog' = [callLog EXCEPT ![request[t].phone] = CallLogMark(t)]
          /\ Done(t, TRUE)
          /\ UNCHANGED faulted
       \/ \E success \in BOOLEAN : Fault /\ Done(t, success) /\ UNCHANGED callLog
    /\ UNCHANGED <<table, holder>>

Next ==
    \E t \in Threads :
        \/ \E r \in Request : SetNumberMark(t, r)
        \/ BeginTransaction(t) \/ QueryLocalNumberMark(t) \/ SetLocalNumberMark(t)
        \/ BodyFails(t) \/ Commit(t) \/ RollBack(t) \/ UpdateCallLog(t)

Spec == Init /\ [][Next]_vars

-----------------------------------------------------------------------------
(* Properties. *)

\* The user's mark of a number, as QueryByPhoneNumber finds it on a yellow page miss.
UserMark(n) == IF user[n] = << >> THEN None ELSE Head(user[n])

\* A number has at most one mark of the user: two threads that both find none do not both
\* insert one.  (A later "none" would delete both, but a query shows the older one.)
OneUserMark == \A n \in Numbers : Len(user[n]) <= 1

\* After a SetNumberMark that nothing overlapped and in which nothing failed, the calls of
\* its spelling show what a query of the number finds, or else the mark of the cloud.
CallLogFollowsMark ==
    ~faulted => \A n \in Numbers : promised[n] # Unknown =>
        callLog[promised[n].phone] =
            IF user[n] # << >> THEN [type |-> UserMark(n), isCloud |-> FALSE]
                               ELSE [type |-> cloud[n], isCloud |-> cloud[n] # None]

\* "markType of MARK_TYPE_NONE means delete": after it succeeded, and before another call
\* for that number begins, the number has no mark of the user.
NoneMeansDelete ==
    \A n \in Numbers : promised[n] # Unknown /\ promised[n].type = None => user[n] = << >>
=============================================================================
