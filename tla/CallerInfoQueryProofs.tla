----------------------- MODULE CallerInfoQueryProofs -----------------------
(***************************************************************************)
(* Proofs about CallerInfoQuery, for any number of queries: the type       *)
(* invariant, what "query success" means although the result is read       *)
(* without the mutex, and that an answer to a waiting query is reported.   *)
(***************************************************************************)
EXTENDS CallerInfoQuery, TLAPS

\* The query is past its wait, and its message has been set, and copied.
Decided == {"read", "known", "message", "info", "done"}
MessageSet == {"message", "info", "done"}
Copied == {"info", "done"}

\* The code says "query success" only when everything has been read, and whoever says it
\* after that has it from the code.
Honest(q) ==
    /\ stage[q] = "none" => pc[q] \in {"new", "done", "dead"}
    /\ pc[q] = "new" => stage[q] = "none"
    /\ stage[q] = "whole" => info[q] = "whole"
    /\ stage[q] = "resolved" => code[q] = "query success"
    /\ code[q] = "query success" => info[q] = "whole" /\ stage[q] \in {"resolved", "over"}
    /\ retSuccess[q] => code[q] = "query success" /\ stage[q] = "over"
    /\ msg[q] = "query success" => code[q] = "query success"
    /\ replyMsg[q] = "query success" => code[q] = "query success" /\ pc[q] \in Copied \cup {"dead"}
    /\ pc[q] = "done" /\ replyMsg[q] = "query success" => replyInfo[q] = "whole"

\* What the caller is told once the wait is over.
Verdict(q) ==
    stage[q] # "none" /\ ret[q] = RESULT_SUCCESS =>
        /\ pc[q] \in Decided => retSuccess[q]
        /\ pc[q] \in MessageSet => msg[q] = "query success"
        /\ pc[q] \in Copied => replyMsg[q] = "query success"

\* Who has been told is past its wait, and there is no second answer.
Told(q) ==
    /\ told[q] # "nothing" =>
           stage[q] = "over" /\ pc[q] \in {"woken", "timedOut", "dead"} \cup Decided
    /\ told[q] # "nothing" => retSuccess[q] = (told[q] = "resolved")
    /\ pc[q] = "timedOut" => expired[q]
    /\ told[q] = "resolved" /\ pc[q] \in Decided => ret[q] = RESULT_SUCCESS \/ expired[q]

QueryInv == \A q \in Queries : Honest(q) /\ Verdict(q) /\ Told(q)

-----------------------------------------------------------------------------
LEMMA Results == RESULT_SUCCESS # RESULT_FAIL
  BY DEF RESULT_SUCCESS, RESULT_FAIL

\* What ParseResolveNapiData may write.
LEMMA ParsedType ==
  ASSUME code \in [Queries -> Codes], info \in [Queries -> Infos],
         NEW q \in Queries, ParseName(q) \/ ParseRest(q) \/ ParseDone(q)
  PROVE  code' \in [Queries -> Codes] /\ info' \in [Queries -> Infos]
<1>1. "resolve parse err" \in Codes /\ "query success" \in Codes
  BY DEF Codes, ErrMsgMap
<1>2. "name" \in Infos /\ "whole" \in Infos
  BY DEF Infos
<1>3. \/ code' = code \/ code' = [code EXCEPT ![q] = "resolve parse err"]
      \/ code' = [code EXCEPT ![q] = "query success"]
  BY DEF ParseName, ParseRest, ParseDone
<1>4. \/ info' = info \/ info' = [info EXCEPT ![q] = "name"]
      \/ info' = [info EXCEPT ![q] = "whole"]
  BY DEF ParseName, ParseRest, ParseDone
<1> QED
  BY <1>1, <1>2, <1>3, <1>4

LEMMA TypeInit == Init => TypeOK
<1> SUFFICES ASSUME Init PROVE TypeOK
  OBVIOUS
<1>1. "time out" \in Codes /\ "none" \in Infos /\ "" \in {""} \cup Codes
  BY DEF Codes, ErrMsgMap, Infos
<1>2. /\ code \in [Queries -> Codes] /\ info \in [Queries -> Infos]
      /\ msg \in [Queries -> {""} \cup Codes] /\ replyMsg \in [Queries -> {""} \cup Codes]
      /\ replyInfo \in [Queries -> Infos]
  BY <1>1 DEF Init
<1>3. /\ stage = [q \in Queries |-> "none"] /\ pc = [q \in Queries |-> "new"]
      /\ told = [q \in Queries |-> "nothing"] /\ expired = [q \in Queries |-> FALSE]
      /\ extension \in BOOLEAN /\ js = None
      /\ retSuccess = [q \in Queries |-> FALSE]
      /\ ret = [q \in Queries |-> RESULT_SUCCESS]
  BY DEF Init
<1> QED
  BY <1>2, <1>3 DEF TypeOK

LEMMA TypeStep == TypeOK /\ [Next]_vars => TypeOK'
<1> SUFFICES ASSUME TypeOK, [Next]_vars PROVE TypeOK'
  OBVIOUS
<1> USE DEF TypeOK, data, reply, history, GoTo
<1>1. ASSUME NEW q \in Queries,
             PostTask(q) \/ ExtensionGone(q) \/ SpuriousWakeup(q) \/ Await(q) \/ WaitTimeout(q)
      PROVE  TypeOK'
  BY <1>1 DEF PostTask, ExtensionGone, SpuriousWakeup, Await, WaitTimeout
<1>2. ASSUME NEW q \in Queries, AwaitReturns(q)
      PROVE  TypeOK'
  BY <1>2 DEF AwaitReturns
<1>3. ASSUME NEW q \in Queries, CountCode(q) \/ AtCode(q) \/ AtThrows(q)
      PROVE  TypeOK'
  <2>1. CASE CountCode(q)
    BY <2>1 DEF CountCode
  <2>2. CASE AtCode(q)
    BY <2>2 DEF AtCode, Codes
  <2>3. CASE AtThrows(q)
    BY <2>3 DEF AtThrows
  <2> QED
    BY <1>3, <2>1, <2>2, <2>3
<1>4. ASSUME NEW q \in Queries, CopyMessage(q) \/ CopyInfo(q)
      PROVE  TypeOK'
  BY <1>4 DEF CopyMessage, CopyInfo
<1>5. ASSUME NEW q \in Queries, RunTask(q) \/ Settle(q) \/ LockData(q)
      PROVE  TypeOK'
  <2>1. CASE RunTask(q) \/ Settle(q)
    <3>1. PICK next \in {"promise", "over", "resolve", "reject"} :
            stage' = [stage EXCEPT ![q] = next]
      BY <2>1 DEF RunTask, CallObjectMethod, RegisterCallbacks, Settle
    <3>2. stage' \in [Queries -> {"none", "posted", "promise", "resolve", "reject", "over"} \cup Parsing]
      BY <3>1
    <3>3. js' \in Queries \cup {None}
      BY <2>1 DEF RunTask, Settle
    <3>4. UNCHANGED <<extension, pc, retSuccess, code, info, msg, ret, replyMsg, replyInfo, told, expired>>
      BY <2>1 DEF RunTask, Settle
    <3> QED
      BY <3>2, <3>3, <3>4
  <2>3. CASE LockData(q)
    BY <2>3 DEF LockData, Parsing
  <2> QED
    BY <1>5, <2>1, <2>3
<1>6. ASSUME NEW q \in Queries,
             ParseName(q) \/ ParseRest(q) \/ ParseDone(q) \/ ParseReject(q) \/ ParseMessage(q)
      PROVE  TypeOK'
  <2>2. {"external", "query fail"} \subseteq Codes
    BY DEF Codes, ErrMsgMap
  <2>3. CASE ParseName(q)
    <3>1. code' \in [Queries -> Codes] /\ info' \in [Queries -> Infos]
      BY <2>3, ParsedType
    <3> QED
      BY <2>3, <3>1 DEF ParseName, Parsing
  <2>4. CASE ParseRest(q) \/ ParseDone(q)
    <3>1. code' \in [Queries -> Codes] /\ info' \in [Queries -> Infos]
      BY <2>4, ParsedType
    <3> QED
      BY <2>4, <3>1 DEF ParseRest, ParseDone, Parsing
  <2>5. CASE ParseReject(q)
    BY <2>2, <2>5 DEF ParseReject, Parsing
  <2>6. CASE ParseMessage(q)
    <3>1. code' = code \/ code' = [code EXCEPT ![q] = "query fail"]
      BY <2>6 DEF ParseMessage
    <3>2. msg' = msg \/ msg' = [msg EXCEPT ![q] = "external"]
      BY <2>6 DEF ParseMessage
    <3>3. code' \in [Queries -> Codes]
      BY <2>2, <3>1, Zenon
    <3>4. msg' \in [Queries -> {""} \cup Codes]
      BY <2>2, <3>2, Zenon
    <3> QED
      BY <2>6, <3>3, <3>4 DEF ParseMessage, Parsing
  <2> QED
    BY <1>6, <2>3, <2>4, <2>5, <2>6
<1>7. ASSUME NEW q \in Queries, Notify(q)
      PROVE  TypeOK'
  <2>1. retSuccess' \in [Queries -> BOOLEAN]
    BY <1>7 DEF Notify
  <2>2. told' \in [Queries -> {"nothing", "resolved", "unresolved", "rejected"}]
    BY <1>7 DEF Notify
  <2> QED
    BY <1>7, <2>1, <2>2 DEF Notify
<1>8. CASE ExtensionEnds
  BY <1>8 DEF ExtensionEnds
<1>9. CASE UNCHANGED vars
  BY <1>9 DEF vars
<1> QED
  BY <1>1, <1>2, <1>3, <1>4, <1>5, <1>6, <1>7, <1>8, <1>9 DEF Next, OnQueryCallerInfo,
     HandlePromise

\* The state of both threads, and the data they share without a lock, keep their types.
THEOREM TypeCorrect == Spec => []TypeOK
  BY TypeInit, TypeStep, PTL DEF Spec

-----------------------------------------------------------------------------
(* What "query success" means. *)

LEMMA QueryInit == Init => QueryInv
<1> SUFFICES ASSUME Init, NEW q \in Queries
             PROVE  Honest(q) /\ Verdict(q) /\ Told(q)
  BY DEF QueryInv
<1>1. /\ pc[q] = "new" /\ stage[q] = "none" /\ ~retSuccess[q] /\ code[q] = "time out"
      /\ msg[q] = "" /\ replyMsg[q] = "" /\ told[q] = "nothing" /\ ~expired[q]
  BY DEF Init
<1> QED
  BY <1>1 DEF Honest, Verdict, Told

\* What happens for other queries does not touch this one.
LEMMA Untouched ==
  ASSUME NEW q \in Queries, Honest(q) /\ Verdict(q) /\ Told(q),
         pc'[q] = pc[q], stage'[q] = stage[q], retSuccess'[q] = retSuccess[q],
         code'[q] = code[q], info'[q] = info[q], msg'[q] = msg[q], ret'[q] = ret[q],
         replyMsg'[q] = replyMsg[q], replyInfo'[q] = replyInfo[q],
         told'[q] = told[q], expired'[q] = expired[q]
  PROVE  (Honest(q) /\ Verdict(q) /\ Told(q))'
  BY DEF Honest, Verdict, Told

LEMMA QueryStep == TypeOK /\ QueryInv /\ [Next]_vars => QueryInv'
<1> SUFFICES ASSUME TypeOK, QueryInv, [Next]_vars, NEW q \in Queries
             PROVE  (Honest(q) /\ Verdict(q) /\ Told(q))'
  BY DEF QueryInv
<1>0. Honest(q) /\ Verdict(q) /\ Told(q)
  BY DEF QueryInv
<1> USE DEF TypeOK, GoTo, data, reply, history
<1>1. ASSUME NEW p \in Queries, p # q,
             \/ PostTask(p) \/ ExtensionGone(p) \/ SpuriousWakeup(p) \/ RunTask(p)
             \/ OnQueryCallerInfo(p) /\ ~AtThrows(p)
             \/ Settle(p) \/ HandlePromise(p)
      PROVE  (Honest(q) /\ Verdict(q) /\ Told(q))'
  <2>1. CASE PostTask(p) \/ ExtensionGone(p) \/ SpuriousWakeup(p)
    BY <1>0, <1>1, <2>1, Untouched DEF PostTask, ExtensionGone, SpuriousWakeup
  <2>2. CASE OnQueryCallerInfo(p) /\ ~AtThrows(p)
    <3>1. CASE Await(p) \/ WaitTimeout(p) \/ AwaitReturns(p)
      BY <1>0, <1>1, <3>1, Untouched DEF Await, WaitTimeout, AwaitReturns
    <3>2. CASE CountCode(p) \/ AtCode(p)
      BY <1>0, <1>1, <3>2, Untouched DEF CountCode, AtCode
    <3>3. CASE CopyMessage(p) \/ CopyInfo(p)
      BY <1>0, <1>1, <3>3, Untouched DEF CopyMessage, CopyInfo
    <3> QED
      BY <2>2, <3>1, <3>2, <3>3 DEF OnQueryCallerInfo
  <2>3. CASE RunTask(p) \/ Settle(p)
    BY <1>0, <1>1, <2>3, Untouched DEF RunTask, CallObjectMethod, RegisterCallbacks, Settle
  <2>4. CASE HandlePromise(p)
    <3>1. CASE LockData(p) \/ ParseName(p) \/ ParseRest(p)
      BY <1>0, <1>1, <3>1, Untouched DEF LockData, ParseName, ParseRest
    <3>2. CASE ParseDone(p) \/ ParseReject(p) \/ ParseMessage(p)
      BY <1>0, <1>1, <3>2, Untouched DEF ParseDone, ParseReject, ParseMessage
    <3>3. CASE Notify(p)
      BY <1>0, <1>1, <3>3, Untouched DEF Notify
    <3> QED
      BY <2>4, <3>1, <3>2, <3>3 DEF HandlePromise
  <2> QED
    BY <1>1, <2>1, <2>2, <2>3, <2>4
<1>2. CASE PostTask(q) \/ ExtensionGone(q) \/ SpuriousWakeup(q) \/ Await(q) \/ WaitTimeout(q)
  <2>1. Honest(q)'
    BY <1>0, <1>2 DEF PostTask, ExtensionGone, SpuriousWakeup, Await, WaitTimeout, Honest, Copied
  <2>2. Verdict(q)'
    BY <1>0, <1>2 DEF PostTask, ExtensionGone, SpuriousWakeup, Await, WaitTimeout, Honest,
       Verdict, Decided, MessageSet, Copied
  <2>3. Told(q)'
    BY <1>0, <1>2 DEF PostTask, ExtensionGone, SpuriousWakeup, Await, WaitTimeout, Honest, Told,
       Decided
  <2> QED
    BY <2>1, <2>2, <2>3
<1>3. CASE AwaitReturns(q)
  <2>1. /\ pc[q] \in {"timedOut", "woken"} /\ pc'[q] = "read"
        /\ pc[q] = "timedOut" => ret'[q] = RESULT_FAIL
        /\ pc[q] = "woken" => ret'[q] = IF retSuccess[q] THEN RESULT_SUCCESS ELSE RESULT_FAIL
        /\ UNCHANGED <<stage, retSuccess, code, info, msg, replyMsg, replyInfo, history>>
    BY <1>3 DEF AwaitReturns
  <2>2. Honest(q)'
    BY <1>0, <2>1 DEF Honest, Copied
  <2>3. Verdict(q)'
    <3>1. ret'[q] = RESULT_SUCCESS => pc[q] = "woken"
      BY <2>1, Results
    <3>2. pc[q] = "woken" /\ ~retSuccess[q] => ret'[q] = RESULT_FAIL
      BY <2>1
    <3> QED
      BY <2>1, <3>1, <3>2, Results DEF Verdict, MessageSet, Copied
  <2>4. Told(q)'
    BY <1>0, <2>1 DEF Told, Decided
  <2> QED
    BY <2>2, <2>3, <2>4
<1>4. CASE CountCode(q) \/ AtCode(q)
  <2>1. Honest(q)'
    BY <1>0, <1>4 DEF CountCode, AtCode, Honest, Copied, ErrMsgMap
  <2>2. Verdict(q)'
    BY <1>0, <1>4 DEF CountCode, AtCode, Honest, Verdict, Decided, MessageSet, Copied,
       ErrMsgMap
  <2>3. Told(q)'
    BY <1>0, <1>4 DEF CountCode, AtCode, Honest, Told, Decided, ErrMsgMap
  <2> QED
    BY <2>1, <2>2, <2>3
<1>5. CASE CopyMessage(q) \/ CopyInfo(q)
  <2>1. Honest(q)'
    BY <1>0, <1>5 DEF CopyMessage, CopyInfo, Honest, Copied
  <2>2. Verdict(q)'
    BY <1>0, <1>5 DEF CopyMessage, CopyInfo, Honest, Verdict, Decided, MessageSet, Copied
  <2>3. Told(q)'
    BY <1>0, <1>5 DEF CopyMessage, CopyInfo, Honest, Told, Decided
  <2> QED
    BY <2>1, <2>2, <2>3
<1>6. CASE RunTask(q) \/ Settle(q) \/ LockData(q)
  <2>1. Honest(q)'
    BY <1>0, <1>6 DEF RunTask, CallObjectMethod, RegisterCallbacks, Settle, LockData, Honest,
       Copied
  <2>2. Verdict(q)'
    BY <1>0, <1>6 DEF RunTask, CallObjectMethod, RegisterCallbacks, Settle, LockData, Honest,
       Verdict, Decided, MessageSet, Copied
  <2>3. Told(q)'
    BY <1>0, <1>6 DEF RunTask, CallObjectMethod, RegisterCallbacks, Settle, LockData, Honest,
       Told, Decided
  <2> QED
    BY <2>1, <2>2, <2>3
<1>7. CASE ParseName(q) \/ ParseRest(q) \/ ParseDone(q)
  <2>1. Honest(q)'
    BY <1>0, <1>7 DEF ParseName, ParseRest, ParseDone, Honest, Copied
  <2>2. Verdict(q)'
    BY <1>0, <1>7 DEF ParseName, ParseRest, ParseDone, Honest, Verdict, Decided, MessageSet,
       Copied
  <2>3. Told(q)'
    BY <1>0, <1>7 DEF ParseName, ParseRest, ParseDone, Honest, Told, Decided
  <2> QED
    BY <2>1, <2>2, <2>3
<1>8. CASE ParseReject(q) \/ ParseMessage(q)
  <2>1. Honest(q)'
    BY <1>0, <1>8 DEF ParseReject, ParseMessage, Honest, Copied
  <2>2. Verdict(q)'
    BY <1>0, <1>8 DEF ParseReject, ParseMessage, Honest, Verdict, Decided, MessageSet, Copied
  <2>3. Told(q)'
    BY <1>0, <1>8 DEF ParseReject, ParseMessage, Honest, Told, Decided
  <2> QED
    BY <2>1, <2>2, <2>3
<1>9. CASE Notify(q)
  <2>1. /\ stage[q] \in {"resolved", "unresolved", "rejected"} /\ stage'[q] = "over"
        /\ retSuccess'[q] = (stage[q] = "resolved") /\ ~retSuccess[q]
        /\ UNCHANGED <<code, info, msg, ret, reply, expired>>
    BY <1>0, <1>9 DEF Notify, Honest
  <2>2. \/ pc[q] = "waiting" /\ pc'[q] = "woken" /\ told'[q] = stage[q]
        \/ pc[q] # "waiting" /\ pc'[q] = pc[q] /\ told'[q] = told[q]
    BY <1>9 DEF Notify
  <2>3. told[q] = "nothing"
    BY <1>0, <2>1 DEF Told
  <2>4. Honest(q)'
    BY <1>0, <2>1, <2>2 DEF Honest, Copied
  <2>5. Verdict(q)'
    BY <1>0, <2>1, <2>2 DEF Verdict, Decided, MessageSet, Copied
  <2>6. Told(q)'
    BY <1>0, <2>1, <2>2, <2>3 DEF Told, Decided
  <2> QED
    BY <2>4, <2>5, <2>6
<1>10. CASE ExtensionEnds
  BY <1>0, <1>10 DEF ExtensionEnds, Honest, Verdict, Told, Decided, MessageSet, Copied
<1>11. CASE UNCHANGED vars
  BY <1>0, <1>11, Untouched DEF vars
<1>12. ASSUME NEW p \in Queries, AtThrows(p)
       PROVE  (Honest(q) /\ Verdict(q) /\ Told(q))'
  <2>1. /\ pc'[q] = pc[q] \/ pc'[q] = "dead"
        /\ pc[q] = "done" => pc'[q] = "done"
        /\ stage[q] = "none" <=> stage'[q] = "none"
        /\ stage'[q] \in {"none", "over"}
        /\ pc'[q] \in {"done", "dead"}
        /\ UNCHANGED <<retSuccess, code, info, msg, ret, replyMsg, replyInfo, history>>
    BY <1>12 DEF AtThrows
  <2>2. Honest(q)'
    BY <1>0, <2>1 DEF Honest, Copied
  <2>3. Verdict(q)'
    BY <1>0, <2>1 DEF Verdict, Decided, MessageSet, Copied
  <2>4. Told(q)'
    BY <1>0, <2>1 DEF Told, Decided
  <2> QED
    BY <2>2, <2>3, <2>4
<1> QED
  BY <1>1, <1>2, <1>3, <1>4, <1>5, <1>6, <1>7, <1>8, <1>9, <1>10, <1>11, <1>12
     DEF Next, OnQueryCallerInfo, HandlePromise

LEMMA QueryAlways == Spec => []QueryInv
  BY QueryInit, QueryStep, TypeCorrect, PTL DEF Spec

\* Whatever the order of the JS thread's writes and the query's reads, who reads "query
\* success" has the whole answer, and a query that succeeds reads it.
THEOREM SuccessWhole == Spec => []SuccessIsWhole
<1>1. QueryInv => SuccessIsWhole
  BY DEF QueryInv, Honest, Verdict, SuccessIsWhole, Queried, Copied
<1> QED
  BY <1>1, QueryAlways, PTL

\* An answer that ends the wait of a query decides its result, unless the time of the wait
\* has passed when the query has the mutex again.
THEOREM InTimeReported == Spec => []InTimeIsReported
<1>1. TypeOK /\ QueryInv => InTimeIsReported
  <2> SUFFICES ASSUME TypeOK, QueryInv, NEW q \in Queries, Queried(q)
               PROVE  /\ told[q] = "resolved" => ret[q] = RESULT_SUCCESS \/ expired[q]
                      /\ told[q] \in {"unresolved", "rejected"} => ret[q] = RESULT_FAIL
    BY DEF InTimeIsReported
  <2>1. Verdict(q) /\ Told(q)
    BY DEF QueryInv
  <2> QED
    BY <2>1 DEF Verdict, Told, Queried, Decided, TypeOK
<1> QED
  BY <1>1, TypeCorrect, QueryAlways, PTL
=============================================================================
