-------------------------- MODULE CallerInfoQuery --------------------------
(***************************************************************************)
(* The caller info query extension.  A query arrives on an IPC thread,     *)
(* posts a task that calls onQueryCallerInfo on the JS thread, and waits   *)
(* for the answer of its promise, for a given time and without a           *)
(* predicate.  Then it reads the result, without the mutex.                *)
(*                                                                         *)
(* A query is identified with its CallerInfoAsyncData.  Its mutex mtx_ is  *)
(* held between steps by the JS thread only, while stage[q] is in Parsing. *)
(* Accesses to the result that race are atomic here, one per field.        *)
(***************************************************************************)
EXTENDS Integers

CONSTANTS
    Queries,
    None

ASSUME QueryAssumption == None \notin Queries

VARIABLES
    extension,    \* is the extension still there; the stub has a weak pointer to it
    pc,           \* where the IPC thread of each query is
    js,           \* the query the JS thread works for, or None
    stage,        \* how far the JS side of each query is
    retSuccess, code, info, msg,   \* the CallerInfoAsyncData
    ret, replyMsg, replyInfo,     \* what the caller gets
    told,         \* history: the answer that ended the wait of q
    expired       \* history: had the time of q's wait passed when it had the mutex again

data == <<retSuccess, code, info, msg>>
reply == <<replyMsg, replyInfo>>
history == <<told, expired>>
vars == <<extension, pc, js, stage, data, ret, reply, history>>

RESULT_SUCCESS == 0
RESULT_FAIL == 1

\* The codes in ErrMsgMap, by their messages; ERR_EXTENAL is not among them.
ErrMsgMap == {"time out", "query success", "resolve parse err", "query fail"}
Codes == ErrMsgMap \cup {"external"}

\* What has been read of the answer: nothing, the name, or everything.
Infos == {"none", "name", "whole"}

Parsing == {"resolving", "named", "whole", "resolved", "unresolved", "rejecting", "failing",
            "rejected"}

TypeOK ==
    /\ extension \in BOOLEAN
    /\ pc \in [Queries -> {"new", "await", "waiting", "woken", "timedOut", "read",
                           "known", "message", "info", "done", "dead"}]
    /\ js \in Queries \cup {None}
    /\ stage \in [Queries -> {"none", "posted", "promise", "resolve", "reject", "over"}
                             \cup Parsing]
    /\ retSuccess \in [Queries -> BOOLEAN]
    /\ code \in [Queries -> Codes]
    /\ info \in [Queries -> Infos]
    /\ msg \in [Queries -> {""} \cup Codes]
    /\ ret \in [Queries -> {RESULT_SUCCESS, RESULT_FAIL}]
    /\ replyMsg \in [Queries -> {""} \cup Codes]
    /\ replyInfo \in [Queries -> Infos]
    /\ told \in [Queries -> {"nothing", "resolved", "unresolved", "rejected"}]
    /\ expired \in [Queries -> BOOLEAN]

\* Mutant: code_ has no initial value.
InitUnset ==
    /\ extension = TRUE
    /\ pc = [q \in Queries |-> "new"]
    /\ js = None
    /\ stage = [q \in Queries |-> "none"]
    /\ retSuccess = [q \in Queries |-> FALSE]
    /\ code = [q \in Queries |-> "unset"]
    /\ info = [q \in Queries |-> "none"]
    /\ msg = [q \in Queries |-> ""]
    /\ ret = [q \in Queries |-> RESULT_SUCCESS]
    /\ replyMsg = [q \in Queries |-> ""]
    /\ replyInfo = [q \in Queries |-> "none"]
    /\ told = [q \in Queries |-> "nothing"]
    /\ expired = [q \in Queries |-> FALSE]

Init ==
    /\ extension = TRUE
    /\ pc = [q \in Queries |-> "new"]
    /\ js = None
    /\ stage = [q \in Queries |-> "none"]
    /\ retSuccess = [q \in Queries |-> FALSE]
    /\ code = [q \in Queries |-> "time out"]
    /\ info = [q \in Queries |-> "none"]
    /\ msg = [q \in Queries |-> ""]
    /\ ret = [q \in Queries |-> RESULT_SUCCESS]
    /\ replyMsg = [q \in Queries |-> ""]
    /\ replyInfo = [q \in Queries |-> "none"]
    /\ told = [q \in Queries |-> "nothing"]
    /\ expired = [q \in Queries |-> FALSE]

Free(q) == stage[q] \notin Parsing
GoTo(q, label) == pc' = [pc EXCEPT ![q] = label]

-----------------------------------------------------------------------------
(* The IPC thread of a query. *)

PostTask(q) ==
    /\ pc[q] = "new" /\ extension
    /\ stage' = [stage EXCEPT ![q] = "posted"]
    /\ GoTo(q, "await")
    /\ UNCHANGED <<extension, js, data, ret, reply, history>>

\* Without an extension the stub leaves the result as it is and returns 0.
ExtensionGone(q) ==
    /\ pc[q] = "new" /\ ~extension
    /\ GoTo(q, "done")
    /\ UNCHANGED <<extension, js, stage, data, ret, reply, history>>

Await(q) ==
    /\ pc[q] = "await" /\ Free(q)
    /\ GoTo(q, "waiting")
    /\ UNCHANGED <<extension, js, stage, data, ret, reply, history>>

\* Mutant: wait() in the place of wait_for().
WaitForever(q) ==
    /\ pc[q] = "waiting" /\ FALSE
    /\ GoTo(q, "timedOut")
    /\ UNCHANGED <<extension, js, stage, data, ret, reply, history>>

\* The time of the wait has passed, and nobody has notified the thread, or somebody has and
\* it has passed when the thread has the mutex again.
WaitTimeout(q) ==
    /\ pc[q] \in {"waiting", "woken"}
    /\ expired' = [expired EXCEPT ![q] = TRUE]
    /\ GoTo(q, "timedOut")
    /\ UNCHANGED <<extension, js, stage, data, ret, reply, told>>

SpuriousWakeup(q) ==
    /\ pc[q] = "waiting"
    /\ GoTo(q, "woken")
    /\ UNCHANGED <<extension, js, stage, data, ret, reply, history>>

\* wait_for has the mutex again; after a timeout retSuccess is not looked at.
AwaitReturns(q) ==
    /\ Free(q)
    /\ \/ /\ pc[q] = "timedOut"
          /\ ret' = [ret EXCEPT ![q] = RESULT_FAIL]
       \/ /\ pc[q] = "woken"
          /\ ret' = [ret EXCEPT ![q] = IF retSuccess[q] THEN RESULT_SUCCESS ELSE RESULT_FAIL]
    /\ GoTo(q, "read")
    /\ UNCHANGED <<extension, js, stage, data, reply, history>>

\* GetQueryCallerInfoResult reads the code twice: whether its message is known ...
CountCode(q) ==
    /\ pc[q] = "read"
    /\ GoTo(q, IF code[q] \in ErrMsgMap THEN "known" ELSE "message")
    /\ UNCHANGED <<extension, js, stage, data, ret, reply, history>>

\* ... and which, to overwrite errorMsg_.
AtCode(q) ==
    /\ pc[q] = "known" /\ code[q] \in ErrMsgMap
    /\ msg' = [msg EXCEPT ![q] = code[q]]
    /\ GoTo(q, "message")
    /\ UNCHANGED <<extension, js, stage, retSuccess, code, info, ret, reply, history>>

\* The code has become one without a message: at() throws, and the process ends.
AtThrows(q) ==
    /\ pc[q] = "known" /\ code[q] \notin ErrMsgMap
    /\ extension' = FALSE
    /\ pc' = [p \in Queries |-> IF pc[p] = "done" THEN "done" ELSE "dead"]
    /\ js' = None
    /\ stage' = [p \in Queries |-> IF stage[p] = "none" THEN "none" ELSE "over"]
    /\ UNCHANGED <<data, ret, reply, history>>

\* The result is copied field by field, and OnQueryCallerInfoInner writes it to the reply.
CopyMessage(q) ==
    /\ pc[q] = "message"
    /\ replyMsg' = [replyMsg EXCEPT ![q] = msg[q]]
    /\ GoTo(q, "info")
    /\ UNCHANGED <<extension, js, stage, data, ret, replyInfo, history>>

CopyInfo(q) ==
    /\ pc[q] = "info"
    /\ replyInfo' = [replyInfo EXCEPT ![q] = info[q]]
    /\ GoTo(q, "done")
    /\ UNCHANGED <<extension, js, stage, data, ret, replyMsg, history>>

-----------------------------------------------------------------------------
(* The JS thread: it does one thing at a time. *)

\* Both callbacks are registered with a promise, or HandlePromise returns early.
RegisterCallbacks == {"promise", "over"}

\* onQueryCallerInfo throws, or returns what may be a promise; a missing method is neither.
CallObjectMethod == {"reject"} \cup RegisterCallbacks

RunTask(q) ==
    /\ js = None /\ stage[q] = "posted"
    /\ \E next \in CallObjectMethod :
        /\ stage' = [stage EXCEPT ![q] = next]
        /\ js' = IF next = "reject" THEN q ELSE js
    /\ UNCHANGED <<extension, pc, data, ret, reply, history>>

\* PromiseResolve and PromiseReject.  The data of a query that has returned is released; a
\* call whose arguments cannot be read, or for which no callback was registered, is dropped.
Settle(q) ==
    /\ js = None /\ stage[q] = "promise"
    /\ \E answer \in {"resolve", "reject", "over"} :
        /\ pc[q] = "done" => answer = "over"
        /\ stage' = [stage EXCEPT ![q] = answer]
        /\ js' = IF answer = "over" THEN js ELSE q
    /\ UNCHANGED <<extension, pc, data, ret, reply, history>>

LockData(q) ==
    /\ \/ stage[q] = "resolve" /\ stage' = [stage EXCEPT ![q] = "resolving"]
       \/ stage[q] = "reject" /\ stage' = [stage EXCEPT ![q] = "rejecting"]
    /\ UNCHANGED <<extension, pc, js, data, ret, reply, history>>

\* Mutant: the code is set before the properties are read.
ParseNameFirst(q) ==
    /\ stage[q] = "resolving"
    /\ \/ /\ info' = [info EXCEPT ![q] = "name"]
          /\ code' = [code EXCEPT ![q] = "query success"]
          /\ stage' = [stage EXCEPT ![q] = "named"]
       \/ /\ code' = [code EXCEPT ![q] = "resolve parse err"]
          /\ stage' = [stage EXCEPT ![q] = "unresolved"]
          /\ UNCHANGED info
    /\ UNCHANGED <<extension, pc, js, retSuccess, msg, ret, reply, history>>

\* ParseResolveNapiData in the order of its writes: the name, or that it cannot be read ...
ParseName(q) ==
    /\ stage[q] = "resolving"
    /\ \/ /\ info' = [info EXCEPT ![q] = "name"]
          /\ stage' = [stage EXCEPT ![q] = "named"]
          /\ UNCHANGED code
       \/ /\ code' = [code EXCEPT ![q] = "resolve parse err"]
          /\ stage' = [stage EXCEPT ![q] = "unresolved"]
          /\ UNCHANGED info
    /\ UNCHANGED <<extension, pc, js, retSuccess, msg, ret, reply, history>>

\* ... the other properties ...
ParseRest(q) ==
    /\ stage[q] = "named"
    /\ info' = [info EXCEPT ![q] = "whole"]
    /\ stage' = [stage EXCEPT ![q] = "whole"]
    /\ UNCHANGED <<extension, pc, js, retSuccess, code, msg, ret, reply, history>>

\* ... and the code.
ParseDone(q) ==
    /\ stage[q] = "whole"
    /\ code' = [code EXCEPT ![q] = "query success"]
    /\ stage' = [stage EXCEPT ![q] = "resolved"]
    /\ UNCHANGED <<extension, pc, js, retSuccess, info, msg, ret, reply, history>>

\* ParseRejectNapiData: the code before the message ...
ParseReject(q) ==
    /\ stage[q] = "rejecting"
    /\ code' = [code EXCEPT ![q] = "external"]
    /\ stage' = [stage EXCEPT ![q] = "failing"]
    /\ UNCHANGED <<extension, pc, js, retSuccess, info, msg, ret, reply, history>>

\* ... which an error may not have; what is neither string nor object has another code.
ParseMessage(q) ==
    /\ stage[q] = "failing"
    /\ \/ msg' = [msg EXCEPT ![q] = "external"] /\ UNCHANGED code
       \/ code' = [code EXCEPT ![q] = "query fail"] /\ UNCHANGED msg
       \/ UNCHANGED <<code, msg>>
    /\ stage' = [stage EXCEPT ![q] = "rejected"]
    /\ UNCHANGED <<extension, pc, js, retSuccess, info, ret, reply, history>>

\* Mutant: retSuccess is not set.
NotifyOnly(q) ==
    /\ stage[q] \in {"resolved", "unresolved", "rejected"}
    /\ IF pc[q] = "waiting"
       THEN GoTo(q, "woken") /\ told' = [told EXCEPT ![q] = stage[q]]
       ELSE UNCHANGED <<pc, told>>
    /\ stage' = [stage EXCEPT ![q] = "over"]
    /\ js' = None
    /\ UNCHANGED <<extension, data, ret, reply, expired>>

\* retSuccess is set, a thread that waits is notified, and the mutex is released.
Notify(q) ==
    /\ stage[q] \in {"resolved", "unresolved", "rejected"}
    /\ retSuccess' = [retSuccess EXCEPT ![q] = stage[q] = "resolved"]
    /\ IF pc[q] = "waiting"
       THEN GoTo(q, "woken") /\ told' = [told EXCEPT ![q] = stage[q]]
       ELSE UNCHANGED <<pc, told>>
    /\ stage' = [stage EXCEPT ![q] = "over"]
    /\ js' = None
    /\ UNCHANGED <<extension, code, info, msg, ret, reply, expired>>

-----------------------------------------------------------------------------
\* A query in progress keeps the extension; its tasks and promises end with it.
ExtensionEnds ==
    /\ extension /\ js = None
    /\ \A q \in Queries : pc[q] \in {"new", "done"}
    /\ extension' = FALSE
    /\ stage' = [q \in Queries |-> IF stage[q] = "none" THEN "none" ELSE "over"]
    /\ UNCHANGED <<pc, js, data, ret, reply, history>>

\* What the query does by itself once it is there.
OnQueryCallerInfo(q) ==
    \/ Await(q) \/ WaitTimeout(q) \/ AwaitReturns(q)
    \/ CountCode(q) \/ AtCode(q) \/ AtThrows(q) \/ CopyMessage(q) \/ CopyInfo(q)

\* HandlePromiseResolve, HandlePromiseReject and HandleException, once they are called.
HandlePromise(q) ==
    \/ LockData(q) \/ ParseName(q) \/ ParseRest(q) \/ ParseDone(q)
    \/ ParseReject(q) \/ ParseMessage(q) \/ Notify(q)

Next ==
    \/ \E q \in Queries :
        \/ PostTask(q) \/ ExtensionGone(q) \/ SpuriousWakeup(q) \/ OnQueryCallerInfo(q)
        \/ RunTask(q) \/ Settle(q) \/ HandlePromise(q)
    \/ ExtensionEnds

Spec == Init /\ [][Next]_vars

\* The wait times out and the native code of both threads goes on.  Nothing makes the
\* JS thread run a task or settle a promise.
FairSpec ==
    /\ Spec
    /\ \A q \in Queries : WF_vars(OnQueryCallerInfo(q)) /\ WF_vars(HandlePromise(q))

-----------------------------------------------------------------------------
(* Properties. *)

Queried(q) == pc[q] = "done" /\ stage[q] # "none"

\* Although the result is read without the mutex, "query success" is said only of a whole
\* answer, and a query that succeeded says it.  (A query that failed may say it too, if
\* the answer came before the wait or at its timeout; other failures may have half an answer.)
SuccessIsWhole ==
    \A q \in Queries :
        /\ Queried(q) /\ ret[q] = RESULT_SUCCESS => replyMsg[q] = "query success"
        /\ pc[q] = "done" /\ replyMsg[q] = "query success" => replyInfo[q] = "whole"

\* A query whose wait was ended by a rejection, or by an answer that cannot be parsed, fails,
\* and one whose wait was ended by an answer succeeds, though there is no predicate, unless
\* its time had passed when it had the mutex again.
InTimeIsReported ==
    \A q \in Queries :
        Queried(q) => /\ told[q] = "resolved" => ret[q] = RESULT_SUCCESS \/ expired[q]
                      /\ told[q] \in {"unresolved", "rejected"} => ret[q] = RESULT_FAIL

\* A query returns, whatever the script does and whether a notification was lost, unless
\* the process ends.
EveryQueryReturns == \A q \in Queries : (pc[q] = "await") ~> (pc[q] \in {"done", "dead"})

\* GetQueryCallerInfoResult looks for a message only of a code that has one.
EveryCodeIsFound == \A q \in Queries : pc[q] # "dead"
=============================================================================
