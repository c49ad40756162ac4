---------------------------- MODULE HttpRequest ----------------------------
(***************************************************************************)
(* One HTTP request of DownloadFile: CreateHttpRequest(), HttpRequest()    *)
(* and the callbacks that ProcesslTaskCb() registers, in                   *)
(* number_location/src/download_file.cpp.                                  *)
(*                                                                         *)
(* DownloadFile is a process-wide singleton without a lock of its own:     *)
(* every IPC thread shares responseData_, httpSuccess_ and the condition   *)
(* variable, and so do the callbacks of every task it ever started, which  *)
(* run on threads of the HTTP client.  A response body is a sequence of    *)
(* chunks, one per OnDataReceive callback.                                 *)
(*                                                                         *)
(* This module has the state and the actions; the modules that extend it   *)
(* say who makes requests and what the server answers.                     *)
(***************************************************************************)
EXTENDS Integers, Sequences, FiniteSets

CONSTANTS
    Threads,    \* IPC threads that may make requests
    Slots,      \* places for HTTP tasks in flight (a bound)
    Stragglers  \* may a thread make a request while a task of an earlier one still runs

ASSUME HttpAssumption == Threads # {} /\ Stragglers \in BOOLEAN

VARIABLES
    responseData,  \* responseData_
    httpSuccess,   \* httpSuccess_
    task,          \* task[s]: an HTTP task and the chunks it has still to deliver
    req            \* req[t]: where thread t is in CreateHttpRequest()

http == <<responseData, httpSuccess, task, req>>

\* "timeout" and "fail" are both returned as NUMBER_IDENTITY_ERR_HTTP_FAIL.
ReqState == {"none", "clear", "prewait", "waiting", "woken", "ok", "timeout", "fail"}

FreeTask == [phase |-> "free", owner |-> CHOOSE t \in Threads : TRUE, rest |-> << >>]

TaskState(Chunk) ==
    [phase : {"free", "running", "succeeded"}, owner : Threads, rest : Seq(Chunk)]

HttpTypeOK(Chunk) ==
    /\ responseData \in Seq(Chunk)
    /\ httpSuccess \in BOOLEAN
    /\ task \in [Slots -> TaskState(Chunk)]
    /\ req \in [Threads -> ReqState]

HttpInit ==
    /\ responseData = << >>
    /\ httpSuccess = FALSE
    /\ task = [s \in Slots |-> FreeTask]
    /\ req = [t \in Threads |-> "none"]

-----------------------------------------------------------------------------
(* The thread that makes the request. *)

\* A request is made when the tasks of the thread's earlier ones have delivered what they
\* will, even if they have still to notify: true of the code as long as a task, which has a
\* 30 s timeout of its own, does not outlive the wait by more than the steps in between.
NoneRunning(t) == \A s \in Slots : task[s].phase = "running" => task[s].owner # t
MayRequest(t) == Stragglers \/ NoneRunning(t)

Move(t, state) == req' = [req EXCEPT ![t] = state]

\* Mutant: responseData_ is not emptied.
SendRequestKeepsData(t, bodies) ==
    /\ req[t] = "none"
    /\ UNCHANGED <<httpSuccess, responseData>>
    /\ \/ Move(t, "fail") /\ UNCHANGED task
       \/ /\ Move(t, "clear")
          /\ \E s \in Slots, body \in bodies :
               /\ task[s].phase = "free"
               /\ task' = [task EXCEPT ![s] =
                             [phase |-> "running", owner |-> t, rest |-> body]]

\* HttpRequest(): CreateTask() may return null.  Otherwise responseData_ is emptied
\* and the task started; its Start() may also start nothing, which nobody notices.
SendRequest(t, bodies) ==
    /\ req[t] = "none"
    /\ UNCHANGED httpSuccess
    /\ \/ Move(t, "fail") /\ UNCHANGED <<responseData, task>>
       \/ /\ Move(t, "clear")
          /\ responseData' = << >>
          /\ \/ UNCHANGED task
             \/ \E s \in Slots, body \in bodies :
                  /\ task[s].phase = "free"
                  /\ task' = [task EXCEPT ![s] =
                                [phase |-> "running", owner |-> t, rest |-> body]]

\* Mutant: httpSuccess_ is not cleared.
ClearSuccessKeepsFlag(t) ==
    /\ req[t] = "clear"
    /\ Move(t, "prewait")
    /\ UNCHANGED <<httpSuccess, responseData, task>>

\* httpSuccess_ is cleared only now, when the task may already have succeeded.
ClearSuccess(t) ==
    /\ req[t] = "clear"
    /\ Move(t, "prewait")
    /\ httpSuccess' = FALSE
    /\ UNCHANGED <<responseData, task>>

BeginWait(t) ==
    /\ req[t] = "prewait"
    /\ Move(t, "waiting")
    /\ UNCHANGED <<responseData, httpSuccess, task>>

\* Mutant: wait() without a timeout.
WaitForever(t) == FALSE

\* wait_for returns timeout: the 30 s have passed, and nobody has notified the thread, or
\* somebody has and the 30 s have passed when it has the mutex again.  httpSuccess_ is not
\* looked at, though OnSuccess may have set it.
WaitTimeout(t) ==
    /\ req[t] \in {"waiting", "woken"}
    /\ Move(t, "timeout")
    /\ UNCHANGED <<responseData, httpSuccess, task>>

\* wait_for is called without a predicate, so it may return when nobody notified.
SpuriousWakeup(t) ==
    /\ req[t] = "waiting"
    /\ Move(t, "woken")
    /\ UNCHANGED <<responseData, httpSuccess, task>>

\* Mutant: a result that the caller does not know.
CheckSuccessUnknown(t) ==
    /\ req[t] = "woken"
    /\ Move(t, IF httpSuccess THEN "ok" ELSE "cancelled")
    /\ UNCHANGED <<responseData, httpSuccess, task>>

\* wait_for returned in time.
CheckSuccess(t) ==
    /\ req[t] = "woken"
    /\ Move(t, IF httpSuccess THEN "ok" ELSE "fail")
    /\ UNCHANGED <<responseData, httpSuccess, task>>

\* The caller of CreateHttpRequest() has its result.
Return(t, outcome) ==
    /\ req[t] = outcome
    /\ Move(t, "none")
    /\ UNCHANGED <<responseData, httpSuccess, task>>

-----------------------------------------------------------------------------
(* The callbacks of a task. *)

Waiters == {t \in Threads : req[t] = "waiting"}

\* notify_one(): one waiting thread, whichever request it waits for, or nobody.
NotifyOne ==
    \/ Waiters = {} /\ UNCHANGED req
    \/ \E t \in Waiters : Move(t, "woken")

OnDataReceive(s) ==
    /\ task[s].phase = "running" /\ task[s].rest # << >>
    /\ responseData' = Append(responseData, Head(task[s].rest))
    /\ task' = [task EXCEPT ![s].rest = Tail(@)]
    /\ UNCHANGED <<httpSuccess, req>>

\* The first half of OnSuccess, under httpSuccessMutex_.
OnSuccess(s) ==
    /\ task[s].phase = "running" /\ task[s].rest = << >>
    /\ httpSuccess' = TRUE
    /\ task' = [task EXCEPT ![s].phase = "succeeded"]
    /\ UNCHANGED <<responseData, req>>

\* Mutant: OnSuccess does not notify.
OnSuccessSilent(s) ==
    /\ task[s].phase = "succeeded"
    /\ task' = [task EXCEPT ![s] = FreeTask]
    /\ UNCHANGED <<responseData, httpSuccess, req>>

\* Its second half, under clientCts_.
OnSuccessNotify(s) ==
    /\ task[s].phase = "succeeded"
    /\ task' = [task EXCEPT ![s] = FreeTask]
    /\ NotifyOne
    /\ UNCHANGED <<responseData, httpSuccess>>

\* OnFail or OnCancel, at the latest when the 30 s of the task have passed.
OnFail(s) ==
    /\ task[s].phase = "running"
    /\ task' = [task EXCEPT ![s] = FreeTask]
    /\ NotifyOne
    /\ UNCHANGED <<responseData, httpSuccess>>

-----------------------------------------------------------------------------
\* What thread t does by itself.  Time passes and a spurious wakeup happens to it.
Requester(t) == ClearSuccess(t) \/ BeginWait(t) \/ CheckSuccess(t)

HttpTask(s) == OnDataReceive(s) \/ OnSuccess(s) \/ OnSuccessNotify(s) \/ OnFail(s)

HttpStep ==
    \/ \E t \in Threads : Requester(t) \/ WaitTimeout(t) \/ SpuriousWakeup(t)
    \/ \E s \in Slots : HttpTask(s)
=============================================================================
