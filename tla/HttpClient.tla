----------------------------- MODULE HttpClient -----------------------------
(***************************************************************************)
(* HttpRequest with any clients: threads that make one request after the   *)
(* other, for whatever body, as DownloadNumberLocationFile() and           *)
(* DownloadYellowPageFile() do when IPC threads execute them.              *)
(***************************************************************************)
EXTENDS HttpRequest

CONSTANTS
    Chunk,   \* what one OnDataReceive callback may deliver
    Bodies   \* the response bodies the server may send

ASSUME BodiesAssumption == Bodies \subseteq Seq(Chunk)

VARIABLE expected  \* history: expected[t] is the answer to the last request of t

vars == <<http, expected>>

TypeOK ==
    /\ HttpTypeOK(Chunk)
    /\ expected \in [Threads -> Seq(Chunk)]

Init ==
    /\ HttpInit
    /\ expected = [t \in Threads |-> << >>]

Send(t) ==
    /\ MayRequest(t)
    /\ \E body \in Bodies :
        /\ SendRequest(t, {body})
        /\ expected' = [expected EXCEPT ![t] = body]

Finish(t) ==
    /\ \E outcome \in {"ok", "timeout", "fail"} : Return(t, outcome)
    /\ UNCHANGED expected

Next ==
    \/ \E t \in Threads : Send(t) \/ Finish(t)
    \/ HttpStep /\ UNCHANGED expected

Spec == Init /\ [][Next]_vars

\* A thread goes on and a task ends, after its own 30 s at the latest.  Nothing makes a
\* client send a request, nothing makes a wakeup spurious, and no wait need ever time out.
FairSpec ==
    /\ Spec
    /\ \A t \in Threads : WF_vars(Requester(t) /\ UNCHANGED expected)
    /\ \A s \in Slots : WF_vars(HttpTask(s) /\ UNCHANGED expected)

\* wait_for does return after 30 s.
TimedSpec == FairSpec /\ \A t \in Threads : WF_vars(WaitTimeout(t) /\ UNCHANGED expected)

-----------------------------------------------------------------------------
\* When CreateHttpRequest() returns success, responseData_ is the whole answer to that
\* request and no task is left that could change it: neither a flag nor data of an earlier
\* request is taken for this one, whether that timed out, was cut short by a wakeup without
\* cause, or has still to notify.
OkMeansWholeAnswer ==
    \A t \in Threads : req[t] = "ok" => responseData = expected[t] /\ NoneRunning(t)

NotifyDue(t) == \E s \in Slots : task[s].phase = "succeeded" /\ task[s].owner = t

\* A success whose notification is still to come while the thread waits ends the wait and is
\* reported, unless 30 s have passed when the thread goes on, however late the notification
\* is.  (Had it come before the wait began, only the timeout would end the wait.)
SuccessIsReported ==
    \A t \in Threads :
        (req[t] = "waiting" /\ httpSuccess /\ NotifyDue(t)) ~> (req[t] \in {"ok", "timeout"})

\* CreateHttpRequest() returns, also when the notification came before the wait or
\* woke another thread.
EveryRequestReturns ==
    \A t \in Threads : (req[t] # "none") ~> (req[t] \in {"ok", "timeout", "fail"})
=============================================================================
