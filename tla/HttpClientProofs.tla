-------------------------- MODULE HttpClientProofs --------------------------
(***************************************************************************)
(* Proofs about HttpClient: its type invariant for all values of the       *)
(* constants, and OkMeansWholeAnswer for one thread that makes a request   *)
(* when the task of the one before has delivered, with any number of slots *)
(* and any response bodies.                                                *)
(***************************************************************************)
EXTENDS HttpClient, SequenceTheorems, TLAPS

-----------------------------------------------------------------------------
(* Type correctness. *)

LEMMA FreeTaskType ==
    FreeTask \in TaskState(Chunk) /\ FreeTask.phase = "free" /\ FreeTask.owner \in Threads
<1>1. (CHOOSE t \in Threads : TRUE) \in Threads
  BY HttpAssumption
<1>2. << >> \in Seq(Chunk)
  OBVIOUS
<1> QED
  BY <1>1, <1>2 DEF FreeTask, TaskState

LEMMA InitType == Init => TypeOK
<1>1. << >> \in Seq(Chunk)
  OBVIOUS
<1>2. Init => HttpTypeOK(Chunk)
  BY <1>1, FreeTaskType DEF Init, HttpInit, HttpTypeOK, ReqState
<1>3. Init => expected \in [Threads -> Seq(Chunk)]
  BY <1>1 DEF Init
<1> QED
  BY <1>2, <1>3 DEF TypeOK

LEMMA SendType ==
  ASSUME TypeOK, NEW t \in Threads, Send(t)
  PROVE  TypeOK'
<1>1. PICK body \in Bodies : SendRequest(t, {body}) /\ expected' = [expected EXCEPT ![t] = body]
  BY DEF Send
<1>2. body \in Seq(Chunk)
  BY BodiesAssumption
<1>3. req' \in [Threads -> ReqState] /\ httpSuccess' \in BOOLEAN
  BY <1>1 DEF SendRequest, Move, TypeOK, HttpTypeOK, ReqState
<1>4. responseData' \in Seq(Chunk)
  <2>1. << >> \in Seq(Chunk)
    OBVIOUS
  <2> QED
    BY <1>1, <2>1, Zenon DEF SendRequest, TypeOK, HttpTypeOK
<1>5. task' \in [Slots -> TaskState(Chunk)]
  <2>1. CASE UNCHANGED task
    BY <2>1 DEF TypeOK, HttpTypeOK
  <2>2. ASSUME NEW s \in Slots,
               task' = [task EXCEPT ![s] = [phase |-> "running", owner |-> t, rest |-> body]]
        PROVE  task' \in [Slots -> TaskState(Chunk)]
    BY <1>2, <2>2 DEF TypeOK, HttpTypeOK, TaskState
  <2> QED
    BY <1>1, <2>1, <2>2 DEF SendRequest
<1> QED
  BY <1>1, <1>2, <1>3, <1>4, <1>5 DEF TypeOK, HttpTypeOK

LEMMA TaskType ==
  ASSUME TypeOK, NEW s \in Slots, HttpTask(s), UNCHANGED expected
  PROVE  TypeOK'
<1> USE DEF TypeOK, HttpTypeOK
<1>1. CASE OnDataReceive(s)
  <2>1. task[s] \in TaskState(Chunk) /\ task[s].rest \in Seq(Chunk) /\ task[s].rest # << >>
    BY <1>1 DEF OnDataReceive, TaskState
  <2>2. Head(task[s].rest) \in Chunk /\ Tail(task[s].rest) \in Seq(Chunk)
    BY <2>1
  <2>3. task' \in [Slots -> TaskState(Chunk)]
    BY <1>1, <2>1, <2>2 DEF OnDataReceive, TaskState
  <2>4. responseData' \in Seq(Chunk)
    BY <1>1, <2>2 DEF OnDataReceive
  <2> QED
    BY <1>1, <2>3, <2>4 DEF OnDataReceive
<1>2. CASE OnSuccess(s)
  BY <1>2 DEF OnSuccess, TaskState
<1>3. CASE OnSuccessNotify(s)
  BY <1>3, FreeTaskType DEF OnSuccessNotify, NotifyOne, Waiters, Move, ReqState
<1>4. CASE OnFail(s)
  BY <1>4, FreeTaskType DEF OnFail, NotifyOne, Waiters, Move, ReqState
<1> QED
  BY <1>1, <1>2, <1>3, <1>4 DEF HttpTask

\* The state of DownloadFile that a request uses always has its type: every value that
\* the requesters and the callbacks store is one that the next of them expects.
THEOREM TypeCorrect == Spec => []TypeOK
<1>1. ASSUME TypeOK, [Next]_vars
      PROVE  TypeOK'
  <2>1. CASE \E t \in Threads : Send(t)
    BY <1>1, <2>1, SendType
  <2>2. ASSUME NEW t \in Threads, Finish(t)
        PROVE  TypeOK'
    BY <1>1, <2>2 DEF TypeOK, HttpTypeOK, Finish, Return, Move, ReqState
  <2>3. ASSUME NEW t \in Threads, Requester(t) \/ WaitTimeout(t) \/ SpuriousWakeup(t), UNCHANGED expected
        PROVE  TypeOK'
    BY <1>1, <2>3 DEF TypeOK, HttpTypeOK, Requester, ClearSuccess, BeginWait, WaitTimeout,
                      SpuriousWakeup, CheckSuccess, Move, ReqState
  <2>4. ASSUME NEW s \in Slots, HttpTask(s), UNCHANGED expected
        PROVE  TypeOK'
    BY <1>1, <2>4, TaskType
  <2>5. CASE UNCHANGED vars
    BY <1>1, <2>5 DEF TypeOK, HttpTypeOK, vars, http
  <2> QED
    BY <1>1, <2>1, <2>2, <2>3, <2>4, <2>5 DEF Next, HttpStep
<1> QED
  BY <1>1, InitType, PTL DEF Spec
-----------------------------------------------------------------------------
(* The answer of a request, for a single thread t without stragglers. *)

Running(s) == task[s].phase = "running"

\* At most one task has still to deliver: what has been received and what is to come make up
\* the answer.  When the flag is read, it was set by the task of this request, which had
\* delivered everything.
AnswerInv(t) ==
    /\ \A s1, s2 \in Slots : Running(s1) /\ Running(s2) => s1 = s2
    /\ \A s \in Slots : Running(s) => responseData \o task[s].rest = expected[t]
    /\ httpSuccess /\ req[t] \in {"prewait", "waiting", "woken", "ok"} =>
         responseData = expected[t] /\ \A s \in Slots : ~Running(s)
    /\ req[t] = "ok" => httpSuccess

SerialInv(t) == TypeOK /\ AnswerInv(t)

\* Moving the first chunk from one sequence to the end of the other changes nothing.
LEMMA Delivered ==
  ASSUME NEW S, NEW done \in Seq(S), NEW rest \in Seq(S), rest # << >>
  PROVE  Append(done, Head(rest)) \o Tail(rest) = done \o rest
<1> DEFINE left == Append(done, Head(rest)) \o Tail(rest)
           right == done \o rest
<1>1. Head(rest) \in S /\ Tail(rest) \in Seq(S) /\ Len(Tail(rest)) = Len(rest) - 1
  BY HeadTailProperties
<1>2. /\ Append(done, Head(rest)) \in Seq(S)
      /\ Len(Append(done, Head(rest))) = Len(done) + 1
  BY <1>1
<1>3. left \in Seq(S) /\ right \in Seq(S) /\ Len(left) = Len(right)
  BY <1>1, <1>2, ConcatProperties
<1>4. ASSUME NEW i \in 1..Len(left)
      PROVE  left[i] = right[i]
  <2>1. CASE i <= Len(done)
    BY <1>1, <1>2, <1>3, <2>1, ConcatProperties
  <2>2. CASE i = Len(done) + 1
    BY <1>1, <1>2, <1>3, <2>2, ConcatProperties
  <2>3. CASE i > Len(done) + 1
    BY <1>1, <1>2, <1>3, <2>3, ConcatProperties, HeadTailProperties
  <2> QED
    BY <1>3, <2>1, <2>2, <2>3, LenProperties
<1> QED
  BY <1>3, <1>4, SeqEqual

LEMMA SerialInit ==
  ASSUME NEW t \in Threads, Init
  PROVE  SerialInv(t)
<1>1. \A s \in Slots : ~Running(s)
  BY FreeTaskType DEF Init, HttpInit, Running
<1>2. httpSuccess = FALSE /\ req[t] = "none"
  BY DEF Init, HttpInit
<1> QED
  BY <1>1, <1>2, InitType DEF SerialInv, AnswerInv

LEMMA SerialSend ==
  ASSUME NEW t, Threads = {t}, Stragglers = FALSE, SerialInv(t), TypeOK', Send(t)
  PROVE  SerialInv(t)'
<1> USE DEF SerialInv
<1>1. PICK body \in Bodies : SendRequest(t, {body}) /\ expected' = [expected EXCEPT ![t] = body]
  BY DEF Send
<1>2. body \in Seq(Chunk) /\ expected'[t] = body
  BY <1>1, BodiesAssumption DEF TypeOK
<1>3. \A s \in Slots : ~Running(s) /\ task[s] \in TaskState(Chunk)
  BY DEF Send, MayRequest, NoneRunning, Running, TypeOK, HttpTypeOK, TaskState
<1>4. req'[t] \in {"clear", "fail"}
  BY <1>1 DEF SendRequest, Move, TypeOK, HttpTypeOK
<1>5. CASE UNCHANGED task
  BY <1>3, <1>4, <1>5 DEF AnswerInv, Running
<1>6. ASSUME NEW s \in Slots, req' = [req EXCEPT ![t] = "clear"], responseData' = << >>,
             task' = [task EXCEPT ![s] = [phase |-> "running", owner |-> t, rest |-> body]]
      PROVE  SerialInv(t)'
  <2>1. task'[s] = [phase |-> "running", owner |-> t, rest |-> body]
    BY <1>6 DEF TypeOK, HttpTypeOK
  <2>2. \A u \in Slots : u # s => ~Running(u)'
    BY <1>3, <1>6 DEF TypeOK, HttpTypeOK, Running
  <2>3. req'[t] = "clear"
    BY <1>6 DEF TypeOK, HttpTypeOK
  <2>4. responseData' \o task'[s].rest = expected'[t]
    BY <1>2, <1>6, <2>1, ConcatEmptySeq
  <2> QED
    BY <2>2, <2>3, <2>4 DEF AnswerInv
<1> QED
  BY <1>1, <1>5, <1>6 DEF SendRequest, Move

LEMMA SerialRequester ==
  ASSUME NEW t, Threads = {t}, SerialInv(t), TypeOK',
         Requester(t) \/ WaitTimeout(t) \/ SpuriousWakeup(t) \/ Finish(t), UNCHANGED expected
  PROVE  SerialInv(t)'
<1> USE DEF SerialInv, TypeOK, HttpTypeOK, Move
<1>1. CASE ClearSuccess(t)
  BY <1>1 DEF ClearSuccess, AnswerInv, Running
<1>2. CASE BeginWait(t)
  BY <1>2 DEF BeginWait, AnswerInv, Running
<1>3. CASE WaitTimeout(t)
  BY <1>3 DEF WaitTimeout, AnswerInv, Running
<1>4. CASE SpuriousWakeup(t)
  BY <1>4 DEF SpuriousWakeup, AnswerInv, Running
<1>5. CASE CheckSuccess(t)
  BY <1>5 DEF CheckSuccess, AnswerInv, Running
<1>6. CASE Finish(t)
  BY <1>6 DEF Finish, Return, AnswerInv, Running
<1> QED
  BY <1>1, <1>2, <1>3, <1>4, <1>5, <1>6 DEF Requester

LEMMA SerialTask ==
  ASSUME NEW t, Threads = {t}, SerialInv(t), TypeOK',
         NEW s \in Slots, HttpTask(s), UNCHANGED expected
  PROVE  SerialInv(t)'
<1> USE DEF SerialInv
<1>1. /\ task[s] \in TaskState(Chunk) /\ task[s].rest \in Seq(Chunk)
      /\ responseData \in Seq(Chunk)
      /\ task \in [Slots -> TaskState(Chunk)] /\ req \in [Threads -> ReqState]
  BY DEF TypeOK, HttpTypeOK, TaskState
<1>2. \A u \in Slots : u # s => task'[u] = task[u]
  BY <1>1 DEF HttpTask, OnDataReceive, OnSuccess, OnSuccessNotify, OnFail
<1>3. CASE OnDataReceive(s)
  <2>1. task'[s] = [task[s] EXCEPT !.rest = Tail(@)] /\ UNCHANGED <<httpSuccess, req>>
    BY <1>1, <1>3 DEF OnDataReceive
  <2>2. Running(s) /\ Running(s)' /\ task'[s].rest = Tail(task[s].rest)
    BY <1>1, <1>3, <2>1 DEF OnDataReceive, TaskState, Running
  <2>3. responseData' \o task'[s].rest = expected'[t]
    <3>1. task[s].rest # << >>
      BY <1>3 DEF OnDataReceive
    <3>2. responseData \o task[s].rest = expected[t]
      BY <2>2 DEF AnswerInv
    <3>3. responseData' = Append(responseData, Head(task[s].rest))
      BY <1>3 DEF OnDataReceive
    <3>4. Append(responseData, Head(task[s].rest)) \o Tail(task[s].rest)
            = responseData \o task[s].rest
      BY <1>1, <3>1, Delivered
    <3> QED
      BY <2>2, <3>2, <3>3, <3>4
  <2>4. \A u \in Slots : u # s => ~Running(u)'
    BY <1>2, <2>2 DEF AnswerInv, Running
  <2>5. ~(httpSuccess /\ req[t] \in {"prewait", "waiting", "woken", "ok"})
    BY <2>2 DEF AnswerInv
  <2> QED
    BY <2>1, <2>3, <2>4, <2>5 DEF AnswerInv
<1>4. CASE OnSuccess(s)
  <2>1. Running(s) /\ responseData = expected[t]
    BY <1>1, <1>4, ConcatEmptySeq DEF OnSuccess, AnswerInv, Running
  <2>2. task'[s].phase = "succeeded" /\ UNCHANGED <<responseData, req>>
    BY <1>1, <1>4 DEF OnSuccess, TaskState
  <2>3. \A u \in Slots : ~Running(u)'
    BY <1>2, <2>1, <2>2 DEF AnswerInv, Running
  <2> QED
    BY <1>4, <2>1, <2>2, <2>3 DEF AnswerInv, OnSuccess
<1>5. CASE OnSuccessNotify(s) \/ OnFail(s)
  <2>1. task'[s].phase = "free"
    BY <1>1, <1>5, FreeTaskType DEF OnSuccessNotify, OnFail
  <2>2. req'[t] = req[t] \/ (req[t] = "waiting" /\ req'[t] = "woken")
    BY <1>1, <1>5 DEF OnSuccessNotify, OnFail, NotifyOne, Waiters, Move
  <2>3. UNCHANGED <<responseData, httpSuccess>>
    BY <1>5 DEF OnSuccessNotify, OnFail
  <2>4. \A u \in Slots : Running(u)' => Running(u) /\ task'[u] = task[u]
    BY <1>2, <2>1 DEF Running
  <2> QED
    BY <2>2, <2>3, <2>4 DEF AnswerInv
<1> QED
  BY <1>3, <1>4, <1>5 DEF HttpTask

\* A single thread that makes a request when the task of the one before has delivered,
\* though that may have timed out and its notification be still to come: when
\* CreateHttpRequest() returns success, responseData_ is the whole answer to its own
\* request and no callback will change it.
THEOREM SerialAnswer ==
  ASSUME NEW t, Threads = {t}, Stragglers = FALSE
  PROVE  Spec => []OkMeansWholeAnswer
<1>1. SerialInv(t) => OkMeansWholeAnswer
  <2> SUFFICES ASSUME SerialInv(t), req[t] = "ok"
               PROVE  responseData = expected[t] /\ NoneRunning(t)
    BY DEF OkMeansWholeAnswer
  <2> QED
    BY DEF SerialInv, AnswerInv, NoneRunning, Running
<1>2. SerialInv(t) /\ TypeOK' /\ [Next]_vars => SerialInv(t)'
  <2> SUFFICES ASSUME SerialInv(t), TypeOK', [Next]_vars
               PROVE  SerialInv(t)'
    OBVIOUS
  <2>1. CASE Send(t)
    BY <2>1, SerialSend
  <2>2. CASE (Requester(t) \/ WaitTimeout(t) \/ SpuriousWakeup(t) \/ Finish(t)) /\ UNCHANGED expected
    BY <2>2, SerialRequester
  <2>3. ASSUME NEW s \in Slots, HttpTask(s), UNCHANGED expected
        PROVE  SerialInv(t)'
    BY <2>3, SerialTask
  <2>4. CASE UNCHANGED vars
    BY <2>4 DEF SerialInv, AnswerInv, Running, vars, http
  <2> QED
    BY <2>1, <2>2, <2>3, <2>4 DEF Next, HttpStep, Finish
<1>3. Init => SerialInv(t)
  BY SerialInit
<1> QED
  BY <1>1, <1>2, <1>3, TypeCorrect, PTL DEF Spec
=============================================================================
