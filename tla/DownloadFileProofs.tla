------------------------- MODULE DownloadFileProofs -------------------------
(***************************************************************************)
(* Theorems about DownloadFile: its type invariant for any threads, and    *)
(* what an update promises for one thread that makes a request when the    *)
(* task of the one before has delivered, for any number of slots, retries  *)
(* and versions.                                                           *)
(***************************************************************************)
EXTENDS DownloadFile, SequenceTheorems, TLAPS

-----------------------------------------------------------------------------
(* Type correctness. *)

DiskOK ==
    /\ file \in [Kinds -> Seq(Chunk)]
    /\ stored \in [Kinds -> Version]
    /\ table \in Seq(Chunk)

ThreadsOK ==
    /\ pc \in [Threads -> {"idle", "request", "await", "copy",
                           "save", "write", "import", "record"}]
    /\ turn \in [Threads -> Kinds]
    /\ stage \in [Threads -> {"meta", "file"}]
    /\ attempt \in [Threads -> 0..RETRY_NUM]
    /\ want \in [Threads -> Chunk]
    /\ meta \in [Threads -> Chunk]
    /\ buffer \in [Threads -> Seq(Chunk)]
    /\ written \in [Threads -> Nat]
    /\ okay \in [Threads -> SUBSET Kinds]
    /\ result \in [Threads -> {"none", "success", "error"}]
    /\ asked \in [Threads -> [Kinds -> Version]]

EnvOK == served \in [Kinds -> Version] /\ faulted \in BOOLEAN

LEMMA TypeParts == TypeOK <=> HttpTypeOK(Chunk) /\ EnvOK /\ DiskOK /\ ThreadsOK
BY DEF TypeOK, EnvOK, DiskOK, ThreadsOK

LEMMA VersionType == Version \subseteq Int /\ 0 \in Version /\ \A v \in Version : v >= 0
BY DownloadAssumption DEF Version

LEMMA ChunkType ==
    /\ Junk \in Chunk /\ Junk.part = "junk"
    /\ \A k \in Kinds, v \in Version :
         /\ Meta(k, v) \in Chunk
         /\ File(k, v) \in Seq(Chunk) /\ Len(File(k, v)) = 2 /\ File(k, v) # << >>
         /\ File(k, v)[1] = [kind |-> k, version |-> v, part |-> "head"]
         /\ File(k, v)[2] = [kind |-> k, version |-> v, part |-> "tail"]
<1>1. 0 \in Version
  BY VersionType
<1>2. "location" \in Kinds
  BY DEF Kinds
<1>3. ASSUME NEW k \in Kinds, NEW v \in Version
      PROVE  /\ Meta(k, v) \in Chunk
             /\ [kind |-> k, version |-> v, part |-> "head"] \in Chunk
             /\ [kind |-> k, version |-> v, part |-> "tail"] \in Chunk
  BY DEF Meta, Chunk
<1> QED
  BY <1>1, <1>2, <1>3 DEF Junk, File, Chunk

LEMMA FileType ==
    ASSUME NEW k \in Kinds, NEW v \in Version
    PROVE  /\ File(k, v) \in Seq(Chunk) /\ Len(File(k, v)) = 2
           /\ Head(File(k, v)) = [kind |-> k, version |-> v, part |-> "head"]
           /\ Head(File(k, v)).version = v
<1>1. File(k, v) \in Seq(Chunk) /\ Len(File(k, v)) = 2 /\ File(k, v) # << >>
      /\ File(k, v)[1] = [kind |-> k, version |-> v, part |-> "head"]
  BY ChunkType
<1>2. Head(File(k, v)) = File(k, v)[1]
  BY <1>1
<1> QED
  BY <1>1, <1>2

LEMMA FreeTaskType ==
    FreeTask \in TaskState(Chunk) /\ FreeTask.phase = "free" /\ FreeTask.owner \in Threads
<1>1. (CHOOSE t \in Threads : TRUE) \in Threads
  BY HttpAssumption
<1>2. << >> \in Seq(Chunk)
  OBVIOUS
<1> QED
  BY <1>1, <1>2 DEF FreeTask, TaskState

LEMMA InitType == Init => TypeOK
<1> SUFFICES ASSUME Init PROVE TypeOK
  OBVIOUS
<1>1. << >> \in Seq(Chunk)
  OBVIOUS
<1>2. HttpTypeOK(Chunk)
  BY <1>1, FreeTaskType DEF Init, HttpInit, HttpTypeOK, ReqState
<1>3. EnvOK /\ DiskOK
  BY ChunkType, VersionType DEF Init, EnvOK, DiskOK, Kinds
<1>4. ThreadsOK
  BY <1>1, ChunkType, DownloadAssumption DEF Init, ThreadInit, ThreadsOK, Kinds
<1> QED
  BY <1>2, <1>3, <1>4, TypeParts

LEMMA CrashType == TypeOK /\ Crash => TypeOK'
<1> SUFFICES ASSUME TypeOK, Crash PROVE TypeOK'
  OBVIOUS
<1>1. << >> \in Seq(Chunk)
  OBVIOUS
<1>2. HttpTypeOK(Chunk)'
  BY <1>1, FreeTaskType DEF Crash, HttpTypeOK, ReqState
<1>3. (EnvOK /\ DiskOK)'
  BY TypeParts DEF Crash, env, disk, EnvOK, DiskOK
<1>4. ThreadsOK'
  BY <1>1, TypeParts, ChunkType, DownloadAssumption DEF Crash, ThreadsOK, EnvOK, Kinds
<1> QED
  BY <1>2, <1>3, <1>4 DEF TypeOK, EnvOK, DiskOK, ThreadsOK

LEMMA SendType ==
    ASSUME HttpTypeOK(Chunk), NEW t \in Threads, NEW bodies, bodies \subseteq Seq(Chunk),
           SendRequest(t, bodies)
    PROVE  HttpTypeOK(Chunk)'
<1>1. req' \in [Threads -> ReqState] /\ httpSuccess' \in BOOLEAN
  BY DEF SendRequest, Move, HttpTypeOK, ReqState
<1>2. responseData' \in Seq(Chunk)
  <2>1. << >> \in Seq(Chunk)
    OBVIOUS
  <2> QED
    BY <2>1, Zenon DEF SendRequest, HttpTypeOK
<1>3. task' \in [Slots -> TaskState(Chunk)]
  <2>1. CASE UNCHANGED task
    BY <2>1 DEF HttpTypeOK
  <2>2. ASSUME NEW s \in Slots, NEW body \in bodies,
               task' = [task EXCEPT ![s] = [phase |-> "running", owner |-> t, rest |-> body]]
        PROVE  task' \in [Slots -> TaskState(Chunk)]
    BY <2>2 DEF HttpTypeOK, TaskState
  <2> QED
    BY <2>1, <2>2 DEF SendRequest
<1> QED
  BY <1>1, <1>2, <1>3 DEF HttpTypeOK

LEMMA StepType ==
    ASSUME HttpTypeOK(Chunk), HttpStep
    PROVE  HttpTypeOK(Chunk)'
<1> USE DEF HttpTypeOK
<1>1. ASSUME NEW t \in Threads, Requester(t) \/ WaitTimeout(t) \/ SpuriousWakeup(t)
      PROVE  HttpTypeOK(Chunk)'
  BY <1>1 DEF Requester, ClearSuccess, BeginWait, WaitTimeout, SpuriousWakeup, CheckSuccess,
              Move, ReqState
<1>2. ASSUME NEW s \in Slots, HttpTask(s)
      PROVE  HttpTypeOK(Chunk)'
  <2>1. CASE OnDataReceive(s)
    <3>1. task[s] \in TaskState(Chunk) /\ task[s].rest \in Seq(Chunk) /\ task[s].rest # << >>
      BY <2>1 DEF OnDataReceive, TaskState
    <3>2. Head(task[s].rest) \in Chunk /\ Tail(task[s].rest) \in Seq(Chunk)
      BY <3>1
    <3>3. task' \in [Slots -> TaskState(Chunk)]
      BY <2>1, <3>1, <3>2 DEF OnDataReceive, TaskState
    <3>4. responseData' \in Seq(Chunk)
      BY <2>1, <3>2 DEF OnDataReceive
    <3> QED
      BY <2>1, <3>3, <3>4 DEF OnDataReceive
  <2>2. CASE OnSuccess(s)
    BY <2>2 DEF OnSuccess, TaskState
  <2>3. CASE OnSuccessNotify(s)
    BY <2>3, FreeTaskType DEF OnSuccessNotify, NotifyOne, Waiters, Move, ReqState
  <2>4. CASE OnFail(s)
    BY <2>4, FreeTaskType DEF OnFail, NotifyOne, Waiters, Move, ReqState
  <2> QED
    BY <1>2, <2>1, <2>2, <2>3, <2>4 DEF HttpTask
<1> QED
  BY <1>1, <1>2 DEF HttpStep

LEMMA ReturnType ==
    ASSUME HttpTypeOK(Chunk), NEW t \in Threads, NEW outcome, Return(t, outcome)
    PROVE  HttpTypeOK(Chunk)'
BY DEF HttpTypeOK, Return, Move, ReqState

LEMMA BodiesType ==
    ASSUME TypeOK, NEW t \in Threads
    PROVE  Bodies(t) \subseteq Seq(Chunk)
<1>1. want[t].kind \in Kinds /\ want[t].version \in Version /\ turn[t] \in Kinds /\ served[turn[t]] \in Version
  BY DEF TypeOK, Chunk
<1>2. Junk \in Chunk /\ Meta(turn[t], served[turn[t]]) \in Chunk
      /\ File(want[t].kind, want[t].version) \in Seq(Chunk)
  BY <1>1, ChunkType
<1>3. \A c \in Chunk : << c >> \in Seq(Chunk)
  OBVIOUS
<1> QED
  BY <1>2, <1>3 DEF Bodies

\* The ends of an attempt.
LEMMA ClearType ==
    ASSUME ThreadsOK, NEW t \in Threads, ClearScratch(t)
    PROVE  /\ want' \in [Threads -> Chunk] /\ meta' \in [Threads -> Chunk]
           /\ buffer' \in [Threads -> Seq(Chunk)] /\ written' \in [Threads -> Nat]
<1>1. << >> \in Seq(Chunk)
  OBVIOUS
<1> QED
  BY <1>1, ChunkType DEF ThreadsOK, ClearScratch

LEMMA SettleType ==
    ASSUME ThreadsOK, NEW t \in Threads, NEW done \in SUBSET Kinds, ClearScratch(t), UNCHANGED asked,
           Settle(t, done)
    PROVE  ThreadsOK'
<1>1. /\ want' \in [Threads -> Chunk] /\ meta' \in [Threads -> Chunk]
      /\ buffer' \in [Threads -> Seq(Chunk)] /\ written' \in [Threads -> Nat]
  BY ClearType
<1>2. okay' \in [Threads -> SUBSET Kinds] /\ attempt' \in [Threads -> 0..RETRY_NUM]
  BY DownloadAssumption DEF ThreadsOK, Settle
<1>3. /\ pc' \in [Threads -> {"idle", "request", "await", "copy",
                           "save", "write", "import", "record"}]
      /\ turn' \in [Threads -> Kinds] /\ stage' \in [Threads -> {"meta", "file"}]
      /\ result' \in [Threads -> {"none", "success", "error"}]
  BY DEF ThreadsOK, Settle, Kinds
<1> QED
  BY <1>1, <1>2, <1>3 DEF ThreadsOK

LEMMA FailedType ==
    ASSUME ThreadsOK, NEW t \in Threads, Failed(t)
    PROVE  ThreadsOK'
<1>1. CASE Settle(t, okay[t])
  BY <1>1, SettleType DEF Failed, ThreadsOK
<1>2. CASE ~Settle(t, okay[t])
  <2>0. attempt[t] \in 0..RETRY_NUM /\ attempt[t] < RETRY_NUM /\ attempt' = [attempt EXCEPT ![t] = attempt[t] + 1]
    BY <1>2 DEF Failed, ThreadsOK
  <2>1. attempt' \in [Threads -> 0..RETRY_NUM]
    BY <2>0, DownloadAssumption DEF ThreadsOK
  <2> QED
    BY <1>2, <2>1, ClearType DEF Failed, ThreadsOK
<1> QED
  BY <1>1, <1>2

LEMMA SucceededType ==
    ASSUME ThreadsOK, NEW t \in Threads, Succeeded(t)
    PROVE  ThreadsOK'
BY SettleType DEF Succeeded, ThreadsOK

LEMMA WriteAtType ==
    ASSUME NEW content \in Seq(Chunk), NEW i \in Nat \ {0}, NEW c \in Chunk
    PROVE  WriteAt(content, i, c) \in Seq(Chunk)
<1> DEFINE n == IF i > Len(content) THEN i ELSE Len(content)
<1>1. n \in Nat
  OBVIOUS
<1>2. \A j \in 1..n : (IF j = i THEN c ELSE IF j <= Len(content) THEN content[j] ELSE Junk) \in Chunk
  BY ChunkType
<1> QED
  BY <1>1, <1>2 DEF WriteAt

LEMMA ThreadType ==
    ASSUME TypeOK, NEW t \in Threads, Thread(t) \/ Call(t)
    PROVE  TypeOK'
<1>0. HttpTypeOK(Chunk) /\ EnvOK /\ DiskOK /\ ThreadsOK
  BY TypeParts
<1>f. Failed(t) => ThreadsOK'
  BY <1>0, FailedType
<1>s. Succeeded(t) => ThreadsOK'
  BY <1>0, SucceededType
<1>r. \A outcome : Return(t, outcome) => HttpTypeOK(Chunk)'
  BY <1>0, ReturnType
<1>h. UNCHANGED http => HttpTypeOK(Chunk)'
  BY <1>0 DEF http, HttpTypeOK
<1>1. CASE Call(t)
  <2>1. ThreadsOK'
    BY <1>0, <1>1 DEF Call, scratch, ThreadsOK, EnvOK
  <2> QED
    BY <1>0, <1>1, <1>h, <2>1, TypeParts DEF Call, env, disk, EnvOK, DiskOK, TypeOK, ThreadsOK
<1>2. CASE Request(t)
  <2>1. HttpTypeOK(Chunk)'
    BY <1>0, <1>2, BodiesType, SendType DEF Request
  <2>2. ThreadsOK'
    BY <1>0, <1>2 DEF Request, GoTo, control, scratch, ThreadsOK
  <2> QED
    BY <1>0, <1>2, <2>1, <2>2 DEF Request, env, disk, EnvOK, DiskOK, TypeOK, ThreadsOK
<1>3. CASE RequestFailed(t)
  BY <1>0, <1>3, <1>f, <1>r DEF RequestFailed, env, disk, EnvOK, DiskOK, TypeOK, ThreadsOK
<1>4. CASE CheckVersionAndParseDowloadURL(t)
  <2>1. HttpTypeOK(Chunk)' /\ (EnvOK /\ DiskOK)'
    BY <1>0, <1>4, <1>r DEF CheckVersionAndParseDowloadURL, Received, disk, EnvOK, DiskOK
  <2>2. ThreadsOK'
    <3>1. CASE Failed(t) \/ Succeeded(t)
      BY <3>1, <1>f, <1>s
    <3>2. CASE /\ IsMeta(responseData) /\ want' = [want EXCEPT ![t] = Head(responseData)]
               /\ GoTo(t, "copy") /\ UNCHANGED <<meta, buffer, written>>
      <4>1. Head(responseData) \in Chunk
        BY <1>0, <3>2 DEF IsMeta, HttpTypeOK
      <4> QED
        BY <1>0, <3>2, <4>1 DEF GoTo, control, ThreadsOK
    <3> QED
      BY <1>4, <3>1, <3>2 DEF CheckVersionAndParseDowloadURL
  <2> QED
    BY <2>1, <2>2 DEF EnvOK, DiskOK, TypeOK, ThreadsOK
<1>5. CASE CopyResponse(t)
  <2>1. IsMeta(responseData) => Head(responseData) \in Chunk
    BY <1>0 DEF IsMeta, HttpTypeOK
  <2>2. ThreadsOK'
    BY <1>0, <1>5, <2>1, ChunkType DEF CopyResponse, ThreadsOK
  <2> QED
    BY <1>0, <1>5, <1>h, <2>2 DEF CopyResponse, env, disk, EnvOK, DiskOK, TypeOK, ThreadsOK
<1>6. CASE CheckFileSignature(t)
  <2>1. ThreadsOK'
    <3>1. CASE Failed(t)
      BY <3>1, <1>f
    <3>2. CASE GoTo(t, "save") /\ UNCHANGED scratch
      BY <1>0, <3>2 DEF GoTo, control, scratch, ThreadsOK
    <3> QED
      BY <1>6, <3>1, <3>2 DEF CheckFileSignature
  <2> QED
    BY <1>0, <1>6, <1>r, <2>1 DEF CheckFileSignature, Received, env, disk, EnvOK, DiskOK, TypeOK, ThreadsOK
<1>7. CASE OpenFile(t)
  <2>0. << >> \in Seq(Chunk) /\ turn[t] \in Kinds
    BY <1>0 DEF ThreadsOK
  <2>1. CASE Failed(t) /\ UNCHANGED file
    <3>1. ThreadsOK' /\ DiskOK'
      BY <1>0, <1>7, <1>f, <2>1 DEF OpenFile, DiskOK
    <3> QED
      BY <1>0, <1>7, <1>h, <3>1 DEF OpenFile, env, EnvOK, DiskOK, TypeOK, ThreadsOK
  <2>2. CASE /\ buffer' = [buffer EXCEPT ![t] = responseData] /\ file' = [file EXCEPT ![turn[t]] = << >>]
             /\ GoTo(t, "write") /\ UNCHANGED <<want, meta, written>>
    <3>1. buffer' \in [Threads -> Seq(Chunk)]
      BY <1>0, <2>2 DEF ThreadsOK, HttpTypeOK
    <3>2. ThreadsOK'
      BY <1>0, <2>2, <3>1 DEF GoTo, control, ThreadsOK
    <3>3. DiskOK'
      BY <1>0, <1>7, <2>0, <2>2 DEF OpenFile, DiskOK
    <3> QED
      BY <1>0, <1>7, <1>h, <3>2, <3>3 DEF OpenFile, env, EnvOK, DiskOK, TypeOK, ThreadsOK
  <2> QED
    BY <1>7, <2>1, <2>2 DEF OpenFile
<1>8. CASE WriteChunk(t)
  <2>1. /\ written[t] \in Nat /\ buffer[t] \in Seq(Chunk) /\ turn[t] \in Kinds
        /\ written[t] < Len(buffer[t]) /\ file[turn[t]] \in Seq(Chunk)
    BY <1>0, <1>8 DEF WriteChunk, ThreadsOK, DiskOK
  <2>2. written[t] + 1 \in Nat \ {0} /\ buffer[t][written[t] + 1] \in Chunk
    BY <2>1
  <2>3. WriteAt(file[turn[t]], written[t] + 1, buffer[t][written[t] + 1]) \in Seq(Chunk)
    BY <2>1, <2>2, WriteAtType
  <2>4. ThreadsOK'
    <3>1. CASE Failed(t)
      BY <3>1, <1>f
    <3>2. CASE ~Failed(t)
      <4>1. written' = [written EXCEPT ![t] = written[t] + 1]
        BY <1>0, <1>8, <3>2 DEF WriteChunk
      <4> QED
        BY <1>0, <1>8, <2>1, <3>2, <4>1 DEF WriteChunk, control, ThreadsOK
    <3> QED
      BY <3>1, <3>2
  <2>5. DiskOK'
    <3>1. CASE UNCHANGED file
      BY <1>0, <1>8, <3>1 DEF WriteChunk, DiskOK
    <3>2. CASE file' = [file EXCEPT ![turn[t]] =
                          WriteAt(file[turn[t]], written[t] + 1, buffer[t][written[t] + 1])]
      BY <1>0, <1>8, <2>1, <2>3, <3>2 DEF WriteChunk, DiskOK
    <3> QED
      BY <1>8, <3>1, <3>2 DEF WriteChunk
  <2> QED
    BY <1>0, <1>8, <1>h, <2>4, <2>5 DEF WriteChunk, env, EnvOK, DiskOK, TypeOK, ThreadsOK
<1>9. CASE CloseFile(t)
  <2>1. ThreadsOK'
    BY <1>0, <1>9 DEF CloseFile, GoTo, control, scratch, ThreadsOK
  <2> QED
    BY <1>0, <1>9, <1>h, <2>1 DEF CloseFile, env, disk, EnvOK, DiskOK, TypeOK, ThreadsOK
<1>10. CASE ImportYellowPageData(t)
  <2>1. ThreadsOK'
    <3>1. CASE Failed(t)
      BY <3>1, <1>f
    <3>2. CASE GoTo(t, "record") /\ UNCHANGED scratch
      BY <1>0, <3>2 DEF GoTo, control, scratch, ThreadsOK
    <3> QED
      BY <1>10, <3>1, <3>2 DEF ImportYellowPageData
  <2>2. (EnvOK /\ DiskOK)'
    BY <1>0, <1>10 DEF ImportYellowPageData, EnvOK, DiskOK, Kinds
  <2> QED
    BY <1>10, <1>h, <2>1, <2>2 DEF ImportYellowPageData, EnvOK, DiskOK, TypeOK, ThreadsOK
<1>11. CASE UpdateOrInsertVersion(t)
  <2>1. ThreadsOK'
    BY <1>11, <1>f, <1>s DEF UpdateOrInsertVersion
  <2>2. want[t].version \in Version /\ turn[t] \in Kinds
    BY <1>0 DEF ThreadsOK, Chunk
  <2>3. DiskOK' /\ EnvOK'
    BY <1>0, <1>11, <2>2 DEF UpdateOrInsertVersion, DiskOK, EnvOK
  <2> QED
    BY <1>11, <1>h, <2>1, <2>3 DEF UpdateOrInsertVersion, EnvOK, DiskOK, TypeOK, ThreadsOK
<1> QED
  BY <1>1, <1>2, <1>3, <1>4, <1>5, <1>6, <1>7, <1>8, <1>9, <1>10, <1>11 DEF Thread

\* Files, table and records, and all that a thread in DownloadFiles() keeps, always have
\* their types, for any number of threads and tasks that end whenever they like.
THEOREM TypeCorrect == Spec => []TypeOK
<1>1. ASSUME TypeOK, [Next]_vars
      PROVE  TypeOK'
  <2>1. CASE Http
    <3>1. HttpTypeOK(Chunk)'
      BY <1>1, <2>1, StepType, TypeParts DEF Http
    <3> QED
      BY <1>1, <2>1, <3>1 DEF Http, env, disk, scratch, control, TypeOK
  <2>2. ASSUME NEW k \in Kinds, Publish(k)
        PROVE  TypeOK'
    <3>1. served[k] \in Version /\ served[k] < MaxVersion /\ served' = [served EXCEPT ![k] = served[k] + 1]
      BY <1>1, <2>2 DEF Publish, TypeOK
    <3>2. served' \in [Kinds -> Version]
      BY <1>1, <3>1, DownloadAssumption DEF TypeOK, Version
    <3> QED
      BY <1>1, <2>2, <3>2 DEF Publish, http, disk, scratch, control, TypeOK, HttpTypeOK
  <2>3. CASE UNCHANGED vars
    BY <1>1, <2>3 DEF vars, env, disk, http, scratch, control, TypeOK, HttpTypeOK
  <2> QED
    BY <1>1, <2>1, <2>2, <2>3, ThreadType, CrashType DEF Next
<1> QED
  BY <1>1, InitType, PTL DEF Spec

-----------------------------------------------------------------------------
(* One thread t, which makes a request when the task of the one before has delivered. *)

Running(s) == task[s].phase = "running"

\* Data that arrives now does no harm: t has no answer yet, or has given the request up.
Listening(t) ==
    \/ pc[t] \in {"idle", "request"}
    \/ req[t] \in {"clear", "timeout", "fail"}
    \/ req[t] \in {"prewait", "waiting", "woken"} /\ ~httpSuccess

\* At most one task has still to deliver, and none once t believes it has its answer.
OneTask(t) ==
    \A s \in Slots : Running(s) => Listening(t) /\ \A u \in Slots : Running(u) => u = s

\* The thread is in a request exactly while it waits for one; after the version document
\* comes the file.
Placed(t) ==
    /\ pc[t] = "await" <=> req[t] # "none"
    /\ pc[t] \in {"idle", "copy"} => stage[t] = "meta"
    /\ pc[t] \in {"save", "write", "import", "record"} => stage[t] = "file"
    /\ pc[t] = "import" => turn[t] = "yellowPage"

\* A version document that answers the request of t was published during the call.
Believable(c, t) ==
    c.part = "meta" =>
        /\ c.kind = turn[t]
        /\ asked[t][c.kind] <= c.version /\ stored[c.kind] <= c.version
        /\ c.version <= served[c.kind]

\* What was received for t, and what is still to come, is the answer to its last request.
Answering(t) == (pc[t] = "await" /\ req[t] \notin {"none", "timeout", "fail"}) \/ pc[t] = "copy"

AnswerInv(t) ==
    Answering(t) =>
        /\ \A i \in 1..Len(responseData) : Believable(responseData[i], t)
        /\ \A s \in Slots : Running(s) =>
             \A i \in 1..Len(task[s].rest) : Believable(task[s].rest[i], t)

\* The document whose file t downloads, newer than the record unless that could not be read.
Chosen(t) ==
    /\ want[t].part = "meta" /\ Believable(want[t], t)
    /\ ~faulted => stored[turn[t]] < want[t].version

Agreed(t) ==
    /\ stage[t] = "file" => Chosen(t) /\ meta[t] = want[t]
    /\ pc[t] = "copy" => Chosen(t) /\ IsMeta(responseData) /\ want[t] = Head(responseData)

Wanted(t) == File(turn[t], want[t].version)

\* The file on disk is as far as t has written it.
Content(t) ==
    /\ pc[t] \notin {"write", "import", "record"} => written[t] = 0
    /\ pc[t] = "save" => responseData = Wanted(t)
    /\ pc[t] = "write" =>
         /\ buffer[t] = Wanted(t)
         /\ written[t] <= 2 /\ Len(file[turn[t]]) = written[t]
         /\ \A i \in 1..written[t] : file[turn[t]][i] = buffer[t][i]
    /\ pc[t] \in {"import", "record"} => file[turn[t]] = Wanted(t)
    /\ pc[t] = "record" /\ turn[t] = "yellowPage" => Head(table).version >= want[t].version

\* A file is complete and as new as its record, or shorter and to be downloaded again.
Whole(k) == \E v \in Version : file[k] = File(k, v) /\ stored[k] <= v
Partial(k) == Len(file[k]) < 2 /\ (~faulted => stored[k] < served[k])

FileInv == \A k \in Kinds : stored[k] <= served[k] /\ (Whole(k) \/ Partial(k))

\* What the call was asked for is recorded, or at least on disk.
Current(k, t) ==
    \/ stored[k] >= asked[t][k]
    \/ faulted /\ stored[k] = 0 /\ Installed(k) >= asked[t][k]

\* The files that are done are current, and t works on another one.
CurrentInv(t) ==
    /\ \A k \in Kinds : asked[t][k] <= served[k]
    /\ \A k \in okay[t] : Current(k, t)
    /\ pc[t] # "idle" => okay[t] \subseteq {"location"} /\ (turn[t] = "location" => okay[t] = {})
    /\ result[t] = "success" => pc[t] = "idle" /\ okay[t] = Kinds

ThreadInv(t) == Placed(t) /\ AnswerInv(t) /\ Agreed(t) /\ Content(t) /\ CurrentInv(t)
StoreInv == FileInv /\ YellowPagesImported
SerialInv(t) == OneTask(t) /\ ThreadInv(t) /\ StoreInv

\* A complete copy is installed as its version.
LEMMA WholeInstalled ==
    ASSUME NEW k \in Kinds, NEW v \in Version, file[k] = File(k, v)
    PROVE  Installed(k) = v
<1>1. File(k, v) # << >> /\ Head(File(k, v)).version = v
  BY FileType, ChunkType
<1> QED
  BY <1>1 DEF Installed, Complete

\* The numbers and records that a step of t compares.
LEMMA Values ==
    ASSUME TypeOK, NEW t \in Threads
    PROVE  /\ turn[t] \in Kinds /\ want[t] \in Chunk /\ want[t].version \in Int /\ want[t].version \in Version
           /\ \A k \in Kinds : served[k] \in Int /\ stored[k] \in Int /\ asked[t][k] \in Int
           /\ \A k \in Kinds : served[k] \in Version /\ stored[k] \in Version /\ stored[k] >= 0
           /\ okay[t] \subseteq Kinds /\ faulted \in BOOLEAN
<1>1. want[t] \in Chunk /\ turn[t] \in Kinds /\ okay[t] \subseteq Kinds /\ faulted \in BOOLEAN
  BY DEF TypeOK
<1>2. want[t].version \in Version
  BY <1>1 DEF Chunk
<1>3. \A k \in Kinds : served[k] \in Version /\ stored[k] \in Version /\ asked[t][k] \in Version
  BY DEF TypeOK
<1> QED
  BY <1>1, <1>2, <1>3, VersionType

\* What is current stays so while the record stands and the file is not touched.
LEMMA CurrentStays ==
    ASSUME NEW t \in Threads, NEW k \in Kinds, Current(k, t), stored'[k] = stored[k], file'[k] = file[k],
           UNCHANGED asked, faulted => faulted'
    PROVE  Current(k, t)'
<1>1. Installed(k)' = Installed(k)
  BY DEF Installed, Complete
<1> QED
  BY <1>1 DEF Current

LEMMA CurrentKept ==
    ASSUME NEW t \in Threads, TypeOK, CurrentInv(t), UNCHANGED <<turn, okay, result, asked, stored>>,
           \A k \in okay[t] : file'[k] = file[k],
           faulted => faulted', \A k \in Kinds : served'[k] \in Int /\ served'[k] >= served[k],
           pc'[t] = "idle" <=> pc[t] = "idle"
    PROVE  CurrentInv(t)'
<1>1. okay[t] \subseteq Kinds
  BY DEF TypeOK
<1>2. \A k \in okay'[t] : Current(k, t)'
  BY <1>1, CurrentStays DEF CurrentInv
<1>3. \A k \in Kinds : asked'[t][k] <= served'[k]
  BY Values DEF CurrentInv
<1> QED
  BY <1>2, <1>3 DEF CurrentInv

LEMMA SerialInit ==
    ASSUME NEW t \in Threads, Init
    PROVE  SerialInv(t)
<1>1. \A s \in Slots : ~Running(s)
  BY FreeTaskType DEF Init, HttpInit, Running
<1>2. OneTask(t)
  BY <1>1 DEF OneTask
<1>3. /\ req[t] = "none" /\ pc[t] = "idle" /\ stage[t] = "meta" /\ written[t] = 0 /\ okay[t] = {} /\ result[t] = "none"
      /\ asked[t] = served
  BY DEF Init, HttpInit, ThreadInit
<1>4. \A k \in Kinds : served[k] \in Int /\ served[k] >= 0 /\ stored[k] = 0 /\ file[k] = File(k, 0)
  BY VersionType DEF Init
<1>5. ThreadInv(t)
  BY <1>3, <1>4 DEF ThreadInv, Placed, AnswerInv, Answering, Agreed, Content, CurrentInv
<1>6. FileInv
  BY <1>4, VersionType DEF FileInv, Whole
<1>7. YellowPagesImported
  BY <1>4, VersionType DEF Init, YellowPagesImported, Kinds
<1> QED
  BY <1>2, <1>5, <1>6, <1>7 DEF SerialInv, StoreInv

LEMMA SerialCrash ==
    ASSUME TypeOK, NEW t \in Threads, SerialInv(t), Crash
    PROVE  SerialInv(t)'
<1>1. \A s \in Slots : ~Running(s)'
  BY FreeTaskType DEF Crash, Running
<1>2. OneTask(t)'
  BY <1>1 DEF OneTask
<1>3. /\ req'[t] = "none" /\ pc'[t] = "idle" /\ stage'[t] = "meta" /\ written'[t] = 0 /\ okay'[t] = {} /\ result'[t] = "none"
      /\ asked'[t] = served /\ served' = served
  BY DEF Crash, env
<1>4. ThreadInv(t)'
  BY <1>3, Values DEF ThreadInv, Placed, AnswerInv, Answering, Agreed, Content, CurrentInv
<1>5. StoreInv'
  BY DEF Crash, env, disk, SerialInv, StoreInv, FileInv, Whole, Partial, YellowPagesImported
<1> QED
  BY <1>2, <1>4, <1>5 DEF SerialInv

LEMMA SerialPublish ==
    ASSUME TypeOK, NEW t \in Threads, SerialInv(t), NEW k \in Kinds, Publish(k)
    PROVE  SerialInv(t)'
<1>1. \A j \in Kinds : served'[j] \in Int /\ served'[j] >= served[j]
  <2>1. served' = [served EXCEPT ![k] = @ + 1]
    BY DEF Publish
  <2>2. served \in [Kinds -> Version] /\ \A j \in Kinds : served[j] \in Int
    BY Values DEF TypeOK
  <2> QED
    BY <2>1, <2>2
<1>2. UNCHANGED <<faulted, disk, http, pc, scratch, control>>
  BY DEF Publish
<1>3. OneTask(t)' /\ Placed(t)' /\ Content(t)'
  BY <1>2 DEF http, scratch, control, disk, SerialInv, ThreadInv, OneTask, Listening, Running, Placed,
              Content, Wanted
<1>4. ASSUME NEW c \in Chunk, Believable(c, t)
      PROVE  Believable(c, t)'
  <2>1. c.kind \in Kinds /\ c.version \in Int
    BY VersionType DEF Chunk
  <2>2. asked' = asked /\ turn' = turn /\ stored' = stored
    BY <1>2 DEF control, disk
  <2> QED
    BY <1>1, <1>4, <2>1, <2>2, Values DEF Believable
<1>5. AnswerInv(t)'
  <2>1. responseData \in Seq(Chunk) /\ \A s \in Slots : task[s].rest \in Seq(Chunk)
    BY DEF TypeOK, HttpTypeOK, TaskState
  <2> QED
    BY <1>2, <1>4, <2>1 DEF http, control, SerialInv, ThreadInv, AnswerInv, Answering, Running
<1>6. Agreed(t)'
  BY <1>2, <1>4, Values DEF http, scratch, control, disk, SerialInv, ThreadInv, Agreed, Chosen, IsMeta
<1>7. CurrentInv(t)'
  BY <1>1, <1>2, CurrentKept DEF control, disk, SerialInv, ThreadInv
<1>8. StoreInv'
  BY <1>1, <1>2, Values DEF disk, SerialInv, StoreInv, FileInv, Whole, Partial, YellowPagesImported
<1> QED
  BY <1>3, <1>5, <1>6, <1>7, <1>8 DEF SerialInv, ThreadInv

\* What t has on disk, in its records and in its hands, while the http variables change.
LEMMA HttpKept ==
    ASSUME NEW t \in Threads, TypeOK, SerialInv(t), UNCHANGED <<env, disk, pc, scratch, control>>,
           req[t] = "none" <=> req'[t] = "none",
           UNCHANGED responseData \/ pc[t] \notin {"copy", "save"}
    PROVE  Placed(t)' /\ Agreed(t)' /\ Content(t)' /\ CurrentInv(t)' /\ StoreInv'
<1>1. UNCHANGED <<pc, stage, turn, asked, stored, served, faulted, want, meta, buffer, written, file,
                 okay, result, table>>
  BY DEF env, disk, scratch, control
<1>2. CurrentInv(t)'
  BY <1>1, CurrentKept, Values DEF SerialInv, ThreadInv
<1>3. Placed(t)' /\ Agreed(t)'
  BY <1>1 DEF SerialInv, ThreadInv, Placed, Agreed, Chosen, Believable
<1>4. Content(t)'
  BY <1>1 DEF SerialInv, ThreadInv, Content, Wanted
<1>5. StoreInv'
  BY <1>1 DEF SerialInv, StoreInv, FileInv, Whole, Partial, YellowPagesImported
<1> QED
  BY <1>2, <1>3, <1>4, <1>5

LEMMA SerialRequester ==
    ASSUME NEW t, Threads = {t}, TypeOK, SerialInv(t),
           Requester(t) \/ WaitTimeout(t) \/ SpuriousWakeup(t), UNCHANGED <<env, disk, pc, scratch, control>>
    PROVE  SerialInv(t)'
<1>1. /\ UNCHANGED <<responseData, task>>
      /\ \/ req[t] = "clear" /\ req'[t] = "prewait" /\ ~httpSuccess'
         \/ req[t] = "prewait" /\ req'[t] = "waiting" /\ UNCHANGED httpSuccess
         \/ req[t] = "waiting" /\ req'[t] = "woken" /\ UNCHANGED httpSuccess
         \/ req[t] \in {"waiting", "woken"} /\ req'[t] \in {"timeout", "fail"}
         \/ req[t] = "woken" /\ req'[t] = "ok" /\ httpSuccess
  BY DEF Requester, SpuriousWakeup, ClearSuccess, BeginWait, WaitTimeout, CheckSuccess, Move,
         TypeOK, HttpTypeOK
<1>2. UNCHANGED <<pc, turn, asked, stored, served>> /\ pc[t] = "await"
  BY <1>1 DEF SerialInv, ThreadInv, Placed, env, disk, control
<1>3. OneTask(t)'
  BY <1>1, <1>2 DEF SerialInv, OneTask, Listening, Running
<1>4. Placed(t)' /\ Agreed(t)' /\ Content(t)' /\ CurrentInv(t)' /\ StoreInv'
  BY <1>1, HttpKept
<1>5. AnswerInv(t)'
  <2>1. ASSUME Answering(t)'
        PROVE  Answering(t)
    BY <1>1, <1>2, <2>1 DEF Answering
  <2>2. \A c : Believable(c, t) => Believable(c, t)'
    BY <1>2 DEF Believable
  <2> QED
    BY <1>1, <2>1, <2>2 DEF SerialInv, ThreadInv, AnswerInv, Running
<1> QED
  BY <1>3, <1>4, <1>5 DEF SerialInv, ThreadInv

LEMMA SerialTask ==
    ASSUME NEW t, Threads = {t}, TypeOK, SerialInv(t), NEW s \in Slots, HttpTask(s),
           UNCHANGED <<env, disk, pc, scratch, control>>
    PROVE  SerialInv(t)'
<1>1. /\ task[s] \in TaskState(Chunk) /\ task[s].rest \in Seq(Chunk)
      /\ responseData \in Seq(Chunk)
      /\ task \in [Slots -> TaskState(Chunk)] /\ req \in [Threads -> ReqState]
  BY DEF TypeOK, HttpTypeOK, TaskState
<1>2. \A u \in Slots : u # s => task'[u] = task[u]
  BY <1>1 DEF HttpTask, OnDataReceive, OnSuccess, OnSuccessNotify, OnFail
<1>3. UNCHANGED <<pc, stage, turn, asked, stored, served>>
  BY DEF env, disk, control
<1>4. \A c : Believable(c, t) => Believable(c, t)'
  BY <1>3 DEF Believable
<1>5. CASE OnDataReceive(s)
  <2>1. /\ task[s].rest # << >> /\ responseData' = Append(responseData, Head(task[s].rest))
        /\ task'[s].rest = Tail(task[s].rest) /\ Running(s) /\ Running(s)'
        /\ UNCHANGED <<httpSuccess, req>>
    BY <1>1, <1>5 DEF OnDataReceive, TaskState, Running
  <2>2. Listening(t) /\ Listening(t)' /\ \A u \in Slots : u # s => ~Running(u) /\ ~Running(u)'
    BY <1>2, <1>3, <2>1 DEF SerialInv, OneTask, Listening, Running
  <2>3. OneTask(t)'
    BY <2>2 DEF OneTask
  <2>4. pc[t] \in {"idle", "request", "await"}
    BY <2>2 DEF Listening, SerialInv, ThreadInv, Placed
  <2>5. Placed(t)' /\ Agreed(t)' /\ Content(t)' /\ CurrentInv(t)' /\ StoreInv'
    BY <2>1, <2>4, HttpKept
  <2>6. AnswerInv(t)'
    <3>1. Answering(t)' => Answering(t)
      BY <1>3, <2>1 DEF Answering
    <3>2. ASSUME Answering(t)
          PROVE  /\ \A i \in 1..Len(responseData) : Believable(responseData[i], t)
                 /\ \A i \in 1..Len(task[s].rest) : Believable(task[s].rest[i], t)
      BY <2>1, <3>2 DEF SerialInv, ThreadInv, AnswerInv
    <3>3. /\ Head(task[s].rest) = task[s].rest[1] /\ 1 \in 1..Len(task[s].rest)
          /\ Tail(task[s].rest) \in Seq(Chunk) /\ Len(Tail(task[s].rest)) = Len(task[s].rest) - 1
          /\ \A i \in 1..Len(Tail(task[s].rest)) : Tail(task[s].rest)[i] = task[s].rest[i + 1]
      BY <1>1, <2>1, HeadTailProperties
    <3>4. ASSUME Answering(t), NEW i \in 1..Len(task'[s].rest)
          PROVE  Believable(task'[s].rest[i], t)
      <4>1. task'[s].rest[i] = task[s].rest[i + 1] /\ i + 1 \in 1..Len(task[s].rest)
        <5>1. Len(task[s].rest) \in Nat
          BY <1>1
        <5> QED
          BY <2>1, <3>3, <5>1
      <4>2. Believable(task[s].rest[i + 1], t)
        BY <3>2, <3>4, <4>1
      <4> QED
        BY <4>1, <4>2
    <3>5. Answering(t) => \A i \in 1..Len(responseData') : Believable(responseData'[i], t)
      BY <1>1, <2>1, <3>2, <3>3, AppendProperties
    <3>6. \A u \in Slots : Running(u)' => u = s
      BY <2>2
    <3> QED
      BY <1>3, <3>1, <3>4, <3>5, <3>6 DEF AnswerInv, Believable
  <2> QED
    BY <2>3, <2>5, <2>6 DEF SerialInv, ThreadInv
<1>6. CASE OnSuccess(s) \/ OnSuccessNotify(s) \/ OnFail(s)
  <2>1. UNCHANGED responseData /\ ~Running(s)'
    BY <1>1, <1>6, FreeTaskType DEF OnSuccess, OnSuccessNotify, OnFail, TaskState, Running
  <2>2. req'[t] = req[t] \/ (req[t] = "waiting" /\ req'[t] = "woken")
    BY <1>1, <1>6 DEF OnSuccess, OnSuccessNotify, OnFail, NotifyOne, Waiters, Move
  <2>3. \A u \in Slots : Running(u)' => Running(u) /\ task'[u] = task[u]
    BY <1>2, <2>1 DEF Running
  <2>4. OneTask(t)'
    <3>1. CASE OnSuccess(s)
      <4>1. Running(s)
        BY <3>1 DEF OnSuccess, Running
      <4>2. \A u \in Slots : ~Running(u)'
        BY <2>1, <2>3, <4>1 DEF SerialInv, OneTask
      <4> QED
        BY <4>2 DEF OneTask
    <3>2. CASE OnSuccessNotify(s) \/ OnFail(s)
      <4>1. UNCHANGED httpSuccess
        BY <3>2 DEF OnSuccessNotify, OnFail
      <4>2. Listening(t) => Listening(t)'
        BY <1>3, <2>2, <4>1 DEF Listening
      <4> QED
        BY <2>3, <4>2 DEF SerialInv, OneTask
    <3> QED
      BY <1>6, <3>1, <3>2
  <2>5. Placed(t)' /\ Agreed(t)' /\ Content(t)' /\ CurrentInv(t)' /\ StoreInv'
    BY <2>1, <2>2, HttpKept
  <2>6. AnswerInv(t)'
    BY <1>3, <1>4, <2>1, <2>2, <2>3 DEF SerialInv, ThreadInv, AnswerInv, Answering
  <2> QED
    BY <2>4, <2>5, <2>6 DEF SerialInv, ThreadInv
<1> QED
  BY <1>5, <1>6 DEF HttpTask

LEMMA SerialRequest ==
    ASSUME NEW t, Threads = {t}, Stragglers = FALSE, TypeOK, SerialInv(t), Request(t)
    PROVE  SerialInv(t)'
<1>1. /\ pc[t] = "request" /\ SendRequest(t, Bodies(t)) /\ pc'[t] = "await" /\ req[t] = "none"
      /\ UNCHANGED <<stage, turn, asked, stored, served, faulted, want, meta,
                    buffer, written, file, okay, result, table>>
  BY DEF Request, SendRequest, GoTo, TypeOK, env, disk, scratch, control
<1>2. req'[t] \in {"clear", "fail"}
  BY <1>1 DEF SendRequest, Move, TypeOK, HttpTypeOK
<1>3. /\ \A s \in Slots : ~Running(s)
      /\ task \in [Slots -> TaskState(Chunk)]
  BY DEF Request, MayRequest, NoneRunning, Running, TypeOK, HttpTypeOK, TaskState
<1>4. Placed(t)' /\ Agreed(t)' /\ Content(t)' /\ CurrentInv(t)' /\ StoreInv'
  <2>1. CurrentInv(t)'
    BY <1>1, CurrentKept, Values DEF SerialInv, ThreadInv
  <2> QED
    BY <1>1, <1>2, <2>1 DEF SerialInv, ThreadInv, Placed, Agreed, Chosen, Believable, Content, Wanted,
                            StoreInv, FileInv, Whole, Partial, YellowPagesImported
<1>5. ASSUME NEW body \in Bodies(t), NEW i \in 1..Len(body)
      PROVE  Believable(body[i], t)'
  <2>1. /\ turn[t] \in Kinds /\ served[turn[t]] \in Version /\ served[turn[t]] \in Int
        /\ want[t].kind \in Kinds /\ want[t].version \in Version
        /\ asked[t][turn[t]] <= served[turn[t]] /\ stored[turn[t]] <= served[turn[t]]
    BY Values DEF SerialInv, ThreadInv, CurrentInv, StoreInv, FileInv, Chunk
  <2>2. CASE body = << Junk >>
    BY <2>2, ChunkType DEF Believable
  <2>3. CASE body = << Meta(turn[t], served[turn[t]]) >>
    <3>1. body[i] = Meta(turn[t], served[turn[t]])
      BY <2>3
    <3> QED
      BY <1>1, <2>1, <3>1 DEF Believable, Meta
  <2>4. CASE body = File(want[t].kind, want[t].version)
    BY <2>4, <2>1 DEF File, Believable
  <2> QED
    BY <1>5, <2>2, <2>3, <2>4 DEF Bodies
<1>6. CASE req'[t] = "fail"
  <2>1. UNCHANGED task
    BY <1>1, <1>6 DEF SendRequest, Move, TypeOK, HttpTypeOK
  <2>2. OneTask(t)' /\ AnswerInv(t)'
    BY <1>1, <1>3, <1>6, <2>1 DEF OneTask, Running, AnswerInv, Answering
  <2> QED
    BY <1>4, <2>2 DEF SerialInv, ThreadInv
<1>7. CASE req'[t] = "clear"
  <2>1. responseData' = << >>
    BY <1>1, <1>7 DEF SendRequest, Move, TypeOK, HttpTypeOK
  <2>2. CASE UNCHANGED task
    <3>1. OneTask(t)' /\ AnswerInv(t)'
      BY <1>3, <2>1, <2>2 DEF OneTask, Running, AnswerInv
    <3> QED
      BY <1>4, <3>1 DEF SerialInv, ThreadInv
  <2>3. ASSUME NEW s \in Slots, NEW body \in Bodies(t),
               task' = [task EXCEPT ![s] = [phase |-> "running", owner |-> t, rest |-> body]]
        PROVE  SerialInv(t)'
    <3>1. /\ task'[s] = [phase |-> "running", owner |-> t, rest |-> body]
          /\ \A u \in Slots : u # s => ~Running(u)'
      BY <1>3, <2>3 DEF Running
    <3>2. OneTask(t)'
      BY <1>7, <3>1 DEF OneTask, Listening
    <3>3. AnswerInv(t)'
      BY <1>5, <2>1, <3>1 DEF AnswerInv
    <3> QED
      BY <1>4, <3>2, <3>3 DEF SerialInv, ThreadInv
  <2> QED
    BY <1>1, <1>7, <2>2, <2>3 DEF SendRequest, Move, TypeOK, HttpTypeOK
<1> QED
  BY <1>2, <1>6, <1>7

\* An attempt that ends leaves nothing that the next one, or the next call, could mistake.
LEMMA Ended ==
    ASSUME NEW t \in Threads, TypeOK, ThreadInv(t), pc[t] # "idle", req'[t] = "none", UNCHANGED served,
           \A k \in okay[t] : Current(k, t)',
           Failed(t) \/ (Succeeded(t) /\ \A k \in Kinds : k = turn[t] => Current(k, t)')
    PROVE  ThreadInv(t)'
<1>1. /\ pc'[t] \in {"request", "idle"} /\ stage'[t] = "meta" /\ written'[t] = 0 /\ asked' = asked
      /\ turn'[t] \in Kinds
  BY DEF Failed, Succeeded, Settle, ClearScratch, TypeOK, Kinds
<1>2. \A k \in okay'[t] : Current(k, t)'
  <2>1. \A k \in okay'[t] : k \in okay[t] \/ (k = turn[t] /\ k \in Kinds /\ Succeeded(t))
                           \/ (k = turn[t] /\ Failed(t) /\ k \in okay[t])
    BY DEF Failed, Succeeded, Settle, TypeOK
  <2>2. CASE Failed(t)
    <3>1. okay'[t] = okay[t]
      BY <2>2 DEF Failed, Settle, TypeOK
    <3> QED
      BY <3>1
  <2>3. CASE Succeeded(t) /\ \A k \in Kinds : k = turn[t] => Current(k, t)'
    <3>1. okay'[t] = okay[t] \cup {turn[t]} /\ turn[t] \in Kinds
      BY <2>3 DEF Succeeded, Settle, TypeOK
    <3> QED
      BY <2>3, <3>1
  <2> QED
    BY <2>2, <2>3
<1>3. /\ okay[t] \subseteq {"location"} /\ (turn[t] = "location" => okay[t] = {}) /\ result[t] # "success"
      /\ turn[t] \in Kinds /\ okay[t] \subseteq Kinds
  BY DEF ThreadInv, CurrentInv, TypeOK
<1>4. /\ pc'[t] # "idle" => okay'[t] \subseteq {"location"} /\ (turn'[t] = "location" => okay'[t] = {})
      /\ result'[t] = "success" => pc'[t] = "idle" /\ okay'[t] = Kinds
  <2>1. CASE okay' = okay /\ turn' = turn /\ result' = result
    BY <1>3, <2>1
  <2>2. ASSUME NEW done, done \subseteq okay[t] \cup {turn[t]}, Settle(t, done)
        PROVE  /\ pc'[t] # "idle" => okay'[t] \subseteq {"location"} /\ (turn'[t] = "location" => okay'[t] = {})
               /\ result'[t] = "success" => pc'[t] = "idle" /\ okay'[t] = Kinds
    BY <1>3, <2>2 DEF Settle, TypeOK
  <2> QED
    BY <2>1, <2>2 DEF Failed, Succeeded
<1>5. CurrentInv(t)'
  BY <1>1, <1>2, <1>4 DEF ThreadInv, CurrentInv
<1>6. Placed(t)' /\ AnswerInv(t)' /\ Agreed(t)' /\ Content(t)'
  BY <1>1 DEF Placed, AnswerInv, Answering, Agreed, Content
<1> QED
  BY <1>5, <1>6 DEF ThreadInv

\* So does one that leaves the disk and the records alone.
LEMMA EndedSame ==
    ASSUME NEW t \in Threads, TypeOK, ThreadInv(t), pc[t] # "idle", req'[t] = "none",
           UNCHANGED <<served, disk>>, faulted => faulted',
           Failed(t) \/ (Succeeded(t) /\ Current(turn[t], t))
    PROVE  ThreadInv(t)'
<1>1. UNCHANGED <<file, stored>> /\ okay[t] \subseteq Kinds
  BY DEF disk, TypeOK
<1>2. UNCHANGED asked
  BY DEF Failed, Succeeded
<1>3. \A k \in Kinds : Current(k, t) => Current(k, t)'
  BY <1>1, <1>2, CurrentStays
<1>4. \A k \in okay[t] : Current(k, t)'
  BY <1>1, <1>3 DEF ThreadInv, CurrentInv
<1> QED
  BY <1>3, <1>4, Ended

\* No task delivers after a step that leaves all of them alone: none did, or it does no harm.
LEMMA QuietStep ==
    ASSUME NEW t, OneTask(t), UNCHANGED task, ~Listening(t) \/ Listening(t)'
    PROVE  OneTask(t)'
BY DEF OneTask, Running

LEMMA SerialCall ==
    ASSUME NEW t, Threads = {t}, TypeOK, SerialInv(t), Call(t)
    PROVE  SerialInv(t)'
<1>1. /\ pc[t] = "idle" /\ pc'[t] = "request" /\ req[t] = "none"
      /\ okay'[t] = {} /\ result'[t] = "none" /\ asked'[t] = served
      /\ UNCHANGED <<env, disk, http, scratch, turn, stage>>
  BY DEF Call, SerialInv, ThreadInv, Placed, TypeOK
<1>2. OneTask(t)'
  BY <1>1, QuietStep DEF SerialInv, http, Listening
<1>3. ThreadInv(t)'
  BY <1>1, Values DEF SerialInv, ThreadInv, Placed, AnswerInv, Answering, Agreed, Content, CurrentInv,
                      http, scratch, env
<1>4. StoreInv'
  BY <1>1 DEF SerialInv, StoreInv, FileInv, Whole, Partial, YellowPagesImported, env, disk
<1> QED
  BY <1>2, <1>3, <1>4 DEF SerialInv

\* Steps that leave the disk and the records alone.
LEMMA StoreSame ==
    ASSUME StoreInv, UNCHANGED <<served, disk>>, faulted => faulted'
    PROVE  StoreInv'
BY DEF StoreInv, FileInv, Whole, Partial, YellowPagesImported, disk

LEMMA SerialFailed ==
    ASSUME NEW t, Threads = {t}, TypeOK, SerialInv(t), RequestFailed(t)
    PROVE  SerialInv(t)'
<1>1. /\ req'[t] = "none" /\ UNCHANGED <<task, env, disk>> /\ Failed(t) /\ pc[t] = "await"
      /\ pc'[t] \in {"request", "idle"}
  BY DEF RequestFailed, Return, Move, Failed, Settle, TypeOK, HttpTypeOK
<1>2. OneTask(t)'
  BY <1>1, QuietStep DEF SerialInv, Listening
<1>3. ThreadInv(t)'
  BY <1>1, EndedSame DEF SerialInv, env
<1>4. StoreInv'
  BY <1>1, StoreSame DEF SerialInv, env
<1> QED
  BY <1>2, <1>3, <1>4 DEF SerialInv

LEMMA SerialCheckVersion ==
    ASSUME NEW t, Threads = {t}, TypeOK, SerialInv(t), CheckVersionAndParseDowloadURL(t)
    PROVE  SerialInv(t)'
<1>1. /\ pc[t] = "await" /\ stage[t] = "meta" /\ req[t] = "ok" /\ req'[t] = "none"
      /\ UNCHANGED <<task, responseData, served, disk>>
  BY DEF CheckVersionAndParseDowloadURL, Received, Return, Move, TypeOK, HttpTypeOK
<1>2. OneTask(t)'
  BY <1>1, QuietStep DEF SerialInv, Listening
<1>f. faulted => faulted'
  BY Zenon DEF CheckVersionAndParseDowloadURL
<1>3. StoreInv'
  BY <1>1, <1>f, StoreSame DEF SerialInv
<1>4. ASSUME IsMeta(responseData)
      PROVE  /\ Head(responseData) \in Chunk /\ Head(responseData).part = "meta"
             /\ Believable(Head(responseData), t)
  <2>1. responseData \in Seq(Chunk) /\ responseData # << >>
    BY <1>4 DEF IsMeta, TypeOK, HttpTypeOK
  <2>2. Head(responseData) = responseData[1] /\ 1 \in 1..Len(responseData)
    BY <2>1
  <2> QED
    BY <1>1, <1>4, <2>1, <2>2 DEF IsMeta, SerialInv, ThreadInv, AnswerInv, Answering
<1>5. CASE Failed(t)
  BY <1>1, <1>f, <1>2, <1>3, <1>5, EndedSame DEF SerialInv
<1>6. ASSUME NEW old \in QueryStored(turn[t]), IsMeta(responseData),
             faulted' = (faulted \/ old # stored[turn[t]]),
             old >= Head(responseData).version, Succeeded(t)
      PROVE  SerialInv(t)'
  <2>1. old <= stored[turn[t]]
    BY <1>6, Values DEF QueryStored
  <2>2. Head(responseData).version \in Int
    BY <1>4, <1>6, VersionType DEF Chunk
  <2>3. stored[turn[t]] >= asked[t][turn[t]]
    BY <1>4, <1>6, <2>1, <2>2, Values DEF Believable, QueryStored
  <2> QED
    BY <1>1, <1>f, <1>2, <1>3, <1>6, <2>3, EndedSame DEF SerialInv, Current
<1>7. ASSUME NEW old \in QueryStored(turn[t]), IsMeta(responseData),
             faulted' = (faulted \/ old # stored[turn[t]]),
             old < Head(responseData).version,
             want' = [want EXCEPT ![t] = Head(responseData)], GoTo(t, "copy"),
             UNCHANGED <<meta, buffer, written>>
      PROVE  SerialInv(t)'
  <2>1. /\ want'[t] = Head(responseData) /\ pc'[t] = "copy"
        /\ UNCHANGED <<turn, stage, okay, result, asked, stored>>
    BY <1>1, <1>7 DEF GoTo, control, disk, TypeOK
  <2>2. Chosen(t)'
    <3>1. Believable(want[t], t)'
      BY <1>1, <1>4, <1>7, <2>1 DEF Believable
    <3>2. ~faulted' => old = stored[turn[t]]
      BY <1>7
    <3> QED
      BY <1>4, <1>7, <2>1, <3>1, <3>2 DEF Chosen
  <2>3. Placed(t)' /\ Agreed(t)'
    BY <1>1, <1>7, <2>1, <2>2 DEF SerialInv, ThreadInv, Placed, Agreed
  <2>4. AnswerInv(t)'
    BY <1>1, <2>1 DEF SerialInv, ThreadInv, AnswerInv, Answering, Believable, Running
  <2>5. Content(t)' /\ CurrentInv(t)'
    <3>1. CurrentInv(t)'
      BY <1>1, <1>f, <2>1, CurrentKept, Values DEF SerialInv, ThreadInv, disk
    <3> QED
      BY <1>1, <1>7, <2>1, <3>1 DEF SerialInv, ThreadInv, Content
  <2> QED
    BY <1>2, <1>3, <2>3, <2>4, <2>5 DEF SerialInv, ThreadInv
<1> QED
  BY <1>5, <1>6, <1>7 DEF CheckVersionAndParseDowloadURL

LEMMA SerialCopy ==
    ASSUME NEW t, Threads = {t}, TypeOK, SerialInv(t), CopyResponse(t)
    PROVE  SerialInv(t)'
<1>1. /\ pc[t] = "copy" /\ pc'[t] = "request" /\ req[t] = "none" /\ stage'[t] = "file"
      /\ meta'[t] = want[t]
      /\ UNCHANGED <<env, disk, http, want, written, turn, okay, result, asked>>
  BY DEF CopyResponse, SerialInv, ThreadInv, Placed, Agreed, TypeOK
<1>2. OneTask(t)'
  BY <1>1, QuietStep DEF SerialInv, http, Listening
<1>3. StoreInv'
  BY <1>1, StoreSame DEF SerialInv, env
<1>4. CurrentInv(t)'
  BY <1>1, CurrentKept, Values DEF SerialInv, ThreadInv, env, disk
<1>5. ThreadInv(t)'
  BY <1>1, <1>4 DEF SerialInv, ThreadInv, Placed, AnswerInv, Answering, Agreed, Chosen, Believable, Content,
                    http, env, disk
<1> QED
  BY <1>2, <1>3, <1>5 DEF SerialInv

LEMMA SerialSignature ==
    ASSUME NEW t, Threads = {t}, TypeOK, SerialInv(t), CheckFileSignature(t)
    PROVE  SerialInv(t)'
<1>1. /\ pc[t] = "await" /\ stage[t] = "file" /\ req[t] = "ok" /\ req'[t] = "none"
      /\ UNCHANGED <<task, responseData, env, disk>>
  BY DEF CheckFileSignature, Received, Return, Move, TypeOK, HttpTypeOK
<1>2. OneTask(t)' /\ StoreInv'
  BY <1>1, QuietStep, StoreSame DEF SerialInv, env, Listening
<1>3. CASE Failed(t)
  BY <1>1, <1>2, <1>3, EndedSame DEF SerialInv, env
<1>4. CASE SignatureMatches(t) /\ GoTo(t, "save") /\ UNCHANGED scratch
  <2>1. pc'[t] = "save" /\ UNCHANGED <<turn, stage, want, meta, written, okay, result, asked, stored, served, faulted>>
    BY <1>1, <1>4 DEF GoTo, control, scratch, env, disk, TypeOK
  <2>2. meta[t] = want[t] /\ want[t].kind = turn[t]
    BY <1>1 DEF SerialInv, ThreadInv, Agreed, Chosen, Believable
  <2>c. CurrentInv(t)'
    BY <1>1, <2>1, CurrentKept, Values DEF SerialInv, ThreadInv, env, disk
  <2>3. Placed(t)' /\ Agreed(t)' /\ AnswerInv(t)'
    BY <1>1, <2>1 DEF SerialInv, ThreadInv, Placed, Agreed, Chosen, Believable, AnswerInv, Answering
  <2>4. Content(t)'
    BY <1>1, <1>4, <2>1, <2>2 DEF SignatureMatches, SerialInv, ThreadInv, Content, Wanted
  <2> QED
    BY <1>2, <2>c, <2>3, <2>4 DEF SerialInv, ThreadInv
<1> QED
  BY <1>3, <1>4 DEF CheckFileSignature

\* What an attempt that fails in the middle keeps, when the disk is left alone.
LEMMA SerialGivesUp ==
    ASSUME NEW t, Threads = {t}, TypeOK, SerialInv(t), Failed(t), pc[t] \notin {"await", "idle"},
           UNCHANGED <<env, disk, http>>
    PROVE  SerialInv(t)'
<1>1. req[t] = "none" /\ pc'[t] \in {"request", "idle"}
  BY DEF SerialInv, ThreadInv, Placed, Failed, Settle, TypeOK, HttpTypeOK
<1>2. OneTask(t)' /\ StoreInv'
  BY <1>1, QuietStep, StoreSame DEF SerialInv, env, http, Listening
<1>3. ThreadInv(t)'
  BY <1>1, EndedSame DEF SerialInv, env, http
<1> QED
  BY <1>2, <1>3 DEF SerialInv

LEMMA SerialOpen ==
    ASSUME NEW t, Threads = {t}, TypeOK, SerialInv(t), OpenFile(t)
    PROVE  SerialInv(t)'
<1>1. CASE Failed(t) /\ UNCHANGED file
  BY <1>1, SerialGivesUp DEF OpenFile, disk
<1>2. CASE ~(Failed(t) /\ UNCHANGED file)
  <2>1. /\ pc[t] = "save" /\ req[t] = "none" /\ stage[t] = "file" /\ pc'[t] = "write"
        /\ buffer'[t] = responseData /\ file' = [file EXCEPT ![turn[t]] = << >>]
        /\ UNCHANGED <<env, stored, table, http, control, want, meta, written>>
    BY <1>2 DEF OpenFile, GoTo, SerialInv, ThreadInv, Placed, TypeOK
  <2>2. OneTask(t)'
    BY <2>1, QuietStep DEF SerialInv, http, Listening
  <2>c. CurrentInv(t)'
    <3>1. \A k \in okay[t] : k \in Kinds /\ k # turn[t]
      BY <2>1, Values DEF SerialInv, ThreadInv, CurrentInv
    <3>2. \A k \in okay[t] : file'[k] = file[k]
      BY <2>1, <3>1 DEF TypeOK
    <3> QED
      BY <2>1, <3>2, CurrentKept, Values DEF SerialInv, ThreadInv, env, control
  <2>3. Placed(t)' /\ Agreed(t)' /\ AnswerInv(t)'
    BY <2>1 DEF SerialInv, ThreadInv, Placed, Agreed, Chosen, Believable, AnswerInv, Answering, Running,
                http, env, control
  <2>4. file'[turn[t]] = << >> /\ \A k \in Kinds : k # turn[t] => file'[k] = file[k]
    BY <2>1, Values DEF TypeOK
  <2>5. Content(t)'
    BY <2>1, <2>4 DEF SerialInv, ThreadInv, Content, Wanted, control
  <2>6. Partial(turn[t])'
    <3>1. ~faulted => stored[turn[t]] < want[t].version /\ want[t].version <= served[turn[t]]
      BY <2>1 DEF SerialInv, ThreadInv, Agreed, Chosen, Believable
    <3> QED
      BY <2>1, <2>4, <3>1, Values DEF Partial, env, control
  <2>7. StoreInv'
    BY <2>1, <2>4, <2>6 DEF SerialInv, StoreInv, FileInv, Whole, Partial, YellowPagesImported, env, control
  <2> QED
    BY <2>2, <2>c, <2>3, <2>5, <2>7 DEF SerialInv, ThreadInv
<1> QED
  BY <1>1, <1>2

\* The next chunk is written behind those that are there.
LEMMA WriteNext ==
    ASSUME NEW content \in Seq(Chunk), NEW c \in Chunk
    PROVE  WriteAt(content, Len(content) + 1, c) = Append(content, c)
<1>1. /\ Len(content) + 1 > Len(content) /\ Len(content) \in Nat
      /\ \A j \in 1..Len(content) + 1 : j # Len(content) + 1 => j <= Len(content)
  OBVIOUS
<1>2. WriteAt(content, Len(content) + 1, c) =
        [j \in 1..Len(content) + 1 |-> IF j = Len(content) + 1 THEN c ELSE content[j]]
  BY <1>1 DEF WriteAt
<1>3. WriteAt(content, Len(content) + 1, c) \in Seq(Chunk)
  BY <1>1, WriteAtType
<1> QED
  BY <1>1, <1>2, <1>3, AppendProperties, SeqEqual

\* Two chunks of a version make up its file.
LEMMA BothChunks ==
    ASSUME NEW content \in Seq(Chunk), NEW k \in Kinds, NEW v \in Version, Len(content) = 2,
           \A i \in 1..2 : content[i] = File(k, v)[i]
    PROVE  content = File(k, v)
<1>1. File(k, v) \in Seq(Chunk) /\ Len(File(k, v)) = 2
  BY FileType
<1> QED
  BY <1>1, SeqEqual

LEMMA SerialWrite ==
    ASSUME NEW t, Threads = {t}, TypeOK, SerialInv(t), WriteChunk(t)
    PROVE  SerialInv(t)'
<1>1. CASE Failed(t) /\ UNCHANGED file
  BY <1>1, SerialGivesUp DEF WriteChunk, disk
<1>2. CASE ~(Failed(t) /\ UNCHANGED file)
  <2>1. /\ pc[t] = "write" /\ req[t] = "none" /\ stage[t] = "file" /\ written[t] < Len(buffer[t])
        /\ file' = [file EXCEPT ![turn[t]] =
                      WriteAt(@, written[t] + 1, buffer[t][written[t] + 1])]
        /\ written' = [written EXCEPT ![t] = @ + 1]
        /\ UNCHANGED <<env, stored, table, http, pc, control, want, meta, buffer>>
    BY <1>2 DEF WriteChunk, SerialInv, ThreadInv, Placed, TypeOK
  <2>2. OneTask(t)'
    BY <2>1, QuietStep DEF SerialInv, http, Listening
  <2>c. CurrentInv(t)'
    <3>1. \A k \in okay[t] : k \in Kinds /\ k # turn[t]
      BY <2>1, Values DEF SerialInv, ThreadInv, CurrentInv
    <3>2. \A k \in okay[t] : file'[k] = file[k]
      BY <2>1, <3>1 DEF TypeOK
    <3> QED
      BY <2>1, <3>2, CurrentKept, Values DEF SerialInv, ThreadInv, env, control
  <2>3. Placed(t)' /\ Agreed(t)' /\ AnswerInv(t)'
    BY <2>1 DEF SerialInv, ThreadInv, Placed, Agreed, Chosen, Believable, AnswerInv, Answering, Running,
                http, env, control
  <2>4. /\ buffer[t] = Wanted(t) /\ Len(buffer[t]) = 2 /\ buffer[t] \in Seq(Chunk)
        /\ written[t] \in Nat /\ written[t] < 2 /\ Len(file[turn[t]]) = written[t]
        /\ file[turn[t]] \in Seq(Chunk)
        /\ \A i \in 1..written[t] : file[turn[t]][i] = buffer[t][i]
    <3>1. turn[t] \in Kinds /\ want[t].version \in Version
      BY Values
    <3>2. Wanted(t) \in Seq(Chunk) /\ Len(Wanted(t)) = 2
      BY <3>1, FileType DEF Wanted
    <3>3. written[t] \in Nat /\ file[turn[t]] \in Seq(Chunk)
      BY <3>1 DEF TypeOK
    <3> QED
      BY <2>1, <3>2, <3>3 DEF SerialInv, ThreadInv, Content
  <2>5. /\ file'[turn[t]] = Append(file[turn[t]], buffer[t][written[t] + 1])
        /\ \A k \in Kinds : k # turn[t] => file'[k] = file[k]
    <3>1. buffer[t][written[t] + 1] \in Chunk
      <4>1. written[t] + 1 \in 1..Len(buffer[t])
        BY <2>4
      <4> QED
        BY <2>4, <4>1, ElementOfSeq
    <3>2. WriteAt(file[turn[t]], written[t] + 1, buffer[t][written[t] + 1])
            = Append(file[turn[t]], buffer[t][written[t] + 1])
      BY <2>4, <3>1, WriteNext
    <3> QED
      BY <2>1, <3>2, Values DEF TypeOK
  <2>6. /\ written'[t] = written[t] + 1 /\ file'[turn[t]] \in Seq(Chunk)
        /\ Len(file'[turn[t]]) = written'[t] /\ written'[t] <= 2
        /\ \A i \in 1..written'[t] : file'[turn[t]][i] = buffer[t][i]
    <3> DEFINE old == file[turn[t]]
               c == buffer[t][written[t] + 1]
               new == file'[turn[t]]
    <3>1. written'[t] = written[t] + 1
      BY <2>1 DEF TypeOK
    <3>2. c \in Chunk
      <4>1. written[t] + 1 \in 1..Len(buffer[t])
        BY <2>4
      <4> QED
        BY <2>4, <4>1, ElementOfSeq
    <3>3. /\ new \in Seq(Chunk) /\ Len(new) = Len(old) + 1 /\ new[Len(old) + 1] = c
          /\ \A i \in 1..Len(old) : new[i] = old[i]
      BY <2>4, <2>5, <3>2, AppendProperties
    <3> HIDE DEF old, new
    <3>4. ASSUME NEW i \in 1..written'[t]
          PROVE  new[i] = buffer[t][i]
      <4>1. CASE i = written[t] + 1
        BY <2>4, <3>3, <4>1 DEF old
      <4>2. CASE i # written[t] + 1
        <5>1. i \in 1..written[t]
          BY <2>4, <3>1, <4>2
        <5> QED
          BY <2>4, <3>3, <5>1 DEF old
      <4> QED
        BY <4>1, <4>2
    <3> QED
      BY <2>4, <3>1, <3>3, <3>4 DEF old, new
  <2>7. Content(t)'
    BY <2>1, <2>4, <2>6 DEF Content, Wanted, control
  <2>8. Whole(turn[t])' \/ Partial(turn[t])'
    <3>1. /\ ~faulted => stored[turn[t]] < want[t].version
          /\ stored[turn[t]] <= want[t].version /\ want[t].version <= served[turn[t]]
      BY <2>1 DEF SerialInv, ThreadInv, Agreed, Chosen, Believable
    <3>2. CASE written'[t] < 2
      BY <2>1, <2>6, <3>1, <3>2, Values DEF Partial, env, control
    <3>3. CASE written'[t] = 2
      <4>1. file'[turn[t]] = File(turn[t], want[t].version)
        <5>1. turn[t] \in Kinds /\ want[t].version \in Version
          BY Values
        <5>2. /\ Len(file'[turn[t]]) = 2 /\ file'[turn[t]] \in Seq(Chunk)
              /\ \A i \in 1..2 : file'[turn[t]][i] = File(turn[t], want[t].version)[i]
          BY <2>4, <2>6, <3>3 DEF Wanted
        <5> QED
          BY <5>1, <5>2, BothChunks
      <4> QED
        BY <2>1, <3>1, <4>1, Values DEF Whole, control
    <3> QED
      BY <2>4, <2>6, <3>2, <3>3
  <2>9. StoreInv'
    BY <2>1, <2>5, <2>8 DEF SerialInv, StoreInv, FileInv, Whole, Partial, YellowPagesImported, env, control
  <2> QED
    BY <2>2, <2>c, <2>3, <2>7, <2>9 DEF SerialInv, ThreadInv
<1> QED
  BY <1>1, <1>2

LEMMA SerialClose ==
    ASSUME NEW t, Threads = {t}, TypeOK, SerialInv(t), CloseFile(t)
    PROVE  SerialInv(t)'
<1>1. /\ pc[t] = "write" /\ req[t] = "none" /\ stage[t] = "file" /\ written[t] = Len(buffer[t])
      /\ pc'[t] \in {"import", "record"} /\ (turn[t] = "yellowPage" <=> pc'[t] = "import")
      /\ UNCHANGED <<env, disk, http, scratch, control>>
  BY DEF CloseFile, GoTo, SerialInv, ThreadInv, Placed, TypeOK
<1>2. OneTask(t)' /\ StoreInv'
  BY <1>1, QuietStep, StoreSame DEF SerialInv, env, http, Listening
<1>c. CurrentInv(t)'
  BY <1>1, CurrentKept, Values DEF SerialInv, ThreadInv, env, disk, control
<1>3. Placed(t)' /\ Agreed(t)' /\ AnswerInv(t)'
  BY <1>1 DEF SerialInv, ThreadInv, Placed, Agreed, Chosen, Believable, AnswerInv, Answering,
              http, env, disk, scratch, control
<1>4. file[turn[t]] = Wanted(t)
  <2>1. /\ Len(Wanted(t)) = 2 /\ buffer[t] = Wanted(t) /\ written[t] = 2 /\ Len(file[turn[t]]) = 2
        /\ file[turn[t]] \in Seq(Chunk) /\ \A i \in 1..2 : file[turn[t]][i] = Wanted(t)[i]
    <3>1. turn[t] \in Kinds /\ want[t].version \in Version
      BY Values
    <3>2. Len(Wanted(t)) = 2 /\ file[turn[t]] \in Seq(Chunk)
      BY <3>1, FileType DEF Wanted, TypeOK
    <3> QED
      BY <1>1, <3>2 DEF SerialInv, ThreadInv, Content
  <2> QED
    BY <2>1, BothChunks, Values DEF Wanted
<1>5. Content(t)'
  BY <1>1, <1>4 DEF SerialInv, ThreadInv, Content, Wanted, disk, scratch, control
<1> QED
  BY <1>2, <1>c, <1>3, <1>5 DEF SerialInv, ThreadInv

LEMMA SerialImport ==
    ASSUME NEW t, Threads = {t}, TypeOK, SerialInv(t), ImportYellowPageData(t)
    PROVE  SerialInv(t)'
<1>1. CASE Failed(t) /\ UNCHANGED <<table, faulted>>
  BY <1>1, SerialGivesUp DEF ImportYellowPageData, disk, env
<1>2. CASE ~(Failed(t) /\ UNCHANGED <<table, faulted>>)
  <2>1. /\ pc[t] = "import" /\ req[t] = "none" /\ stage[t] = "file" /\ turn[t] = "yellowPage"
        /\ pc'[t] = "record" /\ UNCHANGED <<served, file, stored, http, scratch, control>>
    BY <1>2 DEF ImportYellowPageData, GoTo, SerialInv, ThreadInv, Placed, TypeOK
  <2>2. faulted => faulted'
    BY <1>2 DEF ImportYellowPageData
  <2>3. OneTask(t)'
    BY <2>1, QuietStep DEF SerialInv, http, Listening
  <2>c. CurrentInv(t)'
    BY <2>1, <2>2, CurrentKept, Values DEF SerialInv, ThreadInv, control
  <2>4. Placed(t)' /\ Agreed(t)' /\ AnswerInv(t)'
    BY <2>1, <2>2 DEF SerialInv, ThreadInv, Placed, Agreed, Chosen, Believable, AnswerInv, Answering,
                http, scratch, control
  <2>5. /\ file["yellowPage"] = File("yellowPage", want[t].version)
        /\ Head(file["yellowPage"]).version = want[t].version
        /\ stored["yellowPage"] <= want[t].version
    <3>1. file["yellowPage"] = File("yellowPage", want[t].version) /\ stored["yellowPage"] <= want[t].version
      BY <2>1 DEF SerialInv, ThreadInv, Content, Wanted, Agreed, Chosen, Believable
    <3>2. Head(File("yellowPage", want[t].version)).version = want[t].version
      BY FileType, Values DEF Kinds
    <3> QED
      BY <3>1, <3>2
  <2>6. \/ table' = file["yellowPage"]
        \/ table' = table /\ Head(table).version >= want[t].version
    BY <1>2, <2>5 DEF ImportYellowPageData
  <2>7. Head(table').version >= want[t].version /\ YellowPagesImported'
    BY <2>1, <2>5, <2>6, Values DEF SerialInv, StoreInv, YellowPagesImported
  <2>8. Content(t)'
    BY <2>1, <2>7 DEF SerialInv, ThreadInv, Content, Wanted, scratch, control
  <2>9. FileInv'
    BY <2>1, <2>2 DEF SerialInv, StoreInv, FileInv, Whole, Partial
  <2> QED
    BY <2>3, <2>c, <2>4, <2>7, <2>8, <2>9 DEF SerialInv, ThreadInv, StoreInv
<1> QED
  BY <1>1, <1>2

LEMMA SerialRecord ==
    ASSUME NEW t, Threads = {t}, TypeOK, SerialInv(t), UpdateOrInsertVersion(t)
    PROVE  SerialInv(t)'
<1>1. CASE Failed(t) /\ UNCHANGED <<stored, faulted>>
  BY <1>1, SerialGivesUp DEF UpdateOrInsertVersion, disk, env
<1>3. CASE Succeeded(t) /\ stored[turn[t]] = 0 /\ faulted' = TRUE /\ UNCHANGED stored
  <2>1. /\ pc[t] = "record" /\ req[t] = "none" /\ stage[t] = "file"
        /\ UNCHANGED <<served, file, table, http>>
    BY DEF UpdateOrInsertVersion, SerialInv, ThreadInv, Placed
  <2>2. OneTask(t)'
    BY <2>1, QuietStep DEF SerialInv, http, Listening
  <2>3. StoreInv'
    BY <1>3, <2>1, StoreSame DEF SerialInv, disk
  <2>4. Installed(turn[t]) = want[t].version /\ asked[t][turn[t]] <= want[t].version
    <3>1. file[turn[t]] = File(turn[t], want[t].version) /\ asked[t][turn[t]] <= want[t].version
      BY <2>1 DEF SerialInv, ThreadInv, Agreed, Chosen, Believable, Content, Wanted
    <3> QED
      BY <3>1, WholeInstalled, Values
  <2>5. UNCHANGED asked /\ turn[t] \in Kinds /\ okay[t] \subseteq Kinds
    BY <1>3, Values DEF Succeeded
  <2>6. \A k \in Kinds : k = turn[t] => Current(k, t)'
    <3>1. \A k \in Kinds : Installed(k)' = Installed(k)
      BY <2>1 DEF Installed, Complete
    <3> QED
      BY <1>3, <2>4, <2>5, <3>1, Values DEF Current
  <2>7. \A k \in okay[t] : Current(k, t)'
    BY <1>3, <2>1, <2>5, CurrentStays DEF SerialInv, ThreadInv, CurrentInv
  <2>8. ThreadInv(t)'
    BY <1>3, <2>1, <2>6, <2>7, Ended DEF SerialInv, http
  <2> QED
    BY <2>2, <2>3, <2>8 DEF SerialInv
<1>2. CASE Succeeded(t) /\ stored' = [stored EXCEPT ![turn[t]] = want[t].version] /\ UNCHANGED faulted
  <2>1. /\ pc[t] = "record" /\ req[t] = "none" /\ stage[t] = "file" /\ Succeeded(t)
        /\ stored' = [stored EXCEPT ![turn[t]] = want[t].version]
        /\ UNCHANGED <<env, file, table, http>>
    BY <1>2 DEF UpdateOrInsertVersion, SerialInv, ThreadInv, Placed, env
  <2>2. OneTask(t)'
    BY <2>1, QuietStep DEF SerialInv, http, Listening
  <2>3. /\ asked[t][turn[t]] <= want[t].version /\ stored[turn[t]] <= want[t].version
        /\ want[t].version <= served[turn[t]] /\ file[turn[t]] = File(turn[t], want[t].version)
    BY <2>1 DEF SerialInv, ThreadInv, Agreed, Chosen, Believable, Content, Wanted
  <2>4. stored'[turn[t]] = want[t].version /\ \A k \in Kinds : k # turn[t] => stored'[k] = stored[k]
    BY <2>1, Values DEF TypeOK
  <2>5. (\A k \in okay[t] : Current(k, t)') /\ (\A k \in Kinds : k = turn[t] => Current(k, t)')
    <3>1. UNCHANGED <<asked, faulted, file>>
      BY <2>1 DEF Succeeded, env
    <3>2. \A k \in okay[t] : k \in Kinds /\ k # turn[t] /\ Current(k, t)
      BY <2>1, Values DEF SerialInv, ThreadInv, CurrentInv
    <3>3. \A k \in okay[t] : Current(k, t)'
      BY <2>4, <3>1, <3>2, CurrentStays
    <3>4. \A k \in Kinds : k = turn[t] => Current(k, t)'
      BY <2>3, <2>4, <3>1, Values DEF Current
    <3> QED
      BY <3>3, <3>4
  <2>6. ThreadInv(t)'
    BY <2>1, <2>5, Ended DEF SerialInv, env, http
  <2>7. FileInv'
    <3>1. ASSUME NEW k \in Kinds, k = turn[t]
          PROVE  Whole(k)' /\ stored'[k] <= served'[k]
      <4>1. /\ file'[turn[t]] = File(turn[t], want[t].version) /\ served'[turn[t]] = served[turn[t]]
            /\ turn[t] \in Kinds /\ want[t].version \in Version /\ want[t].version \in Int
        BY <2>1, <2>3, Values DEF env
      <4>2. Whole(k)'
        BY <2>4, <3>1, <4>1 DEF Whole
      <4> QED
        BY <2>3, <2>4, <3>1, <4>1, <4>2
    <3>2. \A k \in Kinds : k # turn[t] => stored'[k] <= served'[k] /\ (Whole(k)' \/ Partial(k)')
      BY <2>1, <2>4 DEF SerialInv, StoreInv, FileInv, Whole, Partial, env
    <3> QED
      BY <3>1, <3>2 DEF FileInv
  <2>8. YellowPagesImported'
    <3>1. PICK v \in Version : table = File("yellowPage", v) /\ v >= stored["yellowPage"]
      BY DEF SerialInv, StoreInv, YellowPagesImported
    <3>2. turn[t] = "yellowPage" => v >= want[t].version
      <4>1. "yellowPage" \in Kinds /\ Head(table).version = v
        BY <3>1, FileType DEF Kinds
      <4> QED
        BY <2>1, <4>1 DEF SerialInv, ThreadInv, Content
    <3> QED
      BY <2>1, <2>4, <3>1, <3>2 DEF YellowPagesImported, Kinds
  <2> QED
    BY <2>2, <2>6, <2>7, <2>8 DEF SerialInv, StoreInv
<1> QED
  BY <1>1, <1>2, <1>3 DEF UpdateOrInsertVersion

LEMMA SerialStep ==
    ASSUME NEW t, Threads = {t}, Stragglers = FALSE, TypeOK, SerialInv(t), [Next]_vars
    PROVE  SerialInv(t)'
<1>1. CASE Call(t)
  BY <1>1, SerialCall
<1>2. CASE Thread(t)
  BY <1>2, SerialRequest, SerialFailed, SerialCheckVersion, SerialCopy, SerialSignature, SerialOpen,
     SerialWrite, SerialClose, SerialImport, SerialRecord DEF Thread
<1>3. CASE Http
  BY <1>3, SerialRequester, SerialTask DEF Http, HttpStep
<1>4. ASSUME NEW k \in Kinds, Publish(k)
      PROVE  SerialInv(t)'
  BY <1>4, SerialPublish
<1>5. CASE Crash
  BY <1>5, SerialCrash
<1>6. CASE UNCHANGED vars
  <2>1. Placed(t)' /\ Agreed(t)' /\ Content(t)' /\ CurrentInv(t)' /\ StoreInv'
    BY <1>6, HttpKept DEF vars, http
  <2>2. OneTask(t)' /\ AnswerInv(t)'
    BY <1>6 DEF vars, disk, http, env, control, SerialInv, ThreadInv, OneTask, Listening, Running, AnswerInv, Answering,
                Believable
  <2> QED
    BY <2>1, <2>2 DEF SerialInv, ThreadInv
<1> QED
  BY <1>1, <1>2, <1>3, <1>4, <1>5, <1>6 DEF Next

LEMMA SerialCorrect ==
    ASSUME NEW t, Threads = {t}, Stragglers = FALSE
    PROVE  Spec => [](TypeOK /\ SerialInv(t))
<1>1. Init => SerialInv(t)
  BY SerialInit
<1>2. TypeOK /\ SerialInv(t) /\ [Next]_vars => SerialInv(t)'
  BY SerialStep
<1> QED
  BY <1>1, <1>2, TypeCorrect, PTL DEF Spec

\* A shorter one is torn.
LEMMA ShortIncomplete ==
    ASSUME NEW content \in Seq(Chunk), NEW k \in Kinds, Len(content) < 2, content # << >>
    PROVE  content # File(k, Head(content).version)
<1> SUFFICES ASSUME content = File(k, Head(content).version)
             PROVE  FALSE
  OBVIOUS
<1>1. Head(content) \in Chunk
  OBVIOUS
<1>2. Head(content).version \in Version
  BY <1>1 DEF Chunk
<1>3. Len(content) = 2
  BY <1>2, FileType, Zenon
<1> QED
  BY <1>3

\* One thread without stragglers: a data file that a crash or a failed
\* write of UpdateDataToFile() left in pieces is older than what the server publishes, so the
\* version check of the next call does not skip it.
THEOREM TornRetried ==
    ASSUME NEW t, Threads = {t}, Stragglers = FALSE
    PROVE  Spec => []TornIsRetried
<1>1. TypeOK /\ SerialInv(t) => TornIsRetried
  <2> SUFFICES ASSUME TypeOK, SerialInv(t), ~faulted, NEW k \in Kinds, Installed(k) = Torn
               PROVE  stored[k] < served[k]
    BY DEF TornIsRetried
  <2>1. ~Whole(k)
    <3> SUFFICES ASSUME NEW v \in Version, file[k] = File(k, v)
                 PROVE  FALSE
      BY DEF Whole
    <3>1. v = -1
      BY WholeInstalled DEF Torn
    <3> QED
      BY <3>1, VersionType
  <2> QED
    BY <2>1 DEF SerialInv, StoreInv, FileInv, Partial
<1> QED
  BY <1>1, SerialCorrect, PTL

\* One thread without stragglers: when DownloadFiles() reports success,
\* both recorded versions are at least those the server published when the call began, or a
\* query has failed, no version was ever recorded, and the file itself is as new as that.
THEOREM SuccessCurrent ==
    ASSUME NEW t, Threads = {t}, Stragglers = FALSE
    PROVE  Spec => []SuccessMeansCurrent
<1>1. SerialInv(t) => SuccessMeansCurrent
  BY DEF SerialInv, ThreadInv, CurrentInv, Current, SuccessMeansCurrent
<1> QED
  BY <1>1, SerialCorrect, PTL

\* One thread without stragglers: yellow_page always has the rows of one
\* complete file, never older than the version that UpdateOrInsert() recorded for them.
THEOREM ImportedFirst ==
    ASSUME NEW t, Threads = {t}, Stragglers = FALSE
    PROVE  Spec => []YellowPagesImported
<1>1. SerialInv(t) => YellowPagesImported
  BY DEF SerialInv, StoreInv
<1> QED
  BY <1>1, SerialCorrect, PTL

-----------------------------------------------------------------------------
(* The update implements VerifiedStore: opening the file tears the copy, the last chunk   *)
(* installs the new one, the record is written while it is complete; every other step     *)
(* stutters.                                                                               *)

LEMMA CopiesSame ==
    ASSUME UNCHANGED <<file, stored>>
    PROVE  UNCHANGED Store!svars
BY DEF Store!svars, Installed, Complete

\* A step that replaces one file replaces one copy.
LEMMA CopyReplaced ==
    ASSUME TypeOK, NEW k \in Kinds, NEW content, file' = [file EXCEPT ![k] = content]
    PROVE  [j \in Kinds |-> Installed(j)]' = [[j \in Kinds |-> Installed(j)] EXCEPT ![k] = Installed(k)']
<1>1. \A j \in Kinds : j # k => file'[j] = file[j]
  BY DEF TypeOK
<1>2. \A j \in Kinds : j # k => Installed(j)' = Installed(j)
  BY <1>1 DEF Installed, Complete
<1> QED
  BY <1>2

LEMMA OpenRefines ==
    ASSUME NEW t, Threads = {t}, TypeOK, SerialInv(t), OpenFile(t)
    PROVE  [Store!Next]_Store!svars
<1>1. CASE UNCHANGED file
  BY <1>1, CopiesSame DEF OpenFile
<1>2. CASE file' = [file EXCEPT ![turn[t]] = << >>]
  <2>1. turn[t] \in Kinds /\ file'[turn[t]] = << >>
    BY <1>2, Values DEF TypeOK
  <2> DEFINE k == turn[t]
  <2>2. \A j \in Kinds : file'[j] = << >> => Installed(j)' = Torn
    BY DEF Installed, Complete
  <2>3. [j \in Kinds |-> Installed(j)]' = [[j \in Kinds |-> Installed(j)] EXCEPT ![k] = Torn]
    BY <1>2, <2>1, <2>2, CopyReplaced
  <2>4. Store!Tear(k)
    BY <2>3 DEF Store!Tear, OpenFile
  <2> QED
    BY <2>1, <2>4 DEF Store!Next
<1> QED
  BY <1>1, <1>2 DEF OpenFile

LEMMA WriteRefines ==
    ASSUME NEW t, Threads = {t}, TypeOK, SerialInv(t), TypeOK', SerialInv(t)', WriteChunk(t)
    PROVE  [Store!Next]_Store!svars
<1>1. CASE UNCHANGED file
  BY <1>1, CopiesSame DEF WriteChunk
<1>2. CASE ~UNCHANGED file
  <2> DEFINE k == turn[t]
             v == want[t].version
  <2>1. /\ pc[t] = "write" /\ stage[t] = "file" /\ written[t] < Len(buffer[t])
        /\ file' = [file EXCEPT ![k] = WriteAt(@, written[t] + 1, buffer[t][written[t] + 1])]
        /\ written' = [written EXCEPT ![t] = @ + 1]
        /\ UNCHANGED <<stored, pc, turn, want, buffer>>
    BY <1>2 DEF WriteChunk, control, SerialInv, ThreadInv, Placed
  <2>2. k \in Kinds /\ v \in Version /\ v \in Int /\ stored[k] \in Int /\ stored[k] <= v
    BY <2>1, Values DEF SerialInv, ThreadInv, Agreed, Chosen, Believable
  <2>3. /\ Len(buffer[t]) = 2 /\ written[t] \in Nat /\ Len(file[k]) = written[t]
        /\ written'[t] = written[t] + 1 /\ Len(file'[k]) = written'[t]
        /\ buffer'[t] = File(k, v) /\ \A i \in 1..written'[t] : file'[k][i] = File(k, v)[i]
    <3>1. Len(File(k, v)) = 2
      BY <2>2, FileType
    <3>2. buffer[t] = File(k, v) /\ Len(file[k]) = written[t]
      BY <2>1 DEF SerialInv, ThreadInv, Content, Wanted
    <3>3. /\ buffer'[t] = File(k, v) /\ Len(file'[k]) = written'[t]
          /\ \A i \in 1..written'[t] : file'[k][i] = buffer'[t][i]
      BY <2>1 DEF SerialInv, ThreadInv, Content, Wanted
    <3>4. written[t] \in Nat /\ written'[t] = written[t] + 1
      BY <2>1 DEF TypeOK
    <3> QED
      BY <2>1, <3>1, <3>2, <3>3, <3>4
  <2>4. Installed(k) = Torn
    <3>1. file[k] \in Seq(Chunk) /\ Len(file[k]) < 2
      BY <2>1, <2>2, <2>3 DEF TypeOK
    <3> QED
      BY <2>2, <3>1, ShortIncomplete DEF Installed, Complete
  <2>5. /\ [j \in Kinds |-> Installed(j)]' = [[j \in Kinds |-> Installed(j)] EXCEPT ![k] = Installed(k)']
        /\ file' \in [Kinds -> Seq(Chunk)]
    BY <2>1, <2>2, CopyReplaced DEF TypeOK
  <2>6. CASE written'[t] < 2
    <3>1. Installed(k)' = Torn
      <4>1. file'[k] \in Seq(Chunk) /\ Len(file'[k]) < 2
        BY <2>2, <2>3, <2>5, <2>6
      <4>2. Complete(k)' <=> file'[k] # << >> /\ file'[k] = File(k, Head(file'[k]).version)
        BY <2>1 DEF Complete
      <4> QED
        BY <2>2, <4>1, <4>2, ShortIncomplete DEF Installed
    <3>2. [j \in Kinds |-> Installed(j)]' = [[j \in Kinds |-> Installed(j)] EXCEPT ![k] = Torn]
      BY <2>5, <3>1
    <3>3. Store!Tear(k)
      BY <2>1, <3>2 DEF Store!Tear
    <3> QED
      BY <2>2, <3>3 DEF Store!Next
  <2>7. CASE written'[t] = 2
    <3>1. file'[k] \in Seq(Chunk)
      BY <2>2, <2>5
    <3>2. file'[k] = File(k, v)
      <4>1. Len(file'[k]) = 2 /\ \A i \in 1..2 : file'[k][i] = File(k, v)[i]
        BY <2>3, <2>7
      <4> HIDE DEF k, v
      <4> QED
        BY <2>2, <3>1, <4>1, BothChunks
    <3>3. Installed(k)' = v
      <4>1. file'[k] # << >> /\ Head(file'[k]).version = v
        BY <2>2, <3>2, FileType, ChunkType
      <4> QED
        BY <2>1, <3>2, <4>1 DEF Installed, Complete
    <3>4. [j \in Kinds |-> Installed(j)]' = [[j \in Kinds |-> Installed(j)] EXCEPT ![k] = v]
      BY <2>5, <3>3
    <3>5. Store!Install(k, v)
      BY <2>1, <2>2, <2>4, <3>4 DEF Store!Install
    <3> QED
      BY <2>2, <3>5 DEF Store!Next
  <2> QED
    BY <2>1, <2>3, <2>6, <2>7
<1> QED
  BY <1>1, <1>2

LEMMA RecordRefines ==
    ASSUME NEW t, Threads = {t}, TypeOK, SerialInv(t), UpdateOrInsertVersion(t)
    PROVE  [Store!Next]_Store!svars
<1>1. CASE UNCHANGED stored
  BY <1>1, CopiesSame DEF UpdateOrInsertVersion
<1>2. CASE ~UNCHANGED stored
  <2> DEFINE k == turn[t]
             v == want[t].version
  <2>1. /\ pc[t] = "record" /\ stage[t] = "file" /\ UNCHANGED file
        /\ stored' = [stored EXCEPT ![k] = v]
    BY <1>2, Zenon DEF UpdateOrInsertVersion, SerialInv, ThreadInv, Placed
  <2>2. k \in Kinds /\ v \in Version /\ v \in Int /\ stored[k] \in Int /\ stored[k] <= v
        /\ file[k] = File(k, v)
    BY <2>1, Values DEF SerialInv, ThreadInv, Agreed, Chosen, Believable, Content, Wanted
  <2>3. Installed(k) = v /\ v # Torn
    BY <2>2, WholeInstalled, VersionType DEF Torn
  <2>4. UNCHANGED [j \in Kinds |-> Installed(j)]
    BY <2>1 DEF Installed, Complete
  <2>5. Store!Record(k)
    BY <2>1, <2>2, <2>3, <2>4 DEF Store!Record
  <2> QED
    BY <2>2, <2>5 DEF Store!Next
<1> QED
  BY <1>1, <1>2

\* One thread without stragglers: DownloadFiles() implements VerifiedStore.
\* UpdateDataToFile() ends a replacement only with a complete, signature-checked version, not
\* older than the recorded one, and UpdateOrInsert() records the version that is installed.
THEOREM UpdateImplementsStore ==
    ASSUME NEW t, Threads = {t}, Stragglers = FALSE
    PROVE  Spec => VerifiedUpdate
<1>1. Init => Store!Init
  <2> SUFFICES ASSUME Init PROVE Store!Init
    OBVIOUS
  <2>1. \A k \in Kinds : stored[k] = 0 /\ file[k] = File(k, 0)
    BY DEF Init
  <2>2. \A k \in Kinds : Installed(k) = 0
    BY <2>1, WholeInstalled, VersionType
  <2>3. stored = [k \in Kinds |-> 0] /\ [k \in Kinds |-> Installed(k)] = stored
    BY <2>2 DEF Init
  <2> QED
    BY <2>3, VersionType DEF Store!Init
<1>2. TypeOK /\ SerialInv(t) /\ TypeOK' /\ SerialInv(t)' /\ [Next]_vars => [Store!Next]_Store!svars
  <2> SUFFICES ASSUME TypeOK, SerialInv(t), TypeOK', SerialInv(t)', [Next]_vars
               PROVE  [Store!Next]_Store!svars
    OBVIOUS
  <2>1. CASE \/ Call(t) \/ Request(t) \/ RequestFailed(t) \/ CheckVersionAndParseDowloadURL(t)
             \/ CopyResponse(t) \/ CheckFileSignature(t) \/ CloseFile(t) \/ Http \/ Crash
             \/ (\E k \in Kinds : Publish(k)) \/ UNCHANGED vars
    <3>1. UNCHANGED disk
      BY <2>1 DEF Call, Request, RequestFailed, CheckVersionAndParseDowloadURL, CopyResponse,
                  CheckFileSignature, CloseFile, Http, Crash, Publish, vars
    <3> QED
      BY <3>1, CopiesSame DEF disk
  <2>2. CASE ImportYellowPageData(t)
    BY <2>2, CopiesSame DEF ImportYellowPageData
  <2> QED
    BY <2>1, <2>2, OpenRefines, WriteRefines, RecordRefines DEF Next, Thread
<1> QED
  BY <1>1, <1>2, SerialCorrect, PTL DEF Spec, VerifiedUpdate, Store!Spec
=============================================================================
