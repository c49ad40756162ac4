---------------------------- MODULE DownloadFile ----------------------------
(***************************************************************************)
(* The over-the-air update of the two data files: DownloadFiles() of       *)
(* number_location/src/download_file.cpp, on top of HttpRequest.           *)
(*                                                                         *)
(* A thread that executes DownloadFiles() works on the number location     *)
(* file and then on the yellow pages.  For each it asks for the version    *)
(* document, compares the version with the recorded one, asks for the      *)
(* file, checks its signature, overwrites the local file, imports it (the  *)
(* yellow pages) and records the version; when a step fails it starts over *)
(* up to RETRY_NUM times.                                                  *)
(*                                                                         *)
(* The version document is one chunk, a data file two, and Junk stands for *)
(* an error page.  The SHA-256 comparison is equality of contents.         *)
(***************************************************************************)
EXTENDS HttpRequest

CONSTANTS
    RETRY_NUM,     \* retries of one file after its first attempt
    MaxVersion,    \* versions the server publishes are 1..MaxVersion (a bound)
    MaxPublished,  \* versions of both files that it publishes (a bound)
    DbFaults       \* may queries of the properties table fail

ASSUME DownloadAssumption ==
    /\ RETRY_NUM \in Nat
    /\ MaxVersion \in Nat /\ MaxPublished \in Nat
    /\ DbFaults \in BOOLEAN

Kinds == {"location", "yellowPage"}
Version == 0..MaxVersion   \* 0 is the data bundled with the system image

Chunk == [kind : Kinds, version : Version, part : {"meta", "head", "tail", "junk"}]
Meta(k, v) == [kind |-> k, version |-> v, part |-> "meta"]
Junk == [kind |-> "location", version |-> 0, part |-> "junk"]
File(k, v) == << [kind |-> k, version |-> v, part |-> "head"],
                 [kind |-> k, version |-> v, part |-> "tail"] >>

VARIABLES
    served,   \* served[k]: the version the server publishes (environment)
    file,     \* file[k]: content of the data file in the sandbox (on disk)
    stored,   \* stored[k]: the version time stamp in the properties table
    table,    \* the rows of yellow_page, as the content they were imported from
    pc,       \* where each thread is
    turn,     \* the file a thread is working on
    stage,    \* which of the two requests of that file
    attempt,  \* retryNum, 0 before retry()
    want,     \* version and downloadURL, read from the version document
    meta,     \* the local copy of the version document
    buffer,   \* the buffer that UpdateDataToFile() copied
    written,  \* chunks of buffer written so far
    okay,     \* the files whose flag *DownloadSuccess is true
    result,   \* what the last DownloadFiles() of the thread returned
    asked,    \* history: what the server published when it was called
    faulted   \* history: has a query of the properties table failed

env == <<served, faulted>>
disk == <<file, stored, table>>
scratch == <<want, meta, buffer, written>>
control == <<turn, stage, attempt, okay, result, asked>>
vars == <<env, disk, http, pc, scratch, control>>

TypeOK ==
    /\ HttpTypeOK(Chunk)
    /\ served \in [Kinds -> Version]
    /\ file \in [Kinds -> Seq(Chunk)]
    /\ stored \in [Kinds -> Version]
    /\ table \in Seq(Chunk)
    /\ pc \in [Threads -> {"idle", "request", "await", "copy",
                           "save", "write", "import", "record"}]
    /\ turn \in [Threads -> Kinds]
    /\ stage \in [Threads -> {"meta", "file"}]
    /\ attempt \in [Threads -> 0..RETRY_NUM]
    /\ want \in [Threads -> Chunk]
    /\ meta \in [Threads -> Chunk]
    /\ buffer \in [Threads -> Seq(Chunk)]
    /\ written \in [Threads -> Nat]
    /\ okay \in [Threads -> SUBSET Kinds]
    /\ result \in [Threads -> {"none", "success", "error"}]
    /\ asked \in [Threads -> [Kinds -> Version]]
    /\ faulted \in BOOLEAN

ThreadInit ==
    /\ pc = [t \in Threads |-> "idle"]
    /\ turn = [t \in Threads |-> "location"]
    /\ stage = [t \in Threads |-> "meta"]
    /\ attempt = [t \in Threads |-> 0]
    /\ want = [t \in Threads |-> Junk]
    /\ meta = [t \in Threads |-> Junk]
    /\ buffer = [t \in Threads |-> << >>]
    /\ written = [t \in Threads |-> 0]
    /\ okay = [t \in Threads |-> {}]
    /\ result = [t \in Threads |-> "none"]
    /\ asked = [t \in Threads |-> served]

Published == served["location"] + served["yellowPage"]

Init ==
    /\ served \in [Kinds -> Version] /\ Published <= MaxPublished
    /\ file = [k \in Kinds |-> File(k, 0)]   \* none downloaded: the bundled one is in use
    /\ stored = [k \in Kinds |-> 0]
    /\ table = File("yellowPage", 0)
    /\ HttpInit
    /\ ThreadInit
    /\ faulted = FALSE

-----------------------------------------------------------------------------
(* The end of an attempt at one file, and of DownloadFiles(). *)

ClearScratch(t) ==
    /\ want' = [want EXCEPT ![t] = Junk]
    /\ meta' = [meta EXCEPT ![t] = Junk]
    /\ buffer' = [buffer EXCEPT ![t] = << >>]
    /\ written' = [written EXCEPT ![t] = 0]

\* The file the thread works on is settled; done are the files that succeeded.
Settle(t, done) ==
    /\ okay' = [okay EXCEPT ![t] = done]
    /\ attempt' = [attempt EXCEPT ![t] = 0]
    /\ stage' = [stage EXCEPT ![t] = "meta"]
    /\ \/ /\ turn[t] = "location"
          /\ turn' = [turn EXCEPT ![t] = "yellowPage"]
          /\ pc' = [pc EXCEPT ![t] = "request"]
          /\ UNCHANGED result
       \/ /\ turn[t] = "yellowPage"
          /\ turn' = [turn EXCEPT ![t] = "location"]
          /\ pc' = [pc EXCEPT ![t] = "idle"]
          /\ result' = [result EXCEPT ![t] = IF done = Kinds THEN "success" ELSE "error"]

\* Mutant: one retry too many.
FailedOnceMore(t) ==
    /\ ClearScratch(t)
    /\ UNCHANGED asked
    /\ \/ /\ attempt[t] <= RETRY_NUM
          /\ attempt' = [attempt EXCEPT ![t] = @ + 1]
          /\ stage' = [stage EXCEPT ![t] = "meta"]
          /\ pc' = [pc EXCEPT ![t] = "request"]
          /\ UNCHANGED <<turn, okay, result>>
       \/ /\ attempt[t] > RETRY_NUM
          /\ Settle(t, okay[t])

\* The attempt failed: the next one starts over, or all of retry() failed.
Failed(t) ==
    /\ ClearScratch(t)
    /\ UNCHANGED asked
    /\ \/ /\ attempt[t] < RETRY_NUM
          /\ attempt' = [attempt EXCEPT ![t] = @ + 1]
          /\ stage' = [stage EXCEPT ![t] = "meta"]
          /\ pc' = [pc EXCEPT ![t] = "request"]
          /\ UNCHANGED <<turn, okay, result>>
       \/ /\ attempt[t] = RETRY_NUM
          /\ Settle(t, okay[t])

Succeeded(t) ==
    /\ ClearScratch(t)
    /\ UNCHANGED asked
    /\ Settle(t, okay[t] \cup {turn[t]})

GoTo(t, label) ==
    /\ pc' = [pc EXCEPT ![t] = label]
    /\ UNCHANGED control

\* DownloadFiles() is called.
Call(t) ==
    /\ pc[t] = "idle"
    /\ pc' = [pc EXCEPT ![t] = "request"]
    /\ okay' = [okay EXCEPT ![t] = {}]
    /\ result' = [result EXCEPT ![t] = "none"]
    /\ asked' = [asked EXCEPT ![t] = served]
    /\ UNCHANGED <<env, disk, http, scratch, turn, stage, attempt>>

-----------------------------------------------------------------------------
(* The two requests. *)

Bodies(t) ==
    { << Junk >>,
      IF stage[t] = "meta" THEN << Meta(turn[t], served[turn[t]]) >>
                           ELSE File(want[t].kind, want[t].version) }

Request(t) ==
    /\ pc[t] = "request"
    /\ MayRequest(t)
    /\ SendRequest(t, Bodies(t))
    /\ GoTo(t, "await")
    /\ UNCHANGED <<env, disk, scratch>>

RequestFailed(t) ==
    /\ pc[t] = "await"
    /\ \E outcome \in {"timeout", "fail"} : Return(t, outcome)
    /\ Failed(t)
    /\ UNCHANGED <<env, disk>>

\* CreateHttpRequest() has returned success to the given one of the two calls.
Received(t, document) ==
    /\ pc[t] = "await"
    /\ stage[t] = document
    /\ Return(t, "ok")

-----------------------------------------------------------------------------
(* From a received version document to an installed, recorded file. *)

\* cJSON_Parse stops after the first JSON value and ignores what follows it.
IsMeta(data) == data # << >> /\ Head(data).part = "meta"

\* A failed query yields "" or the default, and neither exceeds a recorded version.
QueryStored(k) == {stored[k]} \cup (IF DbFaults THEN {0} ELSE {})

CheckVersionAndParseDowloadURL(t) ==
    /\ Received(t, "meta")
    /\ UNCHANGED <<served, disk>>
    /\ \/ ~IsMeta(responseData) /\ Failed(t) /\ UNCHANGED faulted
       \/ /\ IsMeta(responseData)
          /\ \E old \in QueryStored(turn[t]) :
               /\ faulted' = (faulted \/ old # stored[turn[t]])
               /\ \/ old >= Head(responseData).version /\ Succeeded(t)
                  \/ /\ old < Head(responseData).version
                     /\ want' = [want EXCEPT ![t] = Head(responseData)]
                     /\ GoTo(t, "copy")
                     /\ UNCHANGED <<meta, buffer, written>>

\* std::string responseData = responseData_; then the second request.
CopyResponse(t) ==
    /\ pc[t] = "copy"
    /\ meta' = [meta EXCEPT ![t] = IF IsMeta(responseData) THEN Head(responseData) ELSE Junk]
    /\ pc' = [pc EXCEPT ![t] = "request"]
    /\ stage' = [stage EXCEPT ![t] = "file"]
    /\ UNCHANGED <<env, disk, http, want, buffer, written,
                   turn, attempt, okay, result, asked>>

\* Mutant: the result of the verification is ignored.
SignatureIgnored(t) == meta[t].part = "meta"

\* SHA-256 of responseData_ and version against the signature of the copied document.
SignatureMatches(t) ==
    /\ meta[t].part = "meta"
    /\ responseData = File(meta[t].kind, meta[t].version)
    /\ want[t].version = meta[t].version

CheckFileSignature(t) ==
    /\ Received(t, "file")
    /\ UNCHANGED <<env, disk>>
    /\ \/ ~SignatureMatches(t) /\ Failed(t)
       \/ SignatureMatches(t) /\ GoTo(t, "save") /\ UNCHANGED scratch

\* Mutant: the version is recorded before the file is written.
OpenFileRecords(t) ==
    /\ pc[t] = "save"
    /\ UNCHANGED <<env, table, http>>
    /\ \/ Failed(t) /\ UNCHANGED <<file, stored>>
       \/ /\ responseData # << >>
          /\ stored' = [stored EXCEPT ![turn[t]] = want[t].version]
          /\ buffer' = [buffer EXCEPT ![t] = responseData]
          /\ file' = [file EXCEPT ![turn[t]] = << >>]
          /\ GoTo(t, "write")
          /\ UNCHANGED <<want, meta, written>>

\* UpdateDataToFile() copies responseData_ and opens the file, which empties it.
OpenFile(t) ==
    /\ pc[t] = "save"
    /\ UNCHANGED <<env, stored, table, http>>
    /\ \/ Failed(t) /\ UNCHANGED file
       \/ /\ responseData # << >>
          /\ buffer' = [buffer EXCEPT ![t] = responseData]
          /\ file' = [file EXCEPT ![turn[t]] = << >>]
          /\ GoTo(t, "write")
          /\ UNCHANGED <<want, meta, written>>

\* The content after one chunk is written at a position; a gap reads as zeros.
WriteAt(content, i, c) ==
    [j \in 1..(IF i > Len(content) THEN i ELSE Len(content)) |->
        IF j = i THEN c ELSE IF j <= Len(content) THEN content[j] ELSE Junk]

WriteChunk(t) ==
    /\ pc[t] = "write"
    /\ written[t] < Len(buffer[t])
    /\ UNCHANGED <<env, stored, table, http>>
    /\ \/ Failed(t) /\ UNCHANGED file
       \/ /\ file' = [file EXCEPT ![turn[t]] =
                        WriteAt(@, written[t] + 1, buffer[t][written[t] + 1])]
          /\ written' = [written EXCEPT ![t] = @ + 1]
          /\ UNCHANGED <<pc, control, want, meta, buffer>>

\* Mutant: the new yellow pages are not imported.
CloseFileOnly(t) ==
    /\ pc[t] = "write"
    /\ written[t] = Len(buffer[t])
    /\ GoTo(t, "record")
    /\ UNCHANGED <<env, disk, http, scratch>>

CloseFile(t) ==
    /\ pc[t] = "write"
    /\ written[t] = Len(buffer[t])
    /\ GoTo(t, IF turn[t] = "yellowPage" THEN "import" ELSE "record")
    /\ UNCHANGED <<env, disk, http, scratch>>

\* YellowPageParser::Parse needs a version line first; a short file just has fewer rows.
Parses(content) == content # << >> /\ Head(content).part = "head"

\* ImportYellowPageData(): one RDB transaction.  A version already imported is skipped,
\* unless the query of that version fails.
ImportYellowPageData(t) ==
    /\ pc[t] = "import"
    /\ UNCHANGED <<served, file, stored, http>>
    /\ \/ Failed(t) /\ UNCHANGED <<table, faulted>>
       \/ /\ Parses(file["yellowPage"])
          /\ GoTo(t, "record")
          /\ UNCHANGED scratch
          /\ LET new == file["yellowPage"]
                 upToDate == Head(table).version >= Head(new).version
             IN \/ upToDate /\ UNCHANGED <<table, faulted>>
                \/ ~upToDate /\ table' = new /\ UNCHANGED faulted
                \/ DbFaults /\ table' = new /\ faulted' = TRUE

\* PutProperty() reads the record first.  A query without a result set is no error, so it
\* updates the row; where there is none, nothing is recorded and that is success.
UpdateOrInsertVersion(t) ==
    /\ pc[t] = "record"
    /\ UNCHANGED <<served, file, table, http>>
    /\ \/ Failed(t) /\ UNCHANGED <<stored, faulted>>
       \/ /\ stored' = [stored EXCEPT ![turn[t]] = want[t].version]
          /\ Succeeded(t)
          /\ UNCHANGED faulted
       \/ /\ DbFaults /\ stored[turn[t]] = 0
          /\ Succeeded(t)
          /\ faulted' = TRUE
          /\ UNCHANGED stored

-----------------------------------------------------------------------------
(* The environment. *)

Publish(k) ==
    /\ served[k] < MaxVersion /\ Published < MaxPublished
    /\ served' = [served EXCEPT ![k] = @ + 1]
    /\ UNCHANGED <<faulted, disk, http, pc, scratch, control>>

\* The process dies: only the files and the database survive.
Crash ==
    /\ responseData' = << >>
    /\ httpSuccess' = FALSE
    /\ task' = [s \in Slots |-> FreeTask]
    /\ req' = [t \in Threads |-> "none"]
    /\ pc' = [t \in Threads |-> "idle"]
    /\ turn' = [t \in Threads |-> "location"]
    /\ stage' = [t \in Threads |-> "meta"]
    /\ attempt' = [t \in Threads |-> 0]
    /\ want' = [t \in Threads |-> Junk]
    /\ meta' = [t \in Threads |-> Junk]
    /\ buffer' = [t \in Threads |-> << >>]
    /\ written' = [t \in Threads |-> 0]
    /\ okay' = [t \in Threads |-> {}]
    /\ result' = [t \in Threads |-> "none"]
    /\ asked' = [t \in Threads |-> served]
    /\ UNCHANGED <<env, disk>>

Thread(t) ==
    \/ Request(t) \/ RequestFailed(t)
    \/ CheckVersionAndParseDowloadURL(t) \/ CopyResponse(t) \/ CheckFileSignature(t)
    \/ OpenFile(t) \/ WriteChunk(t) \/ CloseFile(t)
    \/ ImportYellowPageData(t) \/ UpdateOrInsertVersion(t)

Http == HttpStep /\ UNCHANGED <<env, disk, pc, scratch, control>>

Next ==
    \/ \E t \in Threads : Call(t) \/ Thread(t)
    \/ Http
    \/ \E k \in Kinds : Publish(k)
    \/ Crash

Spec == Init /\ [][Next]_vars

-----------------------------------------------------------------------------
(* Properties. *)

Torn == -1
Complete(k) == file[k] # << >> /\ file[k] = File(k, Head(file[k]).version)
Installed(k) == IF Complete(k) THEN Head(file[k]).version ELSE Torn

\* DownloadFiles() implements the promise of VerifiedStore: nothing but a complete,
\* signature-checked version that is not older than the recorded one ever ends a
\* replacement (UpdateDataToFile), and a version is recorded (UpdateOrInsert) only
\* while its own file is complete on disk.
Store == INSTANCE VerifiedStore WITH
            installed <- [k \in Kinds |-> Installed(k)],
            recorded <- stored
VerifiedUpdate == Store!Spec

\* A file that a crash or a failed write left in pieces is older than what the server
\* publishes, so the version check of the next call does not skip it.  (After a failed
\* query the recorded version is downloaded again, and may be left in pieces.)
TornIsRetried ==
    ~faulted => \A k \in Kinds : Installed(k) = Torn => stored[k] < served[k]

\* When DownloadFiles() reports success, both recorded versions are at least those the
\* server published when the call began: no answer of an earlier request is believed.  The
\* exception is a record that was never made, because a query of it failed: then the file
\* itself is as new as that.
SuccessMeansCurrent ==
    \A t \in Threads : result[t] = "success" =>
        \A k \in Kinds :
            \/ stored[k] >= asked[t][k]
            \/ faulted /\ stored[k] = 0 /\ Installed(k) >= asked[t][k]

\* The yellow pages of the database are always those of one complete file, and never
\* older than the version recorded for them: the import precedes the record.
YellowPagesImported ==
    \E v \in Version : table = File("yellowPage", v) /\ v >= stored["yellowPage"]
=============================================================================
