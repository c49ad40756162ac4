# A TLA+ model of Number Identity

This directory specifies, model-checks and partly proves the logic of
`applications_number_identity`: the OpenHarmony application (native library and HAP) that
knows where a phone number is from, what it is marked as, and which yellow page it belongs to.
Everything is translated from the source; the file `PROJECT.json` names, for every definition,
the lines it models.

## 1. The system

The application is one process. Its C++ abilities are called on IPC threads through DataShare;
callbacks of an HTTP client and of remote services arrive on threads of their own. It keeps a
database (tables `properties`, `yellow_page`, `yellow_page_phone`, `number_mark`), two data files in
its sandbox, one repeating work at the work scheduler, and rows of the call log that belong to
another application.

| part | code | state | operations |
|------|------|-------|------------|
| HTTP requests of the updater | `number_location/src/download_file.cpp` 431-530 | `responseData_`, `httpSuccess_`, a condition variable; tasks of the HTTP client | `CreateHttpRequest`, `HttpRequest`, callbacks `OnDataReceive/OnSuccess/OnFail/OnCancel` |
| over-the-air update | `download_file.cpp` 107-125, 201-429, 477-553 | data files, yellow-page table, recorded versions | `DownloadFiles` and the two downloads it retries |
| update schedule | `download_file_ability.cpp`, `download_file.cpp` 127-199, 555-643, `download_file_rdb.cpp`, `DownloadFileWorkSheduler.ts` | properties `network_type`, `time_worker_start_time_second`, `force_updated`; the repeating work | `Query`, `Update` (network type, boot task, timer task), `StartTimer`, `UpdateTimer`, `StopTimer` |
| number marking | `number_mark/src/number_mark_ability.cpp` 826-985 | table `number_mark`, the call log | `SetNumberMark`, `RunInTransaction`, `SetLocalNumberMark`, `UpdateCallLog` |
| mark queries and table access | the rest of `number_mark_ability.cpp`, `number_mark_manager.cpp`, `number_identity_datashare_transform.cpp`, `napi_number_identity.cpp` | `number_mark`, `yellow_page_phone`, the promise of a JS call | `Query`, `QueryByPhoneNumber`, `Insert`, `BatchInsert`, `Delete`, `Update`, `ProcessNumber` |
| intelligent database import | `NumberMarkDataShareClient.ts`, `NumberIdentityService.ts` | rows of `number_mark` with `IS_INTELLIGENT_DB`, a time stamp | insert a batch, delete older rows, set the time stamp |
| identity database | `shared/src/number_identity_database.cpp`, `yellow_page_parser.cpp` | all tables and columns, `user_version`, the instance | `GetInstance` with creation and upgrade, `GetProperty`, `PutProperty`, `ImportYellowPageData` |
| HSDR helper, service extension client | `shared/src/number_identity_hsdr_helper.cpp`, `number_identity_service_extension_client.cpp` | connection, subscriptions, three recursive mutexes | request, connect, disconnect, response and error callbacks |
| caller info query | `frameworks/extension/` | result, flag, condition variable of one query | post JS task, promise callbacks, `Await` |
| number location | `number_location_manager.cpp`, `mobile_phone_number.cpp`, `fix_phone_number.cpp`, `number_location_db_parse.cpp`, `number_location_parser.cpp` | the records loaded from `numberlocation.data`; `numberlocation.dat` in the sandbox or the image | the place and operator of mobile, fixed and foreign numbers and of prefixes |
| DataShare routing and conversion, settings, JS bindings, utilities | `number_identity_datashare_stub_impl.cpp`, `shared/src/`, `frameworks/js/`, `utils/`, `entry/` | none worth the name | |

How they interact. The work scheduler (through `DownloadFileWorkSheduler.ts`) and the settings
application call `DownloadFileAbility`, which decides by the policy and the network whether
`DownloadFiles` runs and re-arms the timer by its outcome. `DownloadFiles` uses the HTTP
requests, writes the data files, imports the yellow pages and records versions in the database
that the mark queries and lookups read. `SetNumberMark` writes the mark table and then the call log.
A location lookup opens the .dat file that the updater rewrites; a mark query asks the yellow pages and then the
marks, each in a query of its own, while an import replaces the former and another client changes the latter.

What is hard, and what has to hold:

* **HTTP requests.** The task is started first, the flag is cleared and the wait begins later; the
  wait has no predicate, the singleton has no lock, and a task is not cancelled when its requester
  gives up. A success must mean that the buffer holds the whole answer to *this* request, and a
  request must return whatever notification was lost.
* **Update.** Every step can fail or be the last before a crash, and `fopen(.., "wb+")` empties the only
  copy. What is recorded must be complete on disk and checked, a torn file must be downloaded
  again, the table must never show half of an import.
* **Schedule.** Cancel, start and stamp are separate calls, made by handlers that may overlap on state they
  read earlier. The timer must not vanish silently while updates are on, nor survive their closing.
* **HSDR.** The answer of the service may come in the reply, later, twice, or never; requests, answers, connection
  callbacks and a disconnect run on different threads under three recursive mutexes. A request must be answered at most
  once, never after a disconnect, nothing may wait in a circle, and it must be clear which subscriptions leak.
* **Caller info.** The query waits without a predicate and reads its result without the mutex, at the moment
  the JS thread may write it. A success must have the whole answer, a query must return.
* **Marking.** Check-then-insert, a second store outside of the transaction, and error codes that
  are passed on by hand. A number has one user mark, the call log shows what a query finds.
* **Database.** Creation and upgrade are single statements with a version stamped at the end, and the process can die
  between any two; an import reads, writes and replaces in a transaction that other threads may try to enter. Nobody may
  get an incomplete instance, and the pages must be those of the recorded version.
* **Mark queries.** A number is spelled, transformed and widened on its way to a table and back, and asked for in two
  tables one after the other. All spellings must meet, and an answer must have been right at some moment of the call.
* **Number location.** Two files with different coverage, two lengths of prefix, positions computed from digits, a file that changes
  under its reader and a load that takes no lock. An answer must be one that was published for the number.

The hazards are listed with their lines in `PROJECT.json`.

## 2. The modules

| module | models | extends |
|--------|--------|---------|
| `VerifiedStore` | what an update of the data files promises (abstract) | |
| `HttpRequest` | state and actions of a request: the requester and the callbacks of a task | |
| `HttpClient` | `HttpRequest` with threads that ask for anything | `HttpRequest` |
| `DownloadFile` | `DownloadFiles()` composed with `HttpRequest`; refines `VerifiedStore` | `HttpRequest` |
| `UpdateSchedule` | `DownloadFileAbility` and the timer functions | |
| `NumberMark` | `SetNumberMark` for several threads | |
| `HsdrHelper` | requests of the HSDR helper over its connection | |
| `CallerInfoQuery` | queries of the caller info extension: IPC threads and the JS thread | |
| `Subsequences` | the selection of elements of a sequence | |
| `PhoneNumbers` | the regular expressions and parts of numbers, as operators | `Subsequences` |
| `NumberMeanings` | what a written number means, for the property (a specification, not code) | `PhoneNumbers` |
| `LocationData` | the layout of `numberlocation.dat` and the lookups in it; the lines of `numberlocation.data` | `PhoneNumbers` |
| `NumberLocation` | location queries of several threads, with load and update | `LocationData`, `NumberMeanings` |
| `IdentityDatabase` | `GetInstance` and `ImportYellowPageData`, by itself or as a part | `Subsequences` |
| `MarkNumbers` | the standard form of a number and the forms of yellow pages | `PhoneNumbers` |
| `StringFieldProxy` | the widening of conditions and the mapping of their results | `Subsequences` |
| `IdentityStore` | queries and changes from the JS promise to the database; implements `IdentityDatabase` | the three before |
| `...Proofs` | theorems about all modules with a state; those of `IdentityDatabase` are in `IdentityStoreProofs` | the module |
| `MC...` | values for constants that a cfg cannot express, symmetry | the module |

Definitions named in a comment "Mutant: ..." change one definition the way a plausible bug would;
no specification uses them. For each property of a passing run there is one that breaks it.

### HttpRequest, HttpClient

`responseData` is a sequence of chunks, one per `OnDataReceive`. `task[s]` is a slot for a task of the HTTP
client: `running`, `succeeded` between the two halves of `OnSuccess` (the flag is set under one mutex
and the condition is notified under another), or `free`. `req[t]` follows `CreateHttpRequest`:
`SendRequest` (lines 457-475), `ClearSuccess` (437-440), `BeginWait`, then either `WaitTimeout` or a
notification or `SpuriousWakeup`, and `CheckSuccess` (448-454). `NotifyOne` wakes any waiting thread, or
nobody.

`WaitTimeout` is always possible: before the task has anything to say, between the flag and its notification, and
for a notified thread that gets the mutex back too late. Each is reported as a failure, whatever the flag says.

`Stragglers = TRUE` is the code as it is: the task has its own timeout of 30 s, armed before that of
the wait but by another clock, so it may still run when its requester asks again. With `FALSE` a thread makes a request only when the
tasks of its earlier ones have delivered (`MayRequest`); their notifications may be still to come, and wake the next wait. The answers of
two threads can mix in one buffer; `OkMeansWholeAnswer` is therefore a property of one thread, and it
needs `Stragglers = FALSE`: a task that a timeout or a spurious wakeup left running, and the next request with it in the same buffer, is
the case that is assumed away (hazard at line 525). Unsynchronised accesses to the `std::string` are modelled as atomic calls in any
order; that such a race may also corrupt memory is not.

### DownloadFile

A thread is at a label `pc` of the download of one file (`turn`), before or after one of its
two requests (`stage`), in one of `1 + RETRY_NUM` attempts. Disk and database (`file`, `stored`, `table`) survive
`Crash`, everything else is lost. `file[k]` is a sequence of chunks: `OpenFile` empties it and `WriteChunk`
fills it, so a crash or failed write leaves a prefix. The server publishes new versions at any time
and may send `Junk` to any request.

Abstractions: a version document is one chunk and a data file two; SHA-256 of body and
version is equality with the published content; the version inside a yellow-page file is
the published one; the recorded versions are the time stamps of the update server, numbered here in the order of strings in which the code compares
them (`download_file.cpp` 409), and the server publishes them in that order; the version document
and the file have different URLs (`retry` compares URLs, line 115). A failed query of a
recorded version returns the default (`DbFaults`). A query without a result set inside `PutProperty` is no error, so the row is updated, and
where there is none `UpdateOrInsertVersion` succeeds with nothing recorded; the next call then downloads the file again.
A flush that fails in `fclose` is not modelled; the code ignores
it, so what is said about recorded versions holds as long as data accepted by `fwrite` reaches the disk.
The process has one thread in `DownloadFiles`, with `Stragglers = FALSE`.

### UpdateSchedule

Each handler executes one call (`op`): `Query`, an update of the network type, the boot task or
the timer task. One step is one call to the database or the scheduler, so handlers overlap at every such
point. `CheckNetwork` and `DownloadFiles` are one step each with any outcome. `timer` is the
repeating work, `stamped` what the application remembers of it. `Crash` ends all handlers; with a
reboot the scheduler will run the boot task again. Calls to the scheduler may fail (`Faults`), properties can be
read and written, the region is CN, the OOBE switch does not change after the first boot, and
the settings application makes one update at a time.

### NumberMark

`user[n]` and `cloud[n]` are the marks of standard number `n` in the table, `callLog[p]` what the calls with spelling `p`
show. A transaction has the store for itself (`holder`). `BodyFails` is a failure of the query or the
write in it, `RollBack` returns its own result (line 955). Unless something fails, `UpdateCallLog` writes
the mark, or for "none" the cloud mark the transaction found. A crash is not modelled: between the
two stores it has the effect of a failed call-log update, which is.

### HsdrHelper

A request is its ID, and the `HsdrConnection` made for a request has the name of that request (the constructor takes its
callback). `subs` is `subscriptions_`, `job[t]` the request thread `t` works for. A thread in the helper is at the point
`pc[t]` before its next lock or IPC call: `Subscribe`, `LockConnection`, then `ReuseConnection` and `GetAbilityProxy`, or
`ConnectServiceExtensionAbility`; `Invoke...` on the caller's thread or that of `OnAbilityConnectDone`; `Answer` is
`HandleResponse` and `HandleError`, which run the callback and remove the subscription under its mutex. `connHolder`,
`subHolder` and `proxyHolder[c]` are the threads that have each mutex; `WaitsFor(t)` those that have what `t` locks next.
The ability manager connects, fails, or goes down; the service answers an asynchronous request up to `MaxReplies` times,
or crashes once. `lost` collects the requests whose connection failed or whose answers died with the service.

Nothing in the repository calls `HsdrHelper` or `NumberIdentityServiceExtensionClient`; they are a library. The callbacks a
client gives are assumed not to call the helper: they run under `subscriptionMutex_`, and a `DisconnectHsdr` from there would
lock `connectionMutex_` against the order the proof needs. A connection that is asked for while another is pending replaces
it in `connection_`, and `DisconnectHsdr` does not reach the first. The service extension client has the same functions
`Connect`, `Disconnect`, `IsAlive`, `GetAbilityProxy` and callbacks, without subscriptions.

### CallerInfoQuery

A query is its `CallerInfoAsyncData`; queries share only the JS thread (`js`). `pc[q]` is its IPC thread, from
`PostTask` over `Await` to the reply, `stage[q]` the other side: posted task, promise, `PromiseResolve` or `PromiseReject`, parsing.
The mutex is taken by the IPC thread only within a step, so it is free unless the JS thread is in `Parsing`. `wait_for` needs it to
return, also after its timeout, and a thread that was notified times out all the same if its time has passed by then (`WaitTimeout`, `expired`). Every write of the parsers and every read of `GetQueryCallerInfoResult`, which has no mutex, is a step
of its own; the code is read twice there (`CountCode`, `AtCode`), as nothing in the source makes it one read. Fields are
written atomically here: a torn `std::string` is not modelled. The script may throw, return anything, and
settle its promise at any time or never. The extension ends only between queries, and the handler runs no task after it.

### PhoneNumbers, NumberMeanings, LocationData, NumberLocation

`Keep(s, S)` of `Subsequences` is what `std::copy_if` and the conditions of a query do. It takes the set of the elements to keep, not a test as
`SelectSeq` does, and computes by a recursive function, so that lemmas can be proved about it.

A number is a sequence of digits, a plus and blanks. The patterns of `number_location_manager.cpp` keep their names and are
predicates. `Layout(p)` makes the tables of a .dat file from what is published, as the code that reads them needs it (the tool that
writes the files is not in the repository), and `IsPublishable` says what has a place in them; `GetCityIndexByPhoneNum`, `GetCityIndexByQuHao` and `GetMobileOperator` read them by
position, from the index of a prefix to the entry of a number, so an offset by one finds another city. Names are wide characters
that become three bytes of UTF-8 each. `Nul` fills what a name or a code leaves of its block; it is none of the digits, which are numbers here.

A thread takes the numbers of a query one by one: `number` decides which lookups it needs (mobile, prefix, fixed, abroad),
`text` and `parse` load the text if nobody has, a line per step into the map all threads share, `open` and `read` are the .dat file. The
updater (`WriteBufferToFile`, `FinishWrite`) tears the file and makes it whole again, or does not. Three things are choices over what the build
can do: digits behind a copied number that has no terminating NUL (line 457), a read of a file rewritten since
it was opened, and two threads inserting into one map (`raced`). A thread that met one of the first two has `guessed`. The answer
has the place before the operator; seven digits before three; the text before the .dat file. libphonenumber is
external and modelled for the countries of the instance.

`NumberMeanings` is the other side of `AnswersArePublished`: a grammar of what a written number may mean, so that the property is not stated in terms of the
code it is about. A mobile number is eleven digits, by itself or behind a code of China or a zero; a fixed number is an area code with its zero and a subscriber's or
a service number; a prefix is the beginning of either; abroad a number is Chinese only behind a plus, `00` or the exit code of the country, and a code of China. Blanks and
IP prefixes do not count. It takes no pattern from the code, only what its tables say: mobile zones, codes of China, exit codes, IP prefixes.
It is sound and not complete: nothing is claimed of a number without a meaning, and what is claimed holds for each meaning
of a number that has several. The instance compares it with a list of spellings and meanings written by hand (`EachMeansOneThing`),
which TLC evaluates, so that it is neither empty nor ambiguous there.

### IdentityDatabase

`disk` is what is committed: `user`, `made` (tables and views created so far, in order), the two columns that upgrades add, the version
recorded for the yellow pages, and their rows. `GetInstance` is one lock (`mutex`), an open, and in `OnCreate` or `OnUpgrade` one
step per statement; the version is stamped last, and the RDB framework is assumed to open no transaction around the
callbacks. `ImportYellowPageData` is `BeginTransaction`, the read of the version (`check`), `PutProperty` (`put`), the rows
(`records`), `Commit` or `RollBack`. `Die` ends the process anywhere. What the code does, and the model with it:

* `CheckVersion` takes a failed query, or one without a result set, for no version, and the import goes on blind. `PutProperty`
  reads again: after an error it inserts, which conflicts with a row that is there, and the import is rolled back; without a
  result set it updates, which changes nothing if there is no row, so there are pages without a version, which the next import replaces.
* Versions are strings, here sequences of characters, and `Before` is the `operator<` of `std::string` that line 283 uses. The versions of
  the repository are "1", "123" and "1234" (`README.md` 11 and 17, `yellow_page_parser_gtest.cpp` 48), so lengths differ: a file "10" is not imported
  over "9", and "999" replaces "1000". What is said of lower versions is said in this order. A file whose version is the empty string is not among
  the files of the model.
* A record with one phone that lacks a field (`dial_map`, `hot_points` and the like) is dropped with all its phones. The rows of `yellow_page` itself, where a line that is
  no JSON leaves an empty row, are not modelled: nothing reads them.
* `OnCreate` ignores the result of its import. A half upgrade repeats `ALTER TABLE` at the next open, which fails: the
  database then never opens again (`null`), and an import dereferences the missing store (lines 235, 240), which ends the process.
* A `RollBack` after a `BeginTransaction` that failed is assumed to do nothing.

### MarkNumbers, StringFieldProxy, IdentityStore

`StandardizationPhoneNum` and the transformation of yellow-page numbers are operators over numbers. `StringFieldProxy` widens `EqualTo` and
`In` on the transformed field and maps rows back. Where that is impossible (the answer lacks the column of the field, or cannot be read), line 270 returns the
rows as they were found, for the widened condition and under their own numbers: `ProxyQuery` takes whether it is possible, and `ReadTable` chooses. A
query has one condition; the code keeps one mapping, so that a second condition on the field replaces that of the first, is not modelled.

In `IdentityStore` a thread is a client with its promise and the server thread that
answers it. `call[t].step`: `accept` checks permission and arguments, `pages` and `marks` are the two queries of `QueryByPhoneNumber` (and
of the tables), `write` is a change of `number_mark` in one step (`NumberMark` has its transaction), `reply` and `settled` the way back to the
promise. Between these, other threads change marks, pages are imported, and the server dies, with the clients rejected.
All database steps are those of `IdentityDatabase`.

## 3. The runs

| run | instance | checks | states |
|-----|----------|--------|--------|
| `http_serial` | 1 thread, 2 slots, bodies of 1 and 2 chunks | `OkMeansWholeAnswer`, `SuccessIsReported` | 405 |
| `http_shared` | 2 threads, 2 slots, stragglers, spurious wakeups | `EveryRequestReturns` | 375 000 |
| `download` | 1 thread, 1 slot, 1 retry, versions 0..2 and 3 published in all, failing queries | `VerifiedUpdate`, `TornIsRetried`, `SuccessMeansCurrent`, `YellowPagesImported` | 2.02 million |
| `schedule` | 2 handlers (symmetric), failing scheduler | `ArmedUnlessClosed`, `ClosedMeansDisarmed`, `LossIsVisible` | 358 000 |
| `marking` | 2 threads (symmetric), 2 spellings of one number, 2 types | `OneUserMark`, `CallLogFollowsMark` | 214 000 |
| `hsdr` | 2 threads, 2 requests, 2 replies, 1 disconnect, 1 crash, fairness | `OneOutcome`, `SubscriptionHasOwner`, `NoDeadlock`, `EveryCallReturns`, `EveryRequestSettles` | 129 000 |
| `caller_query` | 2 queries, fairness | `SuccessIsWhole`, `InTimeIsReported`, `EveryQueryReturns` | 146 000 |
| `location` | 2 threads, 24 spellings and kinds of numbers and a query for two, 4 places, 1 update | `LoadedIsWhole`, `NamesArePublished`, `AnswersArePublished` | 884 000 |
| `identity` | 2 threads, versions "9" and "10" of pages and a file without one, 9 calls, 1 crash | `PagesMatchVersion`, `OpenMeansComplete`, `AnswerIsAtomic`, `BothRoadsAgree`, `MobileHasOneForm`, `DowngradeOnlyBlind` | 1.24 million |
| `mark_rollback` | 1 thread | `NoneMeansDelete`, violated | |
| `caller_abort` | 1 query | `EveryCodeIsFound`, violated | |
| `preset_data` | 1 number | `PresetIsFound`, violated | |

Each module's `TypeOK` is checked with the first of its runs. What they show:

* `http_serial`: neither the flag nor the data of an earlier request is taken for this one, although
  the flag is cleared after the task was started, and although the request before may have timed out with its notification still to
  come. A success whose notification is still due when the wait has begun
  is reported, unless the time has passed when the thread goes on. (One that comes before the wait is not: the thread sleeps for 30 s and reports failure.)
* `http_shared`: lost notifications, wakeups of the wrong thread and late tasks never hang a
  request. The 30 s timeout is what makes it true: its mutant, `wait()`, fails.
* `download`: the update refines `VerifiedStore`. Files are replaced through a torn state only, a
  complete file is never older than its record, a version is recorded only while exactly that file is
  complete on disk. A torn file is older than what is published, so the next call does not skip it. When success
  is reported both records are as new as what was published when the call began; if a query has failed, a first record may be missing, but then
  the file is that new. The table is that of one complete file.
* `schedule`: after a boot task the timer stays armed through overlapping handlers until
  the scheduler fails, a handler dies, or updates are closed; with handlers that do not overlap no timer survives
  closing, and a refused start is visible in the empty start time. The comments at the properties say what
  happens outside of these conditions.
* `marking`: two callers do not both insert a user mark, and when calls do not overlap the call log shows what a
  query finds, the restored cloud mark included.
* `hsdr`: a request has one outcome: an answer, an error, or to be dropped by a disconnect. A subscription that stays has a
  thread, a pending connection or an outstanding answer that will end it, unless its connection failed or the service
  crashed: those callbacks stay for ever. Only the caller that gets the error of
  `ConnectServiceExtensionAbility` returned is told. No lock of the helper is waited for without end, and all other requests do
  get their outcome.
* `caller_query`: a reply that says "query success" has the whole answer, a query that succeeds says so, and an answer that
  ends the wait decides the result, unless the time has passed when the thread has the mutex again. An answer that comes before the wait is lost: the query fails after the whole time,
  with the message "query success". All queries return.
* `location`: the answer for a number, with code of China, IP prefix, zero, blanks, from abroad or as a prefix, is a place and an
  operator published for it in a version that was current during the query, torn files and updates between the lookups of
  one number included. `NamesArePublished` says so of the digits that are looked up, whatever they are; `AnswersArePublished` of the number that
  was asked for, whatever `NumberMeanings` says that it means. Excepted are the three undefined behaviours above. Once the text counts as loaded it is loaded whole.
* `identity`: pages match their recorded version, nobody sees an incomplete database, and a recorded version falls, in the order of strings, only in an import that
  could not read it. A promise for a number resolves with what was right at some moment of the call, unless its rows changed twice meanwhile (then it may
  resolve with nothing although there always was something). A query of the table and a query for the number find the same page, and where the rows of the
  table cannot be mapped, the client gets those that the other road chooses from. A mobile
  number has one form under which it is marked, at home and roaming; a fixed number does not: +861012345678 becomes 1012345678, and
  01012345678 stays. `MobileHasOneForm` is about all mobile zones and depends on the country only, which is chosen
  initially, so it is evaluated for every country of the instance.
* `caller_abort`: a finding. Between `count` and `at` the JS thread can change the code to one that is not in the map.
* `mark_rollback`: a finding. The README of the repository says that `MARK_TYPE_NONE` means delete; when the
  delete fails in the transaction, the error is overwritten by the result of the rollback and
  `SetNumberMark` reports success with the mark still there.
* `preset_data`: a finding. `README.md` 25 of the repository says that locations are queried from `numberlocation.data`, and lines 9 to 14 show it
  with the version in its first line. `etc/numberlocation.data` begins with a licence where the parser needs that line, so nothing of it is loaded.

What these properties do not catch, because the code does it: a timer that an overlapping handler starts again while updates are closed; a timer that `Query` does
not restart with all networks; a call log that overlapping calls leave different from the table; a database that does not open again after half an upgrade;
an answer with nothing when the rows of a number changed twice during the call; two parses at once. The hazards in `PROJECT.json` say so each.

Bounds. Two threads are enough for every race between two requesters, handlers or callers; three
handlers were checked once for `schedule` (2.3 million states) with the same result. Two slots let a late task run next to a new one.
One retry gives a first, a middle-less and a last attempt; what an attempt leaves behind does not depend on
its number. Versions 0..2 let the server publish once more while a download of the first is under way. Two chunks tell
an empty, a partial and a complete file apart. The server publishes three versions in all (`MaxPublished`), so one file gets two and the
other one, before, during and after a call; that both get two adds states and no case, as the files share nothing but the requests. Two requests let one replace
the connection of another, two replies let an answer come late; two threads meet at two of the three mutexes, and the proof of
`NoDeadlock` is for any number. In `location` the updated file moves one segment to another city and operator, one text has two
records of a prefix, another the licence. In `identity` there is an older and a newer file, a record that is dropped, and a number with and without area code. Queries meet on the JS thread only, two at a time. `CHECK_DEADLOCK` is off
where the system really stops: in `hsdr` and `caller_...` every request or query happens once, and then nothing is left to do.

Fairness. `HttpClient` has weak fairness of every requester, because what it does but for the wait
does not block, and of every task, because the HTTP client ends a task after its
30 s (`FairSpec`). `http_shared` adds that of `WaitTimeout`, because `wait_for` returns after 30 s (`TimedSpec`); `http_serial` goes without, so that a success is not
reported thanks to the timeout. Clients are free not to ask, and wakeups need never be spurious. In `HsdrHelper` threads go on (weak fairness of
`Continue`, a synchronous `SendRequest` returns), the ability manager reports every connection it accepted, and the service answers
what it got, unless it crashes; nobody has to call `RequestHsdrAsync` or `DisconnectHsdr`. In `CallerInfoQuery` the wait times out
and native code goes on; the JS thread need not run any task. The other modules state safety only.

## 4. The proofs

All theorems are checked by TLAPS for all values of the constants. `HttpClientProofs` assumes
`HttpAssumption` (there is a thread, `Stragglers` is Boolean) and `BodiesAssumption` (bodies are
sequences of chunks).

* `TypeCorrect`: `Spec => []TypeOK`. `TypeOK` is inductive; each action has its step, `SendType`
  and `TaskType` are the two that touch the sequences.
* `SerialAnswer`: for one thread and `Stragglers = FALSE`, `Spec => []OkMeansWholeAnswer`, with any
  number of slots and any bodies. The property is not inductive. The invariant `SerialInv` adds (`AnswerInv`) that at most one
  task has still to deliver, that what was received followed by what it delivers is the expected answer, and that a
  flag which the thread will read is that of a task which has delivered everything. Tasks of earlier requests may
  be there, but only to notify. The lemma `Delivered` says that moving the first chunk
  of one sequence to the end of another does not change their concatenation.

`NumberMarkProofs` assumes `MarkAssumption`: there is a spelling, each has a standard form, and "none" is
no type of a mark.

* `TypeCorrect`: `Spec => []TypeOK`, inductive; `DoneType` and `WrittenType` are the lemmas on the
  returns of `SetNumberMark` and on what a transaction writes.
* `AtMostOneUserMark`: `Spec => []OneUserMark`, for any threads and any failures. The property is not
  inductive: a commit overwrites the rows with what the thread computed before. `MarkInv` adds that only
  the one holder of the store is in a transaction (`Exclusive`), that what it has read is still true
  (`FreshRead`) and that it will commit one row at most (`SmallWrite`). `Outside` and `Inside` are the
  lemmas on steps outside of and inside a transaction that leave the table alone. The argument rests on the store running one
  transaction at a time, the external assumption of `BeginTransaction`.

`HsdrHelperProofs` assumes `HsdrAssumption` (the bounds are numbers, `None` is no request).

* `DeadlockFree`: `Spec => []NoDeadlock` for any number of threads. `ThreadInv` says where a thread can be that has a mutex
  (`MutexOrder`), that `connectionMutex_` has one holder (`ConnectionMutex`), and that who works has a request (`Employed`).
  From it: who has `subscriptionMutex_` waits for nobody, who has that of a connection waits for the former at most, and
  who has `connectionMutex_` for these two at most; so a circle has no member. `LeaveInv` and `MoveInv` are the two ways a step changes a thread.
* `AnsweredOnce`: `Spec => []OneOutcome`, inductive with `Fresh`: a request not yet made has no outcome.
* `TypeCorrect`: `Spec => []TypeOK`, from the two above and `WorldType`; it needs them because the proxy of `connection_` is taken
  only while `connection_` is there, and an answer is counted only while it is subscribed.
* `SubscriptionOwned`: `Spec => []SubscriptionHasOwner`; needs that a thread which is not in a request has none (`Unemployed`)
  and that nobody subscribes while a disconnect has `subscriptionMutex_` (`Emptied`).

`CallerInfoQueryProofs` assumes `QueryAssumption` (`None` is no query).

* `TypeCorrect`: `Spec => []TypeOK`, inductive.
* `SuccessWhole` and `InTimeReported`: `Spec => []SuccessIsWhole`, `Spec => []InTimeIsReported`. The invariant `QueryInv` says that the
  code is "query success" only after everything was read (`Honest`), what is known of `ret` and the message at each point
  behind the wait (`Verdict`), and that no second answer follows the one that ended the wait, which is the result unless the time had passed (`Told`). `Untouched`: a step for
  one query leaves the others alone, except `AtThrows`.

`DownloadFileProofs` assumes `HttpAssumption` and `DownloadAssumption` (retries and versions are numbers).

* `TypeCorrect`: `Spec => []TypeOK` for any threads and slots, with and without stragglers; inductive. `SettleType` and
  `FailedType` are the ends of an attempt, `WriteAtType` the chunk that is written.
* `TornRetried`, `SuccessCurrent`, `ImportedFirst` and `UpdateImplementsStore`: the three invariants of the run and the refinement of `VerifiedStore`,
  for one thread with `Stragglers = FALSE`, any retries and versions. `SerialInv` says that at most one task has still to deliver, and only while the thread has
  no answer or has given the request up (`OneTask`); that every version document received or still to come for a request was published during the call for the
  file that is asked for (`AnswerInv`, `Believable`); that the document chosen is newer than the record and the one whose signature
  is checked (`Agreed`); that the file is as far as the thread has written it (`Content`); and that each file is complete and not older than its
  record, or short and older than what is published (`FileInv`). None of the properties is inductive without
  these: the record, for instance, would have to trust what is on disk. In the refinement `OpenFile` is `Tear`, the last `WriteChunk`
  `Install`, `UpdateOrInsertVersion` `Record`, and every other step stutters, that of a record which is not made among them. `SuccessCurrent` needs to know of that
  one (`Current`): the file is as new as was asked for, and a query has failed.

`UpdateScheduleProofs` assumes `ScheduleAssumption` (`Faults` is Boolean), for any set of handlers.

* `TypeCorrect`: `Spec => []TypeOK`. `Placed` says which steps the handler of each call has.
* `TimerArmed`: `Spec => []ArmedUnlessClosed`. `WriterInv`: there is one update of the setting at a time, what it has read is true until it
  writes, and only a closing or a boot task that found updates closed stops the timer. `ArmInv`: where the timer can be missing, some
  handler is at a step that will start it (`Armed`).
* `TimerDisarmed`: `Spec => []ClosedMeansDisarmed`. `CloseInv`: without overlap one handler runs (`Alone`), what it has read is still the setting
  (`Faithful`), and an armed timer is one it will stop (`Disarmed`).
* `LossVisible`: `Spec => []LossIsVisible`, from `StampInv`: the start time is written behind a start that succeeded (`Stamped`, `Visible`).

`NumberMarkProofs` also has `CallLogFollows`: `Spec => []CallLogFollowsMark`. `FollowInv` says that a call counted as alone is the only one (`OnlyOne`), that it
has the cloud mark of its number (`CloudRead`), that what it will commit is what was asked for (`Meant`) and is committed when the call log comes
(`Between`), that a failure is remembered (`OnlyFaulted`), and that promises already made still hold (`Kept`).

`NumberLocationProofs` assumes `LocationAssumption`: a text is a sequence of lines, and its records have the fields `ParseRecord` fills. It holds for any
threads, questions, texts, published files and updates. `ReadsBack`, `NamesPublished` and `AnswersPublished` need `PublishedAssumption` as well: every version is `IsPublishable`,
which is what the tables can hold at all: names of one to nine characters in blocks of ten, area codes of three or four digits, a city for each seven-digit
number only behind a prefix of the index, an operator for three digits or for seven, not both (the index has one entry for two digits), and fewer
operators than the base of their groups. A prefix is not 11: the index is searched as one string, and with 11 in it a lookup could hit between two prefixes.

* `TypeCorrect`: `Spec => []TypeOK`. Not inductive: `TypeInv` adds that each lookup which is not done has three, four or seven digits (`IsWork`), that a
  thread is at a line exactly while it parses, and that a file is read only if there was one to open.
* `LoadedWhole`: `Spec => []LoadedIsWhole`. `LoadInv`: unless two threads have parsed at once (`raced`), at most one parses, nothing is loaded
  meanwhile, and the map has the lines before the one it is at: each prefix with the record of its last line (`Inserted`). `LastPosition` finds that last line;
  it needs that a set of positions has a greatest one.
* `ReadsBack`: for every version and every digits that a query can look up, `DatResult` on the tables of `Layout` is the name that the version publishes, or
  none. The parts are as many as the tables. `NumCounts`, `FiveInjective` and `FourInjective`: `atoi` of equally many digits is one to one, so
  `AddressInjective` and `OpAddressInjective` give each number a place of its own. `FlattenBlocks` and `PrefixFound`: the i-th block of a list laid end to
  end is the i-th element, and the search through the prefixes stops at a prefix and not between two. `NameReads`: a padded name of wide characters
  comes back as its UTF-8. `PaddedInjective` and `CitiesWithCode`: a padded code is found exactly where it is published, and the first
  of several cities is taken. `CityReads`, `AreaReads` and `OperatorReads` put it together; `LocationBegins` shows that the digits of every number have the
  form they need: three or four for an area, three or seven that begin with 1 for a mobile number.
* `NamesPublished`: `Spec => []NamesArePublished`. `NamesInv` is inductive together with the invariants of `LoadedWhole` and `RecordsInv` (no record without a
  line of a text that has a version). For each query it says (`Sound`) that it has seen every version that was current since it began, that it opens
  the .dat file only after the text had nothing for these digits, and that its names follow from the lookups before (`Follows`): when three digits are looked up,
  seven have failed, in the text and in some version that was seen. Without the versions seen an update between two lookups would break it; without the text
  being found wanting, the order of text and file. `AdvanceFollows` is the step from one lookup to the next, `FollowsMore` an update, `TextReads` that
  the loaded text answers as its last record does.
* `AnswersPublished`: `Spec => []AnswersArePublished`. It also needs `AsksAssumption` (a query has sequences of numbers, a number is of digits, plus and
  blanks, `exact` is Boolean) and `PlacesAssumption` (the phone is in a country of `InternationPrefix`; a limit of the model, as above). The heart is a
  lemma without any state, `LocationSuits`: for every number, however long, the work that `GetNumberLocation` begins suits every meaning that the grammar gives the number.
  A mobile number is looked up under its first seven digits, an area under its code, a number from abroad not at all. It rests on the digits at each position
  of a number (`HeadElements`), on each pattern in these terms, on what the barber of IP prefixes and the blanks leave (`IpHeadIs`, `TrimIs`), and on the exit codes
  of a country, at most one of which a number begins with (`OneInternational`). `AnswersInv` carries it through the lookups: what `Owes` says of a query's work and a meaning holds when the
  work begins (`SuitsOwes`) and after every fall-back from one lookup to the next (`AdvanceOwes`). `OwedIsKnown` joins it with
  `NamesInv`: names that follow from the lookups, made with the digits that are owed, are known for the meaning.

`IdentityStoreProofs` assumes `DatabaseAssumption` (a version names one file, its phones are a sequence of records with the four fields, the image has a
file, `Nobody` is no thread) and `StoreAssumption` (what is downloaded is a file, a call is one of seven `Roads`, the phone roams in countries of
`InternationPrefix`, `MaxRows` is a number). The countries are a limit of the model: only for them is libphonenumber known.

* `DatabaseTypeCorrect`, `DatabasePagesMatch`, `DatabaseOpenComplete`, `DatabaseDowngradeOnlyBlind`: `DatabaseTypeOK` and the three properties of `IdentityDatabase`, for
  any threads and files, with versions that are any strings (of their order `BeforeAsymmetric` is all that is needed), any failures and crashes. `DatabaseInv` is inductive. `InOrder(t)`: the thread in a transaction holds the store, what it
  has read of the version is true unless it is blind, and at the commit pages and version match; without it a commit could be anything.
  `Made` and `Making(t)`: `user_version` and the thread that opens say how far the tables are.
* `StoreImplementsDatabase`: every step of the store is a step of `IdentityDatabase` or leaves the database alone (`ClientStep`, `ServerStep`).
  `StorePagesMatch`, `StoreOpenComplete` and `StoreDowngradeOnlyBlind` follow.
* Sequences. The library's induction theorems take an operator and cannot be used; `Induct` and `SeqInduct` take a set instead, from the fact
  that `<` on the naturals is well-founded. By them `Keep` is shown to compute what it says (`KeptExists`, `KeepIsKept`), and then its laws:
  of a concatenation, of two selections, its first element, its range (`KeepConcat`, `KeepTwice`, `KeepFirst`, `KeepRange`).
* `StoreTypeCorrect` and `AnswerAtomic`: `Spec => []TypeOK`, `Spec => []AnswerIsAtomic`. `StoreInv` adds to the type what a call knows (`Right`): the answer that
  would be given now is one it has noted; a call that has found no page either finds none now, or the rows changed once since and the mark it is about
  to read was noted as the answer before. `BestOfRows` says that an answer depends on the rows of the number only, so a change of others is not
  counted; `NotedRight` that a change which is counted keeps `Right`. `Call...Right` are the steps of the call itself.
* `RoadsAgree`: `Spec => []BothRoadsAgree`, for any rows and area codes. `KeepDistinct`, `OnlyOne` and `RowOf`: a table in which no number is there twice has one row
  at most for each form of the number. `MapOne`: `MapResult` for one value is the row of that value, or else of what it is transformed to, with the number
  asked for. `BestIsNamed` and `RoadsMeet` put it together; the two roads only meet because both prefer the row that has the number as it was asked for. `Unmapped`: without the mapping, the proxy gives
  just the rows of `QueryLocalYellowPage`.
* `OneForm`: `Spec => []MobileHasOneForm`. Its lemma `OneFormOfAll` says more: it is about every mobile number (`Mobiles`: eleven digits, the first three a mobile zone, the
  others any), not the one number for each zone that the property names. Each spelling has a lemma `OneForm...`; they rest on what can stand before a number
  without being taken for another prefix (`NoIpHead`, `BeginsZeros` and the like), on blanks (`KeepBetween`), and on what is left abroad when the prefix of the
  country is exchanged for a plus (`OneToDelete`, `ComesHome`).

Only model-checked: liveness, as fairness is beyond the prover (`SuccessIsReported`, `EveryRequestReturns`, `EveryCallReturns`, `EveryRequestSettles`, `EveryQueryReturns`).
Each other property of a passing run is a theorem. The properties of the runs that expect a violation are refuted, not proved.

## 5. Plan

The modules above were written in the order of section 2, the core of the updater first. What is left:

1. `DownloadFile` with two threads or with stragglers, and what then still holds of `VerifiedUpdate`; a flush that fails in `fclose`.
2. The import of the intelligent database, should the service pass it something: `BatchInsert`, `Delete` and time stamp as separate
   calls of overlapping imports.
3. The steps of `SetNumberMark` inside `IdentityStore`, instead of its one step.

## 6. Not modelled

* The import of the intelligent database: `NumberIdentityService.ts` passes an empty text, so at this commit it inserts and deletes nothing.
* Code nothing calls: `Put` and `PutOrDeleteNumberMark`, `QueryIntelligentDB`, `ShouldQueryWeLink`, `IsMaritimeSatelliteNumber`, `GetFormatNumber`,
  `GetAreaCode` and `QueryAreaCodebyPhoneNumber`, `QueryFullLocationFromDataFile`, `CallerInfoProvider::Parse`, `GetRemoteSync`,
  `SetIntelligentDBUpdateTimestamp`.
* The supplier of a mark, an optional; `dealMarkSource` dereferences it (`number_mark_ability.cpp` 990) without looking whether it is there.
* The configuration reader, the settings helper beyond the OOBE switch, which URI belongs to which ability, the JS bindings of the location calls:
  a call and its error, no control to check. Strings, pinyin, Base64 and the ArkTS shell (backup extension, page) likewise.
* Formatting, logging, permissions and the layout of messages.
* External, modelled from how the code uses them: the HTTP client, the work scheduler, the RDB store (isolated transactions, rolled back
  when a commit fails), the call log, libphonenumber, the ability manager and the services behind it, the JS engine.
