---------------------------- MODULE IdentityStore ----------------------------
(***************************************************************************)
(* The queries and updates of NumberMarkAbility, from the promise of the   *)
(* JS call to the identity database and back, for several threads, while   *)
(* yellow pages are imported and the server may crash under its clients.   *)
(*                                                                         *)
(* A call takes one of several roads: "info" asks who has a number, "set"  *)
(* marks one, "pages" and "marks" query a table through StringFieldProxy,  *)
(* "insert" and "delete" change the table of marks, "process" normalises.  *)
(***************************************************************************)
EXTENDS IdentityDatabase, MarkNumbers, StringFieldProxy

CONSTANTS
    Asks,         \* Asks[t]: what thread t may be asked, see NoAsk
    Updates,      \* the yellow page files that may be downloaded
    KnownAreas,   \* the area codes numberlocation.dat has
    Countries,    \* where the phone may roam, "" at home: what FormatPhoneNumberToE164 does there is known
    MaxRows       \* a bound on the rows of marks

Roads == {"info", "set", "pages", "marks", "insert", "delete", "process"}

ASSUME StoreAssumption ==
    /\ Updates \subseteq Files
    /\ \A t \in Threads : \A ask \in Asks[t] : ask.road \in Roads
    /\ Countries \subseteq {""} \cup DOMAIN InternationPrefix
    /\ MaxRows \in Nat

VARIABLES
    marks,        \* table number_mark: rows of a number, a type and IS_CLOUD
    roaming,      \* one of Countries
    call          \* what each thread answers

vars == <<databaseVars, marks, roaming, call>>

NoType == "none"
NoAsk == [road |-> "none", number |-> << >>, type |-> NoType]
Row(number, type, cloud) == [number |-> number, type |-> type, cloud |-> cloud]

\* The answer to "info", a NumberMarkInfo: nothing, a yellow page or a mark.
NoInfo == [type |-> NoType, name |-> ""]
FromYellowPage(page) == [type |-> "yellow_page", name |-> page.name]
FromNumberMark(row) == [type |-> row.type, name |-> ""]

\* step: what the thread does next; seen: history, what "info" could have answered at each
\* moment of the call; changes: how often the rows it is taken from have changed;
\* failed: has a read failed
Idle == [ask |-> NoAsk, step |-> "idle", promise |-> "none", info |-> NoInfo, rows |-> << >>,
         seen |-> {}, changes |-> 0, failed |-> FALSE]

Steps == {"idle", "accept", "pages", "marks", "write", "reply", "settled"}

TypeOK ==
    /\ DatabaseTypeOK
    /\ Len(marks) <= MaxRows
    /\ \A i \in DOMAIN marks : DOMAIN marks[i] = {"number", "type", "cloud"}
    /\ roaming \in Countries
    /\ \A t \in Threads :
        /\ call[t].ask \in Asks[t] \cup {NoAsk}
        /\ call[t].step \in Steps /\ call[t].promise \in {"none", "resolved", "rejected"}
        /\ call[t].step = "idle" => call[t] = Idle
        /\ job[t].kind = "read" => call[t].step \in {"pages", "marks", "write"}

Init ==
    /\ DatabaseInit
    /\ marks = << >>
    /\ roaming \in Countries
    /\ call = [t \in Threads |-> Idle]

-----------------------------------------------------------------------------
(* What the tables say of a number. *)

PageForm(number) == TransformYellowPageNumber(number, KnownAreas)
Standard(number) == StandardizationPhoneNum(number, roaming)

\* The exact number first, else the first row.
FindYellowPageBestMatch(number, rows) ==
    LET exact == {i \in DOMAIN rows : rows[i].number = number}
    IN IF exact # {} THEN FromYellowPage(rows[Min(exact)]) ELSE FromYellowPage(Head(rows))

QueryLocalYellowPage(number, table) ==
    LET transformed == PageForm(number)
    IN Select(table, IF transformed # number THEN In("number", {transformed, number})
                                             ELSE EqualTo("number", number))

QueryLocalNumberMark(number) == Select(marks, EqualTo("NUMBER", Standard(number)))

IsUserMark(row) == ~row.cloud /\ row.type # NoType

\* Mutant: the marks of the cloud count as well.
UserMarkOrCloud(rows) ==
    LET valid == Keep(rows, {row \in Range(rows) : row.type # NoType})
    IN IF valid = << >> THEN NoInfo ELSE FromNumberMark(Head(valid))

UserMark(rows) ==
    LET user == Keep(rows, {row \in Range(rows) : IsUserMark(row)})
    IN IF user = << >> THEN NoInfo ELSE FromNumberMark(Head(user))

\* What QueryByPhoneNumber promises: a yellow page, else the mark of the user.
Best(number, pages, rows) ==
    LET found == QueryLocalYellowPage(number, pages)
        user == {i \in DOMAIN rows : rows[i].number = Standard(number) /\ IsUserMark(rows[i])}
    IN IF found # << >> THEN FindYellowPageBestMatch(number, found)
       ELSE IF user = {} THEN NoInfo
       ELSE FromNumberMark(rows[Min(user)])

\* The rows an answer is taken from.
Rows(number, pages, rows) ==
    << QueryLocalYellowPage(number, pages), Select(rows, EqualTo("NUMBER", Standard(number))) >>

\* A change of the tables is noted by the calls it overlaps and bears on.
Noted(c) ==
    IF \/ c.step \in {"idle", "settled"} \/ c.ask.road # "info"
       \/ (disk'.phones = disk.phones /\ marks' = marks)
       \/ Rows(c.ask.number, disk'.phones, marks') = Rows(c.ask.number, disk.phones, marks)
    THEN c
    ELSE [c EXCEPT !.seen = @ \cup {Best(c.ask.number, disk'.phones, marks')},
                   !.changes = IF @ < 2 THEN @ + 1 ELSE @]

-----------------------------------------------------------------------------
(* The client: napi_number_identity.cpp. *)

\* GetNumberMarkInfo, SetNumberMarkInfo and other clients of the data share.
Ask(t, ask) ==
    /\ call[t].step = "idle" /\ pc[t] = "idle"
    /\ call' = [call EXCEPT ![t] = [Idle EXCEPT !.ask = ask, !.step = "accept",
                    !.seen = IF ask.road = "info" THEN {Best(ask.number, disk.phones, marks)} ELSE {}]]
    /\ UNCHANGED <<databaseVars, marks, roaming>>

Settled(c, promise) == [c EXCEPT !.step = "settled", !.promise = promise]

\* NativeGetNumberMarkInfo and NativeSetNumberMarkInfo have their result.
Settle(t) ==
    /\ call[t].step = "reply"
    /\ call' = [call EXCEPT ![t] = Settled(@, "resolved")]
    /\ UNCHANGED <<databaseVars, marks, roaming>>

\* The callback has run.
Callback(t) ==
    /\ call[t].step = "settled"
    /\ call' = [call EXCEPT ![t] = Idle]
    /\ UNCHANGED <<databaseVars, marks, roaming>>

-----------------------------------------------------------------------------
(* The server: the stub passes a call to its owner, NumberMarkAbility. *)

First(road) ==
    CASE road \in {"info", "pages"} -> "pages"
      [] road = "marks" -> "marks"
      [] OTHER -> "write"

\* There is no helper, no owner or no permission, or the phone is not one for China.
Refused(t) ==
    /\ call[t].step = "accept"
    /\ call' = [call EXCEPT ![t] = Settled(@, "rejected")]
    /\ UNCHANGED <<databaseVars, marks, roaming>>

\* ProcessNumber needs no database: a column of yellow pages and one of marks.
ProcessNumber(t) ==
    /\ call[t].step = "accept" /\ call[t].ask.road = "process"
    /\ LET n == call[t].ask.number IN
       call' = [call EXCEPT ![t] = [@ EXCEPT !.step = "reply", !.rows = << PageForm(n), Standard(n) >>]]
    /\ UNCHANGED <<databaseVars, marks, roaming>>

\* GetInstance for the next read or write.
Need(t, step) ==
    /\ Call(t, Reading)
    /\ call' = [call EXCEPT ![t].step = step]
    /\ UNCHANGED <<marks, roaming>>

Accept(t) ==
    LET road == call[t].ask.road IN
    /\ call[t].step = "accept" /\ road # "process"
    /\ Need(t, First(road))

\* A read is over; the thread no longer needs the instance.
Answer(t, c) ==
    /\ Release(t)
    /\ call' = [call EXCEPT ![t] = c]
    /\ UNCHANGED <<marks, roaming>>

\* What the client gets of a failure: QueryNumberMarks answers with an empty NumberMarkInfo,
\* and a mark that was rolled back is reported as set.
Failure(c) ==
    IF c.ask.road = "info" THEN {[c EXCEPT !.step = "reply", !.failed = TRUE]}
    ELSE {Settled(c, "rejected")} \cup IF c.ask.road = "set" THEN {[c EXCEPT !.step = "reply"]} ELSE {}

NoInstance(t) ==
    /\ call[t].step \in {"pages", "marks", "write"} /\ pc[t] = "null"
    /\ Answer(t, IF call[t].ask.road = "info" THEN [call[t] EXCEPT !.step = "reply", !.failed = TRUE]
                 ELSE Settled(call[t], "rejected"))

StatementFails(t) ==
    /\ call[t].step \in {"pages", "marks", "write"} /\ pc[t] = "ready" /\ Faults
    /\ \E c \in Failure(call[t]) : Answer(t, c)

\* The yellow pages of the number.  Without one its marks are needed.
ReadPages(t) ==
    LET n == call[t].ask.number
        rows == QueryLocalYellowPage(n, disk.phones)
    IN /\ call[t].step = "pages" /\ call[t].ask.road = "info" /\ pc[t] = "ready"
       /\ IF rows = << >> THEN Answer(t, [call[t] EXCEPT !.step = "marks"])
          ELSE Answer(t, [call[t] EXCEPT !.step = "reply", !.info = FindYellowPageBestMatch(n, rows)])

GetInstanceAgain(t) ==
    /\ call[t].step = "marks" /\ call[t].ask.road = "info" /\ pc[t] = "idle"
    /\ Need(t, "marks")

ReadMarks(t) ==
    /\ call[t].step = "marks" /\ call[t].ask.road = "info" /\ pc[t] = "ready"
    /\ Answer(t, [call[t] EXCEPT !.step = "reply",
                                 !.info = UserMark(QueryLocalNumberMark(call[t].ask.number))])

\* A query of a table, with the number in the condition.
YellowPageProxy(number, mappable) ==
    ProxyQuery(disk.phones, EqualTo("number", number), "number", [n \in {number} |-> PageForm(n)], mappable)
NumberMarkProxy(number, mappable) ==
    ProxyQuery(marks, EqualTo("NUMBER", number), "NUMBER", [n \in {number} |-> Standard(n)], mappable)

\* The client says which columns it wants, so it may be that the number is not among them.
ReadTable(t) ==
    LET c == call[t] IN
    /\ c.ask.road \in {"pages", "marks"} /\ c.step = c.ask.road /\ pc[t] = "ready"
    /\ \E mappable \in BOOLEAN :
        Answer(t, [c EXCEPT !.step = "reply",
                            !.rows = IF c.ask.road = "pages" THEN YellowPageProxy(c.ask.number, mappable)
                                                             ELSE NumberMarkProxy(c.ask.number, mappable)])

\* SetLocalNumberMark, the transaction that NumberMark has in steps.
SetLocalNumberMark(number, type) ==
    LET mine(row) == row.number = number /\ ~row.cloud
        user == \E i \in DOMAIN marks : mine(marks[i]) /\ IsUserMark(marks[i])
    IN CASE type = NoType -> Keep(marks, {row \in Range(marks) : ~mine(row)})
         [] user -> [i \in DOMAIN marks |-> IF mine(marks[i]) THEN [marks[i] EXCEPT !.type = type] ELSE marks[i]]
         [] OTHER -> Append(marks, Row(number, type, FALSE))

\* The table after a call.  RawBatchInsert and RawDelete take the number as it is spelled.
Written(ask) ==
    CASE ask.road = "set" -> SetLocalNumberMark(Standard(ask.number), ask.type)
      [] ask.road = "insert" -> Append(marks, Row(ask.number, ask.type, TRUE))
      [] ask.road = "delete" -> Keep(marks, {row \in Range(marks) : row.number # ask.number})

\* SetNumberMark also fails when the call log cannot be updated, after it has committed.
Write(t) ==
    /\ call[t].step = "write" /\ pc[t] = "ready" /\ txn.holder = Nobody
    /\ Len(Written(call[t].ask)) <= MaxRows
    /\ marks' = Written(call[t].ask)
    /\ Release(t)
    /\ UNCHANGED roaming
    /\ \E c \in {[call[t] EXCEPT !.step = "reply"]} \cup
                IF Faults /\ call[t].ask.road = "set" THEN {Settled(call[t], "rejected")} ELSE {} :
            call' = [u \in Threads |-> IF u = t THEN c ELSE Noted(call[u])]

-----------------------------------------------------------------------------
(* The rest of the process. *)

\* The updater imports a file it has downloaded.
ImportYellowPageData(t, f) ==
    /\ call[t].step = "idle"
    /\ Call(t, Importing(f))
    /\ UNCHANGED <<marks, roaming, call>>

\* The clients of a process that has died get no result: their promises are rejected.
Orphaned(c) == IF c.step \in {"idle", "accept", "settled"} THEN c ELSE Settled(c, "rejected")

ServerDies == Crash /\ call' = [t \in Threads |-> Orphaned(call[t])] /\ UNCHANGED <<marks, roaming>>

\* A step in the database; an import that finds no instance takes the process down.
Database(t) ==
    /\ DatabaseStep(t)
    /\ UNCHANGED <<marks, roaming>>
    /\ call' = [u \in Threads |-> IF Dereferenced(t) THEN Orphaned(call[u]) ELSE Noted(call[u])]

Next ==
    \/ \E t \in Threads :
        \/ \E ask \in Asks[t] : Ask(t, ask)
        \/ Refused(t) \/ ProcessNumber(t) \/ Accept(t) \/ NoInstance(t) \/ StatementFails(t)
        \/ ReadPages(t) \/ GetInstanceAgain(t) \/ ReadMarks(t) \/ ReadTable(t) \/ Write(t)
        \/ Settle(t) \/ Callback(t) \/ Database(t)
        \/ \E f \in Updates : ImportYellowPageData(t, f)
    \/ ServerDies

Spec == Init /\ [][Next]_vars

-----------------------------------------------------------------------------
(* Properties. *)

\* The pages and the marks are read one after the other, with imports and updates between.
\* Unless a read failed, or the rows of the number changed more than once meanwhile, what a
\* promise for "info" resolves with was right at some moment of the call: a yellow page if there
\* is one, else the mark of the user, never one of the cloud.
AnswerIsAtomic ==
    \A t \in Threads :
        LET c == call[t] IN
        c.promise = "resolved" /\ c.ask.road = "info" /\ ~c.failed /\ c.changes < 2 => c.info \in c.seen

Distinct(rows) == \A i, j \in DOMAIN rows : rows[i].number = rows[j].number => i = j
NumbersAsked == {ask.number : ask \in UNION {Asks[t] : t \in Threads}}

\* A query of the table through StringFieldProxy and a query for the number name the same
\* yellow page, however area codes are given and stored, when no number is there twice.  If the
\* rows of the table cannot be mapped, the client has to choose, but among the same rows.
BothRoadsAgree ==
    Distinct(disk.phones) =>
        \A number \in NumbersAsked :
            LET table == YellowPageProxy(number, TRUE)
                pages == QueryLocalYellowPage(number, disk.phones)
            IN /\ (table = << >>) = (pages = << >>)
               /\ pages # << >> =>
                    /\ table[1].name = FindYellowPageBestMatch(number, pages).name
                    /\ table[1].number = number
               /\ YellowPageProxy(number, FALSE) = pages

Spellings(mobile, country) ==
    {mobile, <<0>> \o mobile, <<1, 7, 9, 5, 1>> \o mobile, Take(mobile, 3) \o <<Blank>> \o Drop(mobile, 3)}
    \cup {code \o mobile : code \in ChinaCodes}
    \cup IF country = "US" THEN {<<0, 1, 1, 8, 6>> \o mobile, <<0, 1, 1, Blank, 8, 6>> \o mobile} ELSE {}

MobileNumbers == {<<1, z[1], z[2], 0, 0, 0, 0, 0, 0, 1, 7>> : z \in MobileZones \cup ({7} \X {0, 1})}

OneFormIn ==
    {country \in Countries :
        \A mobile \in MobileNumbers :
            \A s \in Spellings(mobile, country) : StandardizationPhoneNum(s, country) = mobile}

\* A mobile number has one form to be marked under, at home or roaming, however it is spelled:
\* with blanks, a call-by-call prefix, a zero, or the code of China in any of its forms.
MobileHasOneForm == roaming \in OneFormIn

-----------------------------------------------------------------------------
(* The inductive invariant. *)

\* A call that has begun is one that was asked for; it is settled exactly when it has an outcome.
IsCall(c, asks) ==
    /\ DOMAIN c = DOMAIN Idle
    /\ c.step \in Steps /\ c.promise \in {"none", "resolved", "rejected"} /\ c.changes \in 0..2
    /\ IF c.step = "idle" THEN c = Idle ELSE c.ask \in asks
    /\ c.step = "write" => c.ask.road \in {"set", "insert", "delete"}
    /\ c.promise # "none" => c.step = "settled"

StoreTyped ==
    /\ TypeOK
    /\ marks \in Seq(Range(marks))
    /\ call = [t \in Threads |-> call[t]] /\ \A t \in Threads : IsCall(call[t], Asks[t])

\* What would be answered now has been seen.  A call that has found no page finds none now, or
\* there is one since the only change, and the mark it is about to read was the answer before.
Right(c, pages, rows) ==
    LET number == c.ask.number IN
    c.ask.road = "info" =>
        /\ c.step \notin {"idle", "settled"} => Best(number, pages, rows) \in c.seen
        /\ c.step = "marks" =>
              \/ c.changes = 2 \/ QueryLocalYellowPage(number, pages) = << >>
              \/ /\ c.changes = 1
                 /\ UserMark(Select(rows, EqualTo("NUMBER", Standard(number)))) \in c.seen
        /\ c.step = "reply" \/ c.promise = "resolved" =>
              c.failed = TRUE \/ c.changes = 2 \/ c.info \in c.seen

StoreInv == StoreTyped /\ \A t \in Threads : Right(call[t], disk.phones, marks)
==============================================================================
