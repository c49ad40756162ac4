--------------------------- MODULE NumberLocation ---------------------------
(***************************************************************************)
(* The location query of NumberLocationAbility: IPC threads answer queries *)
(* for the places and operators of phone numbers, each from the text file  *)
(* numberlocation.data, which the first lookup loads into memory that all  *)
(* threads share, and from numberlocation.dat, which every lookup opens    *)
(* anew and which the updater may be rewriting at that moment.             *)
(*                                                                         *)
(* Uninitialised bytes behind a copied number, reads of a file that is     *)
(* being rewritten and unlocked insertions of two threads are choices over *)
(* their outcomes; history variables record that one was taken.            *)
(***************************************************************************)
EXTENDS LocationData, NumberMeanings

CONSTANTS
    Threads,
    Asks,          \* Asks[t]: what thread t may be asked, records exact, numbers
    Places,        \* where the phone may be: region, and countries of network, SIM, locale
    TextFiles,     \* contents numberlocation.data may have, << >> for no file
    Published,     \* the two published sets, bundled and updated
    MaxUpdates

RecordFields == {"kind", "prefix", "province", "city", "location", "operator"}

ASSUME LocationAssumption ==
    \A f \in TextFiles :
        /\ Len(f) \in Nat /\ f = [i \in 1..Len(f) |-> f[i]]
        /\ \A i \in DOMAIN f : f[i].kind = "record" => DOMAIN f[i] = RecordFields

Versions == {"bundled", "updated"}

ASSUME PublishedAssumption == \A v \in Versions : IsPublishable(Published[v])

ASSUME AsksAssumption ==
    \A t \in Threads : \A ask \in Asks[t] : ask.exact \in BOOLEAN /\ ask.numbers \in Seq(Seq(Dialled))

VARIABLES
    place,         \* one of Places
    text,          \* numberlocation.data, a sequence of lines
    sandbox,       \* the updated numberlocation.dat: absent, writing, torn or whole
    records,       \* locationDataSet_.records
    loaded,        \* dataLoaded_
    query,         \* what each thread does
    raced,         \* history: two threads have parsed at once
    updates        \* a bound

vars == <<place, text, sandbox, records, loaded, query, raced, updates>>

Dat == [v \in Versions |-> Layout(Published[v])]

\* The .dat file that a lookup would open.
Current == CASE sandbox = "absent" -> "bundled"
             [] sandbox = "whole" -> "updated"
             [] OTHER -> "none"

\* Two characters of UTF-8 stand for each operator's name.
OperatorData ==
    LET Zones(n) == CASE n = 1 -> {<<3,3>>, <<5,3>>, <<8,0>>, <<8,1>>, <<8,9>>, <<7,3>>, <<7,7>>}
                      [] n = 2 -> {<<3,0>>, <<3,1>>, <<3,2>>, <<5,5>>, <<5,6>>, <<6,6>>, <<8,6>>,
                                   <<4,5>>, <<8,5>>}
                      [] n = 3 -> ({3} \X (4..9)) \cup ({4} \X {7, 8}) \cup
                                  ({5} \X {0, 1, 2, 7, 8, 9}) \cup ({8} \X {2, 3, 4, 7, 8})
                      [] n = 4 -> {<<9,2>>}
        known == UNION {Zones(n) : n \in 1..4}
    IN [p \in {<<1, z[1], z[2]>> : z \in known} |->
            Utf8(<<100, 100 + CHOOSE n \in 1..4 : <<p[2], p[3]>> \in Zones(n)>>)]

HardCoded(ndc3) == IF ndc3 \in DOMAIN OperatorData THEN OperatorData[ndc3] ELSE << >>

-----------------------------------------------------------------------------
(* Which lookups a number needs. *)

Done(location) == [step |-> "done", digits |-> << >>, ndc3 |-> << >>, ndc7 |-> << >>,
                   again |-> FALSE, location |-> location, operator |-> << >>]

\* Only a prefix has its operator looked up again, by GetPhoneOperator.
MobileWork(s, prefix) ==
    LET n == ParseMobilePhoneNumber(s)
        work == [Done(<< >>) EXCEPT !.ndc3 = n.ndc3, !.ndc7 = n.ndc7, !.again = prefix]
    IN IF n.ndc7 # << >> THEN [work EXCEPT !.step = "location7", !.digits = n.ndc7]
       ELSE IF prefix THEN [work EXCEPT !.step = "operator", !.digits = n.ndc3]
       ELSE work

GetFixParseResult(s) ==
    IF ParseFixPhoneNumber(s) = << >> THEN Done(<< >>)
    ELSE [Done(<< >>) EXCEPT !.step = "tel", !.digits = ParseFixPhoneNumber(s)]

GetNatAttributionInfo(s, description) ==
    LET code == {c \in ChinaCodes \ {<<8, 6>>} : IsPrefix(c, s)}
        rest == Drop(s, Len(CHOOSE c \in code : TRUE))
        fixed == IF rest # << >> /\ rest[1] = 0 THEN rest ELSE <<0>> \o rest
    IN IF code = {} THEN Done(description)
       ELSE IF FIX_PATTERN(fixed) THEN GetFixParseResult(fixed)
       ELSE Done(<< >>)

GetAttributionInfo(number, exact, description) ==
    LET s == IF ZERO_MOBILE_PATTERN(number) THEN Tail(number) ELSE number
    IN IF MPN_PATTERN(s) THEN MobileWork(s, FALSE)
       ELSE IF NAT_PATTERN(s) THEN GetNatAttributionInfo(s, description)
       ELSE IF FIX_PATTERN(s) THEN GetFixParseResult(s)
       ELSE IF exact THEN Done(<< >>)
       ELSE IF MPN_QUERY_PATTERN_PREFIX(s) THEN MobileWork(s, TRUE)
       ELSE IF FIX_QUERY_PATTERN(s) THEN GetFixParseResult(s)
       ELSE Done(<< >>)

\* External: FormatPhoneNumberToE164() gives +86 to a mobile number or leaves it as it is.
E164(s) == {s} \cup IF AreDigits(s) /\ Len(s) = 11 /\ s[1] = 1 THEN {<<Plus, 8, 6>> \o s} ELSE {}

GetNumberLocationDefault(number, exact, description) ==
    LET s == Trim(number)
    IN {GetAttributionInfo(f, exact, description) :
            f \in IF Len(s) > 8 /\ s[1] # 0 THEN E164(s) ELSE {s}}

GetNumberLocationNotCn(number, iso, exact, description) ==
    LET s == DeleteInternationalPrefix(number, iso)
    IN IF Len(number) < 7 THEN Done(<< >>)
       ELSE IF IsPrefix(<<Plus, 8, 6>>, s) \/ IsPrefix(<<0, 0, 8, 6>>, s) \/ NAT_PATTERN(s)
            THEN GetAttributionInfo(s, exact, description)
       ELSE Done(description)

GetCountryIso(p) ==
    IF p.network # "" THEN p.network ELSE IF p.sim # "" THEN p.sim ELSE p.locale

ASSUME PlacesAssumption == \A p \in Places : GetCountryIso(p) \in DOMAIN InternationPrefix

\* The country is the one at the start of the query; description is what the library for phone
\* numbers says of a foreign one, maybe nothing.
GetNumberLocation(number, exact, iso, description) ==
    LET s == IpHeadBarber(number)
    IN IF number = << >> THEN {Done(<< >>)}
       ELSE IF place.region # "CN"
            THEN {Done(IF Len(number) < 7 THEN << >> ELSE description)}
       ELSE IF s = << >> THEN {Done(<< >>)}
       ELSE IF iso = "CN" THEN GetNumberLocationDefault(s, exact, description)
       ELSE {GetNumberLocationNotCn(s, iso, exact, description)}

\* The next lookup of GetMobileParseResult and GetPhoneOperator after one that found name.
Advance(w, name) ==
    LET next(step, digits) == [w EXCEPT !.step = step, !.digits = digits]
        located == [next("operator7", w.ndc7) EXCEPT !.location = name]
        named == [w EXCEPT !.operator = IF name # << >> THEN name ELSE HardCoded(w.ndc3),
                           !.step = IF w.again THEN "operator" ELSE "done",
                           !.digits = w.ndc7]
    IN CASE w.step = "tel"       -> [Done(name) EXCEPT !.digits = w.digits]
         [] w.step = "location7" -> IF name = << >> THEN next("location3", w.ndc3) ELSE located
         [] w.step = "location3" -> located
         [] w.step = "operator7" -> IF name = << >> THEN next("operator3", w.ndc3) ELSE named
         [] w.step = "operator3" -> named
         [] w.step = "operator"  -> [named EXCEPT !.step = "done"]

-----------------------------------------------------------------------------
(* The steps of a query. *)

Idle == [at |-> "idle", ask |-> [exact |-> TRUE, numbers |-> << >>],
         iso |-> "", answers |-> << >>, work |-> Done(<< >>), line |-> 0,
         file |-> "none", stale |-> FALSE, guessed |-> FALSE, seen |-> {}]

\* The process has just started, maybe after one that ended while it wrote the .dat file.
Init ==
    /\ place \in Places /\ text \in TextFiles
    /\ sandbox \in {"absent", "torn", "whole"}
    /\ records = << >> /\ loaded = FALSE
    /\ query = [t \in Threads |-> Idle]
    /\ raced = FALSE /\ updates = 0

\* Where the thread goes on with this work: a text lookup, a .dat lookup or the answer.
Begin(q, w) ==
    [q EXCEPT !.work = w, !.line = 0, !.file = "none", !.stale = FALSE,
              !.at = IF w.step = "done" THEN "answer" ELSE IF w.step = "tel" THEN "open" ELSE "text"]

Query(t) ==
    /\ query[t].at = "idle"
    /\ \E ask \in Asks[t] :
         query' = [query EXCEPT ![t] = [Idle EXCEPT !.at = "number", !.ask = ask,
                                            !.iso = GetCountryIso(place), !.seen = {Current}]]
    /\ UNCHANGED <<place, text, sandbox, records, loaded, raced, updates>>

\* The loop over the numbers, and the reply behind the last of them.
NextNumber(t) ==
    LET q == query[t]
        i == Len(q.answers) + 1
    IN /\ q.at = "number"
       /\ IF i > Len(q.ask.numbers)
          THEN query' = [query EXCEPT ![t] = Idle]
          ELSE \E description \in {<< >>, <<"abroad">>} :
                 \E w \in GetNumberLocation(q.ask.numbers[i], q.ask.exact, q.iso, description) :
                    query' = [query EXCEPT ![t] = Begin(q, w)]
       /\ UNCHANGED <<place, text, sandbox, records, loaded, raced, updates>>

Parsing(t) == query[t].at = "parse"
TextResult(w) == IF w.step \in {"location7", "location3"}
                 THEN QueryLocationFromDataFile(records, w.digits)
                 ELSE QueryOperatorFromDataFile(records, w.digits)

\* With the data loaded the lookup takes place at once; else this thread loads them, whoever
\* else is at it.  A name that is not in the text is looked for in the .dat file.
QueryText(t) ==
    LET q == query[t] IN
    /\ q.at = "text"
    /\ query' = [query EXCEPT ![t] =
            IF ~loaded THEN [q EXCEPT !.at = "parse", !.line = 1]
            ELSE IF TextResult(q.work) # << >> THEN Begin(q, Advance(q.work, TextResult(q.work)))
            ELSE [q EXCEPT !.at = "open"]]
    /\ raced' = (raced \/ (~loaded /\ \E u \in Threads : Parsing(u)))
    /\ UNCHANGED <<place, text, sandbox, records, loaded, updates>>

\* Without a file, or with one that begins with anything but the version, nothing is loaded.
LoadFailed(t) == [query EXCEPT ![t].at = "open", ![t].line = 0]

\* Mutant: the data count as loaded as soon as the version has been read.
LoadedEarly(i) == ParseVersion(text)

LoadedBy(i) == i = Len(text)

\* One line of LoadNumberLocationData.  An insertion while another thread inserts may be lost.
Parse(t) ==
    LET q == query[t]
        record == ParseRecord(text[q.line])
        inserted == [d \in DOMAIN records \cup {record.prefix} |->
                        IF d = record.prefix THEN record ELSE records[d]]
    IN /\ Parsing(t)
       /\ IF ~ParseVersion(text)
          THEN query' = LoadFailed(t) /\ UNCHANGED <<records, loaded>>
          ELSE /\ IF text[q.line].kind # "record" THEN UNCHANGED records
                  ELSE \/ records' = inserted
                       \/ /\ \E u \in Threads \ {t} : Parsing(u)
                          /\ UNCHANGED records
               /\ loaded' = (loaded \/ LoadedBy(q.line))
               /\ query' = [query EXCEPT ![t] = IF q.line = Len(text)
                                THEN [q EXCEPT !.at = "text", !.line = 0]
                                ELSE [q EXCEPT !.line = @ + 1]]
       /\ UNCHANGED <<place, text, sandbox, raced, updates>>

\* OpenDataFile and ReadBlockConfigToBuffer: a file in the sandbox hides the bundled one even
\* when its end, with the positions of the blocks, is missing.
OpenDataFile(t) ==
    LET q == query[t] IN
    /\ q.at = "open"
    /\ query' = [query EXCEPT ![t] = IF Current = "none" THEN Begin(q, Advance(q.work, << >>))
                                     ELSE [q EXCEPT !.at = "read", !.file = Current]]
    /\ UNCHANGED <<place, text, sandbox, records, loaded, raced, updates>>

\* What may be found in the bytes behind a number: a NUL, digits, or neither.
Junk == {<< >>, <<7, 7, 7, 7, 7>>, [i \in 1..5 |-> Blank]}

DatResult(d, w, junk) ==
    LET name(names, i) == IF i = NotFound THEN << >> ELSE QueryUnicodeInformation(names[i])
    IN CASE w.step = "tel" -> name(d.cityNames, GetCityIndexByQuHao(d, w.digits, junk))
         [] w.step \in {"location7", "location3"} ->
                name(d.cityNames, GetCityIndexByPhoneNum(d, w.digits, junk))
         [] OTHER -> name(d.opNames, GetMobileOperator(d, w.digits))

\* The rest of a .dat lookup.  Bytes of a file that has been rewritten since it was opened
\* may be taken for anything.
ReadDataFile(t) ==
    LET q == query[t] IN
    /\ q.at = "read"
    /\ \E junk \in Junk :
         LET found == DatResult(Dat[q.file], q.work, junk)
             result == IF q.stale THEN {<< >>, <<"garbage">>} ELSE {found}
             wrong == q.stale \/ found # DatResult(Dat[q.file], q.work, << >>)
         IN \E name \in result :
               query' = [query EXCEPT ![t] = [Begin(q, Advance(q.work, name))
                                                EXCEPT !.guessed = q.guessed \/ wrong]]
    /\ UNCHANGED <<place, text, sandbox, records, loaded, raced, updates>>

Answer(t) ==
    LET q == query[t] IN
    /\ q.at = "answer"
    /\ query' = [query EXCEPT ![t] = [q EXCEPT !.at = "number", !.work = Done(<< >>),
            !.answers = Append(@, Joined(q.work.location, q.work.operator))]]
    /\ UNCHANGED <<place, text, sandbox, records, loaded, raced, updates>>

-----------------------------------------------------------------------------
(* The updater, in the same process. *)

Seeing(t, state) ==
    IF query[t].at = "idle" THEN query[t]
    ELSE [query[t] EXCEPT !.seen = @ \cup {state},
                          !.stale = @ \/ (query[t].at = "read" /\ query[t].file = "updated")]

\* fopen() with "wb+" empties the file that readers have open, and fwrite() fills it again.
WriteBufferToFile ==
    /\ updates < MaxUpdates /\ sandbox # "writing"
    /\ sandbox' = "writing" /\ updates' = updates + 1
    /\ query' = [t \in Threads |-> Seeing(t, "none")]
    /\ UNCHANGED <<place, text, records, loaded, raced>>

FinishWrite ==
    /\ sandbox = "writing"
    /\ \E whole \in BOOLEAN :
         /\ sandbox' = IF whole THEN "whole" ELSE "torn"
         /\ query' = [t \in Threads |-> Seeing(t, IF whole THEN "updated" ELSE "none")]
    /\ UNCHANGED <<place, text, records, loaded, raced, updates>>

Step(t) ==
    \/ Query(t) \/ NextNumber(t) \/ QueryText(t) \/ Parse(t) \/ OpenDataFile(t)
    \/ ReadDataFile(t) \/ Answer(t)

Next == (\E t \in Threads : Step(t)) \/ WriteBufferToFile \/ FinishWrite

Spec == Init /\ [][Next]_vars

-----------------------------------------------------------------------------
(* Properties. *)

\* Every lookup has digits to look up, a line is being parsed only by a thread in the file,
\* and every file that is read is one that has been opened.
TypeOK ==
    /\ sandbox \in {"absent", "writing", "torn", "whole"}
    /\ loaded \in BOOLEAN /\ raced \in BOOLEAN
    /\ \A t \in Threads :
         LET q == query[t] IN
         /\ q.at \in {"idle", "number", "text", "parse", "open", "read", "answer"}
         /\ q.at = "parse" <=> q.line \in 1..(Len(text) + 1)
         /\ q.at = "read" <=> q.file \in Versions
         /\ q.at \in {"text", "parse", "open", "read"} => Len(q.work.digits) \in {3, 4, 7}

\* The last record of each prefix in the text, whatever was done to load it.
TextRecord(d) ==
    LET lines == {i \in DOMAIN text : text[i].kind = "record" /\ text[i].prefix = d}
    IN IF ~ParseVersion(text) \/ lines = {} THEN << >>
       ELSE << ParseRecord(text[CHOOSE i \in lines : \A j \in lines : j <= i]) >>

\* Once the text counts as loaded every prefix of it is there, with the record of its last
\* line, unless two threads parsed at once (number_location_db_parse.cpp:595-634 has no lock).
LoadedIsWhole ==
    loaded /\ ~raced =>
        \A i \in DOMAIN text :
            text[i].kind = "record" =>
                /\ text[i].prefix \in DOMAIN records
                /\ << records[text[i].prefix] >> = TextRecord(text[i].prefix)

\* The tables as published, with no layout, index or offset.
FirstOf(names) ==
    LET some == {i \in DOMAIN names : names[i] # << >>}
    IN IF some = {} THEN << >> ELSE names[CHOOSE i \in some : \A j \in some : i <= j]

Listed(f, d) == IF d \in DOMAIN f THEN f[d] ELSE 0

CityOf(v, d) ==
    IF v = "none" \/ Listed(Published[v].cityOf, d) = 0 THEN << >>
    ELSE Utf8(Published[v].cities[Published[v].cityOf[d]])

OperatorOf(v, d) ==
    LET p == Published[v]
        i == IF Listed(p.operatorOf, Take(d, 3)) # 0 THEN p.operatorOf[Take(d, 3)]
             ELSE Listed(p.operatorOf, d)
    IN IF v = "none" THEN << >> ELSE IF i = 0 THEN << >> ELSE Utf8(p.operators[i])

AreaOf(v, code) ==
    LET with(c) == {i \in DOMAIN Published[v].cities : Published[v].areaCodes[i] = c}
        found == IF with(code) # {} THEN with(code) ELSE with(Take(code, 3))
    IN IF v = "none" THEN << >> ELSE IF found = {} THEN << >>
       ELSE Utf8(Published[v].cities[CHOOSE i \in found : \A j \in found : i <= j])

TextName(d, Field(_)) ==
    LET long == IF Len(d) = 7 THEN TextRecord(d) ELSE << >>
        short == TextRecord(Take(d, 3))
    IN IF long # << >> THEN Field(long[1]) ELSE IF short # << >> THEN Field(short[1]) ELSE << >>

TextPlace(d) == TextName(d, Place)
TextOperator(d) == TextName(d, LAMBDA r : r.operator)

\* The names that may be found for digits, each from one version that was current during the
\* query; behind the operator of a prefix there is no second lookup with three digits.
PlacesOf(d, seen) == {FirstOf(<<TextPlace(d), CityOf(v, d), TextPlace(Take(d, 3))>>) : v \in seen}
OperatorsOf(d, seen) ==
    {FirstOf(<<TextOperator(d), OperatorOf(v, d), TextOperator(Take(d, 3)),
               OperatorOf(u, Take(d, 3)), HardCoded(Take(d, 3))>>) : v \in seen, u \in seen}
PrefixOperatorsOf(d, seen) ==
    {FirstOf(<<TextOperator(d), OperatorOf(v, d), HardCoded(Take(d, 3))>>) : v \in seen}

\* Whatever lookups a query takes, in text and .dat file, with seven digits and three, and
\* whatever updates and torn files fall between them, the names it ends with are published for
\* the digits that it looks up, the text before the .dat file and seven digits before three.
NamesArePublished ==
    \A t \in Threads :
        LET q == query[t]
            w == q.work
            prefix == IF w.ndc7 # << >> THEN w.ndc7 ELSE w.ndc3
        IN q.at = "answer" /\ ~q.guessed /\ ~raced =>
            /\ w.ndc7 # << >> => w.location \in PlacesOf(w.ndc7, q.seen)
            /\ w.ndc7 # << >> /\ ~w.again => w.operator \in OperatorsOf(w.ndc7, q.seen)
            /\ w.again => w.operator \in PrefixOperatorsOf(prefix, q.seen)
            /\ w.ndc3 = << >> /\ w.digits # << >> => w.location \in {AreaOf(v, w.digits) : v \in q.seen}

\* What may be said of the digits that a number means.
Known(m, seen) ==
    CASE m.kind = "mobile" ->
            {Joined(l, o) : l \in PlacesOf(m.digits, seen), o \in OperatorsOf(m.digits, seen)}
      [] m.kind = "prefix" ->
            {Joined(l, o) : l \in IF Len(m.digits) = 7 THEN PlacesOf(m.digits, seen) ELSE {<< >>},
                            o \in PrefixOperatorsOf(m.digits, seen)}
      [] m.kind = "area" -> {AreaOf(v, m.digits) : v \in seen}
      [] m.kind = "abroad" -> {<< >>, <<"abroad">>}
      [] OTHER -> {<< >>}

\* Outside of China the region of the phone leaves only the country of a number.
MeaningsHere(number, exact, iso) ==
    IF place.region = "CN" THEN Meanings(number, exact, iso)
    ELSE {IF Len(number) < 7 THEN Nothing ELSE Abroad}

\* However a number is written, with a code of China, an IP prefix, a 0, blanks, from abroad,
\* the digits looked up are those it means: the answer consists of a place and an operator
\* published for that number.  Excepted are lookups that read a file while it was rewritten
\* or used bytes they had not set, and texts parsed by two threads at once.
AnswersArePublished ==
    \A t \in Threads :
        LET q == query[t]
            number == q.ask.numbers[Len(q.answers) + 1]
        IN q.at = "answer" /\ ~q.guessed /\ ~raced =>
            \A m \in MeaningsHere(number, q.ask.exact, q.iso) :
                Joined(q.work.location, q.work.operator) \in Known(m, q.seen)

\* README.md:9-18: the preset numberlocation.data says where these numbers are from.
PresetIsFound ==
    \A t \in Threads :
        LET q == query[t] IN
        q.at = "answer" /\ place.region = "CN" /\ q.iso = "CN" => q.work.location # << >>
=============================================================================
