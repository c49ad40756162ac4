------------------------ MODULE NumberLocationProofs ------------------------
(***************************************************************************)
(* Proofs about NumberLocation, for any threads, texts, published files    *)
(* and numbers: its type invariant, that the text is loaded whole, that    *)
(* the parser of the .dat file finds in the tables of a version what the   *)
(* version publishes, that the names a query ends with are published, and  *)
(* that they are published for what the number means, however written.     *)
(***************************************************************************)
EXTENDS NumberLocation, SequenceTheorems, FiniteSetTheorems, WellFoundedInduction, TLAPS

-----------------------------------------------------------------------------
(* What a number is taken apart to.  A lookup always has three, four or    *)
(* seven digits, whatever the number.                                      *)

WorkFields == {"step", "digits", "ndc3", "ndc7", "again", "location", "operator"}
SevenSteps == {"location7", "location3", "operator7", "operator3"}
WorkSteps == SevenSteps \cup {"operator", "tel", "done"}

IsWork(w) ==
  /\ DOMAIN w = WorkFields
  /\ w.step \in WorkSteps
  /\ w.step # "done" => Len(w.digits) \in {3, 4, 7}
  /\ w.step \in SevenSteps => Len(w.ndc3) = 3 /\ Len(w.ndc7) = 7

LEMMA TakeLength == \A s : \A n \in Nat : Len(Take(s, n)) = n
<1> TAKE s
<1> TAKE n \in Nat
<1> DEFINE S == {s[i] : i \in 1..n}
<1>1. \A i \in 1..n : s[i] \in S
  OBVIOUS
<1>2. Len(SubSeq(s, 1, n)) = n
  <2> HIDE DEF S
  <2> QED
    BY <1>1, SubSeqProperties
<1> QED
  BY <1>2 DEF Take

LEMMA DoneIsWork == \A location : IsWork(Done(location)) /\ Done(location).step = "done"
  BY DEF IsWork, Done, WorkFields, WorkSteps, SevenSteps

LEMMA MobileIsWork == \A s, prefix : IsWork(MobileWork(s, prefix))
<1> TAKE s, prefix
<1> DEFINE n == ParseMobilePhoneNumber(s)
<1>1. Len(n.ndc3) = 3 /\ (n.ndc7 # << >> => Len(n.ndc7) = 7)
  BY TakeLength DEF ParseMobilePhoneNumber
<1> HIDE DEF n
<1> DEFINE work == [Done(<< >>) EXCEPT !.ndc3 = n.ndc3, !.ndc7 = n.ndc7, !.again = prefix]
<1>2. /\ DOMAIN work = WorkFields /\ work.step = "done"
      /\ work.ndc3 = n.ndc3 /\ work.ndc7 = n.ndc7
  BY DEF Done, WorkFields
<1> HIDE DEF work
<1>3. MobileWork(s, prefix) =
        IF n.ndc7 # << >> THEN [work EXCEPT !.step = "location7", !.digits = n.ndc7]
        ELSE IF prefix THEN [work EXCEPT !.step = "operator", !.digits = n.ndc3]
        ELSE work
  BY DEF MobileWork, work, n
<1>4. CASE n.ndc7 # << >>
  BY <1>1, <1>2, <1>3, <1>4 DEF IsWork, WorkFields, WorkSteps, SevenSteps
<1>5. CASE n.ndc7 = << >> /\ prefix
  BY <1>1, <1>2, <1>3, <1>5 DEF IsWork, WorkFields, WorkSteps, SevenSteps
<1>6. CASE n.ndc7 = << >> /\ ~prefix
  BY <1>2, <1>3, <1>6 DEF IsWork, WorkFields, WorkSteps, SevenSteps
<1> QED
  BY <1>4, <1>5, <1>6

LEMMA FixIsWork == \A s : IsWork(GetFixParseResult(s))
<1> TAKE s
<1>1. ParseFixPhoneNumber(s) # << >> => Len(ParseFixPhoneNumber(s)) \in {3, 4}
  BY TakeLength DEF ParseFixPhoneNumber
<1>2. CASE ParseFixPhoneNumber(s) = << >>
  BY <1>2, DoneIsWork DEF GetFixParseResult
<1>3. CASE ParseFixPhoneNumber(s) # << >>
  BY <1>1, <1>3 DEF GetFixParseResult, IsWork, Done, WorkFields, WorkSteps, SevenSteps
<1> QED
  BY <1>2, <1>3

LEMMA AttributionIsWork ==
  \A number, exact, description : IsWork(GetAttributionInfo(number, exact, description))
<1>1. \A s, description : IsWork(GetNatAttributionInfo(s, description))
  BY DoneIsWork, FixIsWork DEF GetNatAttributionInfo
<1> QED
  BY <1>1, DoneIsWork, FixIsWork, MobileIsWork DEF GetAttributionInfo

LEMMA LocationIsWork ==
  \A number, exact, iso, description :
    \A w \in GetNumberLocation(number, exact, iso, description) : IsWork(w)
<1>1. \A number, exact, description :
        \A w \in GetNumberLocationDefault(number, exact, description) : IsWork(w)
  BY AttributionIsWork DEF GetNumberLocationDefault
<1>2. \A number, iso, exact, description : IsWork(GetNumberLocationNotCn(number, iso, exact, description))
  BY AttributionIsWork, DoneIsWork DEF GetNumberLocationNotCn
<1> QED
  BY <1>1, <1>2, DoneIsWork DEF GetNumberLocation

LEMMA AdvanceIsWork ==
  ASSUME NEW w, IsWork(w), w.step # "done", NEW name
  PROVE  IsWork(Advance(w, name))
<1>1. CASE w.step = "tel"
  BY <1>1 DEF Advance, Done, IsWork, WorkFields, WorkSteps, SevenSteps
<1>2. CASE w.step \in {"location7", "location3"}
  BY <1>2 DEF Advance, IsWork, WorkFields, WorkSteps, SevenSteps
<1>3. CASE w.step \in {"operator7", "operator3"}
  BY <1>3 DEF Advance, IsWork, WorkFields, WorkSteps, SevenSteps
<1>4. CASE w.step = "operator"
  BY <1>4 DEF Advance, IsWork, WorkFields, WorkSteps, SevenSteps
<1> QED
  BY <1>1, <1>2, <1>3, <1>4 DEF IsWork, WorkSteps, SevenSteps

-----------------------------------------------------------------------------
(* Type correctness. *)

QueryFields == {"at", "ask", "iso", "answers", "work", "line", "file", "stale", "guessed", "seen"}
Busy == {"text", "parse", "open", "read"}
Places7 == {"idle", "number", "answer"} \cup Busy

\* What holds of the query of a thread; the lines are those of the text.
IsQuery(q, lines) ==
  /\ DOMAIN q = QueryFields
  /\ IsWork(q.work)
  /\ q.at \in Places7
  /\ q.at \in Busy => q.work.step # "done"
  /\ q.at = "parse" <=> q.line \in 1..(lines + 1)
  /\ q.at = "parse" /\ lines # 0 => q.line <= lines
  /\ q.at = "read" <=> q.file \in Versions

\* TypeOK, that each lookup has a step to come, and that the text is a sequence.
TypeInv ==
  /\ sandbox \in {"absent", "writing", "torn", "whole"}
  /\ loaded \in BOOLEAN /\ raced \in BOOLEAN
  /\ text \in TextFiles
  /\ query = [t \in Threads |-> query[t]]
  /\ \A t \in Threads : IsQuery(query[t], Len(text))

LEMMA TypeInvType == TypeInv => TypeOK
  BY DEF TypeInv, TypeOK, IsQuery, IsWork, Busy, Places7

LEMMA IdleIsQuery == \A n \in Nat : IsQuery(Idle, n)
  BY DoneIsWork DEF IsQuery, Idle, QueryFields, Busy, Places7, Versions

LEMMA BeginIsQuery ==
  ASSUME NEW q, DOMAIN q = QueryFields, NEW w, IsWork(w), NEW n \in Nat
  PROVE  IsQuery(Begin(q, w), n) /\ Begin(q, w).at # "parse"
  BY DEF IsQuery, Begin, QueryFields, Busy, Places7, Versions, IsWork

\* One thread goes on with q.
LEMMA GoesOn ==
  ASSUME TypeInv, NEW t \in Threads, NEW q, IsQuery(q, Len(text)),
         query' = [query EXCEPT ![t] = q],
         text' = text, sandbox' = sandbox, loaded' \in BOOLEAN, raced' \in BOOLEAN
  PROVE  TypeInv'
<1>1. query' = [u \in Threads |-> query'[u]]
  BY DEF TypeInv
<1>2. ASSUME NEW u \in Threads PROVE IsQuery(query'[u], Len(text'))
  BY DEF TypeInv
<1> QED
  BY <1>1, <1>2 DEF TypeInv

LEMMA StepType ==
  ASSUME TypeInv, NEW t \in Threads, Step(t)
  PROVE  TypeInv'
<1> DEFINE q == query[t]
<1>1. /\ IsQuery(q, Len(text)) /\ Len(text) \in Nat
      /\ loaded \in BOOLEAN /\ raced \in BOOLEAN
  BY LocationAssumption DEF TypeInv
<1>b. \A w : IsWork(w) => IsQuery(Begin(q, w), Len(text))
  BY <1>1, BeginIsQuery DEF IsQuery
<1>2. CASE Query(t)
  <2>1. PICK ask \in Asks[t] :
          query' = [query EXCEPT ![t] = [Idle EXCEPT !.at = "number", !.ask = ask,
                                             !.iso = GetCountryIso(place), !.seen = {Current}]]
    BY <1>2 DEF Query
  <2>2. \A iso, seen : IsQuery([Idle EXCEPT !.at = "number", !.ask = ask, !.iso = iso, !.seen = seen],
                              Len(text))
    <3>1. DOMAIN Idle = QueryFields /\ IsWork(Idle.work) /\ Idle.line = 0 /\ Idle.file = "none"
      BY DoneIsWork DEF Idle, QueryFields
    <3> QED
      BY <1>1, <3>1 DEF IsQuery, QueryFields, Busy, Places7, Versions
  <2> QED
    BY <1>1, <1>2, <2>1, <2>2, GoesOn DEF Query
<1>3. CASE NextNumber(t)
  <2>1. PICK p : query' = [query EXCEPT ![t] = p] /\ IsQuery(p, Len(text))
    <3>1. CASE Len(q.answers) + 1 > Len(q.ask.numbers)
      BY <1>1, <1>3, <3>1, IdleIsQuery DEF NextNumber
    <3>2. CASE ~(Len(q.answers) + 1 > Len(q.ask.numbers))
      <4>1. PICK number, description : \E w \in GetNumberLocation(number, q.ask.exact, q.iso, description) :
                query' = [query EXCEPT ![t] = Begin(q, w)]
        BY <1>3, <3>2 DEF NextNumber
      <4>2. PICK w : query' = [query EXCEPT ![t] = Begin(q, w)] /\ IsWork(w)
        BY <4>1, LocationIsWork
      <4> QED
        BY <4>2, <1>b
    <3> QED
      BY <3>1, <3>2
  <2> QED
    BY <1>1, <1>3, <2>1, GoesOn DEF NextNumber
<1>4. CASE QueryText(t)
  <2>1. raced' \in BOOLEAN
    BY <1>4, Zenon DEF QueryText
  <2>2. PICK p : query' = [query EXCEPT ![t] = p] /\ IsQuery(p, Len(text))
    <3>1. CASE ~loaded
      <4>1. IsQuery([q EXCEPT !.at = "parse", !.line = 1], Len(text))
        BY <1>1, <1>4 DEF QueryText, IsQuery, QueryFields, Busy, Places7
      <4> QED
        BY <1>4, <3>1, <4>1 DEF QueryText
    <3>2. CASE loaded /\ TextResult(q.work) # << >>
      <4>1. q.work.step # "done"
        BY <1>1, <1>4 DEF QueryText, IsQuery, Busy
      <4>2. IsWork(Advance(q.work, TextResult(q.work)))
        BY <1>1, <4>1, AdvanceIsWork DEF IsQuery
      <4>3. IsQuery(Begin(q, Advance(q.work, TextResult(q.work))), Len(text))
        BY <4>2, <1>b
      <4> QED
        BY <1>4, <3>2, <4>3 DEF QueryText
    <3>3. CASE loaded /\ TextResult(q.work) = << >>
      <4>1. IsQuery([q EXCEPT !.at = "open"], Len(text))
        BY <1>1, <1>4 DEF QueryText, IsQuery, QueryFields, Busy, Places7
      <4> QED
        BY <1>4, <3>3, <4>1 DEF QueryText
    <3> QED
      BY <1>1, <3>1, <3>2, <3>3
  <2> QED
    BY <1>1, <1>4, <2>1, <2>2, GoesOn DEF QueryText
<1>5. CASE Parse(t)
  <2>1. loaded' \in BOOLEAN /\ q.at = "parse"
    BY <1>1, <1>5, Zenon DEF Parse, Parsing
  <2>2. PICK p : query' = [query EXCEPT ![t] = p] /\ IsQuery(p, Len(text))
    <3>1. CASE ~ParseVersion(text)
      <4>1. IsQuery([q EXCEPT !.at = "open", !.line = 0], Len(text))
        BY <1>1, <2>1 DEF IsQuery, QueryFields, Busy, Places7
      <4>2. query' = [query EXCEPT ![t] = [q EXCEPT !.at = "open", !.line = 0]]
        BY <1>5, <3>1 DEF Parse, LoadFailed, TypeInv
      <4> QED
        BY <4>1, <4>2
    <3>2. CASE ParseVersion(text) /\ q.line = Len(text)
      <4>1. IsQuery([q EXCEPT !.at = "text", !.line = 0], Len(text))
        BY <1>1, <2>1 DEF IsQuery, QueryFields, Busy, Places7
      <4> QED
        BY <1>5, <3>2, <4>1 DEF Parse
    <3>3. CASE ParseVersion(text) /\ q.line # Len(text)
      <4>1. Len(text) # 0
        BY <3>3, LocationAssumption DEF ParseVersion, TypeInv
      <4>2. q.line \in 1..Len(text) /\ q.line + 1 \in 1..Len(text)
        BY <1>1, <2>1, <3>3, <4>1 DEF IsQuery
      <4>3. IsQuery([q EXCEPT !.line = @ + 1], Len(text))
        BY <1>1, <2>1, <4>2 DEF IsQuery, QueryFields, Busy, Places7
      <4> QED
        BY <1>5, <3>3, <4>3 DEF Parse
    <3> QED
      BY <3>1, <3>2, <3>3
  <2> QED
    BY <1>1, <1>5, <2>1, <2>2, GoesOn DEF Parse
<1>6. CASE OpenDataFile(t)
  <2>1. q.at = "open" /\ q.work.step # "done"
    BY <1>1, <1>6 DEF OpenDataFile, IsQuery, Busy
  <2>2. IsWork(Advance(q.work, << >>))
    BY <1>1, <2>1, AdvanceIsWork DEF IsQuery
  <2>3. IsQuery(Begin(q, Advance(q.work, << >>)), Len(text))
    BY <2>2, <1>b
  <2>4. Current \in Versions \/ Current = "none"
    BY DEF Current, Versions
  <2>5. Current # "none" => IsQuery([q EXCEPT !.at = "read", !.file = Current], Len(text))
    BY <1>1, <2>1, <2>4 DEF IsQuery, QueryFields, Busy, Places7
  <2> QED
    BY <1>1, <1>6, <2>3, <2>5, GoesOn DEF OpenDataFile
<1>7. CASE ReadDataFile(t)
  <2>1. q.at = "read" /\ q.work.step # "done"
    BY <1>1, <1>7 DEF ReadDataFile, IsQuery, Busy
  <2>2. PICK name, wrong :
          query' = [query EXCEPT ![t] = [Begin(q, Advance(q.work, name))
                                           EXCEPT !.guessed = q.guessed \/ wrong]]
    BY <1>7 DEF ReadDataFile
  <2>3. IsWork(Advance(q.work, name))
    BY <1>1, <2>1, AdvanceIsWork DEF IsQuery
  <2> DEFINE p == Begin(q, Advance(q.work, name))
  <2>4. IsQuery(p, Len(text))
    BY <2>3, <1>b
  <2> HIDE DEF p
  <2>5. IsQuery([p EXCEPT !.guessed = q.guessed \/ wrong], Len(text))
    BY <2>4 DEF IsQuery, QueryFields
  <2> QED
    BY <1>1, <1>7, <2>2, <2>5, GoesOn DEF ReadDataFile, p
<1>8. CASE Answer(t)
  <2>1. \A answers : IsQuery([q EXCEPT !.at = "number", !.work = Done(<< >>), !.answers = answers], Len(text))
    BY <1>1, <1>8, DoneIsWork DEF Answer, IsQuery, QueryFields, Busy, Places7
  <2>2. PICK p : query' = [query EXCEPT ![t] = p] /\ IsQuery(p, Len(text))
    BY <1>8, <2>1 DEF Answer
  <2> QED
    BY <1>1, <1>8, <2>2, GoesOn DEF Answer
<1> QED
  BY <1>2, <1>3, <1>4, <1>5, <1>6, <1>7, <1>8 DEF Step

LEMMA UpdaterType ==
  ASSUME TypeInv, WriteBufferToFile \/ FinishWrite
  PROVE  TypeInv'
<1>1. PICK state : query' = [t \in Threads |-> Seeing(t, state)]
  BY DEF WriteBufferToFile, FinishWrite
<1>2. ASSUME NEW t \in Threads PROVE IsQuery(Seeing(t, state), Len(text))
  BY DEF TypeInv, Seeing, IsQuery, QueryFields
<1>3. /\ sandbox' \in {"absent", "writing", "torn", "whole"}
      /\ UNCHANGED <<text, loaded, raced>>
  BY DEF WriteBufferToFile, FinishWrite
<1> QED
  BY <1>1, <1>2, <1>3 DEF TypeInv

LEMMA TypeInvariant == Spec => []TypeInv
<1>1. Init => TypeInv
  <2> SUFFICES ASSUME Init PROVE TypeInv
    OBVIOUS
  <2>1. Len(text) \in Nat
    BY LocationAssumption DEF Init
  <2>2. loaded \in BOOLEAN /\ raced \in BOOLEAN
    BY Zenon DEF Init
  <2> QED
    BY <2>1, <2>2, IdleIsQuery DEF Init, TypeInv
<1>2. TypeInv /\ [Next]_vars => TypeInv'
  <2> SUFFICES ASSUME TypeInv, [Next]_vars PROVE TypeInv'
    OBVIOUS
  <2>1. CASE UNCHANGED vars
    BY <2>1 DEF vars, TypeInv
  <2> QED
    BY <2>1, StepType, UpdaterType DEF Next
<1> QED
  BY <1>1, <1>2, PTL DEF Spec

\* Each lookup has three, four or seven digits, however the number was written and whatever
\* was found before; a thread is at a line of the text exactly while it parses it, and reads
\* only a file that was there when it was opened.
THEOREM TypeCorrect == Spec => []TypeOK
  BY TypeInvariant, TypeInvType, PTL

-----------------------------------------------------------------------------
(* The text is loaded whole.                                               *)

\* A set of positions has a last one.  (Numbers are well-founded.)
LEMMA LastPosition ==
  ASSUME NEW n \in Nat, NEW T, T \subseteq 1..n, T # {}
  PROVE  \E i \in T : \A j \in T : j <= i
<1> DEFINE R == {p \in Nat \X Nat : p[1] < p[2]}
           Below == {n - i : i \in T}
<1>1. IsWellFoundedOn(R, Nat)
  BY NatLessThanWellFounded DEF OpToRel
<1>2. Below \subseteq Nat /\ Below # {}
  <2>1. \A i \in T : n - i \in Nat
    OBVIOUS
  <2> QED
    BY <2>1
<1>3. \E x \in Below : \A y \in Below : ~(<<y, x>> \in R)
  <2> HIDE DEF R, Below
  <2> QED
    BY <1>1, <1>2, WFMin
<1>4. PICK x \in Below : \A y \in Below : ~(y < x)
  BY <1>2, <1>3
<1>5. PICK i \in T : x = n - i
  OBVIOUS
<1>6. ASSUME NEW j \in T PROVE j <= i
  <2>1. ~(n - j < n - i)
    BY <1>4, <1>5
  <2> QED
    BY <2>1
<1> QED
  BY <1>6

Entry(i) == text[i].kind = "record"

\* The first n lines are in the records: each prefix, with the record of its last line.
Whole(n) ==
  \A i \in 1..n : Entry(i) =>
    /\ text[i].prefix \in DOMAIN records
    /\ (\A j \in (i + 1)..n : Entry(j) => text[j].prefix # text[i].prefix) =>
           records[text[i].prefix] = ParseRecord(text[i])

\* Nothing counts as loaded from a text without a version.  Unless two threads have parsed at
\* once, there is one that parses, while nothing is loaded, and it has inserted the lines
\* before the one it is at.
LoadInv ==
  /\ loaded => ParseVersion(text)
  /\ ~raced =>
       /\ \A t, u \in Threads : Parsing(t) /\ Parsing(u) => t = u
       /\ loaded => Whole(Len(text)) /\ \A t \in Threads : ~Parsing(t)
       /\ \A t \in Threads : Parsing(t) /\ ParseVersion(text) => Whole(query[t].line - 1)

LEMMA PrefixKept ==
  ASSUME NEW line, DOMAIN line = RecordFields
  PROVE  ParseRecord(line).prefix = line.prefix
  BY DEF ParseRecord, RecordFields

LEMMA WholeEmpty == Whole(0)
  BY DEF Whole

\* Inserting the record of the next line.
LEMMA WholeNext ==
  ASSUME NEW n \in Nat, n + 1 \in DOMAIN text, Whole(n), text' = text,
         DOMAIN text[n + 1] = RecordFields \/ ~Entry(n + 1),
         LET record == ParseRecord(text[n + 1])
         IN IF ~Entry(n + 1) THEN records' = records
            ELSE records' = [d \in DOMAIN records \cup {record.prefix} |->
                                 IF d = record.prefix THEN record ELSE records[d]]
  PROVE  Whole(n + 1)'
<1>1. CASE ~Entry(n + 1)
  BY <1>1 DEF Whole, Entry
<1>2. CASE Entry(n + 1)
  <2> DEFINE d == text[n + 1].prefix
             record == ParseRecord(text[n + 1])
  <2>1. record.prefix = d
    BY <1>2, PrefixKept
  <2>2. /\ DOMAIN records' = DOMAIN records \cup {d}
        /\ records'[d] = record
        /\ \A e \in DOMAIN records : e # d => records'[e] = records[e]
    <3> HIDE DEF d, record
    <3> QED
      BY <1>2, <2>1 DEF d, record
  <2> HIDE DEF record
  <2>3. SUFFICES ASSUME NEW i \in 1..(n + 1), Entry(i)
                 PROVE  /\ text[i].prefix \in DOMAIN records'
                        /\ (\A j \in (i + 1)..(n + 1) : Entry(j) => text[j].prefix # text[i].prefix) =>
                               records'[text[i].prefix] = ParseRecord(text[i])
    BY DEF Whole, Entry
  <2>4. CASE i = n + 1
    BY <2>2, <2>4 DEF record
  <2>5. CASE i # n + 1
    <3>1. i \in 1..n
      BY <2>5
    <3>2. text[i].prefix \in DOMAIN records
      BY <2>3, <3>1 DEF Whole
    <3>3. ASSUME \A j \in (i + 1)..(n + 1) : Entry(j) => text[j].prefix # text[i].prefix
          PROVE  records'[text[i].prefix] = ParseRecord(text[i])
      <4>1. text[i].prefix # d
        BY <1>2, <3>1, <3>3
      <4>2. records[text[i].prefix] = ParseRecord(text[i])
        BY <2>3, <3>1, <3>3 DEF Whole
      <4> QED
        BY <2>2, <3>2, <4>1, <4>2
    <3> QED
      BY <2>2, <3>2, <3>3
  <2> QED
    BY <2>4, <2>5
<1> QED
  BY <1>1, <1>2

\* What LoadInv needs of a step that does not parse: the same records, and at most one thread
\* that begins to parse, which is noted if there is another.
LEMMA LoadKept ==
  ASSUME LoadInv, UNCHANGED <<text, records, loaded>>, raced => raced',
         \A t \in Threads : Parsing(t)' => Parsing(t) /\ query'[t].line = query[t].line
  PROVE  LoadInv'
  BY DEF LoadInv, Whole, Entry

\* One thread goes on and does not parse.
LEMMA GoesOnElsewhere ==
  ASSUME TypeInv, LoadInv, NEW t \in Threads, NEW q, q.at # "parse",
         query' = [query EXCEPT ![t] = q],
         UNCHANGED <<text, records, loaded>>, raced => raced'
  PROVE  LoadInv'
<1>1. \A u \in Threads : Parsing(u)' => Parsing(u) /\ query'[u].line = query[u].line
  BY DEF TypeInv, Parsing
<1> QED
  BY <1>1, LoadKept

LEMMA BeginsToParse ==
  ASSUME TypeInv, LoadInv, NEW t \in Threads, ~loaded, query[t].at = "text",
         query' = [query EXCEPT ![t] = [query[t] EXCEPT !.at = "parse", !.line = 1]],
         UNCHANGED <<text, records, loaded>>,
         raced' = (raced \/ \E u \in Threads : Parsing(u))
  PROVE  LoadInv'
<1>1. query'[t].line = 1 /\ \A u \in Threads \ {t} : query'[u] = query[u]
  BY DEF TypeInv, IsQuery, QueryFields
<1>2. ASSUME ~raced'
      PROVE  ~raced /\ \A u \in Threads : ~Parsing(u)
  BY <1>2
<1>3. ASSUME ~raced', NEW u \in Threads, Parsing(u)'
      PROVE  u = t
  BY <1>1, <1>2, <1>3 DEF Parsing
<1>4. ASSUME ~raced', NEW u \in Threads, Parsing(u)'
      PROVE  Whole(query[u].line - 1)'
  <2>1. query'[u].line - 1 = 0
    BY <1>1, <1>3, <1>4
  <2> QED
    BY <2>1 DEF Whole
<1>5. ~loaded' /\ (ParseVersion(text)' <=> ParseVersion(text))
  OBVIOUS
<1> QED
  BY <1>2, <1>3, <1>4, <1>5 DEF LoadInv

LEMMA ParseKeeps ==
  ASSUME TypeInv, LoadInv, NEW t \in Threads, Parse(t)
  PROVE  LoadInv'
<1> DEFINE q == query[t]
<1>1. /\ Parsing(t) /\ text' = text /\ raced' = raced
      /\ DOMAIN q = QueryFields /\ Len(text) \in Nat
      /\ query = [u \in Threads |-> query[u]]
  BY LocationAssumption DEF Parse, TypeInv, IsQuery
<1>2. CASE ~ParseVersion(text)
  <2>1. loaded' = loaded /\ records' = records
    BY <1>1, <1>2 DEF Parse
  <2>2. query' = [query EXCEPT ![t] = [q EXCEPT !.at = "open", !.line = 0]]
    BY <1>1, <1>2 DEF Parse, LoadFailed
  <2>3. [q EXCEPT !.at = "open", !.line = 0].at # "parse"
    BY <1>1 DEF QueryFields
  <2> QED
    BY <1>1, <2>1, <2>2, <2>3, GoesOnElsewhere
<1>3. CASE ParseVersion(text)
  <2>1. q.line \in 1..Len(text) /\ Len(text) # 0
    <3>1. Len(text) # 0
      BY <1>3, LocationAssumption DEF ParseVersion, TypeInv
    <3> QED
      BY <1>1, <3>1 DEF TypeInv, IsQuery, Parsing
  <2>2. loaded' = (loaded \/ q.line = Len(text))
    BY <1>1, <1>3 DEF Parse, LoadedBy
  <2>3. query' = [query EXCEPT ![t] = IF q.line = Len(text) THEN [q EXCEPT !.at = "text", !.line = 0]
                                      ELSE [q EXCEPT !.line = @ + 1]]
    BY <1>1, <1>3 DEF Parse
  <2>4. /\ \A u \in Threads \ {t} : query'[u] = query[u]
        /\ q.line = Len(text) => query'[t].at = "text"
        /\ q.line # Len(text) => query'[t].line = q.line + 1
    BY <1>1, <2>3 DEF QueryFields
  <2>5. ASSUME ~raced PROVE ~loaded /\ \A u \in Threads \ {t} : ~Parsing(u)
    BY <1>1, <2>5 DEF LoadInv
  <2>b. PICK n \in Nat : n = q.line - 1
    BY <2>1
  <2>6. ASSUME ~raced PROVE Whole(n + 1)'
    <3> DEFINE record == ParseRecord(text[n + 1])
    <3>1. n + 1 = q.line /\ n + 1 \in DOMAIN text /\ Whole(n)
      BY <1>1, <1>3, <2>1, <2>b, <2>6, LocationAssumption DEF LoadInv, TypeInv
    <3>2. DOMAIN text[n + 1] = RecordFields \/ ~Entry(n + 1)
      BY <3>1, LocationAssumption DEF Entry, TypeInv
    <3>3. IF ~Entry(n + 1) THEN records' = records
          ELSE records' = [d \in DOMAIN records \cup {record.prefix} |->
                               IF d = record.prefix THEN record ELSE records[d]]
      BY <1>1, <1>3, <2>5, <2>6, <3>1 DEF Parse, Entry
    <3> QED
      BY <1>1, <3>1, <3>2, <3>3, WholeNext
  <2>7. ASSUME ~raced, NEW u \in Threads, Parsing(u)'
        PROVE  u = t /\ n + 1 # Len(text) /\ query'[u].line - 1 = n + 1
    BY <2>1, <2>b, <2>4, <2>5, <2>7 DEF Parsing
  <2>8. ASSUME ~raced, loaded'
        PROVE  Whole(Len(text))' /\ \A u \in Threads : ~Parsing(u)'
    <3>1. n + 1 = Len(text)
      <4>1. q.line = Len(text)
        BY <2>2, <2>5, <2>8, Zenon
      <4> QED
        BY <2>1, <2>b, <4>1
    <3>2. Whole(Len(text))'
      BY <1>1, <2>6, <2>8, <3>1 DEF Whole, Entry
    <3> QED
      BY <2>7, <2>8, <3>1, <3>2
  <2>9. ASSUME ~raced, NEW u \in Threads, Parsing(u)'
        PROVE  Whole(query[u].line - 1)'
    <3>1. query'[u].line - 1 = n + 1 /\ Whole(n + 1)'
      BY <2>6, <2>7, <2>9
    <3> QED
      BY <3>1 DEF Whole, Entry
  <2> QED
    BY <1>1, <1>3, <2>7, <2>8, <2>9 DEF LoadInv
<1> QED
  BY <1>2, <1>3

LEMMA LoadStep ==
  ASSUME TypeInv, LoadInv, NEW t \in Threads, Step(t)
  PROVE  LoadInv'
<1> DEFINE q == query[t]
<1>1. DOMAIN q = QueryFields
  BY DEF TypeInv, IsQuery
<1>2. \A w : Begin(q, w).at # "parse"
  BY <1>1 DEF Begin, QueryFields
<1>3. CASE QueryText(t) /\ ~loaded
  BY <1>3, BeginsToParse DEF QueryText
<1>4. CASE QueryText(t) /\ loaded
  <2>1. PICK p : query' = [query EXCEPT ![t] = p] /\ p.at # "parse"
    <3>1. [q EXCEPT !.at = "open"].at # "parse"
      BY <1>1 DEF QueryFields
    <3> QED
      BY <1>2, <1>4, <3>1 DEF QueryText
  <2> QED
    BY <1>4, <2>1, GoesOnElsewhere DEF QueryText
<1>5. CASE Query(t) \/ NextNumber(t) \/ OpenDataFile(t) \/ ReadDataFile(t) \/ Answer(t)
  <2>1. PICK p : query' = [query EXCEPT ![t] = p] /\ p.at # "parse"
    <3>1. CASE Query(t)
      <4>1. \A ask, iso, seen :
              [Idle EXCEPT !.at = "number", !.ask = ask, !.iso = iso, !.seen = seen].at # "parse"
        <5>1. DOMAIN Idle = QueryFields
          BY DEF Idle, QueryFields
        <5> QED
          BY <5>1 DEF QueryFields
      <4> QED
        <5>1. PICK ask, iso, seen :
                query' = [query EXCEPT ![t] = [Idle EXCEPT !.at = "number", !.ask = ask,
                                                           !.iso = iso, !.seen = seen]]
          BY <3>1 DEF Query
        <5> QED
          BY <4>1, <5>1
    <3>2. CASE NextNumber(t)
      <4>1. Idle.at # "parse"
        BY DEF Idle
      <4>2. CASE Len(q.answers) + 1 > Len(q.ask.numbers)
        BY <3>2, <4>1, <4>2 DEF NextNumber
      <4>3. CASE ~(Len(q.answers) + 1 > Len(q.ask.numbers))
        <5>1. PICK w : query' = [query EXCEPT ![t] = Begin(q, w)]
          BY <3>2, <4>3 DEF NextNumber
        <5> QED
          BY <1>2, <5>1
      <4> QED
        BY <4>2, <4>3
    <3>3. CASE OpenDataFile(t)
      <4>1. \A f : [q EXCEPT !.at = "read", !.file = f].at # "parse"
        BY <1>1 DEF QueryFields
      <4> QED
        BY <1>2, <3>3, <4>1 DEF OpenDataFile
    <3>4. CASE ReadDataFile(t)
      <4>1. PICK name, wrong :
              query' = [query EXCEPT ![t] = [Begin(q, Advance(q.work, name))
                                               EXCEPT !.guessed = q.guessed \/ wrong]]
        BY <3>4 DEF ReadDataFile
      <4>2. \A w : DOMAIN Begin(q, w) = QueryFields
        BY <1>1 DEF Begin, QueryFields
      <4>3. \A w, g : [Begin(q, w) EXCEPT !.guessed = g].at # "parse"
        BY <1>2, <4>2 DEF QueryFields
      <4> QED
        BY <4>1, <4>3
    <3>5. CASE Answer(t)
      <4>1. \A w, a : [q EXCEPT !.at = "number", !.work = w, !.answers = a].at # "parse"
        BY <1>1 DEF QueryFields
      <4> QED
        BY <3>5, <4>1 DEF Answer
    <3> QED
      BY <1>5, <3>1, <3>2, <3>3, <3>4, <3>5
  <2>2. UNCHANGED <<text, records, loaded, raced>>
    BY <1>5 DEF Query, NextNumber, OpenDataFile, ReadDataFile, Answer
  <2> QED
    BY <2>1, <2>2, GoesOnElsewhere
<1>6. CASE Parse(t)
  BY <1>6, ParseKeeps
<1> QED
  BY <1>3, <1>4, <1>5, <1>6 DEF Step

LEMMA LoadInvariant == Spec => []LoadInv
<1>1. Init => LoadInv
  <2> SUFFICES ASSUME Init PROVE LoadInv
    OBVIOUS
  <2>1. ~loaded /\ \A t \in Threads : ~Parsing(t)
    BY DEF Init, Parsing, Idle
  <2> QED
    BY <2>1 DEF LoadInv
<1>2. TypeInv /\ LoadInv /\ [Next]_vars => LoadInv'
  <2> SUFFICES ASSUME TypeInv, LoadInv, [Next]_vars PROVE LoadInv'
    OBVIOUS
  <2>1. CASE WriteBufferToFile \/ FinishWrite
    <3>1. PICK state : query' = [t \in Threads |-> Seeing(t, state)]
      BY <2>1 DEF WriteBufferToFile, FinishWrite
    <3>2. \A t \in Threads : Parsing(t)' => Parsing(t) /\ query'[t].line = query[t].line
      BY <3>1 DEF TypeInv, IsQuery, QueryFields, Seeing, Parsing
    <3> QED
      BY <2>1, <3>2, LoadKept DEF WriteBufferToFile, FinishWrite
  <2>2. CASE UNCHANGED vars
    BY <2>2, LoadKept DEF vars, Parsing
  <2> QED
    BY <2>1, <2>2, LoadStep DEF Next
<1> QED
  BY <1>1, <1>2, TypeInvariant, PTL DEF Spec

\* Once the text counts as loaded, every prefix of it is there with the record of its last
\* line, unless two threads have parsed at once: nobody looks a number up in half of the text.
THEOREM LoadedWhole == Spec => []LoadedIsWhole
<1>1. TypeInv /\ LoadInv => LoadedIsWhole
  <2> SUFFICES ASSUME TypeInv, LoadInv, loaded, ~raced, NEW i \in DOMAIN text, Entry(i)
               PROVE  /\ text[i].prefix \in DOMAIN records
                      /\ << records[text[i].prefix] >> = TextRecord(text[i].prefix)
    BY DEF LoadedIsWhole, Entry
  <2>1. ParseVersion(text) /\ Whole(Len(text)) /\ Len(text) \in Nat /\ DOMAIN text = 1..Len(text)
    BY LocationAssumption DEF LoadInv, TypeInv
  <2> DEFINE d == text[i].prefix
             lines == {k \in DOMAIN text : text[k].kind = "record" /\ text[k].prefix = d}
             last == CHOOSE k \in lines : \A j \in lines : j <= k
  <2>2. i \in lines /\ lines \subseteq 1..Len(text)
    BY <2>1 DEF Entry
  <2>3. last \in lines /\ \A j \in lines : j <= last
    <3>1. \E k \in lines : \A j \in lines : j <= k
      <4> HIDE DEF lines
      <4> QED
        BY <2>1, <2>2, LastPosition
    <3> QED
      BY <3>1, Zenon
  <2>4. TextRecord(d) = << ParseRecord(text[last]) >>
    BY <2>1, <2>2 DEF TextRecord
  <2> HIDE DEF last
  <2>5. last \in 1..Len(text) /\ Entry(last) /\ text[last].prefix = d
    BY <2>2, <2>3 DEF Entry
  <2>6. ASSUME NEW j \in (last + 1)..Len(text), Entry(j) PROVE text[j].prefix # d
    BY <2>1, <2>3, <2>5, <2>6 DEF Entry
  <2>7. records[d] = ParseRecord(text[last])
    BY <2>1, <2>5, <2>6 DEF Whole
  <2>8. d \in DOMAIN records
    BY <2>1 DEF Whole
  <2> QED
    BY <2>4, <2>7, <2>8
<1> QED
  BY <1>1, TypeInvariant, LoadInvariant, PTL

-----------------------------------------------------------------------------
(* Induction over the numbers, for a set.                                  *)

LEMMA Induct ==
  ASSUME NEW T, 0 \in T, \A n \in Nat : n \in T => n + 1 \in T
  PROVE  \A n \in Nat : n \in T
<1> DEFINE R == {p \in Nat \X Nat : p[1] < p[2]}
           Out == Nat \ T
<1> SUFFICES ASSUME Out # {} PROVE FALSE
  OBVIOUS
<1>1. IsWellFoundedOn(R, Nat)
  BY NatLessThanWellFounded DEF OpToRel
<1>2. \E x \in Out : \A y \in Out : ~(<<y, x>> \in R)
  <2>1. Out \subseteq Nat
    OBVIOUS
  <2> HIDE DEF R, Out
  <2> QED
    BY <1>1, <2>1, WFMin
<1>3. PICK x \in Out : \A y \in Out : ~(y < x)
  BY <1>2
<1>4. x # 0 /\ x - 1 \in Nat
  OBVIOUS
<1>5. x - 1 \in T
  BY <1>3, <1>4
<1> QED
  BY <1>4, <1>5

-----------------------------------------------------------------------------
(* The number that digits make, as the parser computes it.                 *)

\* g computes Num(s) up to the n-th digit.
Counts(g, s, n) == g = [m \in 0..n |-> IF m = 0 THEN 0 ELSE 10 * g[m - 1] + s[m]]

LEMMA CountsExists ==
  ASSUME NEW s
  PROVE  \A n \in Nat : \E g : Counts(g, s, n)
<1> DEFINE N == {n \in Nat : \E g : Counts(g, s, n)}
<1>1. 0 \in N
  <2>1. Counts([m \in 0..0 |-> 0], s, 0)
    BY DEF Counts
  <2> QED
    BY <2>1
<1>2. ASSUME NEW n \in Nat, n \in N PROVE n + 1 \in N
  <2>1. PICK g : Counts(g, s, n)
    BY <1>2
  <2> DEFINE h == [m \in 0..(n + 1) |-> IF m # n + 1 THEN g[m] ELSE 10 * g[m - 1] + s[m]]
  <2>2. \A m \in 0..n : g[m] = IF m = 0 THEN 0 ELSE 10 * g[m - 1] + s[m]
    BY <2>1 DEF Counts
  <2>3. \A m \in 0..n : h[m] = g[m]
    OBVIOUS
  <2>4. h[n + 1] = 10 * h[n] + s[n + 1]
    BY <2>3
  <2>5. \A m \in 0..(n + 1) : h[m] = IF m = 0 THEN 0 ELSE 10 * h[m - 1] + s[m]
    <3> HIDE DEF h
    <3> SUFFICES ASSUME NEW m \in 0..(n + 1)
                 PROVE  h[m] = IF m = 0 THEN 0 ELSE 10 * h[m - 1] + s[m]
      OBVIOUS
    <3>1. CASE m = n + 1
      BY <2>4, <3>1
    <3>2. CASE m # n + 1
      <4>1. m \in 0..n /\ (m # 0 => m - 1 \in 0..n)
        BY <3>2
      <4> QED
        BY <2>2, <2>3, <4>1
    <3> QED
      BY <3>1, <3>2
  <2>6. h = [m \in 0..(n + 1) |-> h[m]]
    OBVIOUS
  <2>7. Counts(h, s, n + 1)
    <3> HIDE DEF h
    <3> QED
      BY <2>5, <2>6 DEF Counts
  <2> QED
    BY <2>7
<1> HIDE DEF N
<1>3. \A n \in Nat : n \in N
  BY <1>1, <1>2, Induct
<1> QED
  BY <1>3 DEF N

LEMMA NumCounts ==
  ASSUME NEW s, Len(s) \in Nat
  PROVE  \E g : /\ g[0] = 0 /\ Num(s) = g[Len(s)]
                /\ \A m \in 1..Len(s) : g[m] = 10 * g[m - 1] + s[m]
<1> DEFINE value == CHOOSE g : g = [m \in 0..Len(s) |-> IF m = 0 THEN 0 ELSE 10 * g[m - 1] + s[m]]
<1>1. PICK g : Counts(g, s, Len(s))
  BY CountsExists
<1>2. Counts(value, s, Len(s))
  BY <1>1, Zenon DEF Counts
<1>3. Num(s) = value[Len(s)]
  BY DEF Num
<1> HIDE DEF value
<1>4. \A m \in 0..Len(s) : value[m] = IF m = 0 THEN 0 ELSE 10 * value[m - 1] + s[m]
  BY <1>2 DEF Counts
<1>5. value[0] = 0 /\ \A m \in 1..Len(s) : value[m] = 10 * value[m - 1] + s[m]
  BY <1>4
<1> QED
  BY <1>3, <1>5

LEMMA NumOfTwo ==
  ASSUME NEW s, Len(s) = 2, s[1] \in Int, s[2] \in Int
  PROVE  Num(s) = 10 * s[1] + s[2]
<1>0. Len(s) \in Nat
  OBVIOUS
<1>1. PICK g : /\ g[0] = 0 /\ Num(s) = g[Len(s)]
              /\ \A m \in 1..Len(s) : g[m] = 10 * g[m - 1] + s[m]
  BY <1>0, NumCounts, Zenon
<1>2. g[1] = 10 * g[0] + s[1] /\ g[2] = 10 * g[1] + s[2]
  BY <1>1
<1> QED
  BY <1>1, <1>2

LEMMA NumOfFour ==
  ASSUME NEW s, Len(s) = 4, s[1] \in Int, s[2] \in Int, s[3] \in Int, s[4] \in Int
  PROVE  Num(s) = 1000 * s[1] + 100 * s[2] + 10 * s[3] + s[4]
<1>0. Len(s) \in Nat
  OBVIOUS
<1>1. PICK g : /\ g[0] = 0 /\ Num(s) = g[Len(s)]
              /\ \A m \in 1..Len(s) : g[m] = 10 * g[m - 1] + s[m]
  BY <1>0, NumCounts, Zenon
<1>2. /\ g[1] = 10 * g[0] + s[1] /\ g[2] = 10 * g[1] + s[2]
      /\ g[3] = 10 * g[2] + s[3] /\ g[4] = 10 * g[3] + s[4]
  BY <1>1
<1> QED
  BY <1>1, <1>2

LEMMA NumOfFive ==
  ASSUME NEW s, Len(s) = 5, s[1] \in Int, s[2] \in Int, s[3] \in Int, s[4] \in Int, s[5] \in Int
  PROVE  Num(s) = 10000 * s[1] + 1000 * s[2] + 100 * s[3] + 10 * s[4] + s[5]
<1>0. Len(s) \in Nat
  OBVIOUS
<1>1. PICK g : /\ g[0] = 0 /\ Num(s) = g[Len(s)]
              /\ \A m \in 1..Len(s) : g[m] = 10 * g[m - 1] + s[m]
  BY <1>0, NumCounts, Zenon
<1>2. /\ g[1] = 10 * g[0] + s[1] /\ g[2] = 10 * g[1] + s[2]
      /\ g[3] = 10 * g[2] + s[3] /\ g[4] = 10 * g[3] + s[4] /\ g[5] = 10 * g[4] + s[5]
  BY <1>1
<1> QED
  BY <1>1, <1>2

LEMMA Joins ==
  ASSUME NEW S, NEW s \in Seq(S), NEW t \in Seq(S), NEW u, u = s \o t
  PROVE  /\ u \in Seq(S) /\ Len(u) = Len(s) + Len(t)
         /\ \A i \in 1..Len(s) : u[i] = s[i]
         /\ \A i \in 1..Len(t) : u[Len(s) + i] = t[i]
  BY ConcatProperties

-----------------------------------------------------------------------------
(* Blocks of equal length, one behind the other. *)

\* g is FlattenSeq(ss) of the first n sequences.
Flattens(g, ss, n) == g = [i \in 1..n |-> IF i = 1 THEN ss[i] ELSE g[i - 1] \o ss[i]]

LEMMA FlattensExists ==
  ASSUME NEW ss
  PROVE  \A n \in Nat : \E g : Flattens(g, ss, n)
<1> DEFINE N == {n \in Nat : \E g : Flattens(g, ss, n)}
<1>1. 0 \in N
  <2>1. Flattens([i \in 1..0 |-> << >>], ss, 0)
    BY DEF Flattens
  <2> QED
    BY <2>1
<1>2. ASSUME NEW n \in Nat, n \in N PROVE n + 1 \in N
  <2>1. PICK g : Flattens(g, ss, n)
    BY <1>2
  <2> DEFINE step(m) == g[m] \o ss[m + 1]
             h == [m \in 1..(n + 1) |-> IF m # n + 1 THEN g[m] ELSE IF m = 1 THEN ss[m] ELSE g[m - 1] \o ss[m]]
  <2>2. \A m \in 1..n : g[m] = IF m = 1 THEN ss[m] ELSE g[m - 1] \o ss[m]
    BY <2>1, Zenon DEF Flattens
  <2>3. \A m \in 1..(n + 1) :
          h[m] = IF m # n + 1 THEN g[m] ELSE IF m = 1 THEN ss[m] ELSE g[m - 1] \o ss[m]
    BY Zenon
  <2>5. \A m \in 1..(n + 1) : h[m] = IF m = 1 THEN ss[m] ELSE h[m - 1] \o ss[m]
    <3> HIDE DEF h
    <3> SUFFICES ASSUME NEW m \in 1..(n + 1)
                 PROVE  h[m] = IF m = 1 THEN ss[m] ELSE h[m - 1] \o ss[m]
      OBVIOUS
    <3>1. m # 1 => m - 1 \in 1..(n + 1) /\ m - 1 # n + 1
      OBVIOUS
    <3>2. m # 1 => h[m - 1] = g[m - 1]
      BY <2>3, <3>1, Zenon
    <3>3. CASE m = n + 1
      <4>1. h[m] = IF m = 1 THEN ss[m] ELSE g[m - 1] \o ss[m]
        BY <2>3, <3>3, Zenon
      <4> QED
        BY <3>2, <4>1, Zenon
    <3>4. CASE m # n + 1
      <4>1. m \in 1..n
        BY <3>4
      <4>2. h[m] = g[m]
        BY <2>3, <3>4, Zenon
      <4> QED
        BY <2>2, <3>2, <4>1, <4>2, Zenon
    <3> QED
      BY <3>3, <3>4
  <2>6. h = [m \in 1..(n + 1) |-> h[m]]
    OBVIOUS
  <2>7. Flattens(h, ss, n + 1)
    <3> HIDE DEF h
    <3>1. [m \in 1..(n + 1) |-> h[m]]
            = [m \in 1..(n + 1) |-> IF m = 1 THEN ss[m] ELSE h[m - 1] \o ss[m]]
      BY <2>5, Zenon
    <3> QED
      BY <2>6, <3>1, Zenon DEF Flattens
  <2> QED
    BY <2>7
<1> HIDE DEF N
<1>3. \A n \in Nat : n \in N
  BY <1>1, <1>2, Induct
<1> QED
  BY <1>3 DEF N

LEMMA FlattenFlattens ==
  ASSUME NEW ss, Len(ss) \in Nat, Len(ss) # 0
  PROVE  \E g : FlattenSeq(ss) = g[Len(ss)] /\ Flattens(g, ss, Len(ss))
<1> DEFINE flatten == CHOOSE g : g = [i \in 1..Len(ss) |-> IF i = 1 THEN ss[i] ELSE g[i - 1] \o ss[i]]
<1>1. PICK g : Flattens(g, ss, Len(ss))
  BY FlattensExists
<1>2. Flattens(flatten, ss, Len(ss))
  BY <1>1, Zenon DEF Flattens
<1>3. FlattenSeq(ss) = flatten[Len(ss)]
  BY DEF FlattenSeq
<1> QED
  BY <1>2, <1>3

LEMMA FlattenBlocks ==
  ASSUME NEW S, NEW c \in {2, 3}, NEW ss \in Seq(Seq(S)), \A i \in 1..Len(ss) : Len(ss[i]) = c
  PROVE  /\ FlattenSeq(ss) \in Seq(S) /\ Len(FlattenSeq(ss)) = c * Len(ss)
         /\ \A k \in 1..Len(ss) : \A j \in 1..c : FlattenSeq(ss)[c * (k - 1) + j] = ss[k][j]
<1>0. Len(ss) \in Nat /\ \A i \in 1..Len(ss) : ss[i] \in Seq(S)
  OBVIOUS
<1>1. CASE Len(ss) = 0
  <2>1. FlattenSeq(ss) = << >> /\ ss = << >>
    BY <1>1 DEF FlattenSeq
  <2> QED
    BY <1>1, <2>1
<1>2. CASE Len(ss) # 0
  <2>1. PICK g : FlattenSeq(ss) = g[Len(ss)] /\ Flattens(g, ss, Len(ss))
    BY <1>0, <1>2, FlattenFlattens, Zenon
  <2>2. g[1] = ss[1] /\ \A n \in 1..Len(ss) : n + 1 \in 1..Len(ss) => g[n + 1] = g[n] \o ss[n + 1]
    <3>1. \A m \in 1..Len(ss) : g[m] = IF m = 1 THEN ss[m] ELSE g[m - 1] \o ss[m]
      BY <2>1, Zenon DEF Flattens
    <3>2. 1 \in 1..Len(ss)
      BY <1>0, <1>2
    <3>3. g[1] = ss[1]
      BY <3>1, <3>2, Zenon
    <3>4. ASSUME NEW n \in 1..Len(ss), n + 1 \in 1..Len(ss) PROVE g[n + 1] = g[n] \o ss[n + 1]
      <4> SUFFICES ASSUME NEW m \in 1..Len(ss), m = n + 1 PROVE g[m] = g[n] \o ss[m]
        BY <3>4, Zenon
      <4>1. m # 1 /\ m - 1 = n
        OBVIOUS
      <4> QED
        BY <3>1, <4>1, Zenon
    <3> QED
      BY <3>3, <3>4, Zenon
  <2> DEFINE Good(n) == /\ g[n] \in Seq(S) /\ Len(g[n]) = c * n
                        /\ \A k \in 1..n : \A j \in 1..c : g[n][c * (k - 1) + j] = ss[k][j]
             N == {n \in Nat : n + 1 > Len(ss) \/ Good(n + 1)}
  <2>3. 0 \in N
    <3>1. Good(1)
      BY <1>0, <1>2, <2>2
    <3> QED
      BY <3>1
  <2>4. ASSUME NEW n \in Nat, n \in N PROVE n + 1 \in N
    <3> SUFFICES ASSUME n + 2 <= Len(ss) PROVE Good(n + 2)
      BY <1>0
    <3> DEFINE m == n + 1
    <3>1. Good(m) /\ m \in 1..Len(ss) /\ m + 1 \in 1..Len(ss) /\ n + 2 = m + 1
      BY <1>0, <2>4
    <3>2. g[m + 1] = g[m] \o ss[m + 1]
      BY <2>2, <3>1, Zenon
    <3>3. ss[m + 1] \in Seq(S) /\ Len(ss[m + 1]) = c
      BY <1>0, <3>1
    <3> HIDE DEF m
    <3>4. /\ g[m + 1] \in Seq(S) /\ Len(g[m + 1]) = Len(g[m]) + Len(ss[m + 1])
          /\ \A i \in 1..Len(g[m]) : g[m + 1][i] = g[m][i]
          /\ \A i \in 1..Len(ss[m + 1]) : g[m + 1][Len(g[m]) + i] = ss[m + 1][i]
      <4> DEFINE a == g[m]  b == ss[m + 1]  u == g[m + 1]
      <4>1. a \in Seq(S)
        BY <3>1
      <4>2. b \in Seq(S)
        BY <3>3
      <4>3. u = a \o b
        BY <3>2
      <4> HIDE DEF a, b, u, Good, N
      <4>4. /\ u \in Seq(S) /\ Len(u) = Len(a) + Len(b)
            /\ \A i \in 1..Len(a) : u[i] = a[i]
            /\ \A i \in 1..Len(b) : u[Len(a) + i] = b[i]
        BY <4>1, <4>2, <4>3, Joins
      <4> QED
        BY <4>4, Zenon DEF a, b, u
    <3>5. Len(g[m + 1]) = c * (m + 1)
      BY <3>1, <3>3, <3>4
    <3>6. ASSUME NEW k \in 1..(m + 1), NEW j \in 1..c PROVE g[m + 1][c * (k - 1) + j] = ss[k][j]
      <4> DEFINE i == c * (k - 1) + j
      <4>1. m \in Nat /\ Len(g[m]) = c * m /\ Len(ss[m + 1]) = c
        BY <3>1, <3>3
      <4>2. i \in 1..(c * m + c)
        BY <4>1
      <4>3. CASE k = m + 1
        <5>1. i = c * m + j
          BY <4>1, <4>3
        <5> HIDE DEF i
        <5>2. g[m + 1][c * m + j] = ss[m + 1][j]
          BY <3>4, <4>1, Zenon
        <5> QED
          BY <4>3, <5>1, <5>2 DEF i
      <4>4. CASE k # m + 1
        <5>1. i \in 1..(c * m) /\ k \in 1..m
          BY <4>1, <4>4
        <5>2. g[m][i] = ss[k][j]
          BY <3>1, <5>1, Zenon
        <5> HIDE DEF i
        <5>3. g[m + 1][i] = g[m][i]
          BY <3>4, <4>1, <4>2, <5>1, Zenon
        <5> QED
          BY <5>2, <5>3 DEF i
      <4> QED
        BY <4>3, <4>4
    <3>7. Good(m + 1)
      BY <3>4, <3>5, <3>6, Zenon
    <3> HIDE DEF Good
    <3> QED
      BY <3>1, <3>7
  <2> HIDE DEF N
  <2>5. \A n \in Nat : n \in N
    BY <2>3, <2>4, Induct
  <2>6. Good(Len(ss))
    <3>1. Len(ss) - 1 \in Nat /\ Len(ss) - 1 + 1 = Len(ss)
      BY <1>0, <1>2
    <3>2. Len(ss) - 1 \in N
      BY <2>5, <3>1
    <3> HIDE DEF Good
    <3> QED
      BY <1>0, <3>1, <3>2 DEF N
  <2> QED
    BY <2>1, <2>6
<1> QED
  BY <1>1, <1>2

-----------------------------------------------------------------------------
(* Names. *)

LEMMA TakeAll ==
  ASSUME NEW S, NEW s \in Seq(S)
  PROVE  Take(s, Len(s)) = s
  BY SubSeqFull DEF Take

LEMMA Utf8Length ==
  ASSUME NEW name \in Seq(Nat)
  PROVE  Utf8(name) \in Seq(Nat) /\ Len(Utf8(name)) = 3 * Len(name)
<1> DEFINE blocks == [i \in DOMAIN name |-> <<name[i], name[i], name[i]>>]
<1>1. \A x \in Nat : <<x, x, x>> \in Seq(Nat) /\ Len(<<x, x, x>>) = 3
  OBVIOUS
<1>2. blocks \in Seq(Seq(Nat)) /\ Len(blocks) = Len(name) /\ \A i \in 1..Len(blocks) : Len(blocks[i]) = 3
  <2>1. DOMAIN name = 1..Len(name) /\ \A i \in 1..Len(name) : name[i] \in Nat
    OBVIOUS
  <2>2. blocks \in [1..Len(name) -> Seq(Nat)]
    BY <1>1, <2>1
  <2>3. \A i \in 1..Len(name) : Len(blocks[i]) = 3
    BY <1>1, <2>1
  <2>4. Len(name) \in Nat
    OBVIOUS
  <2> HIDE DEF blocks
  <2> QED
    BY <2>2, <2>3, <2>4
<1> HIDE DEF blocks
<1>3. FlattenSeq(blocks) \in Seq(Nat) /\ Len(FlattenSeq(blocks)) = 3 * Len(blocks)
  BY <1>2, FlattenBlocks
<1> QED
  BY <1>2, <1>3 DEF Utf8, blocks

LEMMA Utf8OfNothing == Utf8(<< >>) = << >>
<1>1. [i \in DOMAIN << >> |-> << << >>[i], << >>[i], << >>[i] >>] = << >>
  OBVIOUS
<1>2. FlattenSeq(<< >>) = << >>
  BY DEF FlattenSeq
<1> QED
  BY <1>1, <1>2 DEF Utf8

LEMMA IsSeq ==
  \A S : \A n \in Nat : \A s \in [1..n -> S] : s \in Seq(S) /\ Len(s) = n
  OBVIOUS

IsIntVector(s, n) == s \in [1..n -> Int]

LEMMA IsIntSeq ==
  ASSUME NEW s, NEW n \in Nat, IsIntVector(s, n)
  PROVE  s \in Seq(Int) /\ Len(s) = n
<1>1. s \in [1..n -> Int]
  BY Zenon DEF IsIntVector
<1> QED
  BY <1>1, IsSeq, Zenon

LEMMA PaddedName ==
  ASSUME NEW name, NEW l \in 0..9, \A i \in 1..l : name[i] \in Nat
  PROVE  LET w == [i \in 1..10 |-> IF i <= l THEN name[i] ELSE Nul] IN
         /\ w \in Seq(Int) /\ Len(w) = 10 /\ \A i \in 1..l : w[i] = name[i]
         /\ GetActualNum(w) = l /\ (l # 0 => GetEndNum(w) = 10 - l)
<1> DEFINE w == [i \in 1..10 |-> IF i <= l THEN name[i] ELSE Nul]
<1>0. w = [i \in 1..10 |-> IF i <= l THEN name[i] ELSE Nul]
  OBVIOUS
<1> HIDE DEF w
<1>1. /\ DOMAIN w = 1..10
      /\ \A i \in 1..l : w[i] = name[i]
      /\ \A i \in (l + 1)..10 : w[i] = Nul
      /\ \A i \in 1..10 : w[i] \in Int
  BY <1>0 DEF Nul
<1>2. Len(w) = 10 /\ w \in Seq(Int)
  <2>1. w = [i \in 1..10 |-> w[i]]
    BY <1>0
  <2>2. w \in [1..10 -> Int]
    BY <1>1, <2>1, Zenon
  <2>3. 10 \in Nat
    OBVIOUS
  <2>4. IsIntVector(w, 10)
    BY <2>2, Zenon DEF IsIntVector
  <2> QED
    BY <2>3, <2>4, IsIntSeq, Zenon
<1>3. {i \in DOMAIN w : w[i] # Nul} = 1..l /\ {i \in DOMAIN w : w[i] = Nul} = (l + 1)..10
  BY <1>1 DEF Nul
<1>4. GetActualNum(w) = l
  <2>1. (CHOOSE i \in (l + 1)..10 : \A j \in (l + 1)..10 : i <= j) = l + 1
    OBVIOUS
  <2>2. (l + 1)..10 # {}
    OBVIOUS
  <2> DEFINE first == CHOOSE i \in (l + 1)..10 : \A j \in (l + 1)..10 : i <= j
  <2>3. GetActualNum(w) = first - 1
    BY <1>3, <2>2, Zenon DEF GetActualNum
  <2> HIDE DEF first
  <2>4. first = l + 1
    BY <2>1, Zenon DEF first
  <2> QED
    BY <2>3, <2>4
<1>5. l # 0 => GetEndNum(w) = 10 - l
  <2>1. l # 0 => (CHOOSE i \in 1..l : \A j \in 1..l : j <= i) = l
    OBVIOUS
  <2>2. l # 0 => 1..l # {}
    OBVIOUS
  <2> QED
    BY <1>2, <1>3, <2>1, <2>2 DEF GetEndNum
<1> QED
  BY <1>1, <1>2, <1>4, <1>5 DEF w

LEMMA NameReads ==
  ASSUME NEW name \in Seq(Nat), Len(name) \in 0..9
  PROVE  QueryUnicodeInformation(Padded(name, NameLength)) = Utf8(name)
<1> DEFINE w == Padded(name, NameLength)
           l == Len(name)
<1>1. l \in 0..9 /\ \A i \in 1..l : name[i] \in Nat
  OBVIOUS
<1>2. name \in Seq(Nat) /\ Len(name) = l
  OBVIOUS
<1> HIDE DEF w, l
<1>3. /\ w \in Seq(Int) /\ Len(w) = 10 /\ \A i \in 1..l : w[i] = name[i]
      /\ GetActualNum(w) = l /\ (l # 0 => GetEndNum(w) = 10 - l)
  <2>1. l \in 0..9
    BY <1>1
  <2>2. \A i \in 1..l : name[i] \in Nat
    BY <1>1
  <2> DEFINE v == [i \in 1..10 |-> IF i <= l THEN name[i] ELSE Nul]
  <2>3. w = v
    BY Zenon DEF w, l, Padded, NameLength
  <2>4. /\ v \in Seq(Int) /\ Len(v) = 10 /\ \A i \in 1..l : v[i] = name[i]
        /\ GetActualNum(v) = l /\ (l # 0 => GetEndNum(v) = 10 - l)
    BY <2>1, <2>2, PaddedName, Zenon
  <2> HIDE DEF v
  <2> QED
    BY <2>3, <2>4, Zenon
<1>7. Take(w, l) = name
  <2>2. /\ SubSeq(w, 1, l) \in Seq(Int) /\ Len(SubSeq(w, 1, l)) = l
        /\ \A i \in 1..l : SubSeq(w, 1, l)[i] = w[i]
    BY <1>1, <1>3
  <2>3. name \in Seq(Int) /\ Len(name) = l
    BY <1>2
  <2> QED
    BY <1>3, <2>2, <2>3 DEF Take
<1>8. Utf8(name) \in Seq(Nat) /\ Len(Utf8(name)) = 3 * l
  BY <1>2, Utf8Length
<1> DEFINE u == TransformUnicodeToUTF8(w)
<1>9. u.counts = <<10 - GetEndNum(w), l>> /\ u.bytes = Utf8(name)
  BY <1>3, <1>7 DEF TransformUnicodeToUTF8, NameLength
<1>10. CASE l = 0
  <2>1. Utf8(name) = << >>
    BY <1>8, <1>10
  <2>2. Len(u.bytes) <= 1
    BY <1>8, <1>9, <1>10
  <2> HIDE DEF u
  <2> QED
    BY <2>1, <2>2 DEF QueryUnicodeInformation, u, w
<1>11. CASE l # 0
  <2>1. Num(u.counts) = 11 * l
    <3>1. u.counts = <<l, l>>
      BY <1>1, <1>3, <1>9, <1>11
    <3>2. Len(<<l, l>>) = 2 /\ <<l, l>>[1] = l /\ <<l, l>>[2] = l
      OBVIOUS
    <3> HIDE DEF u
    <3> DEFINE c == <<l, l>>
    <3> HIDE DEF c
    <3>4. Len(c) = 2 /\ c[1] = l /\ c[2] = l /\ l \in Int
      BY <1>1, <3>2 DEF c
    <3>5. Num(c) = 10 * c[1] + c[2]
      BY <3>4, NumOfTwo
    <3>3. Num(<<l, l>>) = 10 * l + l
      BY <3>4, <3>5 DEF c
    <3> QED
      BY <1>1, <3>1, <3>3
  <2>2. ~(Len(u.bytes) <= 1) /\ ~(2 + Num(u.counts) < Len(u.bytes))
    <3> HIDE DEF u
    <3> QED
      BY <1>1, <1>8, <1>9, <1>11, <2>1
  <2>3. Take(u.bytes, Len(u.bytes)) = Utf8(name)
    <3> HIDE DEF u
    <3> QED
      BY <1>8, <1>9, TakeAll
  <2> HIDE DEF u
  <2>4. QueryUnicodeInformation(w)
          = IF Len(u.bytes) <= 1 THEN << >>
            ELSE Take(u.bytes, IF 2 + Num(u.counts) < Len(u.bytes) THEN 2 + Num(u.counts) ELSE Len(u.bytes))
    BY Zenon DEF QueryUnicodeInformation, u
  <2> QED
    BY <2>2, <2>3, <2>4 DEF w
<1> QED
  BY <1>10, <1>11

-----------------------------------------------------------------------------
(* Codes as they stand in a table, padded to five places.                   *)

LEMMA LenInNat == ASSUME NEW S, NEW s \in Seq(S) PROVE Len(s) \in Nat /\ \A i \in 1..Len(s) : s[i] \in S
  OBVIOUS

LEMMA AsFunction == ASSUME NEW S, NEW s \in Seq(S) PROVE s = [i \in 1..Len(s) |-> s[i]]
  OBVIOUS

LEMMA UpTo == \A n, m \in Nat : n <= m => n \in 0..m
  OBVIOUS

LEMMA PaddedAt ==
  ASSUME NEW s, NEW n, NEW i \in 1..n
  PROVE  Padded(s, n)[i] = IF i <= Len(s) THEN s[i] ELSE Nul
  BY Zenon DEF Padded

LEMMA PaddedDiffers ==
  ASSUME NEW a, NEW b, Len(a) \in 0..5, Len(b) \in 0..5, Len(a) < Len(b),
         \A i \in 1..Len(b) : b[i] \in Nat
  PROVE  Padded(a, 5) # Padded(b, 5)
<1> DEFINE k == Len(b)
           j == Len(a)
<1>0. k \in 1..5 /\ j < k /\ b[k] \in Nat /\ j \in 0..5
  OBVIOUS
<1>1. Padded(a, 5)[k] = IF k <= j THEN a[k] ELSE Nul
  BY <1>0, PaddedAt, Zenon
<1>2. Padded(b, 5)[k] = IF k <= k THEN b[k] ELSE Nul
  BY <1>0, PaddedAt, Zenon
<1> HIDE DEF k, j
<1>3. ~(k <= j) /\ k <= k /\ b[k] # Nul
  BY <1>0 DEF Nul
<1> QED
  BY <1>1, <1>2, <1>3, Zenon

LEMMA PaddedInjective ==
  ASSUME NEW a \in Seq(Nat), NEW b \in Seq(Nat), Len(a) <= 5, Len(b) <= 5, Padded(a, 5) = Padded(b, 5)
  PROVE  a = b
<1>0. Len(a) \in Nat /\ Len(b) \in Nat
  BY LenInNat
<1>1. Len(a) \in 0..5 /\ Len(b) \in 0..5
  <2>1. 5 \in Nat
    OBVIOUS
  <2> QED
    BY <1>0, <2>1, UpTo, Zenon
<1>2. (\A i \in 1..Len(a) : a[i] \in Nat) /\ (\A i \in 1..Len(b) : b[i] \in Nat)
  OBVIOUS
<1>3. ~(Len(a) < Len(b)) /\ ~(Len(b) < Len(a))
  BY <1>1, <1>2, PaddedDiffers, Zenon
<1>4. Len(a) = Len(b)
  BY <1>1, <1>3
<1>5. ASSUME NEW i \in 1..Len(a) PROVE a[i] = b[i]
  <2>1. i \in 1..5 /\ i <= Len(a) /\ i <= Len(b)
    BY <1>1, <1>4
  <2>2. Padded(a, 5)[i] = a[i] /\ Padded(b, 5)[i] = b[i]
    BY <2>1, PaddedAt, Zenon
  <2> QED
    BY <2>2
<1> QED
  BY <1>4, <1>5, SeqEqual

LEMMA Appending ==
  ASSUME NEW S, NEW s \in Seq(S), NEW e \in S
  PROVE  /\ Append(s, e) \in Seq(S) /\ Len(Append(s, e)) = Len(s) + 1
         /\ \A i \in 1..Len(s) : Append(s, e)[i] = s[i]
         /\ Append(s, e)[Len(s) + 1] = e
  OBVIOUS

LEMMA CodePadded ==
  ASSUME NEW c \in Seq(Nat), Len(c) <= 4
  PROVE  Append(Padded(c, 4), Nul) = Padded(c, 5)
<1> DEFINE s == Padded(c, 4)
           l == Len(c)
<1>0. l \in Nat /\ \A i \in 1..l : c[i] \in Nat
  BY LenInNat
<1>1. l \in 0..4 /\ \A i \in 1..l : c[i] \in Int
  <2>1. 4 \in Nat
    OBVIOUS
  <2>2. l \in 0..4
    BY <1>0, <2>1, UpTo, Zenon
  <2>3. \A i \in 1..l : c[i] \in Int
    BY <1>0
  <2> QED
    BY <2>2, <2>3
<1>2. s = [i \in 1..4 |-> IF i <= l THEN c[i] ELSE Nul]
  BY Zenon DEF Padded
<1>3. Padded(c, 5) = [i \in 1..5 |-> IF i <= l THEN c[i] ELSE Nul]
  BY Zenon DEF Padded
<1> HIDE DEF s, l
<1>4. s \in Seq(Int) /\ Len(s) = 4
  <2>1. \A i \in 1..4 : (IF i <= l THEN c[i] ELSE Nul) \in Int
    BY <1>1 DEF Nul
  <2>2. s \in [1..4 -> Int] /\ 4 \in Nat
    BY <1>2, <2>1
  <2>3. IsIntVector(s, 4)
    BY <2>2, Zenon DEF IsIntVector
  <2> QED
    BY <2>2, <2>3, IsIntSeq, Zenon
<1>5. /\ Len(Append(s, Nul)) = 5 /\ Append(s, Nul) \in Seq(Int)
      /\ \A i \in 1..4 : Append(s, Nul)[i] = s[i]
      /\ Append(s, Nul)[5] = Nul
  <2>1. Nul \in Int
    BY DEF Nul
  <2>2. /\ Append(s, Nul) \in Seq(Int) /\ Len(Append(s, Nul)) = Len(s) + 1
        /\ \A i \in 1..Len(s) : Append(s, Nul)[i] = s[i]
        /\ Append(s, Nul)[Len(s) + 1] = Nul
    BY <1>4, <2>1, Appending, Zenon
  <2>3. Len(s) = 4 /\ Len(s) + 1 = 5
    BY <1>4
  <2> QED
    BY <2>2, <2>3, Zenon
<1>6. Append(s, Nul) = [i \in 1..5 |-> Append(s, Nul)[i]]
  BY <1>5, AsFunction, Zenon
<1>7. \A i \in 1..5 : Append(s, Nul)[i] = IF i <= l THEN c[i] ELSE Nul
  <2> TAKE i \in 1..5
  <2>1. CASE i = 5
    BY <1>1, <1>5, <2>1
  <2>2. CASE i # 5
    <3>1. i \in 1..4
      BY <2>2
    <3>2. Append(s, Nul)[i] = s[i] /\ s[i] = IF i <= l THEN c[i] ELSE Nul
      BY <1>2, <1>5, <3>1, Zenon
    <3> QED
      BY <3>2, Zenon
  <2> QED
    BY <2>1, <2>2
<1>8. [i \in 1..5 |-> Append(s, Nul)[i]] = [i \in 1..5 |-> IF i <= l THEN c[i] ELSE Nul]
  BY <1>7, Zenon
<1> QED
  BY <1>3, <1>6, <1>8 DEF s

-----------------------------------------------------------------------------
(* The tables of names of a version, and the name at a place in one.        *)

LEMMA Least ==
  ASSUME NEW S, S \subseteq Nat, S # {}
  PROVE  \E i \in S : \A j \in S : i <= j
<1> DEFINE R == {p \in Nat \X Nat : p[1] < p[2]}
<1>1. IsWellFoundedOn(R, Nat)
  BY NatLessThanWellFounded DEF OpToRel
<1>2. \E x \in S : \A y \in S : ~(<<y, x>> \in R)
  <2> HIDE DEF R
  <2> QED
    BY <1>1, WFMin
<1>3. PICK x \in S : \A y \in S : ~(y < x)
  BY <1>2
<1> QED
  BY <1>3

LEMMA LeastChosen ==
  ASSUME NEW S, S \subseteq Nat, S # {}
  PROVE  (CHOOSE i \in S : \A j \in S : i <= j) \in S
  BY Least, Zenon

LEMMA DigitsAreNat == \A s \in Seq(Digit) : s \in Seq(Nat)
  BY DEF Digit

\* What is behind the names and area codes of a published set.
LEMMA PublishedNames ==
  ASSUME NEW p, IsPublishable(p)
  PROVE  /\ Len(p.cities) \in Nat /\ DOMAIN p.cities = 1..Len(p.cities)
         /\ \A i \in 1..Len(p.cities) : p.cities[i] \in Seq(Nat) /\ Len(p.cities[i]) \in 1..9
         /\ Len(p.operators) \in Nat /\ DOMAIN p.operators = 1..Len(p.operators)
         /\ \A i \in 1..Len(p.operators) : p.operators[i] \in Seq(Nat) /\ Len(p.operators[i]) \in 1..9
         /\ \A i \in 1..Len(p.cities) :
               p.areaCodes[i] \in Seq(Nat) /\ Len(p.areaCodes[i]) \in {3, 4}
<1>1. \A names : AreNames(names) =>
        /\ Len(names) \in Nat /\ DOMAIN names = 1..Len(names)
        /\ \A i \in 1..Len(names) : names[i] \in Seq(Nat) /\ Len(names[i]) \in 1..9
  BY DEF AreNames
<1>2. AreNames(p.cities) /\ AreNames(p.operators)
  BY DEF IsPublishable
<1>3. /\ p.areaCodes \in Seq(Seq(Digit)) /\ Len(p.areaCodes) = Len(p.cities)
      /\ \A i \in DOMAIN p.areaCodes : Len(p.areaCodes[i]) \in {3, 4}
  BY DEF IsPublishable
<1>4. \A i \in 1..Len(p.cities) : p.areaCodes[i] \in Seq(Digit) /\ Len(p.areaCodes[i]) \in {3, 4}
  <2>1. DOMAIN p.areaCodes = 1..Len(p.areaCodes)
        /\ \A i \in 1..Len(p.areaCodes) : p.areaCodes[i] \in Seq(Digit)
    BY <1>3
  <2> QED
    BY <1>3, <2>1, Zenon
<1>5. \A i \in 1..Len(p.cities) : p.areaCodes[i] \in Seq(Nat) /\ Len(p.areaCodes[i]) \in {3, 4}
  BY <1>4, DigitsAreNat, Zenon
<1>6. /\ Len(p.cities) \in Nat /\ DOMAIN p.cities = 1..Len(p.cities)
      /\ \A i \in 1..Len(p.cities) : p.cities[i] \in Seq(Nat) /\ Len(p.cities[i]) \in 1..9
  BY <1>1, <1>2, Zenon
<1>7. /\ Len(p.operators) \in Nat /\ DOMAIN p.operators = 1..Len(p.operators)
      /\ \A i \in 1..Len(p.operators) : p.operators[i] \in Seq(Nat) /\ Len(p.operators[i]) \in 1..9
  BY <1>1, <1>2, Zenon
<1> QED
  BY <1>5, <1>6, <1>7

\* A name is read back from its place in the table.
NameAt(names, i) == IF i = NotFound THEN << >> ELSE QueryUnicodeInformation(names[i])

LEMMA NamesRead ==
  ASSUME NEW names, NEW n \in Nat, NEW table, NEW i \in 0..n,
         table = [j \in 0..n |-> Padded(IF j = 0 THEN << >> ELSE names[j], NameLength)],
         \A j \in 1..n : names[j] \in Seq(Nat) /\ Len(names[j]) \in 1..9
  PROVE  NameAt(table, i) = IF i = 0 THEN << >> ELSE Utf8(names[i])
<1>1. i # NotFound
  BY DEF NotFound
<1>2. table[i] = Padded(IF i = 0 THEN << >> ELSE names[i], NameLength)
  BY Zenon
<1>3. CASE i = 0
  <2>1. << >> \in Seq(Nat) /\ Len(<< >>) = 0 /\ 0 \in 0..9
    OBVIOUS
  <2>2. QueryUnicodeInformation(Padded(<< >>, NameLength)) = Utf8(<< >>)
    BY <2>1, NameReads, Zenon
  <2> QED
    BY <1>1, <1>2, <1>3, <2>2, Utf8OfNothing, Zenon DEF NameAt
<1>4. CASE i # 0
  <2>1. i \in 1..n
    BY <1>4
  <2>2. names[i] \in Seq(Nat) /\ Len(names[i]) \in 1..9
    BY <2>1, Zenon
  <2>3. \A k \in 1..9 : k \in 0..9
    OBVIOUS
  <2>4. QueryUnicodeInformation(Padded(names[i], NameLength)) = Utf8(names[i])
    BY <2>2, <2>3, NameReads, Zenon
  <2> QED
    BY <1>1, <1>2, <1>4, <2>4, Zenon DEF NameAt
<1> QED
  BY <1>3, <1>4

LEMMA LayoutNames ==
  ASSUME NEW p
  PROVE  /\ Layout(p).cityNames =
              [i \in 0..Len(p.cities) |-> Padded(IF i = 0 THEN << >> ELSE p.cities[i], NameLength)]
         /\ Layout(p).opNames =
              [i \in 0..Len(p.operators) |-> Padded(IF i = 0 THEN << >> ELSE p.operators[i], NameLength)]
         /\ Layout(p).quHao =
              [i \in 0..Len(p.cities) |-> Padded(IF i = 0 THEN << >> ELSE p.areaCodes[i], 5)]
         /\ Layout(p).prefixList = FlattenSeq(p.prefixes)
         /\ Layout(p).hasMobileOp = (p.operatorOf # << >>)
  BY DEF Layout

-----------------------------------------------------------------------------
(* A lookup of an area code finds the name that the version publishes.      *)

LEMMA TakeType ==
  ASSUME NEW S, NEW s \in Seq(S), NEW n \in Nat, n <= Len(s)
  PROVE  /\ Take(s, n) \in Seq(S) /\ Len(Take(s, n)) = n
         /\ \A i \in 1..n : Take(s, n)[i] = s[i]
<1>1. \A i \in 1..n : s[i] \in S
  OBVIOUS
<1>2. /\ SubSeq(s, 1, n) \in Seq(S)
      /\ Len(SubSeq(s, 1, n)) = IF 1 <= n THEN n - 1 + 1 ELSE 0
      /\ \A i \in 1..(n - 1 + 1) : SubSeq(s, 1, n)[i] = s[1 + i - 1]
  BY <1>1, SubSeqProperties
<1> QED
  BY <1>2 DEF Take

LEMMA CodeLength == \A n \in {3, 4} : n \in Nat /\ n <= 4 /\ n <= 5 /\ 3 <= n
  OBVIOUS

LEMMA NothingInSeq == << >> \in Seq(Nat) /\ Len(<< >>) <= 5
  OBVIOUS

LEMMA CitiesWithCode ==
  ASSUME NEW p, IsPublishable(p), NEW c \in Seq(Nat), Len(c) \in {3, 4}
  PROVE  CitiesWith(Layout(p), Append(Padded(c, 4), Nul))
           = {i \in DOMAIN p.cities : p.areaCodes[i] = c}
<1> DEFINE n == Len(p.cities)
           quHao == [i \in 0..n |-> Padded(IF i = 0 THEN << >> ELSE p.areaCodes[i], 5)]
<1>1. Layout(p).quHao = quHao
  BY LayoutNames, Zenon
<1>2. n \in Nat /\ DOMAIN p.cities = 1..n
      /\ \A i \in 1..n : p.areaCodes[i] \in Seq(Nat) /\ Len(p.areaCodes[i]) \in {3, 4}
  BY PublishedNames, Zenon
<1>3. Append(Padded(c, 4), Nul) = Padded(c, 5)
  BY CodeLength, CodePadded, Zenon
<1> HIDE DEF n
<1>4. quHao[0] # Padded(c, 5)
  <2>1. << >> \in Seq(Nat) /\ Len(<< >>) <= 5 /\ << >> # c /\ Len(c) <= 5
    <3>1. << >> # c
      <4>1. Len(<< >>) \notin {3, 4}
        OBVIOUS
      <4> QED
        BY <4>1, Zenon
    <3>2. Len(c) <= 5
      BY CodeLength, Zenon
    <3>3. << >> \in Seq(Nat) /\ Len(<< >>) <= 5
      BY NothingInSeq, Zenon
    <3> QED
      BY <3>1, <3>2, <3>3, Zenon
  <2>2. Padded(<< >>, 5) # Padded(c, 5)
    BY <2>1, PaddedInjective, Zenon
  <2>3. 0 \in 0..n
    BY <1>2
  <2> QED
    BY <2>2, <2>3, Zenon
<1>5. ASSUME NEW i \in 1..n PROVE quHao[i] = Padded(c, 5) <=> p.areaCodes[i] = c
  <2>1. i \in 0..n /\ i # 0
    BY <1>2
  <2>2. quHao[i] = Padded(p.areaCodes[i], 5)
    BY <2>1, Zenon
  <2>3. p.areaCodes[i] \in Seq(Nat)
    BY <1>2, Zenon
  <2>4. Len(p.areaCodes[i]) \in {3, 4}
    BY <1>2, Zenon
  <2>5. Len(p.areaCodes[i]) <= 5 /\ Len(c) <= 5
    BY <2>4, CodeLength, Zenon
  <2>6. Padded(p.areaCodes[i], 5) = Padded(c, 5) => p.areaCodes[i] = c
    BY <2>3, <2>5, PaddedInjective, Zenon
  <2> QED
    BY <2>2, <2>6, Zenon
<1>6. CitiesWith(Layout(p), Append(Padded(c, 4), Nul)) = {i \in 0..n : quHao[i] = Padded(c, 5)}
  BY <1>1, <1>3, Zenon DEF CitiesWith
<1> HIDE DEF quHao
<1>7. \A i \in 0..n : i = 0 \/ i \in 1..n
  BY <1>2
<1>8. \A i \in 1..n : i \in 0..n
  BY <1>2
<1> QED
  BY <1>2, <1>4, <1>5, <1>6, <1>7, <1>8, Zenon

LEMMA AreaReads ==
  ASSUME NEW v \in Versions, NEW w, w.step = "tel", w.digits \in Seq(Digit), Len(w.digits) \in {3, 4}
  PROVE  DatResult(Dat[v], w, << >>) = AreaOf(v, w.digits)
<1> DEFINE p == Published[v]
           d == Layout(p)
           code == w.digits
           short == Take(code, 3)
           with(c) == {i \in DOMAIN p.cities : p.areaCodes[i] = c}
           found == IF with(code) # {} THEN with(code) ELSE with(short)
           index == IF found = {} THEN NotFound ELSE CHOOSE i \in found : \A j \in found : i <= j
<1>1. Dat[v] = d
  BY Zenon DEF Dat
<1>2. IsPublishable(p)
  BY PublishedAssumption, Zenon
<1>3. Len(p.cities) \in Nat /\ DOMAIN p.cities = 1..Len(p.cities)
      /\ \A i \in 1..Len(p.cities) : p.cities[i] \in Seq(Nat) /\ Len(p.cities[i]) \in 1..9
  BY <1>2, PublishedNames, Zenon
<1>4. code \in Seq(Nat) /\ short \in Seq(Nat) /\ Len(short) = 3
  <2>1. code \in Seq(Nat)
    BY DigitsAreNat, Zenon
  <2>2. 3 \in Nat /\ 3 <= Len(code)
    BY CodeLength, Zenon
  <2> QED
    BY <2>1, <2>2, TakeType, Zenon
<1>5. /\ CitiesWith(d, Append(Padded(code, 4), Nul)) = with(code)
      /\ CitiesWith(d, Append(Padded(short, 4), Nul)) = with(short)
  <2>1. Len(short) \in {3, 4}
    BY <1>4
  <2>2. Len(code) \in {3, 4}
    OBVIOUS
  <2> HIDE DEF p, code, short
  <2>3. code \in Seq(Nat)
    BY <1>4
  <2>4. short \in Seq(Nat)
    BY <1>4
  <2>5. CitiesWith(Layout(p), Append(Padded(code, 4), Nul)) = {i \in DOMAIN p.cities : p.areaCodes[i] = code}
    BY <1>2, <2>2, <2>3, CitiesWithCode
  <2>6. CitiesWith(Layout(p), Append(Padded(short, 4), Nul)) = {i \in DOMAIN p.cities : p.areaCodes[i] = short}
    BY <1>2, <2>1, <2>4, CitiesWithCode
  <2> QED
    BY <2>5, <2>6, Zenon
<1>6. GetCityIndexByQuHao(d, code, << >>) = index
  <2> DEFINE exact == CitiesWith(d, Append(Padded(code, 4), Nul))
             either == IF exact # {} THEN exact ELSE CitiesWith(d, Append(Padded(short, 4), Nul))
  <2>1. GetCityIndexByQuHao(d, code, << >>)
          = IF either = {} THEN NotFound ELSE CHOOSE i \in either : \A j \in either : i <= j
    <3> HIDE DEF d, code
    <3> QED
      BY DEF GetCityIndexByQuHao
  <2>2. either = found
    <3> HIDE DEF d, code, short, with
    <3> QED
      BY <1>5, Zenon
  <2> HIDE DEF either, found
  <2> QED
    BY <2>1, <2>2, Zenon
<1>7. DatResult(Dat[v], w, << >>) = NameAt(d.cityNames, index)
  <2>1. DatResult(d, w, << >>) = NameAt(d.cityNames, GetCityIndexByQuHao(d, code, << >>))
    BY DEF DatResult, NameAt
  <2> QED
    BY <1>1, <1>6, <2>1, Zenon
<1>8. AreaOf(v, code) = IF found = {} THEN << >>
                        ELSE Utf8(p.cities[CHOOSE i \in found : \A j \in found : i <= j])
  BY DEF AreaOf, Versions
<1> HIDE DEF code, short
<1>9. CASE found = {}
  BY <1>7, <1>8, <1>9, Zenon DEF NameAt, code
<1>10. CASE found # {}
  <2> DEFINE first == CHOOSE i \in found : \A j \in found : i <= j
  <2>1. found \subseteq 1..Len(p.cities)
    BY <1>3, Zenon
  <2> HIDE DEF found
  <2>2. first \in found
    <3>1. found \subseteq Nat
      BY <2>1
    <3> QED
      BY <1>10, <3>1, LeastChosen, Zenon
  <2> HIDE DEF first
  <2>3. first \in 0..Len(p.cities) /\ first # 0
    BY <1>3, <2>1, <2>2
  <2>4. d.cityNames = [j \in 0..Len(p.cities) |-> Padded(IF j = 0 THEN << >> ELSE p.cities[j], NameLength)]
    BY LayoutNames, Zenon
  <2>5. NameAt(d.cityNames, first) = Utf8(p.cities[first])
    <3>1. NameAt(d.cityNames, first) = IF first = 0 THEN << >> ELSE Utf8(p.cities[first])
      <4> DEFINE n == Len(p.cities)  names == p.cities  table == d.cityNames
      <4>1. n \in Nat
        BY <1>3
      <4>2. first \in 0..n
        BY <2>3
      <4>3. table = [j \in 0..n |-> Padded(IF j = 0 THEN << >> ELSE names[j], NameLength)]
        BY <2>4
      <4>4. \A j \in 1..n : names[j] \in Seq(Nat) /\ Len(names[j]) \in 1..9
        BY <1>3
      <4> HIDE DEF n, names, table
      <4>5. NameAt(table, first) = IF first = 0 THEN << >> ELSE Utf8(names[first])
        BY <4>1, <4>2, <4>3, <4>4, NamesRead
      <4> QED
        BY <4>5 DEF names, table
    <3> QED
      BY <2>3, <3>1
  <2> QED
    BY <1>7, <1>8, <1>10, <2>5, Zenon DEF code, first
<1> QED
  BY <1>9, <1>10

-----------------------------------------------------------------------------
(* The index of the prefixes of the mobile numbers.                         *)

LEMMA PrefixPairs ==
  ASSUME NEW p, IsPublishable(p)
  PROVE  /\ p.prefixes \in Seq(Seq(Nat)) /\ DOMAIN p.prefixes = 1..Len(p.prefixes)
         /\ Len(p.prefixes) \in Nat
         /\ \A k \in 1..Len(p.prefixes) :
               Len(p.prefixes[k]) = 2 /\ p.prefixes[k][1] = 1 /\ p.prefixes[k][2] \in Nat \ {1}
<1>1. p.prefixes \in Seq({1} \X (Digit \ {1}))
  BY DEF IsPublishable
<1>2. \A x \in {1} \X (Digit \ {1}) : x \in Seq(Nat) /\ Len(x) = 2 /\ x[1] = 1 /\ x[2] \in Nat \ {1}
  <2> TAKE x \in {1} \X (Digit \ {1})
  <2>1. PICK b \in Digit \ {1} : x = <<1, b>>
    OBVIOUS
  <2>2. b \in Nat \ {1}
    BY DEF Digit
  <2>3. \A c \in Nat : /\ <<1, c>> \in Seq(Nat) /\ Len(<<1, c>>) = 2
                       /\ <<1, c>>[1] = 1 /\ <<1, c>>[2] = c
    OBVIOUS
  <2>4. /\ <<1, b>> \in Seq(Nat) /\ Len(<<1, b>>) = 2
        /\ <<1, b>>[1] = 1 /\ <<1, b>>[2] \in Nat \ {1}
    BY <2>2, <2>3, Zenon
  <2> QED
    BY <2>1, <2>4, Zenon
<1>3. {1} \X (Digit \ {1}) \subseteq Seq(Nat)
  BY <1>2
<1>4. p.prefixes \in Seq(Seq(Nat))
  BY <1>1, <1>3, SeqMonotonic, Zenon
<1>5. Len(p.prefixes) \in Nat /\ DOMAIN p.prefixes = 1..Len(p.prefixes)
      /\ \A k \in 1..Len(p.prefixes) : p.prefixes[k] \in {1} \X (Digit \ {1})
  BY <1>1
<1> QED
  BY <1>2, <1>4, <1>5, Zenon

LEMMA PairOf ==
  ASSUME NEW S, NEW s \in Seq(S), NEW i \in Nat, i + 2 <= Len(s), NEW t \in Seq(S), Len(t) = 2
  PROVE  SubSeq(s, i + 1, i + 2) = t <=> s[i + 1] = t[1] /\ s[i + 2] = t[2]
<1>1. \A j \in (i + 1)..(i + 2) : s[j] \in S
  OBVIOUS
<1>2. /\ SubSeq(s, i + 1, i + 2) \in Seq(S) /\ Len(SubSeq(s, i + 1, i + 2)) = 2
      /\ SubSeq(s, i + 1, i + 2)[1] = s[i + 1] /\ SubSeq(s, i + 1, i + 2)[2] = s[i + 2]
  <2>1. /\ SubSeq(s, i + 1, i + 2) \in Seq(S)
        /\ Len(SubSeq(s, i + 1, i + 2)) = IF i + 1 <= i + 2 THEN i + 2 - (i + 1) + 1 ELSE 0
        /\ \A j \in 1..(i + 2 - (i + 1) + 1) : SubSeq(s, i + 1, i + 2)[j] = s[i + 1 + j - 1]
    BY <1>1, SubSeqProperties
  <2> DEFINE u == SubSeq(s, i + 1, i + 2)
  <2> HIDE DEF u
  <2>2. Len(u) = 2 /\ u[1] = s[i + 1] /\ u[2] = s[i + 2]
    BY <2>1 DEF u
  <2> QED
    BY <2>1, <2>2 DEF u
<1> DEFINE u == SubSeq(s, i + 1, i + 2)
<1> HIDE DEF u
<1>3. u = t <=> \A j \in 1..2 : u[j] = t[j]
  BY <1>2, SeqEqual DEF u
<1> QED
  BY <1>2, <1>3 DEF u

LEMMA PrefixFound ==
  ASSUME NEW p, IsPublishable(p), NEW b \in Seq(Nat), Len(b) = 2, b[1] = 1, NEW s, Take(s, 2) = b
  PROVE  /\ \A k \in 1..Len(p.prefixes) :
               p.prefixes[k] = b => GetPrefixIndex(Layout(p), s) = k - 1
         /\ (\A k \in 1..Len(p.prefixes) : p.prefixes[k] # b) => GetPrefixIndex(Layout(p), s) = NotFound
<1> DEFINE list == FlattenSeq(p.prefixes)
           m == Len(p.prefixes)
           offsets == PrefixOffsets(Layout(p), s)
           pre == p.prefixes
<1>1. /\ pre \in Seq(Seq(Nat)) /\ m \in Nat
      /\ \A k \in 1..m : Len(pre[k]) = 2 /\ pre[k][1] = 1 /\ pre[k][2] \in Nat \ {1}
      /\ \A k \in 1..m : pre[k] \in Seq(Nat)
  BY PrefixPairs
<1>2. /\ list \in Seq(Nat) /\ Len(list) = 2 * m
      /\ \A k \in 1..m : \A j \in 1..2 : list[2 * (k - 1) + j] = pre[k][j]
  <2>1. 2 \in {2, 3} /\ \A k \in 1..Len(pre) : Len(pre[k]) = 2
    BY <1>1
  <2>2. pre \in Seq(Seq(Nat))
    BY <1>1
  <2> HIDE DEF pre
  <2>3. /\ FlattenSeq(pre) \in Seq(Nat) /\ Len(FlattenSeq(pre)) = 2 * Len(pre)
        /\ \A k \in 1..Len(pre) : \A j \in 1..2 : FlattenSeq(pre)[2 * (k - 1) + j] = pre[k][j]
    BY <2>1, <2>2, FlattenBlocks
  <2> QED
    BY <2>3, Zenon DEF pre
<1>3. offsets = {i \in 0..(Len(list) - 2) : SubSeq(list, i + 1, i + 2) = b}
  BY LayoutNames, Zenon DEF PrefixOffsets
<1>4. GetPrefixIndex(Layout(p), s)
        = IF offsets = {} THEN NotFound
          ELSE ((CHOOSE i \in offsets : \A j \in offsets : i <= j) + 1) \div 2
  BY Zenon DEF GetPrefixIndex
<1> HIDE DEF list, m, offsets, pre
<1>5. \A i \in 0..(2 * m - 2) : SubSeq(list, i + 1, i + 2) = b <=> list[i + 1] = 1 /\ list[i + 2] = b[2]
  <2> TAKE i \in 0..(2 * m - 2)
  <2>1. i \in Nat /\ i + 2 <= Len(list)
    BY <1>1, <1>2
  <2>2. list \in Seq(Nat)
    BY <1>2, Zenon
  <2>3. SubSeq(list, i + 1, i + 2) = b <=> list[i + 1] = b[1] /\ list[i + 2] = b[2]
    BY <2>1, <2>2, PairOf, SMT
  <2> QED
    BY <2>3, Zenon
<1>6. ASSUME NEW k \in 1..m, pre[k][2] = b[2] PROVE 2 * (k - 1) \in offsets
  <2>1. 2 * (k - 1) \in 0..(2 * m - 2)
    BY <1>1
  <2>2. list[2 * (k - 1) + 1] = pre[k][1] /\ list[2 * (k - 1) + 2] = pre[k][2]
    BY <1>2
  <2> QED
    BY <1>1, <1>2, <1>3, <1>5, <1>6, <2>1, <2>2
<1>7. ASSUME NEW i \in offsets PROVE \E k \in 1..m : i = 2 * (k - 1) /\ pre[k][2] = b[2]
  <2>1. i \in 0..(2 * m - 2) /\ list[i + 1] = 1 /\ list[i + 2] = b[2]
    BY <1>2, <1>3, <1>5
  <2>2. PICK k \in 1..m : i = 2 * (k - 1) \/ i = 2 * (k - 1) + 1
    <3> DEFINE k == i \div 2 + 1
    <3>1. k \in 1..m /\ (i = 2 * (k - 1) \/ i = 2 * (k - 1) + 1)
      BY <1>1, <2>1
    <3> HIDE DEF k
    <3> QED
      BY <3>1
  <2>3. list[2 * (k - 1) + 1] = pre[k][1] /\ list[2 * (k - 1) + 2] = pre[k][2]
    BY <1>2
  <2>4. i # 2 * (k - 1) + 1
    <3> SUFFICES ASSUME i = 2 * (k - 1) + 1 PROVE FALSE
      OBVIOUS
    <3>1. i + 1 = 2 * (k - 1) + 2
      BY <2>1
    <3>2. pre[k][2] = 1
      BY <2>1, <2>3, <3>1
    <3> QED
      BY <1>1, <3>2
  <2>5. i = 2 * (k - 1)
    BY <2>2, <2>4
  <2> QED
    BY <2>1, <2>3, <2>5
<1>8. \A k \in 1..m : pre[k] = b <=> pre[k][2] = b[2]
  <2> TAKE k \in 1..m
  <2>1. pre[k] \in Seq(Nat) /\ Len(pre[k]) = 2 /\ pre[k][1] = 1
    BY <1>1
  <2>2. pre[k][2] = b[2] => \A j \in 1..2 : pre[k][j] = b[j]
    BY <2>1
  <2> QED
    BY <2>1, <2>2, SeqEqual
<1>9. \A i, j \in 1..m : pre[i] = pre[j] => i = j
  BY PrefixPairs DEF IsPublishable, pre, m
<1>10. ASSUME NEW k \in 1..m, pre[k] = b PROVE GetPrefixIndex(Layout(p), s) = k - 1
  <2>1. offsets = {2 * (k - 1)}
    <3>1. 2 * (k - 1) \in offsets
      BY <1>6, <1>8, <1>10
    <3>2. \A i \in offsets : i = 2 * (k - 1)
      <4> TAKE i \in offsets
      <4>1. PICK l \in 1..m : i = 2 * (l - 1) /\ pre[l][2] = b[2]
        BY <1>7
      <4>2. l = k
        BY <1>8, <1>9, <1>10, <4>1
      <4> QED
        BY <4>1, <4>2
    <3> QED
      BY <3>1, <3>2
  <2> DEFINE e == 2 * (k - 1)
  <2>2. (CHOOSE i \in {e} : \A j \in {e} : i <= j) = e
    OBVIOUS
  <2>3. (e + 1) \div 2 = k - 1 /\ {e} # {}
    BY <1>1
  <2> HIDE DEF e
  <2>4. offsets = {e}
    BY <2>1 DEF e
  <2> QED
    BY <1>4, <2>2, <2>3, <2>4, Zenon
<1>11. ASSUME \A k \in 1..m : pre[k] # b PROVE GetPrefixIndex(Layout(p), s) = NotFound
  <2>1. offsets = {}
    BY <1>7, <1>8, <1>11
  <2> QED
    BY <1>4, <2>1
<1> QED
  BY <1>10, <1>11 DEF m, pre

-----------------------------------------------------------------------------
(* The place of a number in the table of cities, and its lookup.           *)

PrefixOf(p, s) == CHOOSE i \in DOMAIN p.prefixes : p.prefixes[i] = Take(s, 2)
CityAddress(p, s) == SegmentsPerPrefix * (PrefixOf(p, s) - 1) + Num(Drop(s, 2))

LEMMA LayoutCities ==
  ASSUME NEW p
  PROVE  Layout(p).phoneNumList =
           [a \in {CityAddress(p, s) : s \in DOMAIN p.cityOf} |->
              p.cityOf[CHOOSE s \in DOMAIN p.cityOf : CityAddress(p, s) = a]]
<1> DEFINE address == [s \in DOMAIN p.cityOf |-> CityAddress(p, s)]
<1>1. Layout(p).phoneNumList =
        [a \in {address[s] : s \in DOMAIN address} |->
            p.cityOf[CHOOSE s \in DOMAIN address : address[s] = a]]
  BY DEF Layout, PrefixOf, CityAddress
<1>2. DOMAIN address = DOMAIN p.cityOf /\ \A s \in DOMAIN p.cityOf : address[s] = CityAddress(p, s)
  OBVIOUS
<1> HIDE DEF address
<1>3. {address[s] : s \in DOMAIN address} = {CityAddress(p, s) : s \in DOMAIN p.cityOf}
  BY <1>2
<1>4. \A a : (CHOOSE s \in DOMAIN address : address[s] = a)
               = CHOOSE s \in DOMAIN p.cityOf : CityAddress(p, s) = a
  <2> TAKE a
  <2>1. \A s : s \in DOMAIN address /\ address[s] = a <=> s \in DOMAIN p.cityOf /\ CityAddress(p, s) = a
    BY <1>2
  <2> QED
    BY <2>1
<1> DEFINE places == {CityAddress(p, s) : s \in DOMAIN p.cityOf}
           by(a) == CHOOSE s \in DOMAIN address : address[s] = a
           of(a) == CHOOSE s \in DOMAIN p.cityOf : CityAddress(p, s) = a
<1>5. Layout(p).phoneNumList = [a \in places |-> p.cityOf[by(a)]]
  BY <1>1, <1>3
<1>6. \A a : by(a) = of(a)
  BY <1>4
<1> HIDE DEF by, of, places
<1>7. [a \in places |-> p.cityOf[by(a)]] = [a \in places |-> p.cityOf[of(a)]]
  BY <1>6, Zenon
<1>8. Layout(p).phoneNumList = [a \in places |-> p.cityOf[of(a)]]
  BY <1>5, <1>7, Zenon
<1> QED
  BY <1>8 DEF places, of

\* Seven digits, and the number that the last five of them make.
Seven(s) == s \in Seq(Digit) /\ Len(s) = 7
Five(s) == 10000 * s[3] + 1000 * s[4] + 100 * s[5] + 10 * s[6] + s[7]

LEMMA SevenDigits ==
  ASSUME NEW s, Seven(s)
  PROVE  /\ \A i \in 1..7 : s[i] \in 0..9
         /\ s \in Seq(Nat) /\ Len(s) = 7
<1>1. s \in Seq(Digit) /\ Len(s) = 7
  BY DEF Seven
<1>2. \A i \in 1..Len(s) : s[i] \in Digit
  BY <1>1, LenInNat, Zenon
<1>3. s \in Seq(Nat)
  BY <1>1, DigitsAreNat, Zenon
<1>4. \A i \in 1..7 : s[i] \in Digit
  BY <1>1, <1>2, Zenon
<1> QED
  BY <1>1, <1>3, <1>4, Zenon DEF Digit

LEMMA DropTwo ==
  ASSUME NEW s, Seven(s)
  PROVE  /\ Drop(s, 2) = SubSeq(s, 3, 7) /\ Drop(s, 2) \in Seq(Nat) /\ Len(Drop(s, 2)) = 5
         /\ \A i \in 1..5 : Drop(s, 2)[i] = s[i + 2]
<1>1. \A i \in 3..7 : s[i] \in Nat
  <2>1. \A i \in 1..7 : s[i] \in 0..9
    BY SevenDigits, Zenon
  <2> QED
    BY <2>1
<1>2. /\ SubSeq(s, 3, 7) \in Seq(Nat)
      /\ Len(SubSeq(s, 3, 7)) = IF 3 <= 7 THEN 7 - 3 + 1 ELSE 0
      /\ \A i \in 1..(7 - 3 + 1) : SubSeq(s, 3, 7)[i] = s[3 + i - 1]
  BY <1>1, SubSeqProperties
<1> DEFINE u == SubSeq(s, 3, 7)
<1> HIDE DEF u
<1>3. u \in Seq(Nat) /\ Len(u) = 5 /\ \A i \in 1..5 : u[i] = s[i + 2]
  BY <1>2 DEF u
<1>4. Drop(s, 2) = u
  BY DEF Drop, Seven, u
<1> QED
  BY <1>3, <1>4 DEF u

LEMMA FiveDigits ==
  ASSUME NEW s, Seven(s)
  PROVE  Num(Drop(s, 2)) = Five(s)
<1> DEFINE u == Drop(s, 2)
<1>1. /\ Len(u) = 5 /\ u[1] = s[3] /\ u[2] = s[4] /\ u[3] = s[5] /\ u[4] = s[6] /\ u[5] = s[7]
      /\ s[3] \in Int /\ s[4] \in Int /\ s[5] \in Int /\ s[6] \in Int /\ s[7] \in Int
  <2>1. Len(u) = 5 /\ \A i \in 1..5 : u[i] = s[i + 2]
    BY DropTwo, Zenon
  <2>2. \A i \in 1..7 : s[i] \in 0..9
    BY SevenDigits, Zenon
  <2> HIDE DEF u
  <2> QED
    BY <2>1, <2>2
<1> HIDE DEF u
<1>2. Num(u) = 10000 * u[1] + 1000 * u[2] + 100 * u[3] + 10 * u[4] + u[5]
  BY <1>1, NumOfFive
<1> QED
  BY <1>1, <1>2 DEF u, Five

LEMMA AtoiOfDigits ==
  ASSUME NEW s \in Seq(Nat), \A i \in 1..Len(s) : s[i] \in Digit
  PROVE  Atoi(s) = Num(s)
<1> DEFINE n == Len(s)
           ends == {i \in 0..n : \A j \in 1..i : s[j] \in Digit}
<1>1. n \in Nat
  OBVIOUS
<1>2. Atoi(s) = Num(Take(s, CHOOSE i \in ends : \A j \in ends : j <= i))
  BY Zenon DEF Atoi
<1>3. Take(s, n) = s
  BY TakeAll
<1>4. \A i \in 1..n : s[i] \in Digit
  OBVIOUS
<1>5. ends = 0..n
  <2> HIDE DEF n
  <2>1. \A i \in 0..n : \A j \in 1..i : j \in 1..n
    BY <1>1
  <2> QED
    BY <1>4, <2>1, Zenon
<1> HIDE DEF n, ends
<1>6. (CHOOSE i \in 0..n : \A j \in 0..n : j <= i) = n
  BY <1>1
<1> QED
  BY <1>2, <1>3, <1>5, <1>6

LEMMA PrefixIs ==
  ASSUME NEW p, IsPublishable(p), NEW s, NEW k \in 1..Len(p.prefixes), p.prefixes[k] = Take(s, 2)
  PROVE  PrefixOf(p, s) = k
<1>1. k \in DOMAIN p.prefixes
  BY PrefixPairs
<1>2. \A i, j \in DOMAIN p.prefixes : p.prefixes[i] = p.prefixes[j] => i = j
  BY DEF IsPublishable
<1> QED
  BY <1>1, <1>2, Zenon DEF PrefixOf

LEMMA AddressIs ==
  ASSUME NEW p, IsPublishable(p), NEW s, Seven(s),
         NEW k \in 1..Len(p.prefixes), p.prefixes[k] = Take(s, 2)
  PROVE  CityAddress(p, s) = 100000 * (k - 1) + Five(s)
  BY PrefixIs, FiveDigits DEF CityAddress, SegmentsPerPrefix

LEMMA SumBounded ==
  ASSUME NEW a \in Int, 0 <= a, a <= 9,
         NEW b \in Int, 0 <= b, b <= 9,
         NEW c \in Int, 0 <= c, c <= 9,
         NEW d \in Int, 0 <= d, d <= 9,
         NEW e \in Int, 0 <= e, e <= 9
  PROVE  /\ 10000 * a + 1000 * b + 100 * c + 10 * d + e \in Int
         /\ 0 <= 10000 * a + 1000 * b + 100 * c + 10 * d + e
         /\ 10000 * a + 1000 * b + 100 * c + 10 * d + e <= 99999
  OBVIOUS

LEMMA DigitBounds == \A x \in 0..9 : x \in Int /\ 0 <= x /\ x <= 9
  OBVIOUS

LEMMA OneToSeven == \A i \in {1, 2, 3, 4, 5, 6, 7} : i \in 1..7
  OBVIOUS

UpToFive(n) == n \in Int /\ 0 <= n /\ n <= 99999

LEMMA FiveBounded ==
  ASSUME NEW s, Seven(s)
  PROVE  UpToFive(Five(s))
<1>0. \A i \in 1..7 : s[i] \in 0..9
  BY SevenDigits, Zenon
<1>1. \A i \in {3, 4, 5, 6, 7} : s[i] \in Int /\ 0 <= s[i] /\ s[i] <= 9
  BY <1>0, DigitBounds, OneToSeven, Zenon
<1> QED
  BY <1>1, SumBounded DEF Five, UpToFive

SameFive(s, t) == s[3] = t[3] /\ s[4] = t[4] /\ s[5] = t[5] /\ s[6] = t[6] /\ s[7] = t[7]

LEMMA FiveInjective ==
  ASSUME NEW s, Seven(s), NEW t, Seven(t), Five(s) = Five(t)
  PROVE  SameFive(s, t)
<1>0. (\A i \in 1..7 : s[i] \in 0..9) /\ (\A i \in 1..7 : t[i] \in 0..9)
  BY SevenDigits, Zenon
<1>1. \A i \in {3, 4, 5, 6, 7} : s[i] \in Int /\ 0 <= s[i] /\ s[i] <= 9
  BY <1>0, DigitBounds, OneToSeven, Zenon
<1>2. \A i \in {3, 4, 5, 6, 7} : t[i] \in Int /\ 0 <= t[i] /\ t[i] <= 9
  BY <1>0, DigitBounds, OneToSeven, Zenon
<1> QED
  <2> DEFINE a == s[3]  b == s[4]  c == s[5]  d == s[6]  e == s[7]
             a1 == t[3]  b1 == t[4]  c1 == t[5]  d1 == t[6]  e1 == t[7]
  <2>1. /\ a \in Int /\ 0 <= a /\ a <= 9 /\ b \in Int /\ 0 <= b /\ b <= 9
        /\ c \in Int /\ 0 <= c /\ c <= 9 /\ d \in Int /\ 0 <= d /\ d <= 9
        /\ e \in Int /\ 0 <= e /\ e <= 9
    BY <1>1
  <2>2. /\ a1 \in Int /\ 0 <= a1 /\ a1 <= 9 /\ b1 \in Int /\ 0 <= b1 /\ b1 <= 9
        /\ c1 \in Int /\ 0 <= c1 /\ c1 <= 9 /\ d1 \in Int /\ 0 <= d1 /\ d1 <= 9
        /\ e1 \in Int /\ 0 <= e1 /\ e1 <= 9
    BY <1>2
  <2>3. 10000 * a + 1000 * b + 100 * c + 10 * d + e = 10000 * a1 + 1000 * b1 + 100 * c1 + 10 * d1 + e1
    BY DEF Five
  <2> HIDE DEF a, b, c, d, e, a1, b1, c1, d1, e1
  <2>4. a = a1 /\ b = b1 /\ c = c1 /\ d = d1 /\ e = e1
    BY <2>1, <2>2, <2>3
  <2> QED
    BY <2>4 DEF SameFive, a, b, c, d, e, a1, b1, c1, d1, e1

LEMMA AddressInjective ==
  ASSUME NEW p, IsPublishable(p), NEW s, Seven(s), NEW t, Seven(t),
         NEW k \in 1..Len(p.prefixes), p.prefixes[k] = Take(s, 2),
         NEW l \in 1..Len(p.prefixes), p.prefixes[l] = Take(t, 2),
         CityAddress(p, s) = CityAddress(p, t)
  PROVE  s = t
<1>1. 100000 * (k - 1) + Five(s) = 100000 * (l - 1) + Five(t)
  BY AddressIs
<1>3. /\ Five(s) \in Int /\ 0 <= Five(s) /\ Five(s) <= 99999
      /\ Five(t) \in Int /\ 0 <= Five(t) /\ Five(t) <= 99999
  <2>1. UpToFive(Five(s)) /\ UpToFive(Five(t))
    BY FiveBounded, Zenon
  <2> QED
    BY <2>1 DEF UpToFive
<1>4. k \in Int /\ l \in Int
  BY PrefixPairs
<1>5. k = l /\ Five(s) = Five(t)
  BY <1>1, <1>3, <1>4
<1>6. s[3] = t[3] /\ s[4] = t[4] /\ s[5] = t[5] /\ s[6] = t[6] /\ s[7] = t[7]
  <2>1. SameFive(s, t)
    BY <1>5, FiveInjective, Zenon
  <2> QED
    BY <2>1, Zenon DEF SameFive
<1>7. Take(s, 2) = Take(t, 2)
  BY <1>5
<1>8. s[1] = t[1] /\ s[2] = t[2]
  <2>1. s \in Seq(Nat) /\ t \in Seq(Nat) /\ Len(s) = 7 /\ Len(t) = 7
    BY SevenDigits, Zenon
  <2>3. 2 \in Nat /\ 2 <= 7
    OBVIOUS
  <2>2. (\A i \in 1..2 : Take(s, 2)[i] = s[i]) /\ (\A i \in 1..2 : Take(t, 2)[i] = t[i])
    BY <2>1, <2>3, TakeType, Zenon
  <2> QED
    BY <1>7, <2>2
<1>9. \A i \in 1..7 : s[i] = t[i]
  BY <1>6, <1>8
<1>10. s \in Seq(Nat) /\ t \in Seq(Nat) /\ Len(s) = Len(t) /\ \A i \in 1..Len(s) : s[i] = t[i]
  BY <1>9, SevenDigits
<1> QED
  BY <1>10, SeqEqual, Zenon

LEMMA BehindPrefix ==
  ASSUME NEW d, NEW s, Seven(s), GetPrefixIndex(d, s) # NotFound
  PROVE  GetCityIndexByPhoneNum(d, s, << >>)
           = At(d.phoneNumList, 100000 * GetPrefixIndex(d, s) + Five(s))
<1> DEFINE u == Drop(s, 2)
           strNum == SubSeq(s, 3, 7) \o Take(<< >>, 0)
<1>1. u = SubSeq(s, 3, 7) /\ u \in Seq(Nat) /\ Len(u) = 5 /\ \A i \in 1..5 : u[i] = s[i + 2]
  BY DropTwo, Zenon
<1>2. Take(<< >>, 0) = << >>
  BY SubSeqEmpty DEF Take
<1>3. strNum = u
  <2>1. u \o << >> = u
    BY <1>1, ConcatEmptySeq, Zenon
  <2> HIDE DEF u
  <2> QED
    BY <1>1, <1>2, <2>1, Zenon
<1>4. Len(s) = 7
  BY DEF Seven
<1>5. Atoi(u) = Five(s)
  <2>1. \A i \in 1..5 : s[i + 2] \in Digit
    <3>1. \A i \in 1..5 : i + 2 \in 1..7
      OBVIOUS
    <3> QED
      BY <3>1, SevenDigits, Zenon DEF Digit
  <2>2. \A i \in 1..Len(u) : u[i] \in Digit
    BY <1>1, <2>1, Zenon
  <2>3. Num(u) = Five(s)
    BY FiveDigits, Zenon
  <2>4. u \in Seq(Nat)
    BY <1>1, Zenon
  <2> HIDE DEF u
  <2>5. Atoi(u) = Num(u)
    BY <2>2, <2>4, AtoiOfDigits
  <2> QED
    BY <2>3, <2>5, Zenon
<1>6. GetCityIndexByPhoneNum(d, s, << >>)
        = At(d.phoneNumList, SegmentsPerPrefix * GetPrefixIndex(d, s) + Atoi(strNum))
  <2>1. ~(Len(s) < 5)
    BY <1>4
  <2>2. GetCityIndexByPhoneNum(d, s, << >>) =
          LET copy == IF Len(s) < 5 THEN s \o << >> ELSE s
              num == SubSeq(copy, 3, 7) \o Take(<< >>, 0)
          IN IF GetPrefixIndex(d, s) = NotFound \/ Len(copy) < 5 THEN NotFound
             ELSE At(d.phoneNumList, SegmentsPerPrefix * GetPrefixIndex(d, s) + Atoi(num))
    BY Zenon DEF GetCityIndexByPhoneNum
  <2> QED
    BY <2>1, <2>2, Zenon
<1> HIDE DEF u, strNum
<1> QED
  BY <1>3, <1>5, <1>6 DEF SegmentsPerPrefix

LEMMA NoIndex ==
  ASSUME NEW d, NEW s, GetPrefixIndex(d, s) = NotFound \/ Len(s) < 5
  PROVE  GetCityIndexByPhoneNum(d, s, << >>) = NotFound
  BY DEF GetCityIndexByPhoneNum

\* The index of a city for seven digits, which is 0 where there is none.
LEMMA CityIndex ==
  ASSUME NEW p, IsPublishable(p), NEW s, Seven(s),
         NEW k \in 1..Len(p.prefixes), p.prefixes[k] = Take(s, 2)
  PROVE  At(Layout(p).phoneNumList, CityAddress(p, s)) = Listed(p.cityOf, s)
<1> DEFINE places == {CityAddress(p, r) : r \in DOMAIN p.cityOf}
           of(a) == CHOOSE r \in DOMAIN p.cityOf : CityAddress(p, r) = a
           table == [a \in places |-> p.cityOf[of(a)]]
           here == CityAddress(p, s)
<1>1. Layout(p).phoneNumList = table
  BY LayoutCities, Zenon
<1>2. \A r \in DOMAIN p.cityOf : CityAddress(p, r) = here => r = s
  <2> TAKE r \in DOMAIN p.cityOf
  <2>1. Seven(r) /\ \E l \in DOMAIN p.prefixes : Take(r, 2) = p.prefixes[l]
    BY DEF IsPublishable, Seven
  <2>2. PICK l \in 1..Len(p.prefixes) : p.prefixes[l] = Take(r, 2)
    BY <2>1, PrefixPairs
  <2> QED
    BY <2>1, <2>2, AddressInjective
<1>3. CASE s \in DOMAIN p.cityOf
  <2>1. of(here) = s
    BY <1>2, <1>3, Zenon
  <2>2. here \in places
    BY <1>3, Zenon
  <2> HIDE DEF of, places, here
  <2>3. At(table, here) = p.cityOf[s]
    BY <2>1, <2>2, Zenon DEF At
  <2> QED
    BY <1>1, <1>3, <2>3, Zenon DEF here, Listed
<1>4. CASE s \notin DOMAIN p.cityOf
  <2>1. here \notin places
    BY <1>2, <1>4, Zenon
  <2> HIDE DEF of, places, here
  <2>2. At(table, here) = 0
    BY <2>1, Zenon DEF At
  <2> QED
    BY <1>1, <1>4, <2>2, Zenon DEF here, Listed
<1> QED
  BY <1>3, <1>4

LEMMA ListedCity ==
  ASSUME NEW p, IsPublishable(p), NEW s
  PROVE  /\ Listed(p.cityOf, s) \in 0..Len(p.cities)
         /\ s \in DOMAIN p.cityOf => Listed(p.cityOf, s) = p.cityOf[s]
         /\ Listed(p.cityOf, s) # 0 => s \in DOMAIN p.cityOf
<1>1. Len(p.cities) \in Nat /\ DOMAIN p.cities = 1..Len(p.cities)
  BY PublishedNames, Zenon
<1>2. p.cityOf \in [DOMAIN p.cityOf -> DOMAIN p.cities]
  BY DEF IsPublishable
<1>3. s \in DOMAIN p.cityOf => p.cityOf[s] \in 1..Len(p.cities)
  BY <1>1, <1>2
<1> QED
  BY <1>1, <1>3 DEF Listed

LEMMA CityReads ==
  ASSUME NEW v \in Versions, NEW w, w.step \in {"location7", "location3"},
         w.digits \in Seq(Digit), Len(w.digits) \in {3, 7}, w.digits[1] = 1
  PROVE  DatResult(Dat[v], w, << >>) = CityOf(v, w.digits)
<1> DEFINE p == Published[v]
           d == Layout(p)
           s == w.digits
           index == GetCityIndexByPhoneNum(d, s, << >>)
           listed == Listed(p.cityOf, s)
<1>1. IsPublishable(p) /\ Dat[v] = d
  BY PublishedAssumption, Zenon DEF Dat
<1>2. DatResult(Dat[v], w, << >>) = NameAt(d.cityNames, index)
  <2>1. DatResult(d, w, << >>) = NameAt(d.cityNames, index)
    <3> HIDE DEF d
    <3> QED
      BY DEF DatResult, NameAt
  <2> QED
    BY <1>1, <2>1, Zenon
<1>3. CityOf(v, s) = IF listed = 0 THEN << >> ELSE Utf8(p.cities[p.cityOf[s]])
  BY DEF CityOf, Versions
<1>4. /\ listed \in 0..Len(p.cities)
      /\ s \in DOMAIN p.cityOf => listed = p.cityOf[s]
      /\ listed # 0 => s \in DOMAIN p.cityOf
  BY <1>1, ListedCity, Zenon
<1>5. \A t \in DOMAIN p.cityOf : Seven(t) /\ \E k \in DOMAIN p.prefixes : Take(t, 2) = p.prefixes[k]
  BY <1>1 DEF IsPublishable, Seven
<1>6. index = listed \/ (index = NotFound /\ listed = 0)
  <2>1. CASE Len(s) = 3
    <3>0. 3 < 5 /\ 3 # 7
      OBVIOUS
    <3>1. index = NotFound
      BY <2>1, <3>0, NoIndex, Zenon
    <3>2. s \notin DOMAIN p.cityOf
      BY <1>5, <2>1, <3>0, Zenon DEF Seven
    <3> QED
      BY <3>1, <3>2 DEF Listed
  <2>2. CASE Len(s) = 7
    <3>1. Seven(s)
      BY <2>2 DEF Seven
    <3>2. Take(s, 2) \in Seq(Nat) /\ Len(Take(s, 2)) = 2 /\ Take(s, 2)[1] = 1
      <4>1. s \in Seq(Nat) /\ 2 \in Nat /\ 2 <= Len(s)
        BY <2>2, <3>1, SevenDigits
      <4>2. /\ Take(s, 2) \in Seq(Nat) /\ Len(Take(s, 2)) = 2
            /\ \A i \in 1..2 : Take(s, 2)[i] = s[i]
        BY <4>1, TakeType, Zenon
      <4> QED
        BY <4>2
    <3>3. CASE \E k \in 1..Len(p.prefixes) : p.prefixes[k] = Take(s, 2)
      <4>1. PICK k \in 1..Len(p.prefixes) : p.prefixes[k] = Take(s, 2)
        BY <3>3
      <4>2. GetPrefixIndex(d, s) = k - 1
        BY <1>1, <3>2, <4>1, PrefixFound
      <4>3. k - 1 # NotFound
        BY PrefixPairs, <1>1 DEF NotFound
      <4>4. index = At(d.phoneNumList, 100000 * GetPrefixIndex(d, s) + Five(s))
        BY <3>1, <4>2, <4>3, BehindPrefix
      <4>5. CityAddress(p, s) = 100000 * (k - 1) + Five(s)
        BY <1>1, <3>1, <4>1, AddressIs
      <4>6. At(d.phoneNumList, CityAddress(p, s)) = listed
        BY <1>1, <3>1, <4>1, CityIndex
      <4>7. 100000 * GetPrefixIndex(d, s) + Five(s) = CityAddress(p, s)
        BY <4>2, <4>5
      <4> HIDE DEF d, s, p, index, listed
      <4>8. index = listed
        BY <4>4, <4>6, <4>7
      <4> QED
        BY <4>8
    <3>4. CASE \A k \in 1..Len(p.prefixes) : p.prefixes[k] # Take(s, 2)
      <4>1. GetPrefixIndex(d, s) = NotFound
        BY <1>1, <3>2, <3>4, PrefixFound
      <4>2. index = NotFound
        BY <4>1, NoIndex
      <4>3. s \notin DOMAIN p.cityOf
        BY <1>1, <1>5, <3>4, PrefixPairs, Zenon
      <4> QED
        BY <4>2, <4>3 DEF Listed
    <3> QED
      BY <3>3, <3>4
  <2>3. Len(s) = 3 \/ Len(s) = 7
    BY Zenon
  <2> QED
    BY <2>1, <2>2, <2>3, Zenon
<1> HIDE DEF d, index, listed
<1>7. NameAt(d.cityNames, listed) = IF listed = 0 THEN << >> ELSE Utf8(p.cities[listed])
  <2> DEFINE n == Len(p.cities)  names == p.cities  table == d.cityNames
  <2>1. n \in Nat /\ \A j \in 1..n : names[j] \in Seq(Nat) /\ Len(names[j]) \in 1..9
    BY <1>1, PublishedNames, Zenon
  <2>2. table = [j \in 0..n |-> Padded(IF j = 0 THEN << >> ELSE names[j], NameLength)]
    BY LayoutNames, Zenon DEF d
  <2>3. listed \in 0..n
    BY <1>4
  <2> HIDE DEF n, names, table
  <2>4. NameAt(table, listed) = IF listed = 0 THEN << >> ELSE Utf8(names[listed])
    BY <2>1, <2>2, <2>3, NamesRead
  <2> QED
    BY <2>4 DEF names, table
<1>8. NameAt(d.cityNames, NotFound) = << >>
  BY Zenon DEF NameAt
<1> QED
  BY <1>2, <1>3, <1>4, <1>6, <1>7, <1>8, Zenon

-----------------------------------------------------------------------------
(* Operators: by three digits, or in the group of these by four more.      *)

Long(p) == {s \in DOMAIN p.operatorOf : Len(s) = 7}
Wide(p) == {Take(s, 3) : s \in Long(p)}
Short(p) == {s \in DOMAIN p.operatorOf : Len(s) = 3}
GroupOf(p, h) == CHOOSE i \in DOMAIN SetToSeq(Wide(p)) : SetToSeq(Wide(p))[i] = h
OpAddress(p, s) == E_MOBILE_OP_MAX * (GroupOf(p, Take(s, 3)) - 1) + Num(Drop(s, 3))
HeadWith(p, d) == CHOOSE h \in Wide(p) \cup Short(p) : Num(Tail(h)) = d

LEMMA LayoutIndex ==
  ASSUME NEW p
  PROVE  Layout(p).opIndex =
           [d \in {Num(Tail(h)) : h \in Wide(p) \cup Short(p)} |->
              IF HeadWith(p, d) \in Wide(p) THEN E_MOBILE_OP_MAX + GroupOf(p, Take(HeadWith(p, d), 3)) - 1
                                           ELSE p.operatorOf[HeadWith(p, d)]]
  BY DEF Layout, Long, Wide, Short, GroupOf, HeadWith

LEMMA LayoutData ==
  ASSUME NEW p
  PROVE  Layout(p).opData =
           [a \in {OpAddress(p, s) : s \in Long(p)} |->
              p.operatorOf[CHOOSE s \in Long(p) : OpAddress(p, s) = a]]
<1> DEFINE address == [s \in Long(p) |-> OpAddress(p, s)]
<1>1. Layout(p).opData =
        [a \in {address[s] : s \in DOMAIN address} |->
            p.operatorOf[CHOOSE s \in DOMAIN address : address[s] = a]]
  BY DEF Layout, Long, Wide, GroupOf, OpAddress
<1>2. DOMAIN address = Long(p) /\ \A s \in Long(p) : address[s] = OpAddress(p, s)
  OBVIOUS
<1> HIDE DEF address
<1>3. {address[s] : s \in DOMAIN address} = {OpAddress(p, s) : s \in Long(p)}
  BY <1>2
<1>4. \A a : (CHOOSE s \in DOMAIN address : address[s] = a) = CHOOSE s \in Long(p) : OpAddress(p, s) = a
  <2> TAKE a
  <2>1. \A s : s \in DOMAIN address /\ address[s] = a <=> s \in Long(p) /\ OpAddress(p, s) = a
    BY <1>2
  <2> QED
    BY <2>1
<1> DEFINE places == {OpAddress(p, s) : s \in Long(p)}
           by(a) == CHOOSE s \in DOMAIN address : address[s] = a
           of(a) == CHOOSE s \in Long(p) : OpAddress(p, s) = a
<1>5. Layout(p).opData = [a \in places |-> p.operatorOf[by(a)]]
  BY <1>1, <1>3
<1>6. \A a : by(a) = of(a)
  BY <1>4
<1> HIDE DEF by, of, places
<1>7. [a \in places |-> p.operatorOf[by(a)]] = [a \in places |-> p.operatorOf[of(a)]]
  BY <1>6, Zenon
<1>8. Layout(p).opData = [a \in places |-> p.operatorOf[of(a)]]
  BY <1>5, <1>7, Zenon
<1> QED
  BY <1>8 DEF places, of

LEMMA ListsAll ==
  ASSUME NEW S, IsFiniteSet(S)
  PROVE  /\ Cardinality(S) \in Nat /\ DOMAIN SetToSeq(S) = 1..Cardinality(S)
         /\ \A x \in S : \E i \in 1..Cardinality(S) : SetToSeq(S)[i] = x
<1> DEFINE n == Cardinality(S)
           f == SetToSeq(S)
<1>1. n \in Nat /\ ExistsBijection(1..n, S)
  BY FS_CardinalityType
<1>2. \E g \in [1..n -> S] : IsInjective(g)
  BY <1>1 DEF ExistsBijection, Bijection, Injection
<1>3. f \in [1..n -> S] /\ IsInjective(f)
  BY <1>2, Zenon DEF SetToSeq
<1> HIDE DEF f
<1>4. f \in Injection(1..n, S)
  BY <1>3 DEF Injection
<1>5. Cardinality(1..n) = n
  BY <1>1, FS_Interval
<1>6. f \in Surjection(1..n, S)
  BY <1>4, <1>5, FS_Injection
<1> QED
  BY <1>1, <1>3, <1>6 DEF Surjection, f

LEMMA WideFinite ==
  ASSUME NEW p, IsPublishable(p)
  PROVE  IsFiniteSet(Wide(p))
<1> DEFINE f == [s \in Long(p) |-> Take(s, 3)]
<1>1. IsFiniteSet(Long(p))
  <2>1. IsFiniteSet(DOMAIN p.operatorOf) /\ Long(p) \in SUBSET DOMAIN p.operatorOf
    BY DEF IsPublishable, Long
  <2> QED
    BY <2>1, FS_Subset
<1>2. f \in Surjection(Long(p), Wide(p))
  BY DEF Surjection, Wide
<1> HIDE DEF f
<1> QED
  BY <1>1, <1>2, FS_Surjection

\* Three digits, the first of them 1, and the number that the others make.
Three(h) == h \in Seq(Digit) /\ Len(h) = 3 /\ h[1] = 1
Two(h) == 10 * h[2] + h[3]

LEMMA OperatorDigits ==
  ASSUME NEW p, IsPublishable(p)
  PROVE  /\ \A s \in Long(p) : Seven(s) /\ s[1] = 1 /\ Take(s, 3) \notin DOMAIN p.operatorOf
         /\ \A s \in Short(p) : Three(s)
         /\ DOMAIN p.operatorOf = Long(p) \cup Short(p)
         /\ \A s \in DOMAIN p.operatorOf : p.operatorOf[s] \in 1..Len(p.operators)
         /\ Len(p.operators) < 10000
<1>1. \A s \in DOMAIN p.operatorOf :
          /\ s \in Seq(Digit) /\ s[1] = 1
          /\ Len(s) = 3 \/ (Len(s) = 7 /\ Take(s, 3) \notin DOMAIN p.operatorOf)
  BY DEF IsPublishable
<1>2. 3 # 7
  OBVIOUS
<1>3. \A s \in Long(p) : Seven(s) /\ s[1] = 1 /\ Take(s, 3) \notin DOMAIN p.operatorOf
  BY <1>1, <1>2, Zenon DEF Long, Seven
<1>4. \A s \in Short(p) : Three(s)
  BY <1>1, Zenon DEF Short, Three
<1>5. DOMAIN p.operatorOf = Long(p) \cup Short(p)
  BY <1>1, Zenon DEF Short, Long
<1>6. p.operatorOf \in [DOMAIN p.operatorOf -> DOMAIN p.operators] /\ Len(p.operators) < E_MOBILE_OP_MAX
  BY DEF IsPublishable
<1>7. DOMAIN p.operators = 1..Len(p.operators) /\ Len(p.operators) \in Nat
  BY PublishedNames, Zenon
<1>8. \A s \in DOMAIN p.operatorOf : p.operatorOf[s] \in 1..Len(p.operators)
  BY <1>6, <1>7, Zenon
<1>9. Len(p.operators) < 10000
  BY <1>6 DEF E_MOBILE_OP_MAX
<1> QED
  BY <1>3, <1>4, <1>5, <1>8, <1>9

LEMMA ThreeDigits ==
  ASSUME NEW h, Three(h)
  PROVE  /\ h \in Seq(Nat) /\ Len(h) = 3 /\ h[1] = 1
         /\ h[2] \in Int /\ 0 <= h[2] /\ h[2] <= 9 /\ h[3] \in Int /\ 0 <= h[3] /\ h[3] <= 9
<1>1. h \in Seq(Digit) /\ Len(h) = 3 /\ h[1] = 1
  BY DEF Three
<1>2. \A i \in 1..Len(h) : h[i] \in Digit
  BY <1>1, LenInNat, Zenon
<1>3. 2 \in 1..3 /\ 3 \in 1..3
  OBVIOUS
<1>4. h[2] \in Digit /\ h[3] \in Digit
  BY <1>1, <1>2, <1>3, Zenon
<1>5. h \in Seq(Nat)
  BY <1>1, DigitsAreNat, Zenon
<1> QED
  BY <1>1, <1>4, <1>5, DigitBounds, Zenon DEF Digit

LEMMA NumOfSecondAndThird ==
  ASSUME NEW s \in Seq(Nat), 3 <= Len(s)
  PROVE  Num(SubSeq(s, 2, 3)) = 10 * s[2] + s[3]
<1>1. \A i \in 2..3 : s[i] \in Nat
  OBVIOUS
<1>2. /\ SubSeq(s, 2, 3) \in Seq(Nat)
      /\ Len(SubSeq(s, 2, 3)) = IF 2 <= 3 THEN 3 - 2 + 1 ELSE 0
      /\ \A i \in 1..(3 - 2 + 1) : SubSeq(s, 2, 3)[i] = s[2 + i - 1]
  BY <1>1, SubSeqProperties
<1> DEFINE u == SubSeq(s, 2, 3)
<1> HIDE DEF u
<1>3. Len(u) = 2 /\ u[1] = s[2] /\ u[2] = s[3] /\ u[1] \in Int /\ u[2] \in Int
  BY <1>1, <1>2 DEF u
<1>4. Num(u) = 10 * u[1] + u[2]
  BY <1>3, NumOfTwo
<1> QED
  BY <1>3, <1>4 DEF u

LEMMA NumOfTail ==
  ASSUME NEW h, Three(h)
  PROVE  Num(Tail(h)) = Two(h) /\ Two(h) \in Int
<1>1. h \in Seq(Nat) /\ Len(h) = 3 /\ h[2] \in Int /\ h[3] \in Int
  BY ThreeDigits
<1>2. Tail(h) \in Seq(Nat) /\ Len(Tail(h)) = 2 /\ Tail(h)[1] = h[2] /\ Tail(h)[2] = h[3]
  <2>1. h # << >>
    <3>1. Len(h) # 0
      BY <1>1
    <3> QED
      BY <1>1, <3>1, EmptySeq, Zenon
  <2>2. /\ Tail(h) \in Seq(Nat) /\ Len(Tail(h)) = Len(h) - 1
        /\ \A i \in 1..Len(Tail(h)) : Tail(h)[i] = h[i + 1]
    BY <1>1, <2>1, HeadTailProperties
  <2>3. Len(Tail(h)) = 2
    BY <1>1, <2>2
  <2>4. 1 \in 1..2 /\ 2 \in 1..2 /\ 1 + 1 = 2 /\ 2 + 1 = 3
    OBVIOUS
  <2> QED
    BY <2>2, <2>3, <2>4, Zenon
<1> DEFINE u == Tail(h)
<1> HIDE DEF u
<1>3. Len(u) = 2 /\ u[1] = h[2] /\ u[2] = h[3] /\ u[1] \in Int /\ u[2] \in Int
  BY <1>1, <1>2 DEF u
<1>4. Num(u) = 10 * u[1] + u[2]
  BY <1>3, NumOfTwo
<1>5. Two(h) = 10 * u[1] + u[2] /\ Two(h) \in Int
  BY <1>1, <1>3 DEF Two
<1> QED
  BY <1>4, <1>5, Zenon DEF u

LEMMA TwoInjective ==
  ASSUME NEW g, Three(g), NEW h, Three(h), Two(g) = Two(h)
  PROVE  g = h
<1>1. g[2] \in Int /\ 0 <= g[2] /\ g[2] <= 9 /\ g[3] \in Int /\ 0 <= g[3] /\ g[3] <= 9
  BY ThreeDigits
<1>2. h[2] \in Int /\ 0 <= h[2] /\ h[2] <= 9 /\ h[3] \in Int /\ 0 <= h[3] /\ h[3] <= 9
  BY ThreeDigits
<1>3. g[2] = h[2] /\ g[3] = h[3]
  BY <1>1, <1>2 DEF Two
<1>4. g \in Seq(Nat) /\ h \in Seq(Nat) /\ Len(g) = 3 /\ Len(h) = 3 /\ g[1] = h[1]
  BY ThreeDigits
<1>5. \A i \in 1..3 : g[i] = h[i]
  BY <1>3, <1>4
<1> QED
  BY <1>4, <1>5, SeqEqual

LEMMA HeadOfSeven ==
  ASSUME NEW s \in Seq(Digit), 3 <= Len(s), s[1] = 1
  PROVE  /\ Three(Take(s, 3)) /\ Take(s, 3)[2] = s[2] /\ Take(s, 3)[3] = s[3]
         /\ Two(Take(s, 3)) = 10 * s[2] + s[3]
<1>1. 3 \in Nat
  OBVIOUS
<1>2. /\ Take(s, 3) \in Seq(Digit) /\ Len(Take(s, 3)) = 3
      /\ \A i \in 1..3 : Take(s, 3)[i] = s[i]
  BY <1>1, TakeType, Zenon
<1>3. 1 \in 1..3 /\ 2 \in 1..3 /\ 3 \in 1..3
  OBVIOUS
<1> QED
  BY <1>2, <1>3, Zenon DEF Three, Two

Four(s) == 1000 * s[4] + 100 * s[5] + 10 * s[6] + s[7]

LEMMA FourDigits ==
  ASSUME NEW s, Seven(s)
  PROVE  Drop(s, 3) = SubSeq(s, 4, 7) /\ Num(SubSeq(s, 4, 7)) = Four(s)
<1>1. \A i \in 4..7 : s[i] \in Nat
  <2>1. \A i \in 1..7 : s[i] \in 0..9
    BY SevenDigits, Zenon
  <2> QED
    BY <2>1
<1>2. /\ SubSeq(s, 4, 7) \in Seq(Nat)
      /\ Len(SubSeq(s, 4, 7)) = IF 4 <= 7 THEN 7 - 4 + 1 ELSE 0
      /\ \A i \in 1..(7 - 4 + 1) : SubSeq(s, 4, 7)[i] = s[4 + i - 1]
  BY <1>1, SubSeqProperties
<1> DEFINE u == SubSeq(s, 4, 7)
<1> HIDE DEF u
<1>3. Len(u) = 4 /\ u[1] = s[4] /\ u[2] = s[5] /\ u[3] = s[6] /\ u[4] = s[7]
  BY <1>2 DEF u
<1>4. u[1] \in Int /\ u[2] \in Int /\ u[3] \in Int /\ u[4] \in Int
  BY <1>1, <1>3
<1>5. Num(u) = 1000 * u[1] + 100 * u[2] + 10 * u[3] + u[4]
  BY <1>3, <1>4, NumOfFour
<1>6. Drop(s, 3) = u
  BY DEF Drop, Seven, u
<1> QED
  BY <1>3, <1>5, <1>6 DEF u, Four

UpToFour(n) == n \in Int /\ 0 <= n /\ n <= 9999

LEMMA FourBounded ==
  ASSUME NEW s, Seven(s)
  PROVE  UpToFour(Four(s))
<1> DEFINE a == s[4]  b == s[5]  c == s[6]  d == s[7]
<1>0. \A i \in 1..7 : s[i] \in 0..9
  BY SevenDigits, Zenon
<1>1. \A i \in {4, 5, 6, 7} : s[i] \in Int /\ 0 <= s[i] /\ s[i] <= 9
  BY <1>0, OneToSeven, DigitBounds, Zenon
<1>2. /\ a \in Int /\ 0 <= a /\ a <= 9 /\ b \in Int /\ 0 <= b /\ b <= 9
      /\ c \in Int /\ 0 <= c /\ c <= 9 /\ d \in Int /\ 0 <= d /\ d <= 9
  BY <1>1
<1>3. Four(s) = 1000 * a + 100 * b + 10 * c + d
  BY DEF Four
<1> HIDE DEF a, b, c, d
<1> QED
  BY <1>2, <1>3 DEF UpToFour

SameFour(s, t) == s[4] = t[4] /\ s[5] = t[5] /\ s[6] = t[6] /\ s[7] = t[7]

LEMMA FourInjective ==
  ASSUME NEW s, Seven(s), NEW t, Seven(t), Four(s) = Four(t)
  PROVE  SameFour(s, t)
<1>0. (\A i \in 1..7 : s[i] \in 0..9) /\ (\A i \in 1..7 : t[i] \in 0..9)
  BY SevenDigits, Zenon
<1>1. \A i \in {4, 5, 6, 7} : s[i] \in Int /\ 0 <= s[i] /\ s[i] <= 9
  BY <1>0, OneToSeven, DigitBounds, Zenon
<1>2. \A i \in {4, 5, 6, 7} : t[i] \in Int /\ 0 <= t[i] /\ t[i] <= 9
  BY <1>0, OneToSeven, DigitBounds, Zenon
<1> QED
  <2> DEFINE a == s[4]  b == s[5]  c == s[6]  d == s[7]
             a1 == t[4]  b1 == t[5]  c1 == t[6]  d1 == t[7]
  <2>1. /\ a \in Int /\ 0 <= a /\ a <= 9 /\ b \in Int /\ 0 <= b /\ b <= 9
        /\ c \in Int /\ 0 <= c /\ c <= 9 /\ d \in Int /\ 0 <= d /\ d <= 9
    BY <1>1
  <2>2. /\ a1 \in Int /\ 0 <= a1 /\ a1 <= 9 /\ b1 \in Int /\ 0 <= b1 /\ b1 <= 9
        /\ c1 \in Int /\ 0 <= c1 /\ c1 <= 9 /\ d1 \in Int /\ 0 <= d1 /\ d1 <= 9
    BY <1>2
  <2>3. 1000 * a + 100 * b + 10 * c + d = 1000 * a1 + 100 * b1 + 10 * c1 + d1
    BY DEF Four
  <2> HIDE DEF a, b, c, d, a1, b1, c1, d1
  <2>4. a = a1 /\ b = b1 /\ c = c1 /\ d = d1
    BY <2>1, <2>2, <2>3
  <2> QED
    BY <2>4 DEF SameFour, a, b, c, d, a1, b1, c1, d1

LEMMA GroupIs ==
  ASSUME NEW p, IsPublishable(p), NEW h \in Wide(p)
  PROVE  GroupOf(p, h) \in Nat /\ GroupOf(p, h) >= 1 /\ SetToSeq(Wide(p))[GroupOf(p, h)] = h
<1>1. IsFiniteSet(Wide(p))
  BY WideFinite
<1> DEFINE n == Cardinality(Wide(p))
           f == SetToSeq(Wide(p))
<1>2. n \in Nat /\ DOMAIN f = 1..n /\ \E i \in 1..n : f[i] = h
  BY <1>1, ListsAll, Zenon
<1>3. GroupOf(p, h) = CHOOSE i \in DOMAIN f : f[i] = h
  BY DEF GroupOf
<1> HIDE DEF n, f
<1>4. GroupOf(p, h) \in DOMAIN f /\ f[GroupOf(p, h)] = h
  BY <1>2, <1>3, Zenon
<1>5. GroupOf(p, h) \in 1..n
  BY <1>2, <1>4, Zenon
<1> QED
  BY <1>2, <1>4, <1>5 DEF f

LEMMA Heads ==
  ASSUME NEW p, IsPublishable(p)
  PROVE  /\ \A h \in Wide(p) : Three(h) /\ h \notin DOMAIN p.operatorOf
         /\ \A h \in Short(p) : Three(h) /\ h \notin Wide(p) /\ h \in DOMAIN p.operatorOf
<1>1. \A s \in Long(p) : Seven(s) /\ s[1] = 1 /\ Take(s, 3) \notin DOMAIN p.operatorOf
  BY OperatorDigits
<1>2. \A s \in Short(p) : Three(s)
  BY OperatorDigits
<1>3. \A s : Seven(s) => s \in Seq(Digit) /\ 3 <= Len(s)
  BY DEF Seven
<1>4. \A s \in Long(p) : Three(Take(s, 3))
  BY <1>1, <1>3, HeadOfSeven, Zenon
<1>5. \A h \in Wide(p) : \E s \in Long(p) : h = Take(s, 3)
  BY Zenon DEF Wide
<1>6. \A h \in Short(p) : h \in DOMAIN p.operatorOf
  BY Zenon DEF Short
<1> QED
  BY <1>1, <1>2, <1>4, <1>5, <1>6, Zenon

LEMMA HeadIs ==
  ASSUME NEW p, IsPublishable(p), NEW h \in Wide(p) \cup Short(p)
  PROVE  HeadWith(p, Two(h)) = h
<1>1. \A g \in Wide(p) \cup Short(p) : Three(g)
  BY Heads, Zenon
<1>2. \A g \in Wide(p) \cup Short(p) : Num(Tail(g)) = Two(g)
  BY <1>1, NumOfTail
<1>3. \A g \in Wide(p) \cup Short(p) : Two(g) = Two(h) => g = h
  BY <1>1, TwoInjective
<1> QED
  BY <1>2, <1>3, Zenon DEF HeadWith

LEMMA TakeOfThree ==
  ASSUME NEW h, Three(h)
  PROVE  Take(h, 3) = h
<1>1. h \in Seq(Nat) /\ Len(h) = 3
  BY ThreeDigits, Zenon
<1>2. 3 \in Nat /\ 3 <= 3
  OBVIOUS
<1>3. Take(h, 3) \in Seq(Nat) /\ Len(Take(h, 3)) = 3 /\ \A i \in 1..3 : Take(h, 3)[i] = h[i]
  BY <1>1, <1>2, TakeType, Zenon
<1> QED
  BY <1>1, <1>3, SeqEqual

\* What the table has for the first three digits.
LEMMA HeadIndex ==
  ASSUME NEW p, IsPublishable(p), NEW h, Three(h)
  PROVE  /\ h \in Wide(p) => At(Layout(p).opIndex, Two(h)) = E_MOBILE_OP_MAX + GroupOf(p, h) - 1
         /\ h \in Short(p) => At(Layout(p).opIndex, Two(h)) = p.operatorOf[h]
         /\ h \notin Wide(p) \cup Short(p) => At(Layout(p).opIndex, Two(h)) = 0
<1> DEFINE places == {Num(Tail(g)) : g \in Wide(p) \cup Short(p)}
           of(d) == IF HeadWith(p, d) \in Wide(p) THEN E_MOBILE_OP_MAX + GroupOf(p, Take(HeadWith(p, d), 3)) - 1
                                                  ELSE p.operatorOf[HeadWith(p, d)]
           table == [d \in places |-> of(d)]
           here == Two(h)
<1>1. Layout(p).opIndex = table
  BY LayoutIndex, Zenon
<1>2. \A g \in Wide(p) \cup Short(p) : Three(g) /\ Num(Tail(g)) = Two(g)
  BY Heads, NumOfTail
<1>3. h \in Wide(p) \cup Short(p) => here \in places
  BY <1>2
<1>4. h \notin Wide(p) \cup Short(p) => here \notin places
  <2>1. \A g \in Wide(p) \cup Short(p) : Two(g) = Two(h) => g = h
    BY <1>2, TwoInjective
  <2> QED
    BY <1>2, <2>1
<1>5. h \in Wide(p) \cup Short(p) => HeadWith(p, here) = h
  BY HeadIs
<1>6. Take(h, 3) = h
  BY TakeOfThree
<1>7. h \in Wide(p) => of(here) = E_MOBILE_OP_MAX + GroupOf(p, h) - 1
  BY <1>5, <1>6
<1>8. h \in Short(p) => of(here) = p.operatorOf[h]
  <2>1. h \in Short(p) => h \notin Wide(p)
    BY Heads, Zenon
  <2> QED
    BY <1>5, <2>1
<1> HIDE DEF places, of, here
<1>9. here \in places => At(table, here) = of(here)
  BY Zenon DEF At
<1>10. here \notin places => At(table, here) = 0
  BY Zenon DEF At
<1> HIDE DEF table
<1> QED
  BY <1>1, <1>3, <1>4, <1>7, <1>8, <1>9, <1>10 DEF here

LEMMA Mixed ==
  \A a, b, x, y \in Int :
      /\ 0 <= x /\ x <= 9999 /\ 0 <= y /\ y <= 9999
      /\ E_MOBILE_OP_MAX * (a - 1) + x = E_MOBILE_OP_MAX * (b - 1) + y
      => a = b /\ x = y
  BY DEF E_MOBILE_OP_MAX

LEMMA OpAddressInjective ==
  ASSUME NEW p, IsPublishable(p), NEW s, Seven(s), Take(s, 3) \in Wide(p),
         NEW t, Seven(t), Take(t, 3) \in Wide(p), OpAddress(p, s) = OpAddress(p, t)
  PROVE  s = t
<1> DEFINE a == GroupOf(p, Take(s, 3))
           b == GroupOf(p, Take(t, 3))
<1>2. /\ Four(s) \in Int /\ 0 <= Four(s) /\ Four(s) <= 9999
      /\ Four(t) \in Int /\ 0 <= Four(t) /\ Four(t) <= 9999
  <2>1. UpToFour(Four(s)) /\ UpToFour(Four(t))
    BY FourBounded, Zenon
  <2> QED
    BY <2>1 DEF UpToFour
<1>3. a \in Nat /\ b \in Nat /\ SetToSeq(Wide(p))[a] = Take(s, 3) /\ SetToSeq(Wide(p))[b] = Take(t, 3)
  BY GroupIs
<1>4. Num(Drop(s, 3)) = Four(s) /\ Num(Drop(t, 3)) = Four(t)
  <2>1. \A r : Seven(r) => Num(Drop(r, 3)) = Four(r)
    <3> TAKE r
    <3> HAVE Seven(r)
    <3>1. Drop(r, 3) = SubSeq(r, 4, 7) /\ Num(SubSeq(r, 4, 7)) = Four(r)
      BY FourDigits
    <3> QED
      BY <3>1, Zenon
  <2> QED
    BY <2>1, Zenon
<1>5. a = b /\ Four(s) = Four(t)
  <2>1. /\ OpAddress(p, s) = E_MOBILE_OP_MAX * (a - 1) + Num(Drop(s, 3))
        /\ OpAddress(p, t) = E_MOBILE_OP_MAX * (b - 1) + Num(Drop(t, 3))
    BY DEF OpAddress
  <2> DEFINE x == Four(s)  y == Four(t)
  <2>2. E_MOBILE_OP_MAX * (a - 1) + x = E_MOBILE_OP_MAX * (b - 1) + y
    <3>1. OpAddress(p, s) = E_MOBILE_OP_MAX * (a - 1) + x
      BY <1>4, <2>1, Zenon
    <3>2. OpAddress(p, t) = E_MOBILE_OP_MAX * (b - 1) + y
      BY <1>4, <2>1, Zenon
    <3> HIDE DEF a, b, x, y
    <3> QED
      BY <3>1, <3>2, Zenon
  <2>3. a \in Int /\ b \in Int
    BY <1>3
  <2> HIDE DEF a, b, x, y
  <2>4. x \in Int /\ 0 <= x /\ x <= 9999 /\ y \in Int /\ 0 <= y /\ y <= 9999
    BY <1>2 DEF x, y
  <2>5. a = b /\ x = y
    BY <2>2, <2>3, <2>4, Mixed
  <2> QED
    BY <2>5 DEF x, y
<1> HIDE DEF a, b
<1>6. s[4] = t[4] /\ s[5] = t[5] /\ s[6] = t[6] /\ s[7] = t[7]
  <2>1. SameFour(s, t)
    BY <1>5, FourInjective, Zenon
  <2> QED
    BY <2>1, Zenon DEF SameFour
<1>7. Take(s, 3) = Take(t, 3)
  BY <1>3, <1>5
<1>8. s[1] = t[1] /\ s[2] = t[2] /\ s[3] = t[3]
  <2>1. s \in Seq(Nat) /\ t \in Seq(Nat) /\ Len(s) = 7 /\ Len(t) = 7
    BY SevenDigits, Zenon
  <2>2. 3 \in Nat /\ 3 <= 7
    OBVIOUS
  <2>3. (\A i \in 1..3 : Take(s, 3)[i] = s[i]) /\ (\A i \in 1..3 : Take(t, 3)[i] = t[i])
    BY <2>1, <2>2, TakeType, Zenon
  <2> QED
    BY <1>7, <2>3
<1>9. \A i \in 1..7 : s[i] = t[i]
  BY <1>6, <1>8
<1>10. s \in Seq(Nat) /\ t \in Seq(Nat) /\ Len(s) = Len(t) /\ \A i \in 1..Len(s) : s[i] = t[i]
  BY <1>9, SevenDigits
<1> QED
  BY <1>10, SeqEqual, Zenon

\* And what the group of these digits has for the other four.
LEMMA GroupIndex ==
  ASSUME NEW p, IsPublishable(p), NEW s, Seven(s), Take(s, 3) \in Wide(p)
  PROVE  At(Layout(p).opData, OpAddress(p, s)) = Listed(p.operatorOf, s)
<1> DEFINE places == {OpAddress(p, r) : r \in Long(p)}
           of(a) == CHOOSE r \in Long(p) : OpAddress(p, r) = a
           table == [a \in places |-> p.operatorOf[of(a)]]
           here == OpAddress(p, s)
<1>1. Layout(p).opData = table
  BY LayoutData, Zenon
<1>2. \A r \in Long(p) : OpAddress(p, r) = here => r = s
  <2> TAKE r \in Long(p)
  <2>1. Seven(r) /\ Take(r, 3) \in Wide(p)
    BY OperatorDigits DEF Wide
  <2> QED
    BY <2>1, OpAddressInjective
<1>3. s \in DOMAIN p.operatorOf <=> s \in Long(p)
  BY DEF Seven, Long
<1>4. CASE s \in Long(p)
  <2>1. of(here) = s
    BY <1>2, <1>4, Zenon
  <2>2. here \in places
    BY <1>4, Zenon
  <2> HIDE DEF of, places, here
  <2>3. At(table, here) = p.operatorOf[s]
    BY <2>1, <2>2, Zenon DEF At
  <2> QED
    BY <1>1, <1>3, <1>4, <2>3, Zenon DEF here, Listed
<1>5. CASE s \notin Long(p)
  <2>1. here \notin places
    BY <1>2, <1>5, Zenon
  <2> HIDE DEF of, places, here
  <2>2. At(table, here) = 0
    BY <2>1, Zenon DEF At
  <2> QED
    BY <1>1, <1>3, <1>5, <2>2, Zenon DEF here, Listed
<1> QED
  BY <1>4, <1>5

\* The index of an operator, 0 where there is none: by three digits, or by seven.
OperatorIndex(p, s) ==
  IF Listed(p.operatorOf, Take(s, 3)) # 0 THEN p.operatorOf[Take(s, 3)] ELSE Listed(p.operatorOf, s)

LEMMA ListedOperator ==
  ASSUME NEW p, IsPublishable(p), NEW s
  PROVE  /\ OperatorIndex(p, s) \in 0..Len(p.operators)
         /\ Take(s, 3) \in DOMAIN p.operatorOf =>
                OperatorIndex(p, s) = p.operatorOf[Take(s, 3)] /\ p.operatorOf[Take(s, 3)] < E_MOBILE_OP_MAX
         /\ Take(s, 3) \notin DOMAIN p.operatorOf => OperatorIndex(p, s) = Listed(p.operatorOf, s)
<1>1. Len(p.operators) \in Nat /\ Len(p.operators) < 10000
  BY PublishedNames, OperatorDigits
<1>2. \A r \in DOMAIN p.operatorOf : p.operatorOf[r] \in 1..Len(p.operators)
  BY OperatorDigits
<1>3. \A r \in DOMAIN p.operatorOf : Listed(p.operatorOf, r) = p.operatorOf[r] /\ Listed(p.operatorOf, r) # 0
  BY <1>1, <1>2 DEF Listed
<1>4. \A r : r \notin DOMAIN p.operatorOf => Listed(p.operatorOf, r) = 0
  BY Zenon DEF Listed
<1>5. CASE Take(s, 3) \in DOMAIN p.operatorOf
  <2>1. OperatorIndex(p, s) = p.operatorOf[Take(s, 3)]
    BY <1>3, <1>5, Zenon DEF OperatorIndex
  <2>2. p.operatorOf[Take(s, 3)] \in 1..Len(p.operators)
    BY <1>2, <1>5, Zenon
  <2> QED
    BY <1>1, <1>5, <2>1, <2>2 DEF E_MOBILE_OP_MAX
<1>6. CASE Take(s, 3) \notin DOMAIN p.operatorOf
  <2>1. OperatorIndex(p, s) = Listed(p.operatorOf, s)
    BY <1>4, <1>6, Zenon DEF OperatorIndex
  <2>2. Listed(p.operatorOf, s) \in 0..Len(p.operators)
    BY <1>1, <1>2, <1>3, <1>4
  <2> QED
    BY <1>6, <2>1, <2>2, Zenon
<1> QED
  BY <1>5, <1>6, Zenon

LEMMA ThreeOrSeven == \A n \in {3, 7} : 3 <= n /\ ~(n < 3)
  OBVIOUS

\* What the code computes is that index, or nothing where there is none.
LEMMA OperatorFound ==
  ASSUME NEW p, IsPublishable(p), NEW s \in Seq(Digit), Len(s) \in {3, 7}, s[1] = 1
  PROVE  \/ GetMobileOperator(Layout(p), s) = OperatorIndex(p, s)
         \/ GetMobileOperator(Layout(p), s) = NotFound /\ OperatorIndex(p, s) = 0
<1> DEFINE d == Layout(p)
           h == Take(s, 3)
           index == At(d.opIndex, Num(SubSeq(s, 2, 3)))
<1>1. Three(h) /\ Two(h) = 10 * s[2] + s[3]
  BY HeadOfSeven
<1>2. s \in Seq(Nat) /\ 3 <= Len(s) /\ ~(Len(s) < 3)
  <2>1. 3 <= Len(s) /\ ~(Len(s) < 3)
    BY ThreeOrSeven, Zenon
  <2>2. s \in Seq(Nat)
    BY DigitsAreNat, Zenon
  <2> QED
    BY <2>1, <2>2, Zenon
<1>3. index = At(d.opIndex, Two(h))
  BY <1>1, <1>2, NumOfSecondAndThird
<1>4. d.hasMobileOp = (p.operatorOf # << >>)
  BY LayoutNames, Zenon
<1>5. GetMobileOperator(d, s) =
        IF ~d.hasMobileOp THEN NotFound
        ELSE IF index < E_MOBILE_OP_MAX THEN index
        ELSE IF Len(s) < 7 THEN NotFound
        ELSE At(d.opData, E_MOBILE_OP_MAX * (index - E_MOBILE_OP_MAX) + Num(SubSeq(s, 4, 7)))
  <2> HIDE DEF d
  <2> QED
    BY <1>2, Zenon DEF GetMobileOperator
<1>6. /\ h \in Wide(p) => index = E_MOBILE_OP_MAX + GroupOf(p, h) - 1
      /\ h \in Short(p) => index = p.operatorOf[h]
      /\ h \notin Wide(p) \cup Short(p) => index = 0
  <2>1. /\ h \in Wide(p) => At(d.opIndex, Two(h)) = E_MOBILE_OP_MAX + GroupOf(p, h) - 1
        /\ h \in Short(p) => At(d.opIndex, Two(h)) = p.operatorOf[h]
        /\ h \notin Wide(p) \cup Short(p) => At(d.opIndex, Two(h)) = 0
    BY <1>1, HeadIndex
  <2> HIDE DEF index, h, d
  <2> QED
    BY <1>3, <2>1
<1>7. /\ h \in DOMAIN p.operatorOf => OperatorIndex(p, s) = p.operatorOf[h] /\ p.operatorOf[h] < E_MOBILE_OP_MAX
      /\ h \notin DOMAIN p.operatorOf => OperatorIndex(p, s) = Listed(p.operatorOf, s)
  BY ListedOperator, Zenon
<1> HIDE DEF d, h, index
<1>8. CASE ~d.hasMobileOp
  <2>1. DOMAIN p.operatorOf = {}
    <3>1. p.operatorOf = << >>
      BY <1>4, <1>8
    <3>2. DOMAIN << >> = 1..Len(<< >>) /\ Len(<< >>) = 0 /\ 1..0 = {}
      BY EmptySeq, LenInNat
    <3> QED
      BY <3>1, <3>2
  <2>2. OperatorIndex(p, s) = 0
    BY <1>7, <2>1, Zenon DEF Listed
  <2>3. GetMobileOperator(d, s) = NotFound
    BY <1>5, <1>8, Zenon
  <2> QED
    BY <2>2, <2>3, Zenon DEF d
<1>9. CASE d.hasMobileOp /\ h \in Short(p)
  <2>1. h \in DOMAIN p.operatorOf
    BY <1>9, Heads, Zenon
  <2>2. index = p.operatorOf[h] /\ index < E_MOBILE_OP_MAX
    BY <1>6, <1>7, <1>9, <2>1
  <2>3. GetMobileOperator(d, s) = index
    BY <1>5, <1>9, <2>2, Zenon
  <2> QED
    BY <1>7, <2>1, <2>2, <2>3, Zenon DEF d
<1>10. CASE d.hasMobileOp /\ h \in Wide(p)
  <2>1. h \notin DOMAIN p.operatorOf /\ GroupOf(p, h) \in Nat /\ GroupOf(p, h) >= 1
    BY <1>10, Heads, GroupIs
  <2>2. ~(index < E_MOBILE_OP_MAX) /\ index - E_MOBILE_OP_MAX = GroupOf(p, h) - 1
    BY <1>6, <1>10, <2>1 DEF E_MOBILE_OP_MAX
  <2>3. OperatorIndex(p, s) = Listed(p.operatorOf, s)
    BY <1>7, <2>1, Zenon
  <2>4. CASE Len(s) = 3
    <3>1. GetMobileOperator(d, s) = NotFound
      <4>1. Len(s) < 7
        BY <2>4
      <4> QED
        BY <1>5, <1>10, <2>2, <4>1, Zenon
    <3>2. s = h
      <4>1. Three(s)
        BY <2>4 DEF Three
      <4> QED
        BY <4>1, TakeOfThree DEF h
    <3>3. Listed(p.operatorOf, s) = 0
      BY <2>1, <3>2 DEF Listed
    <3> QED
      BY <2>3, <3>1, <3>3, Zenon DEF d
  <2>5. CASE Len(s) = 7
    <3>1. Seven(s) /\ ~(Len(s) < 7)
      BY <2>5 DEF Seven
    <3>2. Drop(s, 3) = SubSeq(s, 4, 7)
      BY <3>1, FourDigits
    <3>3. E_MOBILE_OP_MAX * (index - E_MOBILE_OP_MAX) + Num(SubSeq(s, 4, 7)) = OpAddress(p, s)
      BY <2>2, <3>2, Zenon DEF OpAddress, h
    <3>4. At(d.opData, OpAddress(p, s)) = Listed(p.operatorOf, s)
      BY <1>10, <3>1, GroupIndex DEF d, h
    <3>5. GetMobileOperator(d, s) = At(d.opData, OpAddress(p, s))
      BY <1>5, <1>10, <2>2, <3>1, <3>3, Zenon
    <3> QED
      BY <2>3, <3>4, <3>5, Zenon DEF d
  <2> QED
    BY <2>4, <2>5, Zenon
<1>11. CASE d.hasMobileOp /\ h \notin Wide(p) \cup Short(p)
  <2>1. index = 0 /\ index < E_MOBILE_OP_MAX
    BY <1>6, <1>11 DEF E_MOBILE_OP_MAX
  <2>2. GetMobileOperator(d, s) = 0
    BY <1>5, <1>11, <2>1, Zenon
  <2>3. DOMAIN p.operatorOf = Long(p) \cup Short(p) /\ \A r \in Long(p) : Len(r) = 7
    BY OperatorDigits DEF Long
  <2>4. h \notin DOMAIN p.operatorOf
    <3>1. Len(h) # 7
      BY <1>1 DEF Three
    <3> QED
      BY <1>11, <2>3, <3>1
  <2>5. s \notin DOMAIN p.operatorOf
    <3>1. s \notin Long(p)
      BY <1>11 DEF Wide, h
    <3>2. s \in Short(p) => s = h
      BY OperatorDigits, TakeOfThree DEF h
    <3> QED
      BY <1>11, <2>3, <3>1, <3>2
  <2> QED
    BY <1>7, <2>2, <2>4, <2>5, Zenon DEF d, Listed
<1> QED
  BY <1>8, <1>9, <1>10, <1>11, Zenon

LEMMA OperatorReads ==
  ASSUME NEW v \in Versions, NEW w, w.step \notin {"tel", "location7", "location3"},
         w.digits \in Seq(Digit), Len(w.digits) \in {3, 7}, w.digits[1] = 1
  PROVE  DatResult(Dat[v], w, << >>) = OperatorOf(v, w.digits)
<1> DEFINE p == Published[v]
           d == Layout(p)
           s == w.digits
           found == GetMobileOperator(d, s)
           index == OperatorIndex(p, s)
<1>1. IsPublishable(p) /\ Dat[v] = d
  BY PublishedAssumption, Zenon DEF Dat
<1>2. DatResult(Dat[v], w, << >>) = NameAt(d.opNames, found)
  <2>1. DatResult(d, w, << >>) = NameAt(d.opNames, found)
    <3> HIDE DEF d
    <3> QED
      BY DEF DatResult, NameAt
  <2> QED
    BY <1>1, <2>1, Zenon
<1>3. OperatorOf(v, s) = IF index = 0 THEN << >> ELSE Utf8(p.operators[index])
  BY DEF OperatorOf, OperatorIndex, Versions
<1>4. index \in 0..Len(p.operators)
  BY <1>1, ListedOperator, Zenon
<1>5. found = index \/ (found = NotFound /\ index = 0)
  BY <1>1, OperatorFound
<1> HIDE DEF d, found, index
<1>6. NameAt(d.opNames, index) = IF index = 0 THEN << >> ELSE Utf8(p.operators[index])
  <2> DEFINE n == Len(p.operators)  names == p.operators  table == d.opNames
  <2>1. n \in Nat /\ \A j \in 1..n : names[j] \in Seq(Nat) /\ Len(names[j]) \in 1..9
    BY <1>1, PublishedNames, Zenon
  <2>2. table = [j \in 0..n |-> Padded(IF j = 0 THEN << >> ELSE names[j], NameLength)]
    BY LayoutNames, Zenon DEF d
  <2>3. index \in 0..n
    BY <1>4
  <2> HIDE DEF n, names, table
  <2>4. NameAt(table, index) = IF index = 0 THEN << >> ELSE Utf8(names[index])
    BY <2>1, <2>2, <2>3, NamesRead
  <2> QED
    BY <2>4 DEF names, table
<1>7. NameAt(d.opNames, NotFound) = << >>
  BY Zenon DEF NameAt
<1> QED
  BY <1>2, <1>3, <1>5, <1>6, <1>7, Zenon

-----------------------------------------------------------------------------
(* The digits that are looked up. *)

IsMobile(d) == d \in Seq(Digit) /\ Len(d) \in {3, 7} /\ d[1] = 1
IsArea(d) == d \in Seq(Digit) /\ Len(d) \in {3, 4}

LEMMA PrefixFirst ==
  ASSUME NEW c, NEW s, IsPrefix(c, s), Len(c) \in Nat, Len(c) >= 1
  PROVE  s[1] = c[1]
<1>1. SubSeq(c, 1, Len(c)) = SubSeq(s, 1, Len(c))
  BY DEF IsPrefix
<1>2. \A t : SubSeq(t, 1, Len(c))[1] = t[1]
  <2> TAKE t
  <2> DEFINE S == {t[i] : i \in 1..Len(c)}
  <2>1. \A i \in 1..Len(c) : t[i] \in S
    OBVIOUS
  <2> HIDE DEF S
  <2>2. \A i \in 1..(Len(c) - 1 + 1) : SubSeq(t, 1, Len(c))[i] = t[1 + i - 1]
    BY <2>1, SubSeqProperties
  <2> QED
    BY <2>2
<1> QED
  BY <1>1, <1>2

LEMMA Codes ==
  /\ \A c \in ChinaCodes : Len(c) \in Nat /\ Len(c) >= 1 /\ c[1] # 1
  /\ \A c, d \in ChinaCodes : c[1] = d[1] => c = d
  BY DEF ChinaCodes, Plus

\* The code of China is no part of a number that begins with 1.
LEMMA SubscriberIs ==
  ASSUME NEW s, NEW r \in Subscribers(s), r[1] = 1
  PROVE  Subscriber(s) = r
<1> DEFINE code == {c \in ChinaCodes : IsPrefix(c, s)}
<1>1. \A c \in code : s[1] = c[1]
  BY Codes, PrefixFirst
<1>2. \A c, d \in code : c = d
  BY <1>1, Codes
<1>3. r = s \/ \E c \in code : r = Drop(s, Len(c))
  BY DEF Subscribers
<1>4. Subscriber(s) = IF code = {} THEN s ELSE Drop(s, Len(CHOOSE c \in code : TRUE))
  BY DEF Subscriber
<1>5. CASE r = s
  <2>1. code = {}
    BY <1>1, <1>5, Codes
  <2> QED
    BY <1>4, <1>5, <2>1
<1>6. CASE \E c \in code : r = Drop(s, Len(c))
  <2>1. PICK c \in code : r = Drop(s, Len(c))
    BY <1>6
  <2>2. (CHOOSE d \in code : TRUE) = c
    BY <1>2, <2>1
  <2> HIDE DEF code
  <2> QED
    BY <1>4, <2>1, <2>2
<1> QED
  BY <1>3, <1>5, <1>6

\* Of a mobile number the first three and, if there are as many, the first seven digits.
LEMMA MobileParts ==
  ASSUME NEW s, NEW r \in Subscribers(s), AreDigits(r), Len(r) >= 3, r[1] = 1
  PROVE  LET n == ParseMobilePhoneNumber(s)
         IN /\ IsMobile(n.ndc3) /\ Len(n.ndc3) = 3
            /\ n.ndc7 # << >> => IsMobile(n.ndc7) /\ Len(n.ndc7) = 7 /\ Take(n.ndc7, 3) = n.ndc3
            /\ n.ndc7 = << >> => Len(r) < 7
<1>1. r \in Seq(Digit)
  BY DEF AreDigits
<1>2. \A k \in {3, 7} : k <= Len(r) =>
          /\ Take(r, k) \in Seq(Digit) /\ Len(Take(r, k)) = k
          /\ \A i \in 1..k : Take(r, k)[i] = r[i]
  <2>1. \A k \in {3, 7} : k \in Nat
    OBVIOUS
  <2> QED
    BY <1>1, <2>1, TakeType, Zenon
<1>3. Subscriber(s) = r
  BY SubscriberIs
<1>4. /\ ParseMobilePhoneNumber(s).ndc3 = Take(r, 3)
      /\ ParseMobilePhoneNumber(s).ndc7 = IF Len(r) >= 7 THEN Take(r, 7) ELSE << >>
  BY <1>3 DEF ParseMobilePhoneNumber
<1>5. 3 \in {3, 7} /\ 7 \in {3, 7} /\ 1 \in 1..3 /\ 1 \in 1..7
  OBVIOUS
<1>6. IsMobile(Take(r, 3)) /\ Len(Take(r, 3)) = 3
  BY <1>2, <1>5, Zenon DEF IsMobile
<1>7. CASE 7 <= Len(r)
  <2>1. /\ Take(r, 7) \in Seq(Digit) /\ Len(Take(r, 7)) = 7
        /\ \A i \in 1..7 : Take(r, 7)[i] = r[i]
    BY <1>2, <1>5, <1>7, Zenon
  <2>2. IsMobile(Take(r, 7))
    BY <1>5, <2>1, Zenon DEF IsMobile
  <2> DEFINE d == Take(r, 7)
  <2>3. Take(d, 3) = Take(r, 3)
    <3>1. Take(d, 3) \in Seq(Digit) /\ Len(Take(d, 3)) = 3 /\ \A i \in 1..3 : Take(d, 3)[i] = d[i]
      <4>1. 3 \in Nat /\ 3 <= Len(d)
        BY <2>1
      <4> QED
        BY <2>1, <4>1, TakeType, Zenon
    <3>2. Take(r, 3) \in Seq(Digit) /\ Len(Take(r, 3)) = 3 /\ \A i \in 1..3 : Take(r, 3)[i] = r[i]
      BY <1>2, <1>5, Zenon
    <3>3. \A i \in 1..3 : i \in 1..7
      OBVIOUS
    <3>4. \A i \in 1..3 : Take(d, 3)[i] = Take(r, 3)[i]
      <4> TAKE i \in 1..3
      <4>1. d[i] = r[i]
        BY <2>1, <3>3, Zenon
      <4>2. Take(d, 3)[i] = d[i] /\ Take(r, 3)[i] = r[i]
        BY <3>1, <3>2, Zenon
      <4> HIDE DEF d
      <4> QED
        BY <4>1, <4>2
    <3> HIDE DEF d
    <3> QED
      BY <3>1, <3>2, <3>4, SeqEqual
  <2>4. d # << >>
    BY <2>1
  <2>5. Len(r) >= 7
    BY <1>7
  <2> QED
    BY <1>4, <1>6, <2>1, <2>2, <2>3, <2>4, <2>5, Zenon
<1>8. CASE ~(7 <= Len(r))
  <2>1. Len(r) < 7 /\ ~(Len(r) >= 7)
    BY <1>1, <1>8
  <2> QED
    BY <1>4, <1>6, <2>1, Zenon
<1> QED
  BY <1>7, <1>8

LEMMA AreaParts ==
  ASSUME NEW s, AreDigits(s), ParseFixPhoneNumber(s) # << >>
  PROVE  IsArea(ParseFixPhoneNumber(s))
<1>1. s \in Seq(Digit) /\ ~(Len(s) < 5)
  BY DEF AreDigits, ParseFixPhoneNumber
<1>2. Len(s) \in Nat
  BY <1>1, LenInNat, Zenon
<1>3. \A k \in {3, 4} : k \in Nat /\ k <= Len(s)
  BY <1>1, <1>2
<1>4. \A k \in {3, 4} : Take(s, k) \in Seq(Digit) /\ Len(Take(s, k)) = k
  BY <1>1, <1>3, TakeType, Zenon
<1>5. ParseFixPhoneNumber(s) \in {Take(s, 3), Take(s, 4)}
  BY <1>1 DEF ParseFixPhoneNumber
<1> QED
  BY <1>4, <1>5 DEF IsArea

\* What a lookup has to do, and with which digits.
IsLookup(w) ==
  /\ IsWork(w)
  /\ w.step = "tel" => IsArea(w.digits) /\ w.ndc3 = << >> /\ w.ndc7 = << >> /\ w.again = FALSE
  /\ w.step \in SevenSteps => w.ndc7 # << >>
  /\ w.ndc7 # << >> => IsMobile(w.ndc7) /\ Len(w.ndc7) = 7 /\ w.ndc3 = Take(w.ndc7, 3)
  /\ w.step \in SevenSteps \cup {"operator"} => IsMobile(w.ndc3) /\ Len(w.ndc3) = 3
  /\ w.step \in {"location7", "operator7"} => w.digits = w.ndc7
  /\ w.step \in {"location3", "operator3"} => w.digits = w.ndc3
  /\ w.step = "operator" => w.digits = (IF w.ndc7 # << >> THEN w.ndc7 ELSE w.ndc3) /\ w.again = TRUE
  /\ w.again \in BOOLEAN

\* What a number without a lookup, or with one, begins with.
Begins(w) ==
  /\ IsLookup(w)
  /\ w.step \in {"tel", "location7", "done"} \/ (w.step = "operator" /\ w.ndc7 = << >>)
  /\ w.step = "done" => w.ndc7 = << >> /\ w.again = FALSE /\ w.digits = << >>

LEMMA DoneBegins == \A location : Begins(Done(location))
<1> TAKE location
<1>1. /\ DOMAIN Done(location) = WorkFields /\ Done(location).step = "done"
      /\ Done(location).ndc7 = << >> /\ Done(location).ndc3 = << >> /\ Done(location).digits = << >>
      /\ Done(location).again = FALSE
  BY DEF Done, WorkFields
<1>2. IsWork(Done(location))
  BY DoneIsWork
<1> QED
  BY <1>1, <1>2, Zenon DEF Begins, IsLookup, SevenSteps

LEMMA MobileBegins ==
  ASSUME NEW s, NEW prefix \in BOOLEAN,
         NEW r \in Subscribers(s), AreDigits(r), Len(r) >= 3, r[1] = 1, prefix \/ Len(r) >= 7
  PROVE  Begins(MobileWork(s, prefix))
<1> DEFINE n == ParseMobilePhoneNumber(s)
           w == MobileWork(s, prefix)
<1>1. /\ IsMobile(n.ndc3) /\ Len(n.ndc3) = 3
      /\ n.ndc7 # << >> => IsMobile(n.ndc7) /\ Len(n.ndc7) = 7 /\ Take(n.ndc7, 3) = n.ndc3
      /\ n.ndc7 = << >> => Len(r) < 7
  BY MobileParts
<1>2. n.ndc7 = << >> => prefix
  BY <1>1, LenInNat DEF AreDigits
<1>3. IsWork(w)
  BY MobileIsWork
<1>4. /\ w.ndc3 = n.ndc3 /\ w.ndc7 = n.ndc7 /\ w.again = prefix
      /\ n.ndc7 # << >> => w.step = "location7" /\ w.digits = n.ndc7
      /\ n.ndc7 = << >> => w.step = "operator" /\ w.digits = n.ndc3
  <2> HIDE DEF n
  <2> DEFINE work == [Done(<< >>) EXCEPT !.ndc3 = n.ndc3, !.ndc7 = n.ndc7, !.again = prefix]
  <2>1. /\ DOMAIN work = WorkFields
        /\ work.ndc3 = n.ndc3 /\ work.ndc7 = n.ndc7 /\ work.again = prefix
    BY DEF Done, WorkFields
  <2> HIDE DEF work
  <2>2. w = IF n.ndc7 # << >> THEN [work EXCEPT !.step = "location7", !.digits = n.ndc7]
            ELSE IF prefix THEN [work EXCEPT !.step = "operator", !.digits = n.ndc3]
            ELSE work
    BY DEF MobileWork, work, n
  <2> QED
    BY <1>2, <2>1, <2>2 DEF WorkFields
<1> HIDE DEF n, w
<1>5. n.ndc7 # << >> => Begins(w)
  BY <1>1, <1>3, <1>4 DEF Begins, IsLookup, SevenSteps
<1>6. n.ndc7 = << >> => Begins(w)
  <2>1. n.ndc7 = << >> => w.again = TRUE
    BY <1>2, <1>4
  <2> QED
    BY <1>1, <1>3, <1>4, <2>1 DEF Begins, IsLookup, SevenSteps
<1> QED
  BY <1>5, <1>6 DEF w

LEMMA FixBegins ==
  ASSUME NEW s, AreDigits(s)
  PROVE  Begins(GetFixParseResult(s))
<1>1. CASE ParseFixPhoneNumber(s) = << >>
  BY <1>1, DoneBegins DEF GetFixParseResult
<1>2. CASE ParseFixPhoneNumber(s) # << >>
  <2> DEFINE w == GetFixParseResult(s)
  <2>1. IsArea(ParseFixPhoneNumber(s))
    BY <1>2, AreaParts
  <2>2. /\ w.step = "tel" /\ w.digits = ParseFixPhoneNumber(s)
        /\ w.ndc3 = << >> /\ w.ndc7 = << >> /\ w.again = FALSE
    BY <1>2 DEF GetFixParseResult, Done
  <2>3. IsWork(w)
    BY FixIsWork
  <2> HIDE DEF w
  <2>4. Begins(w)
    BY <2>1, <2>2, <2>3 DEF Begins, IsLookup, SevenSteps
  <2> QED
    BY <2>4 DEF w
<1> QED
  BY <1>1, <1>2

LEMMA FromThree == \A n \in 3..11 : n >= 3
  OBVIOUS

LEMMA AttributionBegins ==
  \A number, exact, description : Begins(GetAttributionInfo(number, exact, description))
<1>1. \A s : FIX_PATTERN(s) \/ FIX_QUERY_PATTERN(s) => Begins(GetFixParseResult(s))
  BY FixBegins DEF FIX_PATTERN, FIX_QUERY_PATTERN
<1>2. \A s : MPN_PATTERN(s) => Begins(MobileWork(s, FALSE))
  <2> TAKE s
  <2> HAVE MPN_PATTERN(s)
  <2>1. PICK r \in Subscribers(s) : AreDigits(r) /\ Len(r) = 11 /\ r[1] = 1
    BY DEF MPN_PATTERN
  <2>2. Len(r) >= 3 /\ Len(r) >= 7
    BY <2>1
  <2> QED
    BY <2>1, <2>2, MobileBegins
<1>3. \A s : MPN_QUERY_PATTERN_PREFIX(s) => Begins(MobileWork(s, TRUE))
  <2> TAKE s
  <2> HAVE MPN_QUERY_PATTERN_PREFIX(s)
  <2>1. PICK r \in Subscribers(s) : AreDigits(r) /\ Len(r) \in 3..11 /\ r[1] = 1
    BY DEF MPN_QUERY_PATTERN_PREFIX
  <2>2. Len(r) >= 3
    BY <2>1, FromThree, Zenon
  <2> QED
    BY <2>1, <2>2, MobileBegins
<1>4. \A s, description : Begins(GetNatAttributionInfo(s, description))
  BY <1>1, DoneBegins DEF GetNatAttributionInfo
<1> QED
  BY <1>1, <1>2, <1>3, <1>4, DoneBegins DEF GetAttributionInfo

LEMMA LocationBegins ==
  \A number, exact, iso, description :
    \A w \in GetNumberLocation(number, exact, iso, description) : Begins(w)
<1>1. \A number, exact, description :
        \A w \in GetNumberLocationDefault(number, exact, description) : Begins(w)
  BY AttributionBegins DEF GetNumberLocationDefault
<1>2. \A number, iso, exact, description : Begins(GetNumberLocationNotCn(number, iso, exact, description))
  BY AttributionBegins, DoneBegins DEF GetNumberLocationNotCn
<1> QED
  BY <1>1, <1>2, DoneBegins DEF GetNumberLocation

\* What the version v publishes for the digits of the lookup w.
Name(v, w) ==
  IF w.step = "tel" THEN AreaOf(v, w.digits)
  ELSE IF w.step \in {"location7", "location3"} THEN CityOf(v, w.digits)
  ELSE OperatorOf(v, w.digits)

\* A lookup that no replacement of the .dat file disturbs reads back what the file publishes:
\* whatever digits, and whatever set of codes, cities, prefixes and operators the file holds,
\* its padded names, sorted codes, prefix index and address arithmetic lead to the one name
\* that the version gives to these digits, or to none when it gives none.
THEOREM ReadsBack ==
  ASSUME NEW v \in Versions, NEW w, IsLookup(w), w.step # "done"
  PROVE  DatResult(Dat[v], w, << >>) = Name(v, w)
<1>1. CASE w.step = "tel"
  <2>1. w.digits \in Seq(Digit) /\ Len(w.digits) \in {3, 4}
    BY <1>1 DEF IsLookup, IsArea
  <2> QED
    BY <1>1, <2>1, AreaReads DEF Name
<1>2. CASE w.step \in SevenSteps \cup {"operator"}
  <2>1. w.digits \in Seq(Digit) /\ Len(w.digits) \in {3, 7} /\ w.digits[1] = 1
    BY <1>2 DEF IsLookup, IsMobile, SevenSteps
  <2>2. CASE w.step \in {"location7", "location3"}
    <3>1. DatResult(Dat[v], w, << >>) = CityOf(v, w.digits)
      BY <2>1, <2>2, CityReads
    <3> QED
      BY <2>2, <3>1 DEF Name
  <2>3. CASE w.step \notin {"location7", "location3"}
    <3>1. w.step # "tel"
      BY <1>2 DEF SevenSteps
    <3>2. DatResult(Dat[v], w, << >>) = OperatorOf(v, w.digits)
      BY <2>1, <2>3, <3>1, OperatorReads
    <3> QED
      BY <2>3, <3>1, <3>2 DEF Name
  <2> QED
    BY <2>2, <2>3
<1> QED
  BY <1>1, <1>2 DEF IsLookup, IsWork, WorkSteps

-----------------------------------------------------------------------------
(* The records that count as loaded are those of the text. *)

\* Nothing is in the records that is not in a text with a version.
RecordsInv ==
  \A d \in DOMAIN records :
    ParseVersion(text) /\ \E i \in DOMAIN text : Entry(i) /\ text[i].prefix = d

LEMMA RecordsStep ==
  ASSUME TypeInv, RecordsInv, [Next]_vars
  PROVE  RecordsInv'
<1>1. CASE UNCHANGED <<records, text>>
  BY <1>1 DEF RecordsInv, Entry
<1>2. CASE \E t \in Threads : Parse(t) /\ ~UNCHANGED records
  <2>1. PICK t \in Threads : Parse(t) /\ ~UNCHANGED records
    BY <1>2
  <2> DEFINE n == query[t].line
             record == ParseRecord(text[n])
  <2>2. /\ ParseVersion(text) /\ text' = text /\ Entry(n)
        /\ records' = [d \in DOMAIN records \cup {record.prefix} |->
                          IF d = record.prefix THEN record ELSE records[d]]
    BY <2>1 DEF Parse, Entry
  <2>3. n \in DOMAIN text /\ DOMAIN text[n] = RecordFields
    <3>1. Len(text) \in Nat /\ Len(text) # 0 /\ DOMAIN text = 1..Len(text)
      BY <2>2, LocationAssumption DEF ParseVersion, TypeInv
    <3>2. n \in 1..Len(text)
      BY <2>1, <3>1 DEF TypeInv, IsQuery, Parse, Parsing
    <3> QED
      BY <2>2, <3>1, <3>2, LocationAssumption DEF Entry, TypeInv
  <2>4. record.prefix = text[n].prefix
    BY <2>3, PrefixKept
  <2> HIDE DEF n, record
  <2>5. DOMAIN records' = DOMAIN records \cup {text[n].prefix}
    BY <2>2, <2>4
  <2> QED
    BY <2>2, <2>3, <2>5 DEF RecordsInv, Entry
<1>3. \A t \in Threads : Step(t) => (UNCHANGED <<records, text>> \/ Parse(t))
  BY DEF Step, Query, NextNumber, QueryText, OpenDataFile, ReadDataFile, Answer
<1>4. \A t \in Threads : Parse(t) => UNCHANGED text
  BY DEF Parse
<1>5. WriteBufferToFile \/ FinishWrite \/ UNCHANGED vars => UNCHANGED <<records, text>>
  BY DEF WriteBufferToFile, FinishWrite, vars
<1> QED
  BY <1>1, <1>2, <1>3, <1>4, <1>5 DEF Next

LEMMA RecordsInvariant == Spec => []RecordsInv
<1>1. Init => RecordsInv
  <2>1. DOMAIN << >> = {}
    OBVIOUS
  <2> QED
    BY <2>1 DEF Init, RecordsInv
<1> QED
  BY <1>1, RecordsStep, TypeInvariant, PTL DEF Spec

\* What a text says of a prefix is what is loaded from it.
LEMMA TextExact ==
  ASSUME LoadedIsWhole, RecordsInv, loaded, ~raced, NEW d
  PROVE  /\ d \in DOMAIN records => TextRecord(d) = << records[d] >>
         /\ d \notin DOMAIN records => TextRecord(d) = << >>
<1>1. \A i \in DOMAIN text : Entry(i) =>
          /\ text[i].prefix \in DOMAIN records
          /\ << records[text[i].prefix] >> = TextRecord(text[i].prefix)
  BY DEF LoadedIsWhole, Entry
<1>2. CASE d \in DOMAIN records
  <2>1. PICK i \in DOMAIN text : Entry(i) /\ text[i].prefix = d
    BY <1>2 DEF RecordsInv
  <2> QED
    BY <1>1, <1>2, <2>1
<1>3. CASE d \notin DOMAIN records
  <2>1. {i \in DOMAIN text : text[i].kind = "record" /\ text[i].prefix = d} = {}
    BY <1>1, <1>3 DEF Entry
  <2> QED
    BY <1>3, <2>1 DEF TextRecord
<1> QED
  BY <1>2, <1>3

LEMMA NoText ==
  ASSUME ~ParseVersion(text), NEW d
  PROVE  TextRecord(d) = << >> /\ TextPlace(d) = << >> /\ TextOperator(d) = << >>
<1>1. \A e : TextRecord(e) = << >>
  BY DEF TextRecord
<1> QED
  BY <1>1 DEF TextPlace, TextOperator, TextName

LEMMA TakeAllOfSeven ==
  ASSUME NEW d \in Seq(Digit), Len(d) \in {3, 7}
  PROVE  Take(d, Len(d)) = d
<1>1. d \in Seq(Nat)
  BY DigitsAreNat, Zenon
<1>2. Len(d) \in Nat /\ Len(d) <= Len(d)
  BY <1>1, LenInNat
<1>3. /\ Take(d, Len(d)) \in Seq(Nat) /\ Len(Take(d, Len(d))) = Len(d)
      /\ \A i \in 1..Len(d) : Take(d, Len(d))[i] = d[i]
  BY <1>1, <1>2, TakeType, Zenon
<1> QED
  BY <1>1, <1>3, SeqEqual

LEMMA ThreeAndSeven == 3 \in {3, 7} /\ 7 \in {3, 7} /\ 3 >= 3 /\ 7 >= 3 /\ 7 >= 7 /\ ~(3 >= 7) /\ 3 # 7 /\ 3 <= 7 /\ ~(7 <= 3)
  OBVIOUS

\* Seven digits before three.
LEMMA Found ==
  ASSUME NEW d \in Seq(Digit), Len(d) \in {3, 7}
  PROVE  /\ Len(d) = 7 /\ d \in DOMAIN records =>
              Matching(records, d) # {} /\ Find(records, d) = records[d]
         /\ (Len(d) = 3 \/ d \notin DOMAIN records) /\ Take(d, 3) \in DOMAIN records =>
              Matching(records, d) # {} /\ Find(records, d) = records[Take(d, 3)]
         /\ (Len(d) = 3 \/ d \notin DOMAIN records) /\ Take(d, 3) \notin DOMAIN records =>
              Matching(records, d) = {}
<1>1. Take(d, Len(d)) = d
  BY TakeAllOfSeven
<1>2. Matching(records, d) = {n \in {3, 7} : Len(d) >= n /\ Take(d, n) \in DOMAIN records}
  BY DEF Matching
<1> DEFINE M == Matching(records, d)
           best == CHOOSE n \in M : \A k \in M : k <= n
<1>3. Find(records, d) = records[Take(d, best)]
  BY DEF Find
<1>4. 3 \in M <=> Take(d, 3) \in DOMAIN records
  BY <1>2, ThreeAndSeven, Zenon
<1>5. 7 \in M <=> Len(d) = 7 /\ d \in DOMAIN records
  BY <1>1, <1>2, ThreeAndSeven, Zenon
<1>6. \A n \in M : n = 3 \/ n = 7
  BY <1>2, Zenon
<1> HIDE DEF M
<1>7. 7 \in M => best = 7
  BY <1>6, ThreeAndSeven
<1>8. 7 \notin M /\ 3 \in M => best = 3
  BY <1>6, ThreeAndSeven
<1> HIDE DEF best
<1>9. CASE Len(d) = 7 /\ d \in DOMAIN records
  <2>1. best = 7 /\ M # {}
    BY <1>5, <1>7, <1>9
  <2>2. Find(records, d) = records[d]
    BY <1>1, <1>3, <1>9, <2>1
  <2> QED
    BY <1>9, <2>1, <2>2, ThreeAndSeven, Zenon DEF M
<1>10. CASE ~(Len(d) = 7 /\ d \in DOMAIN records)
  <2>1. 7 \notin M
    BY <1>5, <1>10, Zenon
  <2>2. Take(d, 3) \in DOMAIN records => M # {} /\ Find(records, d) = records[Take(d, 3)]
    BY <1>3, <1>4, <1>8, <2>1
  <2>3. Take(d, 3) \notin DOMAIN records => M = {}
    BY <1>4, <1>6, <2>1
  <2> QED
    BY <1>10, <2>2, <2>3, Zenon DEF M
<1> QED
  BY <1>9, <1>10, Zenon

\* What the text has for a lookup.
TextFor(w) ==
  IF w.step \in {"location7", "location3"} THEN TextPlace(w.digits) ELSE TextOperator(w.digits)

LEMMA TextReads ==
  ASSUME LoadedIsWhole, RecordsInv, loaded, ~raced, NEW w, IsMobile(w.digits)
  PROVE  TextResult(w) = TextFor(w)
<1> DEFINE d == w.digits
           e == Take(d, 3)
<1>1. d \in Seq(Digit) /\ Len(d) \in {3, 7}
  BY DEF IsMobile
<1>2. /\ \A c : c \in DOMAIN records => TextRecord(c) = << records[c] >>
      /\ \A c : c \notin DOMAIN records => TextRecord(c) = << >>
  BY TextExact
<1>3. CASE Len(d) = 7 /\ d \in DOMAIN records
  <2>1. Matching(records, d) # {} /\ Find(records, d) = records[d]
    BY <1>1, <1>3, Found
  <2>2. TextRecord(d) = << records[d] >>
    BY <1>2, <1>3
  <2>3. TextPlace(d) = Place(records[d]) /\ TextOperator(d) = records[d].operator
    BY <1>3, <2>2 DEF TextPlace, TextOperator, TextName
  <2> HIDE DEF d
  <2> QED
    BY <2>1, <2>3 DEF TextResult, TextFor, QueryLocationFromDataFile, QueryOperatorFromDataFile, d
<1>4. CASE ~(Len(d) = 7 /\ d \in DOMAIN records)
  <2>1. (IF Len(d) = 7 THEN TextRecord(d) ELSE << >>) = << >>
    BY <1>2, <1>4
  <2>2. Len(d) = 3 \/ d \notin DOMAIN records
    BY <1>1, <1>4
  <2>3. CASE e \in DOMAIN records
    <3>1. Matching(records, d) # {} /\ Find(records, d) = records[e]
      BY <1>1, <2>2, <2>3, Found
    <3>2. TextRecord(e) # << >> /\ TextRecord(e)[1] = records[e]
      BY <1>2, <2>3
    <3>3. TextPlace(d) = Place(records[e])
      BY <2>1, <3>2, Zenon DEF TextPlace, TextName
    <3>4. TextOperator(d) = records[e].operator
      BY <2>1, <3>2, Zenon DEF TextOperator, TextName
    <3> HIDE DEF d, e
    <3> QED
      BY <3>1, <3>3, <3>4 DEF TextResult, TextFor, QueryLocationFromDataFile, QueryOperatorFromDataFile, d
  <2>4. CASE e \notin DOMAIN records
    <3>1. Matching(records, d) = {}
      BY <1>1, <2>2, <2>4, Found
    <3>2. TextRecord(e) = << >>
      BY <1>2, <2>4
    <3>3. TextPlace(d) = << >> /\ TextOperator(d) = << >>
      BY <2>1, <3>2 DEF TextPlace, TextOperator, TextName
    <3> HIDE DEF d, e
    <3> QED
      BY <3>1, <3>3 DEF TextResult, TextFor, QueryLocationFromDataFile, QueryOperatorFromDataFile, d
  <2> QED
    BY <2>3, <2>4
<1> QED
  BY <1>3, <1>4

-----------------------------------------------------------------------------
(* The first of several names. *)

LEMMA FirstIs ==
  ASSUME NEW names, NEW n \in Nat, DOMAIN names = 1..n, NEW i \in 1..n, names[i] # << >>,
         \A j \in 1..n : j < i => names[j] = << >>
  PROVE  FirstOf(names) = names[i]
<1> DEFINE some == {j \in DOMAIN names : names[j] # << >>}
           first == CHOOSE j \in some : \A k \in some : j <= k
<1>1. i \in some /\ \A k \in some : i <= k
  OBVIOUS
<1>2. first = i
  <2>1. \A k \in some : k \in Int
    OBVIOUS
  <2> HIDE DEF some
  <2> QED
    BY <1>1, <2>1
<1>3. FirstOf(names) = IF some = {} THEN << >> ELSE names[first]
  BY DEF FirstOf
<1> HIDE DEF first
<1> QED
  BY <1>1, <1>2, <1>3

LEMMA FirstNone ==
  ASSUME NEW names, \A j \in DOMAIN names : names[j] = << >>
  PROVE  FirstOf(names) = << >>
<1>1. {j \in DOMAIN names : names[j] # << >>} = {}
  OBVIOUS
<1> QED
  BY <1>1 DEF FirstOf

LEMMA FirstOfThree ==
  ASSUME NEW a, NEW b, NEW c
  PROVE  FirstOf(<<a, b, c>>) = IF a # << >> THEN a ELSE IF b # << >> THEN b ELSE c
<1> DEFINE f == <<a, b, c>>
<1>1. DOMAIN f = 1..3 /\ f[1] = a /\ f[2] = b /\ f[3] = c
  OBVIOUS
<1> HIDE DEF f
<1>2. CASE a # << >>
  <2>1. FirstOf(f) = f[1]
    BY <1>1, <1>2, FirstIs
  <2> QED
    BY <1>1, <1>2, <2>1 DEF f
<1>3. CASE a = << >> /\ b # << >>
  <2>1. FirstOf(f) = f[2]
    <3>1. 3 \in Nat /\ 2 \in 1..3 /\ f[2] # << >>
      BY <1>1, <1>3
    <3>2. \A j \in 1..3 : j < 2 => f[j] = << >>
      BY <1>1, <1>3
    <3> QED
      BY <1>1, <3>1, <3>2, FirstIs
  <2> QED
    BY <1>1, <1>3, <2>1 DEF f
<1>4. CASE a = << >> /\ b = << >> /\ c # << >>
  <2>1. FirstOf(f) = f[3]
    <3>1. 3 \in Nat /\ 3 \in 1..3 /\ f[3] # << >>
      BY <1>1, <1>4
    <3>2. \A j \in 1..3 : j < 3 => f[j] = << >>
      BY <1>1, <1>4
    <3> QED
      BY <1>1, <3>1, <3>2, FirstIs
  <2> QED
    BY <1>1, <1>4, <2>1 DEF f
<1>5. CASE a = << >> /\ b = << >> /\ c = << >>
  <2>1. FirstOf(f) = << >>
    BY <1>1, <1>5, FirstNone
  <2> QED
    BY <1>5, <2>1 DEF f
<1> QED
  BY <1>2, <1>3, <1>4, <1>5

LEMMA FirstOfFive ==
  ASSUME NEW a, NEW b, NEW c, NEW d, NEW e
  PROVE  FirstOf(<<a, b, c, d, e>>) =
           IF a # << >> THEN a ELSE IF b # << >> THEN b ELSE IF c # << >> THEN c
           ELSE IF d # << >> THEN d ELSE e
<1> DEFINE f == <<a, b, c, d, e>>
<1>1. DOMAIN f = 1..5 /\ f[1] = a /\ f[2] = b /\ f[3] = c /\ f[4] = d /\ f[5] = e
  OBVIOUS
<1> HIDE DEF f
<1>2. CASE a # << >>
  <2>1. FirstOf(f) = f[1]
    BY <1>1, <1>2, FirstIs
  <2> QED
    BY <1>1, <1>2, <2>1 DEF f
<1>3. CASE a = << >> /\ b # << >>
  <2>1. FirstOf(f) = f[2]
    <3>1. 5 \in Nat /\ 2 \in 1..5 /\ f[2] # << >>
      BY <1>1, <1>3
    <3>2. \A j \in 1..5 : j < 2 => f[j] = << >>
      BY <1>1, <1>3
    <3> QED
      BY <1>1, <3>1, <3>2, FirstIs
  <2> QED
    BY <1>1, <1>3, <2>1 DEF f
<1>4. CASE a = << >> /\ b = << >> /\ c # << >>
  <2>1. FirstOf(f) = f[3]
    <3>1. 5 \in Nat /\ 3 \in 1..5 /\ f[3] # << >>
      BY <1>1, <1>4
    <3>2. \A j \in 1..5 : j < 3 => f[j] = << >>
      BY <1>1, <1>4
    <3> QED
      BY <1>1, <3>1, <3>2, FirstIs
  <2> QED
    BY <1>1, <1>4, <2>1 DEF f
<1>5. CASE a = << >> /\ b = << >> /\ c = << >> /\ d # << >>
  <2>1. FirstOf(f) = f[4]
    <3>1. 5 \in Nat /\ 4 \in 1..5 /\ f[4] # << >>
      BY <1>1, <1>5
    <3>2. \A j \in 1..5 : j < 4 => f[j] = << >>
      BY <1>1, <1>5
    <3> QED
      BY <1>1, <3>1, <3>2, FirstIs
  <2> QED
    BY <1>1, <1>5, <2>1 DEF f
<1>6. CASE a = << >> /\ b = << >> /\ c = << >> /\ d = << >> /\ e # << >>
  <2>1. FirstOf(f) = f[5]
    <3>1. 5 \in Nat /\ 5 \in 1..5 /\ f[5] # << >>
      BY <1>1, <1>6
    <3>2. \A j \in 1..5 : j < 5 => f[j] = << >>
      BY <1>1, <1>6
    <3> QED
      BY <1>1, <3>1, <3>2, FirstIs
  <2> QED
    BY <1>1, <1>6, <2>1 DEF f
<1>7. CASE a = << >> /\ b = << >> /\ c = << >> /\ d = << >> /\ e = << >>
  <2>1. FirstOf(f) = << >>
    BY <1>1, <1>7, FirstNone
  <2> QED
    BY <1>7, <2>1 DEF f
<1> QED
  BY <1>2, <1>3, <1>4, <1>5, <1>6, <1>7

-----------------------------------------------------------------------------
(* From one lookup to the next. *)

Seen == Versions \cup {"none"}
Prefix(w) == IF w.ndc7 # << >> THEN w.ndc7 ELSE w.ndc3

\* What the lookups before the next one, or all of them, have come to.
Follows(w, seen) ==
  /\ w.step = "location3" => TextPlace(w.ndc7) = << >> /\ \E v \in seen : CityOf(v, w.ndc7) = << >>
  /\ w.step \in {"operator7", "operator3", "operator", "done"} /\ w.ndc7 # << >> =>
         w.location \in PlacesOf(w.ndc7, seen)
  /\ w.step = "operator3" => TextOperator(w.ndc7) = << >> /\ \E v \in seen : OperatorOf(v, w.ndc7) = << >>
  /\ w.step = "done" /\ w.ndc7 # << >> /\ ~w.again => w.operator \in OperatorsOf(w.ndc7, seen)
  /\ w.step = "done" /\ w.again => w.operator \in PrefixOperatorsOf(Prefix(w), seen)
  /\ w.step = "done" /\ w.ndc3 = << >> /\ w.digits # << >> =>
         w.location \in {AreaOf(v, w.digits) : v \in seen}

\* What a lookup may find: a name in the text, or else one in a version.
MayFind(w, name, seen) ==
  \/ w.step # "tel" /\ name = TextFor(w) /\ name # << >>
  \/ /\ w.step # "tel" => TextFor(w) = << >>
     /\ \E v \in seen : name = Name(v, w)

LEMMA CityOfThree ==
  ASSUME NEW v \in Seen, NEW d, Len(d) = 3
  PROVE  CityOf(v, d) = << >>
<1>1. CASE v = "none"
  BY <1>1 DEF CityOf
<1>2. CASE v \in Versions
  <2>1. \A s \in DOMAIN Published[v].cityOf : Len(s) = 7
    BY <1>2, PublishedAssumption DEF IsPublishable
  <2>2. d \notin DOMAIN Published[v].cityOf
    BY <2>1, ThreeAndSeven
  <2> QED
    BY <2>2 DEF CityOf, Listed
<1> QED
  BY <1>1, <1>2 DEF Seen

LEMMA PlaceIs ==
  ASSUME NEW d, NEW seen, NEW v \in seen, NEW name,
         \/ name = TextPlace(d) /\ name # << >>
         \/ TextPlace(d) = << >> /\ name = CityOf(v, d) /\ name # << >>
         \/ TextPlace(d) = << >> /\ CityOf(v, d) = << >> /\ name = TextPlace(Take(d, 3))
  PROVE  name \in PlacesOf(d, seen)
<1>1. FirstOf(<<TextPlace(d), CityOf(v, d), TextPlace(Take(d, 3))>>) = name
  BY FirstOfThree
<1> QED
  BY <1>1 DEF PlacesOf

LEMMA OperatorIs ==
  ASSUME NEW d, NEW seen, NEW v \in seen, NEW u \in seen, NEW name,
         \/ name = TextOperator(d) /\ name # << >>
         \/ TextOperator(d) = << >> /\ name = OperatorOf(v, d) /\ name # << >>
         \/ /\ TextOperator(d) = << >> /\ OperatorOf(v, d) = << >>
            /\ \/ name = TextOperator(Take(d, 3)) /\ name # << >>
               \/ TextOperator(Take(d, 3)) = << >> /\ name = OperatorOf(u, Take(d, 3)) /\ name # << >>
               \/ /\ TextOperator(Take(d, 3)) = << >> /\ OperatorOf(u, Take(d, 3)) = << >>
                  /\ name = HardCoded(Take(d, 3))
  PROVE  name \in OperatorsOf(d, seen)
<1>1. FirstOf(<<TextOperator(d), OperatorOf(v, d), TextOperator(Take(d, 3)),
                OperatorOf(u, Take(d, 3)), HardCoded(Take(d, 3))>>) = name
  BY FirstOfFive
<1> QED
  BY <1>1 DEF OperatorsOf

LEMMA PrefixOperatorIs ==
  ASSUME NEW d, NEW seen, NEW v \in seen, NEW name,
         \/ name = TextOperator(d) /\ name # << >>
         \/ TextOperator(d) = << >> /\ name = OperatorOf(v, d) /\ name # << >>
         \/ TextOperator(d) = << >> /\ OperatorOf(v, d) = << >> /\ name = HardCoded(Take(d, 3))
  PROVE  name \in PrefixOperatorsOf(d, seen)
<1>1. FirstOf(<<TextOperator(d), OperatorOf(v, d), HardCoded(Take(d, 3))>>) = name
  BY FirstOfThree
<1> QED
  BY <1>1 DEF PrefixOperatorsOf

\* x is the work behind the lookup of w that found name.
Goes(w, name, x) ==
  /\ w.step # "tel" => x.ndc3 = w.ndc3 /\ x.ndc7 = w.ndc7 /\ x.again = w.again
  /\ w.step = "tel" => /\ x.step = "done" /\ x.digits = w.digits /\ x.location = name
                       /\ x.ndc3 = << >> /\ x.ndc7 = << >> /\ x.again = FALSE
  /\ w.step = "location7" /\ name = << >> => x.step = "location3" /\ x.digits = w.ndc3
  /\ w.step = "location7" /\ name # << >> =>
         x.step = "operator7" /\ x.digits = w.ndc7 /\ x.location = name
  /\ w.step = "location3" => x.step = "operator7" /\ x.digits = w.ndc7 /\ x.location = name
  /\ w.step = "operator7" /\ name = << >> =>
         x.step = "operator3" /\ x.digits = w.ndc3 /\ x.location = w.location
  /\ (w.step = "operator7" /\ name # << >>) \/ w.step = "operator3" =>
         /\ x.step = (IF w.again THEN "operator" ELSE "done") /\ x.digits = w.ndc7
         /\ x.location = w.location
         /\ x.operator = IF name # << >> THEN name ELSE HardCoded(w.ndc3)
  /\ w.step = "operator" =>
         /\ x.step = "done" /\ x.location = w.location
         /\ x.operator = IF name # << >> THEN name ELSE HardCoded(w.ndc3)

LEMMA AdvanceGoes ==
  ASSUME NEW w, IsWork(w), w.step # "done", NEW name
  PROVE  Goes(w, name, Advance(w, name))
<1>1. DOMAIN w = WorkFields
  BY DEF IsWork
<1>2. CASE w.step = "tel"
  BY <1>2 DEF Goes, Advance, Done
<1>3. CASE w.step = "location7"
  BY <1>1, <1>3 DEF Goes, Advance, WorkFields
<1>4. CASE w.step = "location3"
  BY <1>1, <1>4 DEF Goes, Advance, WorkFields
<1>5. CASE w.step = "operator7"
  BY <1>1, <1>5 DEF Goes, Advance, WorkFields
<1>6. CASE w.step = "operator3"
  BY <1>1, <1>6 DEF Goes, Advance, WorkFields
<1>7. CASE w.step = "operator"
  BY <1>1, <1>7 DEF Goes, Advance, WorkFields
<1> QED
  BY <1>2, <1>3, <1>4, <1>5, <1>6, <1>7 DEF IsWork, WorkSteps, SevenSteps

LEMMA AdvanceIsLookup ==
  ASSUME NEW w, IsLookup(w), w.step # "done", NEW name
  PROVE  IsLookup(Advance(w, name))
<1>1. PICK x : x = Advance(w, name)
  OBVIOUS
<1>2. IsWork(w) /\ IsWork(x) /\ Goes(w, name, x)
  BY <1>1, AdvanceIsWork, AdvanceGoes DEF IsLookup
<1>3. /\ w.ndc7 # << >> => IsMobile(w.ndc7) /\ Len(w.ndc7) = 7 /\ w.ndc3 = Take(w.ndc7, 3)
      /\ w.step # "tel" => IsMobile(w.ndc3) /\ Len(w.ndc3) = 3
      /\ w.again \in BOOLEAN
      /\ w.step \in SevenSteps => w.ndc7 # << >>
  BY <1>2 DEF IsLookup, IsWork, WorkSteps
<1>4. w.step # "tel" => x.ndc3 = w.ndc3 /\ x.ndc7 = w.ndc7 /\ x.again = w.again
  BY <1>2 DEF Goes
<1>5. CASE w.step = "tel"
  <2>1. x.step = "done" /\ x.ndc3 = << >> /\ x.ndc7 = << >> /\ x.again = FALSE
    BY <1>2, <1>5 DEF Goes
  <2>2. IsLookup(x)
    BY <1>2, <2>1 DEF IsLookup, SevenSteps
  <2> QED
    BY <1>1, <2>2
<1>6. CASE w.step = "location7" \/ w.step = "location3"
  <2>1. \/ x.step = "location3" /\ x.digits = w.ndc3
        \/ x.step = "operator7" /\ x.digits = w.ndc7
    BY <1>2, <1>6 DEF Goes
  <2>2. w.step \in SevenSteps /\ w.step # "tel"
    BY <1>6 DEF SevenSteps
  <2>3. IsLookup(x)
    BY <1>2, <1>3, <1>4, <2>1, <2>2 DEF IsLookup, SevenSteps
  <2> QED
    BY <1>1, <2>3
<1>7. CASE w.step = "operator7" \/ w.step = "operator3"
  <2>1. \/ x.step = "operator3" /\ x.digits = w.ndc3
        \/ x.step = "operator" /\ x.digits = w.ndc7 /\ w.again
        \/ x.step = "done"
    BY <1>2, <1>7 DEF Goes
  <2>2. w.step \in SevenSteps /\ w.step # "tel"
    BY <1>7 DEF SevenSteps
  <2>3. IsLookup(x)
    BY <1>2, <1>3, <1>4, <2>1, <2>2 DEF IsLookup, SevenSteps
  <2> QED
    BY <1>1, <2>3
<1>8. CASE w.step = "operator"
  <2>1. x.step = "done" /\ w.step # "tel"
    BY <1>2, <1>8 DEF Goes
  <2>2. IsLookup(x)
    BY <1>2, <1>3, <1>4, <2>1 DEF IsLookup, SevenSteps
  <2> QED
    BY <1>1, <2>2
<1> QED
  BY <1>2, <1>5, <1>6, <1>7, <1>8 DEF IsWork, WorkSteps, SevenSteps

\* The digits of each lookup that is not one of an area code.
LEMMA LookupDigits ==
  ASSUME NEW w, IsLookup(w), w.step # "tel", w.step # "done"
  PROVE  /\ IsMobile(w.digits) /\ IsMobile(w.ndc3) /\ Len(w.ndc3) = 3 /\ w.ndc3 # << >>
         /\ Take(w.ndc3, 3) = w.ndc3 /\ Take(Prefix(w), 3) = w.ndc3
         /\ w.step \in SevenSteps => w.ndc7 # << >> /\ Take(w.ndc7, 3) = w.ndc3
         /\ w.step = "operator" => w.digits = Prefix(w) /\ w.again = TRUE
<1>1. w.step \in SevenSteps \/ w.step = "operator"
  BY DEF IsLookup, IsWork, WorkSteps
<1>2. IsMobile(w.ndc3) /\ Len(w.ndc3) = 3 /\ (w.ndc7 # << >> => IsMobile(w.ndc7) /\ w.ndc3 = Take(w.ndc7, 3))
  BY <1>1 DEF IsLookup
<1>3. IsMobile(w.digits)
  BY <1>1, <1>2 DEF IsLookup, SevenSteps
<1>4. Take(w.ndc3, 3) = w.ndc3
  BY <1>2, TakeAllOfSeven DEF IsMobile
<1>5. w.ndc3 # << >>
  BY <1>2
<1> QED
  BY <1>1, <1>2, <1>3, <1>4, <1>5 DEF IsLookup, Prefix

LEMMA AdvanceFollows ==
  ASSUME NEW w, IsLookup(w), w.step # "done", NEW seen, seen \subseteq Seen, seen # {},
         Follows(w, seen), NEW name, MayFind(w, name, seen)
  PROVE  Follows(Advance(w, name), seen)
<1>1. PICK x : x = Advance(w, name)
  OBVIOUS
<1>2. Goes(w, name, x)
  BY <1>1, AdvanceGoes DEF IsLookup
<1> DEFINE d == w.ndc7
<1>3. CASE w.step = "tel"
  <2>1. \E v \in seen : name = AreaOf(v, w.digits)
    BY <1>3 DEF MayFind, Name
  <2>2. /\ x.step = "done" /\ x.digits = w.digits /\ x.location = name
        /\ x.ndc7 = << >> /\ x.again = FALSE
    BY <1>2, <1>3 DEF Goes
  <2>3. Follows(x, seen)
    BY <2>1, <2>2 DEF Follows
  <2> QED
    BY <1>1, <2>3
<1>4. CASE w.step = "location7"
  <2>1. d # << >> /\ w.digits = d
    BY <1>4 DEF IsLookup, SevenSteps
  <2>2. \/ name = TextPlace(d) /\ name # << >>
        \/ TextPlace(d) = << >> /\ \E v \in seen : name = CityOf(v, d)
    BY <1>4, <2>1 DEF MayFind, Name, TextFor
  <2>3. CASE name = << >>
    <3>1. x.step = "location3" /\ x.ndc7 = d
      BY <1>2, <1>4, <2>3 DEF Goes
    <3>2. TextPlace(d) = << >> /\ \E v \in seen : CityOf(v, d) = << >>
      BY <2>2, <2>3
    <3>3. Follows(x, seen)
      BY <3>1, <3>2 DEF Follows
    <3> QED
      BY <1>1, <3>3
  <2>4. CASE name # << >>
    <3>1. x.step = "operator7" /\ x.ndc7 = d /\ x.location = name
      BY <1>2, <1>4, <2>4 DEF Goes
    <3>2. name \in PlacesOf(d, seen)
      <4>1. PICK v \in seen : \/ name = TextPlace(d) /\ name # << >>
                              \/ TextPlace(d) = << >> /\ name = CityOf(v, d) /\ name # << >>
        BY <2>2, <2>4
      <4> QED
        BY <4>1, PlaceIs
    <3>3. Follows(x, seen)
      BY <3>1, <3>2 DEF Follows
    <3> QED
      BY <1>1, <3>3
  <2> QED
    BY <2>3, <2>4
<1>5. CASE w.step = "location3"
  <2>1. w.digits = w.ndc3 /\ Len(w.ndc3) = 3 /\ Take(d, 3) = w.ndc3
    BY <1>5, LookupDigits DEF IsLookup, SevenSteps
  <2>2. PICK v \in seen : TextPlace(d) = << >> /\ CityOf(v, d) = << >>
    BY <1>5 DEF Follows
  <2>3. \A u \in seen : CityOf(u, w.ndc3) = << >>
    BY <2>1, CityOfThree
  <2>4. name = TextPlace(Take(d, 3))
    BY <1>5, <2>1, <2>3 DEF MayFind, Name, TextFor
  <2>5. name \in PlacesOf(d, seen)
    BY <2>2, <2>4, PlaceIs
  <2>6. x.step = "operator7" /\ x.ndc7 = d /\ x.location = name
    BY <1>2, <1>5 DEF Goes
  <2>7. Follows(x, seen)
    BY <2>5, <2>6 DEF Follows
  <2> QED
    BY <1>1, <2>7
<1>6. CASE w.step = "operator7"
  <2>1. d # << >> /\ w.digits = d /\ w.location \in PlacesOf(d, seen) /\ w.ndc3 # << >>
    BY <1>6, LookupDigits DEF IsLookup, SevenSteps, Follows
  <2>2. \/ name = TextOperator(d) /\ name # << >>
        \/ TextOperator(d) = << >> /\ \E v \in seen : name = OperatorOf(v, d)
    BY <1>6, <2>1 DEF MayFind, Name, TextFor
  <2>3. CASE name = << >>
    <3>1. x.step = "operator3" /\ x.ndc7 = d /\ x.location = w.location
      BY <1>2, <1>6, <2>3 DEF Goes
    <3>2. TextOperator(d) = << >> /\ \E v \in seen : OperatorOf(v, d) = << >>
      BY <2>2, <2>3
    <3>3. Follows(x, seen)
      BY <2>1, <3>1, <3>2 DEF Follows
    <3> QED
      BY <1>1, <3>3
  <2>4. CASE name # << >>
    <3>1. /\ x.step = (IF w.again THEN "operator" ELSE "done") /\ x.location = w.location
          /\ x.operator = name /\ x.ndc7 = d /\ x.ndc3 = w.ndc3 /\ x.again = w.again
      BY <1>2, <1>6, <2>4 DEF Goes
    <3>2. name \in OperatorsOf(d, seen)
      <4>1. PICK v \in seen : \/ name = TextOperator(d) /\ name # << >>
                              \/ TextOperator(d) = << >> /\ name = OperatorOf(v, d) /\ name # << >>
        BY <2>2, <2>4
      <4> QED
        BY <4>1, OperatorIs
    <3>3. CASE w.again
      <4>1. x.step = "operator"
        BY <3>1, <3>3
      <4>2. Follows(x, seen)
        BY <2>1, <3>1, <4>1 DEF Follows
      <4> QED
        BY <1>1, <4>2
    <3>4. CASE ~w.again
      <4>1. x.step = "done" /\ ~x.again
        BY <3>1, <3>4
      <4>2. Follows(x, seen)
        BY <2>1, <3>1, <3>2, <4>1 DEF Follows
      <4> QED
        BY <1>1, <4>2
    <3> QED
      BY <3>3, <3>4
  <2> QED
    BY <2>3, <2>4
<1>7. CASE w.step = "operator3"
  <2>1. /\ d # << >> /\ w.digits = w.ndc3 /\ Take(d, 3) = w.ndc3 /\ w.ndc3 # << >>
        /\ w.location \in PlacesOf(d, seen)
    BY <1>7, LookupDigits DEF IsLookup, SevenSteps, Follows
  <2>2. PICK v \in seen : TextOperator(d) = << >> /\ OperatorOf(v, d) = << >>
    BY <1>7 DEF Follows
  <2> DEFINE named == IF name # << >> THEN name ELSE HardCoded(w.ndc3)
  <2>3. /\ x.step = (IF w.again THEN "operator" ELSE "done") /\ x.location = w.location
        /\ x.operator = named /\ x.ndc7 = d /\ x.ndc3 = w.ndc3 /\ x.again = w.again
    BY <1>2, <1>7 DEF Goes
  <2>4. named \in OperatorsOf(d, seen)
    <3>1. PICK u \in seen :
              \/ name = TextOperator(w.ndc3) /\ name # << >>
              \/ TextOperator(w.ndc3) = << >> /\ name = OperatorOf(u, w.ndc3)
      BY <1>7, <2>1 DEF MayFind, Name, TextFor
    <3>2. \/ named = TextOperator(Take(d, 3)) /\ named # << >>
          \/ TextOperator(Take(d, 3)) = << >> /\ named = OperatorOf(u, Take(d, 3)) /\ named # << >>
          \/ /\ TextOperator(Take(d, 3)) = << >> /\ OperatorOf(u, Take(d, 3)) = << >>
             /\ named = HardCoded(Take(d, 3))
      BY <2>1, <3>1
    <3> HIDE DEF named
    <3> QED
      BY <2>2, <3>2, OperatorIs
  <2> HIDE DEF named
  <2>5. CASE w.again
    <3>1. x.step = "operator"
      BY <2>3, <2>5
    <3>2. Follows(x, seen)
      BY <2>1, <2>3, <3>1 DEF Follows
    <3> QED
      BY <1>1, <3>2
  <2>6. CASE ~w.again
    <3>1. x.step = "done" /\ ~x.again
      BY <2>3, <2>6
    <3>2. Follows(x, seen)
      BY <2>1, <2>3, <2>4, <3>1 DEF Follows
    <3> QED
      BY <1>1, <3>2
  <2> QED
    BY <2>5, <2>6
<1>8. CASE w.step = "operator"
  <2> DEFINE p == Prefix(w)
             named == IF name # << >> THEN name ELSE HardCoded(w.ndc3)
  <2>1. w.digits = p /\ Take(p, 3) = w.ndc3 /\ w.ndc3 # << >> /\ w.again = TRUE
    BY <1>8, LookupDigits
  <2>2. /\ x.step = "done" /\ x.location = w.location /\ x.operator = named
        /\ x.ndc7 = d /\ x.ndc3 = w.ndc3 /\ x.again = TRUE
    BY <1>2, <1>8, <2>1 DEF Goes
  <2>3. d # << >> => w.location \in PlacesOf(d, seen)
    BY <1>8 DEF Follows
  <2>4. named \in PrefixOperatorsOf(p, seen)
    <3> HIDE DEF p
    <3>1. PICK u \in seen :
              \/ name = TextOperator(p) /\ name # << >>
              \/ TextOperator(p) = << >> /\ name = OperatorOf(u, p)
      BY <1>8, <2>1 DEF MayFind, Name, TextFor
    <3>2. \/ named = TextOperator(p) /\ named # << >>
          \/ TextOperator(p) = << >> /\ named = OperatorOf(u, p) /\ named # << >>
          \/ TextOperator(p) = << >> /\ OperatorOf(u, p) = << >> /\ named = HardCoded(Take(p, 3))
      BY <2>1, <3>1
    <3> HIDE DEF named
    <3> QED
      BY <3>2, PrefixOperatorIs
  <2> HIDE DEF named, p
  <2>5. Prefix(x) = p
    BY <2>2 DEF Prefix, p
  <2>6. Follows(x, seen)
    BY <2>1, <2>2, <2>3, <2>4, <2>5 DEF Follows
  <2> QED
    BY <1>1, <2>6
<1> QED
  BY <1>3, <1>4, <1>5, <1>6, <1>7, <1>8 DEF IsLookup, IsWork, WorkSteps, SevenSteps

LEMMA BeginsFollow ==
  ASSUME NEW w, Begins(w), NEW seen
  PROVE  Follows(w, seen)
<1>1. w.step \in {"tel", "location7", "done"} \/ (w.step = "operator" /\ w.ndc7 = << >>)
  BY DEF Begins
<1>2. w.step = "done" => w.ndc7 = << >> /\ ~w.again /\ w.digits = << >>
  BY DEF Begins
<1> QED
  BY <1>1, <1>2 DEF Follows

\* What has been found stays found when an update is seen.
LEMMA FollowsMore ==
  ASSUME NEW w, NEW seen, NEW more, seen \subseteq more, Follows(w, seen)
  PROVE  Follows(w, more)
<1>1. \A d : PlacesOf(d, seen) \subseteq PlacesOf(d, more)
  BY DEF PlacesOf
<1>2. \A d : OperatorsOf(d, seen) \subseteq OperatorsOf(d, more)
  BY DEF OperatorsOf
<1>3. \A d : PrefixOperatorsOf(d, seen) \subseteq PrefixOperatorsOf(d, more)
  BY DEF PrefixOperatorsOf
<1>4. w.step = "location3" => TextPlace(w.ndc7) = << >> /\ \E v \in more : CityOf(v, w.ndc7) = << >>
  BY DEF Follows
<1>5. w.step = "operator3" => TextOperator(w.ndc7) = << >> /\ \E v \in more : OperatorOf(v, w.ndc7) = << >>
  BY DEF Follows
<1>6. w.step = "done" /\ w.ndc3 = << >> /\ w.digits # << >> =>
         w.location \in {AreaOf(v, w.digits) : v \in more}
  BY DEF Follows
<1> QED
  BY <1>1, <1>2, <1>3, <1>4, <1>5, <1>6 DEF Follows

-----------------------------------------------------------------------------
(* The names that a query ends with are published. *)

\* What holds of the query of a thread: nothing current has escaped it, the text has been found
\* wanting before the .dat file is opened, and its names follow from the lookups before.
Sound(q) ==
  /\ IsLookup(q.work)
  /\ q.seen \subseteq Seen
  /\ q.at # "idle" => Current \in q.seen
  /\ q.at = "read" => q.file \in q.seen
  /\ q.at = "answer" => q.work.step = "done"
  /\ q.at \in {"text", "parse"} => q.work.step # "tel"
  /\ ~raced =>
       /\ q.at \in {"open", "read"} /\ q.work.step # "tel" => TextFor(q.work) = << >>
       /\ ~q.guessed => Follows(q.work, q.seen)

NamesInv == \A t \in Threads : Sound(query[t])

LEMMA TextStays ==
  ASSUME text' = text
  PROVE  /\ \A d : TextPlace(d)' = TextPlace(d) /\ TextOperator(d)' = TextOperator(d)
         /\ \A w, seen : Follows(w, seen)' <=> Follows(w, seen)
         /\ \A w : TextFor(w)' = TextFor(w)
<1>1. \A d : TextRecord(d)' = TextRecord(d)
  BY DEF TextRecord
<1>2. \A d : TextPlace(d)' = TextPlace(d) /\ TextOperator(d)' = TextOperator(d)
  BY <1>1 DEF TextPlace, TextOperator, TextName
<1>3. \A d, seen : /\ PlacesOf(d, seen)' = PlacesOf(d, seen)
                   /\ OperatorsOf(d, seen)' = OperatorsOf(d, seen)
                   /\ PrefixOperatorsOf(d, seen)' = PrefixOperatorsOf(d, seen)
  BY <1>2 DEF PlacesOf, OperatorsOf, PrefixOperatorsOf
<1>4. \A w, seen : Follows(w, seen)' <=> Follows(w, seen)
  BY <1>2, <1>3 DEF Follows
<1>5. \A w : TextFor(w)' = TextFor(w)
  BY <1>2 DEF TextFor
<1> QED
  BY <1>2, <1>4, <1>5

LEMMA SoundStays ==
  ASSUME text' = text, sandbox' = sandbox, raced => raced', NEW q, Sound(q)
  PROVE  Sound(q)'
<1>1. Current' = Current
  BY DEF Current
<1> QED
  BY <1>1, TextStays DEF Sound

\* One thread goes on with p.
LEMMA OneGoesOn ==
  ASSUME TypeInv, NamesInv, text' = text, sandbox' = sandbox, raced => raced',
         NEW t \in Threads, NEW p, Sound(p), query' = [query EXCEPT ![t] = p]
  PROVE  NamesInv'
<1>1. \A u \in Threads : query'[u] = p \/ query'[u] = query[u]
  BY DEF TypeInv
<1>2. \A u \in Threads : Sound(query[u])
  BY DEF NamesInv
<1>3. ASSUME NEW u \in Threads PROVE Sound(query[u])'
  <2>1. PICK r : r = query'[u] /\ Sound(r)
    BY <1>1, <1>2
  <2>2. Sound(r)'
    BY <2>1, SoundStays
  <2> QED
    BY <2>1, <2>2
<1> QED
  BY <1>3 DEF NamesInv

\* A query that begins its next lookup, or the answer.
LEMMA BeginIsSound ==
  ASSUME NEW q, DOMAIN q = QueryFields, Sound(q), q.at # "idle", NEW w, IsLookup(w), NEW g,
         ~raced /\ ~g => Follows(w, q.seen)
  PROVE  Sound([Begin(q, w) EXCEPT !.guessed = g])
<1> DEFINE p == [Begin(q, w) EXCEPT !.guessed = g]
<1>1. /\ p.work = w /\ p.seen = q.seen /\ p.guessed = g
      /\ p.at = IF w.step = "done" THEN "answer" ELSE IF w.step = "tel" THEN "open" ELSE "text"
  BY DEF Begin, QueryFields
<1> HIDE DEF p
<1>2. q.seen \subseteq Seen /\ Current \in q.seen
  BY DEF Sound
<1>3. Sound(p)
  BY <1>1, <1>2 DEF Sound
<1> QED
  BY <1>3 DEF p

LEMMA NamesStep ==
  ASSUME TypeInv, LoadInv, LoadedIsWhole, RecordsInv, NamesInv, NEW t \in Threads, Step(t)
  PROVE  NamesInv'
<1> DEFINE q == query[t]
<1>1. /\ DOMAIN q = QueryFields /\ Sound(q) /\ IsQuery(q, Len(text))
      /\ Current \in Seen
  BY DEF TypeInv, IsQuery, NamesInv, Current, Seen, Versions
<1>2. /\ IsLookup(q.work) /\ q.seen \subseteq Seen
      /\ q.at # "idle" => Current \in q.seen /\ q.seen # {}
      /\ q.at \in Busy => q.work.step # "done"
  BY <1>1 DEF Sound, IsQuery
<1> HIDE DEF q
<1>3. ASSUME NEW p, query' = [query EXCEPT ![t] = p], Sound(p),
             text' = text, sandbox' = sandbox, raced => raced'
      PROVE  NamesInv'
  BY <1>3, OneGoesOn
<1>b. ASSUME NEW w, IsLookup(w), q.at # "idle", ~raced /\ ~q.guessed => Follows(w, q.seen)
      PROVE  Sound(Begin(q, w))
  <2>1. Sound([Begin(q, w) EXCEPT !.guessed = q.guessed])
    BY <1>1, <1>b, BeginIsSound
  <2>2. [Begin(q, w) EXCEPT !.guessed = q.guessed] = Begin(q, w)
    BY <1>1 DEF Begin, QueryFields
  <2> QED
    BY <2>1, <2>2
<1>n. ASSUME q.at \in Busy, NEW name, ~raced /\ ~q.guessed => MayFind(q.work, name, q.seen)
      PROVE  Sound(Begin(q, Advance(q.work, name)))
  <2>1. q.at # "idle" /\ q.work.step # "done"
    BY <1>2, <1>n DEF Busy
  <2>2. IsLookup(Advance(q.work, name))
    BY <1>2, <2>1, AdvanceIsLookup
  <2>3. ~raced /\ ~q.guessed => Follows(Advance(q.work, name), q.seen)
    BY <1>1, <1>2, <1>n, <2>1, AdvanceFollows DEF Sound
  <2> QED
    BY <1>b, <2>1, <2>2, <2>3
<1>4. CASE Query(t)
  <2>1. PICK ask, iso : query' = [query EXCEPT ![t] = [Idle EXCEPT !.at = "number", !.ask = ask,
                                                          !.iso = iso, !.seen = {Current}]]
    BY <1>4 DEF Query
  <2> DEFINE p == [Idle EXCEPT !.at = "number", !.ask = ask, !.iso = iso, !.seen = {Current}]
  <2>2. p.at = "number" /\ p.seen = {Current} /\ p.work = Done(<< >>)
    BY DEF Idle
  <2> HIDE DEF p
  <2>3. IsLookup(p.work) /\ Follows(p.work, p.seen)
    BY <2>2, DoneBegins, BeginsFollow DEF Begins
  <2>4. Sound(p)
    BY <1>1, <2>2, <2>3 DEF Sound
  <2> QED
    BY <1>3, <1>4, <2>1, <2>4 DEF Query, p
<1>5. CASE NextNumber(t)
  <2>1. PICK p : query' = [query EXCEPT ![t] = p] /\ Sound(p)
    <3>1. CASE Len(q.answers) + 1 > Len(q.ask.numbers)
      <4>1. query' = [query EXCEPT ![t] = Idle]
        BY <1>5, <3>1 DEF NextNumber, q
      <4>2. Idle.at = "idle" /\ Idle.seen = {} /\ Idle.work = Done(<< >>)
        BY DEF Idle
      <4>3. IsLookup(Idle.work) /\ Follows(Idle.work, Idle.seen)
        BY <4>2, DoneBegins, BeginsFollow DEF Begins
      <4>4. Sound(Idle)
        BY <4>2, <4>3 DEF Sound
      <4> QED
        BY <4>1, <4>4
    <3>2. CASE ~(Len(q.answers) + 1 > Len(q.ask.numbers))
      <4>1. PICK number, description : \E w \in GetNumberLocation(number, q.ask.exact, q.iso, description) :
                query' = [query EXCEPT ![t] = Begin(q, w)]
        BY <1>5, <3>2 DEF NextNumber, q
      <4>2. PICK w : query' = [query EXCEPT ![t] = Begin(q, w)] /\ Begins(w)
        BY <4>1, LocationBegins
      <4>3. q.at # "idle" /\ IsLookup(w) /\ Follows(w, q.seen)
        BY <1>5, <4>2, BeginsFollow DEF NextNumber, Begins, q
      <4> QED
        BY <1>b, <4>2, <4>3
    <3> QED
      BY <3>1, <3>2
  <2> QED
    BY <1>3, <1>5, <2>1 DEF NextNumber
<1>6. CASE QueryText(t)
  <2>1. q.at = "text" /\ q.work.step # "tel" /\ q.work.step # "done"
    BY <1>1, <1>2, <1>6 DEF QueryText, Sound, Busy, q
  <2>2. IsMobile(q.work.digits)
    BY <1>2, <2>1, LookupDigits
  <2>3. PICK p : query' = [query EXCEPT ![t] = p] /\ Sound(p)
    <3>1. CASE ~loaded
      <4>1. query' = [query EXCEPT ![t] = [q EXCEPT !.at = "parse", !.line = 1]]
        BY <1>6, <3>1 DEF QueryText, q
      <4>2. Sound([q EXCEPT !.at = "parse", !.line = 1])
        BY <1>1, <1>2, <2>1 DEF Sound, QueryFields
      <4> QED
        BY <4>1, <4>2
    <3>2. CASE loaded /\ TextResult(q.work) # << >>
      <4>1. query' = [query EXCEPT ![t] = Begin(q, Advance(q.work, TextResult(q.work)))]
        BY <1>6, <3>2 DEF QueryText, q
      <4>2. ~raced => TextResult(q.work) = TextFor(q.work)
        BY <2>2, <3>2, TextReads
      <4>3. ~raced => MayFind(q.work, TextResult(q.work), q.seen)
        BY <2>1, <3>2, <4>2 DEF MayFind
      <4>4. Sound(Begin(q, Advance(q.work, TextResult(q.work))))
        BY <1>n, <2>1, <4>3 DEF Busy
      <4> QED
        BY <4>1, <4>4
    <3>3. CASE loaded /\ TextResult(q.work) = << >>
      <4>1. query' = [query EXCEPT ![t] = [q EXCEPT !.at = "open"]]
        BY <1>6, <3>3 DEF QueryText, q
      <4>2. ~raced => TextFor(q.work) = << >>
        BY <2>2, <3>3, TextReads
      <4>3. Sound([q EXCEPT !.at = "open"])
        BY <1>1, <1>2, <2>1, <4>2 DEF Sound, QueryFields
      <4> QED
        BY <4>1, <4>3
    <3> QED
      BY <3>1, <3>2, <3>3
  <2>4. text' = text /\ sandbox' = sandbox /\ (raced => raced')
    BY <1>6 DEF QueryText
  <2> QED
    BY <1>3, <2>3, <2>4
<1>7. CASE Parse(t)
  <2>1. q.at = "parse" /\ q.work.step # "tel"
    BY <1>1, <1>7 DEF Parse, Parsing, Sound, q
  <2>2. PICK p : query' = [query EXCEPT ![t] = p] /\ Sound(p)
    <3>1. CASE ~ParseVersion(text)
      <4>1. query' = [query EXCEPT ![t] = [q EXCEPT !.at = "open", !.line = 0]]
        BY <1>7, <3>1 DEF Parse, LoadFailed, TypeInv, q
      <4>2. TextFor(q.work) = << >>
        BY <3>1, NoText DEF TextFor
      <4>3. Sound([q EXCEPT !.at = "open", !.line = 0])
        BY <1>1, <1>2, <2>1, <4>2 DEF Sound, QueryFields
      <4> QED
        BY <4>1, <4>3
    <3>2. CASE ParseVersion(text)
      <4>1. query' = [query EXCEPT ![t] = IF q.line = Len(text) THEN [q EXCEPT !.at = "text", !.line = 0]
                                          ELSE [q EXCEPT !.line = @ + 1]]
        BY <1>7, <3>2 DEF Parse, q
      <4>2. Sound([q EXCEPT !.at = "text", !.line = 0])
        BY <1>1, <1>2, <2>1 DEF Sound, QueryFields
      <4>3. Sound([q EXCEPT !.line = @ + 1])
        BY <1>1, <1>2, <2>1 DEF Sound, QueryFields
      <4> QED
        BY <4>1, <4>2, <4>3
    <3> QED
      BY <3>1, <3>2
  <2> QED
    BY <1>3, <1>7, <2>2 DEF Parse
<1>8. CASE OpenDataFile(t)
  <2>1. q.at = "open" /\ q.at # "idle"
    BY <1>8 DEF OpenDataFile, q
  <2>2. ~raced => (q.work.step # "tel" => TextFor(q.work) = << >>)
    BY <1>1, <2>1 DEF Sound
  <2>3. PICK p : query' = [query EXCEPT ![t] = p] /\ Sound(p)
    <3>1. CASE Current = "none"
      <4>1. query' = [query EXCEPT ![t] = Begin(q, Advance(q.work, << >>))]
        BY <1>8, <3>1 DEF OpenDataFile, q
      <4>2. Name("none", q.work) = << >>
        BY DEF Name, AreaOf, CityOf, OperatorOf
      <4>3. ~raced => MayFind(q.work, << >>, q.seen)
        BY <1>2, <2>1, <2>2, <3>1, <4>2 DEF MayFind
      <4>4. Sound(Begin(q, Advance(q.work, << >>)))
        BY <1>n, <2>1, <4>3 DEF Busy
      <4> QED
        BY <4>1, <4>4
    <3>2. CASE Current # "none"
      <4>1. query' = [query EXCEPT ![t] = [q EXCEPT !.at = "read", !.file = Current]]
        BY <1>8, <3>2 DEF OpenDataFile, q
      <4>2. Sound([q EXCEPT !.at = "read", !.file = Current])
        BY <1>1, <1>2, <2>1, <2>2 DEF Sound, QueryFields
      <4> QED
        BY <4>1, <4>2
    <3> QED
      BY <3>1, <3>2
  <2> QED
    BY <1>3, <1>8, <2>3 DEF OpenDataFile
<1>9. CASE ReadDataFile(t)
  <2>1. q.at = "read" /\ q.at # "idle" /\ q.at \in Busy /\ q.work.step # "done"
    BY <1>2, <1>9 DEF ReadDataFile, Busy, q
  <2>2. q.file \in Versions /\ q.file \in q.seen
    BY <1>1, <2>1 DEF IsQuery, Sound
  <2> DEFINE Reads(junk, name) ==
          LET found == DatResult(Dat[q.file], q.work, junk)
              wrong == q.stale \/ found # DatResult(Dat[q.file], q.work, << >>)
          IN /\ ~q.stale => name = found
             /\ query' = [query EXCEPT ![t] = [Begin(q, Advance(q.work, name))
                                                EXCEPT !.guessed = q.guessed \/ wrong]]
  <2>a. PICK junk \in Junk : \E name : Reads(junk, name)
    BY <1>9 DEF ReadDataFile, q
  <2>3. PICK name : Reads(junk, name)
    BY <2>a
  <2> DEFINE g == q.guessed \/ q.stale \/ DatResult(Dat[q.file], q.work, junk) # DatResult(Dat[q.file], q.work, << >>)
             x == Advance(q.work, name)
             p == [Begin(q, x) EXCEPT !.guessed = g]
  <2>4. query' = [query EXCEPT ![t] = p]
    BY <2>3
  <2>5. ~g => ~q.guessed /\ name = Name(q.file, q.work)
    <3>1. DatResult(Dat[q.file], q.work, << >>) = Name(q.file, q.work)
      BY <1>2, <2>1, <2>2, ReadsBack
    <3> QED
      BY <2>3, <3>1
  <2>6. ~raced /\ ~g => MayFind(q.work, name, q.seen)
    BY <1>1, <2>1, <2>2, <2>5 DEF MayFind, Sound
  <2>7. IsLookup(x)
    BY <1>2, <2>1, AdvanceIsLookup
  <2>8. ~raced /\ ~g => Follows(x, q.seen)
    BY <1>1, <1>2, <2>1, <2>5, <2>6, AdvanceFollows DEF Sound
  <2> HIDE DEF g, x
  <2>9. Sound(p)
    BY <1>1, <2>1, <2>7, <2>8, BeginIsSound
  <2> QED
    BY <1>3, <1>9, <2>4, <2>9 DEF ReadDataFile
<1>10. CASE Answer(t)
  <2>1. q.at = "answer"
    BY <1>10 DEF Answer, q
  <2>2. PICK answers : query' = [query EXCEPT ![t] = [q EXCEPT !.at = "number", !.work = Done(<< >>),
                                                              !.answers = answers]]
    BY <1>10 DEF Answer, q
  <2>3. \A seen : IsLookup(Done(<< >>)) /\ Follows(Done(<< >>), seen)
    BY DoneBegins, BeginsFollow DEF Begins
  <2>4. Sound([q EXCEPT !.at = "number", !.work = Done(<< >>), !.answers = answers])
    BY <1>1, <1>2, <2>1, <2>3 DEF Sound, QueryFields
  <2> QED
    BY <1>3, <1>10, <2>2, <2>4 DEF Answer
<1> QED
  BY <1>4, <1>5, <1>6, <1>7, <1>8, <1>9, <1>10 DEF Step

LEMMA NamesUpdate ==
  ASSUME TypeInv, NamesInv, WriteBufferToFile \/ FinishWrite
  PROVE  NamesInv'
<1>1. PICK state \in Seen : query' = [t \in Threads |-> Seeing(t, state)] /\ Current' = state
  BY DEF WriteBufferToFile, FinishWrite, Current, Seen, Versions
<1>2. text' = text /\ raced' = raced
  BY DEF WriteBufferToFile, FinishWrite
<1>3. ASSUME NEW t \in Threads PROVE Sound(query[t])'
  <2>1. PICK q : q = query[t] /\ DOMAIN q = QueryFields /\ Sound(q)
    BY DEF TypeInv, IsQuery, NamesInv
  <2>2. PICK p : p = query'[t] /\ p = Seeing(t, state)
    BY <1>1
  <2>3. CASE q.at = "idle"
    <3>1. p = q
      BY <2>1, <2>2, <2>3 DEF Seeing
    <3>2. Sound(q)'
      BY <1>2, <2>1, <2>3, TextStays DEF Sound
    <3> QED
      BY <2>2, <3>1, <3>2
  <2>4. CASE q.at # "idle"
    <3>1. /\ p.at = q.at /\ p.work = q.work /\ p.file = q.file /\ p.guessed = q.guessed
          /\ p.seen = q.seen \cup {state}
      BY <2>1, <2>2, <2>4 DEF Seeing, QueryFields
    <3>2. Follows(q.work, q.seen) => Follows(q.work, p.seen)
      BY <3>1, FollowsMore
    <3>3. Sound(p)'
      BY <1>1, <1>2, <2>1, <3>1, <3>2, TextStays DEF Sound
    <3> QED
      BY <2>2, <3>3
  <2> QED
    BY <2>3, <2>4
<1> QED
  BY <1>3 DEF NamesInv

LEMMA NamesInvariant == Spec => []NamesInv
<1>1. Init => NamesInv
  <2> SUFFICES ASSUME Init PROVE NamesInv
    OBVIOUS
  <2>1. Idle.at = "idle" /\ Idle.seen = {} /\ Idle.work = Done(<< >>)
    BY DEF Idle
  <2>2. IsLookup(Idle.work) /\ Follows(Idle.work, Idle.seen)
    BY <2>1, DoneBegins, BeginsFollow DEF Begins
  <2>3. Sound(Idle)
    BY <2>1, <2>2 DEF Sound
  <2> QED
    BY <2>3 DEF Init, NamesInv
<1>2. TypeInv /\ LoadInv /\ LoadedIsWhole /\ RecordsInv /\ NamesInv /\ [Next]_vars => NamesInv'
  <2> SUFFICES ASSUME TypeInv, LoadInv, LoadedIsWhole, RecordsInv, NamesInv, [Next]_vars PROVE NamesInv'
    OBVIOUS
  <2>1. CASE UNCHANGED vars
    <3>1. UNCHANGED <<text, sandbox, raced, query>>
      BY <2>1 DEF vars
    <3>2. ASSUME NEW t \in Threads PROVE Sound(query[t])'
      BY <3>1, SoundStays DEF NamesInv
    <3> QED
      BY <3>1, <3>2 DEF NamesInv
  <2> QED
    BY <2>1, NamesStep, NamesUpdate DEF Next
<1> QED
  BY <1>1, <1>2, TypeInvariant, LoadInvariant, LoadedWhole, RecordsInvariant, PTL DEF Spec

\* Whatever lookups a query takes, in text and .dat file, with seven digits and three, and
\* whatever updates and torn files fall between them, the names it ends with are published
\* for the digits that it looks up.
THEOREM NamesPublished == Spec => []NamesArePublished
<1>1. NamesInv => NamesArePublished
  <2> SUFFICES ASSUME NamesInv, NEW t \in Threads, query[t].at = "answer", ~query[t].guessed, ~raced
               PROVE  Follows(query[t].work, query[t].seen) /\ query[t].work.step = "done"
    BY DEF NamesArePublished, Follows, Prefix
  <2> QED
    BY DEF NamesInv, Sound
<1> QED
  BY <1>1, NamesInvariant, PTL

-----------------------------------------------------------------------------
(* A number by its characters. *)

LEMMA PrefixElements ==
  ASSUME NEW p \in Seq(Dialled), NEW s \in Seq(Dialled)
  PROVE  IsPrefix(p, s) <=> Len(p) <= Len(s) /\ \A i \in 1..Len(p) : p[i] = s[i]
<1>1. /\ Len(p) \in Nat /\ Len(s) \in Nat
      /\ SubSeq(p, 1, Len(p)) = [i \in 1..Len(p) |-> p[i]]
      /\ SubSeq(s, 1, Len(p)) = [i \in 1..Len(p) |-> s[i]]
  OBVIOUS
<1>2. SubSeq(p, 1, Len(p)) = SubSeq(s, 1, Len(p)) <=> \A i \in 1..Len(p) : p[i] = s[i]
  BY <1>1
<1> QED
  BY <1>2 DEF IsPrefix

LEMMA HeadElements ==
  ASSUME NEW s \in Seq(Dialled)
  PROVE  /\ IsPrefix(<<8, 6>>, s) <=> Len(s) >= 2 /\ s[1] = 8 /\ s[2] = 6
         /\ IsPrefix(<<Plus, 8, 6>>, s) <=> Len(s) >= 3 /\ s[1] = Plus /\ s[2] = 8 /\ s[3] = 6
         /\ IsPrefix(<<0, 0, 8, 6>>, s) <=> Len(s) >= 4 /\ s[1] = 0 /\ s[2] = 0 /\ s[3] = 8 /\ s[4] = 6
         /\ IsPrefix(<<0, 0>>, s) <=> Len(s) >= 2 /\ s[1] = 0 /\ s[2] = 0
         /\ IsPrefix(<< 0 >>, s) <=> Len(s) >= 1 /\ s[1] = 0
         /\ IsPrefix(<<Plus>>, s) <=> Len(s) >= 1 /\ s[1] = Plus
<1>1. IsPrefix(<<8, 6>>, s) <=> Len(s) >= 2 /\ s[1] = 8 /\ s[2] = 6
  <2> DEFINE p == <<8, 6>>
  <2>1. p \in Seq(Dialled) /\ Len(p) = 2 /\ p[1] = 8 /\ p[2] = 6 /\ Len(s) \in Nat
    BY DEF Dialled, Digit
  <2> HIDE DEF p
  <2>2. IsPrefix(p, s) <=> Len(p) <= Len(s) /\ \A i \in 1..Len(p) : p[i] = s[i]
    BY <2>1, PrefixElements, Zenon
  <2> QED
    BY <2>1, <2>2 DEF p
<1>2. IsPrefix(<<Plus, 8, 6>>, s) <=> Len(s) >= 3 /\ s[1] = Plus /\ s[2] = 8 /\ s[3] = 6
  <2> DEFINE p == <<Plus, 8, 6>>
  <2>1. p \in Seq(Dialled) /\ Len(p) = 3 /\ p[1] = Plus /\ p[2] = 8 /\ p[3] = 6 /\ Len(s) \in Nat
    BY DEF Dialled, Digit, Plus
  <2> HIDE DEF p
  <2>2. IsPrefix(p, s) <=> Len(p) <= Len(s) /\ \A i \in 1..Len(p) : p[i] = s[i]
    BY <2>1, PrefixElements, Zenon
  <2> QED
    BY <2>1, <2>2 DEF p
<1>3. IsPrefix(<<0, 0, 8, 6>>, s) <=> Len(s) >= 4 /\ s[1] = 0 /\ s[2] = 0 /\ s[3] = 8 /\ s[4] = 6
  <2> DEFINE p == <<0, 0, 8, 6>>
  <2>1. p \in Seq(Dialled) /\ Len(p) = 4 /\ p[1] = 0 /\ p[2] = 0 /\ p[3] = 8 /\ p[4] = 6 /\ Len(s) \in Nat
    BY DEF Dialled, Digit
  <2> HIDE DEF p
  <2>2. IsPrefix(p, s) <=> Len(p) <= Len(s) /\ \A i \in 1..Len(p) : p[i] = s[i]
    BY <2>1, PrefixElements, Zenon
  <2> QED
    BY <2>1, <2>2 DEF p
<1>4. IsPrefix(<<0, 0>>, s) <=> Len(s) >= 2 /\ s[1] = 0 /\ s[2] = 0
  <2> DEFINE p == <<0, 0>>
  <2>1. p \in Seq(Dialled) /\ Len(p) = 2 /\ p[1] = 0 /\ p[2] = 0 /\ Len(s) \in Nat
    BY DEF Dialled, Digit
  <2> HIDE DEF p
  <2>2. IsPrefix(p, s) <=> Len(p) <= Len(s) /\ \A i \in 1..Len(p) : p[i] = s[i]
    BY <2>1, PrefixElements, Zenon
  <2> QED
    BY <2>1, <2>2 DEF p
<1>5. IsPrefix(<< 0 >>, s) <=> Len(s) >= 1 /\ s[1] = 0
  <2> DEFINE p == << 0 >>
  <2>1. p \in Seq(Dialled) /\ Len(p) = 1 /\ p[1] = 0 /\ Len(s) \in Nat
    BY DEF Dialled, Digit
  <2> HIDE DEF p
  <2>2. IsPrefix(p, s) <=> Len(p) <= Len(s) /\ \A i \in 1..Len(p) : p[i] = s[i]
    BY <2>1, PrefixElements, Zenon
  <2> QED
    BY <2>1, <2>2 DEF p
<1>6. IsPrefix(<<Plus>>, s) <=> Len(s) >= 1 /\ s[1] = Plus
  <2> DEFINE p == <<Plus>>
  <2>1. p \in Seq(Dialled) /\ Len(p) = 1 /\ p[1] = Plus /\ Len(s) \in Nat
    BY DEF Dialled, Digit
  <2> HIDE DEF p
  <2>2. IsPrefix(p, s) <=> Len(p) <= Len(s) /\ \A i \in 1..Len(p) : p[i] = s[i]
    BY <2>1, PrefixElements, Zenon
  <2> QED
    BY <2>1, <2>2 DEF p
<1> QED
  BY <1>1, <1>2, <1>3, <1>4, <1>5, <1>6, Zenon

LEMMA DropType ==
  ASSUME NEW S, NEW s \in Seq(S), NEW n \in Nat, n <= Len(s)
  PROVE  /\ Drop(s, n) \in Seq(S) /\ Len(s) = n + Len(Drop(s, n)) /\ Len(Drop(s, n)) \in Nat
         /\ \A i \in 1..Len(Drop(s, n)) : Drop(s, n)[i] = s[n + i]
<1>1. \A i \in (n + 1)..Len(s) : s[i] \in S
  OBVIOUS
<1>2. /\ SubSeq(s, n + 1, Len(s)) \in Seq(S)
      /\ Len(SubSeq(s, n + 1, Len(s))) = IF n + 1 <= Len(s) THEN Len(s) - (n + 1) + 1 ELSE 0
      /\ \A i \in 1..(Len(s) - (n + 1) + 1) : SubSeq(s, n + 1, Len(s))[i] = s[n + 1 + i - 1]
  <2>1. n + 1 \in Int /\ Len(s) \in Int
    OBVIOUS
  <2> QED
    BY <1>1, <2>1, SubSeqProperties
<1> DEFINE d == Drop(s, n)
<1>3. /\ d \in Seq(S) /\ Len(d) = Len(s) - n
      /\ \A i \in 1..(Len(s) - n) : d[i] = s[n + i]
  BY <1>2 DEF Drop
<1> QED
  BY <1>3

LEMMA NotEmpty == ASSUME NEW S, NEW s \in Seq(S) PROVE s # << >> <=> Len(s) >= 1
<1>1. ASSUME s = << >> PROVE Len(s) = 0
  BY <1>1
<1>2. ASSUME Len(s) = 0 PROVE s = << >>
  BY <1>2
<1>3. Len(s) \in Nat
  OBVIOUS
<1> QED
  BY <1>1, <1>2, <1>3

LEMMA DigitElements ==
  ASSUME NEW s \in Seq(Dialled)
  PROVE  AreDigits(s) <=> Len(s) >= 1 /\ \A i \in 1..Len(s) : s[i] \in Digit
<1>1. AreDigits(s) => Len(s) >= 1 /\ \A i \in 1..Len(s) : s[i] \in Digit
  BY NotEmpty DEF AreDigits
<1>2. ASSUME Len(s) >= 1, \A i \in 1..Len(s) : s[i] \in Digit PROVE AreDigits(s)
  <2>1. s = [i \in 1..Len(s) |-> s[i]]
    OBVIOUS
  <2>2. [i \in 1..Len(s) |-> s[i]] \in Seq(Digit)
    BY <1>2
  <2>3. s # << >>
    BY <1>2, NotEmpty
  <2> QED
    BY <2>1, <2>2, <2>3, Zenon DEF AreDigits
<1> QED
  BY <1>1, <1>2

LEMMA DigitsDialled == ASSUME NEW s, AreDigits(s) PROVE s \in Seq(Dialled) /\ s \in Seq(Digit)
  BY DEF AreDigits, Dialled

LEMMA HeadLengths ==
  /\ Len(<<8, 6>>) = 2 /\ Len(<<Plus, 8, 6>>) = 3 /\ Len(<<0, 0, 8, 6>>) = 4
  /\ Len(<<0, 0>>) = 2 /\ Len(<< 0 >>) = 1 /\ Len(<<Plus>>) = 1
  OBVIOUS

\* s has the codes of China, and behind them r.
Coded(s, r) ==
  \/ Len(s) >= 3 /\ s[1] = Plus /\ s[2] = 8 /\ s[3] = 6 /\ r = Drop(s, 3)
  \/ Len(s) >= 2 /\ s[1] = 8 /\ s[2] = 6 /\ r = Drop(s, 2)
  \/ Len(s) >= 4 /\ s[1] = 0 /\ s[2] = 0 /\ s[3] = 8 /\ s[4] = 6 /\ r = Drop(s, 4)

LEMMA SubscriberElements ==
  ASSUME NEW s \in Seq(Dialled), NEW r
  PROVE  /\ r \in Subscribers(s) <=> r = s \/ Coded(s, r)
         /\ r \in Behind(ChinaCodes, s) <=> Coded(s, r)
         /\ r \in Behind({<<8, 6>>}, s) <=> Len(s) >= 2 /\ s[1] = 8 /\ s[2] = 6 /\ r = Drop(s, 2)
         /\ r \in Behind({<< 0 >>}, s) <=> Len(s) >= 1 /\ s[1] = 0 /\ r = Drop(s, 1)
<1>1. (\E c \in ChinaCodes : IsPrefix(c, s) /\ r = Drop(s, Len(c))) <=> Coded(s, r)
  <2>1. (\E c \in ChinaCodes : IsPrefix(c, s) /\ r = Drop(s, Len(c))) <=>
          \/ IsPrefix(<<Plus, 8, 6>>, s) /\ r = Drop(s, Len(<<Plus, 8, 6>>))
          \/ IsPrefix(<<8, 6>>, s) /\ r = Drop(s, Len(<<8, 6>>))
          \/ IsPrefix(<<0, 0, 8, 6>>, s) /\ r = Drop(s, Len(<<0, 0, 8, 6>>))
    BY Zenon DEF ChinaCodes
  <2> QED
    BY <2>1, HeadElements, HeadLengths DEF Coded
<1>2. \A heads : r \in Behind(heads, s) <=> \E c \in heads : IsPrefix(c, s) /\ r = Drop(s, Len(c))
  BY DEF Behind
<1>3. r \in Subscribers(s) <=> r = s \/ \E c \in ChinaCodes : IsPrefix(c, s) /\ r = Drop(s, Len(c))
  BY DEF Subscribers
<1>4. \A c : r \in Behind({c}, s) <=> IsPrefix(c, s) /\ r = Drop(s, Len(c))
  BY <1>2
<1>5. /\ r \in Behind({<<8, 6>>}, s) <=> IsPrefix(<<8, 6>>, s) /\ r = Drop(s, Len(<<8, 6>>))
      /\ r \in Behind({<< 0 >>}, s) <=> IsPrefix(<< 0 >>, s) /\ r = Drop(s, Len(<< 0 >>))
  BY <1>4, Zenon
<1> QED
  BY <1>1, <1>2, <1>3, <1>5, HeadElements, HeadLengths

-----------------------------------------------------------------------------
(* The patterns by the characters they look at.                            *)

LEMMA ZeroMobile ==
  ASSUME NEW s, ZERO_MOBILE_PATTERN(s)
  PROVE  AreDigits(s) /\ Len(s) = 12 /\ s[1] = 0 /\ s[2] = 1 /\ s[3] \in 3..9
  BY DEF ZERO_MOBILE_PATTERN, MobileZones

LEMMA CodedLength ==
  ASSUME NEW s \in Seq(Dialled), NEW r, Coded(s, r)
  PROVE  /\ r \in Seq(Dialled) /\ Len(r) \in Nat /\ Len(s) \in Nat
         /\ Len(s) = Len(r) + (IF s[1] = Plus THEN 3 ELSE IF s[1] = 8 THEN 2 ELSE 4)
         /\ s[1] \in {Plus, 8, 0} /\ (s[1] = 0 => s[2] = 0)
<1>1. 3 \in Nat /\ 2 \in Nat /\ 4 \in Nat /\ Len(s) \in Nat
  OBVIOUS
<1>2. Len(s) >= 3 => Drop(s, 3) \in Seq(Dialled) /\ Len(s) = 3 + Len(Drop(s, 3)) /\ Len(Drop(s, 3)) \in Nat
  BY <1>1, DropType
<1>3. Len(s) >= 2 => Drop(s, 2) \in Seq(Dialled) /\ Len(s) = 2 + Len(Drop(s, 2)) /\ Len(Drop(s, 2)) \in Nat
  BY <1>1, DropType
<1>4. Len(s) >= 4 => Drop(s, 4) \in Seq(Dialled) /\ Len(s) = 4 + Len(Drop(s, 4)) /\ Len(Drop(s, 4)) \in Nat
  BY <1>1, DropType
<1> QED
  BY <1>1, <1>2, <1>3, <1>4 DEF Coded, Plus

\* What begins neither with a 1 nor with a code of China is no mobile number.
LEMMA NoMobile ==
  ASSUME NEW s \in Seq(Dialled), s[1] # 1,
         \A r : Coded(s, r) => ~(AreDigits(r) /\ Len(r) = 11 /\ r[1] = 1 /\ r[2] # 0)
  PROVE  ~MPN_PATTERN(s)
  BY SubscriberElements DEF MPN_PATTERN

\* w begins the lookup of the mobile number d.
LooksUp(w, d) == \E u : w = MobileWork(u, FALSE) /\ d \in Subscribers(u)

LEMMA IsMobileFor ==
  ASSUME NEW s \in Seq(Dialled), NEW d \in MobilesIn(s), NEW exact, NEW description
  PROVE  LooksUp(GetAttributionInfo(s, exact, description), d)
<1>1. IsMobileNumber(d) /\ AreDigits(d) /\ Len(d) = 11 /\ d[1] = 1 /\ d[2] \in 3..9 /\ d[2] # 0
  BY DEF MobilesIn, IsMobileNumber
<1>2. d \in Subscribers(d)
  BY DEF Subscribers
<1>3. \A u : d \in Subscribers(u) => MPN_PATTERN(u)
  BY <1>1 DEF MPN_PATTERN
<1>4. CASE d = s
  <2>1. ~ZERO_MOBILE_PATTERN(s)
    BY <1>1, <1>4, ZeroMobile
  <2> QED
    BY <1>2, <1>3, <1>4, <2>1 DEF GetAttributionInfo, LooksUp
<1>5. CASE d \in Behind(ChinaCodes, s)
  <2>1. Coded(s, d) /\ d \in Subscribers(s)
    BY <1>5, SubscriberElements
  <2>2. Len(s) # 12
    <3>1. Len(s) = Len(d) + (IF s[1] = Plus THEN 3 ELSE IF s[1] = 8 THEN 2 ELSE 4)
      BY <2>1, CodedLength, Zenon
    <3> QED
      BY <1>1, <3>1
  <2>3. ~ZERO_MOBILE_PATTERN(s)
    BY <2>2, ZeroMobile
  <2> QED
    BY <1>3, <2>1, <2>3 DEF GetAttributionInfo, LooksUp
<1>6. CASE d \in Behind({<< 0 >>}, s) /\ <<d[2], d[3]>> \in MobileZones
  <2>1. Len(s) >= 1 /\ s[1] = 0 /\ d = Drop(s, 1)
    BY <1>6, SubscriberElements
  <2>2. Len(s) = 12 /\ s[2] = d[1] /\ s[3] = d[2] /\ s[4] = d[3] /\ \A i \in 1..11 : s[1 + i] = d[i]
    <3>1. 1 \in Nat /\ 1 <= Len(s)
      BY <2>1
    <3>2. Len(s) = 1 + Len(d) /\ \A i \in 1..Len(d) : d[i] = s[1 + i]
      BY <2>1, <3>1, DropType
    <3> QED
      BY <1>1, <3>2
  <2>3. AreDigits(s)
    <3>1. \A i \in 1..11 : d[i] \in Digit
      BY <1>1, DigitsDialled, DigitElements
    <3>2. \A i \in 1..12 : s[i] \in Digit
      <4> TAKE i \in 1..12
      <4>1. i = 1 \/ (i - 1 \in 1..11 /\ s[i] = s[1 + (i - 1)])
        OBVIOUS
      <4> QED
        BY <2>1, <2>2, <3>1, <4>1 DEF Digit
    <3>3. Len(s) >= 1 /\ \A i \in 1..Len(s) : s[i] \in Digit
      BY <2>2, <3>2
    <3> QED
      BY <3>3, DigitElements, Zenon
  <2>4. ZERO_MOBILE_PATTERN(s)
    BY <1>1, <1>6, <2>1, <2>2, <2>3 DEF ZERO_MOBILE_PATTERN
  <2>5. Tail(s) = d
    <3>1. s # << >>
      BY <2>1, NotEmpty
    <3>2. Tail(s) = SubSeq(s, 2, Len(s))
      BY <3>1, TailIsSubSeq, Zenon
    <3>3. Drop(s, 1) = SubSeq(s, 2, Len(s))
      BY DEF Drop
    <3> QED
      BY <2>1, <3>2, <3>3, Zenon
  <2> QED
    BY <1>2, <1>3, <2>4, <2>5 DEF GetAttributionInfo, LooksUp
<1> QED
  BY <1>4, <1>5, <1>6 DEF MobilesIn

LEMMA EightToTwelve == \A n \in 8..12 : ~(n < 5) /\ n >= 1 /\ n >= 8 /\ n <= 12 /\ n \in Nat
  OBVIOUS

LEMMA FixedElements ==
  ASSUME NEW d, IsFixedNumber(d)
  PROVE  /\ AreDigits(d) /\ Len(d) \in 8..12 /\ d[1] = 0 /\ d[2] # 0 /\ (d[2] = 1 => d[3] = 0)
         /\ FIX_PATTERN(d) /\ ParseFixPhoneNumber(d) = AreaCode(d)
<1>1. /\ AreDigits(d) /\ Len(d) \in 8..12 /\ d[1] = 0 /\ d[2] # 0 /\ (d[2] = 1 => d[3] = 0)
      /\ Len(d) \in 10..12 \/ IsServiceNumber(Drop(d, Len(AreaCode(d))))
  BY DEF IsFixedNumber
<1>2. Len(AreaCode(d)) \in {3, 4}
  BY TakeLength DEF AreaCode
<1>3. FIX_PATTERN(d)
  BY <1>1, <1>2 DEF FIX_PATTERN, IsServiceNumber
<1>4. ~(Len(d) < 5)
  BY <1>1, EightToTwelve, Zenon
<1>5. ParseFixPhoneNumber(d) = AreaCode(d)
  BY <1>1, <1>4 DEF ParseFixPhoneNumber, AreaCode
<1> QED
  BY <1>1, <1>3, <1>5

\* What begins with one zero is neither a mobile number nor one from abroad.
LEMMA OneZero ==
  ASSUME NEW s \in Seq(Dialled), s[1] = 0, s[2] # 0
  PROVE  ~MPN_PATTERN(s) /\ ~MPN_QUERY_PATTERN_PREFIX(s) /\ ~NAT_PATTERN(s)
<1>1. \A r : ~Coded(s, r)
  BY DEF Coded, Plus
<1>2. \A r \in Subscribers(s) : r[1] # 1
  BY <1>1, SubscriberElements
<1>3. ~NAT_PATTERN(s)
  BY HeadElements DEF NAT_PATTERN, Plus
<1> QED
  BY <1>2, <1>3 DEF MPN_PATTERN, MPN_QUERY_PATTERN_PREFIX

LEMMA IsFixedAsItIs ==
  ASSUME NEW s \in Seq(Dialled), IsFixedNumber(s), NEW exact, NEW description
  PROVE  GetAttributionInfo(s, exact, description) = GetFixParseResult(s)
<1>1. /\ s[1] = 0 /\ s[2] # 0 /\ (s[2] = 1 => s[3] = 0) /\ FIX_PATTERN(s)
  BY FixedElements
<1>2. ~ZERO_MOBILE_PATTERN(s)
  BY <1>1, ZeroMobile
<1>3. ~MPN_PATTERN(s) /\ ~NAT_PATTERN(s)
  BY <1>1, OneZero
<1> QED
  BY <1>1, <1>2, <1>3 DEF GetAttributionInfo

\* The code of China behind a plus or two zeros.
FromAbroad(s, n, c) ==
  \/ n = 3 /\ c = <<Plus, 8, 6>> /\ s[1] = Plus /\ s[2] = 8 /\ s[3] = 6
  \/ n = 4 /\ c = <<0, 0, 8, 6>> /\ s[1] = 0 /\ s[2] = 0 /\ s[3] = 8 /\ s[4] = 6

LEMMA NatCode ==
  ASSUME NEW s \in Seq(Dialled), NEW n, NEW c, FromAbroad(s, n, c), Len(s) >= n
  PROVE  {x \in ChinaCodes \ {<<8, 6>>} : IsPrefix(x, s)} = {c} /\ Len(c) = n
<1>1. \A x \in ChinaCodes : IsPrefix(x, s) <=>
          \/ x = <<Plus, 8, 6>> /\ Len(s) >= 3 /\ s[1] = Plus /\ s[2] = 8 /\ s[3] = 6
          \/ x = <<8, 6>> /\ Len(s) >= 2 /\ s[1] = 8 /\ s[2] = 6
          \/ x = <<0, 0, 8, 6>> /\ Len(s) >= 4 /\ s[1] = 0 /\ s[2] = 0 /\ s[3] = 8 /\ s[4] = 6
  <2>1. /\ <<8, 6>> # <<Plus, 8, 6>> /\ <<8, 6>> # <<0, 0, 8, 6>>
        /\ <<Plus, 8, 6>> # <<0, 0, 8, 6>>
    BY HeadLengths
  <2> QED
    BY <2>1, HeadElements, Zenon DEF ChinaCodes
<1>2. /\ <<8, 6>> # <<Plus, 8, 6>> /\ <<8, 6>> # <<0, 0, 8, 6>>
  BY HeadLengths
<1>3. CASE n = 3
  <2>1. c = <<Plus, 8, 6>> /\ s[1] = Plus /\ s[2] = 8 /\ s[3] = 6 /\ s[1] # 0 /\ s[1] # 8 /\ Len(s) >= 3
    BY <1>3 DEF FromAbroad, Plus
  <2>2. c \in ChinaCodes
    BY <2>1 DEF ChinaCodes
  <2>3. \A x \in ChinaCodes : IsPrefix(x, s) <=> x = c
    BY <1>1, <2>1, Zenon
  <2>4. c # <<8, 6>>
    BY <1>2, <2>1, Zenon
  <2> QED
    BY <1>3, <2>1, <2>2, <2>3, <2>4, HeadLengths
<1>4. CASE n = 4
  <2>1. c = <<0, 0, 8, 6>> /\ s[1] = 0 /\ s[2] = 0 /\ s[3] = 8 /\ s[4] = 6 /\ s[1] # Plus /\ s[1] # 8 /\ Len(s) >= 4
    BY <1>4 DEF FromAbroad, Plus
  <2>2. c \in ChinaCodes
    BY <2>1 DEF ChinaCodes
  <2>3. \A x \in ChinaCodes : IsPrefix(x, s) <=> x = c
    BY <1>1, <2>1, Zenon
  <2>4. c # <<8, 6>>
    BY <1>2, <2>1, Zenon
  <2> QED
    BY <1>4, <2>1, <2>2, <2>3, <2>4, HeadLengths
<1> QED
  BY <1>3, <1>4 DEF FromAbroad

LEMMA ZeroBefore ==
  ASSUME NEW r \in Seq(Dialled)
  PROVE  /\ << 0 >> \o r \in Seq(Dialled) /\ Len(<< 0 >> \o r) = Len(r) + 1
         /\ \A i \in 1..Len(r) : (<< 0 >> \o r)[i + 1] = r[i]
<1>1. << 0 >> \in Seq(Dialled) /\ Len(<< 0 >>) = 1
  BY DEF Dialled, Digit
<1>2. Len(<< 0 >> \o r) = Len(r) + 1 /\ << 0 >> \o r \in Seq(Dialled)
  BY <1>1
<1>3. \A i \in 1..Len(r) : (<< 0 >> \o r)[i + 1] = r[i]
  BY <1>1
<1> QED
  BY <1>2, <1>3

LEMMA TrunkZero ==
  ASSUME NEW r \in Seq(Dialled), AreDigits(WithTrunkZero(r))
  PROVE  /\ WithTrunkZero(r) = IF r # << >> /\ r[1] = 0 THEN r ELSE << 0 >> \o r
         /\ \A i \in 1..Len(r) : r[i] \in Digit
         /\ Len(WithTrunkZero(r)) \in {Len(r), Len(r) + 1} /\ Len(r) \in Nat
         /\ r[1] = 1 /\ Len(r) = 11 => WithTrunkZero(r)[2] = r[1] /\ WithTrunkZero(r)[3] = r[2]
<1> DEFINE d == WithTrunkZero(r)
<1>1. d = IF r # << >> /\ r[1] = 0 THEN r ELSE << 0 >> \o r
  <2>1. IsPrefix(<< 0 >>, r) <=> Len(r) >= 1 /\ r[1] = 0
    BY HeadElements, Zenon
  <2>2. r # << >> <=> Len(r) >= 1
    BY NotEmpty, Zenon
  <2> QED
    BY <2>1, <2>2, Zenon DEF WithTrunkZero
<1>2. d \in Seq(Dialled) /\ \A i \in 1..Len(d) : d[i] \in Digit
  BY DigitsDialled, DigitElements
<1>3. CASE d = r
  BY <1>1, <1>2, <1>3, ZeroBefore
<1>4. CASE d = << 0 >> \o r
  <2>1. Len(d) = Len(r) + 1 /\ \A i \in 1..Len(r) : d[i + 1] = r[i]
    BY <1>4, ZeroBefore
  <2>2. \A i \in 1..Len(r) : i + 1 \in 1..Len(d)
    BY <2>1
  <2>3. \A i \in 1..Len(r) : r[i] \in Digit
    BY <1>2, <2>1, <2>2
  <2>4. Len(r) = 11 => d[2] = r[1] /\ d[3] = r[2]
    <3>1. 1 \in 1..11 /\ 2 \in 1..11 /\ 1 + 1 = 2 /\ 2 + 1 = 3
      OBVIOUS
    <3> QED
      BY <2>1, <3>1
  <2> QED
    BY <1>1, <2>1, <2>3, <2>4
<1> QED
  BY <1>1, <1>3, <1>4, Zenon

\* A number of digits behind a plus or two zeros is from abroad.
LEMMA NatElements ==
  ASSUME NEW s \in Seq(Dialled), NEW n \in {1, 2}, NEW k \in Nat,
         n = 1 => s[1] = Plus, n = 2 => s[1] = 0 /\ s[2] = 0,
         Len(s) = n + k, k >= 1, k <= 14, \A i \in 1..k : s[n + i] \in Digit, s[n + 1] # 0
  PROVE  NAT_PATTERN(s) /\ AreDigits(Drop(s, n))
<1>1. n \in Nat /\ n <= Len(s) /\ Len(s) <= 16
  OBVIOUS
<1>2. /\ Drop(s, n) \in Seq(Dialled) /\ Len(s) = n + Len(Drop(s, n)) /\ Len(Drop(s, n)) \in Nat
      /\ \A i \in 1..Len(Drop(s, n)) : Drop(s, n)[i] = s[n + i]
  BY <1>1, DropType
<1>3. Len(Drop(s, n)) = k
  BY <1>2
<1>4. Len(Drop(s, n)) >= 1 /\ \A i \in 1..Len(Drop(s, n)) : Drop(s, n)[i] \in Digit
  BY <1>2, <1>3
<1>5. AreDigits(Drop(s, n))
  BY <1>2, <1>4, DigitElements, Zenon
<1>6. /\ n = 1 => IsPrefix(<<Plus>>, s) /\ n = Len(<<Plus>>)
      /\ n = 2 => IsPrefix(<<0, 0>>, s) /\ n = Len(<<0, 0>>)
  BY <1>1, HeadElements, HeadLengths
<1>7. NAT_PATTERN(s)
  BY <1>1, <1>5, <1>6 DEF NAT_PATTERN
<1> QED
  BY <1>5, <1>7

LEMMA OneShorter == \A x \in Nat : \A y \in 8..12 : y \in {x, x + 1} => x <= 12
  OBVIOUS

LEMMA NatBehindCode ==
  ASSUME NEW s \in Seq(Dialled), NEW n, NEW c, FromAbroad(s, n, c), NEW m \in Nat,
         Len(s) = n + m, m <= 12, \A i \in 1..m : s[n + i] \in Digit
  PROVE  NAT_PATTERN(s)
<1>1. CASE n = 3
  <2>1. s[1] = Plus /\ s[1 + 1] = 8 /\ s[1 + 2] = 6
    BY <1>1 DEF FromAbroad
  <2>2. \A i \in 1..(m + 2) : s[1 + i] \in Digit
    <3> TAKE i \in 1..(m + 2)
    <3>1. i = 1 \/ i = 2 \/ (i - 2 \in 1..m /\ 1 + i = n + (i - 2))
      BY <1>1
    <3>2. CASE i = 1 \/ i = 2
      BY <2>1, <3>2 DEF Digit
    <3>3. CASE i - 2 \in 1..m /\ 1 + i = n + (i - 2)
      <4>1. s[n + (i - 2)] \in Digit
        BY <3>3, Zenon
      <4> QED
        BY <3>3, <4>1, Zenon
    <3> QED
      BY <3>1, <3>2, <3>3
  <2>3. /\ Len(s) = 1 + (m + 2) /\ m + 2 \in Nat /\ m + 2 >= 1 /\ m + 2 <= 14
        /\ s[1 + 1] # 0 /\ 1 \in {1, 2}
        /\ 1 = 1 => s[1] = Plus
        /\ 1 = 2 => s[1] = 0 /\ s[2] = 0
    BY <1>1, <2>1
  <2> QED
    BY <2>2, <2>3, NatElements, Zenon
<1>2. CASE n = 4
  <2>1. s[1] = 0 /\ s[2] = 0 /\ s[2 + 1] = 8 /\ s[2 + 2] = 6
    BY <1>2 DEF FromAbroad
  <2>2. \A i \in 1..(m + 2) : s[2 + i] \in Digit
    <3> TAKE i \in 1..(m + 2)
    <3>1. i = 1 \/ i = 2 \/ (i - 2 \in 1..m /\ 2 + i = n + (i - 2))
      BY <1>2
    <3>2. CASE i = 1 \/ i = 2
      BY <2>1, <3>2 DEF Digit
    <3>3. CASE i - 2 \in 1..m /\ 2 + i = n + (i - 2)
      <4>1. s[n + (i - 2)] \in Digit
        BY <3>3, Zenon
      <4> QED
        BY <3>3, <4>1, Zenon
    <3> QED
      BY <3>1, <3>2, <3>3
  <2>3. /\ Len(s) = 2 + (m + 2) /\ m + 2 \in Nat /\ m + 2 >= 1 /\ m + 2 <= 14
        /\ s[2 + 1] # 0 /\ 2 \in {1, 2}
        /\ 2 = 1 => s[1] = Plus
        /\ 2 = 2 => s[1] = 0 /\ s[2] = 0
    BY <1>2, <2>1
  <2> QED
    BY <2>2, <2>3, NatElements, Zenon
<1> QED
  BY <1>1, <1>2 DEF FromAbroad

LEMMA IsFixedFromAbroad ==
  ASSUME NEW s \in Seq(Dialled), NEW n, NEW c, FromAbroad(s, n, c), Len(s) >= n,
         IsFixedNumber(WithTrunkZero(Drop(s, n))), NEW exact, NEW description
  PROVE  GetAttributionInfo(s, exact, description) = GetFixParseResult(WithTrunkZero(Drop(s, n)))
<1> DEFINE r == Drop(s, n)
           d == WithTrunkZero(r)
<1>1. n \in {3, 4} /\ n \in Nat
  BY DEF FromAbroad
<1>2. r \in Seq(Dialled) /\ Len(s) = n + Len(r) /\ Len(r) \in Nat /\ \A i \in 1..Len(r) : r[i] = s[n + i]
  BY <1>1, DropType, Zenon
<1>3. /\ AreDigits(d) /\ Len(d) \in 8..12 /\ d[2] # 0 /\ (d[2] = 1 => d[3] = 0) /\ FIX_PATTERN(d)
  BY FixedElements, Zenon
<1>4. /\ d = IF r # << >> /\ r[1] = 0 THEN r ELSE << 0 >> \o r
      /\ \A i \in 1..Len(r) : r[i] \in Digit
      /\ Len(d) \in {Len(r), Len(r) + 1} /\ Len(r) \in Nat
      /\ r[1] = 1 /\ Len(r) = 11 => d[2] = r[1] /\ d[3] = r[2]
  BY <1>2, <1>3, TrunkZero, Zenon
<1> HIDE DEF r, d
<1>5. NAT_PATTERN(s)
  <2>1. Len(r) <= 12
    BY <1>3, <1>4, OneShorter, Zenon
  <2>2. \A i \in 1..Len(r) : s[n + i] \in Digit
    BY <1>2, <1>4
  <2> QED
    BY <1>2, <2>1, <2>2, NatBehindCode
<1>6. ~ZERO_MOBILE_PATTERN(s)
  <2>1. ~(s[1] = 0 /\ s[2] = 1)
    BY DEF FromAbroad, Plus
  <2> QED
    BY <2>1, ZeroMobile
<1>7. ~MPN_PATTERN(s)
  <2>1. s[1] # 1
    BY DEF FromAbroad, Plus
  <2>2. \A x : Coded(s, x) => x = r
    BY DEF FromAbroad, Coded, Plus, r
  <2>3. ~(Len(r) = 11 /\ r[1] = 1 /\ r[2] # 0)
    BY <1>3, <1>4
  <2> QED
    BY <2>1, <2>2, <2>3, NoMobile
<1>8. GetAttributionInfo(s, exact, description) = GetNatAttributionInfo(s, description)
  BY <1>5, <1>6, <1>7 DEF GetAttributionInfo
<1>9. GetNatAttributionInfo(s, description) = GetFixParseResult(d)
  <2> DEFINE code == {x \in ChinaCodes \ {<<8, 6>>} : IsPrefix(x, s)}
  <2>1. code = {c} /\ Len(c) = n
    BY NatCode, Zenon
  <2>2. code # {} /\ (CHOOSE x \in code : TRUE) = c
    BY <2>1
  <2>3. Drop(s, Len(CHOOSE x \in code : TRUE)) = r
    BY <2>1, <2>2 DEF r
  <2> HIDE DEF code
  <2>4. GetNatAttributionInfo(s, description) =
          IF code = {} THEN Done(description)
          ELSE IF FIX_PATTERN(d) THEN GetFixParseResult(d) ELSE Done(<< >>)
    BY <1>4, <2>3 DEF GetNatAttributionInfo, code
  <2> QED
    BY <1>3, <2>2, <2>4
<1> QED
  BY <1>8, <1>9 DEF d, r

LEMMA FromAbroadBy ==
  ASSUME NEW s \in Seq(Dialled), NEW c \in ChinaCodes \ {<<8, 6>>}, IsPrefix(c, s)
  PROVE  FromAbroad(s, Len(c), c) /\ Len(s) >= Len(c)
<1>1. c = <<Plus, 8, 6>> \/ c = <<0, 0, 8, 6>>
  BY Zenon DEF ChinaCodes
<1>2. CASE c = <<Plus, 8, 6>>
  <2>1. IsPrefix(<<Plus, 8, 6>>, s)
    BY <1>2, Zenon
  <2>2. Len(s) >= 3 /\ s[1] = Plus /\ s[2] = 8 /\ s[3] = 6
    BY <2>1, HeadElements, Zenon
  <2>3. Len(c) = 3
    BY <1>2
  <2> QED
    BY <1>2, <2>2, <2>3, Zenon DEF FromAbroad
<1>3. CASE c = <<0, 0, 8, 6>>
  <2>1. IsPrefix(<<0, 0, 8, 6>>, s)
    BY <1>3, Zenon
  <2>2. Len(s) >= 4 /\ s[1] = 0 /\ s[2] = 0 /\ s[3] = 8 /\ s[4] = 6
    BY <2>1, HeadElements, Zenon
  <2>3. Len(c) = 4
    BY <1>3
  <2> QED
    BY <1>3, <2>2, <2>3, Zenon DEF FromAbroad
<1> QED
  BY <1>1, <1>2, <1>3

LEMMA IsFixedFor ==
  ASSUME NEW s \in Seq(Dialled), NEW d \in FixedIn(s), NEW exact, NEW description
  PROVE  /\ GetAttributionInfo(s, exact, description) = GetFixParseResult(d)
         /\ AreDigits(d) /\ ParseFixPhoneNumber(d) = AreaCode(d)
<1>1. IsFixedNumber(d)
  BY DEF FixedIn
<1>2. AreDigits(d) /\ ParseFixPhoneNumber(d) = AreaCode(d)
  BY <1>1, FixedElements
<1>3. CASE d = s
  BY <1>1, <1>2, <1>3, IsFixedAsItIs
<1>4. CASE \E r \in Behind(ChinaCodes \ {<<8, 6>>}, s) : d = WithTrunkZero(r)
  <2>1. PICK c \in ChinaCodes \ {<<8, 6>>} : IsPrefix(c, s) /\ d = WithTrunkZero(Drop(s, Len(c)))
    BY <1>4 DEF Behind
  <2>2. FromAbroad(s, Len(c), c) /\ Len(s) >= Len(c)
    BY <2>1, FromAbroadBy, Zenon
  <2>3. GetAttributionInfo(s, exact, description) = GetFixParseResult(WithTrunkZero(Drop(s, Len(c))))
    BY <1>1, <2>1, <2>2, IsFixedFromAbroad
  <2> QED
    BY <1>2, <2>1, <2>3
<1> QED
  BY <1>3, <1>4 DEF FixedIn

\* Behind a plus or two zeros, and behind them not the code of China.
LEMMA AbroadElements ==
  ASSUME NEW s \in Seq(Dialled), NEW n \in {1, 2},
         n = 1 => s[1] = Plus, n = 2 => s[1] = 0 /\ s[2] = 0,
         Len(s) >= n, ~IsPrefix(<<8, 6>>, Drop(s, n))
  PROVE  /\ \A r : ~Coded(s, r)
         /\ s[1] # 1 /\ ~(s[1] = 0 /\ s[2] = 1)
         /\ \A c \in ChinaCodes \ {<<8, 6>>} : ~IsPrefix(c, s)
<1>1. n \in Nat /\ n <= Len(s) /\ Len(s) \in Nat
  OBVIOUS
<1>2. /\ Drop(s, n) \in Seq(Dialled) /\ Len(s) = n + Len(Drop(s, n)) /\ Len(Drop(s, n)) \in Nat
      /\ \A i \in 1..Len(Drop(s, n)) : Drop(s, n)[i] = s[n + i]
  BY <1>1, DropType
<1>3. IsPrefix(<<8, 6>>, Drop(s, n)) <=> Len(Drop(s, n)) >= 2 /\ Drop(s, n)[1] = 8 /\ Drop(s, n)[2] = 6
  BY <1>2, HeadElements, Zenon
<1>4. ~(Len(s) >= n + 2 /\ s[n + 1] = 8 /\ s[n + 2] = 6)
  BY <1>2, <1>3
<1>5. \A r : ~Coded(s, r)
  BY <1>1, <1>4 DEF Coded, Plus
<1>6. s[1] # 1 /\ ~(s[1] = 0 /\ s[2] = 1)
  BY DEF Plus
<1>7. \A c \in ChinaCodes \ {<<8, 6>>} : ~IsPrefix(c, s)
  <2> SUFFICES ASSUME NEW c \in ChinaCodes, IsPrefix(c, s) PROVE FALSE
    OBVIOUS
  <2>1. Drop(s, Len(c)) \in Behind(ChinaCodes, s)
    BY DEF Behind
  <2> QED
    BY <1>5, <2>1, SubscriberElements
<1> QED
  BY <1>5, <1>6, <1>7

LEMMA IsForeignFor ==
  ASSUME NEW s \in Seq(Dialled), NEW r \in ForeignIn(s), NEW exact, NEW description
  PROVE  GetAttributionInfo(s, exact, description) = Done(description)
<1>1. PICK c \in {<<Plus>>, <<0, 0>>} : IsPrefix(c, s) /\ r = Drop(s, Len(c))
  BY DEF ForeignIn, Behind
<1>2. AreDigits(r) /\ r[1] # 0 /\ ~IsPrefix(<<8, 6>>, r) /\ Len(s) <= 16
  BY DEF ForeignIn
<1>3. PICK n \in {1, 2} : /\ n = Len(c) /\ Len(s) >= n
                          /\ n = 1 => s[1] = Plus
                          /\ n = 2 => s[1] = 0 /\ s[2] = 0
  <2>1. IsPrefix(<<Plus>>, s) => 1 = Len(<<Plus>>) /\ Len(s) >= 1 /\ s[1] = Plus
    BY HeadElements, HeadLengths
  <2>2. IsPrefix(<<0, 0>>, s) => 2 = Len(<<0, 0>>) /\ Len(s) >= 2 /\ s[1] = 0 /\ s[2] = 0
    BY HeadElements, HeadLengths
  <2>3. 1 \in {1, 2} /\ 2 \in {1, 2} /\ 1 # 2
    OBVIOUS
  <2>4. CASE c = <<Plus>>
    BY <1>1, <2>1, <2>3, <2>4, Zenon
  <2>5. CASE c = <<0, 0>>
    BY <1>1, <2>2, <2>3, <2>5, Zenon
  <2> QED
    BY <2>4, <2>5
<1>4. r = Drop(s, n)
  BY <1>1, <1>3
<1>5. /\ \A x : ~Coded(s, x)
      /\ s[1] # 1 /\ ~(s[1] = 0 /\ s[2] = 1)
      /\ \A x \in ChinaCodes \ {<<8, 6>>} : ~IsPrefix(x, s)
  BY <1>2, <1>3, <1>4, AbroadElements
<1>6. ~ZERO_MOBILE_PATTERN(s)
  BY <1>5, ZeroMobile
<1>7. ~MPN_PATTERN(s)
  BY <1>5, NoMobile
<1>8. s[n + 1] = r[1]
  <2>1. n \in Nat /\ n <= Len(s)
    BY <1>3
  <2>2. Len(r) \in Nat /\ \A i \in 1..Len(r) : r[i] = s[n + i]
    BY <1>4, <2>1, DropType
  <2>3. Len(r) >= 1
    BY <1>2, NotEmpty DEF AreDigits
  <2> QED
    BY <2>2, <2>3
<1>9. NAT_PATTERN(s)
  BY <1>1, <1>2, <1>3, <1>4, <1>8 DEF NAT_PATTERN
<1>10. GetAttributionInfo(s, exact, description) = GetNatAttributionInfo(s, description)
  BY <1>6, <1>7, <1>9 DEF GetAttributionInfo
<1>11. {x \in ChinaCodes \ {<<8, 6>>} : IsPrefix(x, s)} = {}
  BY <1>5
<1>12. GetNatAttributionInfo(s, description) = Done(description)
  BY <1>11 DEF GetNatAttributionInfo
<1> QED
  BY <1>10, <1>12

LEMMA LengthsOfFixed ==
  /\ \A n : \A a \in {3, 4} : \A m \in {5, 6} : n = a + m => n \in 8..12
  /\ \A n \in 10..12 : n \in 8..12
  OBVIOUS

LEMMA FixLength ==
  ASSUME NEW s \in Seq(Dialled), FIX_PATTERN(s)
  PROVE  Len(s) \in 8..12 /\ s[1] = 0
<1>1. s[1] = 0
  BY DEF FIX_PATTERN
<1>2. CASE Len(s) \in 10..12
  BY <1>1, <1>2, LengthsOfFixed, Zenon
<1>3. CASE ~(Len(s) \in 10..12)
  <2>1. PICK area \in {3, 4} : Len(Drop(s, area)) \in {5, 6}
    BY <1>3 DEF FIX_PATTERN
  <2>2. area <= Len(s)
    <3> SUFFICES ASSUME ~(area <= Len(s)) PROVE FALSE
      OBVIOUS
    <3>1. Len(SubSeq(s, area + 1, Len(s))) = 0
      <4>1. area + 1 \in Int /\ Len(s) \in Int /\ ~(area + 1 <= Len(s)) /\ \A i \in (area + 1)..Len(s) : s[i] \in Dialled
        OBVIOUS
      <4> QED
        BY <4>1, SubSeqProperties
    <3> QED
      BY <2>1, <3>1 DEF Drop
  <2>3. area \in Nat /\ Len(s) = area + Len(Drop(s, area))
    BY <2>1, <2>2, DropType
  <2> QED
    BY <1>1, <2>1, <2>3, LengthsOfFixed, Zenon
<1> QED
  BY <1>2, <1>3

\* Digits without the zeros of a call from abroad.
LEMMA AtHome ==
  ASSUME NEW s \in Seq(Dialled), AreDigits(s), ~(s[1] = 0 /\ s[2] = 0)
  PROVE  /\ ~NAT_PATTERN(s)
         /\ \A r \in Subscribers(s) : r = s \/ (s[1] = 8 /\ r \in Seq(Dialled) /\ Len(s) = Len(r) + 2 /\ Len(r) \in Nat)
<1>1. s[1] # Plus
  <2>1. Len(s) >= 1 /\ \A i \in 1..Len(s) : s[i] \in Digit
    BY DigitElements, Zenon
  <2>2. 1 \in 1..Len(s)
    BY <2>1
  <2> QED
    BY <2>1, <2>2 DEF Digit, Plus
<1>2. ~NAT_PATTERN(s)
  BY <1>1, HeadElements DEF NAT_PATTERN
<1>3. \A r : Coded(s, r) => s[1] = 8 /\ s[1] # Plus
  BY <1>1 DEF Coded
<1>4. ASSUME NEW r \in Subscribers(s), r # s PROVE s[1] = 8 /\ r \in Seq(Dialled) /\ Len(s) = Len(r) + 2 /\ Len(r) \in Nat
  <2>1. Coded(s, r)
    BY <1>4, SubscriberElements, Zenon
  <2>2. /\ r \in Seq(Dialled) /\ Len(r) \in Nat
        /\ Len(s) = Len(r) + (IF s[1] = Plus THEN 3 ELSE IF s[1] = 8 THEN 2 ELSE 4)
    BY <2>1, CodedLength, Zenon
  <2> QED
    BY <1>3, <2>1, <2>2
<1> QED
  BY <1>2, <1>4, Zenon

LEMMA TooLong ==
  ASSUME NEW n \in Nat, n > 13
  PROVE  /\ n # 12 /\ n # 11 /\ n \notin 8..12 /\ n \notin 3..11 /\ n \notin 3..12
         /\ \A m \in Nat : n = m + 2 => m # 11 /\ m \notin 3..11
  OBVIOUS

LEMMA JustOne ==
  \A n \in Nat : n < 2 => n # 12 /\ n # 11 /\ n \notin 8..12 /\ n \notin 3..11 /\ n \notin 3..12
  OBVIOUS

LEMMA TooShort ==
  ASSUME NEW n \in Nat, n < 8
  PROVE  /\ n # 12 /\ n # 11 /\ n \notin 8..12
         /\ n < 3 => n \notin 3..11 /\ n \notin 3..12
         /\ \A m \in Nat : n = m + 2 => m # 11 /\ (n < 3 => m \notin 3..11)
  OBVIOUS

LEMMA IsNoNumberFor ==
  ASSUME NEW s \in Seq(Dialled), NEW exact \in BOOLEAN, IsNoNumber(s, exact), NEW description
  PROVE  GetAttributionInfo(s, exact, description) = Done(<< >>)
<1>1. AreDigits(s) /\ ~(s[1] = 0 /\ s[2] = 0 /\ Len(s) >= 2)
  BY HeadElements DEF IsNoNumber
<1>2. /\ Len(s) \in Nat
      /\ Len(s) > 13 \/ (Len(s) < 8 /\ (~exact => Len(s) < 3))
  <2>1. Len(s) \in Nat /\ (Len(s) > 13 \/ Len(s) < (IF exact THEN 8 ELSE 3))
    BY LenInNat DEF IsNoNumber
  <2> QED
    BY <2>1
<1>3. CASE Len(s) < 2
  <2>1. /\ Len(s) # 12 /\ Len(s) # 11 /\ Len(s) \notin 8..12 /\ Len(s) \notin 3..11 /\ Len(s) \notin 3..12
    BY <1>2, <1>3, JustOne, Zenon
  <2>2. \A r \in Subscribers(s) : r = s
    BY <1>3, SubscriberElements DEF Coded
  <2>3. ~MPN_PATTERN(s) /\ ~MPN_QUERY_PATTERN_PREFIX(s)
    BY <2>1, <2>2, Zenon DEF MPN_PATTERN, MPN_QUERY_PATTERN_PREFIX
  <2>4. ~NAT_PATTERN(s)
    <3>1. ~IsPrefix(<<0, 0>>, s)
      BY <1>2, <1>3, HeadElements
    <3>2. s[1] # Plus
      <4>1. Len(s) >= 1 /\ \A i \in 1..Len(s) : s[i] \in Digit
        BY <1>1, DigitElements, Zenon
      <4>2. 1 \in 1..Len(s)
        BY <1>2, <4>1
      <4> QED
        BY <4>1, <4>2 DEF Digit, Plus
    <3> QED
      BY <3>1, <3>2, HeadElements DEF NAT_PATTERN
  <2>5. ~FIX_PATTERN(s) /\ ~FIX_QUERY_PATTERN(s) /\ ~ZERO_MOBILE_PATTERN(s)
    BY <2>1, FixLength, ZeroMobile, Zenon DEF FIX_QUERY_PATTERN
  <2> QED
    BY <2>3, <2>4, <2>5, Zenon DEF GetAttributionInfo
<1>4. CASE Len(s) >= 2
  <2>1. ~(s[1] = 0 /\ s[2] = 0)
    BY <1>1, <1>4
  <2>2. /\ ~NAT_PATTERN(s)
        /\ \A r \in Subscribers(s) : r = s \/ (Len(s) = Len(r) + 2 /\ Len(r) \in Nat)
    BY <1>1, <2>1, AtHome, Zenon
  <2>3. CASE Len(s) > 13
    <3>1. /\ Len(s) # 12 /\ Len(s) # 11 /\ Len(s) \notin 8..12 /\ Len(s) \notin 3..11 /\ Len(s) \notin 3..12
          /\ \A m \in Nat : Len(s) = m + 2 => m # 11 /\ m \notin 3..11
      BY <1>2, <2>3, TooLong, Zenon
    <3>2. \A r \in Subscribers(s) : Len(r) # 11 /\ Len(r) \notin 3..11
      BY <2>2, <3>1, Zenon
    <3>3. ~MPN_PATTERN(s) /\ ~MPN_QUERY_PATTERN_PREFIX(s)
      BY <3>2, Zenon DEF MPN_PATTERN, MPN_QUERY_PATTERN_PREFIX
    <3>4. ~FIX_PATTERN(s) /\ ~FIX_QUERY_PATTERN(s) /\ ~ZERO_MOBILE_PATTERN(s)
      BY <3>1, FixLength, ZeroMobile, Zenon DEF FIX_QUERY_PATTERN
    <3> QED
      BY <2>2, <3>3, <3>4, Zenon DEF GetAttributionInfo
  <2>4. CASE Len(s) < 8 /\ (~exact => Len(s) < 3)
    <3>1. /\ Len(s) # 12 /\ Len(s) # 11 /\ Len(s) \notin 8..12
          /\ Len(s) < 3 => Len(s) \notin 3..11 /\ Len(s) \notin 3..12
          /\ \A m \in Nat : Len(s) = m + 2 => m # 11 /\ (Len(s) < 3 => m \notin 3..11)
      BY <1>2, <2>4, TooShort, Zenon
    <3>2. \A r \in Subscribers(s) : Len(r) # 11 /\ (Len(s) < 3 => Len(r) \notin 3..11)
      BY <2>2, <3>1, Zenon
    <3>3. ~MPN_PATTERN(s) /\ (Len(s) < 3 => ~MPN_QUERY_PATTERN_PREFIX(s))
      BY <3>2, Zenon DEF MPN_PATTERN, MPN_QUERY_PATTERN_PREFIX
    <3>4. ~FIX_PATTERN(s) /\ (Len(s) < 3 => ~FIX_QUERY_PATTERN(s)) /\ ~ZERO_MOBILE_PATTERN(s)
      BY <3>1, FixLength, ZeroMobile, Zenon DEF FIX_QUERY_PATTERN
    <3> QED
      BY <2>2, <2>4, <3>3, <3>4 DEF GetAttributionInfo
  <2> QED
    BY <1>2, <2>3, <2>4
<1> QED
  BY <1>2, <1>3, <1>4

LEMMA ThreeToTen == \A n \in 3..10 : n # 11 /\ n \in 3..11 /\ n >= 3
  OBVIOUS

LEMMA IsMobilePrefixFor ==
  ASSUME NEW s \in Seq(Dialled), NEW p \in MobilePrefixesIn(s), NEW description
  PROVE  /\ GetAttributionInfo(s, FALSE, description) = MobileWork(s, TRUE)
         /\ p \in Subscribers(s) /\ AreDigits(p) /\ Len(p) \in 3..10 /\ p[1] = 1
<1>1. AreDigits(p) /\ Len(p) \in 3..10 /\ p[1] = 1 /\ (p = s \/ p \in Behind({<<8, 6>>}, s))
  BY DEF MobilePrefixesIn
<1>2. Len(p) # 11 /\ Len(p) \in 3..11
  BY <1>1, ThreeToTen, Zenon
<1>3. p = s \/ (Len(s) >= 2 /\ s[1] = 8 /\ s[2] = 6 /\ p = Drop(s, 2))
  BY <1>1, SubscriberElements, Zenon
<1>4. p \in Subscribers(s)
  BY <1>3, SubscriberElements DEF Coded
<1>5. s[1] \in {1, 8}
  BY <1>1, <1>3
<1>6. \A r \in Subscribers(s) : ~(Len(r) = 11 /\ r[1] = 1)
  <2> SUFFICES ASSUME NEW r \in Subscribers(s), Len(r) = 11, r[1] = 1 PROVE FALSE
    OBVIOUS
  <2>1. r = s \/ Coded(s, r)
    BY SubscriberElements, Zenon
  <2>2. r # p
    BY <1>2
  <2>3. CASE p = s
    <3>1. s[1] = 1
      BY <1>1, <2>3
    <3> QED
      BY <2>1, <2>2, <2>3, <3>1 DEF Coded, Plus
  <2>4. CASE s[1] = 8 /\ p = Drop(s, 2)
    BY <2>1, <2>2, <2>4 DEF Coded, Plus
  <2> QED
    BY <1>3, <2>3, <2>4
<1>7. ~MPN_PATTERN(s) /\ MPN_QUERY_PATTERN_PREFIX(s)
  BY <1>1, <1>2, <1>4, <1>6, Zenon DEF MPN_PATTERN, MPN_QUERY_PATTERN_PREFIX
<1>8. ~NAT_PATTERN(s)
  BY <1>5, HeadElements DEF NAT_PATTERN, Plus
<1>9. ~FIX_PATTERN(s) /\ ~ZERO_MOBILE_PATTERN(s)
  BY <1>5 DEF FIX_PATTERN, ZERO_MOBILE_PATTERN
<1> QED
  BY <1>1, <1>4, <1>7, <1>8, <1>9 DEF GetAttributionInfo

LEMMA FiveToNine == \A n \in 5..9 : n # 12 /\ n \in 3..12 /\ ~(n < 5)
  OBVIOUS

LEMMA IsAreaPrefixFor ==
  ASSUME NEW s \in Seq(Dialled), NEW p \in AreaPrefixesIn(s), NEW description
  PROVE  /\ GetAttributionInfo(s, FALSE, description) = GetFixParseResult(p)
         /\ AreDigits(p) /\ ParseFixPhoneNumber(p) = AreaCode(p)
<1>1. p = s /\ AreDigits(s) /\ Len(s) \in 5..9 /\ s[1] = 0 /\ s[2] # 0
  BY DEF AreaPrefixesIn
<1>2. Len(s) # 12 /\ Len(s) \in 3..12 /\ ~(Len(s) < 5)
  BY <1>1, FiveToNine, Zenon
<1>3. ~MPN_PATTERN(s) /\ ~MPN_QUERY_PATTERN_PREFIX(s) /\ ~NAT_PATTERN(s)
  BY <1>1, OneZero
<1>4. ~ZERO_MOBILE_PATTERN(s) /\ FIX_QUERY_PATTERN(s)
  BY <1>1, <1>2, Zenon DEF ZERO_MOBILE_PATTERN, FIX_QUERY_PATTERN
<1>5. ParseFixPhoneNumber(s) = AreaCode(s)
  BY <1>1, <1>2, Zenon DEF ParseFixPhoneNumber, AreaCode
<1> QED
  BY <1>1, <1>3, <1>4, <1>5 DEF GetAttributionInfo

-----------------------------------------------------------------------------
(* The digits looked up are those that are meant. *)

\* What the work that a number begins with owes to a meaning of it.
Suits(w, m, description) ==
  /\ m.kind = "mobile" => /\ w.step = "location7" /\ w.digits = m.digits /\ w.ndc7 = m.digits
                          /\ w.ndc3 = Take(m.digits, 3) /\ w.again = FALSE
                          /\ m.digits # << >>
  /\ m.kind = "prefix" => /\ w.again = TRUE /\ w.digits = m.digits /\ m.digits # << >>
                          /\ \/ /\ w.step = "location7" /\ w.ndc7 = m.digits /\ Len(m.digits) = 7
                                /\ w.ndc3 = Take(m.digits, 3)
                             \/ /\ w.step = "operator" /\ w.ndc3 = m.digits /\ w.ndc7 = << >> /\ Len(m.digits) = 3
                                /\ w.location = << >>
  /\ m.kind = "area" => /\ w.step = "tel" /\ w.digits = m.digits /\ w.ndc3 = << >> /\ w.ndc7 = << >>
                        /\ w.operator = << >> /\ m.digits # << >>
  /\ m.kind = "abroad" => w = Done(description)
  /\ m.kind = "nothing" => w = Done(<< >>)
  /\ m.kind \in {"mobile", "prefix", "area", "abroad", "nothing"}

LEMMA MeaningParts ==
  \A kind, digits : Meaning(kind, digits).kind = kind /\ Meaning(kind, digits).digits = digits
  BY DEF Meaning

LEMMA AbroadSuits == \A description : Suits(Done(description), Abroad, description)
<1>1. Abroad.kind = "abroad"
  BY MeaningParts DEF Abroad
<1> QED
  BY <1>1 DEF Suits

LEMMA NothingSuits == \A description : Suits(Done(<< >>), Nothing, description)
<1>1. Nothing.kind = "nothing"
  BY MeaningParts DEF Nothing
<1> QED
  BY <1>1 DEF Suits

\* The first digits of the subscriber's number, and what is to be looked up first.
LEMMA MobileStarts ==
  ASSUME NEW s, NEW prefix \in BOOLEAN,
         NEW r \in Subscribers(s), r[1] = 1, prefix \/ Len(r) >= 7
  PROVE  LET w == MobileWork(s, prefix)
         IN /\ w.again = prefix
            /\ w.ndc3 = Take(r, 3) /\ w.location = << >>
            /\ Len(r) >= 7 => w.step = "location7" /\ w.ndc7 = Take(r, 7) /\ w.digits = Take(r, 7)
            /\ ~(Len(r) >= 7) => w.step = "operator" /\ w.ndc7 = << >> /\ w.digits = Take(r, 3)
<1> DEFINE n == ParseMobilePhoneNumber(s)
           w == MobileWork(s, prefix)
<1>1. Subscriber(s) = r
  BY SubscriberIs
<1>2. n.ndc3 = Take(r, 3) /\ n.ndc7 = IF Len(r) >= 7 THEN Take(r, 7) ELSE << >>
  BY <1>1 DEF ParseMobilePhoneNumber
<1>3. Take(r, 7) # << >>
  <2>1. Len(Take(r, 7)) = 7
    BY TakeLength
  <2> QED
    BY <2>1
<1> HIDE DEF n
<1> DEFINE work == [Done(<< >>) EXCEPT !.ndc3 = n.ndc3, !.ndc7 = n.ndc7, !.again = prefix]
<1>4. /\ DOMAIN work = WorkFields
      /\ work.ndc3 = n.ndc3 /\ work.ndc7 = n.ndc7 /\ work.again = prefix /\ work.location = << >>
  BY DEF Done, WorkFields
<1> HIDE DEF work
<1>5. w = IF n.ndc7 # << >> THEN [work EXCEPT !.step = "location7", !.digits = n.ndc7]
          ELSE IF prefix THEN [work EXCEPT !.step = "operator", !.digits = n.ndc3]
          ELSE work
  BY DEF MobileWork, work, n
<1> HIDE DEF w
<1>6. CASE Len(r) >= 7
  <2>1. n.ndc7 = Take(r, 7) /\ n.ndc7 # << >>
    BY <1>2, <1>3, <1>6
  <2> QED
    BY <1>2, <1>4, <1>5, <1>6, <2>1 DEF WorkFields, w
<1>7. CASE ~(Len(r) >= 7)
  <2>1. n.ndc7 = << >> /\ prefix
    BY <1>2, <1>7
  <2> QED
    BY <1>2, <1>4, <1>5, <1>7, <2>1 DEF WorkFields, w
<1> QED
  BY <1>6, <1>7

LEMMA SomeLength == \A s : \A n \in Nat : Len(s) = n /\ n # 0 => s # << >>
<1> TAKE s
<1> TAKE n \in Nat
<1> SUFFICES ASSUME s = << >>, Len(s) = n PROVE n = 0
  OBVIOUS
<1>1. Len(s) = 0
  OBVIOUS
<1> QED
  BY <1>1

LEMMA ThreeSeven == 3 \in Nat /\ 3 # 0 /\ 7 \in Nat /\ 7 # 0
  OBVIOUS

LEMMA TakeOfTake ==
  ASSUME NEW S, NEW d \in Seq(S), Len(d) >= 7
  PROVE  Take(Take(d, 7), 3) = Take(d, 3) /\ Take(d, 7) # << >> /\ Len(Take(d, 7)) = 7
<1>1. 7 \in Nat /\ 7 <= Len(d) /\ 3 \in Nat /\ 3 <= Len(d)
  OBVIOUS
<1>2. Take(d, 7) \in Seq(S) /\ Len(Take(d, 7)) = 7 /\ \A i \in 1..7 : Take(d, 7)[i] = d[i]
  BY <1>1, TakeType, Zenon
<1>3. Take(d, 3) \in Seq(S) /\ Len(Take(d, 3)) = 3 /\ \A i \in 1..3 : Take(d, 3)[i] = d[i]
  BY <1>1, TakeType, Zenon
<1>4. Take(d, 7) # << >>
  BY <1>2, SomeLength, ThreeSeven, Zenon
<1> DEFINE e == Take(d, 7)
<1>5. Take(e, 3) \in Seq(S) /\ Len(Take(e, 3)) = 3 /\ \A i \in 1..3 : Take(e, 3)[i] = e[i]
  <2>1. e \in Seq(S) /\ 3 \in Nat /\ 3 <= Len(e)
    BY <1>2
  <2> HIDE DEF e
  <2> QED
    BY <2>1, TakeType, Zenon
<1>6. \A i \in 1..3 : i \in 1..7
  OBVIOUS
<1>7. \A i \in 1..3 : Take(e, 3)[i] = Take(d, 3)[i]
  <2> TAKE i \in 1..3
  <2>1. Take(e, 3)[i] = e[i] /\ e[i] = d[i] /\ Take(d, 3)[i] = d[i]
    BY <1>2, <1>3, <1>5, <1>6, Zenon
  <2> HIDE DEF e
  <2> QED
    BY <2>1
<1>8. Take(e, 3) = Take(d, 3)
  <2> HIDE DEF e
  <2>1. Len(Take(e, 3)) = Len(Take(d, 3))
    BY <1>3, <1>5
  <2>2. \A i \in 1..Len(Take(e, 3)) : Take(e, 3)[i] = Take(d, 3)[i]
    BY <1>5, <1>7, Zenon
  <2> QED
    BY <1>3, <1>5, <2>1, <2>2, SeqEqual, Zenon
<1> QED
  BY <1>2, <1>4, <1>8

LEMMA MobileMeant ==
  ASSUME NEW s \in Seq(Dialled), NEW d \in MobilesIn(s), NEW exact, NEW description
  PROVE  Suits(GetAttributionInfo(s, exact, description), Meaning("mobile", Take(d, 7)), description)
<1>1. PICK u : GetAttributionInfo(s, exact, description) = MobileWork(u, FALSE) /\ d \in Subscribers(u)
  <2>1. LooksUp(GetAttributionInfo(s, exact, description), d)
    BY IsMobileFor, Zenon
  <2> QED
    BY <2>1, Zenon DEF LooksUp
<1>2. d \in Seq(Digit) /\ Len(d) = 11 /\ d[1] = 1
  BY DEF MobilesIn, IsMobileNumber, AreDigits
<1>3. Len(d) >= 7
  BY <1>2
<1> DEFINE w == MobileWork(u, FALSE)
           m == Meaning("mobile", Take(d, 7))
<1>4. /\ w.again = FALSE /\ w.ndc3 = Take(d, 3)
      /\ w.step = "location7" /\ w.ndc7 = Take(d, 7) /\ w.digits = Take(d, 7)
  BY <1>1, <1>2, <1>3, MobileStarts
<1>5. Take(Take(d, 7), 3) = Take(d, 3) /\ Take(d, 7) # << >>
  BY <1>2, <1>3, TakeOfTake
<1>6. m.kind = "mobile" /\ m.digits = Take(d, 7)
  BY MeaningParts
<1> HIDE DEF m, w
<1>7. Suits(w, m, description)
  BY <1>4, <1>5, <1>6 DEF Suits
<1> QED
  BY <1>1, <1>7 DEF m, w

LEMMA MobilePrefixMeant ==
  ASSUME NEW s \in Seq(Dialled), NEW p \in MobilePrefixesIn(s), NEW description
  PROVE  Suits(GetAttributionInfo(s, FALSE, description),
               Meaning("prefix", Take(p, IF Len(p) >= 7 THEN 7 ELSE 3)), description)
<1>1. /\ GetAttributionInfo(s, FALSE, description) = MobileWork(s, TRUE)
      /\ p \in Subscribers(s) /\ p \in Seq(Digit) /\ p[1] = 1
  BY IsMobilePrefixFor DEF AreDigits
<1> DEFINE w == MobileWork(s, TRUE)
           m == Meaning("prefix", Take(p, IF Len(p) >= 7 THEN 7 ELSE 3))
<1>2. /\ w.again = TRUE
      /\ w.ndc3 = Take(p, 3) /\ w.location = << >>
      /\ Len(p) >= 7 => w.step = "location7" /\ w.ndc7 = Take(p, 7) /\ w.digits = Take(p, 7)
      /\ ~(Len(p) >= 7) => w.step = "operator" /\ w.ndc7 = << >> /\ w.digits = Take(p, 3)
  BY <1>1, MobileStarts
<1>3. m.kind = "prefix" /\ m.digits = Take(p, IF Len(p) >= 7 THEN 7 ELSE 3)
  BY MeaningParts
<1>4. Len(p) >= 7 => Take(Take(p, 7), 3) = Take(p, 3) /\ Take(p, 7) # << >> /\ Len(Take(p, 7)) = 7
  BY <1>1, TakeOfTake, Zenon
<1>5. Len(Take(p, 3)) = 3 /\ Take(p, 3) # << >>
  BY TakeLength, SomeLength, ThreeSeven, Zenon
<1> HIDE DEF m, w
<1>6. CASE Len(p) >= 7
  <2>1. m.digits = Take(p, 7)
    BY <1>3, <1>6
  <2> QED
    BY <1>1, <1>2, <1>3, <1>4, <1>6, <2>1 DEF Suits, w, m
<1>7. CASE ~(Len(p) >= 7)
  <2>1. m.digits = Take(p, 3)
    BY <1>3, <1>7
  <2> QED
    BY <1>1, <1>2, <1>3, <1>5, <1>7, <2>1 DEF Suits, w, m
<1> QED
  BY <1>6, <1>7

LEMMA AreaMeant ==
  ASSUME NEW d, AreDigits(d), ParseFixPhoneNumber(d) = AreaCode(d), NEW description
  PROVE  Suits(GetFixParseResult(d), Meaning("area", AreaCode(d)), description)
<1> DEFINE w == GetFixParseResult(d)
           m == Meaning("area", AreaCode(d))
<1>1. AreaCode(d) # << >>
  <2>1. Len(AreaCode(d)) \in {3, 4}
    BY TakeLength DEF AreaCode
  <2>2. ASSUME AreaCode(d) = << >> PROVE Len(AreaCode(d)) = 0
    BY <2>2
  <2> QED
    BY <2>1, <2>2
<1>2. /\ w.step = "tel" /\ w.digits = AreaCode(d) /\ w.ndc3 = << >> /\ w.ndc7 = << >>
      /\ w.operator = << >>
  BY <1>1 DEF GetFixParseResult, Done
<1>3. m.kind = "area" /\ m.digits = AreaCode(d)
  BY MeaningParts
<1> HIDE DEF m, w
<1>4. Suits(w, m, description)
  BY <1>1, <1>2, <1>3 DEF Suits
<1> QED
  BY <1>4 DEF w, m

LEMMA NationalSuits ==
  ASSUME NEW s \in Seq(Dialled), NEW exact, NEW description, NEW m \in NationalMeanings(s)
  PROVE  Suits(GetAttributionInfo(s, exact, description), m, description)
<1>1. CASE \E d \in MobilesIn(s) : m = Meaning("mobile", Take(d, 7))
  BY <1>1, MobileMeant
<1>2. CASE \E d \in FixedIn(s) : m = Meaning("area", AreaCode(d))
  BY <1>2, IsFixedFor, AreaMeant
<1> QED
  BY <1>1, <1>2 DEF NationalMeanings

LEMMA InChinaSuits ==
  ASSUME NEW s \in Seq(Dialled), NEW exact \in BOOLEAN, NEW description, NEW m \in MeaningsInChina(s, exact)
  PROVE  Suits(GetAttributionInfo(s, exact, description), m, description)
<1>1. CASE m \in NationalMeanings(s)
  BY <1>1, NationalSuits
<1>2. CASE m = Abroad /\ ForeignIn(s) # {}
  <2>1. GetAttributionInfo(s, exact, description) = Done(description)
    BY <1>2, IsForeignFor
  <2> QED
    BY <1>2, <2>1, AbroadSuits
<1>3. CASE m = Nothing /\ IsNoNumber(s, exact)
  <2>1. GetAttributionInfo(s, exact, description) = Done(<< >>)
    BY <1>3, IsNoNumberFor
  <2> QED
    BY <1>3, <2>1, NothingSuits
<1>4. CASE exact = FALSE /\ \E p \in MobilePrefixesIn(s) : m = Meaning("prefix", Take(p, IF Len(p) >= 7 THEN 7 ELSE 3))
  BY <1>4, MobilePrefixMeant
<1>5. CASE exact = FALSE /\ \E p \in AreaPrefixesIn(s) : m = Meaning("area", AreaCode(p))
  <2>1. PICK p \in AreaPrefixesIn(s) : m = Meaning("area", AreaCode(p))
    BY <1>5
  <2>2. /\ GetAttributionInfo(s, FALSE, description) = GetFixParseResult(p)
        /\ AreDigits(p) /\ ParseFixPhoneNumber(p) = AreaCode(p)
    BY <2>1, IsAreaPrefixFor
  <2>3. Suits(GetFixParseResult(p), Meaning("area", AreaCode(p)), description)
    BY <2>2, AreaMeant
  <2> QED
    BY <1>5, <2>1, <2>2, <2>3
<1>6. \/ m \in NationalMeanings(s)
      \/ m = Abroad /\ ForeignIn(s) # {}
      \/ m = Nothing /\ IsNoNumber(s, exact)
      \/ exact = FALSE /\ m \in PrefixMeanings(s)
  BY DEF MeaningsInChina
<1> QED
  BY <1>1, <1>2, <1>3, <1>4, <1>5, <1>6 DEF PrefixMeanings

LEMMA ElevenDigits == 11 \notin 3..10 /\ ~(11 > 13) /\ ~(11 < 8) /\ ~(11 < 3)
  OBVIOUS

\* Eleven digits behind a 1 are a mobile number or nothing.
LEMMA JustAMobile ==
  ASSUME NEW s \in Seq(Dialled), Len(s) = 11, s[1] = 1, NEW exact \in BOOLEAN, NEW m \in MeaningsInChina(s, exact)
  PROVE  IsMobileNumber(s) /\ m = Meaning("mobile", Take(s, 7))
<1>1. \A r : ~Coded(s, r)
  BY DEF Coded, Plus
<1>2. ~IsPrefix(<<Plus>>, s) /\ ~IsPrefix(<<0, 0>>, s)
  BY HeadElements DEF Plus
<1>3. \A d \in MobilesIn(s) : d = s /\ IsMobileNumber(s)
  <2> TAKE d \in MobilesIn(s)
  <2>1. d \notin Behind(ChinaCodes, s) /\ d \notin Behind({<< 0 >>}, s)
    BY <1>1, SubscriberElements
  <2> QED
    BY <2>1 DEF MobilesIn
<1>4. FixedIn(s) = {}
  <2> SUFFICES ASSUME NEW d \in FixedIn(s) PROVE FALSE
    OBVIOUS
  <2>1. \A r \in Behind(ChinaCodes \ {<<8, 6>>}, s) : r \in Behind(ChinaCodes, s)
    BY DEF Behind
  <2>2. d = s
    BY <1>1, <2>1, SubscriberElements DEF FixedIn
  <2>3. d[1] = 0
    BY DEF FixedIn, IsFixedNumber
  <2> QED
    BY <2>2, <2>3
<1>5. ForeignIn(s) = {}
  BY <1>2 DEF ForeignIn, Behind
<1>6. ~IsNoNumber(s, exact)
  BY ElevenDigits DEF IsNoNumber
<1>7. PrefixMeanings(s) = {}
  <2>1. MobilePrefixesIn(s) = {}
    <3> SUFFICES ASSUME NEW p \in MobilePrefixesIn(s) PROVE FALSE
      OBVIOUS
    <3>1. p \notin Behind({<<8, 6>>}, s)
      BY SubscriberElements
    <3>2. Len(p) \in 3..10
      BY DEF MobilePrefixesIn
    <3> QED
      BY <3>1, <3>2, ElevenDigits DEF MobilePrefixesIn
  <2>2. AreaPrefixesIn(s) = {}
    BY DEF AreaPrefixesIn
  <2> QED
    BY <2>1, <2>2 DEF PrefixMeanings
<1> QED
  BY <1>3, <1>4, <1>5, <1>6, <1>7 DEF MeaningsInChina, NationalMeanings

LEMMA Behinds ==
  ASSUME NEW c \in Seq(Dialled), NEW s \in Seq(Dialled)
  PROVE  /\ c \o s \in Seq(Dialled) /\ Len(c \o s) = Len(c) + Len(s)
         /\ \A i \in 1..Len(c) : (c \o s)[i] = c[i]
         /\ Drop(c \o s, Len(c)) = s
<1>1. /\ c \o s \in Seq(Dialled) /\ Len(c \o s) = Len(c) + Len(s)
      /\ \A i \in 1..Len(c) : (c \o s)[i] = c[i]
      /\ \A i \in 1..Len(s) : (c \o s)[Len(c) + i] = s[i]
      /\ Len(c) \in Nat /\ Len(s) \in Nat
      /\ s = [i \in 1..Len(s) |-> s[i]]
  OBVIOUS
<1>2. Drop(c \o s, Len(c)) = [i \in 1..Len(s) |-> (c \o s)[Len(c) + i]]
  <2>1. SubSeq(c \o s, Len(c) + 1, Len(c \o s)) = [i \in 1..Len(s) |-> (c \o s)[Len(c) + i]]
    BY <1>1
  <2> QED
    BY <2>1 DEF Drop
<1> QED
  BY <1>1, <1>2

LEMMA CodeBefore ==
  ASSUME NEW s \in Seq(Dialled)
  PROVE  <<Plus, 8, 6>> \o s \in Seq(Dialled) /\ Coded(<<Plus, 8, 6>> \o s, s)
<1> DEFINE c == <<Plus, 8, 6>>
<1>1. c \in Seq(Dialled) /\ Len(c) = 3 /\ c[1] = Plus /\ c[2] = 8 /\ c[3] = 6
  BY DEF Dialled, Digit, Plus
<1> HIDE DEF c
<1>2. /\ c \o s \in Seq(Dialled) /\ Len(c \o s) = Len(c) + Len(s)
      /\ \A i \in 1..Len(c) : (c \o s)[i] = c[i]
      /\ Drop(c \o s, Len(c)) = s
  BY <1>1, Behinds, Zenon
<1>3. Len(c \o s) >= 3 /\ Len(s) \in Nat
  BY <1>1, <1>2
<1>4. (c \o s)[1] = Plus /\ (c \o s)[2] = 8 /\ (c \o s)[3] = 6
  BY <1>1, <1>2
<1>5. Drop(c \o s, 3) = s
  BY <1>1, <1>2
<1> QED
  BY <1>2, <1>3, <1>4, <1>5, Zenon DEF Coded, c

LEMMA CodedMobile ==
  ASSUME NEW s \in Seq(Dialled), IsMobileNumber(s)
  PROVE  Meaning("mobile", Take(s, 7)) \in NationalMeanings(<<Plus, 8, 6>> \o s)
<1>1. s \in Behind(ChinaCodes, <<Plus, 8, 6>> \o s)
  BY CodeBefore, SubscriberElements
<1> QED
  BY <1>1 DEF NationalMeanings, MobilesIn

LEMMA DefaultSuits ==
  ASSUME NEW number, NEW exact \in BOOLEAN, NEW description, Trim(number) \in Seq(Dialled),
         NEW m \in MeaningsInChina(Trim(number), exact),
         NEW w \in GetNumberLocationDefault(number, exact, description)
  PROVE  Suits(w, m, description)
<1> DEFINE s == Trim(number)
<1>1. PICK f : f \in {s} \cup E164(s) /\ w = GetAttributionInfo(f, exact, description)
  BY DEF GetNumberLocationDefault
<1>2. CASE f = s
  BY <1>1, <1>2, InChinaSuits
<1>3. CASE f # s
  <2>1. f = <<Plus, 8, 6>> \o s /\ Len(s) = 11 /\ s[1] = 1
    BY <1>1, <1>3 DEF E164
  <2>2. IsMobileNumber(s) /\ m = Meaning("mobile", Take(s, 7))
    BY <2>1, JustAMobile
  <2>3. m \in NationalMeanings(f) /\ f \in Seq(Dialled)
    BY <2>1, <2>2, CodedMobile, CodeBefore
  <2> QED
    BY <1>1, <2>3, NationalSuits
<1> QED
  BY <1>2, <1>3

-----------------------------------------------------------------------------
(* Calls from abroad. *)

LEMMA ExitElements ==
  ASSUME NEW s \in Seq(Dialled)
  PROVE  /\ IsPrefix(<<0, 1, 1>>, s) => Len(s) >= 3 /\ s[1] = 0 /\ s[2] = 1 /\ s[3] = 1
         /\ IsPrefix(<<9, 9, 0>>, s) => Len(s) >= 3 /\ s[1] = 9 /\ s[2] = 9 /\ s[3] = 0
         /\ IsPrefix(<<9, 9, 4>>, s) => Len(s) >= 3 /\ s[1] = 9 /\ s[2] = 9 /\ s[3] = 4
         /\ IsPrefix(<<9, 9, 9>>, s) => Len(s) >= 3 /\ s[1] = 9 /\ s[2] = 9 /\ s[3] = 9
<1>1. \A a, b, c \in Digit : IsPrefix(<<a, b, c>>, s) => Len(s) >= 3 /\ s[1] = a /\ s[2] = b /\ s[3] = c
  <2> SUFFICES ASSUME NEW a \in Digit, NEW b \in Digit, NEW c \in Digit, IsPrefix(<<a, b, c>>, s)
               PROVE  Len(s) >= 3 /\ s[1] = a /\ s[2] = b /\ s[3] = c
    OBVIOUS
  <2> DEFINE p == <<a, b, c>>
  <2>1. p \in Seq(Dialled) /\ Len(p) = 3 /\ p[1] = a /\ p[2] = b /\ p[3] = c /\ Len(s) \in Nat
    BY DEF Dialled
  <2> HIDE DEF p
  <2>2. Len(p) <= Len(s) /\ \A i \in 1..Len(p) : p[i] = s[i]
    BY <2>1, PrefixElements, Zenon DEF p
  <2> QED
    BY <2>1, <2>2
<1>2. 0 \in Digit /\ 1 \in Digit /\ 4 \in Digit /\ 9 \in Digit
  BY DEF Digit
<1> QED
  BY <1>1, <1>2, Zenon

LEMMA ExitCodes ==
  /\ DOMAIN InternationPrefix = {"US", "CA", "FI", "CN"}
  /\ DOMAIN InternationPrefix["CN"] = {}
  /\ \A iso \in {"US", "CA"} : DOMAIN InternationPrefix[iso] = {1} /\ InternationPrefix[iso][1] = <<0, 1, 1>>
  /\ LET p == InternationPrefix["FI"]
     IN /\ DOMAIN p = {1, 2, 3, 4}
        /\ p[1] = <<9, 9, 0>> /\ p[2] = <<9, 9, 4>> /\ p[3] = <<9, 9, 9>> /\ p[4] = <<0, 0>>
  BY DEF InternationPrefix

LEMMA FinnishExits ==
  ASSUME NEW F, NEW a, NEW b, NEW c,
         F \subseteq {1, 2, 3, 4},
         1 \in F => a = 9 /\ b = 9 /\ c = 0,
         2 \in F => a = 9 /\ b = 9 /\ c = 4,
         3 \in F => a = 9 /\ b = 9 /\ c = 9,
         4 \in F => a = 0 /\ b = 0
  PROVE  \A i, j \in F : i = j
<1>1. \A i \in F : i = 1 \/ i = 2 \/ i = 3 \/ i = 4
  OBVIOUS
<1>2. (1 \in F => 2 \notin F /\ 3 \notin F /\ 4 \notin F) /\ (2 \in F => 3 \notin F /\ 4 \notin F) /\ (3 \in F => 4 \notin F)
  OBVIOUS
<1> QED
  BY <1>1, <1>2

\* No two codes of a country begin a number.
LEMMA OneExit ==
  ASSUME NEW s \in Seq(Dialled), NEW iso \in DOMAIN InternationPrefix
  PROVE  \A i \in DOMAIN InternationPrefix[iso] :
            /\ i \in Nat
            /\ IsPrefix(InternationPrefix[iso][i], s) =>
                 /\ Len(InternationPrefix[iso][i]) \in Nat /\ Len(InternationPrefix[iso][i]) <= Len(s)
                 /\ \A j \in DOMAIN InternationPrefix[iso] : IsPrefix(InternationPrefix[iso][j], s) => i = j
<1>1. CASE iso = "CN"
  BY <1>1, ExitCodes
<1>2. CASE iso \in {"US", "CA"}
  <2> DEFINE p == InternationPrefix[iso]
  <2>1. DOMAIN p = {1} /\ p[1] = <<0, 1, 1>>
    BY <1>2, ExitCodes, Zenon
  <2>2. Len(p[1]) = 3 /\ 1 \in Nat
    BY <2>1
  <2> HIDE DEF p
  <2>3. IsPrefix(p[1], s) => Len(p[1]) \in Nat /\ Len(p[1]) <= Len(s)
    BY <2>1, <2>2, ExitElements
  <2>4. \A i \in DOMAIN p :
            /\ i \in Nat
            /\ IsPrefix(p[i], s) => /\ Len(p[i]) \in Nat /\ Len(p[i]) <= Len(s)
                                    /\ \A j \in DOMAIN p : IsPrefix(p[j], s) => i = j
    BY <2>1, <2>2, <2>3
  <2> QED
    BY <2>4, Zenon DEF p
<1>3. CASE iso = "FI"
  <2> DEFINE p == InternationPrefix["FI"]
  <2>1. /\ DOMAIN p = {1, 2, 3, 4}
        /\ p[1] = <<9, 9, 0>> /\ p[2] = <<9, 9, 4>> /\ p[3] = <<9, 9, 9>> /\ p[4] = <<0, 0>>
    BY ExitCodes, Zenon
  <2>2. Len(p[1]) = 3 /\ Len(p[2]) = 3 /\ Len(p[3]) = 3 /\ Len(p[4]) = 2
    BY <2>1
  <2> HIDE DEF p
  <2>3. /\ IsPrefix(p[1], s) => Len(s) >= 3 /\ s[1] = 9 /\ s[2] = 9 /\ s[3] = 0
        /\ IsPrefix(p[2], s) => Len(s) >= 3 /\ s[1] = 9 /\ s[2] = 9 /\ s[3] = 4
        /\ IsPrefix(p[3], s) => Len(s) >= 3 /\ s[1] = 9 /\ s[2] = 9 /\ s[3] = 9
        /\ IsPrefix(p[4], s) => Len(s) >= 2 /\ s[1] = 0 /\ s[2] = 0
    BY <2>1, ExitElements, HeadElements, Zenon
  <2> DEFINE F == {i \in DOMAIN p : IsPrefix(p[i], s)}
  <2>4. \A i, j \in F : i = j
    <3>1. F \subseteq {1, 2, 3, 4}
      BY <2>1
    <3>2. \A i : i \in F => IsPrefix(p[i], s)
      OBVIOUS
    <3> HIDE DEF F
    <3> QED
      BY <2>3, <3>1, <3>2, FinnishExits, Zenon
  <2>5. \A i \in {1, 2, 3, 4} : i \in Nat /\ (IsPrefix(p[i], s) => Len(p[i]) \in Nat /\ Len(p[i]) <= Len(s))
    <3>1. /\ IsPrefix(p[1], s) => Len(p[1]) <= Len(s)
          /\ IsPrefix(p[2], s) => Len(p[2]) <= Len(s)
          /\ IsPrefix(p[3], s) => Len(p[3]) <= Len(s)
          /\ IsPrefix(p[4], s) => Len(p[4]) <= Len(s)
      BY <2>2, <2>3
    <3>2. \A i \in {1, 2, 3, 4} : i \in Nat
      OBVIOUS
    <3> QED
      BY <2>2, <3>1, <3>2
  <2>6. \A i \in DOMAIN p :
            /\ i \in Nat
            /\ IsPrefix(p[i], s) => /\ Len(p[i]) \in Nat /\ Len(p[i]) <= Len(s)
                                    /\ \A j \in DOMAIN p : IsPrefix(p[j], s) => i = j
    BY <2>1, <2>4, <2>5
  <2> QED
    BY <1>3, <2>6, Zenon DEF p
<1> QED
  BY <1>1, <1>2, <1>3, ExitCodes

\* There is one way to cut off an exit code.
LEMMA OneInternational ==
  ASSUME NEW s \in Seq(Dialled), NEW iso \in DOMAIN InternationPrefix
  PROVE  /\ International(s, iso) = {DeleteInternationalPrefix(s, iso)}
         /\ DeleteInternationalPrefix(s, iso) \in Seq(Dialled)
<1> DEFINE p == InternationPrefix[iso]
           fits == {i \in DOMAIN p : IsPrefix(p[i], s)}
           exits == Behind(Range(p), s)
<1>1. exits = {Drop(s, Len(p[i])) : i \in fits}
  BY DEF Behind, Range
<1>2. \A i, j \in fits : i = j
  BY OneExit
<1>3. International(s, iso) = IF exits = {} THEN {s} ELSE {<<Plus>> \o r : r \in exits}
  BY DEF International
<1>4. DeleteInternationalPrefix(s, iso) =
        IF fits = {} THEN s
        ELSE <<Plus>> \o Drop(s, Len(p[CHOOSE i \in fits : \A j \in fits : i <= j]))
  BY DEF DeleteInternationalPrefix
<1>5. \A i \in fits : i \in Nat /\ Len(p[i]) \in Nat /\ Len(p[i]) <= Len(s)
  BY OneExit
<1> HIDE DEF exits
<1>6. CASE fits = {}
  BY <1>1, <1>3, <1>4, <1>6
<1>7. CASE fits # {}
  <2>1. PICK i \in fits : TRUE
    BY <1>7
  <2> HIDE DEF fits
  <2>2. fits = {i} /\ i <= i
    BY <1>2, <1>5, <2>1
  <2>3. (CHOOSE k \in fits : \A j \in fits : k <= j) = i
    BY <2>2
  <2>4. exits = {Drop(s, Len(p[i]))}
    BY <1>1, <2>2
  <2>5. International(s, iso) = {<<Plus>> \o Drop(s, Len(p[i]))}
    BY <1>3, <2>4
  <2>6. DeleteInternationalPrefix(s, iso) = <<Plus>> \o Drop(s, Len(p[i]))
    BY <1>4, <2>2, <2>3
  <2>7. Drop(s, Len(p[i])) \in Seq(Dialled)
    BY <1>5, <2>1, DropType, Zenon
  <2>8. <<Plus>> \in Seq(Dialled)
    BY DEF Dialled
  <2>9. <<Plus>> \o Drop(s, Len(p[i])) \in Seq(Dialled)
    BY <2>7, <2>8, Behinds, Zenon
  <2> QED
    BY <2>5, <2>6, <2>9
<1> QED
  BY <1>6, <1>7

-----------------------------------------------------------------------------
(* A number without its blanks. *)

\* g computes Keep(s, S) up to the n-th element.
IsKept(g, s, S, n) ==
  g = [m \in 0..n |-> IF m = 0 THEN << >>
                      ELSE IF s[m] \in S THEN Append(g[m - 1], s[m]) ELSE g[m - 1]]

LEMMA KeptExists ==
  ASSUME NEW s, NEW S
  PROVE  \A n \in Nat : \E g : IsKept(g, s, S, n)
<1> DEFINE N == {n \in Nat : \E g : IsKept(g, s, S, n)}
<1>1. 0 \in N
  <2>1. IsKept([m \in 0..0 |-> << >>], s, S, 0)
    BY DEF IsKept
  <2> QED
    BY <2>1
<1>2. ASSUME NEW n \in Nat, n \in N PROVE n + 1 \in N
  <2>1. PICK g : IsKept(g, s, S, n)
    BY <1>2
  <2> DEFINE h == [m \in 0..(n + 1) |->
                      IF m # n + 1 THEN g[m]
                      ELSE IF s[m] \in S THEN Append(g[m - 1], s[m]) ELSE g[m - 1]]
  <2>2. \A m \in 0..n : g[m] = IF m = 0 THEN << >>
                               ELSE IF s[m] \in S THEN Append(g[m - 1], s[m]) ELSE g[m - 1]
    BY <2>1 DEF IsKept
  <2>3. \A m \in 0..n : h[m] = g[m]
    OBVIOUS
  <2>4. h[n + 1] = IF s[n + 1] \in S THEN Append(h[n], s[n + 1]) ELSE h[n]
    BY <2>3
  <2>5. \A m \in 0..(n + 1) : h[m] = IF m = 0 THEN << >>
                               ELSE IF s[m] \in S THEN Append(h[m - 1], s[m]) ELSE h[m - 1]
    <3> HIDE DEF h
    <3> SUFFICES ASSUME NEW m \in 0..(n + 1)
                 PROVE  h[m] = IF m = 0 THEN << >>
                               ELSE IF s[m] \in S THEN Append(h[m - 1], s[m]) ELSE h[m - 1]
      OBVIOUS
    <3>1. CASE m = n + 1
      BY <2>4, <3>1
    <3>2. CASE m # n + 1
      <4>1. m \in 0..n /\ (m # 0 => m - 1 \in 0..n)
        BY <3>2
      <4> QED
        BY <2>2, <2>3, <4>1
    <3> QED
      BY <3>1, <3>2
  <2>6. h = [m \in 0..(n + 1) |-> h[m]]
    OBVIOUS
  <2>7. IsKept(h, s, S, n + 1)
    <3> HIDE DEF h
    <3> QED
      BY <2>5, <2>6 DEF IsKept
  <2> QED
    BY <2>7
<1> HIDE DEF N
<1>3. \A n \in Nat : n \in N
  BY <1>1, <1>2, Induct
<1> QED
  BY <1>3 DEF N

LEMMA KeptUnique ==
  ASSUME NEW s, NEW S, NEW n \in Nat, NEW g, NEW h, IsKept(g, s, S, n), IsKept(h, s, S, n)
  PROVE  g[n] = h[n]
<1> DEFINE N == {k \in Nat : k <= n => g[k] = h[k]}
<1>1. \A f : IsKept(f, s, S, n) =>
        \A m \in 0..n : f[m] = IF m = 0 THEN << >>
                               ELSE IF s[m] \in S THEN Append(f[m - 1], s[m]) ELSE f[m - 1]
  BY DEF IsKept
<1>2. 0 \in N
  BY <1>1
<1>3. ASSUME NEW k \in Nat, k \in N PROVE k + 1 \in N
  <2> SUFFICES ASSUME k + 1 <= n PROVE g[k + 1] = h[k + 1]
    OBVIOUS
  <2>1. g[k] = h[k] /\ k + 1 \in 0..n /\ k + 1 # 0 /\ (k + 1) - 1 = k
    BY <1>3
  <2> QED
    BY <1>1, <2>1
<1> HIDE DEF N
<1>4. \A k \in Nat : k \in N
  BY <1>2, <1>3, Induct
<1> QED
  BY <1>4 DEF N

LEMMA KeepIsKept ==
  ASSUME NEW s, Len(s) \in Nat, NEW S
  PROVE  \E g : IsKept(g, s, S, Len(s)) /\ Keep(s, S) = g[Len(s)]
<1> DEFINE kept == CHOOSE g : g = [m \in 0..Len(s) |->
                      IF m = 0 THEN << >>
                      ELSE IF s[m] \in S THEN Append(g[m - 1], s[m]) ELSE g[m - 1]]
<1>1. PICK g : IsKept(g, s, S, Len(s))
  BY KeptExists
<1>3. IsKept(kept, s, S, Len(s))
  BY <1>1, Zenon DEF IsKept
<1>2. Keep(s, S) = kept[Len(s)]
  BY DEF Keep
<1> QED
  BY <1>2, <1>3

LEMMA KeepSame ==
  ASSUME NEW s, Len(s) \in Nat, NEW S, NEW T, \A i \in 1..Len(s) : s[i] \in S <=> s[i] \in T
  PROVE  Keep(s, S) = Keep(s, T)
<1>1. PICK g : IsKept(g, s, S, Len(s)) /\ Keep(s, S) = g[Len(s)]
  BY KeepIsKept
<1>2. PICK h : IsKept(h, s, T, Len(s)) /\ Keep(s, T) = h[Len(s)]
  BY KeepIsKept
<1>3. \A m \in 0..Len(s) : m # 0 => m \in 1..Len(s)
  OBVIOUS
<1>4. IsKept(g, s, T, Len(s))
  <2>1. \A m \in 0..Len(s) :
          (IF m = 0 THEN << >> ELSE IF s[m] \in S THEN Append(g[m - 1], s[m]) ELSE g[m - 1])
        = (IF m = 0 THEN << >> ELSE IF s[m] \in T THEN Append(g[m - 1], s[m]) ELSE g[m - 1])
    BY <1>3
  <2>2. g = [m \in 0..Len(s) |->
                IF m = 0 THEN << >> ELSE IF s[m] \in S THEN Append(g[m - 1], s[m]) ELSE g[m - 1]]
    BY <1>1 DEF IsKept
  <2>3. g = [m \in 0..Len(s) |->
                IF m = 0 THEN << >> ELSE IF s[m] \in T THEN Append(g[m - 1], s[m]) ELSE g[m - 1]]
    BY <2>1, <2>2
  <2> QED
    BY <2>3 DEF IsKept
<1> QED
  BY <1>1, <1>2, <1>4, KeptUnique

LEMMA KeepType ==
  ASSUME NEW R, NEW s \in Seq(R), NEW S
  PROVE  Keep(s, S) \in Seq(R)
<1>1. Len(s) \in Nat /\ \A i \in 1..Len(s) : s[i] \in R
  OBVIOUS
<1>2. PICK g : IsKept(g, s, S, Len(s)) /\ Keep(s, S) = g[Len(s)]
  BY <1>1, KeepIsKept
<1> DEFINE N == {k \in Nat : k <= Len(s) => g[k] \in Seq(R)}
<1>3. \A m \in 0..Len(s) : g[m] = IF m = 0 THEN << >>
                                  ELSE IF s[m] \in S THEN Append(g[m - 1], s[m]) ELSE g[m - 1]
  BY <1>2 DEF IsKept
<1>4. 0 \in N
  <2>1. g[0] = << >>
    BY <1>1, <1>3
  <2>2. << >> \in Seq(R)
    OBVIOUS
  <2>3. g[0] \in Seq(R)
    BY <2>1, <2>2, Zenon
  <2> QED
    BY <2>3
<1>5. ASSUME NEW k \in Nat, k \in N PROVE k + 1 \in N
  <2> SUFFICES ASSUME k + 1 <= Len(s) PROVE g[k + 1] \in Seq(R)
    OBVIOUS
  <2>1. g[k] \in Seq(R) /\ k + 1 \in 0..Len(s) /\ k + 1 \in 1..Len(s) /\ k + 1 # 0 /\ (k + 1) - 1 = k
    BY <1>1, <1>5
  <2>2. g[k + 1] = IF s[k + 1] \in S THEN Append(g[k], s[k + 1]) ELSE g[k]
    BY <1>3, <2>1
  <2>3. s[k + 1] \in R
    BY <1>1, <2>1
  <2> QED
    BY <2>1, <2>2, <2>3
<1> HIDE DEF N
<1>6. \A k \in Nat : k \in N
  BY <1>4, <1>5, Induct
<1>7. Len(s) \in N
  BY <1>1, <1>6
<1> QED
  BY <1>1, <1>2, <1>7 DEF N

LEMMA TrimIs ==
  ASSUME NEW s \in Seq(Dialled)
  PROVE  Trim(s) = WithoutBlanks(s) /\ Trim(s) \in Seq(Dialled)
<1>1. Len(s) \in Nat /\ DOMAIN s = 1..Len(s) /\ \A i \in 1..Len(s) : s[i] \in Dialled
  OBVIOUS
<1>2. \A i \in 1..Len(s) : s[i] \in Range(s)
  BY <1>1 DEF Range
<1>3. \A x \in Dialled : x \in Digit \cup {Plus} <=> x # Blank
  BY DEF Dialled, Digit, Plus, Blank
<1>4. \A i \in 1..Len(s) : s[i] \in Range(s) \ {Blank} <=> s[i] \in Digit \cup {Plus}
  BY <1>1, <1>2, <1>3
<1>5. Trim(s) = WithoutBlanks(s)
  BY <1>1, <1>4, KeepSame DEF Trim, WithoutBlanks
<1>6. Trim(s) \in Seq(Dialled)
  BY KeepType DEF Trim
<1> QED
  BY <1>5, <1>6

-----------------------------------------------------------------------------
(* As it is dialled. *)

LEMMA IpHeadLength == \A h \in IpHeads : h \in Seq(Digit) /\ Len(h) = 5
<1>1. \A a, b, c, d, e \in Digit : <<a, b, c, d, e>> \in Seq(Digit)
  OBVIOUS
<1>2. /\ 0 \in Digit /\ 1 \in Digit /\ 2 \in Digit /\ 3 \in Digit /\ 4 \in Digit
      /\ 5 \in Digit /\ 6 \in Digit /\ 7 \in Digit /\ 8 \in Digit /\ 9 \in Digit
  BY DEF Digit
<1>3. /\ <<1,7,9,0,0>> \in Seq(Digit) /\ <<1,7,9,0,1>> \in Seq(Digit) /\ <<1,7,9,0,8>> \in Seq(Digit)
      /\ <<1,7,9,0,9>> \in Seq(Digit) /\ <<1,1,8,0,8>> \in Seq(Digit) /\ <<1,7,9,5,0>> \in Seq(Digit)
      /\ <<1,7,9,5,1>> \in Seq(Digit) /\ <<1,2,5,9,3>> \in Seq(Digit) /\ <<1,7,9,3,1>> \in Seq(Digit)
      /\ <<1,7,9,1,0>> \in Seq(Digit) /\ <<1,7,9,1,1>> \in Seq(Digit) /\ <<1,7,9,6,0>> \in Seq(Digit)
      /\ <<1,7,9,6,8>> \in Seq(Digit) /\ <<1,7,9,6,9>> \in Seq(Digit) /\ <<1,0,1,9,3>> \in Seq(Digit)
      /\ <<9,6,4,3,5>> \in Seq(Digit)
  BY <1>1, <1>2, Zenon
<1>4. \A h \in IpHeads : h \in Seq(Digit)
  BY <1>3, Zenon DEF IpHeads
<1>5. \A h \in IpHeads : Len(h) = 5
  BY DEF IpHeads
<1> QED
  BY <1>4, <1>5, Zenon

LEMMA IpHeadIs ==
  ASSUME NEW s \in Seq(Dialled)
  PROVE  WithoutIpHead(s) = IpHeadBarber(s) /\ IpHeadBarber(s) \in Seq(Dialled)
<1>1. \A h \in IpHeads : IsPrefix(h, s) <=> Len(s) >= 5 /\ Take(s, 5) = h
  <2> TAKE h \in IpHeads
  <2>1. h \in Seq(Digit) /\ Len(h) = 5
    BY IpHeadLength
  <2>2. SubSeq(h, 1, 5) = h
    BY <2>1
  <2>3. Len(s) \in Nat
    OBVIOUS
  <2> QED
    BY <2>1, <2>2, <2>3 DEF IsPrefix, Take
<1>2. Behind(IpHeads, s) = {Drop(s, Len(h)) : h \in {h \in IpHeads : IsPrefix(h, s)}}
  BY DEF Behind
<1>3. CASE Len(s) >= 5 /\ Take(s, 5) \in IpHeads
  <2>1. {h \in IpHeads : IsPrefix(h, s)} = {Take(s, 5)}
    BY <1>1, <1>3
  <2>2. Len(Take(s, 5)) = 5
    BY <1>3, IpHeadLength
  <2>3. Behind(IpHeads, s) = {Drop(s, 5)}
    BY <1>2, <2>1, <2>2
  <2>4. WithoutIpHead(s) = Drop(s, 5)
    BY <2>3 DEF WithoutIpHead
  <2>5. Drop(s, 5) \in Seq(Dialled)
    BY <1>3, DropType
  <2> QED
    BY <1>3, <2>4, <2>5 DEF IpHeadBarber
<1>4. CASE ~(Len(s) >= 5 /\ Take(s, 5) \in IpHeads)
  <2>1. {h \in IpHeads : IsPrefix(h, s)} = {}
    BY <1>1, <1>4
  <2>2. Behind(IpHeads, s) = {}
    BY <1>2, <2>1
  <2> QED
    BY <1>4, <2>2 DEF IpHeadBarber, WithoutIpHead
<1> QED
  BY <1>3, <1>4

\* A number from abroad that is not Chinese is one that the patterns take for foreign.
LEMMA NatIsForeign ==
  ASSUME NEW s \in Seq(Dialled), NAT_PATTERN(s), ~IsChinese(s)
  PROVE  ForeignIn(s) # {}
<1>1. ~IsPrefix(<<Plus, 8, 6>>, s) /\ ~IsPrefix(<<0, 0, 8, 6>>, s)
  <2>1. <<Plus, 8, 6>> \in ChinaCodes \ {<<8, 6>>} /\ <<0, 0, 8, 6>> \in ChinaCodes \ {<<8, 6>>}
    <3>1. <<8, 6>> # <<Plus, 8, 6>> /\ <<8, 6>> # <<0, 0, 8, 6>>
      BY HeadLengths
    <3> QED
      BY <3>1, Zenon DEF ChinaCodes
  <2> QED
    BY <2>1, Zenon DEF IsChinese
<1>2. PICK c \in {<<Plus>>, <<0, 0>>} :
        IsPrefix(c, s) /\ AreDigits(Drop(s, Len(c))) /\ s[Len(c) + 1] # 0 /\ Len(s) <= 16
  BY DEF NAT_PATTERN
<1> DEFINE r == Drop(s, Len(c))
<1>3. /\ Len(c) \in Nat /\ Len(c) <= Len(s)
      /\ \/ Len(c) = 1 /\ s[1] = Plus
         \/ Len(c) = 2 /\ s[1] = 0 /\ s[2] = 0
  BY <1>2, HeadElements, HeadLengths
<1>4. r \in Seq(Dialled) /\ Len(s) = Len(c) + Len(r) /\ \A i \in 1..Len(r) : r[i] = s[Len(c) + i]
  BY <1>3, DropType
<1>5. Len(r) >= 1 /\ Len(r) \in Nat
  BY <1>2, <1>4, DigitElements
<1> HIDE DEF r
<1>6. r[1] = s[Len(c) + 1]
  BY <1>4, <1>5
<1>7. ~IsPrefix(<<8, 6>>, r)
  <2> SUFFICES ASSUME Len(r) >= 2, r[1] = 8, r[2] = 6 PROVE FALSE
    BY <1>4, HeadElements, Zenon
  <2>1. s[Len(c) + 1] = 8 /\ s[Len(c) + 2] = 6
    BY <1>4, <1>5
  <2>2. Len(s) >= Len(c) + 2
    BY <1>3, <1>4, <1>5
  <2>3. CASE Len(c) = 1 /\ s[1] = Plus
    <3>1. Len(s) >= 3 /\ s[2] = 8 /\ s[3] = 6
      BY <2>1, <2>2, <2>3
    <3> QED
      BY <1>1, <2>3, <3>1, HeadElements, Zenon
  <2>4. CASE Len(c) = 2 /\ s[1] = 0 /\ s[2] = 0
    <3>1. Len(s) >= 4 /\ s[3] = 8 /\ s[4] = 6
      BY <2>1, <2>2, <2>4
    <3> QED
      BY <1>1, <2>4, <3>1, HeadElements, Zenon
  <2> QED
    BY <1>3, <2>3, <2>4
<1>8. r \in Behind({<<Plus>>, <<0, 0>>}, s)
  BY <1>2 DEF Behind, r
<1> QED
  BY <1>2, <1>6, <1>7, <1>8 DEF ForeignIn, r

LEMMA AbroadMeant ==
  ASSUME NEW number \in Seq(Dialled), NEW iso \in DOMAIN InternationPrefix, NEW exact, NEW description,
         NEW m \in MeaningsAbroad(number, iso)
  PROVE  Suits(GetNumberLocationNotCn(number, iso, exact, description), m, description)
<1> DEFINE s == DeleteInternationalPrefix(number, iso)
           w == GetNumberLocationNotCn(number, iso, exact, description)
<1>1. CASE Len(number) < 7
  <2>1. m = Nothing /\ w = Done(<< >>)
    BY <1>1 DEF MeaningsAbroad, GetNumberLocationNotCn
  <2> QED
    BY <2>1, NothingSuits
<1>2. CASE ~(Len(number) < 7)
  <2>1. s \in Seq(Dialled) /\ International(number, iso) = {s}
    BY OneInternational
  <2>2. w = IF IsPrefix(<<Plus, 8, 6>>, s) \/ IsPrefix(<<0, 0, 8, 6>>, s) \/ NAT_PATTERN(s)
            THEN GetAttributionInfo(s, exact, description) ELSE Done(description)
    BY <1>2 DEF GetNumberLocationNotCn
  <2> HIDE DEF s, w
  <2>3. m \in IF IsChinese(s) THEN NationalMeanings(s) ELSE {Abroad}
    BY <1>2, <2>1 DEF MeaningsAbroad
  <2>4. CASE IsChinese(s)
    <3>1. IsPrefix(<<Plus, 8, 6>>, s) \/ IsPrefix(<<0, 0, 8, 6>>, s)
      BY <2>4, Zenon DEF IsChinese, ChinaCodes
    <3>2. w = GetAttributionInfo(s, exact, description)
      BY <2>2, <3>1, Zenon
    <3>3. Suits(GetAttributionInfo(s, exact, description), m, description)
      BY <2>1, <2>3, <2>4, NationalSuits
    <3> QED
      BY <3>2, <3>3 DEF w
  <2>5. CASE ~IsChinese(s)
    <3>1. w = Done(description)
      <4>1. CASE NAT_PATTERN(s)
        <5>1. PICK r : r \in ForeignIn(s)
          BY <2>1, <2>5, <4>1, NatIsForeign
        <5>2. GetAttributionInfo(s, exact, description) = Done(description)
          BY <2>1, <5>1, IsForeignFor
        <5> QED
          BY <2>2, <4>1, <5>2
      <4>2. CASE ~NAT_PATTERN(s)
        <5>1. ~IsPrefix(<<Plus, 8, 6>>, s) /\ ~IsPrefix(<<0, 0, 8, 6>>, s)
          <6>1. <<8, 6>> # <<Plus, 8, 6>> /\ <<8, 6>> # <<0, 0, 8, 6>>
            BY HeadLengths
          <6> QED
            BY <2>5, <6>1, Zenon DEF IsChinese, ChinaCodes
        <5> QED
          BY <2>2, <4>2, <5>1, Zenon
      <4> QED
        BY <4>1, <4>2
    <3> QED
      BY <2>3, <2>5, <3>1, AbroadSuits DEF w
  <2> QED
    BY <2>4, <2>5
<1> QED
  BY <1>1, <1>2

\* However a number is written, the digits looked up are those of each meaning it has.
LEMMA LocationSuits ==
  ASSUME NEW number \in Seq(Dialled), NEW exact \in BOOLEAN, NEW iso \in DOMAIN InternationPrefix, NEW description,
         NEW w \in GetNumberLocation(number, exact, iso, description), NEW m \in MeaningsHere(number, exact, iso)
  PROVE  Suits(w, m, description)
<1> DEFINE s == IpHeadBarber(number)
<1>1. WithoutIpHead(number) = s /\ s \in Seq(Dialled)
  BY IpHeadIs
<1>2. CASE place.region # "CN"
  <2>1. m = IF Len(number) < 7 THEN Nothing ELSE Abroad
    BY <1>2 DEF MeaningsHere
  <2>2. CASE number = << >>
    <3>1. Len(number) < 7
      BY <2>2
    <3>2. w = Done(<< >>)
      BY <2>2 DEF GetNumberLocation
    <3> QED
      BY <2>1, <3>1, <3>2, NothingSuits
  <2>3. CASE number # << >>
    <3>1. w = Done(IF Len(number) < 7 THEN << >> ELSE description)
      BY <1>2, <2>3 DEF GetNumberLocation
    <3> QED
      BY <2>1, <3>1, NothingSuits, AbroadSuits
  <2> QED
    BY <2>2, <2>3
<1>3. CASE place.region = "CN"
  <2>1. m \in IF s = << >> THEN {Nothing}
              ELSE IF iso = "CN" THEN MeaningsInChina(WithoutBlanks(s), exact)
              ELSE MeaningsAbroad(s, iso)
    BY <1>1, <1>3 DEF MeaningsHere, Meanings
  <2>2. number = << >> => s = << >>
    BY DEF IpHeadBarber
  <2>3. w \in IF s = << >> THEN {Done(<< >>)}
              ELSE IF iso = "CN" THEN GetNumberLocationDefault(s, exact, description)
              ELSE {GetNumberLocationNotCn(s, iso, exact, description)}
    BY <1>3, <2>2 DEF GetNumberLocation
  <2> HIDE DEF s
  <2>4. CASE s = << >>
    BY <2>1, <2>3, <2>4, NothingSuits
  <2>5. CASE s # << >> /\ iso = "CN"
    <3>1. Trim(s) = WithoutBlanks(s) /\ Trim(s) \in Seq(Dialled)
      BY <1>1, TrimIs
    <3> QED
      BY <2>1, <2>3, <2>5, <3>1, DefaultSuits
  <2>6. CASE s # << >> /\ iso # "CN"
    BY <1>1, <2>1, <2>3, <2>6, AbroadMeant
  <2> QED
    BY <2>4, <2>5, <2>6
<1> QED
  BY <1>2, <1>3

-----------------------------------------------------------------------------
(* The answers are those published for what the numbers mean. *)

Descriptions == {<< >>, <<"abroad">>}

\* What the work of a query owes to a meaning of its number, from the first lookup to the last.
Owes(w, m) ==
  /\ m.kind = "mobile" => w.step # "tel" /\ w.ndc7 = m.digits /\ w.again = FALSE /\ m.digits # << >>
  /\ m.kind = "prefix" =>
       /\ w.again = TRUE /\ m.digits # << >>
       /\ \/ w.step # "tel" /\ w.ndc7 = m.digits /\ Len(m.digits) = 7
          \/ /\ w.step \in {"operator", "done"} /\ w.ndc3 = m.digits /\ w.ndc7 = << >>
             /\ Len(m.digits) = 3 /\ w.location = << >>
  /\ m.kind = "area" => /\ w.step \in {"tel", "done"} /\ w.digits = m.digits /\ m.digits # << >>
                        /\ w.ndc3 = << >> /\ w.operator = << >>
  /\ m.kind = "abroad" => w.step = "done" /\ w.location \in Descriptions /\ w.operator = << >>
  /\ m.kind = "nothing" => w.step = "done" /\ w.location = << >> /\ w.operator = << >>
  /\ m.kind \in {"mobile", "prefix", "area", "abroad", "nothing"}

LEMMA SuitsOwes ==
  ASSUME NEW w, NEW m, NEW description \in Descriptions, Suits(w, m, description)
  PROVE  Owes(w, m)
<1>1. \A d : Done(d).step = "done" /\ Done(d).location = d /\ Done(d).operator = << >>
  BY DEF Done
<1> QED
  BY <1>1 DEF Suits, Owes

LEMMA AdvanceOwes ==
  ASSUME NEW w, IsWork(w), w.step # "done", NEW m, Owes(w, m), NEW name
  PROVE  Owes(Advance(w, name), m)
<1>1. PICK x : x = Advance(w, name)
  OBVIOUS
<1>2. Goes(w, name, x) /\ w.step \in WorkSteps /\ IsWork(x) /\ x.step \in WorkSteps
  BY <1>1, AdvanceGoes, AdvanceIsWork DEF IsWork
<1>3. w.step = "tel" => x.operator = << >>
  <2>1. w.step = "tel" => x = [Done(name) EXCEPT !.digits = w.digits]
    BY <1>1 DEF Advance
  <2> QED
    BY <2>1 DEF Done
<1>4. CASE m.kind = "mobile"
  BY <1>1, <1>2, <1>4 DEF Owes, Goes, WorkSteps, SevenSteps
<1>5. CASE m.kind = "prefix" /\ w.step # "tel" /\ w.ndc7 = m.digits /\ Len(m.digits) = 7
  BY <1>1, <1>2, <1>5 DEF Owes, Goes, WorkSteps, SevenSteps
<1>6. CASE /\ m.kind = "prefix" /\ w.step \in {"operator", "done"} /\ w.ndc3 = m.digits /\ w.ndc7 = << >>
           /\ Len(m.digits) = 3 /\ w.location = << >>
  BY <1>1, <1>2, <1>6 DEF Owes, Goes, WorkSteps, SevenSteps
<1>7. CASE m.kind = "area"
  BY <1>1, <1>2, <1>3, <1>7 DEF Owes, Goes
<1> QED
  BY <1>4, <1>5, <1>6, <1>7 DEF Owes

\* What an answer consists of.
LEMMA OwedIsKnown ==
  ASSUME NEW w, w.step = "done", NEW m, Owes(w, m), NEW seen, Follows(w, seen)
  PROVE  Joined(w.location, w.operator) \in Known(m, seen)
<1>1. CASE m.kind = "mobile"
  <2>1. w.location \in PlacesOf(m.digits, seen) /\ w.operator \in OperatorsOf(m.digits, seen)
    BY <1>1 DEF Owes, Follows
  <2> QED
    BY <1>1, <2>1 DEF Known
<1>2. CASE m.kind = "prefix" /\ w.ndc7 = m.digits /\ Len(m.digits) = 7
  <2>1. w.location \in PlacesOf(m.digits, seen) /\ w.operator \in PrefixOperatorsOf(m.digits, seen)
    BY <1>2 DEF Owes, Follows, Prefix
  <2> QED
    BY <1>2, <2>1 DEF Known
<1>3. CASE m.kind = "prefix" /\ w.ndc3 = m.digits /\ w.ndc7 = << >> /\ Len(m.digits) = 3 /\ w.location = << >>
  <2>1. w.operator \in PrefixOperatorsOf(m.digits, seen)
    BY <1>3 DEF Owes, Follows, Prefix
  <2>2. Len(m.digits) # 7
    BY <1>3
  <2> QED
    BY <1>3, <2>1, <2>2 DEF Known
<1>4. CASE m.kind = "area"
  <2>1. w.location \in {AreaOf(v, m.digits) : v \in seen} /\ w.operator = << >>
    BY <1>4 DEF Owes, Follows
  <2>2. Joined(w.location, w.operator) = w.location
    BY <2>1 DEF Joined
  <2> QED
    BY <1>4, <2>1, <2>2 DEF Known
<1>5. CASE m.kind = "abroad"
  <2>1. Joined(w.location, w.operator) = w.location /\ w.location \in Descriptions
    BY <1>5 DEF Owes, Joined
  <2> QED
    BY <1>5, <2>1 DEF Known, Descriptions
<1>6. CASE m.kind = "nothing"
  <2>1. Joined(w.location, w.operator) = << >>
    BY <1>6 DEF Owes, Joined
  <2> QED
    BY <1>6, <2>1 DEF Known
<1> QED
  BY <1>1, <1>2, <1>3, <1>4, <1>5, <1>6 DEF Owes

IsSequence(s) == \E S : s \in Seq(S)

LEMMA SequenceGrows ==
  ASSUME NEW s, IsSequence(s), NEW e
  PROVE  IsSequence(Append(s, e))
<1>1. PICK S : s \in Seq(S)
  BY DEF IsSequence
<1>2. s \in Seq(S \cup {e})
  BY <1>1
<1>3. Append(s, e) \in Seq(S \cup {e})
  BY <1>2
<1> QED
  BY <1>3 DEF IsSequence

\* What thread t was asked, and what its lookups owe to the number they are for.
Asked(q, t) ==
  /\ IsSequence(q.answers)
  /\ q.at # "idle" => q.ask \in Asks[t] /\ q.iso \in DOMAIN InternationPrefix
  /\ q.at \in Busy \cup {"answer"} =>
       \A m \in MeaningsHere(q.ask.numbers[Len(q.answers) + 1], q.ask.exact, q.iso) : Owes(q.work, m)

AnswersInv ==
  /\ place \in Places
  /\ \A t \in Threads : Asked(query[t], t)

LEMMA AskedStays ==
  ASSUME place' = place, NEW q, NEW t, Asked(q, t)
  PROVE  Asked(q, t)'
<1>1. \A number, exact, iso : MeaningsHere(number, exact, iso)' = MeaningsHere(number, exact, iso)
  BY DEF MeaningsHere
<1> QED
  BY <1>1 DEF Asked

LEMMA OneAsked ==
  ASSUME TypeInv, AnswersInv, place' = place,
         NEW t \in Threads, NEW p, Asked(p, t), query' = [query EXCEPT ![t] = p]
  PROVE  AnswersInv'
<1>1. \A u \in Threads : query'[u] = IF u = t THEN p ELSE query[u]
  BY DEF TypeInv
<1>2. ASSUME NEW u \in Threads PROVE Asked(query[u], u)'
  <2>1. PICK r : r = query'[u] /\ Asked(r, u)
    BY <1>1 DEF AnswersInv
  <2>2. Asked(r, u)'
    BY <2>1, AskedStays
  <2> QED
    BY <2>1, <2>2
<1> QED
  BY <1>2 DEF AnswersInv

\* A query goes on to its next lookup, or to the answer.
LEMMA BeginIsAsked ==
  ASSUME NEW q, DOMAIN q = QueryFields, NEW t, Asked(q, t), q.at # "idle", NEW w, NEW g,
         \A m \in MeaningsHere(q.ask.numbers[Len(q.answers) + 1], q.ask.exact, q.iso) : Owes(w, m)
  PROVE  Asked([Begin(q, w) EXCEPT !.guessed = g], t) /\ Asked(Begin(q, w), t)
<1>1. ASSUME NEW p, p.ask = q.ask, p.iso = q.iso, p.answers = q.answers, p.work = w PROVE Asked(p, t)
  BY <1>1 DEF Asked
<1>2. /\ Begin(q, w).ask = q.ask /\ Begin(q, w).iso = q.iso /\ Begin(q, w).answers = q.answers
      /\ Begin(q, w).work = w
  BY DEF Begin, QueryFields
<1>3. LET p == [Begin(q, w) EXCEPT !.guessed = g]
      IN p.ask = q.ask /\ p.iso = q.iso /\ p.answers = q.answers /\ p.work = w
  BY DEF Begin, QueryFields
<1> QED
  BY <1>1, <1>2, <1>3, Zenon

LEMMA NumberIsTyped ==
  ASSUME NEW t \in Threads, NEW q, Asked(q, t), q.at # "idle", ~(Len(q.answers) + 1 > Len(q.ask.numbers))
  PROVE  q.ask.numbers[Len(q.answers) + 1] \in Seq(Dialled) /\ q.ask.exact \in BOOLEAN
<1>1. q.ask.exact \in BOOLEAN /\ q.ask.numbers \in Seq(Seq(Dialled))
  BY AsksAssumption DEF Asked
<1>2. Len(q.answers) \in Nat
  BY LenInNat DEF Asked, IsSequence
<1>3. Len(q.ask.numbers) \in Nat
  BY <1>1, LenInNat, Zenon
<1>4. Len(q.answers) + 1 \in 1..Len(q.ask.numbers)
  BY <1>2, <1>3
<1>5. q.ask.numbers[Len(q.answers) + 1] \in Seq(Dialled)
  BY <1>1, <1>4, LenInNat, Zenon
<1> QED
  BY <1>1, <1>5

LEMMA AnswersStep ==
  ASSUME TypeInv, AnswersInv, NEW t \in Threads, Step(t)
  PROVE  AnswersInv'
<1> DEFINE q == query[t]
<1>1. /\ DOMAIN q = QueryFields /\ IsWork(q.work) /\ Asked(q, t) /\ place \in Places
      /\ q.at \in Busy => q.work.step # "done"
  BY DEF TypeInv, IsQuery, AnswersInv
<1> HIDE DEF q
<1>2. ASSUME NEW p, query' = [query EXCEPT ![t] = p], Asked(p, t), place' = place
      PROVE  AnswersInv'
  BY <1>2, OneAsked
<1>3. ASSUME NEW p, p.ask = q.ask, p.iso = q.iso, p.answers = q.answers, p.work = q.work, q.at \in Busy
      PROVE  Asked(p, t)
  BY <1>1, <1>3 DEF Asked, Busy
<1>4. ASSUME q.at \in Busy, NEW name, NEW g
      PROVE  /\ Asked(Begin(q, Advance(q.work, name)), t)
             /\ Asked([Begin(q, Advance(q.work, name)) EXCEPT !.guessed = g], t)
  <2>1. q.at # "idle" /\ q.work.step # "done"
    BY <1>1, <1>4 DEF Busy
  <2>2. \A m \in MeaningsHere(q.ask.numbers[Len(q.answers) + 1], q.ask.exact, q.iso) : Owes(q.work, m)
    BY <1>1, <1>4 DEF Asked
  <2>3. \A m \in MeaningsHere(q.ask.numbers[Len(q.answers) + 1], q.ask.exact, q.iso) :
            Owes(Advance(q.work, name), m)
    BY <1>1, <2>1, <2>2, AdvanceOwes
  <2> QED
    BY <1>1, <2>1, <2>3, BeginIsAsked
<1>5. CASE Query(t)
  <2>1. PICK ask \in Asks[t] : query' = [query EXCEPT ![t] = [Idle EXCEPT !.at = "number", !.ask = ask,
                                             !.iso = GetCountryIso(place), !.seen = {Current}]]
    BY <1>5 DEF Query
  <2> DEFINE p == [Idle EXCEPT !.at = "number", !.ask = ask, !.iso = GetCountryIso(place), !.seen = {Current}]
  <2>2. p.at = "number" /\ p.ask = ask /\ p.iso = GetCountryIso(place) /\ p.answers = << >>
    BY DEF Idle
  <2> HIDE DEF p
  <2>3. IsSequence(p.answers)
    BY <2>2 DEF IsSequence
  <2>4. p.iso \in DOMAIN InternationPrefix
    BY <1>1, <2>2, PlacesAssumption
  <2>5. Asked(p, t)
    BY <2>1, <2>2, <2>3, <2>4 DEF Asked, Busy
  <2> QED
    BY <1>2, <1>5, <2>1, <2>5 DEF Query, p
<1>6. CASE NextNumber(t)
  <2>1. q.at # "idle" /\ q.at = "number" /\ place' = place
    BY <1>6 DEF NextNumber, q
  <2>2. CASE Len(q.answers) + 1 > Len(q.ask.numbers)
    <3>1. query' = [query EXCEPT ![t] = Idle]
      BY <1>6, <2>2 DEF NextNumber, q
    <3>2. Idle.at = "idle" /\ Idle.answers = << >>
      BY DEF Idle
    <3>3. IsSequence(Idle.answers)
      BY <3>2 DEF IsSequence
    <3>4. Asked(Idle, t)
      BY <3>2, <3>3 DEF Asked, Busy
    <3> QED
      BY <1>2, <2>1, <3>1, <3>4
  <2>3. CASE ~(Len(q.answers) + 1 > Len(q.ask.numbers))
    <3> DEFINE number == q.ask.numbers[Len(q.answers) + 1]
    <3>1. PICK description \in Descriptions :
            \E w \in GetNumberLocation(number, q.ask.exact, q.iso, description) :
               query' = [query EXCEPT ![t] = Begin(q, w)]
      BY <1>6, <2>3 DEF NextNumber, Descriptions, q
    <3>2. PICK w \in GetNumberLocation(number, q.ask.exact, q.iso, description) :
               query' = [query EXCEPT ![t] = Begin(q, w)]
      BY <3>1
    <3>3. number \in Seq(Dialled) /\ q.ask.exact \in BOOLEAN
      BY <1>1, <2>1, <2>3, NumberIsTyped
    <3>4. q.iso \in DOMAIN InternationPrefix
      BY <1>1, <2>1 DEF Asked
    <3>5. ASSUME NEW m \in MeaningsHere(number, q.ask.exact, q.iso) PROVE Owes(w, m)
      <4>1. Suits(w, m, description)
        BY <3>2, <3>3, <3>4, <3>5, LocationSuits
      <4> QED
        BY <4>1, SuitsOwes
    <3>6. Asked(Begin(q, w), t)
      BY <1>1, <2>1, <3>5, BeginIsAsked
    <3> QED
      BY <1>2, <2>1, <3>2, <3>6
  <2> QED
    BY <2>2, <2>3
<1>7. CASE QueryText(t)
  <2>1. q.at \in Busy /\ place' = place
    BY <1>7 DEF QueryText, Busy, q
  <2>2. PICK p : query' = [query EXCEPT ![t] = p] /\ Asked(p, t)
    <3>1. CASE ~loaded
      <4>1. query' = [query EXCEPT ![t] = [q EXCEPT !.at = "parse", !.line = 1]]
        BY <1>7, <3>1 DEF QueryText, q
      <4> DEFINE p == [q EXCEPT !.at = "parse", !.line = 1]
      <4>2. p.ask = q.ask /\ p.iso = q.iso /\ p.answers = q.answers /\ p.work = q.work
        BY <1>1 DEF QueryFields
      <4>3. Asked(p, t)
        BY <1>3, <2>1, <4>2
      <4> QED
        BY <4>1, <4>3
    <3>2. CASE loaded /\ TextResult(q.work) # << >>
      <4>1. query' = [query EXCEPT ![t] = Begin(q, Advance(q.work, TextResult(q.work)))]
        BY <1>7, <3>2 DEF QueryText, q
      <4> QED
        BY <1>4, <2>1, <4>1
    <3>3. CASE loaded /\ TextResult(q.work) = << >>
      <4>1. query' = [query EXCEPT ![t] = [q EXCEPT !.at = "open"]]
        BY <1>7, <3>3 DEF QueryText, q
      <4> DEFINE p == [q EXCEPT !.at = "open"]
      <4>2. p.ask = q.ask /\ p.iso = q.iso /\ p.answers = q.answers /\ p.work = q.work
        BY <1>1 DEF QueryFields
      <4>3. Asked(p, t)
        BY <1>3, <2>1, <4>2
      <4> QED
        BY <4>1, <4>3
    <3> QED
      BY <3>1, <3>2, <3>3
  <2> QED
    BY <1>2, <2>1, <2>2
<1>8. CASE Parse(t)
  <2>1. q.at \in Busy /\ place' = place
    BY <1>8 DEF Parse, Parsing, Busy, q
  <2>2. PICK p : /\ query' = [query EXCEPT ![t] = p]
                 /\ p.ask = q.ask /\ p.iso = q.iso /\ p.answers = q.answers /\ p.work = q.work
    <3>1. CASE ~ParseVersion(text)
      <4>1. query' = [query EXCEPT ![t] = [q EXCEPT !.at = "open", !.line = 0]]
        BY <1>8, <3>1 DEF Parse, LoadFailed, TypeInv, q
      <4> DEFINE p == [q EXCEPT !.at = "open", !.line = 0]
      <4>2. p.ask = q.ask /\ p.iso = q.iso /\ p.answers = q.answers /\ p.work = q.work
        BY <1>1 DEF QueryFields
      <4> QED
        BY <4>1, <4>2
    <3>2. CASE ParseVersion(text)
      <4> DEFINE p == IF q.line = Len(text) THEN [q EXCEPT !.at = "text", !.line = 0]
                      ELSE [q EXCEPT !.line = @ + 1]
      <4>1. query' = [query EXCEPT ![t] = p]
        BY <1>8, <3>2 DEF Parse, q
      <4>2. p.ask = q.ask /\ p.iso = q.iso /\ p.answers = q.answers /\ p.work = q.work
        BY <1>1 DEF QueryFields
      <4> QED
        BY <4>1, <4>2
    <3> QED
      BY <3>1, <3>2
  <2>3. Asked(p, t)
    BY <1>3, <2>1, <2>2
  <2> QED
    BY <1>2, <2>1, <2>2, <2>3
<1>9. CASE OpenDataFile(t)
  <2>1. q.at \in Busy /\ place' = place
    BY <1>9 DEF OpenDataFile, Busy, q
  <2>2. CASE Current = "none"
    <3>1. query' = [query EXCEPT ![t] = Begin(q, Advance(q.work, << >>))]
      BY <1>9, <2>2 DEF OpenDataFile, q
    <3> QED
      BY <1>2, <1>4, <2>1, <3>1
  <2>3. CASE Current # "none"
    <3>1. query' = [query EXCEPT ![t] = [q EXCEPT !.at = "read", !.file = Current]]
      BY <1>9, <2>3 DEF OpenDataFile, q
    <3> DEFINE p == [q EXCEPT !.at = "read", !.file = Current]
    <3>2. p.ask = q.ask /\ p.iso = q.iso /\ p.answers = q.answers /\ p.work = q.work
      BY <1>1 DEF QueryFields
    <3>3. Asked(p, t)
      BY <1>3, <2>1, <3>2
    <3> QED
      BY <1>2, <2>1, <3>1, <3>3
  <2> QED
    BY <2>2, <2>3
<1>10. CASE ReadDataFile(t)
  <2>1. q.at \in Busy /\ place' = place
    BY <1>10 DEF ReadDataFile, Busy, q
  <2>2. PICK name, g : query' = [query EXCEPT ![t] = [Begin(q, Advance(q.work, name)) EXCEPT !.guessed = g]]
    BY <1>10 DEF ReadDataFile, q
  <2> QED
    BY <1>2, <1>4, <2>1, <2>2
<1>11. CASE Answer(t)
  <2> DEFINE answer == Joined(q.work.location, q.work.operator)
             p == [q EXCEPT !.at = "number", !.work = Done(<< >>), !.answers = Append(@, answer)]
  <2>1. q.at = "answer" /\ query' = [query EXCEPT ![t] = p] /\ place' = place
    BY <1>11 DEF Answer, q
  <2>2. p.at = "number" /\ p.ask = q.ask /\ p.iso = q.iso /\ p.answers = Append(q.answers, answer)
    BY <1>1 DEF QueryFields
  <2> HIDE DEF p, answer
  <2>3. IsSequence(p.answers)
    BY <1>1, <2>2, SequenceGrows DEF Asked
  <2>4. Asked(p, t)
    BY <1>1, <2>1, <2>2, <2>3 DEF Asked, Busy
  <2> QED
    BY <1>2, <2>1, <2>4
<1> QED
  BY <1>5, <1>6, <1>7, <1>8, <1>9, <1>10, <1>11 DEF Step

LEMMA AnswersUpdate ==
  ASSUME TypeInv, AnswersInv, WriteBufferToFile \/ FinishWrite
  PROVE  AnswersInv'
<1>1. PICK state : query' = [t \in Threads |-> Seeing(t, state)]
  BY DEF WriteBufferToFile, FinishWrite
<1>2. place' = place
  BY DEF WriteBufferToFile, FinishWrite
<1>3. ASSUME NEW t \in Threads PROVE Asked(query[t], t)'
  <2>1. PICK q : q = query[t] /\ DOMAIN q = QueryFields /\ Asked(q, t)
    BY DEF TypeInv, IsQuery, AnswersInv
  <2>2. PICK p : p = query'[t] /\ p = Seeing(t, state)
    BY <1>1
  <2>3. p.at = q.at /\ p.ask = q.ask /\ p.iso = q.iso /\ p.answers = q.answers /\ p.work = q.work
    BY <2>1, <2>2 DEF Seeing, QueryFields
  <2>4. Asked(p, t)
    BY <2>1, <2>3 DEF Asked
  <2>5. Asked(p, t)'
    BY <1>2, <2>4, AskedStays
  <2> QED
    BY <2>2, <2>5
<1> QED
  BY <1>2, <1>3 DEF AnswersInv

LEMMA AnswersInvariant == Spec => []AnswersInv
<1>1. Init => AnswersInv
  <2> SUFFICES ASSUME Init PROVE AnswersInv
    OBVIOUS
  <2>1. Idle.at = "idle" /\ Idle.answers = << >>
    BY DEF Idle
  <2>2. IsSequence(Idle.answers)
    BY <2>1 DEF IsSequence
  <2>3. \A t : Asked(Idle, t)
    BY <2>1, <2>2 DEF Asked, Busy
  <2> QED
    BY <2>3 DEF Init, AnswersInv
<1>2. TypeInv /\ AnswersInv /\ [Next]_vars => AnswersInv'
  <2> SUFFICES ASSUME TypeInv, AnswersInv, [Next]_vars PROVE AnswersInv'
    OBVIOUS
  <2>1. CASE UNCHANGED vars
    <3>1. UNCHANGED <<place, query>>
      BY <2>1 DEF vars
    <3>2. ASSUME NEW t \in Threads PROVE Asked(query[t], t)'
      <4>1. Asked(query[t], t)
        BY DEF AnswersInv
      <4>2. PICK q : q = query[t] /\ Asked(q, t)
        BY <4>1
      <4>3. Asked(q, t)'
        BY <3>1, <4>2, AskedStays
      <4> QED
        BY <3>1, <4>2, <4>3
    <3> QED
      BY <3>1, <3>2 DEF AnswersInv
  <2> QED
    BY <2>1, AnswersStep, AnswersUpdate DEF Next
<1> QED
  BY <1>1, <1>2, TypeInvariant, PTL DEF Spec

\* However a number is written, with a code of China, an IP prefix, a 0, blanks, from abroad,
\* the answer consists of a place and an operator that are published for what the number means:
\* for every number, every content of the two data files and any number of threads and updates.
THEOREM AnswersPublished == Spec => []AnswersArePublished
<1>1. AnswersInv /\ NamesInv => AnswersArePublished
  <2> SUFFICES ASSUME AnswersInv, NamesInv, NEW t \in Threads,
                      query[t].at = "answer", ~query[t].guessed, ~raced,
                      NEW m \in MeaningsHere(query[t].ask.numbers[Len(query[t].answers) + 1],
                                             query[t].ask.exact, query[t].iso)
               PROVE  Joined(query[t].work.location, query[t].work.operator) \in Known(m, query[t].seen)
    BY DEF AnswersArePublished
  <2>1. Owes(query[t].work, m)
    BY DEF AnswersInv, Asked
  <2>2. query[t].work.step = "done" /\ Follows(query[t].work, query[t].seen)
    BY DEF NamesInv, Sound
  <2> QED
    BY <2>1, <2>2, OwedIsKnown
<1> QED
  BY <1>1, AnswersInvariant, NamesInvariant, PTL
=============================================================================
