---------------------------- MODULE LocationData ----------------------------
(***************************************************************************)
(* The two data files of the location lookup and what is read from them:   *)
(* numberlocation.dat, blocks of binary tables behind positions kept at    *)
(* its end, and numberlocation.data, a version line followed by one JSON   *)
(* record per line.                                                        *)
(*                                                                         *)
(* A table of the .dat file is a function of the index the code computes,  *)
(* 0 or Nul where the file has nothing.  A name is a sequence of wide      *)
(* characters, each three bytes of UTF-8; in the file it is padded to ten. *)
(* Names have at most nine of them, none a slash.                          *)
(***************************************************************************)
EXTENDS PhoneNumbers

\* External: how the tables of a .dat file are made from what is published.  A published
\* set has names and area codes of cities 1..n, the two-digit prefixes in use, the city of
\* a seven-digit number, the names of operators, and the operator of three or seven digits.
NameLength == 10
SegmentsPerPrefix == 100000
E_MOBILE_OP_MAX == 10000

\* No digit and no character of a name.
Nul == 0 - 1

Num(s) ==
    LET value[n \in 0..Len(s)] == IF n = 0 THEN 0 ELSE 10 * value[n - 1] + s[n]
    IN value[Len(s)]

Padded(name, n) == [i \in 1..n |-> IF i <= Len(name) THEN name[i] ELSE Nul]
At(f, i) == IF i \in DOMAIN f THEN f[i] ELSE 0

AreNames(names) == names \in Seq(Seq(Nat)) /\ \A i \in DOMAIN names : Len(names[i]) \in 1..9

\* What has a place in the tables of a .dat file: mobile numbers begin with 1 and not with 11, so
\* that no two prefixes have a third between them, and the operator is known either by three
\* digits or by seven.
IsPublishable(p) ==
    /\ AreNames(p.cities) /\ AreNames(p.operators) /\ Len(p.operators) < E_MOBILE_OP_MAX
    /\ p.areaCodes \in Seq(Seq(Digit)) /\ Len(p.areaCodes) = Len(p.cities)
    /\ \A i \in DOMAIN p.areaCodes : Len(p.areaCodes[i]) \in {3, 4}
    /\ p.prefixes \in Seq({1} \X (Digit \ {1}))
    /\ \A i, j \in DOMAIN p.prefixes : p.prefixes[i] = p.prefixes[j] => i = j
    /\ p.cityOf \in [DOMAIN p.cityOf -> DOMAIN p.cities]
    /\ \A s \in DOMAIN p.cityOf :
          s \in Seq(Digit) /\ Len(s) = 7 /\ \E k \in DOMAIN p.prefixes : Take(s, 2) = p.prefixes[k]
    /\ p.operatorOf \in [DOMAIN p.operatorOf -> DOMAIN p.operators]
    /\ IsFiniteSet(DOMAIN p.operatorOf)
    /\ \A s \in DOMAIN p.operatorOf :
          /\ s \in Seq(Digit) /\ s[1] = 1
          /\ Len(s) = 3 \/ (Len(s) = 7 /\ Take(s, 3) \notin DOMAIN p.operatorOf)

Layout(p) ==
    LET k(s) == CHOOSE i \in DOMAIN p.prefixes : p.prefixes[i] = Take(s, 2)
        wide == {Take(s, 3) : s \in {s \in DOMAIN p.operatorOf : Len(s) = 7}}
        short == {s \in DOMAIN p.operatorOf : Len(s) = 3}
        wideIndex == SetToSeq(wide)
        group(s) == CHOOSE i \in DOMAIN wideIndex : wideIndex[i] = Take(s, 3)
        address == [s \in DOMAIN p.cityOf |-> SegmentsPerPrefix * (k(s) - 1) + Num(Drop(s, 2))]
        opAddress == [s \in {s \in DOMAIN p.operatorOf : Len(s) = 7} |->
                        E_MOBILE_OP_MAX * (group(s) - 1) + Num(Drop(s, 3))]
    IN [prefixList |-> FlattenSeq(p.prefixes),
        phoneNumList |-> [a \in {address[s] : s \in DOMAIN address} |->
                            p.cityOf[CHOOSE s \in DOMAIN address : address[s] = a]],
        cityNames |-> [i \in 0..Len(p.cities) |->
                        Padded(IF i = 0 THEN << >> ELSE p.cities[i], NameLength)],
        quHao |-> [i \in 0..Len(p.cities) |->
                        Padded(IF i = 0 THEN << >> ELSE p.areaCodes[i], 5)],
        hasMobileOp |-> p.operatorOf # << >>,
        opIndex |-> [d \in {Num(Tail(s)) : s \in wide \cup short} |->
                        LET s == CHOOSE s \in wide \cup short : Num(Tail(s)) = d
                        IN IF s \in wide THEN E_MOBILE_OP_MAX + group(s) - 1
                                         ELSE p.operatorOf[s]],
        opData |-> [a \in {opAddress[s] : s \in DOMAIN opAddress} |->
                        p.operatorOf[CHOOSE s \in DOMAIN opAddress : opAddress[s] = a]],
        opNames |-> [i \in 0..Len(p.operators) |->
                        Padded(IF i = 0 THEN << >> ELSE p.operators[i], NameLength)]]

-----------------------------------------------------------------------------
(* numberlocation.dat *)

NotFound == 0 - 2

\* strstr() of the first two digits in the concatenated prefixes, halved.
PrefixOffsets(d, s) ==
    {i \in 0..(Len(d.prefixList) - 2) : SubSeq(d.prefixList, i + 1, i + 2) = Take(s, 2)}

GetPrefixIndex(d, s) ==
    IF PrefixOffsets(d, s) = {} THEN NotFound
    ELSE ((CHOOSE i \in PrefixOffsets(d, s) : \A j \in PrefixOffsets(d, s) : i <= j) + 1) \div 2

\* atoi(): the number that the leading digits make.
Atoi(s) ==
    LET ends == {i \in 0..Len(s) : \A j \in 1..i : s[j] \in Digit}
    IN Num(Take(s, CHOOSE i \in ends : \A j \in ends : j <= i))

\* The five digits behind the prefix give the index in its block.  Neither copy of the number
\* ends in a NUL: what follows in memory counts, for strlen() and for atoi().
GetCityIndexByPhoneNum(d, s, junk) ==
    LET copy == IF Len(s) < 5 THEN s \o junk ELSE s
        strNum == SubSeq(copy, 3, 7) \o Take(junk, IF junk = << >> THEN 0 ELSE 1)
    IN IF GetPrefixIndex(d, s) = NotFound \/ Len(copy) < 5 THEN NotFound
       ELSE At(d.phoneNumList, SegmentsPerPrefix * GetPrefixIndex(d, s) + Atoi(strNum))

\* The first city with the area code, all of five bytes compared, the last of them whatever is
\* in memory; when there is none, the fourth digit is made a NUL and the list searched again.
CitiesWith(d, code) == {i \in DOMAIN d.quHao : d.quHao[i] = code}

GetCityIndexByQuHao(d, code, junk) ==
    LET last == IF junk = << >> THEN Nul ELSE junk[1]
        exact == CitiesWith(d, Append(Padded(code, 4), last))
        found == IF exact # {} THEN exact ELSE CitiesWith(d, Append(Padded(Take(code, 3), 4), last))
    IN IF found = {} THEN NotFound ELSE CHOOSE i \in found : \A j \in found : i <= j

\* Mutant: the index of a group is taken without the base of the groups.
GetMobileOperatorBased(d, s) ==
    LET index == At(d.opIndex, Num(SubSeq(s, 2, 3)))
    IN IF ~d.hasMobileOp \/ s[1] # 1 \/ Len(s) < 3 THEN NotFound
       ELSE IF index < E_MOBILE_OP_MAX THEN index
       ELSE IF Len(s) < 7 THEN NotFound
       ELSE At(d.opData, E_MOBILE_OP_MAX * index + Num(SubSeq(s, 4, 7)))

\* Through digits two and three, or, when these have several operators, four to seven.
GetMobileOperator(d, s) ==
    LET index == At(d.opIndex, Num(SubSeq(s, 2, 3)))
    IN IF ~d.hasMobileOp \/ s[1] # 1 \/ Len(s) < 3 THEN NotFound
       ELSE IF index < E_MOBILE_OP_MAX THEN index
       ELSE IF Len(s) < 7 THEN NotFound
       ELSE At(d.opData, E_MOBILE_OP_MAX * (index - E_MOBILE_OP_MAX) + Num(SubSeq(s, 4, 7)))

-----------------------------------------------------------------------------
(* Names: from ten wide characters to UTF-8 behind two counts, and back. *)

Utf8(name) == FlattenSeq([i \in DOMAIN name |-> <<name[i], name[i], name[i]>>])

\* The characters behind the last that is not NUL, and those before the first that is.
GetEndNum(w) ==
    LET used == {i \in DOMAIN w : w[i] # Nul}
    IN IF used = {} THEN 9 ELSE Len(w) - (CHOOSE i \in used : \A j \in used : j <= i)

GetActualNum(w) ==
    LET unused == {i \in DOMAIN w : w[i] = Nul}
    IN IF unused = {} THEN Len(w) ELSE (CHOOSE i \in unused : \A j \in unused : i <= j) - 1

TransformUnicodeToUTF8(w) ==
    [counts |-> <<NameLength - GetEndNum(w), GetActualNum(w)>>,
     bytes |-> Utf8(Take(w, GetActualNum(w)))]

\* substr(2, 2 + atoi(counts)), of a result with more than three characters.
QueryUnicodeInformation(w) ==
    LET u == TransformUnicodeToUTF8(w)
        kept == 2 + Num(u.counts)
    IN IF Len(u.bytes) <= 1 THEN << >>
       ELSE Take(u.bytes, IF kept < Len(u.bytes) THEN kept ELSE Len(u.bytes))

-----------------------------------------------------------------------------
(* numberlocation.data *)

\* A record that has only a location: its two words, or the one word twice, are province
\* and city.
ParseRecord(line) ==
    IF line.province # << >> \/ line.city # << >> \/ line.location = << >> THEN line
    ELSE LET blanks == {i \in DOMAIN line.location : line.location[i] = Blank}
             space == CHOOSE i \in blanks : \A j \in blanks : i <= j
         IN IF blanks = {} THEN [line EXCEPT !.province = line.location, !.city = line.location]
            ELSE [line EXCEPT !.province = Take(line.location, space - 1),
                              !.city = Drop(line.location, space)]

\* ParseVersion: the first line is a JSON object with a version.
ParseVersion(lines) == lines # << >> /\ lines[1].kind = "version"

\* records is a function from prefixes to records.  Seven digits come before three.
Matching(records, s) ==
    {n \in {3, 7} : Len(s) >= n /\ Take(s, n) \in DOMAIN records}

Find(records, s) == records[Take(s, CHOOSE n \in Matching(records, s) :
                                        \A k \in Matching(records, s) : k <= n)]

Place(r) == IF r.province = << >> \/ r.city = << >> THEN r.location
            ELSE IF r.province = r.city THEN r.province ELSE r.province \o r.city

QueryLocationFromDataFile(records, s) ==
    IF Matching(records, s) = {} THEN << >> ELSE Place(Find(records, s))

QueryOperatorFromDataFile(records, s) ==
    IF Matching(records, s) = {} THEN << >> ELSE Find(records, s).operator

\* The result of a lookup: a location, a blank and an operator, or the one there is.
Joined(location, operator) ==
    IF location = << >> THEN operator
    ELSE IF operator = << >> THEN location ELSE location \o << Blank >> \o operator
=============================================================================
