--------------------------- MODULE NumberMeanings ---------------------------
(***************************************************************************)
(* What a written number means: a grammar of the ways in which a mobile    *)
(* number, a fixed number, a prefix of one or a foreign number is written, *)
(* at home and abroad.  It is what the lookup is held against and follows  *)
(* the numbering plan, not the order in which the code tries its patterns. *)
(* It is sound, not complete: a number it has no meaning for is one that   *)
(* nothing is claimed of.                                                  *)
(***************************************************************************)
EXTENDS PhoneNumbers

Dialled == Digit \cup {Plus, Blank}

Meaning(kind, digits) == [kind |-> kind, digits |-> digits]
Abroad == Meaning("abroad", << >>)
Nothing == Meaning("nothing", << >>)

\* What is left of s behind one of the heads.
Behind(heads, s) == {Drop(s, Len(h)) : h \in {h \in heads : IsPrefix(h, s)}}

-----------------------------------------------------------------------------
(* National numbers. *)

IsMobileNumber(d) == AreDigits(d) /\ Len(d) = 11 /\ d[1] = 1 /\ d[2] \in 3..9

\* 010, 02x and 03xx to 09xx, all with the zero that is dialled before them.
AreaCode(d) == Take(d, IF d[2] \in {1, 2} THEN 3 ELSE 4)

IsServiceNumber(s) ==
    \/ Len(s) = 5 /\ IsPrefix(<<1, 0, 0>>, s)
    \/ Len(s) \in {5, 6} /\ IsPrefix(<<9, 5>>, s)

IsFixedNumber(d) ==
    /\ AreDigits(d) /\ Len(d) \in 8..12
    /\ d[1] = 0 /\ d[2] # 0 /\ (d[2] = 1 => d[3] = 0)
    /\ Len(d) \in 10..12 \/ IsServiceNumber(Drop(d, Len(AreaCode(d))))

WithTrunkZero(s) == IF IsPrefix(<< 0 >>, s) THEN s ELSE << 0 >> \o s

-----------------------------------------------------------------------------
(* The numbers that s may be a way of writing, blanks apart. *)

MobilesIn(s) ==
    {d \in {s} \cup Behind(ChinaCodes, s) : IsMobileNumber(d)} \cup
    {d \in Behind({<< 0 >>}, s) : IsMobileNumber(d) /\ <<d[2], d[3]>> \in MobileZones}

\* Behind a plus or the zeros of an exit code; without them 86 is no code before an area.
FixedIn(s) ==
    {d \in {s} \cup {WithTrunkZero(r) : r \in Behind(ChinaCodes \ {<<8, 6>>}, s)} : IsFixedNumber(d)}

ForeignIn(s) ==
    {r \in Behind({<<Plus>>, <<0, 0>>}, s) :
        AreDigits(r) /\ r[1] # 0 /\ ~IsPrefix(<<8, 6>>, r) /\ Len(s) <= 16}

MobilePrefixesIn(s) ==
    {p \in {s} \cup Behind({<<8, 6>>}, s) : AreDigits(p) /\ Len(p) \in 3..10 /\ p[1] = 1}

AreaPrefixesIn(s) ==
    {p \in {s} : AreDigits(p) /\ Len(p) \in 5..9 /\ p[1] = 0 /\ p[2] # 0}

NationalMeanings(s) ==
    {Meaning("mobile", Take(d, 7)) : d \in MobilesIn(s)} \cup
    {Meaning("area", AreaCode(d)) : d \in FixedIn(s)}

\* Prefixes are looked up as well while a number is being dialled.
PrefixMeanings(s) ==
    {Meaning("prefix", Take(p, IF Len(p) >= 7 THEN 7 ELSE 3)) : p \in MobilePrefixesIn(s)} \cup
    {Meaning("area", AreaCode(p)) : p \in AreaPrefixesIn(s)}

\* Digits too short for a number with an area, or for a prefix, or longer than any number.
IsNoNumber(s, exact) ==
    /\ AreDigits(s) /\ ~IsPrefix(<<0, 0>>, s)
    /\ Len(s) > 13 \/ Len(s) < IF exact THEN 8 ELSE 3

-----------------------------------------------------------------------------
(* As it is dialled. *)

WithoutIpHead(s) == IF Behind(IpHeads, s) = {} THEN s ELSE CHOOSE r \in Behind(IpHeads, s) : TRUE
WithoutBlanks(s) == Keep(s, Digit \cup {Plus})

MeaningsInChina(s, exact) ==
    NationalMeanings(s)
        \cup {Abroad : r \in ForeignIn(s)}
        \cup (IF IsNoNumber(s, exact) THEN {Nothing} ELSE {})
        \cup (IF exact THEN {} ELSE PrefixMeanings(s))

\* Abroad a number is Chinese only with the code of China, behind a plus, 00 or the exit code.
International(s, iso) ==
    LET exits == Behind(Range(InternationPrefix[iso]), s)
    IN IF exits = {} THEN {s} ELSE {<<Plus>> \o r : r \in exits}

IsChinese(s) == \E c \in ChinaCodes \ {<<8, 6>>} : IsPrefix(c, s)

MeaningsAbroad(s, iso) ==
    IF Len(s) < 7 THEN {Nothing}
    ELSE UNION {IF IsChinese(n) THEN NationalMeanings(n) ELSE {Abroad} : n \in International(s, iso)}

Meanings(number, exact, iso) ==
    LET s == WithoutIpHead(number)
    IN IF s = << >> THEN {Nothing}
       ELSE IF iso = "CN" THEN MeaningsInChina(WithoutBlanks(s), exact)
       ELSE MeaningsAbroad(s, iso)
=============================================================================
