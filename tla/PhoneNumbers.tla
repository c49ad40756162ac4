---------------------------- MODULE PhoneNumbers ----------------------------
(***************************************************************************)
(* Phone numbers as the location lookup takes them apart: the regular      *)
(* expressions of number_location_manager.cpp, the prefixes it cuts off,   *)
(* and the parts of mobile and fixed numbers that it looks up.             *)
(*                                                                         *)
(* A number is a sequence of digits, Plus and Blank.  A regular expression *)
(* has the name it has in the source and is the predicate "matches".       *)
(***************************************************************************)
EXTENDS Integers, Sequences, SequencesExt, Subsequences

Plus == 10
Blank == 11
Digit == 0..9

Take(s, n) == SubSeq(s, 1, n)
Drop(s, n) == SubSeq(s, n + 1, Len(s))
AreDigits(s) == s \in Seq(Digit) /\ s # << >>

-----------------------------------------------------------------------------
(* Regular expressions. *)

ChinaCodes == {<<Plus, 8, 6>>, <<8, 6>>, <<0, 0, 8, 6>>}

\* What may follow the optional code of China.
Subscribers(s) == {s} \cup {Drop(s, Len(c)) : c \in {c \in ChinaCodes : IsPrefix(c, s)}}

MPN_PATTERN(s) ==
    \E r \in Subscribers(s) : AreDigits(r) /\ Len(r) = 11 /\ r[1] = 1 /\ r[2] # 0

MPN_QUERY_PATTERN_PREFIX(s) ==
    \E r \in Subscribers(s) : AreDigits(r) /\ Len(r) \in 3..11 /\ r[1] = 1

\* The second and third digit of a mobile number, as ZERO_MOBILE_PATTERN lists them.
MobileZones ==
    ({3, 8} \X Digit) \cup ({4} \X (5..9)) \cup ({5, 9} \X (Digit \ {4})) \cup
    ({6} \X {2, 5, 6, 7}) \cup ({7} \X (2..8))

ZERO_MOBILE_PATTERN(s) ==
    AreDigits(s) /\ Len(s) = 12 /\ s[1] = 0 /\ s[2] = 1 /\ <<s[3], s[4]>> \in MobileZones

NAT_PATTERN(s) ==
    \E code \in {<<Plus>>, <<0, 0>>} :
        /\ IsPrefix(code, s)
        /\ AreDigits(Drop(s, Len(code)))
        /\ s[Len(code) + 1] # 0
        /\ Len(s) <= 16

FIX_PATTERN(s) ==
    /\ AreDigits(s) /\ s[1] = 0
    /\ \/ Len(s) \in 10..12
       \/ \E area \in {3, 4} :
            LET r == Drop(s, area) IN
            \/ IsPrefix(<<1, 0, 0>>, r) /\ Len(r) = 5
            \/ IsPrefix(<<9, 5>>, r) /\ Len(r) \in {5, 6}

FIX_QUERY_PATTERN(s) == AreDigits(s) /\ s[1] = 0 /\ Len(s) \in 3..12

-----------------------------------------------------------------------------
(* What is cut off. *)

IpHeads == {<<1,7,9,0,0>>, <<1,7,9,0,1>>, <<1,7,9,0,8>>, <<1,7,9,0,9>>, <<1,1,8,0,8>>, <<1,7,9,5,0>>,
            <<1,7,9,5,1>>, <<1,2,5,9,3>>, <<1,7,9,3,1>>, <<1,7,9,1,0>>, <<1,7,9,1,1>>, <<1,7,9,6,0>>,
            <<1,7,9,6,8>>, <<1,7,9,6,9>>, <<1,0,1,9,3>>, <<9,6,4,3,5>>}

IpHeadBarber(s) == IF Len(s) >= 5 /\ Take(s, 5) \in IpHeads THEN Drop(s, 5) ELSE s

Trim(s) == Keep(s, Range(s) \ {Blank})

\* internationPrefix, of a few countries.  The first prefix in the list that fits is cut.
InternationPrefix ==
    [US |-> << <<0,1,1>> >>, CA |-> << <<0,1,1>> >>,
     FI |-> << <<9,9,0>>, <<9,9,4>>, <<9,9,9>>, <<0,0>> >>, CN |-> << >>]

DeleteInternationalPrefix(s, iso) ==
    LET fits == {i \in DOMAIN InternationPrefix[iso] : IsPrefix(InternationPrefix[iso][i], s)}
        first == CHOOSE i \in fits : \A j \in fits : i <= j
    IN IF fits = {} THEN s ELSE <<Plus>> \o Drop(s, Len(InternationPrefix[iso][first]))

-----------------------------------------------------------------------------
(* What is looked up. *)

\* Mutant: the code of China written 0086 is taken for a part of the number.
SubscriberPlus(s) ==
    LET code == {c \in ChinaCodes \ {<<0, 0, 8, 6>>} : IsPrefix(c, s)}
    IN IF code = {} THEN s ELSE Drop(s, Len(CHOOSE c \in code : TRUE))

Subscriber(s) ==
    LET code == {c \in ChinaCodes : IsPrefix(c, s)}
    IN IF code = {} THEN s ELSE Drop(s, Len(CHOOSE c \in code : TRUE))

\* ndc3String_ and ndc7String_; ParseMobilePhoneNumber fails when the latter is empty.
ParseMobilePhoneNumber(s) ==
    LET r == Subscriber(s)
    IN [ndc3 |-> Take(r, 3), ndc7 |-> IF Len(r) >= 7 THEN Take(r, 7) ELSE << >>]

\* Mutant: the shortest length accepted is taken for the length of the code.
ParseFixPhoneNumberLong(s) == IF Len(s) < 5 THEN << >> ELSE Take(s, 5)

\* areaCode_, empty for a failure.
ParseFixPhoneNumber(s) ==
    IF Len(s) < 5 THEN << >>
    ELSE IF s[1] = 0 /\ s[2] \in {1, 2} THEN Take(s, 3) ELSE Take(s, 4)
=============================================================================
