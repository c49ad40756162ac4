----------------------------- MODULE MarkNumbers -----------------------------
(***************************************************************************)
(* The forms of a number that marks and yellow pages are stored under:     *)
(* NumberMarkManager::StandardizationPhoneNum and the transformations of   *)
(* number_mark_ability.cpp built on it and on FixPhoneNumber.              *)
(*                                                                         *)
(* Blank stands for a blank, a dash or a bracket.                          *)
(***************************************************************************)
EXTENDS PhoneNumbers

RemoveDashesAndBlanksBrackets(s) == Keep(s, Range(s) \ {Blank})

VALID_1ST_0_PATTERN(s) ==
    /\ AreDigits(s) /\ Len(s) = 12 /\ s[1] = 0 /\ s[2] = 1
    /\ <<s[3], s[4]>> \in MobileZones \cup ({7} \X {0, 1})

HW_CALL_API_FACTORY_MPN_PATTERN(s) == AreDigits(s) /\ Len(s) = 11 /\ s[1] = 1

\* The number, or its last eleven characters.
IsMobilePhoneNumber(s) ==
    \/ HW_CALL_API_FACTORY_MPN_PATTERN(s)
    \/ Len(s) > 11 /\ HW_CALL_API_FACTORY_MPN_PATTERN(Drop(s, Len(s) - 11))

\* External: FormatPhoneNumberToE164() abroad, where it understands the prefix for calls to China.
E164Abroad(s, iso) ==
    LET d == DeleteInternationalPrefix(Trim(s), iso) IN IF IsPrefix(<<Plus, 8, 6>>, d) THEN d ELSE s

\* A roaming phone writes a number of China as one does at home.
AtHome(number, s, abroad) ==
    LET e164 == E164Abroad(number, abroad)
        rest == Drop(e164, 3)
    IN IF abroad = "" \/ IsPrefix(<<Plus, 8, 6>>, s) \/ ~IsPrefix(<<Plus, 8, 6>>, e164) THEN s
       ELSE IF \/ HW_CALL_API_FACTORY_MPN_PATTERN(rest)
               \/ IsPrefix(<<4, 0, 0>>, rest) \/ IsPrefix(<<8, 0, 0>>, rest)
            THEN rest
       ELSE <<0>> \o rest

\* Mutant: the code of China written 0086 stays.
WithoutCode86(s) ==
    IF s \in ChinaCodes THEN s
    ELSE IF IsPrefix(<<8, 6>>, s) /\ IsMobilePhoneNumber(s) THEN Drop(s, 2)
    ELSE IF IsPrefix(<<Plus, 8, 6>>, s) THEN Drop(s, 3)
    ELSE s

WithoutCode(s) ==
    IF s \in ChinaCodes THEN s
    ELSE IF IsPrefix(<<8, 6>>, s) /\ IsMobilePhoneNumber(s) THEN Drop(s, 2)
    ELSE IF IsPrefix(<<Plus, 8, 6>>, s) THEN Drop(s, 3)
    ELSE IF IsPrefix(<<0, 0, 8, 6>>, s) THEN Drop(s, 4)
    ELSE s

\* abroad is the country of the network, "" when the phone is not roaming.
StandardizationPhoneNum(number, abroad) ==
    LET s == AtHome(number, IpHeadBarber(RemoveDashesAndBlanksBrackets(number)), abroad)
    IN WithoutCode(IF VALID_1ST_0_PATTERN(s) THEN Tail(s) ELSE s)

\* known are the area codes that numberlocation.dat has a city for.
SubstringFixedPhoneNumber(s, known) ==
    IF ParseFixPhoneNumber(s) \in known THEN Drop(s, Len(ParseFixPhoneNumber(s))) ELSE s

TransformYellowPageNumber(s, known) ==
    IF IsPrefix(<<1>>, s) THEN s ELSE SubstringFixedPhoneNumber(s, known)
=============================================================================
