-------------------------- MODULE MCNumberLocation --------------------------
(***************************************************************************)
(* Two threads; the first is asked for numbers written in every way the    *)
(* code tells apart, the second for one.  The text has two records of one  *)
(* prefix; the second version of the .dat file moves a segment.            *)
(***************************************************************************)
EXTENDS NumberLocation

CONSTANTS t1, t2

MCPublished ==
    LET bundled == [cities |-> << <<1, 2>>, <<3, 4, 5>> >>,
                    areaCodes |-> << <<0, 1, 0>>, <<0, 7, 5, 5>> >>,
                    prefixes |-> << <<1, 3>>, <<1, 8>> >>,
                    cityOf |-> <<1, 3, 8, 1, 2, 3, 4>> :> 1 @@ <<1, 8, 0, 0, 0, 0, 9>> :> 2,
                    operators |-> << <<11>>, <<12, 13>> >>,
                    operatorOf |-> <<1, 8, 0>> :> 1 @@ <<1, 3, 8, 1, 2, 3, 4>> :> 2]
    IN [bundled |-> bundled,
        updated |-> [bundled EXCEPT !.cityOf[<<1, 3, 8, 1, 2, 3, 4>>] = 2,
                                    !.operatorOf[<<1, 3, 8, 1, 2, 3, 4>>] = 1]]

Record(prefix, province, city, operator) ==
    [kind |-> "record", prefix |-> prefix, province |-> province, city |-> city,
     location |-> << >>, operator |-> operator]
Version == [kind |-> "version"]
Comment == [kind |-> "comment"]
Text == << Version, Record(<<1, 8, 0>>, << 51 >>, << 51 >>, << 61 >>),
           Record(<<1, 3, 3, 0, 0, 0, 1>>, << 52 >>, << 53 >>, << 62 >>),
           Record(<<1, 8, 0>>, << 54 >>, << 55 >>, << >>) >>
\* etc/numberlocation.data begins with the licence.
Shipped == << Comment >> \o Text

MCTextFiles == {Text, Shipped}
ShippedText == {Shipped}

Phone(region, network, sim) == [region |-> region, network |-> network, sim |-> sim, locale |-> "FI"]
MCPlaces == {Phone("CN", "CN", ""), Phone("CN", "", "US"), Phone("CN", "", ""), Phone("US", "US", "CN")}
AtHome == {Phone("CN", "CN", "")}

\* A number with what it means to a phone in China, in the United States and in Finland.
Line(exact, number, cn, us, fi) ==
    [exact |-> exact, number |-> number, means |-> [CN |-> cn, US |-> us, FI |-> fi]]
Everywhere(number, m) == Line(TRUE, number, m, m, m)
InChina(number, m) == Line(TRUE, number, m, Abroad, Abroad)

Segment == <<1, 3, 8, 1, 2, 3, 4>>
Mobile == Segment \o <<5, 6, 7, 8>>
Here == Meaning("mobile", Segment)
Beijing == Meaning("area", <<0, 1, 0>>)
Fixed == <<0, 1, 0, 1, 2, 3, 4, 5, 6, 7, 8>>
Code == <<Plus, 8, 6>>

Numbered == InChina(<<1, 3, 3, 0, 0, 0, 1, 9, 9, 9, 9>>,
                  Meaning("mobile", <<1, 3, 3, 0, 0, 0, 1>>))
Searched == Line(FALSE, <<1, 3, 3>>, Meaning("prefix", <<1, 3, 3>>), Nothing, Nothing)

Written ==
    {InChina(Mobile, Here), Everywhere(Code \o Mobile, Here), Everywhere(<<0, 0, 8, 6>> \o Mobile, Here),
     InChina(<<0>> \o Mobile, Here), InChina(<<1, 7, 9, 5, 1>> \o Mobile, Here),
     InChina(<<1, 3, 8, Blank, 1, 2, 3, 4, Blank, 5, 6, 7, 8>>, Here),
     Line(TRUE, <<0, 1, 1, 8, 6>> \o Mobile, Nothing, Here, Abroad),
     Line(TRUE, <<9, 9, 0, 8, 6>> \o Mobile, Nothing, Abroad, Here),
     Everywhere(<<0, 0, 8, 6>> \o Fixed, Beijing), InChina(<<0, 1, 0, 9, 5, 5, 8, 8>>, Beijing),
     InChina(<<1, 8, 0, 0, 0, 0, 9, 5, 5, 5, 5>>, Meaning("mobile", <<1, 8, 0, 0, 0, 0, 9>>)),
     Numbered, InChina(Fixed, Beijing), InChina(<<0, 7, 5, 5, 1, 2, 3, 4, 5, 6, 7>>, Meaning("area", <<0, 7, 5, 5>>)),
     InChina(<<0, 4, 0, 0, 1, 0, 0, 1, 1>>, Meaning("area", <<0, 4, 0, 0>>)),
     Everywhere(Code \o Tail(Fixed), Beijing), Everywhere(<<Plus, 1, 5, 5, 5, 1, 2, 3, 4, 5, 6>>, Abroad),
     Line(FALSE, Segment, Meaning("prefix", Segment), Abroad, Abroad),
     Line(FALSE, Take(Segment, 3), Meaning("prefix", Take(Segment, 3)), Nothing, Nothing),
     Line(FALSE, Take(Fixed, 5), Beijing, Nothing, Nothing),
     Line(TRUE, Take(Segment, 3), Nothing, Nothing, Nothing),
     Line(TRUE, <<1, 7, 9, 5, 1>>, Nothing, Nothing, Nothing), Everywhere(<< >>, Nothing)}

\* The grammar says of these numbers what a reader would.
ASSUME EachMeansOneThing ==
    \A w \in Written \cup {Searched} : \A iso \in DOMAIN w.means :
        Meanings(w.number, w.exact, iso) = {w.means[iso]}

Ask(w) == [exact |-> w.exact, numbers |-> << w.number >>]

MCAsks ==
    t1 :> ({Ask(w) : w \in Written} \cup {[exact |-> TRUE, numbers |-> <<Fixed, Code \o Mobile>>]})
    @@ t2 :> {Ask(Searched)}

PresetAsks == t1 :> {Ask(Numbered)} @@ t2 :> {}
=============================================================================
