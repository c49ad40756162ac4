--------------------------- MODULE MCIdentityStore ---------------------------
(***************************************************************************)
(* Two threads.  The pages of version "10" have numbers with and without   *)
(* the area code, and a record that is dropped; "9" comes after it in the  *)
(* order of strings.  A third file begins with the licence, as the one in  *)
(* etc/ does.                                                              *)
(***************************************************************************)
EXTENDS IdentityStore

CONSTANTS t1, t2

Phone(record, name, number, complete) ==
    [record |-> record, name |-> name, number |-> number, complete |-> complete]

Local == <<2, 3, 4, 5, 6, 7, 8, 9>>
Fixed == <<0, 1, 0>> \o Local
Mobile == <<1, 3, 8, 1, 2, 3, 4, 5, 6, 7, 8>>

Shipped == [version |-> NoVersion, phones |-> << >>]
First1 == [version |-> <<9>>, phones |-> << Phone(1, "local", Local, TRUE) >>]
Second == [version |-> <<1, 0>>, phones |-> << Phone(1, "local", Local, TRUE), Phone(2, "full", Fixed, TRUE),
               Phone(3, "mobile", Mobile, TRUE), Phone(3, "lost", <<9, 5>>, FALSE) >>]
MCAreas == {<<0, 1, 0>>}
Files1 == {Shipped, First1, Second}
Preset == {Shipped, First1}
Downloads == {First1, Second}

ToAsk(road, number, type) == [road |-> road, number |-> number, type |-> type]
MCAsks ==
    t1 :> {ToAsk("info", Mobile, NoType), ToAsk("set", <<0>> \o Mobile, "fraud"), ToAsk("set", Mobile, NoType)}
    @@ t2 :> {ToAsk("info", Mobile, NoType), ToAsk("pages", Fixed, NoType),
              ToAsk("marks", <<0>> \o Mobile, NoType), ToAsk("insert", Mobile, "fraud"),
              ToAsk("delete", Mobile, NoType), ToAsk("process", Fixed, NoType)}
=============================================================================
