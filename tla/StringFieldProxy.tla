-------------------------- MODULE StringFieldProxy --------------------------
(***************************************************************************)
(* The conversions that number_identity_datashare_transform.cpp puts       *)
(* around a query of a table: a condition on the field "number" is widened *)
(* to the transformed values, and the rows found are given back under the  *)
(* values asked for.                                                       *)
(*                                                                         *)
(* A row is a record with a field number, a query result a sequence of     *)
(* rows.  A condition is [operation, field, values], values a set.  The    *)
(* transform is a function of the values that occur in a condition.        *)
(*                                                                         *)
(* A query has one condition here.  The code takes any number, and when    *)
(* several are on the field, the mapping of the last replaces the others.  *)
(***************************************************************************)
EXTENDS Sequences, FiniteSets, SequencesExt, FiniteSetsExt, Subsequences

Conditions == {"EQUAL_TO", "SQL_IN"}

EqualTo(field, value) == [operation |-> "EQUAL_TO", field |-> field, values |-> {value}]
In(field, values) == [operation |-> "SQL_IN", field |-> field, values |-> values]

\* External: the rows of a table that meet a condition, in the order of the table.
Select(table, item) == Keep(table, {row \in Range(table) : row.number \in item.values})

\* TransformEqualTo and TransformSqlIn: the widened condition and the mapping, which an
\* EqualTo with nothing to transform does not have.
TransformOperation(item, field, transform) ==
    LET mapping == [v \in item.values |-> transform[v]]
        same == \A v \in item.values : mapping[v] = v
    IN IF item.field # field \/ item.operation \notin Conditions
            \/ (item.operation = "EQUAL_TO" /\ same)
       THEN [item |-> item, mapped |-> FALSE, mapping |-> << >>]
       ELSE [item |-> In(field, item.values \cup {mapping[v] : v \in item.values}),
             mapped |-> TRUE, mapping |-> mapping]

\* recordMapping keeps the last of the rows with the same number.
LastWith(rows, number) == rows[Max({i \in DOMAIN rows : rows[i].number = number})]
Has(rows, number) == \E i \in DOMAIN rows : rows[i].number = number

\* Mutant: the row of the transformed value comes first.
MapResultTransformed(rows, mapping) ==
    LET found(v) == IF Has(rows, mapping[v]) THEN [LastWith(rows, mapping[v]) EXCEPT !.number = v]
                                             ELSE LastWith(rows, v)
        present == {v \in DOMAIN mapping : Has(rows, v) \/ Has(rows, mapping[v])}
    IN [i \in 1..Cardinality(present) |-> found(SetToSeq(present)[i])]

\* One row for each value asked for: its own, or that of the transformed value.
MapResult(rows, mapping) ==
    LET found(v) == IF Has(rows, v) THEN LastWith(rows, v)
                                    ELSE [LastWith(rows, mapping[v]) EXCEPT !.number = v]
        present == {v \in DOMAIN mapping : Has(rows, v) \/ Has(rows, mapping[v])}
    IN [i \in 1..Cardinality(present) |-> found(SetToSeq(present)[i])]

\* MapResult gives nothing if the answer lacks the column of the field, has no string in it or
\* cannot be read; mappable says that none of this is so.  Otherwise the rows are returned as
\* they were found, those of the transformed values among them.
ProxyQuery(table, item, field, transform, mappable) ==
    LET t == TransformOperation(item, field, transform)
        rows == Select(table, t.item)
    IN IF t.mapped /\ mappable THEN MapResult(rows, t.mapping) ELSE rows
=============================================================================
