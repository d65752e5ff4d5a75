--------------------------- MODULE MCStorageEngine ---------------------------
(* Small instances of StorageEngine: 1, 2 and 3 are integers; 11, 12, 13, 15 *)
(* and 16 are the strings "1", "2x", "3", "x" and "y", of which the last    *)
(* ones are too long for an index page where they are not indexable.        *)
EXTENDS StorageEngine

MCKind == [v \in Values |-> IF v <= 3 THEN "int" ELSE "str"]

Col(type, notNull, indexed, default) ==
    [type |-> type, notNull |-> notNull, indexed |-> indexed, default |-> default]

Key(type) == Col(type, TRUE, TRUE, None)

Plain(default) == Col("int", FALSE, FALSE, default)

KeySchemas == {[k |-> Key("int"), v |-> Plain(1)], [k |-> Key("int"), v |-> Key("int")],
               [k |-> Key("str"), v |-> Plain(1)]}

Full(a, b) == [byColumns |-> FALSE, given |-> [k |-> a, v |-> b]]

KeyOnly(a, byColumns) == [byColumns |-> byColumns, given |-> [k |-> a]]

Set(c, a) == [col |-> c, val |-> a]

Column(c) == [is |-> "column", name |-> c, str |-> 15, number |-> None, whole |-> FALSE]

NullText == [is |-> "null", name |-> None, str |-> 15, number |-> None, whole |-> FALSE]

Text(str, number, whole) ==
    [is |-> "text", name |-> None, str |-> str, number |-> number, whole |-> whole]

One == Text(11, 1, TRUE)

Three == Text(13, 3, TRUE)

X == Text(15, None, FALSE)

Y == Text(16, None, FALSE)

\* stoll reads 2x as 2.
TwoX == Text(12, 2, FALSE)

Everything == [op |-> "NONE", left |-> NullText, right |-> NullText, right2 |-> NullText]

Compare(c, op, o) == [op |-> op, left |-> Column(c), right |-> o, right2 |-> NullText]

Between(c, a, b) == [op |-> "BETWEEN", left |-> Column(c), right |-> a, right2 |-> b]

RowsRowLists == {<<Full(1, 2), Full(2, 1)>>, <<KeyOnly(2, FALSE)>>, <<KeyOnly(1, TRUE)>>,
                 <<Full(Null, 1)>>, <<Full(11, 1), Full(15, 2)>>}

\* Those that compare v, and the last one, are tested row by row.
RowsWheres ==
    {Compare("k", "EQ", One), Compare("k", "EQ", X), Compare("k", "EQ", NullText),
     Between("k", One, Three), Between("k", One, TwoX), Between("k", X, Y),
     Between("k", One, Column("v")), Compare("v", "LT", Three), Compare("v", "EQ", One),
     Everything}

RowsSetLists == {<<Set("k", 2)>>, <<Set("v", 2), Set("k", 1)>>, <<Set("k", Null)>>}

\* Two tables, of which only one has an index, and few rows: for crashes.
TwoSchemas == {[k |-> Key("int")], [k |-> Plain(None)]}

Single(a) == <<[byColumns |-> FALSE, given |-> [k |-> a]]>>

CrashRowLists == {Single(1), Single(1) \o Single(2)}

CrashWheres == {Compare("k", "EQ", One)}

CrashSetLists == {<<Set("k", 2)>>}

PlainSchema == {[k |-> Plain(None)]}

\* An indexed column whose type may change when the table is made again.
TwoKinds == {[k |-> Key("int")], [k |-> Key("str")]}

StaleRowLists == {Single(1), Single(15)}

ThreeSchemas == TwoKinds \cup PlainSchema

FaultRowLists == {Single(1) \o Single(15), Single(15)}

\* Every row of integers, by the keys found or one by one.
FaultWheres == {Between("k", One, Three)}

FaultSetLists == {<<Set("k", 2)>>, <<Set("k", 15)>>}

\* A table of strings, one of which no index page can hold.
StringKey == {[k |-> Key("str")]}

LongRowLists == {Single(15), Single(16)}

NoWheres == {}

=============================================================================
