------------------------------- MODULE MCViewShapes -------------------------------
(* Three views over two tables: one of the tables, one of the first, one of both. *)
EXTENDS ViewShapes

MCTable == {"t", "u"}
Column(name, type) == [name |-> name, type |-> type, generated |-> FALSE]
MCTableColumns ==
    [t |-> <<Column("id", "bigint"), Column("name", "text")>>,
     u |-> <<Column("id", "integer"), Column("note", "text"),
             [Column("size", "integer") EXCEPT !.generated = TRUE]>>]
MCFunctionType == [upper |-> "text", count |-> "bigint", expand |-> "bigint"]
MCOneRowFunction == {"upper"}

T == RangeVar("t", None)
U == RangeVar("u", None)
C(n) == Target(None, ColumnRef(None, n))
Of(q, n) == Target(None, ColumnRef(q, n))
All == Target(None, Star(None))
As(n, value) == Target(n, value)
Id == ColumnRef(None, "id")
Name == ColumnRef(None, "name")
Count == Call("count", <<>>)
Upper == Call("upper", <<Name>>)
Grouped(query) == [query EXCEPT !.grouped = TRUE]
With(ctes, query) == [query EXCEPT !.ctes = ctes]
On(l, r) == Join(l, r, <<>>, FALSE, None)

IdName == Select(<<T>>, <<C("id"), C("name")>>)
IdNote == Select(<<U>>, <<C("id"), C("note")>>)

\* Over the tables; each has a column id.
TableQueries ==
    {IdName, IdNote,
     Select(<<T>>, <<All>>),
     Select(<<U>>, <<C("id"), C("size")>>),
     Select(<<T>>, <<C("id"), Target(None, Upper)>>),
     Select(<<T>>, <<All, Target(None, Upper)>>),
     Grouped(Select(<<T>>, <<C("id"), As("n", Count)>>)),
     Grouped(IdName),
     Select(<<T>>, <<C("id"), As("e", Call("expand", <<Id>>))>>),
     Select(<<T>>, <<C("id"), As("n", SubLink(Select(<<U>>, <<Target(None, Count)>>)))>>),
     Select(<<T>>, <<C("id"), Target(None, Cast(Name, "text"))>>),
     Select(<<T>>, <<C("id"), As("label", Cast(Id, "text"))>>),
     Select(<<On(RangeVar("t", "x"), RangeVar("u", "y"))>>, <<Of("x", "id"), Of("y", "note")>>),
     Select(<<Join(T, U, <<"id">>, FALSE, None)>>, <<All>>),
     Select(<<Join(U, T, <<>>, TRUE, "j")>>, <<Target(None, Star("j"))>>),
     Select(<<Join(RangeVar("t", "x"), RangeVar("u", "y"), <<"id">>, FALSE, None)>>,
            <<Target(None, Star("x")), Of("y", "size")>>),
     Select(<<T>>, <<As("id", Coalesce(<<Id, Literal("text")>>)), As("one", Literal("integer"))>>),
     Select(<<T>>, <<As("id", Coalesce(<<Literal("text"), Id>>))>>),
     Select(<<T>>, <<C("id"), Target(None, Coalesce(<<Name, Literal("text")>>))>>),
     Union(IdName, IdNote),
     Union(Select(<<T>>, <<As("id", Literal("null")), C("name")>>), IdNote),
     Union(Select(<<T>>, <<As("id", Literal("text")), C("name")>>), IdNote),
     With(<<Cte("w", IdName, <<"id", "label">>)>>, Select(<<RangeVar("w", None)>>, <<All>>)),
     With(<<Cte("t", Select(<<U>>, <<C("note"), C("id")>>), <<"name">>),
            Cte("w", Select(<<T>>, <<All>>), <<>>)>>,
          Select(<<RangeVar("w", "x")>>, <<Of("x", "id"), Of("x", "name")>>)),
     Select(<<Subselect(IdName, "s", <<"key">>, FALSE)>>,
            <<As("id", ColumnRef("s", "key")), Of("s", "name")>>),
     Select(<<T, Subselect(Select(<<U>>, <<As("k", ColumnRef("t", "name"))>>), "s", <<>>, TRUE)>>,
            <<Of("t", "id"), C("k")>>),
     Select(<<T>>, <<C("id"), As("note", SubLink(Select(<<U>>, <<C("note")>>)))>>),
     Select(<<RangeVar("t", "x")>>,
            <<C("id"), As("k", SubLink(Select(<<U>>, <<Of("x", "name")>>)))>>),
     Select(<<RangeVar("t", "u"), RangeVar("u", "z")>>, <<Of("z", "id"), Of("u", "name")>>),
     Select(<<RangeVar("t", "u")>>,
            <<Of("u", "id"), As("k", SubLink(Select(<<RangeVar("u", "z")>>, <<Of("u", "name")>>)))>>),
     Select(<<RangeVar("t", "x"), RangeVar("t", "y")>>,
            <<Of("x", "id"), As("other", ColumnRef("y", "name"))>>),
     Select(<<T>>, <<C("id"), As("k", SubLink(Select(<<U>>, <<As("k", SubLink(
                Select(<<Subselect(Select(<<T>>, <<As("q", Name)>>), "w", <<>>, FALSE)>>,
                       <<C("id")>>)))>>)))>>)}

View(name, kind, aliases, query) == [name |-> name, kind |-> kind, aliases |-> aliases, query |-> query]

FirstViews ==
    {View("a", "view", <<>>, query) : query \in TableQueries}
    \cup {View("a", "materialized-view", <<>>, IdName),
          View("a", "view", <<"id", "label">>, IdName),
          View("a", "view", <<"id", "label">>, Select(<<T>>, <<All>>)),
          View("a", "view", <<"id", "name", "label">>, Select(<<T>>, <<All, Target(None, Upper)>>)),
          View("a", "view", <<"id">>, IdNote)}

\* Over one relation that has a column id.
QueriesOver(n) ==
    LET R == RangeVar(n, None) IN
    {Select(<<R>>, <<All>>),
     Select(<<R>>, <<C("id"), As("one", Literal("integer"))>>),
     Select(<<RangeVar(n, "x"), RangeVar("t", "y")>>, <<Of("x", "id"), Of("y", "name")>>),
     Select(<<T>>, <<As("id", SubLink(Select(<<R>>, <<C("id")>>)))>>),
     Union(Select(<<T>>, <<C("id")>>), Select(<<R>>, <<C("id")>>)),
     With(<<Cte("w", Select(<<R>>, <<All>>), <<>>)>>,
          Select(<<RangeVar("w", None)>>, <<C("id")>>))}

MCSchemas ==
    {<<a, View("b", "view", <<>>, second), View("c", "view", <<>>, third)>> :
        a \in FirstViews, second \in QueriesOver("a"),
        third \in {Select(<<RangeVar("b", None)>>, <<All>>),
                   Select(<<RangeVar("b", "x"), RangeVar("a", "y")>>,
                          <<Of("x", "id"), As("other", ColumnRef("y", "id"))>>)}}
===============================================================================
