--------------------------- MODULE MCReplayHistory ---------------------------
(* Small schemas and the statements that may follow, for TLC. *)
EXTENDS ReplayHistory

Blank == [about |-> NoKey, uses |-> {}, places |-> <<>>, fkey |-> {},
          columns |-> <<>>, def |-> <<>>]
Int == <<"builtin", "int", "-">>
Text == <<"builtin", "text", "-">>
EnumKey == <<"enum", "e", "-">>

Table(t, columns) == [key |-> TableKey(t), columns |-> columns] @@ Blank
Index(n, t, keys, where, def) ==
    [key |-> <<"index", n, t>>, places |-> <<keys, where>>, def |-> def] @@ Blank
UniqueKey(n, t, keys) ==
    [key |-> <<"constraint", n, t>>, places |-> <<keys>>, def |-> <<"unique", "valid">>] @@ Blank
ForeignKey(n, t, keys, u, fkey) ==
    [key |-> <<"constraint", n, t>>, places |-> <<keys>>, fkey |-> fkey,
     uses |-> {TableKey(u)}, def |-> <<"foreign", "not valid">>] @@ Blank
Policy(n, t, using, check, uses) ==
    [key |-> <<"policy", n, t>>, places |-> <<using, check>>, uses |-> uses] @@ Blank
View(n, uses, columns) ==
    [key |-> <<"view", n, "-">>, uses |-> uses, places |-> <<columns>>,
     def |-> <<"definer">>] @@ Blank
Enum(values) == [key |-> EnumKey, def |-> values] @@ Blank
Routine(n, uses) == [key |-> <<"function", n, "-">>, uses |-> uses, def |-> <<"body">>] @@ Blank
Comment(k) ==
    [key |-> <<"comment", "-", IF k[1] \in {"column", "constraint", "policy"} THEN k[3] ELSE "-">>,
     about |-> AboutKey(k), def |-> <<"text">>] @@ Blank
Grant(k) == [key |-> <<"grant", "-", "-">>, about |-> k] @@ Blank

-----------------------------------------------------------------------------
Create(o) == [does |-> "create", o |-> o, mode |-> "plain"]
CreateMissing(o) == [does |-> "create", o |-> o, mode |-> "guarded"]
Replace(o) == [does |-> "create", o |-> o, mode |-> "replace"]
Drop(k) == [does |-> "drop", on |-> k, guarded |-> FALSE, cascade |-> FALSE]
DropCascade(k) == [Drop(k) EXCEPT !.cascade = TRUE]
DropIfThere(k) == [Drop(k) EXCEPT !.guarded = TRUE]
Uncomment(k) == [does |-> "uncomment", on |-> AboutKey(k)]
RenameTo(does, k, to) == [does |-> does, on |-> k, to |-> to]
AlterTable(does, k) == [does |-> does, on |-> k, guarded |-> FALSE, optional |-> FALSE]
Add(k, type) == [type |-> type] @@ AlterTable("add column", k)
Retype(k, type) == [type |-> type] @@ AlterTable("retype", k)
DropPart(does, k, cascade) == [cascade |-> cascade] @@ AlterTable(does, k)
IfThere(s) == [s EXCEPT !.guarded = TRUE]
IfTable(s) == [s EXCEPT !.optional = TRUE]
Attach(k, index) == [index |-> index] @@ AlterTable("attach", k)
Rls(t, to) == [to |-> to] @@ AlterTable("row security", TableKey(t))
AlterPolicy(k, at, columns) ==
    [does |-> "alter policy", on |-> k, at |-> at, columns |-> columns]
AddValue(value, before, guarded) ==
    [does |-> "add value", on |-> EnumKey, value |-> value, before |-> before,
     guarded |-> guarded]

T(c) == Column(c, "t")
U(c) == Column(c, "u")
IndexI == <<"index", "i", "t">>
IndexJ == <<"index", "j", "t">>
KeyOfT == <<"constraint", "tk", "t">>
KeyOfU == <<"constraint", "uf", "u">>
PolicyP == <<"policy", "p", "t">>

\* A table with keys and indexes, and one that refers to it.
Keyed ==
    << {Table("t", [a |-> Int, b |-> Int, c |-> Int]), Table("u", [a |-> Int]),
        UniqueKey("tk", "t", {T("a")}), ForeignKey("uf", "u", {U("a")}, "t", {T("a")}),
        Index("i", "t", {T("b")}, {T("c")}, <<"plain">>), Index("j", "t", {T("c")}, {}, <<"unique">>),
        Comment(IndexI), Comment(T("b")), Comment(KeyOfU)},
       {RenameTo("rename column", T("b"), "d"), RenameTo("rename column", T("a"), "d"),
        RenameTo("rename column", T("d"), "b"), RenameTo("rename column", U("a"), "b"),
        RenameTo("rename table", TableKey("t"), "x"), RenameTo("rename table", TableKey("x"), "t"),
        RenameTo("rename table", TableKey("u"), "y"),
        RenameTo("rename table", IndexJ, "m"),
        RenameTo("rename index", IndexJ, "m"), RenameTo("rename index", <<"index", "m", "t">>, "j"),
        RenameTo("rename index", IndexI, "m"), RenameTo("rename index", KeyOfT, "m"),
        Drop(IndexI), DropIfThere(IndexJ), Drop(TableKey("u")), Drop(TableKey("t")),
        DropCascade(TableKey("t")),
        DropPart("drop column", T("b"), FALSE), DropPart("drop column", T("c"), FALSE),
        DropPart("drop column", T("a"), TRUE), IfThere(DropPart("drop column", T("d"), FALSE)),
        DropPart("drop constraint", KeyOfU, FALSE), DropPart("drop constraint", KeyOfT, FALSE),
        DropPart("drop constraint", KeyOfT, TRUE),
        IfTable(IfThere(DropPart("drop constraint", KeyOfU, FALSE))),
        AlterTable("validate", KeyOfU), Attach(<<"constraint", "q", "t">>, IndexJ),
        Add(T("d"), Int), IfThere(Add(T("b"), Text)), Retype(T("c"), Text),
        CreateMissing(Index("j", "t", {T("b")}, {}, <<"unique">>)),
        CreateMissing(Index("i", "u", {U("a")}, {}, <<"plain">>)),
        Create(Comment(IndexJ)), Uncomment(IndexI), Uncomment(KeyOfU), Create(Table("x", [a |-> Int]))} >>

\* A table with row-level security, the policy that reads another table, views, a
\* grant and a function that names it.
Guarded ==
    << {Table("t", [a |-> Int, b |-> Int]), Table("u", [a |-> Int, k |-> Int]),
        Policy("p", "t", {T("a"), U("k")}, {T("b")}, {TableKey("u")}),
        View("v", {TableKey("t")}, {T("b")}), View("w", {<<"view", "v", "-">>}, {}),
        Comment(PolicyP), Grant(TableKey("u")), Routine("f", {TableKey("u")})},
       {Rls("t", "enable"), Rls("t", "disable"), Rls("t", "force"), Rls("x", "disable"),
        Rls("x", "enable"), Rls("u", "enable"),
        AlterPolicy(PolicyP, 1, {T("a"), U("a")}), AlterPolicy(PolicyP, 1, {T("b")}),
        AlterPolicy(PolicyP, 2, {T("a")}),
        Drop(PolicyP), Uncomment(PolicyP),
        RenameTo("rename table", TableKey("t"), "x"), RenameTo("rename table", TableKey("u"), "y"),
        RenameTo("rename table", <<"view", "v", "-">>, "x"),
        RenameTo("rename column", T("a"), "c"), RenameTo("rename column", T("b"), "c"),
        RenameTo("rename column", U("k"), "c"), RenameTo("rename column", U("a"), "c"),
        DropPart("drop column", T("a"), TRUE), DropPart("drop column", T("b"), TRUE),
        DropPart("drop column", U("k"), TRUE),
        Replace(View("v", {TableKey("t")}, {T("a")})), Drop(<<"view", "w", "-">>),
        DropCascade(<<"view", "v", "-">>), DropCascade(TableKey("u")), DropCascade(TableKey("t")),
        Drop(<<"function", "f", "-">>),
        Replace(Routine("f", {TableKey("t")})),
        [does |-> "set option", on |-> <<"view", "v", "-">>, def |-> <<"invoker">>],
        Create(Grant(TableKey("t"))), Create(Comment(T("b")))} >>

\* An enum and the columns that have it.
Typed ==
    << {Enum(<<"x", "y">>), Table("t", [a |-> EnumKey, b |-> Int]), Table("u", [a |-> Int]),
        Index("i", "t", {T("a")}, {}, <<"plain">>), Comment(EnumKey)},
       {AddValue("z", "-", FALSE), AddValue("z", "y", TRUE), AddValue("y", "-", TRUE),
        [does |-> "rename value", on |-> EnumKey, value |-> "x", to |-> "z"],
        Drop(EnumKey), DropCascade(EnumKey), Add(U("b"), EnumKey), Retype(T("a"), Text),
        Drop(TableKey("t")), DropPart("drop column", T("a"), FALSE),
        Retype(T("b"), Text), IfTable(Add(Column("c", "z"), Int)),
        RenameTo("rename table", TableKey("t"), "z"), Drop(TableKey("u")),
        Create(Enum(<<"x", "y">>)), CreateMissing(Enum(<<"x">>)),
        Create(Table("t", [a |-> EnumKey, b |-> Int]))} >>

AllHistories == {Keyed, Guarded, Typed}
==============================================================================
