---------------------------- MODULE MCPlanExecution ----------------------------
(* Small families of objects for TLC. *)
EXTENDS PlanExecution

Blank == [key |-> None, kind |-> None, table |-> None, deps |-> {}, cols |-> {},
          fkey |-> {}, columns |-> <<>>, rest |-> 0, out |-> <<>>, fn |-> None,
          target |-> None, grantId |-> None, body |-> None, concurrent |-> FALSE]

Table(k, columns, rest) ==
    [key |-> k, kind |-> "table", columns |-> columns, rest |-> rest,
     deps |-> TypesOf(columns), grantId |-> k] @@ Blank
Query(kind, k, deps, cols, out) ==
    [key |-> k, kind |-> kind, deps |-> deps, cols |-> cols, out |-> out,
     grantId |-> k] @@ Blank
OnTable(kind, k, t, deps, cols) ==
    [key |-> k, kind |-> kind, table |-> t, deps |-> deps \cup {t},
     cols |-> cols] @@ Blank
Routine(k, deps, cols, out, body) ==
    [key |-> k, kind |-> "function", deps |-> deps, cols |-> cols, out |-> out,
     body |-> body, grantId |-> k \o "()"] @@ Blank
Matview(k, deps, cols, rest) ==
    [Query("materialized-view", k, deps, cols, <<"a">>) EXCEPT !.rest = rest]
Enum(k, values) == [key |-> k, kind |-> "enum", out |-> values, grantId |-> k] @@ Blank
ForeignKey(k, t, cols, other, fkey) ==
    [OnTable("constraint", k, t, {other}, cols) EXCEPT !.fkey = fkey]
Concurrent(index) == [index EXCEPT !.concurrent = TRUE]
Trigger(k, t, f, cols) ==
    [key |-> k, kind |-> "trigger", table |-> t, deps |-> {t}, fn |-> f,
     cols |-> cols] @@ Blank
Grant(k, o) ==
    [key |-> k, kind |-> "grant", target |-> o] @@ Blank
Comment(k, o) == [key |-> k, kind |-> "comment", target |-> o] @@ Blank
ColumnComment(k, t, c) == [Comment(k, t) EXCEPT !.table = t, !.cols = {<<t, c>>}]
ConstraintComment(k, t, o) == [Comment(k, o) EXCEPT !.table = t]

AB == [a |-> "int", b |-> "int"]
A == [a |-> "int"]
TextB == [a |-> "text", b |-> "int"]

\* Views on a table, one on the other, with a comment.
ViewFamily ==
    << {Table("t", AB, 0), Table("t", A, 0), Table("t", TextB, 0), Table("t", AB, 1)},
       {Query("view", "v", {"t"}, {<<"t", "a">>}, <<"a">>),
        Query("view", "v", {"t"}, {<<"t", "b">>}, <<"b">>),
        Query("view", "v", {"t"}, {<<"t", "a">>, <<"t", "b">>}, <<"a", "b">>)},
       {Query("view", "w", {"v"}, {<<"v", "a">>}, <<"a">>),
        Query("view", "w", {"t"}, {<<"t", "a">>}, <<"a">>)},
       {Comment("c", "v")} >>

\* A routine that reads the table, with what calls it and who may.
RoutineFamily ==
    << {Table("t", AB, 0), Table("t", TextB, 0), Table("t", AB, 1)},
       {Routine("f", {"t"}, {<<"t", "a">>}, <<"int">>, "late"),
        Routine("f", {"t"}, {<<"t", "a">>}, <<"text">>, "late"),
        Routine("f", {"t"}, {<<"t", "a">>}, <<"int">>, "recorded"),
        Routine("f", {"t"}, {<<"t", "b">>}, <<"int">>, "unproven")},
       {Trigger("g", "t", "f", {}), Query("view", "v", {"f"}, {}, <<"x">>)},
       {Grant("gf", "f()")} >>

\* Two tables, a foreign key, a policy that reads the other table and a column's
\* comment.
KeyFamily ==
    << {Table("t", AB, 0), Table("t", A, 0), Table("t", AB, 1)},
       {Table("u", A, 0), Table("u", A, 1)},
       {OnTable("constraint", "p", "t", {}, {<<"t", "a">>})},
       {ForeignKey("k", "u", {<<"u", "a">>}, "t", {<<"t", "a">>})},
       {OnTable("policy", "y", "u", {"t"}, {<<"t", "a">>})},
       {ColumnComment("cb", "t", "b"), ConstraintComment("cp", "t", "p")} >>

\* An enum a column has, a materialized view and what hangs on it.
TypeFamily ==
    << {Enum("e", <<"x">>), Enum("e", <<"x", "y">>), Enum("e", <<"y">>)},
       {Table("t", A, 0), Table("t", [a |-> "e"], 0)},
       {Matview("m", {"t"}, {<<"t", "a">>}, 0), Matview("m", {"t"}, {<<"t", "a">>}, 1)},
       {OnTable("index", "j", "m", {}, {<<"m", "a">>}),
        Query("view", "v", {"m"}, {<<"m", "a">>}, <<"a">>),
        Grant("gm", "m")} >>

\* Indexes built in the migration or in its companion, and a key, with comments.
IndexFamily ==
    << {Table("t", AB, 0), Table("t", A, 0), Table("t", TextB, 0), Table("t", AB, 1)},
       {OnTable("index", "i", "t", {}, {<<"t", "a">>}),
        Concurrent(OnTable("index", "i", "t", {}, {<<"t", "a">>})),
        Concurrent(OnTable("index", "i", "t", {}, {<<"t", "b">>}))},
       {OnTable("constraint", "p", "t", {}, {<<"t", "a">>}),
        OnTable("constraint", "p", "t", {}, {<<"t", "b">>})},
       {Comment("ci", "i")},
       {ConstraintComment("cp", "t", "p")} >>

\* A table and a view with grants, and a routine that reads the view.
GrantFamily ==
    << {Table("t", AB, 0), Table("t", AB, 1)},
       {Query("view", "v", {"t"}, {<<"t", "a">>}, <<"a">>),
        Query("view", "v", {"t"}, {<<"t", "a">>, <<"t", "b">>}, <<"a", "b">>)},
       {Grant("gv", "v")}, {Grant("gt", "t")},
       {Routine("f", {"v"}, {<<"v", "a">>}, <<"int">>, "late")} >>

\* A column changes its type, as the configuration allows, under a view with a
\* grant.
RetypeFamily ==
    << {Table("t", A, 0), Table("t", [a |-> "text"], 0)},
       {Query("view", "v", {"t"}, {<<"t", "a">>}, <<"a">>)},
       {Grant("gv", "v")} >>

RECURSIVE Choices(_, _)
Choices(family, n) ==
    IF n = 0 THEN {{}}
    ELSE {s \cup c : s \in Choices(family, n - 1),
                     c \in {{}} \cup {{o} : o \in family[n]}}

SchemasOf(family) == {s \in Choices(family, Len(family)) : Consistent(s)}
CasesOf(family, allowed) == SchemasOf(family) \X SchemasOf(family) \X {allowed}

Everything == [mode |-> "allow", hints |-> {}, inTransaction |-> FALSE]
OnlyT == [mode |-> "hint", hints |-> {"t", "p", "k", "y", "cb", "cp"},
          inTransaction |-> TRUE]

MCCases == CasesOf(ViewFamily, Everything) \cup CasesOf(RoutineFamily, Everything)
           \cup CasesOf(KeyFamily, Everything) \cup CasesOf(SubSeq(KeyFamily, 1, 4), OnlyT)
           \cup CasesOf(GrantFamily, Everything)
           \cup CasesOf(TypeFamily, Everything) \cup CasesOf(IndexFamily, Everything)

RetypeCases == CasesOf(RetypeFamily, OnlyT)

MCOrdinal == [t |-> 20, u |-> 19, e |-> 18, m |-> 17, v |-> 16, w |-> 15, i |-> 14,
              j |-> 13, f |-> 12, g |-> 11, p |-> 10, k |-> 9, y |-> 8, c |-> 7,
              cb |-> 6, cp |-> 5, gf |-> 4, gv |-> 4, gt |-> 1, gm |-> 3, ci |-> 2]
===============================================================================
