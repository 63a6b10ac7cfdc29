------------------------------- MODULE ViewColumns -------------------------------
(***************************************************************************)
(* The columns that the generated contracts give a view: collectViewColumns*)
(* (src/typegen/views.ts) reads the query of the view against the relations*)
(* known so far and finds a name and a type for each column.  All schemas  *)
(* are one, so that a name has no schema.  Left out are VALUES, functions  *)
(* in FROM, array and operator expressions, and overloaded functions;      *)
(* notNull too, which registerViewShapes resets for every view.            *)
(***************************************************************************)
EXTENDS PostgresViews

Unknown == "unknown"      \* also for undefined

-----------------------------------------------------------------------------
(* SourceInfo: columns in order, and by the names of their source.  Two    *)
(* arrays of columns are the same when they are one array, so each carries *)
(* where it comes from.                                                    *)

NoSource == [columns |-> <<>>, qualified |-> <<>>]
Array(of, columns) == [of |-> of, columns |-> columns]

\* A name of two different arrays names none.
SetQualified(qualified, n, array) ==
    (n :> IF n \in DOMAIN qualified /\ qualified[n].of # array.of
          THEN Array("several", <<>>) ELSE array) @@ qualified

MergedQualified(a, b) ==
    FoldSet(LAMBDA n, all : SetQualified(all, n, b[n]), a, DOMAIN b)

MergeSource(a, b) ==
    [columns |-> a.columns \o b.columns, qualified |-> MergedQualified(a.qualified, b.qualified)]

SourceFrom(array, names) ==
    IF array.columns = <<>> THEN NoSource
    ELSE [columns |-> array.columns, qualified |-> [n \in names |-> array]]

\* The last of the columns with a name; of a merged column, that of the left.
MergedUsingColumns(left, right, using) ==
    LET LastNamed(columns, n) == LET all == Named(columns, n) IN
                                 IF all = <<>> THEN <<>> ELSE <<Last(all)>>
        Merged(n) == IF LastNamed(left, n) # <<>> THEN LastNamed(left, n) ELSE LastNamed(right, n) IN
    FlattenSeq([i \in DOMAIN using |-> Merged(using[i])])
        \o Without(left, ToSet(using)) \o Without(right, ToSet(using))

-----------------------------------------------------------------------------
(* Types of expressions.  A context: [ctes, from, outer, relations].       *)

OnlyOne(columns) == IF Len(columns) = 1 THEN columns[1].type ELSE Unknown
FirstOf(columns) == IF columns = <<>> THEN Unknown ELSE columns[1].type

\* columnRefType: the query's own sources first, then those around it.
ColumnRefType(q, n, context) ==
    IF q # None
    THEN CASE q \in DOMAIN context.from.qualified ->
                  FirstOf(Named(context.from.qualified[q].columns, n))
           [] q \notin DOMAIN context.from.qualified /\ q \in DOMAIN context.outer.qualified ->
                  FirstOf(Named(context.outer.qualified[q].columns, n))
           [] OTHER -> Unknown
    ELSE LET here == Named(context.from.columns, n) IN
         OnlyOne(IF here # <<>> THEN here ELSE Named(context.outer.columns, n))

\* firstKnownType, firstResolvedType
FirstKnown(types) ==
    LET known == SelectSeq(types, LAMBDA type : type # Unknown) IN
    IF known = <<>> THEN Unknown ELSE known[1]

ConstantType(type) == IF type = "null" THEN Unknown ELSE type

RECURSIVE InferType(_, _), ColumnsForSelect(_, _, _, _), SourceFor(_, _, _, _), CteSources(_, _, _)

InferType(value, context) ==
    CASE value.e = "column" -> ColumnRefType(value.q, value.n, context)
      [] value.e = "literal" -> ConstantType(value.type)
      [] value.e = "cast" -> value.type
      [] value.e = "coalesce" ->
             FirstKnown([i \in DOMAIN value.args |-> InferType(value.args[i], context)])
      [] value.e = "call" -> FunctionType[value.f]
      [] value.e = "sublink" ->
             FirstOf(ColumnsForSelect(value.query, context.relations, context.ctes,
                                      MergeSource(context.outer, context.from)))

-----------------------------------------------------------------------------
(* Targets *)

\* expressionColumnName: other expressions have no name.
ExpressionColumnName(value) ==
    CASE value.e = "call" -> value.f
      [] value.e = "literal" -> "?column?"
      [] OTHER -> None

OutputName(target) ==
    CASE target.alias # None -> target.alias
      [] target.alias = None /\ target.value.e = "column" -> target.value.n
      [] OTHER -> ExpressionColumnName(target.value)

\* A column whose type is not found may still be found by its name alone.
TargetType(value, context) ==
    LET type == InferType(value, context) IN
    IF type = Unknown /\ value.e = "column"
    THEN OnlyOne(Named(context.from.columns, value.n)) ELSE type

\* A target without a name is left out.
ExpandTarget(target, context) ==
    IF target.value.e = "star"
    THEN CASE target.value.q = None -> context.from.columns
           [] target.value.q # None /\ target.value.q \in DOMAIN context.from.qualified ->
                  context.from.qualified[target.value.q].columns
           [] OTHER -> <<>>
    ELSE IF OutputName(target) = None THEN <<>>
    ELSE <<[name |-> OutputName(target), type |-> TargetType(target.value, context)]>>

-----------------------------------------------------------------------------
(* FROM, WITH and the query itself *)

SourceForRangeVar(item, relations, ctes) ==
    LET names == {item.name, item.alias} \ {None} IN
    CASE item.name \in DOMAIN ctes -> SourceFrom(Array(<<"cte", item.name>>, ctes[item.name]), names)
      [] item.name \notin DOMAIN ctes /\ item.name \in DOMAIN relations ->
             SourceFrom(Array(<<"relation", item.name>>, relations[item.name]), names)
      [] OTHER -> NoSource

SourceForJoin(item, left, right) ==
    LET names == {item.alias} \ {None}
        Aliased(columns) ==
            SourceFrom(Array(<<"join", item.alias>>, columns), names)
        using == MergedNames(item, left.columns, right.columns)
        columns == IF using = <<>> THEN left.columns \o right.columns
                   ELSE MergedUsingColumns(left.columns, right.columns, using) IN
    CASE left.columns = <<>> -> IF names = {} THEN right ELSE Aliased(right.columns)
      [] left.columns # <<>> /\ right.columns = <<>> ->
             IF names = {} THEN left ELSE Aliased(left.columns)
      [] OTHER -> IF names # {} THEN Aliased(columns)
                  ELSE [columns |-> columns,
                        qualified |-> MergedQualified(left.qualified, right.qualified)]

SourceFor(item, relations, ctes, outer) ==
    CASE item.item = "relation" -> SourceForRangeVar(item, relations, ctes)
      [] item.item = "subselect" ->
             LET columns == ColumnsForSelect(item.query, relations, ctes,
                                             IF item.lateral THEN outer ELSE NoSource) IN
             SourceFrom(Array(<<"subselect", item.alias>>, Renamed(columns, item.names)), {item.alias})
      [] item.item = "join" ->
             LET left == SourceFor(item.l, relations, ctes, outer) IN
             SourceForJoin(item, left, SourceFor(item.r, relations, ctes, MergeSource(outer, left)))

\* A FROM item sees, when it may look outside, what stands to its left.
FromClauseSource(from, relations, ctes, outer) ==
    FoldLeft(LAMBDA info, item :
                 MergeSource(info, SourceFor(item, relations, ctes, MergeSource(outer, info))),
             NoSource, from)

\* A query in WITH sees nothing outside.
CteSources(query, relations, inherited) ==
    FoldLeft(LAMBDA ctes, cte :
                 (cte.name :> Renamed(ColumnsForSelect(cte.query, relations, ctes, NoSource),
                                      cte.names)) @@ ctes,
             inherited, query.ctes)

ColumnsForSelect(query, relations, inherited, outer) ==
    LET ctes == CteSources(query, relations, inherited) IN
    IF query.op = "union"
    THEN LET l == ColumnsForSelect(query.l, relations, ctes, outer)
             r == ColumnsForSelect(query.r, relations, ctes, outer)
             Right(i) == IF i \in DOMAIN r THEN r[i].type ELSE Unknown IN
         [i \in DOMAIN l |-> [l[i] EXCEPT !.type = FirstKnown(<<@, Right(i)>>)]]
    ELSE LET context == [ctes |-> ctes, outer |-> outer, relations |-> relations,
                         from |-> FromClauseSource(query.from, relations, ctes, outer)] IN
         FlattenSeq([i \in DOMAIN query.targets |-> ExpandTarget(query.targets[i], context)])

-----------------------------------------------------------------------------
\* selectOutputColumns: of the leftmost query, nothing unless every target is
\* named or a column.
RECURSIVE OutputColumns(_)
OutputColumns(query) ==
    IF query.op = "union" THEN OutputColumns(query.l)
    ELSE LET Name(target) == CASE target.alias # None -> target.alias
                               [] target.alias = None /\ target.value.e = "column" -> target.value.n
                               [] OTHER -> None
             names == [i \in DOMAIN query.targets |-> Name(query.targets[i])] IN
         IF None \in ToSet(names) THEN <<>> ELSE names

\* metadata.viewColumns
ViewColumnNames(v) == IF v.aliases # <<>> THEN v.aliases ELSE OutputColumns(v.query)

\* Names that were written down count; they have types when as many are found.
CollectViewColumns(v, relations) ==
    LET names == ViewColumnNames(v)
        expanded == ColumnsForSelect(v.query, relations, <<>>, NoSource)
        Type(i) == IF Len(names) = Len(expanded) THEN expanded[i].type ELSE Unknown IN
    IF names = <<>> THEN expanded
    ELSE [i \in DOMAIN names |-> [name |-> names[i], type |-> Type(i)]]
===============================================================================
