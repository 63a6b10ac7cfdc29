-------------------------- MODULE MCPrivilegeHistory --------------------------
(* A table with a column, a schema, and PUBLIC on a function and on a type. *)
EXTENDS PrivilegeHistory

Table == [privileges |-> {"select", "insert", "update"}, columns |-> {"c"}, initial |-> {}, listed |-> TRUE]
Schema == [privileges |-> {"usage", "create"}, columns |-> {}, initial |-> {}, listed |-> TRUE]
PublicFunction == [privileges |-> {"execute"}, columns |-> {}, initial |-> {"execute"}, listed |-> TRUE]
PublicType == [privileges |-> {"usage"}, columns |-> {}, initial |-> {"usage"}, listed |-> FALSE]

AllKinds == {Table, Schema, PublicFunction, PublicType}

On(privileges) == privileges \X {Whole}

AllNamed ==
  {AllOf(k) : k \in AllKinds}
    \cup {On(P) : P \in {{"insert"}, {"select", "insert"}, {"insert", "update"},
                       {"usage"}, {"create"}}}
    \cup {{<<"update", "c">>}, On({"select"}) \cup {<<"insert", "c">>}}
================================================================================
