--------------------------- MODULE MCDirectRunner ---------------------------
(***************************************************************************)
(* Instances of DirectRunner: three versions over two objects, the second  *)
(* with a concurrent companion, the third undoing the drop of the second.  *)
(***************************************************************************)
EXTENDS DirectRunner

CONSTANTS table, index, v1, v2

MCObject == {table, index}

F(v, c) == [version |-> v, name |-> 1, concurrent |-> c]

S(o, kind, v) == [obj |-> o, op |-> kind, val |-> v]

MCFile == {F(1, FALSE), F(2, FALSE), F(2, TRUE), F(3, FALSE)}

MCSql ==
  [f \in MCFile |->
     CASE f = F(1, FALSE) -> <<S(table, "create", v1), S(index, "create", v1)>>
       [] f = F(2, FALSE) -> <<S(table, "drop", v1)>>
       [] f = F(2, TRUE)  -> <<S(index, "drop", v1), S(index, "create", v2)>>
       [] f = F(3, FALSE) -> <<S(index, "replace", v1), S(table, "create", v2)>>]
=============================================================================
