---------------------------- MODULE MCOperationOrder ----------------------------
(* Four operations whose base order is their number, and every graph on them. *)
EXTENDS OperationOrder

MCOperation == 1 .. 4
MCPosition == [o \in MCOperation |-> o]
================================================================================
