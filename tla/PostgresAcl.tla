------------------------------ MODULE PostgresAcl ------------------------------
(***************************************************************************)
(* What PostgreSQL keeps of the privileges of one role on one object, and  *)
(* what GRANT and REVOKE do to it.  The program only sends statements and  *)
(* reads the result from the catalog.                                      *)
(*                                                                         *)
(* A right is a privilege on the whole object or on one of its columns.  A *)
(* kind of object is a record: its privileges, its columns, the privileges *)
(* the role has on it from the start (PUBLIC has some on routines and      *)
(* types), and whether the catalog queries tell that these were revoked.   *)
(***************************************************************************)

\* The scope of a right on the object itself.
Whole == "whole"

Rights(k) == k.privileges \X ({Whole} \cup k.columns)

\* What ALL stands for.
AllOf(k) == k.privileges \X {Whole}

\* An object nobody has granted anything on.
Fresh(k) == [rights |-> k.initial \X {Whole}, options |-> {}]

Grant(acl, rights, withOption) ==
  [rights |-> acl.rights \cup rights,
   options |-> acl.options \cup IF withOption THEN rights ELSE {}]

\* A privilege revoked from the object is revoked from its columns too; one
\* revoked from a column stays if it is held on the whole object.
Revoke(acl, rights) ==
  LET gone(r) == r \in rights \/ <<r[1], Whole>> \in rights
  IN  [rights |-> {r \in acl.rights : ~gone(r)}, options |-> {r \in acl.options : ~gone(r)}]

\* A statement: its verb, the rights it names, and WITH GRANT OPTION.
Perform(acl, s) == IF s.verb = "GRANT" THEN Grant(acl, s.rights, s.option) ELSE Revoke(acl, s.rights)
================================================================================
