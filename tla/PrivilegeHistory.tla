--------------------------- MODULE PrivilegeHistory ---------------------------
(***************************************************************************)
(* A history of GRANT and REVOKE statements about one role and one object, *)
(* as the program reads it from declarations (dir:, git:), from migrations *)
(* and from a database, beside what PostgreSQL makes of it; and a database *)
(* to which the models of one tree of declarations after another are       *)
(* deployed.                                                               *)
(***************************************************************************)
EXTENDS PrivilegeModel, Sequences

CONSTANTS Kinds,          \* the kinds of objects, see PostgresAcl
          Named,          \* the sets of rights a statement may name
          MaxStatements   \* bound on the statements written, in all trees

\* What PUBLIC has from the start is the one privilege that the kind has
\* (builtinPublicDefaults).
ASSUME KindsAssumption ==
  \A k \in Kinds : k.initial # {} =>
     k.columns = {} /\ \E p \in k.privileges : k.privileges = {p} /\ k.initial = {p}

\* A statement names a privilege.
ASSUME NamedAssumption == {} \notin Named

VARIABLES kind,
          history,   \* the statements of the tree, in their order
          acl,       \* of an object on which exactly these were executed
          replayed,  \* the model that migrations with these statements leave
          db,        \* the ACL of the database that is deployed to
          head,      \* the model deployed to it last
          written    \* how many statements were written in earlier trees

vars == <<kind, history, acl, replayed, db, head, written>>

Init == /\ kind \in Kinds
        /\ history = <<>>
        /\ acl = Fresh(kind)
        /\ replayed = {}
        /\ db = Fresh(kind)
        /\ head = {}
        /\ written = 0

\* What may be written: WITH GRANT OPTION goes with a GRANT, never to PUBLIC.
Statements == {s \in [verb : {"GRANT", "REVOKE"}, rights : {R \in Named : R \subseteq Rights(kind)},
                      option : BOOLEAN] :
                 s.option => s.verb = "GRANT" /\ ~IsBuiltinPublic(kind)}

\* A statement is added to the declarations; as a migration, it is executed
\* and, when the migrations are read again, replayed.
Write(s) == /\ written + Len(history) < MaxStatements
            /\ history' = Append(history, s)
            /\ acl' = Perform(acl, s)
            /\ replayed' = ReplayStatement(kind, replayed, s, Len(history) + 1)
            /\ UNCHANGED <<kind, db, head, written>>

\* The diff from a model to that of the tree is executed.
Deploy(from) == /\ db' = Migrated(db, from, Declared(kind, history))
                /\ head' = Declared(kind, history)
                /\ UNCHANGED <<kind, history, acl, replayed, written>>

\* The declarations are written anew.
Rewrite == /\ history # <<>>
           /\ written' = written + Len(history)
           /\ history' = <<>>
           /\ acl' = Fresh(kind)
           /\ replayed' = {}
           /\ UNCHANGED <<kind, db, head>>

\* A diff starts from the model deployed last, or from the live database.
Next == \/ \E s \in Statements : Write(s)
        \/ Deploy(head)
        \/ Deploy(Catalog(kind, db))
        \/ Rewrite

Spec == Init /\ [][Next]_vars

--------------------------------------------------------------------------------
(* Properties. *)

\* What an ACL lets the role do; a right on a column that it has on the whole
\* object changes nothing.
Effective(a) == [rights |-> Absorbed(a.rights), options |-> Absorbed(a.options)]

\* The ACL of an object on which a model is created.
Built(model) == Migrated(Fresh(kind), {}, model)

\* The statements grant and revoke privileges of the whole object by their
\* names, none of them all of the privileges.
ByName == /\ ~IsBuiltinPublic(kind)
          /\ \A n \in DOMAIN history : /\ ~history[n].option
                                       /\ history[n].rights \subseteq AllOf(kind)
                                       /\ history[n].rights # AllOf(kind)

\* Some privilege is never named, so that what was granted so far is never all.
NeverAll == ~(AllOf(kind) \subseteq UNION {history[n].rights : n \in DOMAIN history})

\* However grants and revokes alternate, the model of declarations is what a
\* database tells after executing them, and so is the model replayed from
\* migrations, which is normalised after every statement: the fingerprints of
\* the three sources are equal.
SourcesAgree ==
  ByName => /\ Contents(Declared(kind, history)) = Contents(Catalog(kind, acl))
            /\ NeverAll => Contents(Reconstructed(kind, replayed)) = Contents(Catalog(kind, acl))

\* A database built from the model replayed from migrations lets the role do
\* nothing that the migrations themselves do not, whatever they name: a revoked
\* privilege never comes back through the cancelling of statements.
ReplayNeverWidens ==
  LET built == Effective(Built(Reconstructed(kind, replayed)))
  IN  built.rights \subseteq acl.rights /\ built.options \subseteq acl.options

\* On a database that has the privileges of the model deployed last, a diff
\* from that model, or from the database itself, to any other leaves exactly
\* the privileges of the other: narrowed and dropped rights are gone and no
\* revoke takes a granted one along.  (A model that keeps a partial revoke
\* beside its grant is the exception, and a diff from a database that does not
\* tell what PUBLIC has lost: see the README.)
DeploysExactly ==
  [][/\ Effective(db) = Effective(Built(head))
     /\ IF IsBuiltinPublic(kind) THEN kind.listed \/ db' = Migrated(db, head, head')
        ELSE Revokes(head) = {}
     => Effective(db') = Effective(Migrated(Fresh(kind), {}, head'))]_vars
================================================================================
