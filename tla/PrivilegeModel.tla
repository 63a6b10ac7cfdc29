---------------------------- MODULE PrivilegeModel ----------------------------
(***************************************************************************)
(* The privileges of one role on one object as the program models them     *)
(* (sql/privileges.ts, source/normalize.ts, catalog/grants.ts): at most    *)
(* one GRANT and one REVOKE, made from the statements of a source.         *)
(*                                                                         *)
(* An object has the rights it names, those of them WITH GRANT OPTION and  *)
(* the ordinal of its statement.  The list ["ALL"] of the code, to which a *)
(* complete list is normalised, is here the complete set of rights.        *)
(***************************************************************************)
EXTENDS Integers, PostgresAcl

Grants(O) == {o \in O : o.verb = "GRANT"}
Revokes(O) == {o \in O : o.verb = "REVOKE"}

\* A right on the whole object absorbs the same one on a column.
Absorbed(rights) == {r \in rights : r[2] = Whole \/ <<r[1], Whole>> \notin rights}

IsAll(k, o) == AllOf(k) \subseteq o.rights
Privileges(o) == {r[1] : r \in o.rights}
OfColumns(o) == \E r \in o.rights : r[2] # Whole

\* The role has privileges on the kind from the start: it is PUBLIC.
IsBuiltinPublic(k) == k.initial # {}

ObjectOf(s, n) == [verb |-> s.verb, rights |-> Absorbed(s.rights),
                   options |-> IF s.option THEN Absorbed(s.rights) ELSE {}, ordinal |-> n]

Earliest(O) == CHOOSE n \in {o.ordinal : o \in O} : \A o \in O : n <= o.ordinal
Latest(O) == CHOOSE n \in {o.ordinal : o \in O} : \A o \in O : o.ordinal <= n

--------------------------------------------------------------------------------
(* normalizeSourceObjects: the lanes privileges go through, in their order. *)

\* A revoke clears the grants before it when it names what they name.
RevokeCovers(k, revoke, grants) ==
  /\ ~OfColumns(revoke)
  /\ \/ IsAll(k, revoke)
     \/ \A g \in grants : ~IsAll(k, g) /\ Privileges(g) \subseteq Privileges(revoke)

Clears(k, revoke, O) ==
  LET before == {g \in Grants(O) : g.ordinal < revoke.ordinal}
  IN  /\ before # {}
      /\ \E g \in Grants(O) : g.ordinal > revoke.ordinal
      /\ RevokeCovers(k, revoke, before)

\* Lane 1: revokes, from the first on, that clear what is followed by a new grant.
SuppressCleared(k, O) ==
  LET after[n \in 0 .. Latest(O)] ==
        IF n = 0 THEN O
        ELSE LET rest == after[n - 1]
                 clearing == {v \in Revokes(rest) : v.ordinal = n /\ Clears(k, v, rest)}
             IN  IF clearing = {} THEN rest
                 ELSE rest \ (clearing \cup {g \in Grants(rest) : g.ordinal < n})
  IN  IF IsBuiltinPublic(k) \/ O = {} THEN O ELSE after[Latest(O)]

Nettable(k, o) == ~IsBuiltinPublic(k) /\ ~IsAll(k, o) /\ ~OfColumns(o) /\ o.options = {}

\* Mutant of Net: a later grant does not undo a revoke.
NetUnordered(O) ==
  {r \in UNION {g.rights : g \in Grants(O)} : \A v \in Revokes(O) : r \notin v.rights}

\* What is left granted when the objects are applied in their order.
Net(O) ==
  {r \in UNION {g.rights : g \in Grants(O)} :
     \E g \in Grants(O) : /\ r \in g.rights
                          /\ \A v \in Revokes(O) : v.ordinal > g.ordinal => r \notin v.rights}

\* Lane 2: grants and revokes of privileges by name become their net grant.
ResolveInterleaved(k, O) ==
  IF Grants(O) = {} \/ Revokes(O) = {} \/ \E o \in O : ~Nettable(k, o) THEN O
  ELSE IF Net(O) = {} THEN {}
  ELSE {[verb |-> "GRANT", rights |-> Net(O), options |-> {}, ordinal |-> Earliest(Grants(O))]}

\* Mutant of MergeGroup: at the place of the last.
MergeGroupLast(verb, O) ==
  [verb |-> verb, rights |-> Absorbed(UNION {o.rights : o \in O}),
   options |-> Absorbed(UNION {o.options : o \in O}), ordinal |-> Latest(O)]

\* Lane 3: objects with one verb become one, at the place of the first.
MergeGroup(verb, O) ==
  [verb |-> verb, rights |-> Absorbed(UNION {o.rights : o \in O}),
   options |-> Absorbed(UNION {o.options : o \in O}), ordinal |-> Earliest(O)]

MergeSplit(O) == {MergeGroup("GRANT", G) : G \in {Grants(O)} \ {{}}}
                   \cup {MergeGroup("REVOKE", V) : V \in {Revokes(O)} \ {{}}}

\* A revoke that names nothing granted, or was followed by a grant.
Moot(k, revoke, grants) ==
  \/ grants = {}
  \/ /\ ~IsAll(k, revoke)
     /\ \A g \in grants : ~IsAll(k, g) /\ Privileges(g) \cap Privileges(revoke) = {}
  \/ revoke.ordinal < Latest(grants)

\* A revoke that takes the grants away with it.
Undoes(k, revoke, grants) ==
  \/ IsAll(k, revoke)
  \/ \A g \in grants : IsAll(k, g) \/ Privileges(g) \subseteq Privileges(revoke)

\* Lane 4: what only restates a default, or what a last revoke undoes, goes.
SuppressDefaultEqual(k, O) ==
  LET grants == Grants(O)
      undone == \E v \in Revokes(O) : ~Moot(k, v, grants) /\ Undoes(k, v, grants)
  IN  IF IsBuiltinPublic(k)
      THEN {o \in O : o.verb = "GRANT" => ~IsAll(k, o)}
      ELSE {g \in grants : ~undone}
             \cup {v \in Revokes(O) : ~Moot(k, v, grants) /\ ~Undoes(k, v, grants)}

Normalised(k, O) ==
  SuppressDefaultEqual(k, MergeSplit(ResolveInterleaved(k, SuppressCleared(k, O))))

--------------------------------------------------------------------------------
(* The three sources a model is made from. *)

\* A tree of declarations (dir:, git:): all its statements at once.
Declared(k, history) == Normalised(k, {ObjectOf(history[n], n) : n \in DOMAIN history})

\* Migrations (migrations:): each statement is merged into the model so far, and
\* the model is normalised in the end.
ReplayStatement(k, model, s, n) ==
  IF model = {} THEN {ObjectOf(s, n)} ELSE Normalised(k, model \cup {ObjectOf(s, n)})

Reconstructed(k, model) == Normalised(k, model)

\* A live database (db:).
Catalog(k, acl) ==
  IF ~IsBuiltinPublic(k)
  THEN IF acl.rights = {} THEN {}
       ELSE {[verb |-> "GRANT", rights |-> Absorbed(acl.rights),
              options |-> Absorbed(acl.options), ordinal |-> 0]}
  ELSE IF k.initial \X {Whole} \subseteq acl.rights \/ ~k.listed THEN {}
  ELSE {[verb |-> "REVOKE", rights |-> AllOf(k), options |-> {}, ordinal |-> 0]}

\* What the hash of an object is computed from: all of it but the ordinal.
Content(o) == [verb |-> o.verb, rights |-> o.rights, options |-> o.options]
Contents(model) == {Content(o) : o \in model}

--------------------------------------------------------------------------------
(* The migration from one model to another, executed. *)

\* renderGrantCreate
Created(acl, o) ==
  IF o.verb = "GRANT" THEN Grant(Grant(acl, o.rights, FALSE), o.options, TRUE)
  ELSE Revoke(acl, o.rights)

\* renderGrantDrop
Removed(acl, o) ==
  IF o.verb = "GRANT" THEN Revoke(Revoke(acl, o.rights), o.options)
  ELSE Grant(acl, o.rights, FALSE)

Changed(o, from) == Content(o) \notin Contents(from)
Before(o, from) == {b \in from : b.verb = o.verb}

\* Mutant of Upserted: a replacement grants without revoking first.
UpsertedOnTop(acl, o, from) == Created(acl, o)

\* A replacement drops what it replaces.
Upserted(acl, o, from) ==
  Created(IF Before(o, from) = {} THEN acl ELSE Removed(acl, CHOOSE b \in Before(o, from) : TRUE), o)

\* Drops come first, the last object's before the others; creations and
\* replacements follow in the target's order.
Migrated(acl, from, to) ==
  LET last == IF from \cup to = {} THEN 0 ELSE Latest(from \cup to)
      dropped[n \in 0 .. last + 1] ==
        LET drops == {o \in from : Before(o, to) = {} /\ o.ordinal = last + 1 - n}
        IN  IF n = 0 THEN acl
            ELSE IF drops = {} THEN dropped[n - 1]
            ELSE Removed(dropped[n - 1], CHOOSE o \in drops : TRUE)
      upserted[n \in 0 .. last + 1] ==
        LET upserts == {o \in to : Changed(o, from) /\ o.ordinal = n - 1}
        IN  IF n = 0 THEN dropped[last + 1]
            ELSE IF upserts = {} THEN upserted[n - 1]
            ELSE Upserted(upserted[n - 1], CHOOSE o \in upserts : TRUE, from)
  IN  upserted[last + 1]
================================================================================
