------------------------ MODULE ProjectionDefinition ------------------------
(***************************************************************************)
(* crud-gen: what assertProjectionResourceDefinition accepts.  The one     *)
(* check stands between a hand-written resource declaration and every      *)
(* statement the dialects compile from it, so what matters is that an      *)
(* accepted definition really is safe to run.  A definition is a record;   *)
(* ill-typed ones (a name that is not a string) are left out.              *)
(***************************************************************************)
EXTENDS FiniteSets, JsonPaths

CONSTANTS
    Candidates,     \* the definitions to examine
    Docs            \* payloads to try an accepted definition on

VARIABLES def, accepted

vars == <<def, accepted>>

Codecs  == {"string", "uuid", "instant", "integer", "boolean", "json"}
Ordered == {"instant", "integer"}

\* The parts of a definition; a field without an index has "" for its name.
FieldType ==
    [storage : {"column", "json"}, name : STRING, codec : Codecs, nullable : BOOLEAN, required : BOOLEAN,
     column : STRING, path : Seq(STRING), filter : SUBSET {"eq", "range"}, sort : BOOLEAN, index : STRING]
ReferenceType ==
    [name : STRING, index : STRING, fields : Seq(STRING), targets : Seq(STRING), scopeTarget : STRING,
     onDelete : STRING]
UniqueType == [name : STRING, fields : Seq(STRING), predicate : SUBSET STRING]

ReservedColumns(d) == {d.scope, d.identity, d.revision, "payload"}

Header(d) ==
    /\ Cardinality(ReservedColumns(d)) = 4
    /\ d.serverOwned /\ d.hard /\ d.uniqueWithinScope /\ ~d.allowPatch

\* assertFieldQueryCapabilities
QueryOk(f) ==
    /\ f.codec = "json" => f.filter = {} /\ ~f.sort /\ f.index = ""
    /\ f.codec \notin Ordered => "range" \notin f.filter

FieldOk(d, f) ==
    /\ f.name \notin {d.scope, d.revision, "payload", "expectedRevision"}
    /\ f.required <=> ~f.nullable
    /\ f.storage = "column" =>
          /\ f.column # "" /\ f.path = <<>> /\ f.codec # "json"
          /\ f.column \in ReservedColumns(d) => f.name = d.identity /\ f.column = d.identity
    /\ f.storage = "json" => f.column = "" /\ f.path # <<>>
    /\ QueryOk(f)
    /\ f.index # d.identityIndex

\* Mutant: only equal paths overlap.
ClashOnEqualPaths(f, g) ==
    \/ f.name = g.name
    \/ f.storage = "column" /\ g.storage = "column" /\ f.column = g.column
    \/ f.storage = "json" /\ g.storage = "json" /\ f.path = g.path
    \/ f.index # "" /\ f.index = g.index

Clash(f, g) ==
    \/ f.name = g.name
    \/ f.storage = "column" /\ g.storage = "column" /\ f.column = g.column
    \/ f.storage = "json" /\ g.storage = "json" /\ Overlap(f.path, g.path)
    \/ f.index # "" /\ f.index = g.index

Fields(d) == ToSet(d.fields)

FieldsOk(d) ==
    /\ \A i \in DOMAIN d.fields : FieldOk(d, d.fields[i])
    /\ \A i, j \in DOMAIN d.fields : i # j => ~Clash(d.fields[i], d.fields[j])

IdentityOk(d) ==
    \E f \in Fields(d) : /\ f.name = d.identity /\ f.column = d.identity
                         /\ f.storage = "column" /\ f.codec \in {"string", "uuid"}
                         /\ ~f.nullable /\ f.required

Promoted(d, name) ==
    /\ name \notin {d.identity, d.scope}
    /\ \E f \in Fields(d) : f.name = name /\ f.storage = "column" /\ f.codec # "json"

Distinct(s) == s # <<>> /\ IsInjective(s)

FieldIndexes(d) == {f.index : f \in Fields(d)} \ {""}

ReferencesOk(d) ==
    /\ \A i, j \in DOMAIN d.references :
          i # j => /\ d.references[i].name # d.references[j].name
                   /\ d.references[i].index # d.references[j].index
    /\ \A r \in ToSet(d.references) :
          /\ r.index \notin FieldIndexes(d)
          /\ Distinct(r.fields) /\ \A n \in ToSet(r.fields) : Promoted(d, n)
          /\ Distinct(r.targets) /\ Len(r.targets) = Len(r.fields)
          /\ r.scopeTarget \notin ToSet(r.targets)
          /\ r.onDelete \in {"RESTRICT", "NO ACTION"}

UniquesOk(d) ==
    /\ \A i, j \in DOMAIN d.uniques : i # j => d.uniques[i].name # d.uniques[j].name
    /\ \A u \in ToSet(d.uniques) :
          /\ u.name \notin FieldIndexes(d) \cup {r.index : r \in ToSet(d.references)}
          /\ Distinct(u.fields)
          /\ \A n \in ToSet(u.fields) \cup u.predicate : Promoted(d, n)

NamesOk(d) ==
    {r.name : r \in ToSet(d.references)} \cap {u.name : u \in ToSet(d.uniques)} = {}

Accepts(d) == /\ Header(d) /\ FieldsOk(d) /\ IdentityOk(d)
              /\ ReferencesOk(d) /\ UniquesOk(d) /\ NamesOk(d)

Init == def \in Candidates /\ accepted = "unknown"

Define ==
    /\ accepted = "unknown"
    /\ accepted' = IF Accepts(def) THEN "yes" ELSE "no"
    /\ UNCHANGED def

Next == Define

Spec == Init /\ [][Next]_vars

-----------------------------------------------------------------------------

\* The columns that createProjectionSchemaOptions declares.
SchemaColumns(d) == {d.scope, d.revision, "payload"}
                      \cup {f.column : f \in {g \in Fields(d) : g.storage = "column"}}

\* The names of the indexes that the definition declares, each at its place.
IndexNames(d) ==
    [x \in ({"fields"} \X {i \in DOMAIN d.fields : d.fields[i].index # ""})
             \cup ({"references"} \X DOMAIN d.references) \cup ({"uniques"} \X DOMAIN d.uniques) |->
       CASE x[1] = "fields"     -> d.fields[x[2]].index
         [] x[1] = "references" -> d.references[x[2]].index
         [] x[1] = "uniques"    -> d.uniques[x[2]].name]

JsonFields(d)   == {f \in Fields(d) : f.storage = "json"}
ColumnFields(d) == Fields(d) \ JsonFields(d)

\* Patching one JSON field never reaches another, whatever the payload holds.
PathsApart(d) ==
    \A f, g \in JsonFields(d), doc \in Docs :
        f # g => At(SetPath(doc, f.path, "new"), g.path) = At(doc, g.path)

\* A column is written by one field, none but the identity writes one that the
\* server owns, and every create leaves each non-null field with a value.
ColumnsOwned(d) ==
    /\ Cardinality({f.column : f \in ColumnFields(d)}) = Cardinality(ColumnFields(d))
    /\ Cardinality({f.name : f \in Fields(d)}) = Len(d.fields)
    /\ \A f \in ColumnFields(d) : f.column \in ReservedColumns(d) => f.name = d.identity
    /\ \A f \in Fields(d) : f.nullable \/ f.required

\* The columns that references and unique constraints name.
Constrained(d) ==
    (UNION {ToSet(r.fields) : r \in ToSet(d.references)})
      \cup (UNION {ToSet(u.fields) \cup u.predicate : u \in ToSet(d.uniques)})
ColumnOf(d, n) == (CHOOSE f \in Fields(d) : f.name = n).column

\* A statement names existing columns of clients and never compares raw JSON.
StatementsSound(d) ==
    /\ \A f \in Fields(d) : f.sort \/ f.filter # {} \/ f.index # "" => f.codec # "json"
    /\ \A n \in Constrained(d) : ColumnOf(d, n) \in SchemaColumns(d) \ {d.scope, d.identity, "payload"}

\* A definition that is accepted is safe to run, and its index names do not
\* collide.
AcceptedIsSafe ==
    accepted = "yes" =>
        PathsApart(def) /\ ColumnsOwned(def) /\ StatementsSound(def) /\ IsInjective(IndexNames(def))
=============================================================================
