---------------------------- MODULE RecordsProofs ----------------------------
(***************************************************************************)
(* What the parts of Records keep, for any number of callers, records and  *)
(* fields, and for every definition.                                       *)
(***************************************************************************)
EXTENDS Records, OmniProofs, FiniteSetTheorems, SequenceTheorems, WellFoundedInduction, TLAPS

-----------------------------------------------------------------------------
(* Definitions of projections.                                             *)

\* What is set at one path is not seen at a path that does not overlap it.
LEMMA PathsDiffer ==
  ASSUME NEW S0, NEW doc, NEW p \in Seq(S0), NEW q \in Seq(S0), NEW v, ~D!Overlap(p, q)
  PROVE  D!At(D!SetPath(doc, p, v), q) = D!At(doc, q)
  <1>1. ~D!IsPrefix(p, q) /\ ~D!IsPrefix(q, p) /\ q # p
    <2>1. D!IsPrefix(p, p)
      BY DEF D!IsPrefix
    <2> QED BY <2>1 DEF D!Overlap
  <1>2. ASSUME NEW i \in 1 .. Len(p) - 1 PROVE SubSeq(p, 1, i) # q
    <2> SUFFICES ASSUME q = SubSeq(p, 1, i) PROVE D!IsPrefix(q, p)
      BY <1>1
    <2>1. Len(q) = i
      OBVIOUS
    <2>2. SubSeq(q, 1, i) = q
      BY <2>1
    <2> QED BY <2>1, <2>2 DEF D!IsPrefix
  <1>3. q \notin D!Ancestors(p)
    BY <1>2 DEF D!Ancestors
  <1> QED BY <1>1, <1>3 DEF D!At, D!SetPath

\* Two entries of a definition that is accepted have their own names, columns,
\* paths and indexes.
LEMMA FieldsApart ==
  ASSUME NEW d \in Candidates, D!Accepts(d)
  PROVE  /\ \A i \in DOMAIN d.fields : D!FieldOk(d, d.fields[i]) /\ d.fields[i] \in D!FieldType
         /\ \A i, j \in DOMAIN d.fields : i # j => ~D!Clash(d.fields[i], d.fields[j])
         /\ \A f \in D!Fields(d) : D!FieldOk(d, f) /\ f \in D!FieldType
         /\ \A f, g \in D!Fields(d) : f # g => ~D!Clash(f, g)
  <1>1. /\ \A i \in DOMAIN d.fields : D!FieldOk(d, d.fields[i])
        /\ \A i, j \in DOMAIN d.fields : i # j => ~D!Clash(d.fields[i], d.fields[j])
    BY DEF D!Accepts, D!FieldsOk
  <1>2. \A i \in DOMAIN d.fields : d.fields[i] \in D!FieldType
    <2>1. d.fields \in Seq(D!FieldType)
      BY DefinitionAssumption
    <2> QED BY <2>1
  <1>3. \A f \in D!Fields(d) : \E i \in DOMAIN d.fields : f = d.fields[i]
    BY DEF D!Fields, D!ToSet
  <1> QED BY <1>1, <1>2, <1>3

LEMMA SafePaths ==
  ASSUME NEW d \in Candidates, D!Accepts(d), NEW f \in D!Fields(d), NEW g \in D!Fields(d), NEW doc,
         f.storage = "json", g.storage = "json", f # g
  PROVE  D!At(D!SetPath(doc, f.path, "new"), g.path) = D!At(doc, g.path)
  <1>1. ~D!Overlap(f.path, g.path)
    BY FieldsApart, Zenon DEF D!Clash
  <1>2. f.path \in Seq(STRING) /\ g.path \in Seq(STRING)
    BY FieldsApart DEF D!FieldType
  <1> QED BY <1>1, <1>2, PathsDiffer

LEMMA FieldsFinite ==
  ASSUME NEW d \in Candidates, D!Accepts(d)
  PROVE  /\ IsFiniteSet(D!Fields(d))
         /\ Cardinality({f.name : f \in D!Fields(d)}) = Len(d.fields)
  <1> DEFINE n == Len(d.fields)
             names == {f.name : f \in D!Fields(d)}
             pick == [i \in 1 .. n |-> d.fields[i]]
             name == [i \in 1 .. n |-> d.fields[i].name]
  <1>1. n \in Nat /\ DOMAIN d.fields = 1 .. n
    BY DefinitionAssumption
  <1>2. IsFiniteSet(1 .. n) /\ Cardinality(1 .. n) = n
    BY <1>1, FS_Interval
  <1>3. pick \in Surjection(1 .. n, D!Fields(d))
    BY <1>1 DEF Surjection, D!Fields, D!ToSet
  <1>4. IsFiniteSet(D!Fields(d))
    BY <1>2, <1>3, FS_Surjection
  <1>5. name \in Bijection(1 .. n, names)
    <2>1. \A x \in names : \E i \in 1 .. n : x = d.fields[i].name
      BY <1>1 DEF D!Fields, D!ToSet
    <2>2. \A i \in 1 .. n : d.fields[i].name \in names
      BY <1>1 DEF D!Fields, D!ToSet
    <2>3. \A i, j \in 1 .. n : d.fields[i].name = d.fields[j].name => i = j
      BY <1>1, FieldsApart, Zenon DEF D!Clash
    <2>4. name \in [1 .. n -> names]
      BY <2>2
    <2>5. name \in Injection(1 .. n, names)
      BY <2>3, <2>4 DEF Injection, IsInjective
    <2>6. name \in Surjection(1 .. n, names)
      BY <2>1, <2>4, Zenon DEF Surjection
    <2> QED BY <2>5, <2>6 DEF Bijection
  <1> HIDE DEF names, name
  <1>6. Cardinality(names) = n
    <2>1. ExistsBijection(1 .. n, names)
      BY <1>5 DEF ExistsBijection
    <2> QED BY <1>2, <2>1, FS_Bijection
  <1> QED BY <1>4, <1>6 DEF names

\* Each column is written by one field.
LEMMA ColumnsApart ==
  ASSUME NEW d \in Candidates, D!Accepts(d)
  PROVE  Cardinality({f.column : f \in D!ColumnFields(d)}) = Cardinality(D!ColumnFields(d))
  <1> DEFINE cs == D!ColumnFields(d)
             cols == {f.column : f \in cs}
             column == [f \in cs |-> f.column]
  <1>1. IsFiniteSet(cs)
    BY FieldsFinite, FS_Subset, Zenon DEF D!ColumnFields
  <1>2. \A f, g \in cs : f.column = g.column => f = g
    BY FieldsApart, Zenon DEF D!Clash, D!FieldType, D!ColumnFields, D!JsonFields
  <1>3. column \in [cs -> cols]
    OBVIOUS
  <1>4. column \in Injection(cs, cols)
    BY <1>2, <1>3 DEF Injection, IsInjective
  <1>5. column \in Surjection(cs, cols)
    BY <1>3 DEF Surjection
  <1>6. ExistsBijection(cs, cols)
    BY <1>4, <1>5 DEF Bijection, ExistsBijection
  <1>7. Cardinality(cols) = Cardinality(cs)
    BY <1>1, <1>6, FS_Bijection
  <1> QED BY <1>7

\* A promoted name has one field, whose column is the client's.
LEMMA PromotedColumns ==
  ASSUME NEW d \in Candidates, D!Accepts(d), NEW n, D!Promoted(d, n)
  PROVE  D!ColumnOf(d, n) \in D!SchemaColumns(d) \ {d.scope, d.identity, "payload"}
  <1>1. PICK f \in D!Fields(d) : f.name = n /\ f.storage = "column" /\ n # d.identity
    BY DEF D!Promoted
  <1>2. (CHOOSE g \in D!Fields(d) : g.name = n) = f
    BY <1>1, FieldsApart, Zenon DEF D!Clash
  <1>3. f.column \in D!SchemaColumns(d)
    BY <1>1 DEF D!SchemaColumns
  <1>4. f.column \notin D!ReservedColumns(d)
    BY <1>1, FieldsApart, Zenon DEF D!FieldOk
  <1> QED BY <1>2, <1>3, <1>4, Zenon DEF D!ReservedColumns, D!ColumnOf

LEMMA NamesPromoted ==
  ASSUME NEW d \in Candidates, D!Accepts(d),
         NEW n \in D!Constrained(d)
  PROVE  D!Promoted(d, n)
  <1> DEFINE inRefs == UNION {D!ToSet(r.fields) : r \in D!ToSet(d.references)}
             inUniques == UNION {D!ToSet(u.fields) \cup u.predicate : u \in D!ToSet(d.uniques)}
  <1>1. \A x \in inRefs : D!Promoted(d, x)
    BY Zenon DEF D!Accepts, D!ReferencesOk
  <1>2. \A x \in inUniques : D!Promoted(d, x)
    BY DEF D!Accepts, D!UniquesOk
  <1>3. n \in inRefs \cup inUniques
    BY DEF D!Constrained
  <1> HIDE DEF inRefs, inUniques
  <1> QED BY <1>1, <1>2, <1>3

\* No two indexes have the same name.
LEMMA IndexesApart ==
  ASSUME NEW d \in Candidates, D!Accepts(d)
  PROVE  D!IsInjective(D!IndexNames(d))
  <1> DEFINE named == {i \in DOMAIN d.fields : d.fields[i].index # ""}
             made  == ({"fields"} \X named) \cup ({"references"} \X DOMAIN d.references)
                        \cup ({"uniques"} \X DOMAIN d.uniques)
             names == D!IndexNames(d)
  <1>1. /\ DOMAIN names = made
        /\ \A i \in named : names[<<"fields", i>>] = d.fields[i].index
        /\ \A i \in DOMAIN d.references : names[<<"references", i>>] = d.references[i].index
        /\ \A i \in DOMAIN d.uniques : names[<<"uniques", i>>] = d.uniques[i].name
    BY Zenon DEF D!IndexNames
  <1>2. \A i \in named : d.fields[i].index \in D!FieldIndexes(d)
    BY Zenon DEF D!FieldIndexes, D!Fields, D!ToSet
  <1>3. \A i, j \in named : i # j => d.fields[i].index # d.fields[j].index
    BY FieldsApart, Zenon DEF D!Clash
  <1>4. /\ \A i \in DOMAIN d.references : d.references[i].index \notin D!FieldIndexes(d)
        /\ \A i, j \in DOMAIN d.references : i # j => d.references[i].index # d.references[j].index
    BY Zenon DEF D!Accepts, D!ReferencesOk, D!ToSet
  <1>5. /\ \A i \in DOMAIN d.uniques : d.uniques[i].name \notin D!FieldIndexes(d)
        /\ \A i, j \in DOMAIN d.uniques : i # j => d.uniques[i].name # d.uniques[j].name
        /\ \A i \in DOMAIN d.uniques, j \in DOMAIN d.references : d.uniques[i].name # d.references[j].index
    BY DEF D!Accepts, D!UniquesOk, D!ToSet
  <1>6. \A x \in made :
          \/ \E i \in named : x = <<"fields", i>>
          \/ \E i \in DOMAIN d.references : x = <<"references", i>>
          \/ \E i \in DOMAIN d.uniques : x = <<"uniques", i>>
    <2>1. \A k, T0, x : x \in {k} \X T0 => x[2] \in T0 /\ x = <<k, x[2]>>
      OBVIOUS
    <2> HIDE DEF names, named
    <2> QED BY <2>1
  <1> SUFFICES ASSUME NEW x \in made, NEW y \in made, names[x] = names[y] PROVE x = y
    BY <1>1, Zenon DEF D!IsInjective
  <1> HIDE DEF names, made, named
  <1>7. ASSUME NEW i \in named, x = <<"fields", i>> PROVE x = y
    <2>1. names[y] \in D!FieldIndexes(d)
      BY <1>1, <1>2, <1>7
    <2>2. PICK j \in named : y = <<"fields", j>>
      BY <2>1, <1>1, <1>4, <1>5, <1>6
    <2> QED BY <2>2, <1>1, <1>3, <1>7
  <1>8. ASSUME NEW i \in DOMAIN d.references, x = <<"references", i>> PROVE x = y
    <2>1. names[y] = d.references[i].index
      BY <1>1, <1>8
    <2>2. PICK j \in DOMAIN d.references : y = <<"references", j>>
      BY <2>1, <1>1, <1>2, <1>4, <1>5, <1>6
    <2> QED BY <2>1, <2>2, <1>1, <1>4, <1>8
  <1>9. ASSUME NEW i \in DOMAIN d.uniques, x = <<"uniques", i>> PROVE x = y
    <2>1. names[y] = d.uniques[i].name
      BY <1>1, <1>9
    <2>2. PICK j \in DOMAIN d.uniques : y = <<"uniques", j>>
      BY <2>1, <1>1, <1>2, <1>5, <1>6
    <2> QED BY <2>1, <2>2, <1>1, <1>5, <1>9
  <1> QED BY <1>6, <1>7, <1>8, <1>9

DefinitionInv == s1 \in Candidates /\ (s2 = "yes" => D!Accepts(s1))

LEMMA DefinitionStarts == D!Init => DefinitionInv
  BY DEF D!Init, DefinitionInv

LEMMA DefinitionStep == DefinitionInv /\ D!Next => DefinitionInv'
  <1> SUFFICES ASSUME DefinitionInv, D!Next PROVE DefinitionInv'
    OBVIOUS
  <1>1. s1' = s1 /\ (s2' = "yes" => D!Accepts(s1))
    BY DEF D!Next, D!Define
  <1> QED BY <1>1 DEF DefinitionInv

LEMMA AcceptedAreSafe == DefinitionInv => D!AcceptedIsSafe
  <1> SUFFICES ASSUME s1 \in Candidates, D!Accepts(s1), s2 = "yes" PROVE D!AcceptedIsSafe
    BY DEF DefinitionInv, D!AcceptedIsSafe
  <1>1. D!PathsApart(s1)
    BY SafePaths DEF D!PathsApart, D!JsonFields
  <1>2. \A f \in D!ColumnFields(s1) : f.column \in D!ReservedColumns(s1) => f.name = s1.identity
    BY FieldsApart, Zenon DEF D!FieldOk, D!FieldType, D!ColumnFields, D!JsonFields
  <1>3. \A f \in D!Fields(s1) :
          /\ f.sort \/ f.filter # {} \/ f.index # "" => f.codec # "json"
          /\ f.nullable \/ f.required
    BY FieldsApart, Zenon DEF D!FieldOk, D!FieldType, D!QueryOk
  <1>4. D!ColumnsOwned(s1)
    BY <1>2, <1>3, ColumnsApart, FieldsFinite, Zenon DEF D!ColumnsOwned, D!Cardinality, Cardinality
  <1>5. D!StatementsSound(s1)
    <2>1. \A n \in D!Constrained(s1) :
            D!ColumnOf(s1, n) \in D!SchemaColumns(s1) \ {s1.scope, s1.identity, "payload"}
      BY NamesPromoted, PromotedColumns
    <2>2. \A f \in D!Fields(s1) : f.sort \/ f.filter # {} \/ f.index # "" => f.codec # "json"
      BY <1>3, Zenon
    <2> QED BY <2>1, <2>2, Zenon DEF D!StatementsSound
  <1> QED BY <1>1, <1>4, <1>5, IndexesApart DEF D!AcceptedIsSafe

-----------------------------------------------------------------------------
(* The projection store.                                                   *)

StoreInv == s1 \in StoreSetups /\ P!RowsCounted /\ P!OneWinner

\* The revisions that updates of this life of g were acknowledged from.
Swapped(g) == {w[2] : w \in {u \in s5 : u[1] = g}}

LEMMA StoreStarts == P!Init => StoreInv
  BY DEF P!Init, StoreInv, P!RowsCounted, P!OneWinner, P!Present

\* A statement that writes no row.
LEMMA StoreKeepsRows ==
  ASSUME StoreInv, UNCHANGED <<s1, s2, s5>>, NEW c \in Callers, NEW call, s3' = [s3 EXCEPT ![c] = call],
         call.pc = "save" => /\ call.guid \in Guids /\ "rev" \in DOMAIN call.row /\ call.row.rev = 1
                             /\ call.found # NoRow => s1.keyed
  PROVE  StoreInv'
  <1>1. P!RowsCounted'
    BY DEF StoreInv, P!RowsCounted, P!Present
  <1>2. P!OneWinner'
    BY DEF StoreInv, P!OneWinner, P!Present
  <1> QED BY <1>1, <1>2 DEF StoreInv

\* A create checks its request, and looks for the row when that is the key.
LEMMA Creates ==
  ASSUME StoreInv, NEW c \in Callers, NEW g \in Guids, NEW in, NEW seed, P!Create(c, g, in, seed)
  PROVE  StoreInv'
  <1> DEFINE call == [pc |-> "save", guid |-> g, row |-> P!NewRow(in, seed),
                      given |-> DOMAIN in \cap Columns, found |-> IF s1.keyed THEN s2[g] ELSE NoRow]
             idle == [pc |-> "idle", ans |-> "invalid"]
  <1>1. UNCHANGED <<s1, s2, s5>>
    BY DEF P!Create
  <1>2. s3' = [s3 EXCEPT ![c] = call] \/ s3' = [s3 EXCEPT ![c] = idle]
    BY DEF P!Create, P!Busy, P!Idle
  <1>3. call.guid \in Guids /\ "rev" \in DOMAIN call.row /\ call.row.rev = 1 /\ (call.found # NoRow => s1.keyed)
    BY Zenon DEF P!NewRow
  <1>4. idle.pc # "save"
    OBVIOUS
  <1> HIDE DEF call, idle
  <1> QED BY <1>1, <1>2, <1>3, <1>4, StoreKeepsRows

\* A new life of an identity starts without swaps.
LEMMA Inserts ==
  ASSUME StoreInv, NEW c \in Callers, P!Insert(c)
  PROVE  StoreInv'
  <1>1. PICK g \in Guids : g = s3[c].guid
    BY DEF P!Insert, StoreInv, P!RowsCounted
  <1> DEFINE row == s3[c].row
             idle(answer) == [pc |-> "idle", ans |-> answer]
  <1>2. CASE g \in P!Present
    <2>1. UNCHANGED <<s1, s2, s5>> /\ s3' = [s3 EXCEPT ![c] = idle("conflict")]
      BY <1>2, <1>1 DEF P!Insert, P!Idle
    <2> QED BY <2>1, StoreKeepsRows, Zenon
  <1>3. CASE g \notin P!Present
    <2>1. /\ s2' = [s2 EXCEPT ![g] = row] /\ s5' = {w \in s5 : w[1] # g} /\ s1' = s1
          /\ s3' = [s3 EXCEPT ![c] = idle("ok")]
      BY <1>3, <1>1 DEF P!Insert, P!Idle
    <2>2. row.rev = 1
      BY DEF P!Insert, StoreInv, P!RowsCounted
    <2>3. P!RowsCounted'
      BY <2>1, <2>2 DEF StoreInv, P!RowsCounted, P!Present
    <2>4. ASSUME NEW h \in Guids, h # g PROVE Swapped(h)' = Swapped(h) /\ s2'[h] = s2[h]
      BY <2>4, <2>1 DEF Swapped, StoreInv, P!RowsCounted
    <2>5. Swapped(g)' = {} /\ s2'[g].rev = 1
      <3>1. {u \in s5' : u[1] = g} = {}
        BY <2>1
      <3>2. s2'[g] = row
        BY <2>1, <2>2 DEF StoreInv, P!RowsCounted
      <3> QED BY <3>1, <3>2, <2>1, <2>2 DEF Swapped
    <2>6. 1 .. 1 - 1 = {}
      OBVIOUS
    <2>7. P!OneWinner'
      BY <2>1, <2>4, <2>5, <2>6 DEF StoreInv, P!OneWinner, P!Present, Swapped
    <2> QED BY <2>1, <2>3, <2>7 DEF StoreInv
  <1> QED BY <1>2, <1>3

\* What is written over a row, at a revision within the bound.
LEMMA OverwriteWrites ==
  ASSUME NEW c \in Callers, P!Overwrite(c)
  PROVE  LET g == s3[c].guid
         IN  s2' = s2 \/ \E r \in 1 .. StoreRevMax : s2' = [s2 EXCEPT ![g] = P!Merged(s3[c], s2[g], r)]
  <1> DEFINE g    == s3[c].guid
             revs == IF s3[c].found.rev # 1 THEN {1} ELSE {s2[g].rev, s2[g].rev + 1} \cap 1 .. StoreRevMax
  <1>1. s2' = s2 \/ \E r \in revs : s2' = [s2 EXCEPT ![g] = P!Merged(s3[c], s2[g], r)]
    BY Zenon DEF P!Overwrite
  <1>2. revs \subseteq 1 .. StoreRevMax
    BY StoreAssumption DEF P!DefinitionIsValid
  <1> HIDE DEF revs
  <1> QED BY <1>1, <1>2, Zenon

\* Only where the identity is the key is a row written over.
LEMMA Overwrites ==
  ASSUME StoreInv, NEW c \in Callers, P!Overwrite(c)
  PROVE  StoreInv'
  <1> DEFINE g == s3[c].guid
             row(r) == P!Merged(s3[c], s2[g], r)
  <1>1. s1' = s1 /\ s1.keyed /\ s3' = [s3 EXCEPT ![c] = [pc |-> "idle", ans |-> "ok"]]
    BY DEF P!Overwrite, P!Idle, StoreInv, P!RowsCounted
  <1>2. P!OneWinner'
    BY <1>1 DEF P!OneWinner
  <1>3. g \in Guids
    BY DEF P!Overwrite, StoreInv, P!RowsCounted
  <1>4. s2' = s2 \/ \E r \in 1 .. StoreRevMax : s2' = [s2 EXCEPT ![g] = row(r)]
    BY OverwriteWrites
  <1>5. P!RowsCounted'
    <2>1. CASE s2' = s2
      BY <1>1, <2>1 DEF StoreInv, P!RowsCounted, P!Present
    <2>2. ASSUME NEW r \in 1 .. StoreRevMax, s2' = [s2 EXCEPT ![g] = row(r)]
          PROVE  P!RowsCounted'
      <3>1. row(r).rev \in Nat \ {0}
        BY DEF P!Merged
      <3> HIDE DEF row, g
      <3> QED BY <1>1, <1>3, <2>2, <3>1 DEF StoreInv, P!RowsCounted, P!Present
    <2> QED BY <1>4, <2>1, <2>2
  <1> QED BY <1>1, <1>2, <1>5 DEF StoreInv

\* An update that is acknowledged takes the row from the revision it expects to
\* the next one.
LEMMA Updates ==
  ASSUME StoreInv, NEW c \in Callers, NEW g \in Guids, NEW patch, NEW expected, P!Update(c, g, patch, expected)
  PROVE  StoreInv'
  <1> DEFINE won == P!Updatable(patch, expected) /\ s2[g] # NoRow /\ s2[g].rev = expected
  <1>1. CASE ~won
    <2>1. UNCHANGED <<s1, s2, s5>>
      BY <1>1 DEF P!Update
    <2>2. \/ s3' = [s3 EXCEPT ![c] = [pc |-> "idle", ans |-> "invalid"]]
          \/ s3' = [s3 EXCEPT ![c] = [pc |-> "missed", guid |-> g]]
      BY <1>1 DEF P!Update, P!Busy, P!Idle
    <2> QED BY <2>1, <2>2, StoreKeepsRows, Zenon
  <1>2. CASE won
    <2> DEFINE row  == P!Patched(s2[g], patch)
               call == [pc |-> "reread", guid |-> g, patch |-> [f \in DOMAIN patch |-> P!Norm(f, patch[f])]]
    <2>1. /\ s2' = [s2 EXCEPT ![g] = row] /\ s5' = s5 \cup {<<g, expected>>} /\ s1' = s1
          /\ s3' = [s3 EXCEPT ![c] = call]
      BY <1>2 DEF P!Update, P!Busy
    <2>2. g \in P!Present /\ s2[g].rev = expected /\ expected \in Nat \ {0}
      BY <1>2 DEF StoreInv, P!RowsCounted, P!Present
    <2>3. row.rev = expected + 1
      BY <2>2 DEF P!Patched
    <2>4. call.pc # "save"
      OBVIOUS
    <2> HIDE DEF row, call
    <2>5. P!RowsCounted'
      BY <2>1, <2>2, <2>3, <2>4 DEF StoreInv, P!RowsCounted, P!Present
    <2>6. ASSUME NEW h \in Guids, h # g PROVE Swapped(h)' = Swapped(h) /\ s2'[h] = s2[h]
      BY <2>6, <2>1 DEF Swapped, StoreInv, P!RowsCounted
    <2>7. Swapped(g)' = Swapped(g) \cup {expected} /\ s2'[g].rev = expected + 1
      <3>1. {u \in s5' : u[1] = g} = {u \in s5 : u[1] = g} \cup {<<g, expected>>}
        BY <2>1
      <3>2. Swapped(g)' = Swapped(g) \cup {expected}
        <4>1. Swapped(g)' = {w[2] : w \in {u \in s5 : u[1] = g} \cup {<<g, expected>>}}
          BY <3>1 DEF Swapped
        <4>2. <<g, expected>>[2] = expected
          OBVIOUS
        <4> QED BY <4>1, <4>2, Zenon DEF Swapped
      <3>3. s2'[g] = row
        BY <2>1 DEF StoreInv, P!RowsCounted
      <3> QED BY <3>2, <3>3, <2>3
    <2>8. (1 .. expected - 1) \cup {expected} = 1 .. (expected + 1) - 1
      BY <2>2
    <2>9. P!OneWinner'
      <3> SUFFICES ASSUME ~s1.keyed, NEW h \in P!Present' PROVE Swapped(h)' = 1 .. s2'[h].rev - 1
        BY <2>1 DEF P!OneWinner, Swapped
      <3>1. CASE h = g
        <4>1. Swapped(g) = 1 .. expected - 1
          BY <2>2 DEF StoreInv, P!OneWinner, Swapped
        <4> QED BY <3>1, <4>1, <2>7, <2>8
      <3>2. CASE h # g
        <4>1. h \in P!Present /\ Swapped(h)' = Swapped(h) /\ s2'[h].rev = s2[h].rev
          BY <3>2, <2>6 DEF P!Present
        <4> QED BY <4>1 DEF StoreInv, P!OneWinner, Swapped
      <3> QED BY <3>1, <3>2
    <2> QED BY <2>1, <2>5, <2>9 DEF StoreInv
  <1> QED BY <1>1, <1>2

\* A row that is deleted has no revision.
LEMMA Deletes ==
  ASSUME StoreInv, NEW c \in Callers, NEW g \in Guids, P!Delete(c, g)
  PROVE  StoreInv'
  <1>1. s2' = [s2 EXCEPT ![g] = NoRow] /\ UNCHANGED <<s1, s5>>
    BY Zenon DEF P!Delete
  <1>2. \E answer : s3' = [s3 EXCEPT ![c] = [pc |-> "idle", ans |-> answer]]
    BY Zenon DEF P!Delete, P!Idle
  <1>3. P!RowsCounted'
    BY <1>1, <1>2 DEF StoreInv, P!RowsCounted, P!Present
  <1>4. P!OneWinner'
    BY <1>1 DEF StoreInv, P!OneWinner, P!Present, P!RowsCounted
  <1> QED BY <1>1, <1>3, <1>4 DEF StoreInv

\* Gets, lists and the statements that read again write nothing.
LEMMA StoreReads ==
  ASSUME StoreInv, NEW c \in Callers,
         \/ \E g \in Guids : P!Get(c, g)
         \/ \E q \in Lists : P!List(c, q)
         \/ P!Reread(c) \/ P!Missed(c) \/ P!Count(c)
  PROVE  StoreInv'
  <1>1. UNCHANGED <<s1, s2, s5>>
    BY Zenon DEF P!Get, P!List, P!Reread, P!Missed, P!Count
  <1>2. \/ \E answer : s3' = [s3 EXCEPT ![c] = [pc |-> "idle", ans |-> answer]]
        \/ \E page : s3' = [s3 EXCEPT ![c] = [pc |-> "count", page |-> page]]
    BY Zenon DEF P!Get, P!List, P!Reread, P!Missed, P!Count, P!Idle, P!Busy
  <1> QED BY <1>1, <1>2, StoreKeepsRows, Zenon

LEMMA StoreStep == StoreInv /\ P!Next => StoreInv'
  <1> SUFFICES ASSUME StoreInv, P!Next PROVE StoreInv'
    OBVIOUS
  <1>1. PICK c \in Callers : P!Request(c) \/ (\E q \in Lists : P!List(c, q)) \/ P!Continue(c)
    BY DEF P!Next
  <1>2. s1.guids \subseteq Guids
    BY StoreAssumption DEF StoreInv
  <1>3. CASE P!Request(c)
    BY <1>2, <1>3, Creates, Updates, Deletes, StoreReads DEF P!Request
  <1>4. CASE \E q \in Lists : P!List(c, q)
    BY <1>4, StoreReads
  <1>5. CASE P!Continue(c)
    BY <1>5, Inserts, Overwrites, StoreReads DEF P!Continue
  <1> QED BY <1>1, <1>3, <1>4, <1>5

-----------------------------------------------------------------------------
(* Payloads: fields are set one after the other.                           *)

\* A set of finite sets that is not empty has a least one.
LEMMA LeastSet ==
  ASSUME NEW D0, IsFiniteSet(D0), NEW bad \in SUBSET SUBSET D0, bad # {}
  PROVE  \E s \in bad : \A t \in bad : t \subseteq s => t = s
  <1>1. IsWellFoundedOn(StrictSubsetOrdering(D0), SUBSET D0)
    BY FS_StrictSubsetOrderingWellFounded, FS_FiniteSubsetsOfFinite, Zenon
  <1>2. PICK s \in bad : \A t \in bad : <<t, s>> \notin StrictSubsetOrdering(D0)
    BY <1>1, WFMin
  <1> QED BY <1>2, Zenon DEF StrictSubsetOrdering

\* Setting a field, where a payload leaf may be in the way (SQLite) or not.
Put(how, doc, f, v) == IF how = "sqlite" THEN P!SqliteSet(doc, Path[f], v) ELSE P!SetPath(doc, Path[f], v)

\* The fields of a set are set one after the other.
Sets(iter, D0, how, doc, value) ==
    iter = [s \in SUBSET D0 |->
              IF s = {} THEN doc
              ELSE Put(how, iter[s \ {CHOOSE x \in s : TRUE}], CHOOSE x \in s : TRUE, value[CHOOSE x \in s : TRUE])]

LEMMA SetsOne ==
  ASSUME NEW D0, NEW how, NEW doc, NEW value, NEW iter, Sets(iter, D0, how, doc, value)
  PROVE  /\ iter[{}] = doc
         /\ \A s \in SUBSET D0 : s # {} =>
              \E x \in s : /\ x = (CHOOSE y \in s : TRUE) /\ s \ {x} \in SUBSET D0
                           /\ iter[s] = Put(how, iter[s \ {x}], x, value[x])
  <1>1. ASSUME NEW s \in SUBSET D0, s # {}
        PROVE  \E x \in s : /\ x = (CHOOSE y \in s : TRUE) /\ s \ {x} \in SUBSET D0
                            /\ iter[s] = Put(how, iter[s \ {x}], x, value[x])
    <2> DEFINE x == CHOOSE y \in s : TRUE
    <2>1. x \in s
      BY <1>1
    <2>2. iter[s] = Put(how, iter[s \ {x}], x, value[x])
      BY <1>1 DEF Sets
    <2> QED BY <2>1, <2>2, Zenon
  <1>2. iter[{}] = doc
    BY DEF Sets
  <1> QED BY <1>1, <1>2

LEMMA SetsUnique ==
  ASSUME NEW D0, IsFiniteSet(D0), NEW how, NEW doc, NEW value,
         NEW A \in SUBSET D0, NEW B \in SUBSET D0, NEW a, NEW b,
         Sets(a, A, how, doc, value), Sets(b, B, how, doc, value),
         NEW s \in SUBSET (A \cap B)
  PROVE  a[s] = b[s]
  <1> DEFINE bad == {t \in SUBSET (A \cap B) : a[t] # b[t]}
  <1> SUFFICES ASSUME bad # {} PROVE FALSE
    OBVIOUS
  <1>0. bad \in SUBSET SUBSET D0
    OBVIOUS
  <1>1. PICK t \in bad : \A u \in bad : u \subseteq t => u = t
    <2> HIDE DEF bad
    <2> QED BY <1>0, LeastSet
  <1>2. t # {}
    <2>1. a[{}] = doc /\ b[{}] = doc
      BY SetsOne
    <2> QED BY <1>1, <2>1, Zenon
  <1>3. PICK x \in t : /\ x = (CHOOSE y \in t : TRUE)
                       /\ a[t] = Put(how, a[t \ {x}], x, value[x])
    BY <1>2, SetsOne
  <1>4. b[t] = Put(how, b[t \ {x}], x, value[x])
    <2>1. t \in SUBSET B
      OBVIOUS
    <2>2. PICK y \in t : y = (CHOOSE z \in t : TRUE) /\ b[t] = Put(how, b[t \ {y}], y, value[y])
      BY <2>1, <1>2, SetsOne
    <2> QED BY <2>2, <1>3
  <1>5. a[t \ {x}] = b[t \ {x}]
    BY <1>1, <1>3
  <1> QED BY <1>1, <1>3, <1>4, <1>5

LEMMA SetsExist ==
  ASSUME NEW D0, IsFiniteSet(D0), NEW how, NEW doc, NEW value
  PROVE  \E iter : Sets(iter, D0, how, doc, value)
  <1> DEFINE bad == {s \in SUBSET D0 : ~ \E iter : Sets(iter, s, how, doc, value)}
  <1> SUFFICES ASSUME bad # {} PROVE FALSE
    OBVIOUS
  <1>0. bad \in SUBSET SUBSET D0
    OBVIOUS
  <1>1. PICK s \in bad : \A u \in bad : u \subseteq s => u = s
    <2> HIDE DEF bad
    <2> QED BY <1>0, LeastSet
  <1> DEFINE of(t) == CHOOSE iter : Sets(iter, t, how, doc, value)
             at(t) == of(t)[t]
             first(t) == CHOOSE x \in t : TRUE
             all == [t \in SUBSET s |->
                       IF t = {} THEN doc ELSE Put(how, at(t \ {first(t)}), first(t), value[first(t)])]
  <1>2. ASSUME NEW t \in SUBSET s, t # s PROVE Sets(of(t), t, how, doc, value)
    <2>1. \E iter : Sets(iter, t, how, doc, value)
      BY <1>1, <1>2
    <2> QED BY <2>1
  <1>3. ASSUME NEW t \in SUBSET s, t # s PROVE all[t] = at(t)
    <2>1. Sets(of(t), t, how, doc, value)
      BY <1>2, <1>3
    <2>2. CASE t = {}
      BY <2>1, <2>2, SetsOne
    <2>3. CASE t # {}
      <3> DEFINE x == first(t)
                 u == t \ {x}
      <3>1. x \in t /\ u \in SUBSET s /\ u # s
        BY <2>3
      <3>2. at(t) = Put(how, of(t)[u], x, value[x])
        <4> HIDE DEF of
        <4>1. PICK y \in t : /\ y = (CHOOSE z \in t : TRUE)
                             /\ of(t)[t] = Put(how, of(t)[t \ {y}], y, value[y])
          BY <2>1, <2>3, SetsOne
        <4> QED BY <4>1
      <3>3. Sets(of(u), u, how, doc, value)
        BY <3>1, <1>2, Zenon
      <3>4. of(t)[u] = of(u)[u]
        <4>1. t \in SUBSET D0 /\ u \in SUBSET D0 /\ u \in SUBSET (t \cap u)
          BY <3>1
        <4>2. PICK o \in {of(t)}, p \in {of(u)} : TRUE
          OBVIOUS
        <4> HIDE DEF of, u
        <4>3. Sets(o, t, how, doc, value) /\ Sets(p, u, how, doc, value)
          BY <4>2, <2>1, <3>3
        <4>4. o[u] = p[u]
          BY <4>1, <4>3, SetsUnique
        <4> QED BY <4>2, <4>4
      <3>5. all[t] = Put(how, at(u), x, value[x])
        BY <2>3
      <3> QED BY <3>2, <3>4, <3>5
    <2> QED BY <2>2, <2>3
  <1>4. all = [t \in SUBSET s |->
                 IF t = {} THEN doc ELSE Put(how, all[t \ {first(t)}], first(t), value[first(t)])]
    <2>1. \A t \in SUBSET s : t # {} => all[t \ {first(t)}] = at(t \ {first(t)})
      <3> SUFFICES ASSUME NEW t \in SUBSET s, t # {} PROVE all[t \ {first(t)}] = at(t \ {first(t)})
        OBVIOUS
      <3>1. first(t) \in t
        OBVIOUS
      <3>2. t \ {first(t)} \in SUBSET s /\ t \ {first(t)} # s
        BY <3>1
      <3> HIDE DEF at, all, first
      <3> QED BY <3>2, <1>3
    <2> HIDE DEF at, first
    <2> QED BY <2>1, Zenon
  <1>5. Sets(all, s, how, doc, value)
    BY <1>4, Zenon DEF Sets
  <1> QED BY <1>1, <1>5

\* Fields at paths that do not overlap another path leave it as it is.
LEMMA PutApart ==
  ASSUME NEW f \in Jsons, NEW q \in Seq(STRING), ~P!Overlap(Path[f], q), NEW doc, NEW how, NEW v,
         Path[f] \in Seq(STRING)
  PROVE  P!At(Put(how, doc, f, v), q) = P!At(doc, q)
  <1>1. ~D!Overlap(Path[f], q)
    BY DEF P!Overlap, D!Overlap, P!IsPrefix, D!IsPrefix
  <1>2. D!At(D!SetPath(doc, Path[f], v), q) = D!At(doc, q)
    BY <1>1, PathsDiffer
  <1>3. P!At(P!SetPath(doc, Path[f], v), q) = P!At(doc, q)
    BY <1>2, Zenon DEF P!At, D!At, P!SetPath, D!SetPath, P!Ancestors, D!Ancestors, P!IsPrefix, D!IsPrefix
  <1> QED BY <1>3 DEF Put, P!SqliteSet

\* A field that is set is read back, unless a leaf of the payload is in the way.
LEMMA PutWrites ==
  ASSUME NEW f \in Jsons, NEW doc, NEW how, NEW v
  PROVE  P!At(Put(how, doc, f, v), Path[f]) =
           IF how = "sqlite" /\ P!Shadowed(doc, Path[f]) THEN P!At(doc, Path[f]) ELSE v
  <1>1. P!At(P!SetPath(doc, Path[f], v), Path[f]) = v
    BY DEF P!At, P!SetPath
  <1> QED BY <1>1 DEF Put, P!SqliteSet

LEMMA PutPaths ==
  ASSUME NEW f \in Jsons, NEW doc, NEW how, NEW v, Path[f] \in Seq(STRING), DOMAIN doc \subseteq Seq(STRING)
  PROVE  DOMAIN Put(how, doc, f, v) \subseteq Seq(STRING)
  <1>1. P!Ancestors(Path[f]) \subseteq Seq(STRING)
    <2> SUFFICES ASSUME NEW i \in 1 .. Len(Path[f]) - 1 PROVE SubSeq(Path[f], 1, i) \in Seq(STRING)
      BY DEF P!Ancestors
    <2> QED OBVIOUS
  <1>2. DOMAIN P!SetPath(doc, Path[f], v) \subseteq Seq(STRING)
    BY <1>1 DEF P!SetPath
  <1> QED BY <1>2 DEF Put, P!SqliteSet

\* No leaf comes in the way of a field, and none goes, by setting another one.
LEMMA PutShadows ==
  ASSUME NEW f \in Jsons, NEW g \in Jsons, ~P!Overlap(Path[f], Path[g]), NEW doc, NEW v,
         Path[f] \in Seq(STRING), Path[g] \in Seq(STRING)
  PROVE  P!Shadowed(Put("sqlite", doc, f, v), Path[g]) <=> P!Shadowed(doc, Path[g])
  <1> DEFINE p == Path[f]
             q == Path[g]
             new == P!SetPath(doc, p, v)
  <1>1. CASE P!Shadowed(doc, p)
    BY <1>1 DEF Put, P!SqliteSet
  <1>2. CASE ~P!Shadowed(doc, p)
    <2>1. Put("sqlite", doc, f, v) = new
      BY <1>2 DEF Put, P!SqliteSet
    <2>2. ASSUME NEW a \in P!Ancestors(q)
          PROVE  P!At(new, a) \notin {Obj, Missing} <=> P!At(doc, a) \notin {Obj, Missing}
      <3>1. ~P!IsPrefix(p, a) /\ a # p
        <4>1. PICK i \in 1 .. Len(q) - 1 : a = SubSeq(q, 1, i)
          BY DEF P!Ancestors
        <4>2. ASSUME P!IsPrefix(p, a) PROVE FALSE
          <5>1. Len(p) <= Len(a) /\ SubSeq(p, 1, Len(p)) = SubSeq(a, 1, Len(p))
            BY <4>2 DEF P!IsPrefix
          <5>2. Len(a) = i /\ i <= Len(q)
            BY <4>1
          <5>3. SubSeq(a, 1, Len(p)) = SubSeq(q, 1, Len(p))
            BY <4>1, <5>1, <5>2
          <5>4. P!IsPrefix(p, q)
            BY <5>1, <5>2, <5>3 DEF P!IsPrefix
          <5> QED BY <5>4 DEF P!Overlap
        <4>3. P!IsPrefix(p, p)
          BY DEF P!IsPrefix
        <4> QED BY <4>2, <4>3
      <3>2. CASE a \in P!Ancestors(p)
        <4>1. P!At(doc, a) \in {Obj, Missing}
          BY <1>2, <3>2 DEF P!Shadowed
        <4>2. P!At(new, a) = Obj
          BY <3>1, <3>2 DEF P!At, P!SetPath
        <4> QED BY <4>1, <4>2
      <3>3. CASE a \notin P!Ancestors(p)
        BY <3>1, <3>3 DEF P!At, P!SetPath
      <3> QED BY <3>2, <3>3
    <2> HIDE DEF new
    <2> QED BY <2>1, <2>2 DEF P!Shadowed
  <1> QED BY <1>1, <1>2

LEMMA JsonsFinite == IsFiniteSet(Jsons)
  BY StoreAssumption DEF P!DefinitionIsValid, P!IsFiniteSet, IsFiniteSet

\* The fields fs of a payload have their new values, but for those that a leaf
\* keeps out, and nothing else has changed.
Landed(new, doc, fs, how, value) ==
    /\ DOMAIN new \subseteq Seq(STRING)
    /\ \A q \in Seq(STRING) : (\A f \in fs : ~P!Overlap(Path[f], q)) => P!At(new, q) = P!At(doc, q)
    /\ \A f \in fs : P!At(new, Path[f]) =
         IF how = "sqlite" /\ P!Shadowed(doc, Path[f]) THEN P!At(doc, Path[f]) ELSE value[f]

\* Fields that are all set read back, and nothing else changes.
LEMMA SetsLand ==
  ASSUME NEW D0 \in SUBSET Jsons, NEW how, NEW doc, NEW value, DOMAIN doc \subseteq Seq(STRING),
         NEW iter, Sets(iter, D0, how, doc, value)
  PROVE  Landed(iter[D0], doc, D0, how, value)
  <1> DEFINE Paths(s) == DOMAIN iter[s] \subseteq Seq(STRING)
             Apart(s) == \A q \in Seq(STRING) :
                           (\A f \in s : ~P!Overlap(Path[f], q)) => P!At(iter[s], q) = P!At(doc, q)
             Shade(s) == how = "sqlite" => \A g \in Jsons \ s : P!Shadowed(iter[s], Path[g]) <=> P!Shadowed(doc, Path[g])
             Lands(s) == \A f \in s : P!At(iter[s], Path[f]) =
                           IF how = "sqlite" /\ P!Shadowed(doc, Path[f]) THEN P!At(doc, Path[f]) ELSE value[f]
             bad == {s \in SUBSET D0 : ~(Paths(s) /\ Apart(s) /\ Shade(s) /\ Lands(s))}
  <1>1. IsFiniteSet(D0)
    BY JsonsFinite, FS_Subset
  <1>2. \A f \in Jsons : Path[f] \in Seq(STRING)
    BY StoreAssumption DEF P!DefinitionIsValid
  <1>3. \A f, g \in Jsons : f # g => ~P!Overlap(Path[f], Path[g])
    BY StoreAssumption DEF P!DefinitionIsValid
  <1>4. bad \in SUBSET SUBSET D0
    OBVIOUS
  <1>5. ASSUME bad # {} PROVE FALSE
    <2>1. PICK s \in bad : \A u \in bad : u \subseteq s => u = s
      <3> HIDE DEF bad
      <3> QED BY <1>1, <1>4, <1>5, LeastSet
    <2>2. Paths({}) /\ Apart({}) /\ Shade({}) /\ Lands({})
      BY SetsOne
    <2>3. s \in SUBSET D0 /\ s # {}
      BY <2>2, Zenon
    <2>4. PICK x \in s : iter[s] = Put(how, iter[s \ {x}], x, value[x])
      BY <2>3, SetsOne
    <2> DEFINE u == s \ {x}
    <2>5. Paths(u) /\ Apart(u) /\ Shade(u) /\ Lands(u)
      BY <2>1, <2>3
    <2>6. x \in Jsons /\ u \subseteq Jsons /\ s = u \cup {x} /\ x \notin u
      BY <2>3
    <2> HIDE DEF u, bad
    <2>7. iter[s] = Put(how, iter[u], x, value[x])
      BY <2>4 DEF u
    <2>8. Paths(s)
      BY <2>5, <2>6, <2>7, <1>2, PutPaths
    <2>9. Apart(s)
      BY <2>5, <2>6, <2>7, <1>2, PutApart
    <2>10. Shade(s)
      <3> SUFFICES ASSUME how = "sqlite", NEW g \in Jsons \ s
                   PROVE  P!Shadowed(iter[s], Path[g]) <=> P!Shadowed(doc, Path[g])
        OBVIOUS
      <3>1. ~P!Overlap(Path[x], Path[g]) /\ g \in Jsons \ u
        BY <2>6, <1>3
      <3>2. how = "sqlite"
        OBVIOUS
      <3>3. P!Shadowed(Put("sqlite", iter[u], x, value[x]), Path[g]) <=> P!Shadowed(iter[u], Path[g])
        <4>1. PICK h \in Jsons : h = g
          BY <3>1
        <4>2. Path[x] \in Seq(STRING) /\ Path[h] \in Seq(STRING) /\ ~P!Overlap(Path[x], Path[h]) /\ x \in Jsons
          BY <4>1, <3>1, <2>6, <1>2
        <4>3. PICK d, v : d = iter[u] /\ v = value[x]
          OBVIOUS
        <4>4. P!Shadowed(Put("sqlite", d, x, v), Path[h]) <=> P!Shadowed(d, Path[h])
          BY <4>2, PutShadows
        <4> QED BY <4>1, <4>3, <4>4
      <3> QED BY <3>1, <3>2, <3>3, <2>5, <2>7
    <2>11. Lands(s)
      <3>1. P!At(iter[s], Path[x]) = IF how = "sqlite" /\ P!Shadowed(doc, Path[x]) THEN P!At(doc, Path[x]) ELSE value[x]
        <4>1. P!At(iter[u], Path[x]) = P!At(doc, Path[x])
          BY <2>5, <2>6, <1>2, <1>3
        <4>2. how = "sqlite" => P!Shadowed(iter[u], Path[x]) <=> P!Shadowed(doc, Path[x])
          BY <2>5, <2>6
        <4> QED BY <4>1, <4>2, <2>6, <2>7, PutWrites
      <3>2. ASSUME NEW f \in u PROVE P!At(iter[s], Path[f]) = P!At(iter[u], Path[f])
        BY <2>6, <2>7, <1>2, <1>3, PutApart
      <3> QED BY <3>1, <3>2, <2>5, <2>6, Zenon
    <2> QED BY <2>1, <2>8, <2>9, <2>10, <2>11 DEF bad
  <1>6. D0 \notin bad
    BY <1>5
  <1> QED BY <1>6 DEF Landed

\* The payload that an update leaves.
LEMMA PatchLands ==
  ASSUME NEW doc, DOMAIN doc \subseteq Seq(STRING), NEW patch
  PROVE  LET new  == P!JsonPatched(doc, patch)
             kept(f) == s1.dialect = "sqlite" /\ P!Shadowed(doc, Path[f])
         IN  /\ DOMAIN new \subseteq Seq(STRING)
             /\ \A q \in Seq(STRING) :
                  (\A f \in DOMAIN patch \cap Jsons : ~P!Overlap(Path[f], q)) => P!At(new, q) = P!At(doc, q)
             /\ \A f \in DOMAIN patch \cap Jsons :
                  P!At(new, Path[f]) = IF kept(f) THEN P!At(doc, Path[f]) ELSE P!Norm(f, patch[f])
  <1> DEFINE D0 == DOMAIN patch \cap Jsons
             how == s1.dialect
             value == [f \in D0 |-> P!Norm(f, patch[f])]
             iter == CHOOSE i : Sets(i, D0, how, doc, value)
  <1>1. IsFiniteSet(D0)
    BY JsonsFinite, FS_Subset
  <1>2. Sets(iter, D0, how, doc, value)
    <2> HIDE DEF D0, how, value
    <2> QED BY <1>1, SetsExist
  <1>3. P!JsonPatched(doc, patch) = iter[D0]
    <2>1. P!JsonPatched(doc, patch) = (CHOOSE i : i = [s \in SUBSET D0 |->
             IF s = {} THEN doc
             ELSE LET x == CHOOSE x \in s : TRUE
                  IN  IF s1.dialect = "sqlite" THEN P!SqliteSet(i[s \ {x}], Path[x], P!Norm(x, patch[x]))
                      ELSE P!PostgresSet(i[s \ {x}], Path[x], P!Norm(x, patch[x]))])[D0]
      BY DEF P!JsonPatched, P!FoldSet, P!MapThenFoldSet
    <2>2. \A i : Sets(i, D0, how, doc, value) <=> i = [s \in SUBSET D0 |->
             IF s = {} THEN doc
             ELSE LET x == CHOOSE x \in s : TRUE
                  IN  IF s1.dialect = "sqlite" THEN P!SqliteSet(i[s \ {x}], Path[x], P!Norm(x, patch[x]))
                      ELSE P!PostgresSet(i[s \ {x}], Path[x], P!Norm(x, patch[x]))]
      <3> SUFFICES ASSUME NEW i
                   PROVE  Sets(i, D0, how, doc, value) <=> i = [s \in SUBSET D0 |->
             IF s = {} THEN doc
             ELSE LET x == CHOOSE x \in s : TRUE
                  IN  IF s1.dialect = "sqlite" THEN P!SqliteSet(i[s \ {x}], Path[x], P!Norm(x, patch[x]))
                      ELSE P!PostgresSet(i[s \ {x}], Path[x], P!Norm(x, patch[x]))]
        OBVIOUS
      <3> DEFINE put(s) == IF s = {} THEN doc
                           ELSE Put(how, i[s \ {CHOOSE x \in s : TRUE}], CHOOSE x \in s : TRUE,
                                    value[CHOOSE x \in s : TRUE])
                 set(s) == IF s = {} THEN doc
                           ELSE LET x == CHOOSE x \in s : TRUE
                                IN  IF s1.dialect = "sqlite" THEN P!SqliteSet(i[s \ {x}], Path[x], P!Norm(x, patch[x]))
                      ELSE P!PostgresSet(i[s \ {x}], Path[x], P!Norm(x, patch[x]))
      <3>1. ASSUME NEW s \in SUBSET D0 PROVE put(s) = set(s)
        <4>1. CASE s = {}
          BY <4>1
        <4>2. CASE s # {}
          <5>1. PICK x : x = (CHOOSE y \in s : TRUE)
            OBVIOUS
          <5>2. x \in D0
            BY <4>2, <5>1
          <5>3. value[x] = P!Norm(x, patch[x])
            BY <5>2
          <5> HIDE DEF D0, value
          <5> QED BY <4>2, <5>1, <5>3 DEF Put, P!PostgresSet
        <4> QED BY <4>1, <4>2
      <3>2. Sets(i, D0, how, doc, value) <=> i = [s \in SUBSET D0 |-> put(s)]
        BY DEF Sets
      <3>3. [s \in SUBSET D0 |-> put(s)] = [s \in SUBSET D0 |-> set(s)]
        <4> HIDE DEF put, set, D0
        <4> QED BY <3>1
      <3>4. Sets(i, D0, how, doc, value) <=> i = [s \in SUBSET D0 |-> set(s)]
        <4> HIDE DEF put, set, D0, value
        <4> QED BY <3>2, <3>3
      <3> QED BY <3>4
    <2> HIDE DEF D0, how, value
    <2> QED BY <2>1, <2>2, ZenonT(40)
  <1>4. D0 \in SUBSET Jsons
    OBVIOUS
  <1>5. \A f \in D0 : value[f] = P!Norm(f, patch[f])
    OBVIOUS
  <1> DEFINE kept(f) == s1.dialect = "sqlite" /\ P!Shadowed(doc, Path[f])
  <1> HIDE DEF iter, value
  <1>6. /\ DOMAIN iter[D0] \subseteq Seq(STRING)
        /\ \A q \in Seq(STRING) :
              (\A f \in D0 : ~P!Overlap(Path[f], q)) => P!At(iter[D0], q) = P!At(doc, q)
        /\ \A f \in D0 : P!At(iter[D0], Path[f]) =
              IF kept(f) THEN P!At(doc, Path[f]) ELSE P!Norm(f, patch[f])
    <2>1. Landed(iter[D0], doc, D0, how, value)
      <3> HIDE DEF D0, how
      <3> QED BY <1>2, <1>4, SetsLand
    <2> QED BY <2>1, <1>5, Zenon DEF Landed
  <1> QED BY <1>3, <1>6, Zenon

\* The payload that a create makes of its seed.
LEMMA PayloadLands ==
  ASSUME NEW in, NEW seed, seed # NoSeed => DOMAIN seed \subseteq Seq(STRING)
  PROVE  LET new  == P!Payload(in, seed)
             base == IF seed = NoSeed THEN <<>> ELSE seed
         IN  /\ DOMAIN new \subseteq Seq(STRING)
             /\ \A q \in Seq(STRING) :
                  (\A f \in DOMAIN in \cap Jsons : ~P!Overlap(Path[f], q)) => P!At(new, q) = P!At(base, q)
             /\ \A f \in DOMAIN in \cap Jsons : P!At(new, Path[f]) = P!Norm(f, in[f])
  <1> DEFINE D0 == DOMAIN in \cap Jsons
             base == IF seed = NoSeed THEN <<>> ELSE seed
             value == [f \in D0 |-> P!Norm(f, in[f])]
             iter == CHOOSE i : Sets(i, D0, "none", base, value)
  <1>1. IsFiniteSet(D0)
    BY JsonsFinite, FS_Subset
  <1>2. Sets(iter, D0, "none", base, value)
    <2> HIDE DEF D0, base, value
    <2> QED BY <1>1, SetsExist
  <1>3. P!Payload(in, seed) = iter[D0]
    <2>1. P!Payload(in, seed) = (CHOOSE i : i = [s \in SUBSET D0 |->
             IF s = {} THEN base
             ELSE LET x == CHOOSE x \in s : TRUE
                  IN  P!SetPath(i[s \ {x}], Path[x], P!Norm(x, in[x]))])[D0]
      BY DEF P!Payload, P!FoldSet, P!MapThenFoldSet
    <2>2. \A i : Sets(i, D0, "none", base, value) <=> i = [s \in SUBSET D0 |->
             IF s = {} THEN base
             ELSE LET x == CHOOSE x \in s : TRUE
                  IN  P!SetPath(i[s \ {x}], Path[x], P!Norm(x, in[x]))]
      <3> SUFFICES ASSUME NEW i
                   PROVE  Sets(i, D0, "none", base, value) <=> i = [s \in SUBSET D0 |->
             IF s = {} THEN base
             ELSE LET x == CHOOSE x \in s : TRUE
                  IN  P!SetPath(i[s \ {x}], Path[x], P!Norm(x, in[x]))]
        OBVIOUS
      <3> DEFINE put(s) == IF s = {} THEN base
                           ELSE Put("none", i[s \ {CHOOSE x \in s : TRUE}], CHOOSE x \in s : TRUE,
                                    value[CHOOSE x \in s : TRUE])
                 set(s) == IF s = {} THEN base
                           ELSE LET x == CHOOSE x \in s : TRUE
                                IN  P!SetPath(i[s \ {x}], Path[x], P!Norm(x, in[x]))
      <3>1. ASSUME NEW s \in SUBSET D0 PROVE put(s) = set(s)
        <4>1. CASE s = {}
          BY <4>1
        <4>2. CASE s # {}
          <5>1. PICK x : x = (CHOOSE y \in s : TRUE)
            OBVIOUS
          <5>2. x \in D0
            BY <4>2, <5>1
          <5>3. value[x] = P!Norm(x, in[x])
            BY <5>2
          <5> HIDE DEF D0, value
          <5> QED BY <4>2, <5>1, <5>3 DEF Put
        <4> QED BY <4>1, <4>2
      <3>2. Sets(i, D0, "none", base, value) <=> i = [s \in SUBSET D0 |-> put(s)]
        BY DEF Sets
      <3>3. [s \in SUBSET D0 |-> put(s)] = [s \in SUBSET D0 |-> set(s)]
        <4> HIDE DEF put, set, D0
        <4> QED BY <3>1
      <3>4. Sets(i, D0, "none", base, value) <=> i = [s \in SUBSET D0 |-> set(s)]
        <4> HIDE DEF put, set, D0, value
        <4> QED BY <3>2, <3>3
      <3> QED BY <3>4
    <2> HIDE DEF D0, base, value
    <2> QED BY <2>1, <2>2, ZenonT(40)
  <1>4. D0 \in SUBSET Jsons /\ DOMAIN base \subseteq Seq(STRING)
    OBVIOUS
  <1>5. \A f \in D0 : value[f] = P!Norm(f, in[f])
    OBVIOUS
  <1> HIDE DEF iter, value, base
  <1>6. /\ DOMAIN iter[D0] \subseteq Seq(STRING)
        /\ \A q \in Seq(STRING) :
              (\A f \in D0 : ~P!Overlap(Path[f], q)) => P!At(iter[D0], q) = P!At(base, q)
        /\ \A f \in D0 : P!At(iter[D0], Path[f]) = P!Norm(f, in[f])
    <2>1. Landed(iter[D0], base, D0, "none", value)
      <3> HIDE DEF D0
      <3> QED BY <1>2, <1>4, SetsLand
    <2> QED BY <2>1, <1>5, Zenon DEF Landed
  <1> QED BY <1>3, <1>6, Zenon DEF base

-----------------------------------------------------------------------------
(* Rows read back.                                                         *)

\* What the codec of a field makes of an input it accepts.
LEMMA NormReads ==
  ASSUME NEW f \in P!Fields, NEW v \in Inputs[f] \cup {Null}, P!Norm(f, v) # Refused
  PROVE  P!Norm(f, v) \in P!Readable(f) /\ P!Norm(f, v) # Missing
  <1>1. CASE v = Null
    BY <1>1, StoreAssumption DEF P!Norm, P!Readable, P!CodecsAreSound
  <1>2. CASE v # Null
    <2>1. P!Norm(f, v) \in P!Valid(f)
      BY <1>2 DEF P!Norm, P!Valid
    <2> QED BY <2>1, StoreAssumption DEF P!Readable, P!CodecsAreSound
  <1> QED BY <1>1, <1>2

LEMMA PatchReads ==
  ASSUME NEW in \in P!Patches, P!Accepted(in)
  PROVE  /\ DOMAIN in \subseteq P!Fields
         /\ \A f \in DOMAIN in : P!Norm(f, in[f]) \in P!Readable(f) /\ P!Norm(f, in[f]) # Missing
  <1>1. PICK D0 \in SUBSET P!Fields : in \in [D0 -> (UNION {Inputs[f] : f \in D0}) \cup {Null}]
    BY DEF P!Patches
  <1>2. \A f \in DOMAIN in : in[f] \in Inputs[f] \cup {Null}
    BY DEF P!Patches
  <1>3. DOMAIN in \subseteq P!Fields
    BY <1>1
  <1> QED BY <1>2, <1>3, NormReads DEF P!Accepted

\* Declared paths do not overlap.
LEMMA OtherPaths ==
  ASSUME NEW f \in Jsons
  PROVE  Path[f] \in Seq(STRING) /\ \A g \in Jsons : g # f => ~P!Overlap(Path[g], Path[f])
  BY StoreAssumption DEF P!DefinitionIsValid

\* A create that is accepted makes a well-formed row.
LEMMA CreatesReadable ==
  ASSUME NEW in \in P!Patches, NEW seed \in Seeds \cup {NoSeed}, P!Creatable(in, seed)
  PROVE  P!IsRow(P!NewRow(in, seed)) /\ P!WellFormed(P!NewRow(in, seed))
  <1> DEFINE row  == P!NewRow(in, seed)
             base == IF seed = NoSeed THEN <<>> ELSE seed
  <1>1. /\ DOMAIN in \subseteq P!Fields
        /\ \A f \in DOMAIN in : P!Norm(f, in[f]) \in P!Readable(f) /\ P!Norm(f, in[f]) # Missing
    BY PatchReads DEF P!Creatable
  <1>2. seed # NoSeed => DOMAIN seed \subseteq Seq(STRING)
    BY StoreAssumption DEF P!CodecsAreSound
  <1>3. /\ row.rev = 1 /\ row.doc = P!Payload(in, seed)
        /\ row.col = [f \in Columns |-> IF f \in DOMAIN in THEN P!Norm(f, in[f]) ELSE Null]
        /\ row = [rev |-> row.rev, col |-> row.col, doc |-> row.doc]
    BY DEF P!NewRow
  <1> HIDE DEF row
  <1>4. P!IsRow(row)
    BY <1>2, <1>3, PayloadLands DEF P!IsRow
  <1>5. \A f \in P!Fields : f \notin DOMAIN in => Null \in P!Readable(f)
    BY DEF P!Creatable, P!Readable
  <1>6. ASSUME NEW f \in Columns PROVE P!Project(row, f) \in P!Readable(f)
    BY <1>1, <1>3, <1>5, <1>6 DEF P!Project, P!Fields
  <1>7. ASSUME NEW f \in Jsons PROVE P!Project(row, f) \in P!Readable(f)
    <2>1. f \notin Columns /\ f \in P!Fields
      BY StoreAssumption DEF P!DefinitionIsValid, P!Fields
    <2>2. CASE f \in DOMAIN in
      <3>1. P!At(row.doc, Path[f]) = P!Norm(f, in[f])
        BY <2>2, <1>2, <1>3, PayloadLands
      <3> QED BY <3>1, <2>1, <2>2, <1>1 DEF P!Project
    <2>3. CASE f \notin DOMAIN in
      <3>1. P!At(row.doc, Path[f]) = P!At(base, Path[f])
        <4>1. Path[f] \in Seq(STRING) /\ \A g \in DOMAIN in \cap Jsons : ~P!Overlap(Path[g], Path[f])
          BY <2>3, OtherPaths
        <4> QED BY <4>1, <1>2, <1>3, PayloadLands
      <3>2. P!At(base, Path[f]) # Missing => P!At(base, Path[f]) \in P!Readable(f)
        <4>1. CASE seed = NoSeed
          BY <4>1 DEF P!At
        <4>2. CASE seed # NoSeed
          BY <4>2, StoreAssumption DEF P!CodecsAreSound, P!Creatable
        <4> QED BY <4>1, <4>2
      <3>3. f \in Nullable
        BY <2>1, <2>3 DEF P!Creatable
      <3> QED BY <2>1, <2>3, <3>1, <3>2, <3>3, <1>5 DEF P!Project
    <2> QED BY <2>2, <2>3
  <1>8. P!WellFormed(row)
    BY <1>6, <1>7 DEF P!WellFormed, P!Fields
  <1> QED BY <1>4, <1>8 DEF row

\* What an accepted patch makes of a row: the fields it names have its values,
\* but for those that a leaf of the payload keeps out (SQLite).
LEMMA PatchedLands ==
  ASSUME NEW row, P!IsRow(row), NEW patch \in P!Patches, P!Accepted(patch)
  PROVE  LET new == P!Patched(row, patch)
             lost(f) == f \in Jsons /\ s1.dialect = "sqlite" /\ P!Shadowed(row.doc, Path[f])
         IN  /\ P!IsRow(new) /\ new.rev = row.rev + 1
             /\ \A f \in P!Fields : P!Project(new, f) =
                  IF f \in DOMAIN patch /\ ~lost(f) THEN P!Norm(f, patch[f]) ELSE P!Project(row, f)
             /\ \A q \in Seq(STRING) :
                  (\A f \in DOMAIN patch \cap Jsons : ~P!Overlap(Path[f], q)) => P!At(new.doc, q) = P!At(row.doc, q)
  <1> DEFINE new == P!Patched(row, patch)
             lost(f) == f \in Jsons /\ s1.dialect = "sqlite" /\ P!Shadowed(row.doc, Path[f])
  <1>1. /\ new.rev = row.rev + 1 /\ new.doc = P!JsonPatched(row.doc, patch)
        /\ new.col = [f \in Columns |-> IF f \in DOMAIN patch THEN P!Norm(f, patch[f]) ELSE row.col[f]]
        /\ new = [rev |-> new.rev, col |-> new.col, doc |-> new.doc]
    BY DEF P!Patched
  <1>2. DOMAIN row.doc \subseteq Seq(STRING)
    BY DEF P!IsRow
  <1> HIDE DEF new
  <1>3. /\ DOMAIN new.doc \subseteq Seq(STRING)
        /\ \A q \in Seq(STRING) :
             (\A f \in DOMAIN patch \cap Jsons : ~P!Overlap(Path[f], q)) => P!At(new.doc, q) = P!At(row.doc, q)
        /\ \A f \in DOMAIN patch \cap Jsons :
             P!At(new.doc, Path[f]) = IF lost(f) THEN P!At(row.doc, Path[f]) ELSE P!Norm(f, patch[f])
    BY <1>1, <1>2, PatchLands
  <1>4. \A f \in DOMAIN patch : P!Norm(f, patch[f]) # Missing
    BY PatchReads
  <1>5. ASSUME NEW f \in Columns
        PROVE  P!Project(new, f) = IF f \in DOMAIN patch /\ ~lost(f) THEN P!Norm(f, patch[f]) ELSE P!Project(row, f)
    <2>1. f \notin Jsons
      BY StoreAssumption DEF P!DefinitionIsValid
    <2> QED BY <2>1, <1>1 DEF P!Project
  <1>6. ASSUME NEW f \in Jsons
        PROVE  P!Project(new, f) = IF f \in DOMAIN patch /\ ~lost(f) THEN P!Norm(f, patch[f]) ELSE P!Project(row, f)
    <2>1. f \notin Columns
      BY StoreAssumption DEF P!DefinitionIsValid
    <2>2. CASE f \in DOMAIN patch
      <3> HIDE DEF lost
      <3> QED BY <2>1, <2>2, <1>3, <1>4 DEF P!Project
    <2>3. CASE f \notin DOMAIN patch
      <3>1. Path[f] \in Seq(STRING) /\ \A g \in DOMAIN patch \cap Jsons : ~P!Overlap(Path[g], Path[f])
        BY <2>3, OtherPaths
      <3>2. P!At(new.doc, Path[f]) = P!At(row.doc, Path[f])
        BY <3>1, <1>3
      <3> QED BY <2>1, <2>3, <3>2 DEF P!Project
    <2> QED BY <2>2, <2>3
  <1>7. P!IsRow(new)
    BY <1>1, <1>3 DEF P!IsRow
  <1>8. \A f \in P!Fields : P!Project(new, f) =
           IF f \in DOMAIN patch /\ ~lost(f) THEN P!Norm(f, patch[f]) ELSE P!Project(row, f)
    BY <1>5, <1>6 DEF P!Fields
  <1> QED BY <1>1, <1>3, <1>7, <1>8 DEF new

LEMMA PatchesReadable ==
  ASSUME NEW row, P!IsRow(row), P!WellFormed(row), NEW patch \in P!Patches, P!Accepted(patch)
  PROVE  P!IsRow(P!Patched(row, patch)) /\ P!WellFormed(P!Patched(row, patch))
  <1>1. \A f \in DOMAIN patch : P!Norm(f, patch[f]) \in P!Readable(f)
    BY PatchReads
  <1> QED BY <1>1, PatchedLands DEF P!WellFormed

ReadsInv == P!RowsMade /\ P!FieldsWellFormed

Sound(row) == P!IsRow(row) /\ P!WellFormed(row)

Writes(g, row) ==
    /\ s2' = [s2 EXCEPT ![g] = row]
    /\ row # NoRow => Sound(row) /\ row.rev \in 1 .. StoreRevMax

\* A statement that writes a well-formed row at most.
LEMMA WritesSound ==
  ASSUME StoreInv, ReadsInv, NEW c \in Callers, NEW call, s3' = [s3 EXCEPT ![c] = call],
         call.pc = "save" => Sound(call.row),
         s2' = s2 \/ \E g \in Guids : \E row : Writes(g, row)
  PROVE  ReadsInv'
  <1>1. \A d \in Callers : s3'[d] = IF d = c THEN call ELSE s3[d]
    BY DEF StoreInv, P!RowsCounted
  <1>2. ASSUME NEW g \in Guids, s2'[g] # NoRow
        PROVE  Sound(s2'[g]) /\ s2'[g].rev \in 1 .. StoreRevMax
    <2>1. ASSUME s2'[g] = s2[g] PROVE Sound(s2[g]) /\ s2[g].rev \in 1 .. StoreRevMax
      BY <1>2, <2>1 DEF ReadsInv, P!RowsMade, P!FieldsWellFormed, P!Present, Sound
    <2>2. CASE s2'[g] = s2[g]
      BY <2>1, <2>2
    <2>3. CASE s2'[g] # s2[g]
      <3>1. PICK h \in Guids : \E row : Writes(h, row)
        BY <2>3
      <3>2. PICK row : Writes(h, row)
        BY <3>1
      <3>3. s2'[g] = row
        BY <3>2, <2>3 DEF StoreInv, P!RowsCounted, Writes
      <3> QED BY <3>2, <3>3, <1>2 DEF Writes
    <2> QED BY <2>2, <2>3
  <1>3. ASSUME NEW d \in Callers, s3'[d].pc = "save" PROVE Sound(s3'[d].row)
    BY <1>1, <1>3 DEF ReadsInv, P!RowsMade, Sound
  <1> QED BY <1>2, <1>3, Zenon DEF ReadsInv, P!RowsMade, P!FieldsWellFormed, P!Present, Sound, P!IsRow, P!WellFormed, P!Project

LEMMA CreatesSound ==
  ASSUME StoreInv, ReadsInv, NEW c \in Callers, NEW g \in Guids, NEW in \in P!Patches,
         NEW seed \in Seeds \cup {NoSeed}, P!Create(c, g, in, seed)
  PROVE  ReadsInv'
  <1> DEFINE call == [pc |-> "save", guid |-> g, row |-> P!NewRow(in, seed),
                      given |-> DOMAIN in \cap Columns, found |-> IF s1.keyed THEN s2[g] ELSE NoRow]
             idle == [pc |-> "idle", ans |-> "invalid"]
  <1>1. s2' = s2
    BY DEF P!Create
  <1>2. \/ s3' = [s3 EXCEPT ![c] = call] /\ P!Creatable(in, seed)
        \/ s3' = [s3 EXCEPT ![c] = idle]
    BY DEF P!Create, P!Busy, P!Idle
  <1>3. P!Creatable(in, seed) => Sound(call.row)
    BY CreatesReadable DEF Sound
  <1>4. idle.pc # "save"
    OBVIOUS
  <1> HIDE DEF call, idle
  <1> QED BY <1>1, <1>2, <1>3, <1>4, WritesSound

\* A column comes from the row that was there or from the new one, and so does
\* the payload.
LEMMA MergedSound ==
  ASSUME NEW call, NEW was, Sound(call.row), Sound(was), NEW r
  PROVE  Sound(P!Merged(call, was, r)) /\ P!Merged(call, was, r).rev = r
  <1> DEFINE new == P!Merged(call, was, r)
             col == [f \in Columns |-> IF f \in call.given /\ call.row.col[f] # call.found.col[f]
                                         THEN call.row.col[f] ELSE was.col[f]]
             doc == IF call.row.doc # call.found.doc THEN call.row.doc ELSE was.doc
  <1>1. new = [rev |-> r, col |-> col, doc |-> doc]
    BY Zenon DEF P!Merged
  <1>2. \A f \in Columns : col[f] = call.row.col[f] \/ col[f] = was.col[f]
    OBVIOUS
  <1>3. doc = call.row.doc \/ doc = was.doc
    OBVIOUS
  <1> HIDE DEF new, col, doc
  <1>4. new.rev = r /\ new.col = col /\ new.doc = doc
    BY <1>1
  <1>5. P!IsRow(new)
    BY <1>1, <1>3, <1>4 DEF Sound, P!IsRow
  <1>6. \A f \in P!Fields : P!Project(new, f) = P!Project(call.row, f) \/ P!Project(new, f) = P!Project(was, f)
    BY <1>2, <1>3, <1>4 DEF P!Project
  <1>7. P!WellFormed(new)
    BY <1>6 DEF Sound, P!WellFormed
  <1> QED BY <1>4, <1>5, <1>7 DEF Sound, new

LEMMA SavesSound ==
  ASSUME StoreInv, ReadsInv, NEW c \in Callers, P!Insert(c) \/ P!Overwrite(c)
  PROVE  ReadsInv'
  <1> DEFINE g == s3[c].guid
             row == s3[c].row
  <1>1. s3[c].pc = "save" /\ g \in Guids /\ Sound(row) /\ row.rev = 1
    BY DEF P!Insert, P!Overwrite, StoreInv, P!RowsCounted, ReadsInv, P!RowsMade, Sound
  <1>2. 1 \in 1 .. StoreRevMax
    BY StoreAssumption DEF P!DefinitionIsValid
  <1>3. CASE P!Insert(c)
    <2>1. s2' = s2 \/ s2' = [s2 EXCEPT ![g] = row]
      BY <1>3 DEF P!Insert
    <2>2. s2' = s2 \/ Writes(g, row)
      BY <2>1, <1>1, <1>2 DEF Writes
    <2> HIDE DEF g, row
    <2>3. PICK answer : s3' = [s3 EXCEPT ![c] = [pc |-> "idle", ans |-> answer]]
      BY <1>3, Zenon DEF P!Insert, P!Idle
    <2>4. [pc |-> "idle", ans |-> answer].pc # "save"
      OBVIOUS
    <2> QED BY <1>1, <2>2, <2>3, <2>4, WritesSound, Zenon
  <1>4. CASE P!Overwrite(c)
    <2>1. s2' = s2 \/ \E r \in 1 .. StoreRevMax : s2' = [s2 EXCEPT ![g] = P!Merged(s3[c], s2[g], r)]
      BY <1>4, OverwriteWrites
    <2>2. s2' # s2 => Sound(s2[g])
      BY <1>1, <1>4 DEF P!Overwrite, P!Present, ReadsInv, P!RowsMade, P!FieldsWellFormed, Sound
    <2>3. s2' = s2 \/ \E new : Writes(g, new)
      <3> SUFFICES ASSUME s2' # s2 PROVE \E new : Writes(g, new)
        OBVIOUS
      <3>1. PICK r \in 1 .. StoreRevMax : s2' = [s2 EXCEPT ![g] = P!Merged(s3[c], s2[g], r)]
        BY <2>1
      <3>2. Sound(P!Merged(s3[c], s2[g], r)) /\ P!Merged(s3[c], s2[g], r).rev = r
        BY <1>1, <2>2, MergedSound
      <3> QED BY <3>1, <3>2, Zenon DEF Writes
    <2>4. s3' = [s3 EXCEPT ![c] = [pc |-> "idle", ans |-> "ok"]]
      BY <1>4, Zenon DEF P!Overwrite, P!Idle
    <2>5. [pc |-> "idle", ans |-> "ok"].pc # "save"
      OBVIOUS
    <2> HIDE DEF g, row
    <2> QED BY <1>1, <2>3, <2>4, <2>5, WritesSound, Zenon
  <1> QED BY <1>3, <1>4

LEMMA UpdatesSound ==
  ASSUME StoreInv, ReadsInv, NEW c \in Callers, NEW g \in Guids, NEW patch \in P!Patches,
         NEW expected, P!Update(c, g, patch, expected)
  PROVE  ReadsInv'
  <1> DEFINE row == P!Patched(s2[g], patch)
  <1>1. \/ s2' = s2
        \/ s2' = [s2 EXCEPT ![g] = row] /\ s2[g] # NoRow /\ s2[g].rev = expected /\ P!Updatable(patch, expected)
    BY DEF P!Update
  <1>2. \E call : s3' = [s3 EXCEPT ![c] = call] /\ call.pc # "save"
    <2> DEFINE invalid == [pc |-> "idle", ans |-> "invalid"]
               missed  == [pc |-> "missed", guid |-> g]
               reread  == [pc |-> "reread", guid |-> g, patch |-> [f \in DOMAIN patch |-> P!Norm(f, patch[f])]]
    <2>1. \E call \in {invalid, missed, reread} : s3' = [s3 EXCEPT ![c] = call]
      BY DEF P!Update, P!Idle, P!Busy
    <2>2. invalid.pc # "save" /\ missed.pc # "save" /\ reread.pc # "save"
      OBVIOUS
    <2> HIDE DEF invalid, missed, reread
    <2> QED BY <2>1, <2>2, Zenon
  <1>3. ASSUME s2[g] # NoRow, s2[g].rev = expected, P!Updatable(patch, expected)
        PROVE  Sound(row) /\ row.rev \in 1 .. StoreRevMax
    <2>1. P!IsRow(s2[g]) /\ P!WellFormed(s2[g])
      BY <1>3 DEF ReadsInv, P!RowsMade, P!FieldsWellFormed, P!Present
    <2>2. P!Accepted(patch) /\ expected \in 1 .. StoreRevMax - 1
      BY <1>3 DEF P!Updatable
    <2>3. Sound(row)
      BY <2>1, <2>2, PatchesReadable DEF Sound
    <2>4. row.rev = expected + 1
      BY <1>3 DEF P!Patched
    <2> QED BY <2>2, <2>3, <2>4, StoreAssumption DEF P!DefinitionIsValid
  <1> HIDE DEF row
  <1>4. s2' = s2 \/ Writes(g, row)
    BY <1>1, <1>3 DEF Writes
  <1> QED BY <1>2, <1>4, WritesSound, Zenon

LEMMA OthersSound ==
  ASSUME StoreInv, ReadsInv, NEW c \in Callers,
         \/ \E g \in Guids : P!Get(c, g) \/ P!Delete(c, g)
         \/ \E q \in Lists : P!List(c, q)
         \/ P!Reread(c) \/ P!Missed(c) \/ P!Count(c)
  PROVE  ReadsInv'
  <1>1. s2' = s2 \/ \E g \in Guids : s2' = [s2 EXCEPT ![g] = NoRow]
    BY Zenon DEF P!Get, P!Delete, P!List, P!Reread, P!Missed, P!Count
  <1>2. \/ \E answer : s3' = [s3 EXCEPT ![c] = [pc |-> "idle", ans |-> answer]]
        \/ \E page : s3' = [s3 EXCEPT ![c] = [pc |-> "count", page |-> page]]
    BY Zenon DEF P!Get, P!Delete, P!List, P!Reread, P!Missed, P!Count, P!Idle, P!Busy
  <1>3. \E call : s3' = [s3 EXCEPT ![c] = call] /\ call.pc # "save"
    <2>1. ASSUME NEW answer PROVE [pc |-> "idle", ans |-> answer].pc # "save"
      OBVIOUS
    <2>2. ASSUME NEW page PROVE [pc |-> "count", page |-> page].pc # "save"
      OBVIOUS
    <2> QED BY <1>2, <2>1, <2>2, Zenon
  <1>4. s2' = s2 \/ \E g \in Guids : Writes(g, NoRow)
    BY <1>1 DEF Writes
  <1> QED BY <1>3, <1>4, WritesSound, Zenon

LEMMA ReadsStep == StoreInv /\ ReadsInv /\ P!Next => ReadsInv'
  <1> SUFFICES ASSUME StoreInv, ReadsInv, P!Next PROVE ReadsInv'
    OBVIOUS
  <1>1. PICK c \in Callers : P!Request(c) \/ (\E q \in Lists : P!List(c, q)) \/ P!Continue(c)
    BY DEF P!Next
  <1>2. s1.guids \subseteq Guids
    BY StoreAssumption DEF StoreInv
  <1>3. CASE P!Request(c)
    BY <1>2, <1>3, CreatesSound, UpdatesSound, OthersSound DEF P!Request
  <1>4. CASE \E q \in Lists : P!List(c, q)
    BY <1>4, OthersSound
  <1>5. CASE P!Continue(c)
    BY <1>5, SavesSound, OthersSound DEF P!Continue
  <1> QED BY <1>1, <1>3, <1>4, <1>5

LEMMA ReadsStart == P!Init => ReadsInv
  BY DEF P!Init, ReadsInv, P!RowsMade, P!FieldsWellFormed, P!Present

-----------------------------------------------------------------------------
(* Lists and their pages.                                                  *)

\* A finite set that is ordered has a list in its order.
LEMMA SortedList ==
  ASSUME NEW T0, IsFiniteSet(T0), NEW L,
         \A g, h \in T0 : g # h => (<<g, h>> \in L <=> <<h, g>> \notin L),
         \A g \in T0 : <<g, g>> \notin L,
         \A g, h, k \in T0 : <<g, h>> \in L /\ <<h, k>> \in L => <<g, k>> \in L
  PROVE  \E s \in P!SetToSeqs(T0) : \A i, j \in DOMAIN s : i < j => <<s[j], s[i]>> \notin L
  <1> DEFINE n == Cardinality(T0)
             below(g) == {h \in T0 : <<h, g>> \in L}
             rank == [g \in T0 |-> Cardinality(below(g)) + 1]
  <1>1. n \in Nat
    BY FS_CardinalityType
  <1>2. ASSUME NEW g \in T0 PROVE IsFiniteSet(below(g)) /\ Cardinality(below(g)) \in Nat /\ rank[g] \in 1 .. n
    <2>1. IsFiniteSet(below(g)) /\ Cardinality(below(g)) \in Nat
      BY FS_Subset, FS_CardinalityType, Zenon
    <2>2. below(g) \in SUBSET T0 /\ below(g) # T0
      OBVIOUS
    <2>3. Cardinality(below(g)) <= n /\ Cardinality(below(g)) # n
      <3> HIDE DEF below
      <3> QED BY <2>2, FS_Subset
    <2>4. rank[g] = Cardinality(below(g)) + 1
      OBVIOUS
    <2> HIDE DEF below, rank, n
    <2> QED BY <1>1, <2>1, <2>3, <2>4
  <1>3. ASSUME NEW g \in T0, NEW h \in T0, <<g, h>> \in L PROVE rank[g] < rank[h]
    <2>1. below(g) \in SUBSET below(h) /\ g \in below(h) /\ g \notin below(g)
      BY <1>3
    <2>2. Cardinality(below(g)) <= Cardinality(below(h)) /\ Cardinality(below(g)) # Cardinality(below(h))
      <3>1. IsFiniteSet(below(h))
        BY <1>2
      <3> HIDE DEF below
      <3> QED BY <2>1, <3>1, FS_Subset
    <2>3. rank[g] = Cardinality(below(g)) + 1 /\ rank[h] = Cardinality(below(h)) + 1
      OBVIOUS
    <2>4. Cardinality(below(g)) \in Nat /\ Cardinality(below(h)) \in Nat
      BY <1>2, Zenon
    <2> HIDE DEF below, rank
    <2> QED BY <2>2, <2>3, <2>4
  <1>4. rank \in [T0 -> 1 .. n]
    <2>1. DOMAIN rank = T0 /\ rank = [g \in T0 |-> rank[g]]
      OBVIOUS
    <2> HIDE DEF rank, n
    <2> QED BY <1>2, <2>1, Zenon
  <1>5. \A g, h \in T0 : rank[g] = rank[h] => g = h
    <2> SUFFICES ASSUME NEW g \in T0, NEW h \in T0, g # h PROVE rank[g] # rank[h]
      OBVIOUS
    <2> HIDE DEF rank, n, below
    <2>1. rank[g] \in Nat /\ rank[h] \in Nat
      BY <1>4, <1>1
    <2>2. <<g, h>> \in L \/ <<h, g>> \in L
      OBVIOUS
    <2> QED BY <1>3, <2>1, <2>2
  <1> HIDE DEF rank, below
  <1>6. rank \in Injection(T0, 1 .. n)
    BY <1>4, <1>5 DEF Injection, IsInjective
  <1>7. IsFiniteSet(1 .. n) /\ Cardinality(1 .. n) = n
    BY <1>1, FS_Interval
  <1>8. rank \in Surjection(T0, 1 .. n)
    BY <1>6, <1>7, FS_Injection
  <1> DEFINE s == [i \in 1 .. n |-> CHOOSE g \in T0 : rank[g] = i]
  <1>9. \A i \in 1 .. n : s[i] \in T0 /\ rank[s[i]] = i
    <2> SUFFICES ASSUME NEW i \in 1 .. n PROVE s[i] \in T0 /\ rank[s[i]] = i
      OBVIOUS
    <2>1. \E g \in T0 : rank[g] = i
      BY <1>8 DEF Surjection
    <2> QED BY <2>1
  <1>10. s \in P!SetToSeqs(T0)
    <2>1. DOMAIN s = 1 .. n /\ s = [i \in 1 .. n |-> s[i]]
      OBVIOUS
    <2>2. P!Cardinality(T0) = n
      BY DEF P!Cardinality, Cardinality
    <2> HIDE DEF s
    <2>3. s \in [1 .. n -> T0] /\ \A i, j \in 1 .. n : i # j => s[i] # s[j]
      BY <1>9, <2>1
    <2> HIDE DEF n
    <2> QED BY <2>2, <2>3 DEF P!SetToSeqs
  <1>11. \A i, j \in DOMAIN s : i < j => <<s[j], s[i]>> \notin L
    <2>1. DOMAIN s = 1 .. n
      OBVIOUS
    <2> HIDE DEF s
    <2> SUFFICES ASSUME NEW i \in 1 .. n, NEW j \in 1 .. n, i < j, <<s[j], s[i]>> \in L PROVE FALSE
      BY <2>1
    <2> QED BY <1>3, <1>9, <1>1
  <1> HIDE DEF s
  <1> QED BY <1>10, <1>11

\* Rows that read back are ordered, whatever the sort.
LEMMA RanksAreNumbers ==
  ASSUME ReadsInv, NEW g \in P!Present, NEW f \in P!Fields
  PROVE  P!Rank(P!Project(s2[g], f)) \in Nat
  <1>1. P!Project(s2[g], f) \in P!Readable(f)
    BY DEF ReadsInv, P!FieldsWellFormed, P!WellFormed
  <1>2. P!Project(s2[g], f) # Null => P!Project(s2[g], f) \in Nat
    BY <1>1, StoreAssumption DEF P!Readable, P!CodecsAreSound
  <1> QED BY <1>2 DEF P!Rank

LEMMA SortsOrder ==
  ASSUME ReadsInv, NEW sort \in P!Sorts
  PROVE  /\ \A g, h \in P!Present : g # h => (P!Less(sort, g, h) <=> ~P!Less(sort, h, g))
         /\ \A g \in P!Present : ~P!Less(sort, g, g)
         /\ \A g, h, k \in P!Present : P!Less(sort, g, h) /\ P!Less(sort, h, k) => P!Less(sort, g, k)
  <1> DEFINE r(g) == P!Rank(P!Project(s2[g], sort[1]))
  <1>1. P!Present \subseteq Nat
    BY StoreAssumption, Zenon DEF P!Present
  <1>2. CASE sort = <<>>
    <2>1. \A g, h : P!Less(sort, g, h) <=> g < h
      BY <1>2 DEF P!Less
    <2> QED BY <1>1, <2>1
  <1>3. CASE sort # <<>>
    <2>1. sort[1] \in P!Fields
      BY <1>3 DEF P!Sorts
    <2>2. \A g \in P!Present : r(g) \in Nat
      BY <2>1, RanksAreNumbers
    <2>3. \A g, h : P!Less(sort, g, h) <=> IF r(g) # r(h) THEN IF sort[2] = "ASC" THEN r(g) < r(h) ELSE r(h) < r(g)
                                          ELSE g < h
      BY <1>3 DEF P!Less
    <2> HIDE DEF r
    <2> QED BY <1>1, <2>2, <2>3
  <1> QED BY <1>2, <1>3

LEMMA OneOfList ==
  ASSUME NEW T0, NEW s \in Seq(T0), NEW i \in 1 .. Len(s)
  PROVE  SubSeq(s, i, i) = <<s[i]>>
  <1>1. \A t \in Seq(T0) : Len(t) = 1 => t = <<t[1]>>
    OBVIOUS
  <1>2. SubSeq(s, i, i) \in Seq(T0) /\ Len(SubSeq(s, i, i)) = 1 /\ SubSeq(s, i, i)[1] = s[i]
    OBVIOUS
  <1> QED BY <1>1, <1>2, Zenon

\* The pages of a list of one row each are its rows.
LEMMA PagesAreRows ==
  ASSUME ReadsInv, NEW filter, NEW sort \in P!Sorts
  PROVE  LET page(i) == P!Listed([filter |-> filter, sort |-> sort, skip |-> i - 1, take |-> 1])
             found   == P!Matches([filter |-> filter])
         IN  {page(i) : i \in 1 .. P!Cardinality(found)} = {<<g>> : g \in found}
  <1> DEFINE found == P!Matches([filter |-> filter])
             n == P!Cardinality(found)
             good(s) == \A i, j \in DOMAIN s : i < j => ~P!Less(sort, s[j], s[i])
             all == CHOOSE s \in P!SetToSeqs(found) : good(s)
             page(i) == P!Listed([filter |-> filter, sort |-> sort, skip |-> i - 1, take |-> 1])
             L == {x \in found \X found : P!Less(sort, x[1], x[2])}
  <1>1. found \subseteq P!Present /\ IsFiniteSet(found)
    <2>1. found \subseteq P!Present
      BY DEF P!Matches
    <2>2. P!Present \subseteq Guids
      BY DEF P!Present
    <2> QED BY <2>1, <2>2, StoreAssumption, FS_Subset, Zenon
  <1>2. n = Cardinality(found) /\ n \in Nat
    <2>1. n = Cardinality(found)
      BY DEF P!Cardinality, Cardinality
    <2> QED BY <2>1, <1>1, FS_CardinalityType
  <1>3. all \in P!SetToSeqs(found)
    <2>1. \A g, h \in found : <<g, h>> \in L <=> P!Less(sort, g, h)
      OBVIOUS
    <2> HIDE DEF found, L
    <2>2. \E s \in P!SetToSeqs(found) : \A i, j \in DOMAIN s : i < j => <<s[j], s[i]>> \notin L
      BY <1>1, <2>1, SortsOrder, SortedList
    <2>3. \A s \in P!SetToSeqs(found) : \A i \in DOMAIN s : s[i] \in found
      BY DEF P!SetToSeqs
    <2>4. \E s \in P!SetToSeqs(found) : good(s)
      BY <2>1, <2>2, <2>3, Zenon
    <2> QED BY <2>4
  <1>4. all \in [1 .. n -> found] /\ \A i, j \in 1 .. n : i # j => all[i] # all[j]
    BY <1>3 DEF P!SetToSeqs
  <1>5. ASSUME NEW i \in 1 .. n PROVE page(i) = <<all[i]>>
    <2> DEFINE q == [filter |-> filter, sort |-> sort, skip |-> i - 1, take |-> 1]
    <2>1. q.sort = sort /\ q.skip = i - 1 /\ q.take = 1 /\ P!Matches(q) = found
      BY DEF P!Matches
    <2>2. P!Listed(q) = SubSeq(all, q.skip + 1, P!Min({Len(all), q.skip + q.take}))
      <3> HIDE DEF q
      <3> QED BY <2>1 DEF P!Listed
    <2> HIDE DEF all, found
    <2>3. Len(all) = n /\ all \in Seq(found)
      <3> HIDE DEF n
      <3> QED BY <1>2, <1>4
    <2>4. P!Min({n, i}) = i
      BY <1>2 DEF P!Min
    <2>5. q.skip + 1 = i /\ q.skip + q.take = i
      BY <1>2, <2>1
    <2>6. SubSeq(all, i, i) = <<all[i]>>
      <3>1. PICK k : k = n
        OBVIOUS
      <3>2. k \in Nat /\ i \in 1 .. k /\ all \in Seq(found) /\ Len(all) = k
        BY <1>2, <2>3, <3>1
      <3> HIDE DEF n
      <3> QED BY <3>2, OneOfList
    <2> HIDE DEF n
    <2> QED BY <2>2, <2>3, <2>4, <2>5, <2>6, Zenon
  <1>6. \A g \in found : \E i \in 1 .. n : all[i] = g
    <2> HIDE DEF all, found
    <2>1. all \in Injection(1 .. n, found)
      BY <1>4 DEF Injection, IsInjective
    <2>2. IsFiniteSet(1 .. n) /\ Cardinality(1 .. n) = n
      BY <1>2, FS_Interval
    <2>3. all \in Surjection(1 .. n, found)
      BY <1>1, <1>2, <2>1, <2>2, FS_Injection
    <2> QED BY <2>3 DEF Surjection
  <1> HIDE DEF all, found, n
  <1>7. {page(i) : i \in 1 .. n} = {<<g>> : g \in found}
    <2> HIDE DEF page
    <2> QED BY <1>4, <1>5, <1>6
  <1> QED BY <1>7, Zenon DEF found, n

\* Rows that read back can be listed page by page.
LEMMA ListsCover == ReadsInv => P!PagesCover
  <1> SUFFICES ASSUME ReadsInv, NEW filter \in P!Filters, NEW sort \in P!Sorts
               PROVE  LET page(i) == P!Listed([filter |-> filter, sort |-> sort, skip |-> i - 1, take |-> 1])
                          found   == P!Matches([filter |-> filter])
                          pages   == {page(i) : i \in 1 .. P!Cardinality(found)}
                      IN  /\ \A g, h \in found : g # h => (P!Less(sort, g, h) <=> ~P!Less(sort, h, g))
                          /\ pages = {<<g>> : g \in found}
    BY Zenon DEF P!PagesCover
  <1>1. P!Matches([filter |-> filter]) \subseteq P!Present
    BY DEF P!Matches
  <1> QED BY <1>1, SortsOrder, PagesAreRows, Zenon

\* Only an update that swaps is acknowledged by reading its row again.
LEMMA OnlySwapsReread ==
  ASSUME StoreInv, P!Next, NEW c \in Callers, s3[c].pc = "idle", s3'[c].pc = "reread"
  PROVE  \E g \in Guids, patch \in P!Patches :
           /\ P!Accepted(patch) /\ g \in P!Present
           /\ s2' = [s2 EXCEPT ![g] = P!Patched(@, patch)]
           /\ s3'[c] = [pc |-> "reread", guid |-> g, patch |-> [f \in DOMAIN patch |-> P!Norm(f, patch[f])]]
  <1>1. PICK d \in Callers : P!Request(d) \/ (\E q \in Lists : P!List(d, q)) \/ P!Continue(d)
    BY DEF P!Next
  <1>2. s1.guids \subseteq Guids
    BY StoreAssumption DEF StoreInv
  <1>3. \A call : s3' = [s3 EXCEPT ![d] = call] => d = c /\ call = s3'[c] /\ call.pc = "reread"
    BY DEF StoreInv, P!RowsCounted
  <1>4. \A answer : s3' # [s3 EXCEPT ![d] = [pc |-> "idle", ans |-> answer]]
    BY <1>3
  <1>5. ~P!Continue(d)
    BY <1>4, Zenon DEF P!Continue, P!Insert, P!Overwrite, P!Reread, P!Missed, P!Count, P!Idle
  <1>6. \A q \in Lists : ~P!List(d, q)
    <2>1. \A page : s3' # [s3 EXCEPT ![d] = [pc |-> "count", page |-> page]]
      BY <1>3
    <2> QED BY <2>1 DEF P!List, P!Busy
  <1>7. PICK g \in Guids :
          \/ \E in \in P!Patches, seed \in Seeds \cup {NoSeed} : P!Create(d, g, in, seed)
          \/ \E patch \in P!Patches, e \in 0 .. StoreRevMax : P!Update(d, g, patch, e)
          \/ P!Delete(d, g)
          \/ P!Get(d, g)
    BY <1>1, <1>2, <1>5, <1>6 DEF P!Request
  <1>8. ~P!Delete(d, g) /\ ~P!Get(d, g)
    BY <1>4, Zenon DEF P!Delete, P!Get, P!Idle
  <1>9. ASSUME NEW in, NEW seed PROVE ~P!Create(d, g, in, seed)
    <2>1. \A row, given, found :
            s3' # [s3 EXCEPT ![d] = [pc |-> "save", guid |-> g, row |-> row, given |-> given, found |-> found]]
      BY <1>3
    <2> QED BY <2>1, <1>4 DEF P!Create, P!Idle, P!Busy
  <1>10. PICK patch \in P!Patches, e \in 0 .. StoreRevMax : P!Update(d, g, patch, e)
    BY <1>7, <1>8, <1>9
  <1>11. s3' # [s3 EXCEPT ![d] = [pc |-> "missed", guid |-> g]]
    BY <1>3
  <1>12. /\ P!Updatable(patch, e) /\ s2[g] # NoRow /\ s2' = [s2 EXCEPT ![g] = P!Patched(@, patch)]
         /\ s3' = [s3 EXCEPT ![d] = [pc |-> "reread", guid |-> g,
                                     patch |-> [f \in DOMAIN patch |-> P!Norm(f, patch[f])]]]
    BY <1>10, <1>11, <1>4 DEF P!Update, P!Idle, P!Busy
  <1>13. s3'[c] = [pc |-> "reread", guid |-> g, patch |-> [f \in DOMAIN patch |-> P!Norm(f, patch[f])]]
    BY <1>3, <1>12
  <1> QED BY <1>12, <1>13, Zenon DEF P!Updatable, P!Present

\* An update that is acknowledged has written what it names, and no more.
LEMMA SwapsWrite == StoreInv /\ ReadsInv /\ P!Next => P!LandsAsNamed
  <1> SUFFICES ASSUME StoreInv, ReadsInv, P!Next, NEW c \in Callers,
                      s3[c].pc = "idle", s3'[c].pc = "reread"
               PROVE  LET g     == s3'[c].guid
                          patch == s3'[c].patch
                          old   == s2[g].doc
                          new   == s2'[g].doc
                          lost(f) == /\ f \in Jsons /\ s1.dialect = "sqlite"
                                     /\ P!Shadowed(old, Path[f])
                          moved(p) == \E f \in DOMAIN patch \cap Jsons : P!Overlap(p, Path[f])
                      IN  /\ \A f \in P!Fields : P!Project(s2'[g], f) =
                                IF f \in DOMAIN patch /\ ~lost(f) THEN patch[f]
                                ELSE P!Project(s2[g], f)
                          /\ \A p \in DOMAIN old \cup DOMAIN new :
                                ~moved(p) => P!At(new, p) = P!At(old, p)
    BY DEF P!LandsAsNamed
  <1>1. PICK g \in Guids, patch \in P!Patches :
           /\ P!Accepted(patch) /\ g \in P!Present
           /\ s2' = [s2 EXCEPT ![g] = P!Patched(@, patch)]
           /\ s3'[c] = [pc |-> "reread", guid |-> g, patch |-> [f \in DOMAIN patch |-> P!Norm(f, patch[f])]]
    BY OnlySwapsReread, Zenon
  <1>2. PICK row : row = s2[g]
    OBVIOUS
  <1>3. PICK new : new = P!Patched(row, patch)
    OBVIOUS
  <1>4. s2'[g] = new
    BY <1>1, <1>2, <1>3 DEF StoreInv, P!RowsCounted
  <1>5. P!IsRow(row)
    BY <1>1, <1>2 DEF ReadsInv, P!RowsMade
  <1> DEFINE lost(f) == f \in Jsons /\ s1.dialect = "sqlite" /\ P!Shadowed(row.doc, Path[f])
             named == [f \in DOMAIN patch |-> P!Norm(f, patch[f])]
  <1>6. /\ P!IsRow(new)
        /\ \A f \in P!Fields : P!Project(new, f) =
             IF f \in DOMAIN patch /\ ~lost(f) THEN P!Norm(f, patch[f]) ELSE P!Project(row, f)
        /\ \A q \in Seq(STRING) :
             (\A f \in DOMAIN patch \cap Jsons : ~P!Overlap(Path[f], q)) => P!At(new.doc, q) = P!At(row.doc, q)
    BY <1>1, <1>3, <1>5, PatchedLands
  <1>7. s3'[c].guid = g /\ s3'[c].patch = named
    BY <1>1
  <1>8. DOMAIN named = DOMAIN patch /\ \A f \in DOMAIN patch : named[f] = P!Norm(f, patch[f])
    OBVIOUS
  <1> HIDE DEF named
  <1>9. \A f \in P!Fields : P!Project(new, f) =
          IF f \in DOMAIN named /\ ~lost(f) THEN named[f] ELSE P!Project(row, f)
    <2> HIDE DEF lost
    <2> QED BY <1>6, <1>8
  <1>10. \A p \in DOMAIN row.doc \cup DOMAIN new.doc :
           (~ \E f \in DOMAIN named \cap Jsons : P!Overlap(p, Path[f])) => P!At(new.doc, p) = P!At(row.doc, p)
    <2>1. \A p : DOMAIN row.doc \subseteq Seq(STRING) /\ DOMAIN new.doc \subseteq Seq(STRING)
      BY <1>5, <1>6 DEF P!IsRow
    <2>2. \A p, q : P!Overlap(p, q) <=> P!Overlap(q, p)
      BY DEF P!Overlap
    <2> QED BY <1>6, <1>8, <2>1, <2>2
  <1> QED BY <1>2, <1>4, <1>7, <1>9, <1>10

-----------------------------------------------------------------------------
(* The generated surfaces.                                                 *)

SurfaceInv == S!TypeOK /\ S!ChecksHold /\ S!PoliciesHold

\* The kinds of a surface that is defined.
LEMMA KindsAllowed == S!Defined(s1.def) => S!Allowed \subseteq RelationKinds
  BY DEF S!Defined, S!Allowed

LEMMA SurfaceStarts == S!Init => SurfaceInv
  <1> SUFFICES ASSUME S!Init PROVE SurfaceInv
    OBVIOUS
  <1>1. S!TypeOK
    BY DEF S!Init, S!TypeOK, S!Carries, S!Idle
  <1>2. S!ChecksHold
    BY DEF S!Init, S!ChecksHold, S!OwnersHold, S!Checked, S!Idle
  <1>3. S!PoliciesHold
    BY DEF S!Init, S!PoliciesHold
  <1> QED BY <1>1, <1>2, <1>3 DEF SurfaceInv

\* A policy that finds no extension with a content has seen them all, because
\* each of them has its owner.
LEMMA ReaderSeesAll ==
  ASSUME S!OwnersHold, NEW v, v # NoRow, NEW others \in SUBSET Guids, ~S!ReaderFinds(v, others)
  PROVE  \A g \in others : s3[g] # v
  <1> SUFFICES ASSUME NEW g \in others, s3[g] = v PROVE FALSE
    OBVIOUS
  <1> DEFINE rows == {h \in others : s3[h] = v}
  <1>1. IsFiniteSet(rows)
    BY SurfaceAssumption, FS_Subset
  <1>2. {g} \in SUBSET rows /\ Cardinality({g}) = 1 /\ Cardinality(rows) \in Nat /\ Cardinality(rows) # 0
    BY <1>1, FS_Singleton, FS_CardinalityType, FS_EmptySet, Zenon
  <1>3. {g} \in S!TakesFrom(rows, 1)
    BY <1>2 DEF S!TakesFrom, S!Cardinality, Cardinality
  <1>4. S!IsOwner(g)
    BY DEF S!OwnersHold
  <1> QED BY <1>3, <1>4, Zenon DEF S!ReaderFinds

\* A call that goes on with what was checked, or ends, and touches no table.
LEMMA GoesOn ==
  ASSUME SurfaceInv, NEW c \in Callers, NEW call, s5' = [s5 EXCEPT ![c] = call],
         UNCHANGED <<s1, s2, s3, s4, s7>>, s6 \ {c} \subseteq s6',
         S!Carries(call), s1.lifecycle => S!Checked(call)
  PROVE  SurfaceInv'
  <1>1. S!Allowed' = S!Allowed /\ S!Defined(s1.def)' = S!Defined(s1.def)
    BY DEF S!Allowed, S!AllowedList, S!Defined
  <1>2. \A r : S!Carries(r) => S!Carries(r)'
    BY <1>1 DEF S!Carries
  <1>3. \A r : S!Checked(r) => S!Checked(r)'
    BY DEF S!Checked, S!EndpointsFit, S!IsOwner
  <1>4. \A d \in Callers : s5'[d] = IF d = c THEN call ELSE s5[d]
    BY DEF SurfaceInv, S!TypeOK
  <1>5. S!TypeOK'
    BY <1>1, <1>2, <1>4 DEF SurfaceInv, S!TypeOK
  <1>6. S!ChecksHold'
    <2>1. S!OwnersHold => S!OwnersHold'
      BY DEF S!OwnersHold, S!IsOwner
    <2> QED BY <1>3, <1>4, <2>1 DEF SurfaceInv, S!ChecksHold
  <1>7. S!PoliciesHold'
    BY DEF SurfaceInv, S!PoliciesHold, S!EndpointsFit, S!IsOwner
  <1> QED BY <1>5, <1>6, <1>7 DEF SurfaceInv

LEMMA IdleCarries == S!Carries(S!Idle) /\ S!Checked(S!Idle)
  BY DEF S!Carries, S!Checked, S!Idle

\* A write that commits: whoever else has read may no longer write.
LEMMA Commits ==
  ASSUME SurfaceInv, NEW c \in Callers, s5' = [s5 EXCEPT ![c] = S!Idle], s1' = s1,
         s1.lifecycle => s6' = {d \in Callers \ {c} : s5[d].pc # "idle"},
         s2' \in [Guids -> S!RecordRow \cup {NoRow}],
         s3' \in [Guids -> S!Contents \cup {NoRow}],
         s4' \in S!RelationRow \cup {NoRow},
         s1.lifecycle => S!OwnersHold', S!PoliciesHold'
  PROVE  SurfaceInv'
  <1>1. S!Allowed' = S!Allowed /\ S!Defined(s1.def)' = S!Defined(s1.def)
    BY DEF S!Allowed, S!AllowedList, S!Defined
  <1>2. \A r : S!Carries(r) => S!Carries(r)'
    BY <1>1 DEF S!Carries
  <1>3. \A d \in Callers : s5'[d] = IF d = c THEN S!Idle ELSE s5[d]
    BY DEF SurfaceInv, S!TypeOK
  <1>4. S!TypeOK'
    <2>1. s5' = [d \in Callers |-> s5'[d]]
      BY <1>3 DEF SurfaceInv, S!TypeOK
    <2>2. \A d \in Callers : S!Carries(s5[d])'
      BY <1>2, <1>3, IdleCarries DEF SurfaceInv, S!TypeOK
    <2> QED BY <1>1, <2>1, <2>2 DEF SurfaceInv, S!TypeOK
  <1>5. ASSUME s1.lifecycle, NEW d \in Callers \ s6' PROVE S!Checked(s5[d])'
    BY <1>3, <1>5 DEF S!Checked, S!Idle
  <1>6. S!ChecksHold'
    BY <1>5 DEF S!ChecksHold
  <1> QED BY <1>4, <1>6 DEF SurfaceInv

\* A write that does not commit ends the call.
LEMMA Fails ==
  ASSUME SurfaceInv, NEW c \in Callers, s5' = [s5 EXCEPT ![c] = S!Idle],
         UNCHANGED <<s1, s2, s3, s4, s6, s7>>
  PROVE  SurfaceInv'
  BY GoesOn, IdleCarries, Zenon

\* Owners and endpoints, when an owner stays an owner.
LEMMA OwnersStay ==
  ASSUME s1' = s1, \A g \in Guids : S!IsOwner(g) => S!IsOwner(g)'
  PROVE  S!EndpointsFit => S!EndpointsFit'
  BY SurfaceAssumption DEF S!EndpointsFit, S!IsOwner

LEMMA ChecksExtend ==
  ASSUME SurfaceInv, NEW c \in Callers, NEW g \in Guids, NEW v \in s1.values[g],
         S!CheckExtend(c, g, v)
  PROVE  SurfaceInv'
  <1> DEFINE call == [pc |-> "extend", guid |-> g, value |-> v, found |-> s2[g]]
  <1>1. /\ s5' = [s5 EXCEPT ![c] = call] /\ s6 \ {c} \subseteq s6'
        /\ UNCHANGED <<s1, s2, s3, s4, s7>> /\ S!PolicyAllows(v, Guids)
    BY DEF S!CheckExtend, S!Check, S!Goto
  <1>2. v \in S!Contents
    BY DEF SurfaceInv, S!TypeOK, S!Contents
  <1>3. S!Carries(call)
    BY <1>2 DEF SurfaceInv, S!TypeOK, S!Carries
  <1>4. ASSUME s1.lifecycle PROVE S!Checked(call)
    <2>1. v # NoRow
      BY SurfaceAssumption DEF SurfaceInv, S!TypeOK
    <2>2. \A h \in Guids : s3[h] # v
      BY <1>1, <1>4, <2>1, ReaderSeesAll DEF S!PolicyAllows, SurfaceInv, S!ChecksHold
    <2> QED BY <2>2 DEF S!Checked
  <1> HIDE DEF call
  <1> QED BY <1>1, <1>3, <1>4, GoesOn, Zenon

LEMMA ChecksPatch ==
  ASSUME SurfaceInv, NEW c \in Callers, NEW g \in Guids, NEW v \in s1.values[g],
         S!CheckPatch(c, g, v)
  PROVE  SurfaceInv'
  <1> DEFINE call == [pc |-> "patch", guid |-> g, value |-> v, rev |-> s2[g].rev]
  <1>1. /\ s5' = [s5 EXCEPT ![c] = call] /\ s6 \ {c} \subseteq s6'
        /\ UNCHANGED <<s1, s2, s3, s4, s7>> /\ S!PolicyAllows(v, Guids \ {g})
    BY DEF S!CheckPatch, S!Check, S!Goto
  <1>2. v \in S!Contents
    BY DEF SurfaceInv, S!TypeOK, S!Contents
  <1>3. S!Carries(call)
    BY <1>2 DEF S!Carries
  <1>4. ASSUME s1.lifecycle PROVE S!Checked(call)
    <2>1. v # NoRow
      BY SurfaceAssumption DEF SurfaceInv, S!TypeOK
    <2>2. \A h \in Guids \ {g} : s3[h] # v
      BY <1>1, <1>4, <2>1, ReaderSeesAll DEF S!PolicyAllows, SurfaceInv, S!ChecksHold
    <2> QED BY <2>2 DEF S!Checked
  <1> HIDE DEF call
  <1> QED BY <1>1, <1>3, <1>4, GoesOn, Zenon

\* What the check of a call that commits saw still holds.
LEMMA CheckedStill ==
  ASSUME SurfaceInv, NEW c \in Callers, S!Commits(c), s1.lifecycle
  PROVE  S!Checked(s5[c]) /\ S!OwnersHold
  BY DEF SurfaceInv, S!ChecksHold, S!Commits, S!Isolated

LEMMA Extends ==
  ASSUME SurfaceInv, NEW c \in Callers, S!Extend(c)
  PROVE  SurfaceInv'
  <1>1. s5[c].pc = "extend" /\ s5' = [s5 EXCEPT ![c] = S!Idle] /\ s1' = s1
    BY DEF S!Extend, S!Write, S!At, S!Goto
  <1>2. CASE UNCHANGED <<s2, s3, s4, s6, s7>>
    BY <1>1, <1>2, Fails, Zenon
  <1>3. CASE ~UNCHANGED <<s2, s3, s4, s6, s7>>
    <2> DEFINE g == s5[c].guid  v == s5[c].value
    <2>1. g \in Guids /\ v \in S!Contents /\ s5[c].found \in S!RecordRow \cup {NoRow}
      BY <1>1 DEF SurfaceInv, S!TypeOK, S!Carries
    <2>2. PICK own : /\ own = IF s5[c].found = NoRow THEN S!Row(Reserved, 1)
                              ELSE IF s5[c].found.kind = Reserved THEN s2[g]
                              ELSE S!Row(Reserved, s2[g].rev + 1)
                     /\ s2' = [s2 EXCEPT ![g] = own] /\ s3' = [s3 EXCEPT ![g] = v]
                     /\ UNCHANGED <<s4, s7>> /\ S!Commits(c)
                     /\ s6' = {d \in Callers \ {c} : S!Isolated /\ s5[d].pc # "idle"}
                     /\ (s5[c].found = NoRow) <=> (s2[g] = NoRow)
                     /\ S!Isolated => s5[c].found = s2[g]
      BY <1>1, <1>3 DEF S!Extend, S!Write
    <2>3. s2[g] \in S!RecordRow \cup {NoRow}
      BY <2>1 DEF SurfaceInv, S!TypeOK
    <2>4. own \in S!RecordRow
      BY <2>1, <2>2, <2>3 DEF S!RecordRow, S!Row
    <2>5. s1.lifecycle => own.kind = Reserved /\ own # NoRow
      BY <2>1, <2>2, <2>3, SurfaceAssumption DEF S!Isolated, S!Row, S!RecordRow
    <2>6. \A h \in Guids : s2'[h] = (IF h = g THEN own ELSE s2[h]) /\ s3'[h] = IF h = g THEN v ELSE s3[h]
      BY <2>1, <2>2 DEF SurfaceInv, S!TypeOK
    <2>7. ASSUME s1.lifecycle PROVE S!OwnersHold' /\ (S!EndpointsFit => S!EndpointsFit')
      <3>1. \A h \in Guids : S!IsOwner(h) => S!IsOwner(h)'
        BY <2>5, <2>6, <2>7 DEF S!IsOwner
      <3>2. S!OwnersHold'
        BY <2>2, <2>5, <2>6, <2>7, CheckedStill DEF S!OwnersHold, S!IsOwner
      <3> QED BY <1>1, <3>1, <3>2, OwnersStay
    <2>8. S!PoliciesHold'
      <3> SUFFICES ASSUME s1.lifecycle
                   PROVE  /\ \A h, i \in Guids : s3'[h] = s3'[i] => h = i \/ s3'[h] = NoRow
                          /\ s7' /\ s4' # NoRow => S!EndpointsFit'
        BY <1>1 DEF S!PoliciesHold
      <3>1. \A h \in Guids : s3[h] # v
        BY <1>1, <2>2, CheckedStill DEF S!Checked
      <3> QED BY <2>2, <2>6, <2>7, <3>1 DEF SurfaceInv, S!PoliciesHold
    <2>9. s1.lifecycle => s6' = {d \in Callers \ {c} : s5[d].pc # "idle"}
      BY <2>2 DEF S!Isolated
    <2>10. /\ s2' \in [Guids -> S!RecordRow \cup {NoRow}] /\ s3' \in [Guids -> S!Contents \cup {NoRow}]
           /\ s4' \in S!RelationRow \cup {NoRow}
      BY <2>1, <2>2, <2>4 DEF SurfaceInv, S!TypeOK
    <2> HIDE DEF g, v
    <2> QED BY <1>1, <2>7, <2>8, <2>9, <2>10, Commits, Zenon
  <1> QED BY <1>2, <1>3

LEMMA PatchesRow ==
  ASSUME SurfaceInv, NEW c \in Callers, S!Patch(c)
  PROVE  SurfaceInv'
  <1>1. s5[c].pc = "patch" /\ s5' = [s5 EXCEPT ![c] = S!Idle] /\ s1' = s1
    BY DEF S!Patch, S!Write, S!At, S!Goto
  <1>2. CASE UNCHANGED <<s2, s3, s4, s6, s7>>
    BY <1>1, <1>2, Fails, Zenon
  <1>3. CASE ~UNCHANGED <<s2, s3, s4, s6, s7>>
    <2> DEFINE g == s5[c].guid  v == s5[c].value
    <2>1. g \in Guids /\ v \in S!Contents
      BY <1>1 DEF SurfaceInv, S!TypeOK, S!Carries
    <2>2. /\ s2' = [s2 EXCEPT ![g].rev = @ + 1] /\ s3' = [s3 EXCEPT ![g] = v]
          /\ UNCHANGED <<s4, s7>> /\ S!Commits(c) /\ S!IsOwner(g)
          /\ s6' = {d \in Callers \ {c} : S!Isolated /\ s5[d].pc # "idle"}
      BY <1>1, <1>3 DEF S!Patch, S!Write
    <2>3. s2[g] \in S!RecordRow /\ s2[g].kind = Reserved
      BY <2>1, <2>2 DEF SurfaceInv, S!TypeOK, S!IsOwner
    <2>4. PICK own : own = [s2[g] EXCEPT !.rev = @ + 1]
      OBVIOUS
    <2>5. own \in S!RecordRow /\ own.kind = Reserved /\ own # NoRow
      BY <2>3, <2>4, SurfaceAssumption DEF S!RecordRow
    <2>6. \A h \in Guids : s2'[h] = (IF h = g THEN own ELSE s2[h]) /\ s3'[h] = IF h = g THEN v ELSE s3[h]
      BY <2>1, <2>2, <2>4 DEF SurfaceInv, S!TypeOK
    <2>7. S!EndpointsFit => S!EndpointsFit'
      <3>1. \A h \in Guids : S!IsOwner(h) => S!IsOwner(h)'
        BY <2>5, <2>6 DEF S!IsOwner
      <3> QED BY <1>1, <3>1, OwnersStay
    <2>8. s1.lifecycle => S!OwnersHold'
      BY <2>2, <2>5, <2>6, CheckedStill DEF S!OwnersHold, S!IsOwner
    <2>9. S!PoliciesHold'
      <3> SUFFICES ASSUME s1.lifecycle
                   PROVE  /\ \A h, i \in Guids : s3'[h] = s3'[i] => h = i \/ s3'[h] = NoRow
                          /\ s7' /\ s4' # NoRow => S!EndpointsFit'
        BY <1>1 DEF S!PoliciesHold
      <3>1. \A h \in Guids \ {g} : s3[h] # v
        BY <1>1, <2>2, CheckedStill DEF S!Checked
      <3> QED BY <2>2, <2>6, <2>7, <3>1 DEF SurfaceInv, S!PoliciesHold
    <2>10. s1.lifecycle => s6' = {d \in Callers \ {c} : s5[d].pc # "idle"}
      BY <2>2 DEF S!Isolated
    <2>11. /\ s2' \in [Guids -> S!RecordRow \cup {NoRow}] /\ s3' \in [Guids -> S!Contents \cup {NoRow}]
           /\ s4' \in S!RelationRow \cup {NoRow}
      BY <2>1, <2>2, <2>4, <2>5 DEF SurfaceInv, S!TypeOK
    <2> HIDE DEF g, v
    <2> QED BY <1>1, <2>8, <2>9, <2>10, <2>11, Commits, Zenon
  <1> QED BY <1>2, <1>3

LEMMA Erases ==
  ASSUME SurfaceInv, NEW c \in Callers, S!Erase(c)
  PROVE  SurfaceInv'
  <1>1. s5[c].pc = "erase" /\ s5' = [s5 EXCEPT ![c] = S!Idle] /\ s1' = s1
    BY DEF S!Erase, S!Write, S!At, S!Goto
  <1>2. CASE UNCHANGED <<s2, s3, s4, s6, s7>>
    BY <1>1, <1>2, Fails, Zenon
  <1>3. CASE ~UNCHANGED <<s2, s3, s4, s6, s7>>
    <2> DEFINE g == s5[c].guid
    <2>1. g \in Guids
      BY <1>1 DEF SurfaceInv, S!TypeOK, S!Carries
    <2>2. /\ s2' = [s2 EXCEPT ![g] = NoRow] /\ s3' = [s3 EXCEPT ![g] = NoRow]
          /\ UNCHANGED <<s4, s7>> /\ S!Commits(c) /\ ~S!Held(g)
          /\ s6' = {d \in Callers \ {c} : S!Isolated /\ s5[d].pc # "idle"}
      BY <1>1, <1>3 DEF S!Erase, S!Write
    <2>3. \A h \in Guids : s2'[h] = (IF h = g THEN NoRow ELSE s2[h]) /\ s3'[h] = IF h = g THEN NoRow ELSE s3[h]
      BY <2>1, <2>2 DEF SurfaceInv, S!TypeOK
    <2>4. s4 # NoRow /\ S!EndpointsFit => S!EndpointsFit'
      BY <2>2, <2>3, SurfaceAssumption DEF S!Held, S!EndpointsFit, S!IsOwner
    <2>5. s1.lifecycle => S!OwnersHold'
      BY <2>2, <2>3, CheckedStill DEF S!OwnersHold, S!IsOwner
    <2>6. S!PoliciesHold'
      BY <1>1, <2>2, <2>3, <2>4 DEF SurfaceInv, S!PoliciesHold
    <2>7. s1.lifecycle => s6' = {d \in Callers \ {c} : s5[d].pc # "idle"}
      BY <2>2 DEF S!Isolated
    <2>8. /\ s2' \in [Guids -> S!RecordRow \cup {NoRow}] /\ s3' \in [Guids -> S!Contents \cup {NoRow}]
          /\ s4' \in S!RelationRow \cup {NoRow}
      BY <2>1, <2>2 DEF SurfaceInv, S!TypeOK
    <2> HIDE DEF g
    <2> QED BY <1>1, <2>5, <2>6, <2>7, <2>8, Commits, Zenon
  <1> QED BY <1>2, <1>3

\* A call that reads, or answers what it read.
LEMMA Reads ==
  ASSUME SurfaceInv, NEW c \in Callers,
         \/ \E g \in Guids : S!CheckErase(c, g)
         \/ \E gs \in {Guids} \cup {{g} : g \in Guids} : S!ReadRows(c, gs)
         \/ S!ReadOwners(c) \/ S!Answered(c) \/ S!CheckUnlink(c)
  PROVE  SurfaceInv'
  <1>1. \A call : call.pc \in {"idle", "rows", "answered", "unlink"} => S!Carries(call) /\ S!Checked(call)
    BY DEF S!Carries, S!Checked
  <1>2. ASSUME NEW call, s5' = [s5 EXCEPT ![c] = call], UNCHANGED <<s1, s2, s3, s4, s7>>,
               s6 \ {c} \subseteq s6', S!Carries(call), S!Checked(call)
        PROVE  SurfaceInv'
    BY <1>2, GoesOn, Zenon
  <1>3. ASSUME NEW g \in Guids, S!CheckErase(c, g) PROVE SurfaceInv'
    <2>1. /\ s5' = [s5 EXCEPT ![c] = [pc |-> "erase", guid |-> g]]
          /\ s6' = s6 \ {c} /\ UNCHANGED <<s1, s2, s3, s4, s7>>
      BY <1>3 DEF S!CheckErase, S!Check, S!Goto
    <2>2. S!Carries([pc |-> "erase", guid |-> g]) /\ S!Checked([pc |-> "erase", guid |-> g])
      BY DEF S!Carries, S!Checked
    <2> QED BY <1>2, <2>1, <2>2, Zenon
  <1>4. ASSUME NEW gs, S!ReadRows(c, gs) PROVE SurfaceInv'
    <2>1. PICK call : /\ call.pc = "rows" /\ s5' = [s5 EXCEPT ![c] = call]
                      /\ s6' = s6 \ {c} /\ UNCHANGED <<s1, s2, s3, s4, s7>>
      <3>1. PICK rows : S!Check(c, TRUE, [pc |-> "rows", value |-> rows])
        BY <1>4, Zenon DEF S!ReadRows
      <3>2. [pc |-> "rows", value |-> rows].pc = "rows"
        OBVIOUS
      <3> QED BY <3>1, <3>2, Zenon DEF S!Check, S!Goto
    <2>2. S!Carries(call) /\ S!Checked(call) /\ s6 \ {c} \subseteq s6'
      BY <1>1, <2>1
    <2> QED BY <1>2, <2>1, <2>2, Zenon
  <1>5. CASE S!ReadOwners(c)
    <2>1. UNCHANGED <<s1, s2, s3, s4, s6, s7>>
      BY <1>5 DEF S!ReadOwners
    <2>2. PICK call, answer : /\ call = S!Idle \/ call = [pc |-> "answered", answer |-> answer]
                              /\ s5' = [s5 EXCEPT ![c] = call]
      BY <1>5, Zenon DEF S!ReadOwners, S!Goto
    <2>3. call.pc \in {"idle", "answered"}
      BY <2>2 DEF S!Idle
    <2>4. S!Carries(call) /\ S!Checked(call)
      BY <1>1, <2>3
    <2> QED BY <1>2, <2>1, <2>2, <2>4, Zenon
  <1>6. CASE S!Answered(c)
    BY <1>2, <1>6, IdleCarries, Zenon DEF S!Answered, S!Goto
  <1>7. CASE S!CheckUnlink(c)
    <2>1. /\ s5' = [s5 EXCEPT ![c] = [pc |-> "unlink", found |-> s4]]
          /\ s6' = s6 \ {c} /\ UNCHANGED <<s1, s2, s3, s4, s7>>
      BY <1>7 DEF S!CheckUnlink, S!Check, S!Goto
    <2>2. S!Carries([pc |-> "unlink", found |-> s4]) /\ S!Checked([pc |-> "unlink", found |-> s4])
      BY DEF S!Carries, S!Checked
    <2> QED BY <1>2, <2>1, <2>2, Zenon
  <1> QED BY <1>3, <1>4, <1>5, <1>6, <1>7

\* The kind that a link carries is one of the surface's.
LEMMA ChecksLink ==
  ASSUME SurfaceInv, NEW c \in Callers, NEW k, S!CheckLink(c, k)
  PROVE  SurfaceInv'
  <1>1. PICK kind \in S!Selected(k) :
          S!Check(c, S!Related, [pc |-> "link", row |-> [kind |-> kind, status |-> "active", rev |-> 1]])
    BY DEF S!CheckLink
  <1> DEFINE call == [pc |-> "link", row |-> [kind |-> kind, status |-> "active", rev |-> 1]]
  <1>2. /\ s5' = [s5 EXCEPT ![c] = call] /\ s6 \ {c} \subseteq s6'
        /\ UNCHANGED <<s1, s2, s3, s4, s7>> /\ S!Related
    BY <1>1 DEF S!Check, S!Goto
  <1>3. kind \in S!Allowed /\ kind \in RelationKinds
    BY KindsAllowed DEF S!Selected, SurfaceInv, S!TypeOK
  <1>4. S!Carries(call)
    BY <1>3 DEF S!Carries, S!RelationRow
  <1>5. S!Checked(call)
    BY <1>2 DEF S!Checked, S!Related
  <1> HIDE DEF call
  <1> QED BY <1>2, <1>4, <1>5, GoesOn, Zenon

\* A relink names no fixed field, by whatever name.
LEMMA ChecksRelink ==
  ASSUME SurfaceInv, NEW c \in Callers, NEW names, NEW k, S!CheckRelink(c, names, k)
  PROVE  SurfaceInv'
  <1>1. "kind" \notin S!Normalized(names)
    BY DEF S!CheckRelink, S!RejectsFixed
  <1>2. S!Check(c, S!Related, [pc |-> "relink", rev |-> s4.rev, kind |-> NoRow])
    BY <1>1 DEF S!CheckRelink
  <1> DEFINE call == [pc |-> "relink", rev |-> s4.rev, kind |-> NoRow]
  <1>3. S!Carries(call) /\ S!Checked(call)
    BY DEF S!Carries, S!Checked
  <1> QED BY <1>2, <1>3, GoesOn, Zenon DEF S!Check, S!Goto

\* A write of the edge leaves records and extensions alone.
LEMMA EdgeWrites ==
  ASSUME SurfaceInv, NEW c \in Callers, s5' = [s5 EXCEPT ![c] = S!Idle], S!Commits(c),
         UNCHANGED <<s1, s2, s3>>, s4' \in S!RelationRow \cup {NoRow},
         s6' = {d \in Callers \ {c} : S!Isolated /\ s5[d].pc # "idle"},
         s1.lifecycle /\ s7' /\ s4' # NoRow => S!EndpointsFit
  PROVE  SurfaceInv'
  <1>1. s1.lifecycle => S!OwnersHold' /\ s6' = {d \in Callers \ {c} : s5[d].pc # "idle"}
    BY CheckedStill DEF S!OwnersHold, S!IsOwner, S!Isolated
  <1>2. S!EndpointsFit => S!EndpointsFit'
    BY DEF S!EndpointsFit, S!IsOwner
  <1>3. S!PoliciesHold'
    BY <1>2 DEF SurfaceInv, S!PoliciesHold
  <1>4. /\ s2' \in [Guids -> S!RecordRow \cup {NoRow}] /\ s3' \in [Guids -> S!Contents \cup {NoRow}]
        /\ s1' = s1
    BY DEF SurfaceInv, S!TypeOK
  <1> QED BY <1>1, <1>3, <1>4, Commits, Zenon

\* What a write of the edge does when it commits.
LEMMA Links ==
  ASSUME SurfaceInv, NEW c \in Callers, S!Link(c) \/ S!Relink(c) \/ S!Unlink(c)
  PROVE  SurfaceInv'
  <1>1. s5' = [s5 EXCEPT ![c] = S!Idle] /\ s1' = s1
    BY DEF S!Link, S!Relink, S!Unlink, S!Write, S!Goto
  <1>2. CASE UNCHANGED <<s2, s3, s4, s6, s7>>
    BY <1>1, <1>2, Fails, Zenon
  <1>3. CASE ~UNCHANGED <<s2, s3, s4, s6, s7>>
    <2>1. /\ S!Commits(c) /\ UNCHANGED <<s2, s3>>
          /\ s6' = {d \in Callers \ {c} : S!Isolated /\ s5[d].pc # "idle"}
      BY <1>3 DEF S!Link, S!Relink, S!Unlink, S!Write
    <2>2. /\ s4' \in S!RelationRow \cup {NoRow}
          /\ s1.lifecycle /\ s7' /\ s4' # NoRow => S!EndpointsFit
      <3>1. CASE S!Link(c)
        <4>1. s5[c].pc = "link" /\ s4' = s5[c].row
          BY <1>3, <3>1 DEF S!Link, S!Write, S!At
        <4> QED BY <2>1, <4>1, CheckedStill DEF SurfaceInv, S!TypeOK, S!Carries, S!Checked
      <3>2. CASE S!Relink(c)
        <4>1. /\ s5[c].pc = "relink" /\ S!Fits(s4) /\ s7' = s7
              /\ s4' = [s4 EXCEPT !.kind = IF s5[c].kind = NoRow THEN @ ELSE s5[c].kind, !.rev = @ + 1]
          BY <1>3, <3>2 DEF S!Relink, S!Write, S!At
        <4>2. s5[c].kind = NoRow /\ s4 \in S!RelationRow /\ s4 # NoRow
          BY <4>1 DEF SurfaceInv, S!TypeOK, S!Carries, S!Fits
        <4>3. s4' = [kind |-> s4.kind, status |-> s4.status, rev |-> s4.rev + 1]
          BY <4>1, <4>2, Zenon DEF S!RelationRow
        <4>4. s4' \in S!RelationRow
          BY <4>2, <4>3 DEF S!RelationRow
        <4> QED BY <4>1, <4>2, <4>4 DEF SurfaceInv, S!PoliciesHold
      <3>3. CASE S!Unlink(c)
        BY <1>3, <3>3 DEF S!Unlink, S!Write
      <3> QED BY <3>1, <3>2, <3>3
    <2> QED BY <1>1, <2>1, <2>2, EdgeWrites, Zenon
  <1> QED BY <1>2, <1>3

\* The services of plain records and relations know no surfaces, and yet undo
\* nothing that one has checked.
LEMMA PlainServices ==
  ASSUME SurfaceInv, S!Plain
  PROVE  SurfaceInv'
  <1>1. UNCHANGED <<s1, s3, s5, s6>>
    BY DEF S!Plain, S!PlainRecord, S!PlainRelation, S!PlainUnlink
  <1>2. /\ s2' \in [Guids -> S!RecordRow \cup {NoRow}]
        /\ \A g \in Guids : S!IsOwner(g) => S!IsOwner(g)'
    <2>1. CASE \E g \in Guids : S!PlainRecord(g)
      <3>1. PICK g \in Guids : S!PlainRecord(g)
        BY <2>1
      <3>2. S!Row(Note, 1) \in S!RecordRow
        BY DEF S!Row, S!RecordRow
      <3>3. s2' = [s2 EXCEPT ![g] = IF s2[g] = NoRow THEN S!Row(Note, 1) ELSE NoRow] /\ ~S!IsOwner(g)
        BY <3>1, SurfaceAssumption DEF S!PlainRecord, S!IsOwner
      <3>4. s2' \in [Guids -> S!RecordRow \cup {NoRow}]
        BY <3>2, <3>3 DEF SurfaceInv, S!TypeOK
      <3>5. \A h \in Guids \ {g} : s2'[h] = s2[h]
        BY <3>3 DEF SurfaceInv, S!TypeOK
      <3> QED BY <3>3, <3>4, <3>5 DEF S!IsOwner
    <2>2. CASE UNCHANGED s2
      BY <2>2 DEF SurfaceInv, S!TypeOK, S!IsOwner
    <2> QED BY <2>1, <2>2 DEF S!Plain, S!PlainRelation, S!PlainUnlink
  <1>3. /\ s4' \in S!RelationRow \cup {NoRow}
        /\ s7' /\ s4' # NoRow => s7 /\ s4 # NoRow
    BY DEF S!Plain, S!PlainRecord, S!PlainRelation, S!PlainUnlink, SurfaceInv, S!TypeOK, S!RelationRow
  <1>4. S!EndpointsFit => S!EndpointsFit'
    BY <1>1, <1>2, OwnersStay
  <1>5. S!Allowed' = S!Allowed /\ S!Defined(s1.def)' = S!Defined(s1.def)
    BY <1>1 DEF S!Allowed, S!AllowedList, S!Defined
  <1>6. \A c \in Callers : S!Carries(s5[c]) => S!Carries(s5[c])'
    BY <1>1, <1>5 DEF S!Carries
  <1>7. S!TypeOK'
    BY <1>1, <1>2, <1>3, <1>5, <1>6 DEF SurfaceInv, S!TypeOK
  <1>8. \A c \in Callers : S!Checked(s5[c]) => S!Checked(s5[c])'
    BY <1>1, <1>4 DEF S!Checked
  <1>9. S!OwnersHold => S!OwnersHold'
    BY <1>1, <1>2 DEF S!OwnersHold
  <1>10. S!ChecksHold'
    BY <1>1, <1>8, <1>9 DEF SurfaceInv, S!ChecksHold
  <1>11. S!PoliciesHold'
    BY <1>1, <1>3, <1>4 DEF SurfaceInv, S!PoliciesHold
  <1> QED BY <1>7, <1>10, <1>11 DEF SurfaceInv

LEMMA SurfaceStep == SurfaceInv /\ S!Next => SurfaceInv'
  <1> SUFFICES ASSUME SurfaceInv, S!Next PROVE SurfaceInv'
    OBVIOUS
  <1>1. CASE S!Plain
    BY <1>1, PlainServices
  <1>2. ASSUME NEW c \in Callers, S!Extension(c) PROVE SurfaceInv'
    <2>1. ASSUME NEW g \in Guids, NEW v \in s1.values[g], S!CheckExtend(c, g, v) \/ S!CheckPatch(c, g, v)
          PROVE  SurfaceInv'
      BY <2>1, ChecksExtend, ChecksPatch
    <2>2. S!Extend(c) \/ S!Patch(c) \/ S!Erase(c) => SurfaceInv'
      BY Extends, PatchesRow, Erases
    <2> QED BY <1>2, <2>1, <2>2, Reads DEF S!Extension
  <1>3. ASSUME NEW c \in Callers, S!Relation(c) PROVE SurfaceInv'
    BY <1>3, ChecksLink, ChecksRelink, Links, Reads DEF S!Relation
  <1> QED BY <1>1, <1>2, <1>3 DEF S!Next

\* Only a call that ends writes: what others do leaves it where it is.
LEMMA SurfaceStays == SurfaceInv /\ S!Next => S!StaysInSurface
  <1> SUFFICES ASSUME SurfaceInv, S!Next, NEW c \in Callers,
                      s5[c].pc \in {"link", "relink", "unlink"}, s5'[c] # s5[c], s4' # s4
               PROVE  /\ s4 # NoRow  => S!Fits(s4)
                      /\ s4' # NoRow => S!Fits(s4')
                      /\ s4 # NoRow /\ s4' # NoRow => s4'.kind = s4.kind
    BY DEF S!StaysInSurface
  <1>1. PICK d \in Callers : S!Link(d) \/ S!Relink(d) \/ S!Unlink(d)
    <2>1. ~S!Plain
      BY DEF S!Plain
    <2>2. PICK d \in Callers : S!Extension(d) \/ S!Relation(d)
      BY <2>1 DEF S!Next
    <2>3. ~S!Extension(d)
      BY Zenon DEF S!Extension, S!CheckExtend, S!CheckPatch, S!CheckErase, S!ReadRows, S!ReadOwners,
             S!Answered, S!Extend, S!Patch, S!Erase, S!Write, S!Check
    <2>4. ~S!CheckUnlink(d) /\ \A k, names : ~S!CheckLink(d, k) /\ ~S!CheckRelink(d, names, k)
      BY Zenon DEF S!CheckUnlink, S!CheckLink, S!CheckRelink, S!Check
    <2> QED BY <2>2, <2>3, <2>4 DEF S!Relation
  <1>2. d = c
    <2>1. s5' = [s5 EXCEPT ![d] = S!Idle]
      BY <1>1 DEF S!Link, S!Relink, S!Unlink, S!Write, S!Goto
    <2> QED BY <2>1 DEF SurfaceInv, S!TypeOK
  <1>3. CASE S!Link(c)
    <2>1. s5[c].pc = "link" /\ s4 = NoRow /\ s4' = s5[c].row
      BY <1>3 DEF S!Link, S!Write, S!At
    <2> QED BY <2>1 DEF SurfaceInv, S!TypeOK, S!Carries, S!Fits
  <1>4. CASE S!Relink(c)
    <2>1. /\ s5[c].pc = "relink" /\ S!Fits(s4)
          /\ s4' = [s4 EXCEPT !.kind = IF s5[c].kind = NoRow THEN @ ELSE s5[c].kind, !.rev = @ + 1]
      BY <1>4 DEF S!Relink, S!Write, S!At
    <2>2. s5[c].kind = NoRow /\ s4 \in S!RelationRow
      BY <2>1 DEF SurfaceInv, S!TypeOK, S!Carries, S!Fits
    <2>3. s4' = [kind |-> s4.kind, status |-> s4.status, rev |-> s4.rev + 1]
      BY <2>1, <2>2, Zenon DEF S!RelationRow
    <2>4. s4'.kind = s4.kind /\ s4'.status = s4.status /\ (s4' = NoRow \/ s4' # NoRow)
      BY <2>2, <2>3
    <2> QED BY <2>1, <2>4 DEF S!Fits
  <1>5. CASE S!Unlink(c)
    BY <1>5 DEF S!Unlink, S!Write
  <1> QED BY <1>1, <1>2, <1>3, <1>4, <1>5

-----------------------------------------------------------------------------
(* The Task App.                                                           *)

\* Any text, among them those that the services write themselves.
Texts  == STRING \cup {"kept", "todo", "scheduled", "active", "draft", "archived"}
Givens == [status : Texts, due : Texts \cup {NoRow}]

TaskStatements ==
    [op : {"find", "read"}, guid : Names, kinds : SUBSET T!RecordKinds]
      \cup [op : {"save", "patch"}, guid : Names, kind : T!RecordKinds, input : Givens]
      \cup [op : {"drop"}, guid : Names, kind : T!RecordKinds]
      \cup [op : {"unlink"}, col : {1, 2}, guid : Names, kinds : SUBSET T!Links]
      \cup [op : {"link"}, pairs : SUBSET (Names \X Names), kind : T!Links]
      \cup [op : {"findAll"}, guids : SUBSET Names]
      \cup [op : {"count"}] \cup [op : {"page"}, kind : T!RecordKinds]
      \cup [op : {"lookup"}, ext : STRING]
      \cup [op : {"findRef", "dropRef"}, ref : TaskRefs]
      \cup [op : {"saveRef", "patchRef"}, ref : TaskRefs, to : Names, ext : STRING]
      \cup [op : {"findSync", "dropSync"}, sync : Syncs]
      \cup [op : {"saveSync", "patchSync"}, sync : Syncs, ref : TaskRefs]

\* The statements of a call on these records: what it writes is one of them, or
\* joins two of them.
Within(on) ==
    {s \in TaskStatements :
        /\ s.op \in {"save", "patch", "drop", "unlink"} => s.guid \in on
        /\ s.op = "link" => s.pairs \subseteq on \X on}

Leaves(g)   == {s \in TaskStatements : s.op \in {"save", "patch", "drop"} => s.guid # g}
NoLookup    == {s \in TaskStatements : s.op # "lookup"}
NoPatch     == {s \in TaskStatements : s.op # "patch"}

\* Rows as they are written: the status column agrees, and nothing is left open.
Bodies ==
    {b \in [column : Texts, status : Texts, due : Texts \cup {NoRow}] :
        b.column = T!Column(b.status) /\ b.status # "kept" /\ b.due \notin {"kept", "bad"}}

\* A slot holds the edges of one kind that leave or reach a record, and "want" is
\* what an acknowledged call says they are.
Contained(f) == [col |-> 2, guid |-> f.guid, kind |-> "contains",
                 want |-> {<<p, f.guid, "contains">> : p \in {f.project} \ {NoRow}}]
Listed(f, k) == [col |-> 1, guid |-> f.guid, kind |-> k,
                 want |-> {<<f.guid, y, k>> : y \in f.named[k]}]

Slots(f) == {x \in {Contained(f)} : f.project # "kept"} \cup {Listed(f, k) : k \in DOMAIN f.named}

InSlot(r, x) == {y \in r : y[x.col] = x.guid /\ y[3] = x.kind}

Clears(s, x) == s.op = "unlink" /\ s.col = x.col /\ s.guid = x.guid /\ x.kind \in s.kinds
Fills(s, x)  == s.op = "link" /\ s.kind = x.kind /\ {<<e[1], e[2], s.kind>> : e \in s.pairs} = x.want

Keeping(x) == {s \in TaskStatements : /\ s.op = "link" => s.kind # x.kind
                                      /\ s.op = "unlink" => x.kind \notin s.kinds}

\* After statement i the slot is filled, once.
FillsAfter(t, i, x) ==
    \/ x.want = {} /\ \A k \in DOMAIN t : k > i => t[k] \in Keeping(x)
    \/ \E j \in DOMAIN t :
         /\ j > i /\ Fills(t[j], x)
         /\ \A k \in DOMAIN t \ {j} : k > i => t[k] \in Keeping(x)

Places(t, x) == \E i \in DOMAIN t : Clears(t[i], x) /\ FillsAfter(t, i, x)

\* What is left to do leads from these edges to those that are wanted.
Lands(t, r, x) ==
    \/ Places(t, x)
    \/ InSlot(r, x) = {} /\ FillsAfter(t, 0, x)
    \/ InSlot(r, x) = x.want /\ t \in Seq(Keeping(x))

\* What f says of the row of its record is in the row that a statement writes.
Agrees(row, f) == f.status # "kept" /\ f.due # "kept" /\ row.status = f.status /\ row.due = f.due

\* The last write of the record is the one that f speaks of.
Saves(t, f) ==
    \E i \in DOMAIN t :
        /\ t[i].op = "save" /\ t[i].guid = f.guid
        /\ Agrees(T!Body(t[i].kind, t[i].input), f)
        /\ \A k \in DOMAIN t : k > i => t[k] \in Leaves(f.guid)

Patches(s, f) ==
    /\ s.op = "patch" /\ s.guid = f.guid /\ f.status = s.input.status
    /\ f.due = (IF s.input.due = "kept" THEN "kept" ELSE T!NormalDate(s.input.due))

\* A patch of what was read just before.
Rereads(t, f) ==
    /\ 2 \in DOMAIN t /\ Patches(t[2], f)
    /\ t[1].op = "read" /\ t[1].guid = f.guid /\ t[1].kinds = {t[2].kind}
    /\ \A k \in DOMAIN t : k > 2 => t[k] \in Leaves(f.guid)

Rewrites(t, f, kind, read) ==
    /\ t # <<>> /\ Patches(t[1], f) /\ t[1].kind = kind /\ read \in Bodies
    /\ \A k \in DOMAIN t : k > 1 => t[k] \in Leaves(f.guid)

WritesRow(t, f, kind, row, read, was) ==
    \/ Saves(t, f)
    \/ row = was /\ Rereads(t, f)
    \/ row = was /\ read = was /\ Rewrites(t, f, kind, read)
    \/ T!Holds(row, f, was) /\ t \in Seq(Leaves(f.guid))

-----------------------------------------------------------------------------

SaysOf == [guid : Names, project : Names \cup {NoRow, "kept"}, named : T!Namings,
           status : Texts, due : Texts \cup {NoRow}]

\* The records that f names are among these.
SaysWithin(f, on) ==
    /\ f.guid \in on /\ f.project \in on \cup {NoRow, "kept"}
    /\ \A k \in DOMAIN f.named : f.named[k] \subseteq on

TaskCalls == [todo : Seq(TaskStatements), on : SUBSET Names, alone : BOOLEAN,
              files : SaysOf \cup {NoRow}, answer : {"none", "ok", "failed"},
              was : Bodies \cup {NoRow}, read : Bodies \cup {NoRow}]

\* A lookup gives the last statement its row.
LooksUp(t) ==
    \/ Len(t) = 3 /\ t[1].op = "find" /\ t[2].op = "lookup" /\ t[3].op = "saveRef"
    \/ Len(t) = 2 /\ t[1].op = "lookup" /\ t[2].op = "saveRef"

\* The statements that are left write within the records of the call, patch what
\* was read, and a call that files a record looks none up.
Disciplined(call) ==
    /\ call.todo \in Seq(Within(call.on))
    /\ \/ call.read \in Bodies \/ call.todo \in Seq(NoPatch)
       \/ call.todo # <<>> /\ call.todo[1].op = "read"
    /\ call.todo \in Seq(NoLookup) \/ (LooksUp(call.todo) /\ call.files = NoRow)

\* What is left of a call leads from these rows and edges to what it says.
Leads(call, kinds, edges, bodies) ==
    LET f == call.files
    IN  /\ SaysWithin(f, call.on)
        /\ \A x \in Slots(f) : Lands(call.todo, edges, x)
        /\ WritesRow(call.todo, f, kinds[f.guid], bodies[f.guid], call.read, call.was)

\* No other call in progress touches the records of c.
Apart(c, all) == \A d \in Callers \ {c} : all[d].todo # <<>> => all[d].on \cap all[c].on = {}

\* A call that is alone has no answer yet, and leads to what it says.
AloneLeads(c, all, kinds, edges, bodies) ==
    all[c].alone =>
      /\ all[c].answer = "none"
      /\ all[c].todo # <<>> /\ all[c].files # NoRow =>
           Apart(c, all) /\ Leads(all[c], kinds, edges, bodies)

TaskInv ==
    /\ s1 \in [Names -> T!RecordKinds \cup {NoRow}] /\ s7 \in [Names -> Bodies \cup {NoRow}]
    /\ \A g \in Names : s1[g] # NoRow => s7[g] \in Bodies
    /\ s2 \in SUBSET (Names \X Names \X T!Links)
    /\ s5 \in [Callers -> TaskCalls]
    /\ s8 \in Workloads
    /\ \A c \in Callers : Disciplined(s5[c]) /\ AloneLeads(c, s5, s1, s2, s7)
-----------------------------------------------------------------------------
(* Sequences of statements.                                                *)

LEMMA OneStatement == ASSUME NEW U, NEW s \in U PROVE <<s>> \in Seq(U)
  OBVIOUS

LEMMA TwoJoined == ASSUME NEW a, NEW b PROVE <<a>> \o <<b>> = <<a, b>>
  <1> DEFINE U == {a, b}
             t == <<a>> \o <<b>>
  <1>1. t \in Seq(U) /\ <<a, b>> \in Seq(U) /\ Len(t) = 2 /\ Len(<<a, b>>) = 2
    OBVIOUS
  <1>2. \A i \in 1 .. 2 : t[i] = <<a, b>>[i]
    OBVIOUS
  <1> HIDE DEF U
  <1> QED BY <1>1, <1>2, SeqEqual, Zenon

LEMMA ThreeJoined == ASSUME NEW a, NEW b, NEW c PROVE <<a>> \o <<b, c>> = <<a, b, c>>
  <1> DEFINE U == {a, b, c}
             t == <<a>> \o <<b, c>>
  <1>1. t \in Seq(U) /\ <<a, b, c>> \in Seq(U) /\ Len(t) = 3 /\ Len(<<a, b, c>>) = 3
    OBVIOUS
  <1>2. \A i \in 1 .. 3 : t[i] = <<a, b, c>>[i]
    OBVIOUS
  <1> HIDE DEF U
  <1> QED BY <1>1, <1>2, SeqEqual, Zenon

LEMMA PairJoined == ASSUME NEW a, NEW b, NEW c PROVE (<<a>> \o <<b>>) \o <<c>> = <<a, b, c>>
  <1> DEFINE U == {a, b, c}
             t == <<a, b>> \o <<c>>
  <1>1. t \in Seq(U) /\ <<a, b, c>> \in Seq(U) /\ Len(t) = 3 /\ Len(<<a, b, c>>) = 3
    OBVIOUS
  <1>2. \A i \in 1 .. 3 : t[i] = <<a, b, c>>[i]
    OBVIOUS
  <1> HIDE DEF U
  <1>3. t = <<a, b, c>>
    BY <1>1, <1>2, SeqEqual, Zenon
  <1> QED BY <1>3, TwoJoined, Zenon

LEMMA FewStatements ==
  ASSUME NEW a, NEW b, NEW c
  PROVE  /\ DOMAIN <<a, b>> = {1, 2} /\ <<a, b>>[1] = a /\ <<a, b>>[2] = b
         /\ DOMAIN <<a, b, c>> = {1, 2, 3}
         /\ <<a, b, c>>[1] = a /\ <<a, b, c>>[2] = b /\ <<a, b, c>>[3] = c
         /\ \A U : a \in U /\ b \in U => <<a, b>> \in Seq(U)
         /\ \A U : a \in U /\ b \in U /\ c \in U => <<a, b, c>> \in Seq(U)
  <1>1. DOMAIN <<a, b>> = {1, 2} /\ <<a, b>>[1] = a /\ <<a, b>>[2] = b
    OBVIOUS
  <1>2. /\ DOMAIN <<a, b, c>> = {1, 2, 3}
        /\ <<a, b, c>>[1] = a /\ <<a, b, c>>[2] = b /\ <<a, b, c>>[3] = c
    OBVIOUS
  <1>3. ASSUME NEW U, a \in U, b \in U PROVE <<a, b>> \in Seq(U)
    BY <1>3
  <1>4. ASSUME NEW U, a \in U, b \in U, c \in U PROVE <<a, b, c>> \in Seq(U)
    BY <1>4
  <1> QED BY <1>1, <1>2, <1>3, <1>4

LEMMA InTurn == ASSUME NEW U, NEW a \in Seq(U), NEW b \in Seq(U) PROVE a \o b \in Seq(U)
  OBVIOUS

LEMMA TailsIn ==
  ASSUME NEW U, NEW t \in Seq(U), t # <<>>
  PROVE  /\ Tail(t) \in Seq(U) /\ Head(t) = t[1] /\ t[1] \in U
         /\ Len(Tail(t)) = Len(t) - 1 /\ DOMAIN Tail(t) = 1 .. Len(t) - 1
         /\ \A i \in DOMAIN Tail(t) : Tail(t)[i] = t[i + 1] /\ i + 1 \in DOMAIN t
  OBVIOUS

LEMMA Both ==
  ASSUME NEW a \in Seq(TaskStatements), NEW b \in Seq(TaskStatements)
  PROVE  /\ a \o b \in Seq(TaskStatements)
         /\ \A i \in DOMAIN a : i \in DOMAIN (a \o b) /\ (a \o b)[i] = a[i]
         /\ \A i \in DOMAIN b : /\ Len(a) + i \in DOMAIN (a \o b)
                                /\ (a \o b)[Len(a) + i] = b[i]
         /\ \A k \in DOMAIN (a \o b) :
              \/ k \in DOMAIN a /\ k <= Len(a)
              \/ k > Len(a) /\ k - Len(a) \in DOMAIN b /\ (a \o b)[k] = b[k - Len(a)]
  OBVIOUS

LEMMA OpensWith ==
  ASSUME NEW U, NEW a \in Seq(TaskStatements), NEW b \in Seq(TaskStatements), b \in Seq(U),
         2 \in DOMAIN a, \A k \in DOMAIN a : k > 2 => a[k] \in U
  PROVE  LET t == a \o b
         IN  /\ 2 \in DOMAIN t /\ t[1] = a[1] /\ t[2] = a[2]
             /\ \A k \in DOMAIN t : k > 2 => t[k] \in U
  <1>1. 1 \in DOMAIN a
    OBVIOUS
  <1>2. \A k \in DOMAIN b : b[k] \in U
    OBVIOUS
  <1> QED BY <1>1, <1>2, Both

LEMMA PlacesFirst ==
  ASSUME NEW x, NEW a \in Seq(TaskStatements), Places(a, x), NEW b \in Seq(Keeping(x))
  PROVE  Places(a \o b, x)
  <1>1. b \in Seq(TaskStatements)
    BY DEF Keeping
  <1>2. PICK i \in DOMAIN a : Clears(a[i], x) /\ FillsAfter(a, i, x)
    BY DEF Places
  <1> DEFINE t == a \o b
  <1>3. \A k \in DOMAIN t \ DOMAIN a : t[k] \in Keeping(x)
    BY <1>1, Both
  <1>4. i \in DOMAIN t /\ t[i] = a[i]
    BY <1>1, Both
  <1>5. FillsAfter(t, i, x)
    <2>1. CASE x.want = {} /\ \A k \in DOMAIN a : k > i => a[k] \in Keeping(x)
      BY <2>1, <1>1, <1>3, Both DEF FillsAfter
    <2>2. ASSUME NEW j \in DOMAIN a, j > i, Fills(a[j], x),
                 \A k \in DOMAIN a \ {j} : k > i => a[k] \in Keeping(x)
          PROVE  FillsAfter(t, i, x)
      <3>1. j \in DOMAIN t /\ t[j] = a[j]
        BY <1>1, Both
      <3>2. \A k \in DOMAIN t \ {j} : k > i => t[k] \in Keeping(x)
        BY <2>2, <1>1, <1>3, Both
      <3> QED BY <2>2, <3>1, <3>2 DEF FillsAfter
    <2> QED BY <1>2, <2>1, <2>2, Zenon DEF FillsAfter
  <1> QED BY <1>2, <1>4, <1>5 DEF Places

LEMMA PlacesLast ==
  ASSUME NEW x, NEW a \in Seq(TaskStatements), NEW b \in Seq(TaskStatements), Places(b, x)
  PROVE  Places(a \o b, x)
  <1>1. PICK i \in DOMAIN b : Clears(b[i], x) /\ FillsAfter(b, i, x)
    BY DEF Places
  <1> DEFINE t == a \o b
             n == Len(a) + i
  <1>2. n \in DOMAIN t /\ t[n] = b[i]
    BY Both
  <1>3. \A k \in DOMAIN t : k > n => /\ k - Len(a) \in DOMAIN b /\ k - Len(a) > i
                                     /\ t[k] = b[k - Len(a)]
    <2> SUFFICES ASSUME NEW k \in DOMAIN t, k > n
                 PROVE  k - Len(a) \in DOMAIN b /\ k - Len(a) > i /\ t[k] = b[k - Len(a)]
      OBVIOUS
    <2>1. k \in Nat /\ i \in Nat /\ Len(a) \in Nat
      BY Both
    <2> QED BY <2>1, Both
  <1>4. FillsAfter(t, n, x)
    <2>1. CASE x.want = {} /\ \A k \in DOMAIN b : k > i => b[k] \in Keeping(x)
      BY <2>1, <1>3 DEF FillsAfter
    <2>2. ASSUME NEW j \in DOMAIN b, j > i, Fills(b[j], x),
                 \A k \in DOMAIN b \ {j} : k > i => b[k] \in Keeping(x)
          PROVE  FillsAfter(t, n, x)
      <3>1. Len(a) + j \in DOMAIN t /\ t[Len(a) + j] = b[j] /\ Len(a) + j > n
        BY <2>2, Both
      <3>2. ASSUME NEW k \in DOMAIN t \ {Len(a) + j}, k > n
            PROVE  t[k] \in Keeping(x)
        <4>1. k - Len(a) # j
          BY <1>3, <3>2, <3>1, Both
        <4> QED BY <4>1, <1>3, <2>2, <3>2
      <3> QED BY <3>1, <3>2, <2>2, Zenon DEF FillsAfter
    <2> QED BY <1>1, <2>1, <2>2, Zenon DEF FillsAfter
  <1> QED BY <1>1, <1>2, <1>4 DEF Places

LEMMA SavesFirst ==
  ASSUME NEW f, NEW a \in Seq(TaskStatements), Saves(a, f), NEW b \in Seq(Leaves(f.guid))
  PROVE  Saves(a \o b, f)
  <1>1. b \in Seq(TaskStatements)
    BY DEF Leaves
  <1>2. PICK i \in DOMAIN a :
          /\ a[i].op = "save" /\ a[i].guid = f.guid /\ Agrees(T!Body(a[i].kind, a[i].input), f)
          /\ \A k \in DOMAIN a : k > i => a[k] \in Leaves(f.guid)
    BY DEF Saves
  <1> DEFINE t == a \o b
  <1>3. i \in DOMAIN t /\ t[i] = a[i]
    BY <1>1, Both
  <1>4. \A k \in DOMAIN t : k > i => t[k] \in Leaves(f.guid)
    BY <1>1, <1>2, Both
  <1> QED BY <1>2, <1>3, <1>4 DEF Saves

LEMMA SavesLast ==
  ASSUME NEW f, NEW a \in Seq(TaskStatements), NEW b \in Seq(TaskStatements), Saves(b, f)
  PROVE  Saves(a \o b, f)
  <1>1. PICK i \in DOMAIN b :
          /\ b[i].op = "save" /\ b[i].guid = f.guid /\ Agrees(T!Body(b[i].kind, b[i].input), f)
          /\ \A k \in DOMAIN b : k > i => b[k] \in Leaves(f.guid)
    BY DEF Saves
  <1> DEFINE t == a \o b
             n == Len(a) + i
  <1>2. n \in DOMAIN t /\ t[n] = b[i]
    BY Both
  <1>3. ASSUME NEW k \in DOMAIN t, k > n PROVE t[k] \in Leaves(f.guid)
    <2>1. k \in Nat /\ i \in Nat /\ Len(a) \in Nat
      BY Both
    <2> QED BY <2>1, <1>1, <1>3, Both
  <1> QED BY <1>1, <1>2, <1>3, Zenon DEF Saves

-----------------------------------------------------------------------------
(* The pieces of the services.                                             *)

\* Statements that write no record, and read none to patch it.
Plain(on) == {s \in Within(on) : s.op \notin {"save", "patch", "drop", "lookup", "read"}}

LEMMA KindNames == T!RecordKinds = {"task", "event", "project"} /\ NoRow \notin Names \cup T!RecordKinds \cup {"kept"}
  BY TaskAssumption DEF T!RequestsAreTyped, T!RecordKinds, T!Default

LEMMA WiderSeq == ASSUME NEW A, NEW B, A \subseteq B, NEW t \in Seq(A) PROVE t \in Seq(B)
  OBVIOUS

LEMMA PlainIs ==
  ASSUME NEW on, NEW t \in Seq(Plain(on))
  PROVE  /\ t \in Seq(TaskStatements) /\ t \in Seq(Within(on))
         /\ t \in Seq(NoPatch) /\ t \in Seq(NoLookup) /\ \A g : t \in Seq(Leaves(g))
  <1>1. /\ Plain(on) \subseteq TaskStatements /\ Plain(on) \subseteq Within(on)
        /\ Plain(on) \subseteq NoPatch /\ Plain(on) \subseteq NoLookup
        /\ \A g : Plain(on) \subseteq Leaves(g)
    BY DEF Plain, Within, NoPatch, NoLookup, Leaves
  <1>2. t \in Seq(TaskStatements) /\ t \in Seq(Within(on)) /\ t \in Seq(NoPatch) /\ t \in Seq(NoLookup)
    BY <1>1, WiderSeq
  <1>3. ASSUME NEW g PROVE t \in Seq(Leaves(g))
    BY <1>1, WiderSeq
  <1> QED BY <1>2, <1>3

LEMMA Finds ==
  ASSUME NEW g \in Names, NEW ks \in SUBSET T!RecordKinds, NEW on
  PROVE  T!Find(g, ks) \in Seq(Plain(on)) /\ \A x : T!Find(g, ks) \in Seq(Keeping(x))
  <1> DEFINE s == [op |-> "find", guid |-> g, kinds |-> ks]
  <1>1. s \in TaskStatements
    BY DEF TaskStatements
  <1>2. s \in Plain(on) /\ \A x : s \in Keeping(x)
    BY <1>1 DEF Plain, Within, Keeping
  <1> QED BY <1>2, OneStatement DEF T!Find

LEMMA Ensures ==
  ASSUME NEW p \in Names \cup {NoRow}, NEW on
  PROVE  T!EnsureProject(p) \in Seq(Plain(on)) /\ \A x : T!EnsureProject(p) \in Seq(Keeping(x))
  BY Finds, KindNames DEF T!EnsureProject

LEMMA SavesIts ==
  ASSUME NEW g \in Names, NEW kind \in T!RecordKinds, NEW input \in Givens, NEW on, g \in on
  PROVE  LET t == T!Save(g, kind, input)
         IN  /\ t \in Seq(Within(on) \cap NoPatch \cap NoLookup) /\ \A x : t \in Seq(Keeping(x))
             /\ \A f : f.guid = g /\ Agrees(T!Body(kind, input), f) => Saves(t, f)
  <1> DEFINE s == [op |-> "save", guid |-> g, kind |-> kind, input |-> input]
             t == <<s>>
  <1>1. s \in TaskStatements
    BY DEF TaskStatements
  <1>2. s \in Within(on) \cap NoPatch \cap NoLookup /\ \A x : s \in Keeping(x)
    BY <1>1 DEF Within, Keeping, NoPatch, NoLookup
  <1>3. t \in Seq(Within(on) \cap NoPatch \cap NoLookup) /\ \A x : t \in Seq(Keeping(x))
    BY <1>2, OneStatement
  <1>4. ASSUME NEW f, f.guid = g, Agrees(T!Body(kind, input), f) PROVE Saves(t, f)
    <2>1. DOMAIN t = {1} /\ t[1] = s
      OBVIOUS
    <2>2. \A k \in DOMAIN t : ~(k > 1)
      BY <2>1
    <2> QED BY <1>4, <2>1, <2>2 DEF Saves
  <1> QED BY <1>3, <1>4 DEF T!Save

\* The edges go, and those that are wanted come.
LEMMA UnlinksThenLinks ==
  ASSUME NEW x, NEW s \in TaskStatements, Clears(s, x), x.want = {}
  PROVE  Places(<<s>>, x)
  <1>1. DOMAIN <<s>> = {1} /\ <<s>>[1] = s
    OBVIOUS
  <1> QED BY <1>1 DEF Places, FillsAfter

LEMMA SyncsContains ==
  ASSUME NEW g \in Names, NEW p \in Names \cup {NoRow}, NEW on \in SUBSET Names,
         g \in on, p \in on \cup {NoRow}
  PROVE  LET t == T!SyncContains(g, p)
         IN  /\ t \in Seq(Plain(on)) /\ \A x : x.kind # "contains" => t \in Seq(Keeping(x))
             /\ \A f : f.guid = g /\ f.project = p => Places(t, Contained(f))
  <1> DEFINE u == [op |-> "unlink", col |-> 2, guid |-> g, kinds |-> {"contains"}]
             l == [op |-> "link", pairs |-> {<<p, g>>}, kind |-> "contains"]
  <1>1. "contains" \in T!Links
    BY DEF T!Links
  <1>2. u \in TaskStatements /\ (p # NoRow => l \in TaskStatements)
    BY <1>1 DEF TaskStatements
  <1>3. u \in Plain(on) /\ (p # NoRow => l \in Plain(on))
    BY <1>2 DEF Plain, Within
  <1>4. ASSUME NEW x, x.kind # "contains"
        PROVE  u \in Keeping(x) /\ (p # NoRow => l \in Keeping(x))
    BY <1>2, <1>4 DEF Keeping
  <1>5. ASSUME NEW f, f.guid = g, f.project = p PROVE Clears(u, Contained(f))
    BY <1>5 DEF Clears, Contained
  <1>6. CASE p = NoRow
    <2>1. T!SyncContains(g, p) = <<u>>
      BY <1>6 DEF T!SyncContains, T!Unlink
    <2>2. ASSUME NEW f, f.guid = g, f.project = p PROVE Places(<<u>>, Contained(f))
      <3>1. Contained(f).want = {}
        BY <1>6, <2>2 DEF Contained
      <3> QED BY <3>1, <1>2, <1>5, <2>2, UnlinksThenLinks, Zenon
    <2>3. ASSUME NEW x, x.kind # "contains" PROVE <<u>> \in Seq(Keeping(x))
      BY <2>3, <1>4, OneStatement, Zenon
    <2>4. <<u>> \in Seq(Plain(on))
      BY <1>3, OneStatement
    <2> QED BY <2>1, <2>2, <2>3, <2>4, Zenon
  <1>7. CASE p # NoRow
    <2>1. T!SyncContains(g, p) = <<u, l>>
      <3>1. T!SyncContains(g, p) = <<u>> \o <<l>>
        BY <1>7 DEF T!SyncContains, T!Unlink, T!Link
      <3> QED BY <3>1, TwoJoined, Zenon
    <2>2. ASSUME NEW f, f.guid = g, f.project = p PROVE Places(<<u, l>>, Contained(f))
      <3>1. Contained(f).want = {<<p, g, "contains">>}
        BY <1>7, <2>2 DEF Contained
      <3>2. Fills(l, Contained(f))
        BY <3>1, <2>2 DEF Fills, Contained
      <3>3. DOMAIN <<u, l>> = {1, 2} /\ <<u, l>>[1] = u /\ <<u, l>>[2] = l
        BY FewStatements
      <3>4. FillsAfter(<<u, l>>, 1, Contained(f))
        BY <3>2, <3>3 DEF FillsAfter
      <3> QED BY <3>3, <3>4, <1>5, <2>2 DEF Places
    <2>3. ASSUME NEW x, x.kind # "contains" PROVE <<u, l>> \in Seq(Keeping(x))
      BY <2>3, <1>4, <1>7, FewStatements
    <2>4. <<u, l>> \in Seq(Plain(on))
      BY <1>3, <1>7, FewStatements
    <2> QED BY <2>1, <2>2, <2>3, <2>4, Zenon
  <1> QED BY <1>6, <1>7

LEMMA SyncsRelations ==
  ASSUME NEW g \in Names, NEW kind \in T!Relate, NEW ts \in SUBSET Names, NEW on \in SUBSET Names,
         g \in on, ts \subseteq on
  PROVE  LET t == T!SyncRelations(g, kind, ts)
         IN  /\ t \in Seq(Plain(on)) /\ \A x : x.kind # kind => t \in Seq(Keeping(x))
             /\ \A f : f.guid = g /\ f.named[kind] = ts => Places(t, Listed(f, kind))
  <1> DEFINE u == [op |-> "unlink", col |-> 1, guid |-> g, kinds |-> {kind}]
             a == [op |-> "findAll", guids |-> ts]
             l == [op |-> "link", pairs |-> {g} \X ts, kind |-> kind]
  <1>1. kind \in T!Links
    BY DEF T!Links
  <1>2. u \in TaskStatements /\ a \in TaskStatements /\ l \in TaskStatements
    BY <1>1 DEF TaskStatements
  <1>3. u \in Plain(on) /\ a \in Plain(on) /\ l \in Plain(on)
    BY <1>2 DEF Plain, Within
  <1>4. ASSUME NEW x, x.kind # kind
        PROVE  u \in Keeping(x) /\ a \in Keeping(x) /\ l \in Keeping(x)
    BY <1>2, <1>4 DEF Keeping
  <1>5. ASSUME NEW f, f.guid = g, f.named[kind] = ts PROVE Clears(u, Listed(f, kind))
    BY <1>5 DEF Clears, Listed
  <1>6. CASE ts = {}
    <2>1. T!SyncRelations(g, kind, ts) = <<u>>
      BY <1>6 DEF T!SyncRelations, T!Unlink
    <2>2. ASSUME NEW f, f.guid = g, f.named[kind] = ts PROVE Places(<<u>>, Listed(f, kind))
      <3>1. Listed(f, kind).want = {}
        BY <1>6, <2>2 DEF Listed
      <3> QED BY <3>1, <1>2, <1>5, <2>2, UnlinksThenLinks, Zenon
    <2>3. ASSUME NEW x, x.kind # kind PROVE <<u>> \in Seq(Keeping(x))
      BY <2>3, <1>4, OneStatement, Zenon
    <2>4. <<u>> \in Seq(Plain(on))
      BY <1>3, OneStatement
    <2> QED BY <2>1, <2>2, <2>3, <2>4, Zenon
  <1>7. CASE ts # {}
    <2> DEFINE t == <<u, a, l>>
    <2>1. T!SyncRelations(g, kind, ts) = t
      <3>1. T!SyncRelations(g, kind, ts) = <<u>> \o (<<a>> \o <<l>>)
        BY <1>7 DEF T!SyncRelations, T!Unlink, T!Link
      <3> HIDE DEF u, a, l
      <3>2. <<a>> \o <<l>> = <<a, l>>
        BY TwoJoined
      <3>3. <<u>> \o <<a, l>> = <<u, a, l>>
        BY ThreeJoined
      <3> QED BY <3>1, <3>2, <3>3, Zenon
    <2>2. ASSUME NEW f, f.guid = g, f.named[kind] = ts PROVE Places(t, Listed(f, kind))
      <3>1. Fills(l, Listed(f, kind))
        <4>1. \A e \in {g} \X ts : <<e[1], e[2], kind>> = <<g, e[2], kind>> /\ e[2] \in ts
          OBVIOUS
        <4>2. \A y \in ts : <<g, y>> \in {g} \X ts /\ <<g, y>>[1] = g /\ <<g, y>>[2] = y
          OBVIOUS
        <4>3. {<<e[1], e[2], kind>> : e \in {g} \X ts} = {<<g, y, kind>> : y \in ts}
          <5>1. ASSUME NEW z \in {<<e[1], e[2], kind>> : e \in {g} \X ts}
                PROVE  z \in {<<g, y, kind>> : y \in ts}
            BY <4>1
          <5>2. ASSUME NEW y \in ts
                PROVE  <<g, y, kind>> \in {<<e[1], e[2], kind>> : e \in {g} \X ts}
            BY <4>2, Zenon
          <5> QED BY <5>1, <5>2
        <4> QED BY <4>3, <2>2 DEF Fills, Listed
      <3>2. DOMAIN t = {1, 2, 3} /\ t[1] = u /\ t[2] = a /\ t[3] = l
        BY FewStatements
      <3>3. a \in Keeping(Listed(f, kind))
        BY <1>2 DEF Keeping
      <3> HIDE DEF t, u, a, l
      <3>4. FillsAfter(t, 1, Listed(f, kind))
        BY <3>1, <3>2, <3>3 DEF FillsAfter
      <3> QED BY <3>2, <3>4, <1>5, <2>2 DEF Places
    <2>3. ASSUME NEW x, x.kind # kind PROVE t \in Seq(Keeping(x))
      BY <2>3, <1>4, FewStatements, Zenon
    <2>4. t \in Seq(Plain(on))
      BY <1>3, FewStatements
    <2> QED BY <2>1, <2>2, <2>3, <2>4, Zenon
  <1> QED BY <1>6, <1>7

LEMMA SyncsNamed ==
  ASSUME NEW g \in Names, NEW named \in T!Namings, NEW on \in SUBSET Names,
         g \in on, \A k \in DOMAIN named : named[k] \subseteq on
  PROVE  LET t == T!SyncNamed(g, named)
         IN  /\ t \in Seq(Plain(on)) /\ \A x : x.kind = "contains" => t \in Seq(Keeping(x))
             /\ \A f : f.guid = g /\ f.named = named
                         => \A k \in DOMAIN named : Places(t, Listed(f, k))
  <1> DEFINE a == IF "references" \notin DOMAIN named THEN <<>>
                  ELSE T!SyncRelations(g, "references", named["references"])
             b == IF "related_to" \notin DOMAIN named THEN <<>>
                  ELSE T!SyncRelations(g, "related_to", named["related_to"])
  <1>1. /\ DOMAIN named \subseteq {"references", "related_to"}
        /\ \A k \in DOMAIN named : named[k] \in SUBSET Names
    BY Zenon DEF T!Namings, T!Relate
  <1>2. T!Relate = {"references", "related_to"}
    BY DEF T!Relate
  <1>3. ASSUME NEW k \in T!Relate, k \in DOMAIN named
        PROVE  LET u == T!SyncRelations(g, k, named[k])
               IN  /\ u \in Seq(Plain(on)) /\ \A x : x.kind # k => u \in Seq(Keeping(x))
                   /\ \A f : f.guid = g /\ f.named[k] = named[k] => Places(u, Listed(f, k))
    BY <1>1, <1>3, SyncsRelations
  <1>4. /\ a \in Seq(Plain(on)) /\ b \in Seq(Plain(on))
        /\ \A x : x.kind # "references" => a \in Seq(Keeping(x))
        /\ \A x : x.kind # "related_to" => b \in Seq(Keeping(x))
    BY <1>2, <1>3
  <1>5. ASSUME NEW f, f.guid = g, f.named = named
        PROVE  /\ "references" \in DOMAIN named => Places(a, Listed(f, "references"))
               /\ "related_to" \in DOMAIN named => Places(b, Listed(f, "related_to"))
    BY <1>2, <1>3, <1>5
  <1>6. T!SyncNamed(g, named) = a \o b
    BY DEF T!SyncNamed
  <1> HIDE DEF a, b
  <1>7. a \in Seq(TaskStatements) /\ b \in Seq(TaskStatements) /\ a \o b \in Seq(Plain(on))
    BY <1>4, PlainIs, InTurn
  <1>8. ASSUME NEW x, x.kind = "contains" PROVE a \o b \in Seq(Keeping(x))
    BY <1>4, <1>8, InTurn
  <1>9. ASSUME NEW f, f.guid = g, f.named = named, NEW k \in DOMAIN named
        PROVE  Places(a \o b, Listed(f, k))
    <2>1. CASE k = "references"
      <3>1. b \in Seq(Keeping(Listed(f, k)))
        BY <2>1, <1>4 DEF Listed
      <3> QED BY <3>1, <2>1, <1>5, <1>7, <1>9, PlacesFirst
    <2>2. CASE k = "related_to"
      BY <2>2, <1>5, <1>7, <1>9, PlacesLast
    <2> QED BY <2>1, <2>2, <1>1
  <1> QED BY <1>6, <1>7, <1>8, <1>9

\* The script of a request writes only records that the call touches, patches what
\* it has read, and leaves the record that it files as it says.
SoundScript(script) ==
    /\ script.todo \in Seq(Within(script.on)) /\ script.todo # <<>> /\ script.on \subseteq Names
    /\ script.files \in SaysOf \cup {NoRow}
    /\ script.todo \in Seq(NoPatch) \/ script.todo[1].op = "read"
    /\ script.todo \in Seq(NoLookup) \/ (LooksUp(script.todo) /\ script.files = NoRow)
    /\ script.files # NoRow =>
         /\ SaysWithin(script.files, script.on)
         /\ \A x \in Slots(script.files) : Places(script.todo, x)
         /\ Saves(script.todo, script.files) \/ Rereads(script.todo, script.files)

LEMMA CreatedSays ==
  ASSUME NEW g \in Names, NEW kind \in T!RecordKinds, NEW p \in Names \cup {NoRow, "kept"},
         NEW named \in T!Namings, NEW input \in Givens
  PROVE  LET f == T!SaysCreated(g, kind, p, named, input)
         IN  f \in SaysOf /\ Agrees(T!Body(kind, input), f)
  <1> DEFINE status == IF input.status = "kept" THEN T!Default[kind] ELSE input.status
             due    == T!NormalDate(input.due)
  <1>1. status \in Texts /\ status # "kept"
    <2>1. T!Default[kind] \in {"todo", "scheduled", "active"}
      BY KindNames DEF T!Default
    <2>2. input.status \in Texts
      BY DEF Givens, Texts
    <2>3. T!Default[kind] \in Texts /\ T!Default[kind] # "kept"
      BY <2>1 DEF Texts
    <2> QED BY <2>2, <2>3
  <1>2. due \in Texts \cup {NoRow} /\ due # "kept"
    BY KindNames DEF Givens, Texts, T!NormalDate
  <1>3. T!SaysCreated(g, kind, p, named, input) =
          [guid |-> g, project |-> p, named |-> named, status |-> status, due |-> due]
    BY DEF T!SaysCreated, T!Says
  <1>4. T!Body(kind, input) = [column |-> T!Column(status), status |-> status, due |-> due]
    BY DEF T!Body
  <1> HIDE DEF status, due
  <1> QED BY <1>1, <1>2, <1>3, <1>4 DEF SaysOf, Agrees

LEMMA CreatesFiled ==
  ASSUME NEW g \in Names, NEW kind \in T!RecordKinds, NEW p \in Names \cup {NoRow},
         NEW named \in T!Namings, NEW input \in Givens, NEW on \in SUBSET Names,
         g \in on, p \in on \cup {NoRow}, \A k \in DOMAIN named : named[k] \subseteq on
  PROVE  LET t == T!CreateRecord(g, kind, p, named, input)
             f == T!SaysCreated(g, kind, p, named, input)
         IN  /\ t \in Seq(Within(on) \cap NoPatch \cap NoLookup) /\ t # <<>>
             /\ f \in SaysOf /\ SaysWithin(f, on)
             /\ \A x \in Slots(f) : Places(t, x)
             /\ Saves(t, f)
  <1> DEFINE e == T!EnsureProject(p)
             s == T!Save(g, kind, input)
             l == T!SyncContains(g, p)
             n == T!SyncNamed(g, named)
             q == T!Find(g, {kind})
             f == T!SaysCreated(g, kind, p, named, input)
             U == Within(on) \cap NoPatch \cap NoLookup
  <1>1. /\ e \in Seq(Plain(on)) /\ l \in Seq(Plain(on)) /\ n \in Seq(Plain(on)) /\ q \in Seq(Plain(on))
        /\ s \in Seq(U)
    BY Ensures, SyncsContains, SyncsNamed, Finds, SavesIts, Zenon
  <1>2. Plain(on) \subseteq U /\ U \subseteq TaskStatements
    BY DEF Plain, Within, NoPatch, NoLookup
  <1>3. /\ e \in Seq(U) /\ l \in Seq(U) /\ n \in Seq(U) /\ q \in Seq(U)
        /\ e \in Seq(TaskStatements) /\ s \in Seq(TaskStatements) /\ l \in Seq(TaskStatements)
        /\ n \in Seq(TaskStatements) /\ q \in Seq(TaskStatements)
    BY <1>1, <1>2, WiderSeq
  <1>4. f \in SaysOf /\ Agrees(T!Body(kind, input), f)
    BY CreatedSays, Zenon
  <1>5. f.guid = g /\ f.project = p /\ f.named = named
    BY DEF T!SaysCreated, T!Says
  <1>6. SaysWithin(f, on)
    BY <1>5 DEF SaysWithin
  <1>7. T!CreateRecord(g, kind, p, named, input) = (((e \o s) \o l) \o n) \o q
    BY DEF T!CreateRecord
  <1>8. Saves(s, f) /\ Places(l, Contained(f)) /\ \A k \in DOMAIN named : Places(n, Listed(f, k))
    BY <1>4, <1>5, SavesIts, SyncsContains, SyncsNamed, Zenon
  <1>9. \A x : q \in Seq(Keeping(x)) /\ (x.kind = "contains" => n \in Seq(Keeping(x)))
    BY Finds, SyncsNamed
  <1> HIDE DEF e, s, l, n, q, f, U
  <1>10. (((e \o s) \o l) \o n) \o q \in Seq(U)
    BY <1>1, <1>3, InTurn
  <1>11. /\ e \o s \in Seq(TaskStatements) /\ (e \o s) \o l \in Seq(TaskStatements)
         /\ ((e \o s) \o l) \o n \in Seq(TaskStatements)
    BY <1>3, InTurn
  <1>12. Saves((((e \o s) \o l) \o n) \o q, f)
    <2>1. l \in Seq(Leaves(f.guid)) /\ n \in Seq(Leaves(f.guid)) /\ q \in Seq(Leaves(f.guid))
      BY <1>1, PlainIs
    <2>2. Saves(e \o s, f)
      BY <1>3, <1>8, SavesLast
    <2>3. Saves((e \o s) \o l, f)
      BY <2>1, <2>2, <1>11, SavesFirst, Zenon
    <2>4. Saves(((e \o s) \o l) \o n, f)
      BY <2>1, <2>3, <1>11, SavesFirst, Zenon
    <2> QED BY <2>1, <2>4, <1>11, SavesFirst, Zenon
  <1>13. Places((((e \o s) \o l) \o n) \o q, Contained(f))
    <2>1. Contained(f).kind = "contains"
      BY DEF Contained
    <2>2. Places((e \o s) \o l, Contained(f))
      BY <1>3, <1>8, <1>11, PlacesLast, Zenon
    <2>3. Places(((e \o s) \o l) \o n, Contained(f))
      BY <2>1, <2>2, <1>9, <1>11, PlacesFirst, Zenon
    <2> QED BY <2>3, <1>9, <1>11, PlacesFirst, Zenon
  <1>14. ASSUME NEW k \in DOMAIN named
         PROVE  Places((((e \o s) \o l) \o n) \o q, Listed(f, k))
    <2>1. Places(((e \o s) \o l) \o n, Listed(f, k))
      BY <1>3, <1>8, <1>11, PlacesLast, Zenon
    <2> QED BY <2>1, <1>9, <1>11, PlacesFirst, Zenon
  <1>15. \A x \in Slots(f) : Places((((e \o s) \o l) \o n) \o q, x)
    BY <1>5, <1>13, <1>14 DEF Slots
  <1>16. (((e \o s) \o l) \o n) \o q # <<>>
    BY <1>12, <1>11 DEF Saves
  <1> QED BY <1>4, <1>6, <1>7, <1>10, <1>12, <1>15, <1>16 DEF f, U

LEMMA EmptyNaming == <<>> \in T!Namings /\ DOMAIN <<>> = {} /\ T!Kept \in Givens
  <1>1. <<>> \in [{} -> SUBSET Names] /\ DOMAIN <<>> = {}
    OBVIOUS
  <1>2. {} \in SUBSET T!Relate
    OBVIOUS
  <1>3. <<>> \in T!Namings
    BY <1>1, <1>2, Zenon DEF T!Namings
  <1>4. T!Kept \in Givens
    BY DEF T!Kept, Givens, Texts
  <1> QED BY <1>1, <1>3, <1>4

LEMMA CreatesProject ==
  ASSUME NEW g \in Names, NEW on \in SUBSET Names, g \in on
  PROVE  LET t == T!CreateProject(g)
             f == T!SaysCreated(g, "project", "kept", <<>>, T!Kept)
         IN  /\ t \in Seq(Within(on) \cap NoPatch \cap NoLookup) /\ t # <<>>
             /\ f \in SaysOf /\ SaysWithin(f, on) /\ Slots(f) = {} /\ Saves(t, f)
  <1> DEFINE s == T!Save(g, "project", T!Kept)
             q == T!Find(g, {"project"})
             f == T!SaysCreated(g, "project", "kept", <<>>, T!Kept)
             U == Within(on) \cap NoPatch \cap NoLookup
  <1>1. "project" \in T!RecordKinds
    BY KindNames
  <1>2. s \in Seq(U) /\ q \in Seq(Plain(on))
    BY <1>1, EmptyNaming, SavesIts, Finds, Zenon
  <1>3. Plain(on) \subseteq U /\ U \subseteq TaskStatements
    BY DEF Plain, Within, NoPatch, NoLookup
  <1>4. q \in Seq(U) /\ s \in Seq(TaskStatements) /\ q \in Seq(TaskStatements)
    BY <1>2, <1>3, WiderSeq
  <1>5. f \in SaysOf /\ Agrees(T!Body("project", T!Kept), f)
    BY <1>1, EmptyNaming, CreatedSays
  <1>6. f.guid = g /\ f.project = "kept" /\ f.named = <<>>
    BY DEF T!SaysCreated, T!Says
  <1>7. SaysWithin(f, on) /\ Slots(f) = {}
    BY <1>6, EmptyNaming DEF SaysWithin, Slots
  <1>8. Saves(s, f)
    BY <1>1, <1>5, <1>6, EmptyNaming, SavesIts, Zenon
  <1>9. T!CreateProject(g) = s \o q
    BY DEF T!CreateProject
  <1> HIDE DEF s, q, f, U
  <1>10. s \o q \in Seq(U) /\ s \o q \in Seq(TaskStatements)
    BY <1>2, <1>4, InTurn
  <1>11. q \in Seq(Leaves(f.guid))
    BY <1>2, PlainIs
  <1>12. Saves(s \o q, f)
    BY <1>4, <1>8, <1>11, SavesFirst
  <1>13. s \o q # <<>>
    BY <1>10, <1>12 DEF Saves
  <1> QED BY <1>5, <1>7, <1>9, <1>10, <1>12, <1>13 DEF f, U

LEMMA CreatesBoth ==
  ASSUME NEW p \in Names, NEW g \in Names, NEW on \in SUBSET Names, p \in on, g \in on
  PROVE  LET t == T!ProjectWithTask(p, g)
             f == T!SaysCreated(g, "task", p, <<>>, T!Kept)
         IN  /\ t \in Seq(Within(on) \cap NoPatch \cap NoLookup) /\ t # <<>>
             /\ f \in SaysOf /\ SaysWithin(f, on)
             /\ \A x \in Slots(f) : Places(t, x)
             /\ Saves(t, f)
  <1> DEFINE a == T!CreateProject(p)
             b == T!CreateRecord(g, "task", p, <<>>, T!Kept)
             f == T!SaysCreated(g, "task", p, <<>>, T!Kept)
             U == Within(on) \cap NoPatch \cap NoLookup
  <1>1. a \in Seq(U)
    BY CreatesProject
  <1>2. /\ b \in Seq(U) /\ f \in SaysOf /\ SaysWithin(f, on)
        /\ \A x \in Slots(f) : Places(b, x)
        /\ Saves(b, f)
    BY KindNames, EmptyNaming, CreatesFiled, Zenon
  <1>3. U \subseteq TaskStatements
    BY DEF Within
  <1>4. T!ProjectWithTask(p, g) = a \o b
    BY DEF T!ProjectWithTask
  <1> HIDE DEF a, b, f, U
  <1>5. a \in Seq(TaskStatements) /\ b \in Seq(TaskStatements) /\ a \o b \in Seq(U)
    BY <1>1, <1>2, <1>3, WiderSeq, InTurn
  <1>6. Saves(a \o b, f) /\ \A x \in Slots(f) : Places(a \o b, x)
    BY <1>2, <1>5, SavesLast, PlacesLast
  <1>7. a \o b # <<>>
    BY <1>5, <1>6, InTurn DEF Saves
  <1> QED BY <1>2, <1>4, <1>5, <1>6, <1>7 DEF f, U

LEMMA UpdatesFiled ==
  ASSUME NEW g \in Names, NEW kind \in T!RecordKinds, NEW p \in Names \cup {NoRow, "kept"},
         NEW named \in T!Namings, NEW input \in Givens, NEW on \in SUBSET Names,
         g \in on, p \in on \cup {NoRow, "kept"}, \A k \in DOMAIN named : named[k] \subseteq on
  PROVE  LET t == T!UpdateRecord(g, kind, p, named, input)
             f == T!SaysUpdated(g, p, named, input)
         IN  /\ t \in Seq(Within(on) \cap NoLookup) /\ t # <<>> /\ t[1].op = "read"
             /\ f \in SaysOf /\ SaysWithin(f, on)
             /\ \A x \in Slots(f) : Places(t, x)
             /\ Rereads(t, f)
  <1> DEFINE r == [op |-> "read", guid |-> g, kinds |-> {kind}]
             w == [op |-> "patch", guid |-> g, kind |-> kind, input |-> input]
             h == <<r, w>>
             l == IF p = "kept" THEN <<>> ELSE T!EnsureProject(p) \o T!SyncContains(g, p)
             n == T!SyncNamed(g, named)
             q == T!Find(g, {kind})
             f == T!SaysUpdated(g, p, named, input)
             U == Within(on) \cap NoLookup
  <1>1. r \in TaskStatements /\ w \in TaskStatements
    BY DEF TaskStatements
  <1>2. r \in U /\ w \in U /\ \A x : r \in Keeping(x) /\ w \in Keeping(x)
    BY <1>1 DEF Within, NoLookup, Keeping
  <1>3. h \in Seq(U)
    BY <1>2, FewStatements
  <1>4. n \in Seq(Plain(on)) /\ q \in Seq(Plain(on))
    BY SyncsNamed, Finds
  <1>5. l \in Seq(Plain(on))
    BY Ensures, SyncsContains, InTurn, KindNames
  <1>6. p # "kept" => \A v : v.guid = g /\ v.project = p => Places(l, Contained(v))
    <2> SUFFICES ASSUME p # "kept", NEW v, v.guid = g, v.project = p PROVE Places(l, Contained(v))
      OBVIOUS
    <2>1. T!EnsureProject(p) \in Seq(TaskStatements) /\ T!SyncContains(g, p) \in Seq(TaskStatements)
      BY Ensures, SyncsContains, PlainIs
    <2>2. Places(T!SyncContains(g, p), Contained(v))
      BY SyncsContains
    <2> QED BY <2>1, <2>2, PlacesLast
  <1>7. Plain(on) \subseteq U /\ U \subseteq TaskStatements
    BY DEF Plain, Within, NoLookup
  <1>8. /\ l \in Seq(U) /\ n \in Seq(U) /\ q \in Seq(U)
        /\ h \in Seq(TaskStatements) /\ l \in Seq(TaskStatements)
        /\ n \in Seq(TaskStatements) /\ q \in Seq(TaskStatements)
    BY <1>3, <1>4, <1>5, <1>7, WiderSeq
  <1>9. f = [guid |-> g, project |-> p, named |-> named, status |-> input.status,
             due |-> IF input.due = "kept" THEN "kept" ELSE T!NormalDate(input.due)]
    BY DEF T!SaysUpdated, T!Says
  <1>10. f \in SaysOf /\ SaysWithin(f, on)
    <2>1. input.status \in Texts /\ input.due \in Texts \cup {NoRow}
      BY DEF Givens, Texts
    <2>2. (IF input.due = "kept" THEN "kept" ELSE T!NormalDate(input.due)) \in Texts \cup {NoRow}
      BY <2>1 DEF T!NormalDate
    <2> QED BY <1>9, <2>1, <2>2 DEF SaysOf, SaysWithin
  <1>11. Patches(w, f)
    BY <1>9 DEF Patches
  <1>12. T!UpdateRecord(g, kind, p, named, input) = ((h \o l) \o n) \o q
    BY DEF T!UpdateRecord
  <1>13. \A x : q \in Seq(Keeping(x)) /\ (x.kind = "contains" => n \in Seq(Keeping(x)))
    BY Finds, SyncsNamed
  <1>14. \A k \in DOMAIN named : Places(n, Listed(f, k))
    BY <1>9, SyncsNamed
  <1> DEFINE t == ((h \o l) \o n) \o q
  <1>16. f.guid = g /\ f.project = p /\ f.named = named /\ r.op = "read" /\ r.guid = g
         /\ r.kinds = {w.kind}
    BY <1>9
  <1> HIDE DEF r, w, h, l, n, q, f, U, t
  <1>17. /\ t \in Seq(U) /\ h \o l \in Seq(TaskStatements)
         /\ (h \o l) \o n \in Seq(TaskStatements)
    BY <1>3, <1>8, InTurn DEF t
  <1>18. Contained(f).kind = "contains"
    BY DEF Contained
  <1>19. f.project # "kept" => Places(t, Contained(f))
    <2> SUFFICES ASSUME f.project # "kept" PROVE Places(t, Contained(f))
      OBVIOUS
    <2>1. Places(h \o l, Contained(f))
      BY <1>6, <1>8, <1>16, PlacesLast
    <2>2. Places((h \o l) \o n, Contained(f))
      BY <2>1, <1>13, <1>17, <1>18, PlacesFirst, Zenon
    <2> QED BY <2>2, <1>13, <1>17, PlacesFirst, Zenon DEF t
  <1>20. ASSUME NEW k \in DOMAIN named PROVE Places(t, Listed(f, k))
    <2>1. Places((h \o l) \o n, Listed(f, k))
      BY <1>8, <1>14, <1>17, PlacesLast, Zenon
    <2> QED BY <2>1, <1>13, <1>17, PlacesFirst, Zenon DEF t
  <1>21. \A x \in Slots(f) : Places(t, x)
    BY <1>16, <1>19, <1>20 DEF Slots
  <1>22. l \in Seq(Leaves(g)) /\ n \in Seq(Leaves(g)) /\ q \in Seq(Leaves(g))
    BY <1>4, <1>5, PlainIs
  <1>23. /\ 2 \in DOMAIN h /\ h[1] = r /\ h[2] = w
         /\ \A k \in DOMAIN h : k > 2 => h[k] \in Leaves(g)
    BY FewStatements DEF h
  <1>24. /\ 2 \in DOMAIN t /\ t[1] = r /\ t[2] = w
         /\ \A k \in DOMAIN t : k > 2 => t[k] \in Leaves(g)
    <2>1. /\ 2 \in DOMAIN (h \o l) /\ (h \o l)[1] = r /\ (h \o l)[2] = w
          /\ \A k \in DOMAIN (h \o l) : k > 2 => (h \o l)[k] \in Leaves(g)
      BY <1>8, <1>22, <1>23, OpensWith
    <2>2. /\ 2 \in DOMAIN ((h \o l) \o n) /\ ((h \o l) \o n)[1] = r /\ ((h \o l) \o n)[2] = w
          /\ \A k \in DOMAIN ((h \o l) \o n) : k > 2 => ((h \o l) \o n)[k] \in Leaves(g)
      BY <2>1, <1>8, <1>17, <1>22, OpensWith
    <2> QED BY <2>2, <1>8, <1>17, <1>22, OpensWith DEF t
  <1>25. Rereads(t, f)
    BY <1>11, <1>16, <1>24 DEF Rereads
  <1>26. t # <<>>
    BY <1>24
  <1> QED BY <1>10, <1>12, <1>16, <1>17, <1>21, <1>24, <1>25, <1>26 DEF f, U, t

\* The calls that file no record.
LEMMA FilesNone ==
  ASSUME NEW t \in Seq(TaskStatements), NEW on \in SUBSET Names, t # <<>>,
         t \in Seq(Within(on)), t \in Seq(NoPatch), t \in Seq(NoLookup) \/ LooksUp(t)
  PROVE  SoundScript(T!Script(t, on, NoRow))
  BY DEF SoundScript, T!Script

LEMMA DeletesSound ==
  ASSUME NEW g \in Names, NEW kind \in T!RecordKinds
  PROVE  SoundScript(T!Script(T!DeleteRecord(g, kind), {g}, NoRow))
  <1> DEFINE r == [op |-> "find", guid |-> g, kinds |-> {kind}]
             a == [op |-> "unlink", col |-> 1, guid |-> g, kinds |-> T!Links]
             b == [op |-> "unlink", col |-> 2, guid |-> g, kinds |-> T!Links]
             d == [op |-> "drop", guid |-> g, kind |-> kind]
             U == Within({g}) \cap NoPatch \cap NoLookup
             t == ((<<r>> \o <<a>>) \o <<b>>) \o <<d>>
  <1>1. T!DeleteRecord(g, kind) = t
    BY DEF T!DeleteRecord, T!Find, T!Unlink, T!Drop
  <1>2. r \in TaskStatements /\ a \in TaskStatements /\ b \in TaskStatements /\ d \in TaskStatements
    BY DEF TaskStatements
  <1>3. r \in U /\ a \in U /\ b \in U /\ d \in U
    BY <1>2 DEF Within, NoPatch, NoLookup
  <1>4. U \subseteq TaskStatements /\ U \subseteq Within({g}) /\ U \subseteq NoPatch /\ U \subseteq NoLookup
    BY DEF Within
  <1> HIDE DEF r, a, b, d, U
  <1>5. t \in Seq(U)
    BY <1>3, OneStatement, InTurn
  <1>6. t # <<>>
    OBVIOUS
  <1> HIDE DEF t
  <1>7. t \in Seq(TaskStatements) /\ t \in Seq(Within({g})) /\ t \in Seq(NoPatch) /\ t \in Seq(NoLookup)
    BY <1>4, <1>5, WiderSeq, Zenon
  <1> QED BY <1>1, <1>6, <1>7, FilesNone

LEMMA ListsSound ==
  ASSUME NEW p \in Names, NEW kind \in T!RecordKinds
  PROVE  SoundScript(T!Script(T!ListMembers(p, kind), {p}, NoRow))
  <1> DEFINE a == [op |-> "count"]
             b == [op |-> "page", kind |-> kind]
             e == T!EnsureProject(p)
             t == e \o <<a, b>>
  <1>1. T!ListMembers(p, kind) = t
    BY DEF T!ListMembers
  <1>2. a \in TaskStatements /\ b \in TaskStatements
    BY DEF TaskStatements
  <1>3. a \in Plain({p}) /\ b \in Plain({p}) /\ e \in Seq(Plain({p}))
    BY <1>2, Ensures, Zenon DEF Plain, Within
  <1> HIDE DEF a, b, e
  <1>4. <<a, b>> \in Seq(Plain({p})) /\ t \in Seq(Plain({p}))
    BY <1>3, FewStatements, InTurn
  <1>5. t # <<>>
    <2>1. \A u \in Seq(Plain({p})) : u \o <<a, b>> # <<>>
      BY <1>4
    <2> QED BY <1>3, <2>1
  <1> HIDE DEF t
  <1> QED BY <1>1, <1>4, <1>5, PlainIs, FilesNone

LEMMA RefsSound ==
  ASSUME NEW r \in TaskRefs, NEW type \in STRING, NEW to \in Names, NEW ext \in STRING
  PROVE  /\ SoundScript(T!Script(T!CreateRef(r, type, to, ext), {to}, NoRow))
         /\ SoundScript(T!Script(T!UpdateRef(r, type, to, ext), {to}, NoRow))
  <1> DEFINE f == [op |-> "find", guid |-> to, kinds |-> T!TargetKinds(type)]
             l == [op |-> "lookup", ext |-> ext]
             s == [op |-> "saveRef", ref |-> r, to |-> to, ext |-> ext]
             k == [op |-> "findRef", ref |-> r]
             u == [op |-> "patchRef", ref |-> r, to |-> to, ext |-> ext]
  <1>1. T!TargetKinds(type) \subseteq T!RecordKinds
    BY KindNames DEF T!TargetKinds
  <1>2. /\ f \in TaskStatements /\ l \in TaskStatements /\ s \in TaskStatements
        /\ k \in TaskStatements /\ u \in TaskStatements
    BY <1>1 DEF TaskStatements
  <1>3. \A v \in {f, l, s, k, u} : v \in NoPatch /\ \A on : v \in Within(on)
    BY <1>2 DEF Within, NoPatch
  <1>4. k \in NoLookup /\ f \in NoLookup /\ u \in NoLookup
    BY <1>2 DEF NoLookup
  <1>5. f.op = "find" /\ l.op = "lookup" /\ s.op = "saveRef"
    OBVIOUS
  <1>6. /\ T!CreateRef(r, type, to, ext) = (<<f>> \o <<l>>) \o <<s>>
        /\ T!UpdateRef(r, type, to, ext) = (<<k>> \o <<f>>) \o <<u>>
    BY DEF T!CreateRef, T!UpdateRef, T!Find
  <1> HIDE DEF f, l, s, k, u
  <1>7. /\ (<<f>> \o <<l>>) \o <<s>> = <<f, l, s>>
        /\ (<<k>> \o <<f>>) \o <<u>> = <<k, f, u>>
    BY PairJoined
  <1>8. SoundScript(T!Script(<<f, l, s>>, {to}, NoRow))
    <2>1. LooksUp(<<f, l, s>>)
      BY <1>5 DEF LooksUp
    <2>2. <<f, l, s>> \in Seq(TaskStatements)
      BY <1>2, FewStatements
    <2>3. <<f, l, s>> \in Seq(Within({to})) /\ <<f, l, s>> \in Seq(NoPatch)
      BY <1>3, FewStatements
    <2>4. <<f, l, s>> # <<>>
      OBVIOUS
    <2> QED BY <2>1, <2>2, <2>3, <2>4, FilesNone, Zenon
  <1>9. SoundScript(T!Script(<<k, f, u>>, {to}, NoRow))
    <2>1. <<k, f, u>> \in Seq(TaskStatements)
      BY <1>2, FewStatements
    <2>2. <<k, f, u>> \in Seq(Within({to})) /\ <<k, f, u>> \in Seq(NoPatch)
      BY <1>3, FewStatements
    <2>3. <<k, f, u>> \in Seq(NoLookup)
      BY <1>4, FewStatements
    <2>4. <<k, f, u>> # <<>>
      OBVIOUS
    <2> QED BY <2>1, <2>2, <2>3, <2>4, FilesNone, Zenon
  <1> QED BY <1>6, <1>7, <1>8, <1>9, Zenon

LEMMA DropsSound ==
  ASSUME NEW r \in TaskRefs PROVE SoundScript(T!Script(T!DeleteRef(r), {}, NoRow))
  <1> DEFINE k == [op |-> "findRef", ref |-> r]
             d == [op |-> "dropRef", ref |-> r]
  <1>1. k \in TaskStatements /\ d \in TaskStatements
    BY DEF TaskStatements
  <1>2. \A v \in {k, d} : v \in NoPatch /\ v \in NoLookup /\ v \in Within({})
    BY <1>1 DEF Within, NoPatch, NoLookup
  <1>3. T!DeleteRef(r) = <<k, d>>
    BY DEF T!DeleteRef
  <1> HIDE DEF k, d
  <1>4. <<k, d>> \in Seq(TaskStatements) /\ <<k, d>> # <<>>
    BY <1>1, FewStatements
  <1>5. <<k, d>> \in Seq(Within({})) /\ <<k, d>> \in Seq(NoPatch) /\ <<k, d>> \in Seq(NoLookup)
    BY <1>2, FewStatements
  <1> QED BY <1>3, <1>4, <1>5, FilesNone, Zenon

LEMMA SyncsSound ==
  ASSUME NEW s \in Syncs
  PROVE  /\ SoundScript(T!Script(T!DeleteSync(s), {}, NoRow))
         /\ \A r \in TaskRefs : /\ SoundScript(T!Script(T!CreateSync(s, r), {}, NoRow))
                                /\ SoundScript(T!Script(T!UpdateSync(s, r), {}, NoRow))
  <1>1. SoundScript(T!Script(T!DeleteSync(s), {}, NoRow))
    <2> DEFINE d == [op |-> "dropSync", sync |-> s]
    <2>1. d \in TaskStatements
      BY DEF TaskStatements
    <2>2. d \in Within({}) /\ d \in NoPatch /\ d \in NoLookup
      BY <2>1 DEF Within, NoPatch, NoLookup
    <2>3. T!DeleteSync(s) = <<d>>
      BY DEF T!DeleteSync
    <2> HIDE DEF d
    <2>4. <<d>> \in Seq(TaskStatements) /\ <<d>> # <<>>
      BY <2>1
    <2>5. <<d>> \in Seq(Within({})) /\ <<d>> \in Seq(NoPatch) /\ <<d>> \in Seq(NoLookup)
      BY <2>2, OneStatement
    <2> QED BY <2>3, <2>4, <2>5, FilesNone, Zenon
  <1>2. ASSUME NEW r \in TaskRefs
        PROVE  /\ SoundScript(T!Script(T!CreateSync(s, r), {}, NoRow))
               /\ SoundScript(T!Script(T!UpdateSync(s, r), {}, NoRow))
    <2> DEFINE k == [op |-> "findRef", ref |-> r]
               a == [op |-> "saveSync", sync |-> s, ref |-> r]
               f == [op |-> "findSync", sync |-> s]
               b == [op |-> "patchSync", sync |-> s, ref |-> r]
    <2>1. k \in TaskStatements /\ a \in TaskStatements /\ f \in TaskStatements /\ b \in TaskStatements
      BY DEF TaskStatements
    <2>2. \A v \in {k, a, f, b} : v \in NoPatch /\ v \in NoLookup /\ v \in Within({})
      BY <2>1 DEF Within, NoPatch, NoLookup
    <2>3. T!CreateSync(s, r) = <<k, a>> /\ T!UpdateSync(s, r) = <<f, k, b>>
      BY DEF T!CreateSync, T!UpdateSync
    <2> HIDE DEF k, a, f, b
    <2>4. <<k, a>> \in Seq(TaskStatements) /\ <<f, k, b>> \in Seq(TaskStatements)
      BY <2>1, FewStatements
    <2>5. /\ <<k, a>> \in Seq(Within({})) /\ <<k, a>> \in Seq(NoPatch) /\ <<k, a>> \in Seq(NoLookup)
          /\ <<f, k, b>> \in Seq(Within({})) /\ <<f, k, b>> \in Seq(NoPatch)
          /\ <<f, k, b>> \in Seq(NoLookup)
      BY <2>2, FewStatements
    <2>6. <<k, a>> # <<>> /\ <<f, k, b>> # <<>>
      OBVIOUS
    <2> QED BY <2>3, <2>4, <2>5, <2>6, FilesNone, Zenon
  <1> QED BY <1>1, <1>2

LEMMA FilesOne ==
  ASSUME NEW t, NEW on \in SUBSET Names, NEW f \in SaysOf, t # <<>>, t \in Seq(Within(on)),
         t \in Seq(NoPatch) \/ t[1].op = "read", t \in Seq(NoLookup), SaysWithin(f, on),
         \A x \in Slots(f) : Places(t, x), Saves(t, f) \/ Rereads(t, f)
  PROVE  SoundScript(T!Script(t, on, f))
  BY DEF SoundScript, T!Script

\* The script of every request is sound.
LEMMA AskedSound == ASSUME NEW q \in T!RequestType PROVE SoundScript(T!Asked(q))
  <1>1. T!Contents \subseteq Givens
    BY DEF T!Contents, Givens, Texts
  <1>2. ASSUME NEW U, NEW A, NEW B, NEW C, NEW t \in Seq(U), U \subseteq A \cap B \cap C
        PROVE  t \in Seq(A) /\ t \in Seq(B) /\ t \in Seq(C)
    BY <1>2, WiderSeq
  <1>3. ASSUME NEW g \in Names, NEW p \in Names \cup {NoRow, "kept"}, NEW named \in T!Namings
        PROVE  LET on == T!Touches(g, p, named)
               IN  /\ on \in SUBSET Names /\ g \in on /\ p \in on \cup {NoRow, "kept"}
                   /\ \A k \in DOMAIN named : named[k] \subseteq on
    <2>1. \A k \in DOMAIN named : named[k] \subseteq Names
      BY DEF T!Namings
    <2>2. g \notin {NoRow, "kept"}
      BY TaskAssumption DEF T!RequestsAreTyped
    <2> QED BY <2>1, <2>2 DEF T!Touches
  <1>4. CASE q.op = "create"
    <2> DEFINE on == T!Touches(q.guid, q.project, q.named)
               t  == T!CreateRecord(q.guid, q.kind, q.project, q.named, q.input)
               f  == T!SaysCreated(q.guid, q.kind, q.project, q.named, q.input)
    <2>1. /\ q.guid \in Names /\ q.kind \in T!RecordKinds /\ q.project \in Names \cup {NoRow}
          /\ q.named \in T!Namings /\ q.input \in Givens
      BY <1>1, <1>4, KindNames DEF T!RequestType
    <2>2. /\ on \in SUBSET Names /\ q.guid \in on /\ q.project \in on \cup {NoRow}
          /\ \A k \in DOMAIN q.named : q.named[k] \subseteq on
      BY <1>3, <2>1, KindNames, TaskAssumption DEF T!RequestsAreTyped
    <2>3. T!Asked(q) = T!Script(t, on, f)
      BY <1>4 DEF T!Asked
    <2>4. /\ t \in Seq(Within(on) \cap NoPatch \cap NoLookup) /\ t # <<>>
          /\ f \in SaysOf /\ SaysWithin(f, on)
          /\ \A x \in Slots(f) : Places(t, x)
          /\ Saves(t, f)
      BY <2>1, <2>2, CreatesFiled, Zenon
    <2> HIDE DEF on, t, f
    <2> QED BY <1>2, <2>2, <2>3, <2>4, FilesOne, Zenon
  <1>5. CASE q.op = "createProject"
    <2> DEFINE on == {q.guid}
               t  == T!CreateProject(q.guid)
               f  == T!SaysCreated(q.guid, "project", "kept", <<>>, T!Kept)
    <2>1. q.guid \in Names
      BY <1>5 DEF T!RequestType
    <2>2. T!Asked(q) = T!Script(t, on, f)
      BY <1>5 DEF T!Asked
    <2>3. /\ t \in Seq(Within(on) \cap NoPatch \cap NoLookup) /\ t # <<>>
          /\ f \in SaysOf /\ SaysWithin(f, on) /\ Slots(f) = {} /\ Saves(t, f)
      BY <2>1, CreatesProject, Zenon
    <2>4. on \in SUBSET Names
      BY <2>1
    <2> HIDE DEF on, t, f
    <2> QED BY <1>2, <2>2, <2>3, <2>4, FilesOne, Zenon
  <1>6. CASE q.op = "createWithTask"
    <2> DEFINE on == {q.project, q.guid}
               t  == T!ProjectWithTask(q.project, q.guid)
               f  == T!SaysCreated(q.guid, "task", q.project, <<>>, T!Kept)
    <2>1. q.project \in Names /\ q.guid \in Names
      BY <1>6 DEF T!RequestType
    <2>2. T!Asked(q) = T!Script(t, on, f)
      BY <1>6 DEF T!Asked
    <2>3. /\ t \in Seq(Within(on) \cap NoPatch \cap NoLookup) /\ t # <<>>
          /\ f \in SaysOf /\ SaysWithin(f, on)
          /\ \A x \in Slots(f) : Places(t, x)
          /\ Saves(t, f)
      BY <2>1, CreatesBoth, Zenon
    <2>4. on \in SUBSET Names
      BY <2>1
    <2> HIDE DEF on, t, f
    <2> QED BY <1>2, <2>2, <2>3, <2>4, FilesOne, Zenon
  <1>7. CASE q.op = "update"
    <2> DEFINE on == T!Touches(q.guid, q.project, q.named)
               t  == T!UpdateRecord(q.guid, q.kind, q.project, q.named, q.input)
               f  == T!SaysUpdated(q.guid, q.project, q.named, q.input)
    <2>1. /\ q.guid \in Names /\ q.kind \in T!RecordKinds /\ q.project \in Names \cup {NoRow, "kept"}
          /\ q.named \in T!Namings /\ q.input \in Givens
      BY <1>1, <1>7 DEF T!RequestType
    <2>2. /\ on \in SUBSET Names /\ q.guid \in on /\ q.project \in on \cup {NoRow, "kept"}
          /\ \A k \in DOMAIN q.named : q.named[k] \subseteq on
      BY <1>3, <2>1, Zenon
    <2>3. T!Asked(q) = T!Script(t, on, f)
      BY <1>7 DEF T!Asked
    <2>4. /\ t \in Seq(Within(on) \cap NoLookup) /\ t # <<>> /\ t[1].op = "read"
          /\ f \in SaysOf /\ SaysWithin(f, on)
          /\ \A x \in Slots(f) : Places(t, x)
          /\ Rereads(t, f)
      <3> HIDE DEF on
      <3> QED BY <2>1, <2>2, UpdatesFiled, ZenonT(60)
    <2> HIDE DEF on, t, f
    <2>5. t \in Seq(Within(on)) /\ t \in Seq(NoLookup)
      BY <2>4, WiderSeq
    <2> QED BY <2>2, <2>3, <2>4, <2>5, FilesOne
  <1>8. CASE q.op = "delete"
    <2>1. q.guid \in Names /\ q.kind \in T!RecordKinds
      BY <1>8 DEF T!RequestType
    <2>2. T!Asked(q) = T!Script(T!DeleteRecord(q.guid, q.kind), {q.guid}, NoRow)
      BY <1>8 DEF T!Asked
    <2> QED BY <2>1, <2>2, DeletesSound
  <1>9. CASE q.op = "list"
    <2>1. q.project \in Names /\ q.kind \in T!RecordKinds
      BY <1>9 DEF T!RequestType
    <2>2. T!Asked(q) = T!Script(T!ListMembers(q.project, q.kind), {q.project}, NoRow)
      BY <1>9 DEF T!Asked
    <2> QED BY <2>1, <2>2, ListsSound
  <1>10. CASE q.op \in {"createRef", "updateRef"}
    <2>1. q.ref \in TaskRefs /\ q.type \in STRING /\ q.to \in Names /\ q.ext \in STRING
      BY <1>10 DEF T!RequestType
    <2>2. /\ q.op = "createRef" =>
               T!Asked(q) = T!Script(T!CreateRef(q.ref, q.type, q.to, q.ext), {q.to}, NoRow)
          /\ q.op = "updateRef" =>
               T!Asked(q) = T!Script(T!UpdateRef(q.ref, q.type, q.to, q.ext), {q.to}, NoRow)
      BY DEF T!Asked
    <2> QED BY <1>10, <2>1, <2>2, RefsSound, Zenon
  <1>11. CASE q.op = "deleteRef"
    <2>1. q.ref \in TaskRefs
      BY <1>11 DEF T!RequestType
    <2>2. T!Asked(q) = T!Script(T!DeleteRef(q.ref), {}, NoRow)
      BY <1>11 DEF T!Asked
    <2> QED BY <2>1, <2>2, DropsSound
  <1>12. CASE q.op \in {"createSync", "updateSync"}
    <2>1. q.sync \in Syncs /\ q.ref \in TaskRefs
      BY <1>12 DEF T!RequestType
    <2>2. /\ q.op = "createSync" => T!Asked(q) = T!Script(T!CreateSync(q.sync, q.ref), {}, NoRow)
          /\ q.op = "updateSync" => T!Asked(q) = T!Script(T!UpdateSync(q.sync, q.ref), {}, NoRow)
      BY DEF T!Asked
    <2> QED BY <1>12, <2>1, <2>2, SyncsSound
  <1>13. CASE q.op = "deleteSync"
    <2>1. q.sync \in Syncs
      BY <1>13 DEF T!RequestType
    <2>2. T!Asked(q) = T!Script(T!DeleteSync(q.sync), {}, NoRow)
      BY <1>13 DEF T!Asked
    <2> QED BY <2>1, <2>2, SyncsSound
  <1>14. q.op \in {"create", "createProject", "createWithTask", "update", "delete", "list", "createRef",
                   "updateRef", "deleteRef", "createSync", "updateSync", "deleteSync"}
    BY DEF T!RequestType
  <1> QED BY <1>4, <1>5, <1>6, <1>7, <1>8, <1>9, <1>10, <1>11, <1>12, <1>13, <1>14
-----------------------------------------------------------------------------
(* What one statement does to slots and rows.                              *)

\* The edges after a statement that succeeds.
After(s, r) ==
    IF s.op = "unlink" THEN {y \in r : ~(y[s.col] = s.guid /\ y[3] \in s.kinds)}
    ELSE IF s.op = "link" THEN r \cup {<<e[1], e[2], s.kind>> : e \in s.pairs}
    ELSE r

\* A slot of a record among "on", the edges of which stay there.
SlotOn(x, on) ==
    /\ x.col \in {1, 2} /\ x.guid \in on
    /\ \A y \in x.want : /\ y[x.col] = x.guid /\ y[3] = x.kind
                         /\ y[1] \in on /\ y[2] \in on

LEMMA SlotsFit ==
  ASSUME NEW f, NEW on, SaysWithin(f, on), NEW x \in Slots(f)
  PROVE  SlotOn(x, on)
  <1>1. CASE x = Contained(f) /\ f.project # "kept"
    <2>1. x.col = 2 /\ x.guid = f.guid /\ x.kind = "contains"
      BY <1>1 DEF Contained
    <2>2. x.want = {<<p, f.guid, "contains">> : p \in {f.project} \ {NoRow}}
      BY <1>1 DEF Contained
    <2>3. ASSUME NEW y \in x.want
          PROVE  y[2] = f.guid /\ y[3] = "contains" /\ y[1] \in on
      <3>1. PICK p \in {f.project} \ {NoRow} : y = <<p, f.guid, "contains">>
        BY <2>2
      <3>2. p \in on
        BY <1>1, <3>1 DEF SaysWithin
      <3> QED BY <3>1, <3>2
    <2> QED BY <2>1, <2>3 DEF SlotOn, SaysWithin
  <1>2. ASSUME NEW k \in DOMAIN f.named, x = Listed(f, k) PROVE SlotOn(x, on)
    <2>1. x.col = 1 /\ x.guid = f.guid /\ x.kind = k
      BY <1>2 DEF Listed
    <2>2. x.want = {<<f.guid, y, k>> : y \in f.named[k]}
      BY <1>2 DEF Listed
    <2>3. ASSUME NEW y \in x.want PROVE y[1] = f.guid /\ y[3] = k /\ y[2] \in on
      <3>1. PICK z \in f.named[k] : y = <<f.guid, z, k>>
        BY <2>2
      <3>2. z \in on
        BY <3>1 DEF SaysWithin
      <3> QED BY <3>1, <3>2
    <2> QED BY <2>1, <2>3 DEF SlotOn, SaysWithin
  <1> QED BY <1>1, <1>2 DEF Slots

\* A statement of other kinds leaves a slot as it is.
LEMMA KeepsSlot ==
  ASSUME NEW x, x.col \in {1, 2}, NEW s \in Keeping(x), NEW r
  PROVE  InSlot(After(s, r), x) = InSlot(r, x)
  <1>1. ASSUME s.op = "link", NEW y \in {<<e[1], e[2], s.kind>> : e \in s.pairs}
        PROVE  y[3] # x.kind
    BY <1>1 DEF Keeping
  <1>2. CASE s.op = "unlink"
    BY <1>2 DEF Keeping, After, InSlot
  <1>3. CASE s.op = "link"
    BY <1>1, <1>3 DEF After, InSlot
  <1>4. CASE s.op \notin {"link", "unlink"}
    BY <1>4 DEF After
  <1> QED BY <1>2, <1>3, <1>4

\* A statement of another call leaves a slot that is empty, or full, as it is.
LEMMA OthersKeepSlot ==
  ASSUME NEW on, NEW x, SlotOn(x, on), NEW other, other \cap on = {}, NEW s \in Within(other),
         NEW r, InSlot(r, x) = {} \/ InSlot(r, x) = x.want
  PROVE  InSlot(After(s, r), x) = InSlot(r, x)
  <1>1. \A y \in InSlot(r, x) : y[1] \in on /\ y[2] \in on
    BY DEF SlotOn
  <1>2. CASE s.op = "unlink"
    <2>1. s.guid \notin on /\ s.col \in {1, 2}
      BY <1>2 DEF Within, TaskStatements
    <2>2. \A y \in InSlot(r, x) : y[s.col] # s.guid
      BY <1>1, <2>1
    <2> QED BY <1>2, <2>2 DEF After, InSlot
  <1>3. CASE s.op = "link"
    <2>1. ASSUME NEW y \in {<<e[1], e[2], s.kind>> : e \in s.pairs}
          PROVE  y[x.col] # x.guid
      <3>1. PICK e \in s.pairs : y = <<e[1], e[2], s.kind>>
        OBVIOUS
      <3>2. e[1] \in other /\ e[2] \in other
        BY <1>3 DEF Within
      <3> QED BY <3>1, <3>2 DEF SlotOn
    <2> QED BY <1>3, <2>1 DEF After, InSlot
  <1>4. CASE s.op \notin {"link", "unlink"}
    BY <1>4 DEF After
  <1> QED BY <1>2, <1>3, <1>4

LEMMA OthersLand ==
  ASSUME NEW on, NEW x, SlotOn(x, on), NEW other, other \cap on = {}, NEW s \in Within(other),
         NEW t, NEW r, Lands(t, r, x)
  PROVE  Lands(t, After(s, r), x)
  BY OthersKeepSlot DEF Lands

LEMMA FillsTail ==
  ASSUME NEW x, NEW t \in Seq(TaskStatements), t # <<>>, NEW i \in Nat \ {0}, FillsAfter(t, i, x)
  PROVE  FillsAfter(Tail(t), i - 1, x)
  <1> DEFINE u == Tail(t)
  <1>1. /\ DOMAIN u = 1 .. Len(t) - 1 /\ DOMAIN t = 1 .. Len(t) /\ Len(t) \in Nat
        /\ \A k \in DOMAIN u : u[k] = t[k + 1] /\ k + 1 \in DOMAIN t
    BY TailsIn
  <1> HIDE DEF u
  <1>2. CASE x.want = {} /\ \A k \in DOMAIN t : k > i => t[k] \in Keeping(x)
    BY <1>1, <1>2 DEF FillsAfter
  <1>3. ASSUME NEW j \in DOMAIN t, j > i, Fills(t[j], x),
               \A k \in DOMAIN t \ {j} : k > i => t[k] \in Keeping(x)
        PROVE  FillsAfter(u, i - 1, x)
    <2>1. j - 1 \in DOMAIN u /\ u[j - 1] = t[j] /\ j - 1 > i - 1
      BY <1>1, <1>3
    <2>2. \A k \in DOMAIN u \ {j - 1} : k > i - 1 => u[k] \in Keeping(x)
      BY <1>1, <1>3
    <2> QED BY <1>3, <2>1, <2>2 DEF FillsAfter
  <1> QED BY <1>2, <1>3 DEF FillsAfter, u

\* What leads to the wanted edges still does when its first statement is done.
LEMMA OwnLands ==
  ASSUME NEW on, NEW x, SlotOn(x, on), NEW t \in Seq(TaskStatements), t # <<>>,
         NEW r, Lands(t, r, x)
  PROVE  Lands(Tail(t), After(t[1], r), x)
  <1> DEFINE u == Tail(t)
             s == t[1]
             r2 == After(s, r)
  <1>1. /\ DOMAIN u = 1 .. Len(t) - 1 /\ DOMAIN t = 1 .. Len(t) /\ Len(t) \in Nat \ {0}
        /\ \A k \in DOMAIN u : u[k] = t[k + 1] /\ k + 1 \in DOMAIN t
        /\ u \in Seq(TaskStatements)
    BY TailsIn
  <1>2. x.col \in {1, 2}
    BY DEF SlotOn
  <1> HIDE DEF u
  <1>3. ASSUME NEW i \in DOMAIN t, Clears(t[i], x), FillsAfter(t, i, x)
        PROVE  Lands(u, r2, x)
    <2>1. FillsAfter(u, i - 1, x)
      BY <1>1, <1>3, FillsTail DEF u
    <2>2. CASE i = 1
      <3>1. InSlot(r2, x) = {}
        BY <1>3, <2>2 DEF Clears, After, InSlot
      <3>2. FillsAfter(u, 0, x)
        BY <2>1, <2>2
      <3> QED BY <3>1, <3>2 DEF Lands
    <2>3. CASE i # 1
      <3>1. i - 1 \in DOMAIN u /\ u[i - 1] = t[i]
        BY <1>1, <2>3
      <3> QED BY <1>3, <2>1, <3>1 DEF Lands, Places
    <2> QED BY <2>2, <2>3
  <1>4. ASSUME InSlot(r, x) = {}, FillsAfter(t, 0, x) PROVE Lands(u, r2, x)
    <2>1. CASE x.want = {} /\ \A k \in DOMAIN t : k > 0 => t[k] \in Keeping(x)
      <3>1. s \in Keeping(x) /\ \A k \in DOMAIN u : u[k] \in Keeping(x)
        BY <1>1, <2>1
      <3>2. InSlot(r2, x) = {}
        BY <1>2, <1>4, <3>1, KeepsSlot
      <3> QED BY <2>1, <3>1, <3>2 DEF Lands, FillsAfter
    <2>2. ASSUME NEW j \in DOMAIN t, j > 0, Fills(t[j], x),
                 \A k \in DOMAIN t \ {j} : k > 0 => t[k] \in Keeping(x)
          PROVE  Lands(u, r2, x)
      <3>1. CASE j = 1
        <4>1. InSlot(r2, x) = x.want
          BY <1>4, <2>2, <3>1 DEF Fills, After, InSlot, SlotOn
        <4>2. \A k \in DOMAIN u : u[k] \in Keeping(x)
          BY <1>1, <2>2, <3>1
        <4>3. u \in Seq(Keeping(x))
          BY <1>1, <4>2
        <4> QED BY <4>1, <4>3 DEF Lands
      <3>2. CASE j # 1
        <4>1. s \in Keeping(x)
          BY <1>1, <2>2, <3>2
        <4>2. InSlot(r2, x) = {}
          BY <1>2, <1>4, <4>1, KeepsSlot
        <4>3. j - 1 \in DOMAIN u /\ u[j - 1] = t[j] /\ j - 1 > 0
          BY <1>1, <3>2
        <4>4. \A k \in DOMAIN u \ {j - 1} : k > 0 => u[k] \in Keeping(x)
          BY <1>1, <2>2
        <4> QED BY <2>2, <4>2, <4>3, <4>4 DEF Lands, FillsAfter
      <3> QED BY <3>1, <3>2
    <2> QED BY <1>4, <2>1, <2>2 DEF FillsAfter
  <1>5. ASSUME InSlot(r, x) = x.want, t \in Seq(Keeping(x)) PROVE Lands(u, r2, x)
    <2>1. s \in Keeping(x) /\ u \in Seq(Keeping(x))
      BY <1>5, TailsIn DEF u
    <2>2. InSlot(r2, x) = x.want
      BY <1>2, <1>5, <2>1, KeepsSlot
    <2> QED BY <2>1, <2>2 DEF Lands
  <1> QED BY <1>3, <1>4, <1>5 DEF Lands, Places, u

\* The rows, their kinds and their contents, before and after a statement; a
\* record that other records still name is not dropped.
RowsStep(s, read, k, b, k2, b2) ==
    \/ /\ s.op = "save"
       /\ k2 = [k EXCEPT ![s.guid] = s.kind]
       /\ b2 = [b EXCEPT ![s.guid] = T!Body(s.kind, s.input)]
    \/ /\ s.op = "patch" /\ k2 = k
       /\ b2 = IF k[s.guid] # s.kind THEN b
               ELSE [b EXCEPT ![s.guid] = T!Body(s.kind, T!Merged(read, s.input))]
    \/ /\ s.op = "drop"
       /\ k2 = [k EXCEPT ![s.guid] = NoRow] /\ b2 = [b EXCEPT ![s.guid] = NoRow]
    \/ s.op \notin {"save", "patch"} /\ k2 = k /\ b2 = b

RowsTyped(k, b) ==
    /\ k \in [Names -> T!RecordKinds \cup {NoRow}] /\ b \in [Names -> Bodies \cup {NoRow}]
    /\ \A g \in Names : k[g] # NoRow => b[g] \in Bodies

LEMMA BodiesWritten ==
  ASSUME NEW kind \in T!RecordKinds, NEW input \in Givens
  PROVE  T!Body(kind, input) \in Bodies
  <1> DEFINE status == IF input.status = "kept" THEN T!Default[kind] ELSE input.status
             due    == T!NormalDate(input.due)
  <1>1. T!Default[kind] \in {"todo", "scheduled", "active"}
    BY KindNames DEF T!Default
  <1>2. status \in Texts /\ status # "kept"
    BY <1>1 DEF Givens, Texts
  <1>3. NoRow \notin {"kept", "bad"}
    BY TaskAssumption DEF T!RequestsAreTyped
  <1>4. due \in Texts \cup {NoRow} /\ due \notin {"kept", "bad"}
    BY <1>3 DEF Givens, Texts, T!NormalDate
  <1>5. T!Column(status) \in {"draft", "archived", "active"}
    BY DEF T!Column
  <1>6. T!Column(status) \in Texts
    BY <1>5 DEF Texts
  <1>7. T!Body(kind, input) = [column |-> T!Column(status), status |-> status, due |-> due]
    BY DEF T!Body
  <1> HIDE DEF status, due
  <1> QED BY <1>2, <1>4, <1>6, <1>7 DEF Bodies

LEMMA BodiesMerged ==
  ASSUME NEW read \in Bodies, NEW input \in Givens
  PROVE  T!Merged(read, input) \in Givens
  BY DEF Bodies, Givens, T!Merged

LEMMA RowsStayTyped ==
  ASSUME NEW k, NEW b, RowsTyped(k, b), NEW s \in TaskStatements, NEW read,
         s.op = "patch" => read \in Bodies, NEW k2, NEW b2, RowsStep(s, read, k, b, k2, b2)
  PROVE  RowsTyped(k2, b2)
  <1>1. CASE s.op = "save"
    <2>1. s.guid \in Names /\ s.kind \in T!RecordKinds /\ s.input \in Givens
      BY <1>1 DEF TaskStatements
    <2>2. T!Body(s.kind, s.input) \in Bodies
      BY <2>1, BodiesWritten
    <2>3. k2 = [k EXCEPT ![s.guid] = s.kind] /\ b2 = [b EXCEPT ![s.guid] = T!Body(s.kind, s.input)]
      BY <1>1 DEF RowsStep
    <2> QED BY <2>1, <2>2, <2>3 DEF RowsTyped
  <1>2. CASE s.op = "patch"
    <2>1. s.guid \in Names /\ s.kind \in T!RecordKinds /\ s.input \in Givens
      BY <1>2 DEF TaskStatements
    <2>2. T!Body(s.kind, T!Merged(read, s.input)) \in Bodies
      BY <1>2, <2>1, BodiesWritten, BodiesMerged
    <2>3. k2 = k /\ b2 = IF k[s.guid] # s.kind THEN b
                         ELSE [b EXCEPT ![s.guid] = T!Body(s.kind, T!Merged(read, s.input))]
      BY <1>2 DEF RowsStep
    <2> QED BY <2>1, <2>2, <2>3 DEF RowsTyped
  <1>3. CASE s.op \notin {"save", "patch"}
    BY <1>3 DEF RowsStep, RowsTyped
  <1> QED BY <1>1, <1>2, <1>3

LEMMA OthersKeepRow ==
  ASSUME NEW k, NEW b, RowsTyped(k, b), NEW other, NEW s \in Within(other), NEW read,
         NEW k2, NEW b2, RowsStep(s, read, k, b, k2, b2), NEW g \in Names \ other
  PROVE  k2[g] = k[g] /\ b2[g] = b[g]
  <1>1. s.op \in {"save", "patch", "drop"} => s.guid # g
    BY DEF Within
  <1> QED BY <1>1 DEF RowsStep, RowsTyped

\* The patch of what was read gives what the request said, or what was read.
LEMMA PatchHolds ==
  ASSUME NEW s \in TaskStatements, NEW f, Patches(s, f), NEW read \in Bodies
  PROVE  T!Holds(T!Body(s.kind, T!Merged(read, s.input)), f, read)
  <1> DEFINE m == T!Merged(read, s.input)
             due == T!NormalDate(m.due)
  <1>1. s.input \in Givens
    BY DEF Patches, TaskStatements
  <1>2. m.status = (IF s.input.status = "kept" THEN read.status ELSE s.input.status)
        /\ m.due = (IF s.input.due = "kept" THEN read.due ELSE s.input.due)
    BY DEF T!Merged
  <1>3. read.status # "kept" /\ read.due \notin {"kept", "bad"}
    BY DEF Bodies
  <1>4. m.status # "kept" /\ m.status = (IF f.status = "kept" THEN read.status ELSE f.status)
    BY <1>2, <1>3 DEF Patches
  <1>5. NoRow \notin {"kept", "bad"}
    BY TaskAssumption DEF T!RequestsAreTyped
  <1>6. due = (IF f.due = "kept" THEN read.due ELSE f.due)
    BY <1>2, <1>3, <1>5 DEF Patches, T!NormalDate
  <1>7. T!Body(s.kind, m) = [column |-> T!Column(m.status), status |-> m.status, due |-> due]
    BY <1>4 DEF T!Body
  <1> HIDE DEF m, due
  <1> QED BY <1>4, <1>6, <1>7 DEF T!Holds, m

LEMMA SaveHolds ==
  ASSUME NEW kind, NEW input, NEW f, Agrees(T!Body(kind, input), f), NEW was
  PROVE  T!Holds(T!Body(kind, input), f, was)
  BY DEF T!Holds, T!Body, Agrees

\* What leads to the row that f speaks of still does when its first statement is done.
LEMMA OwnWrites ==
  ASSUME NEW k, NEW b, RowsTyped(k, b), NEW t \in Seq(TaskStatements), t # <<>>,
         NEW f, f.guid \in Names, NEW read, NEW was,
         WritesRow(t, f, k[f.guid], b[f.guid], read, was),
         NEW k2, NEW b2, RowsStep(t[1], read, k, b, k2, b2),
         NEW read2, read2 = (IF t[1].op = "read" THEN b[t[1].guid] ELSE read),
         t[1].op = "read" => k[t[1].guid] \in t[1].kinds
  PROVE  WritesRow(Tail(t), f, k2[f.guid], b2[f.guid], read2, was)
  <1> DEFINE u == Tail(t)
             s == t[1]
             g == f.guid
  <1>1. /\ DOMAIN u = 1 .. Len(t) - 1 /\ DOMAIN t = 1 .. Len(t) /\ Len(t) \in Nat \ {0}
        /\ \A i \in DOMAIN u : u[i] = t[i + 1] /\ i + 1 \in DOMAIN t
        /\ u \in Seq(TaskStatements) /\ s \in TaskStatements
    BY TailsIn
  <1>2. s.op \notin {"save", "patch", "drop"} => k2 = k /\ b2 = b
    BY DEF RowsStep
  <1>3. s \in Leaves(g) => k2[g] = k[g] /\ b2[g] = b[g]
    BY DEF Leaves, RowsStep, RowsTyped
  <1> HIDE DEF u
  <1>4. ASSUME NEW i \in DOMAIN t, t[i].op = "save", t[i].guid = g,
               Agrees(T!Body(t[i].kind, t[i].input), f),
               \A j \in DOMAIN t : j > i => t[j] \in Leaves(g)
        PROVE  WritesRow(u, f, k2[g], b2[g], read2, was)
    <2>1. CASE i = 1
      <3>1. b2 = [b EXCEPT ![g] = T!Body(s.kind, s.input)]
        BY <1>4, <2>1 DEF RowsStep
      <3>2. b2[g] = T!Body(s.kind, s.input)
        BY <3>1 DEF RowsTyped
      <3>3. T!Holds(b2[g], f, was)
        BY <1>4, <2>1, <3>2, SaveHolds
      <3>4. \A j \in DOMAIN u : u[j] \in Leaves(g)
        BY <1>1, <1>4, <2>1
      <3>5. u \in Seq(Leaves(g))
        BY <1>1, <3>4
      <3> QED BY <3>3, <3>5 DEF WritesRow
    <2>2. CASE i # 1
      <3>1. i - 1 \in DOMAIN u /\ u[i - 1] = t[i]
        BY <1>1, <2>2
      <3>2. \A j \in DOMAIN u : j > i - 1 => u[j] \in Leaves(g)
        BY <1>1, <1>4
      <3>3. Saves(u, f)
        BY <1>4, <3>1, <3>2 DEF Saves
      <3> QED BY <3>3 DEF WritesRow
    <2> QED BY <2>1, <2>2
  <1>5. ASSUME b[g] = was, Rereads(t, f) PROVE WritesRow(u, f, k2[g], b2[g], read2, was)
    <2>1. k2 = k /\ b2 = b
      BY <1>2, <1>5 DEF Rereads
    <2>2. 1 \in DOMAIN u /\ u[1] = t[2]
      BY <1>1, <1>5 DEF Rereads
    <2>3. s.op = "read" /\ s.guid = g /\ s.kinds = {u[1].kind}
      BY <1>5, <2>2 DEF Rereads
    <2>4. k[g] = u[1].kind /\ read2 = b[g]
      BY <2>3
    <2>5. Patches(u[1], f)
      BY <1>5, <2>2 DEF Rereads
    <2>6. u[1] \in TaskStatements
      BY <1>1, <2>2
    <2>7. k[g] # NoRow
      <3>1. u[1].kind \in T!RecordKinds
        BY <2>5, <2>6 DEF Patches, TaskStatements
      <3> QED BY <3>1, <2>4, KindNames
    <2>8. read2 \in Bodies
      BY <2>4, <2>7 DEF RowsTyped
    <2>9. \A j \in DOMAIN u : j > 1 => u[j] \in Leaves(g)
      BY <1>1, <1>5 DEF Rereads
    <2>10. u # <<>>
      BY <2>2
    <2>11. Rewrites(u, f, k[g], read2)
      BY <2>4, <2>5, <2>8, <2>9, <2>10 DEF Rewrites
    <2> QED BY <1>5, <2>1, <2>4, <2>11 DEF WritesRow
  <1>6. ASSUME b[g] = was, read = was, Rewrites(t, f, k[g], read)
        PROVE  WritesRow(u, f, k2[g], b2[g], read2, was)
    <2>1. s.op = "patch" /\ s.guid = g /\ s.kind = k[g] /\ read \in Bodies /\ Patches(s, f)
      BY <1>6 DEF Rewrites, Patches
    <2>2. b2 = [b EXCEPT ![g] = T!Body(s.kind, T!Merged(read, s.input))]
      BY <2>1 DEF RowsStep
    <2>3. b2[g] = T!Body(s.kind, T!Merged(read, s.input))
      BY <2>2 DEF RowsTyped
    <2>4. T!Holds(b2[g], f, was)
      BY <1>1, <1>6, <2>1, <2>3, PatchHolds
    <2>5. \A j \in DOMAIN u : u[j] \in Leaves(g)
      BY <1>1, <1>6 DEF Rewrites
    <2>6. u \in Seq(Leaves(g))
      BY <1>1, <2>5
    <2> QED BY <2>4, <2>6 DEF WritesRow
  <1>7. ASSUME T!Holds(b[g], f, was), t \in Seq(Leaves(g))
        PROVE  WritesRow(u, f, k2[g], b2[g], read2, was)
    <2>1. s \in Leaves(g) /\ u \in Seq(Leaves(g))
      BY <1>7, TailsIn DEF u
    <2> QED BY <1>3, <1>7, <2>1 DEF WritesRow
  <1> QED BY <1>4, <1>5, <1>6, <1>7 DEF WritesRow, Saves, u

-----------------------------------------------------------------------------
(* The statements of the calls.                                            *)

\* A call after its first statement, which finds these rows: over, one statement
\* further, or with the row that a lookup found.
Moves(call, new, k, b) ==
    LET t == call.todo
        s == t[1]
    IN  \/ new = T!Idle("failed")
        \/ s.op \notin {"read", "lookup"} /\ Len(t) = 1 /\ new = T!Idle("ok")
        \/ s.op \notin {"read", "lookup"} /\ new = [call EXCEPT !.todo = Tail(t)]
        \/ /\ s.op = "read" /\ k[s.guid] \in s.kinds
           /\ new = [call EXCEPT !.todo = Tail(t), !.read = b[s.guid]]
        \/ s.op = "lookup" /\ new = [call EXCEPT !.todo = Tail(t)]
        \/ /\ s.op = "lookup"
           /\ \E r \in TaskRefs : new = [call EXCEPT !.todo = <<[Head(Tail(t)) EXCEPT !.ref = r]>>]

LEMMA ThenMoves ==
  ASSUME s5 \in [Callers -> TaskCalls], NEW c \in Callers, NEW ok \in BOOLEAN, T!Then(c, ok),
         s5[c].todo[1].op \notin {"read", "lookup"}
  PROVE  \E new : /\ s5' = [s5 EXCEPT ![c] = new] /\ Moves(s5[c], new, s1, s7)
                  /\ ~ok => new = T!Idle("failed")
  <1>1. CASE ~ok
    BY <1>1 DEF T!Then, T!Fails, Moves
  <1>2. CASE ok /\ Len(s5[c].todo) = 1
    <2>1. s5' = [s5 EXCEPT ![c] = T!Idle("ok")]
      BY <1>2 DEF T!Then, T!Done
    <2> QED BY <1>2, <2>1, Zenon DEF Moves
  <1>3. CASE ok /\ Len(s5[c].todo) # 1
    <2>1. s5' = [s5 EXCEPT ![c].todo = Tail(@)]
      BY <1>3 DEF T!Then, T!Done
    <2>2. s5' = [s5 EXCEPT ![c] = [s5[c] EXCEPT !.todo = Tail(s5[c].todo)]]
      BY <2>1
    <2> QED BY <1>3, <2>2, Zenon DEF Moves
  <1> QED BY <1>1, <1>2, <1>3

LEMMA DoneMoves ==
  ASSUME s5 \in [Callers -> TaskCalls], NEW c \in Callers, T!Done(c),
         s5[c].todo[1].op \notin {"read", "lookup"}
  PROVE  \E new : s5' = [s5 EXCEPT ![c] = new] /\ Moves(s5[c], new, s1, s7)
  <1>1. T!Then(c, TRUE)
    BY DEF T!Then
  <1> QED BY <1>1, ThenMoves, Zenon

\* What a statement does: it writes rows, or edges unless it fails, and the call
\* moves on.
Effect(c, s, new) ==
    /\ s5' = [s5 EXCEPT ![c] = new] /\ Moves(s5[c], new, s1, s7)
    /\ RowsStep(s, s5[c].read, s1, s7, s1', s7')
    /\ s2' = After(s, s2) \/ (s2' = s2 /\ new = T!Idle("failed"))
    /\ s8' = s8

LEMMA ReadsDo ==
  ASSUME TaskInv, NEW c \in Callers, NEW s, s = s5[c].todo[1], T!Read(c, s), s8' = s8
  PROVE  \E new : Effect(c, s, new)
  <1>1. s5 \in [Callers -> TaskCalls]
    BY DEF TaskInv
  <1>2. s1' = s1 /\ s7' = s7 /\ s2' = s2
    BY DEF T!Read
  <1>3. s.op \in {"find", "read", "findAll", "findRef", "findSync", "count", "page", "lookup"}
    BY DEF T!Read
  <1>4. RowsStep(s, s5[c].read, s1, s7, s1', s7') /\ s2' = After(s, s2)
    BY <1>2, <1>3 DEF RowsStep, After
  <1> SUFFICES \E new : s5' = [s5 EXCEPT ![c] = new] /\ Moves(s5[c], new, s1, s7)
    BY <1>4, Zenon DEF Effect
  <1>5. CASE s.op = "read"
    <2>1. \/ T!Fails(c)
          \/ /\ s1[s.guid] \in s.kinds
             /\ s5' = [s5 EXCEPT ![c].todo = Tail(@), ![c].read = s7[s.guid]]
      BY <1>5, Zenon DEF T!Read
    <2>2. CASE T!Fails(c)
      BY <2>2, Zenon DEF T!Fails, Moves
    <2>3. CASE /\ s1[s.guid] \in s.kinds
               /\ s5' = [s5 EXCEPT ![c].todo = Tail(@), ![c].read = s7[s.guid]]
      <3>1. s5' = [s5 EXCEPT ![c] = [s5[c] EXCEPT !.todo = Tail(s5[c].todo), !.read = s7[s.guid]]]
        BY <2>3, <1>1, Zenon DEF TaskCalls
      <3> QED BY <1>5, <2>3, <3>1, Zenon DEF Moves
    <2> QED BY <2>1, <2>2, <2>3, Zenon
  <1>6. CASE s.op = "lookup"
    <2> DEFINE found == {r \in TaskRefs : s3[r] # NoRow /\ s3[r].ext = s.ext}
               rest  == Tail(s5[c].todo)
               next  == IF found = {} THEN rest
                        ELSE <<[Head(rest) EXCEPT !.ref = CHOOSE r \in found : TRUE]>>
    <2>1. s5' = [s5 EXCEPT ![c].todo = next]
      BY <1>6, Zenon DEF T!Read
    <2>2. s5' = [s5 EXCEPT ![c] = [s5[c] EXCEPT !.todo = next]]
      BY <2>1, <1>1
    <2>3. CASE found = {}
      BY <2>2, <2>3, <1>6, Zenon DEF Moves
    <2>4. CASE found # {}
      <3>1. (CHOOSE r \in found : TRUE) \in TaskRefs
        BY <2>4
      <3> HIDE DEF found
      <3> QED BY <2>2, <2>4, <3>1, <1>6, Zenon DEF Moves
    <2> QED BY <2>3, <2>4
  <1>7. CASE s.op \in {"find", "findAll", "findRef", "findSync"}
    <2>1. \E ok \in BOOLEAN : T!Then(c, ok)
      <3>1. CASE s.op = "find"
        <4>1. T!Then(c, s1[s.guid] \in s.kinds)
          BY <3>1 DEF T!Read
        <4>2. (s1[s.guid] \in s.kinds) \in BOOLEAN
          OBVIOUS
        <4> QED BY <4>1, <4>2, Zenon
      <3>2. CASE s.op = "findAll"
        <4>1. T!Then(c, \A g \in s.guids : s1[g] # NoRow)
          BY <3>2, Zenon DEF T!Read
        <4>2. (\A g \in s.guids : s1[g] # NoRow) \in BOOLEAN
          OBVIOUS
        <4> QED BY <4>1, <4>2, Zenon
      <3>3. CASE s.op = "findRef"
        BY <3>3, Zenon DEF T!Read
      <3>4. CASE s.op = "findSync"
        BY <3>4, Zenon DEF T!Read
      <3> QED BY <1>7, <3>1, <3>2, <3>3, <3>4
    <2> QED BY <1>1, <1>7, <2>1, ThenMoves
  <1>8. CASE s.op \in {"count", "page"}
    <2>1. T!Done(c)
      BY <1>8, Zenon DEF T!Read
    <2> QED BY <1>1, <1>8, <2>1, DoneMoves
  <1> QED BY <1>3, <1>5, <1>6, <1>7, <1>8

LEMMA RecordsDo ==
  ASSUME TaskInv, NEW c \in Callers, NEW s, s = s5[c].todo[1], T!WriteRecord(c, s), s8' = s8
  PROVE  \E new : Effect(c, s, new)
  <1>1. s5 \in [Callers -> TaskCalls]
    BY DEF TaskInv
  <1>2. s2' = s2 /\ s.op \in {"save", "patch", "drop"}
    BY DEF T!WriteRecord
  <1>3. s2' = After(s, s2)
    BY <1>2 DEF After
  <1>4. RowsStep(s, s5[c].read, s1, s7, s1', s7')
    <2>1. CASE s.op = "save"
      BY <2>1 DEF T!WriteRecord, RowsStep
    <2>2. CASE s.op = "patch"
      BY <2>2 DEF T!WriteRecord, RowsStep
    <2>3. CASE s.op = "drop"
      BY <2>3 DEF T!WriteRecord, RowsStep
    <2> QED BY <1>2, <2>1, <2>2, <2>3
  <1>5. \E ok \in BOOLEAN : T!Then(c, ok)
    BY Zenon DEF T!WriteRecord, T!Then
  <1> QED BY <1>1, <1>2, <1>3, <1>4, <1>5, ThenMoves DEF Effect

LEMMA RelationsDo ==
  ASSUME TaskInv, NEW c \in Callers, NEW s, s = s5[c].todo[1], T!WriteRelation(c, s), s8' = s8
  PROVE  \E new : Effect(c, s, new)
  <1>1. s5 \in [Callers -> TaskCalls]
    BY DEF TaskInv
  <1>2. s1' = s1 /\ s7' = s7 /\ s.op \in {"unlink", "link"}
    BY Zenon DEF T!WriteRelation
  <1>3. RowsStep(s, s5[c].read, s1, s7, s1', s7')
    BY <1>2 DEF RowsStep
  <1>4. CASE s.op = "unlink"
    <2>1. T!Done(c) /\ s2' = After(s, s2)
      BY <1>4 DEF T!WriteRelation, After
    <2> QED BY <1>1, <1>3, <1>4, <2>1, DoneMoves DEF Effect
  <1>5. CASE s.op = "link"
    <2> DEFINE new == {<<e[1], e[2], s.kind>> : e \in s.pairs}
    <2>1. PICK ok \in BOOLEAN : T!Then(c, ok) /\ s2' = IF ok THEN s2 \cup new ELSE s2
      BY <1>5, Zenon DEF T!WriteRelation
    <2>2. ok => s2' = After(s, s2)
      BY <1>5, <2>1 DEF After
    <2> HIDE DEF new
    <2> QED BY <1>1, <1>3, <1>5, <2>1, <2>2, ThenMoves DEF Effect
  <1> QED BY <1>2, <1>4, <1>5

LEMMA OthersDo ==
  ASSUME TaskInv, NEW c \in Callers, NEW s, s = s5[c].todo[1], s8' = s8,
         T!WriteRef(c, s) \/ T!WriteSync(c, s)
  PROVE  \E new : Effect(c, s, new)
  <1>1. s5 \in [Callers -> TaskCalls]
    BY DEF TaskInv
  <1>2. /\ s1' = s1 /\ s7' = s7 /\ s2' = s2
        /\ s.op \in {"saveRef", "patchRef", "dropRef", "saveSync", "patchSync", "dropSync"}
    BY DEF T!WriteRef, T!WriteSync
  <1>3. RowsStep(s, s5[c].read, s1, s7, s1', s7') /\ s2' = After(s, s2)
    BY <1>2 DEF RowsStep, After
  <1>4. \E ok \in BOOLEAN : T!Then(c, ok)
    BY Zenon DEF T!WriteRef, T!WriteSync, T!Then
  <1> QED BY <1>1, <1>2, <1>3, <1>4, ThenMoves DEF Effect

LEMMA StatementDoes ==
  ASSUME TaskInv, NEW c \in Callers, T!Statement(c)
  PROVE  /\ s5[c].todo # <<>> /\ s5[c].todo \in Seq(Within(s5[c].on))
         /\ \E new : Effect(c, s5[c].todo[1], new)
  <1>1. s5[c].todo # <<>> /\ s5[c].todo \in Seq(Within(s5[c].on))
    BY DEF T!Statement, T!Busy, TaskInv, Disciplined
  <1>2. Head(s5[c].todo) = s5[c].todo[1]
    BY <1>1, TailsIn
  <1>3. s8' = s8
    BY DEF T!Statement
  <1> DEFINE s == s5[c].todo[1]
  <1>4. T!Read(c, s) \/ T!WriteRecord(c, s) \/ T!WriteRelation(c, s) \/ T!WriteRef(c, s) \/ T!WriteSync(c, s)
    BY <1>2 DEF T!Statement
  <1> QED BY <1>1, <1>3, <1>4, ReadsDo, RecordsDo, RelationsDo, OthersDo

LEMMA Single ==
  ASSUME NEW A, NEW u \in Seq(A), Len(u) = 1 PROVE u = <<u[1]>> /\ Head(u) = u[1]
  <1>1. u[1] \in A /\ Head(u) = u[1]
    OBVIOUS
  <1>2. <<u[1]>> \in Seq(A) /\ Len(<<u[1]>>) = 1 /\ <<u[1]>>[1] = u[1]
    BY <1>1
  <1>3. \A i \in 1 .. 1 : u[i] = <<u[1]>>[i]
    BY <1>2
  <1> QED BY <1>1, <1>2, <1>3, SeqEqual

\* A call that goes on is the one that it was.
LEMMA MovesOn ==
  ASSUME NEW k, NEW b, NEW call \in TaskCalls, NEW new, Moves(call, new, k, b)
  PROVE  \/ new = T!Idle("failed")
         \/ /\ new = T!Idle("ok") /\ Len(call.todo) = 1
            /\ call.todo[1].op \notin {"read", "lookup"}
         \/ /\ new.answer = call.answer /\ new.on = call.on /\ new.alone = call.alone
            /\ new.files = call.files /\ new.was = call.was
  <1>1. ASSUME NEW todo, new = [call EXCEPT !.todo = todo]
        PROVE  /\ new.answer = call.answer /\ new.on = call.on /\ new.alone = call.alone
               /\ new.files = call.files /\ new.was = call.was
    BY <1>1, Zenon DEF TaskCalls
  <1>2. ASSUME NEW todo, NEW read, new = [call EXCEPT !.todo = todo, !.read = read]
        PROVE  /\ new.answer = call.answer /\ new.on = call.on /\ new.alone = call.alone
               /\ new.files = call.files /\ new.was = call.was
    BY <1>2, Zenon DEF TaskCalls
  <1>3. CASE new = T!Idle("failed")
    BY <1>3
  <1>4. CASE new = [call EXCEPT !.todo = Tail(call.todo)]
    BY <1>1, <1>4, Zenon
  <1>5. CASE new = [call EXCEPT !.todo = Tail(call.todo), !.read = b[call.todo[1].guid]]
    BY <1>2, <1>5, Zenon
  <1>6. ASSUME NEW r \in TaskRefs,
               new = [call EXCEPT !.todo = <<[Head(Tail(call.todo)) EXCEPT !.ref = r]>>]
        PROVE  /\ new.answer = call.answer /\ new.on = call.on /\ new.alone = call.alone
               /\ new.files = call.files /\ new.was = call.was
    BY <1>1, <1>6, Zenon
  <1>7. CASE /\ new = T!Idle("ok") /\ Len(call.todo) = 1
             /\ call.todo[1].op \notin {"read", "lookup"}
    BY <1>7
  <1> QED BY <1>3, <1>4, <1>5, <1>6, <1>7, Zenon DEF Moves

\* A call that moves stays disciplined.
LEMMA MovedCall ==
  ASSUME NEW k, NEW b, RowsTyped(k, b), NEW call \in TaskCalls, call.todo # <<>>,
         Disciplined(call), NEW new, Moves(call, new, k, b)
  PROVE  new \in TaskCalls /\ Disciplined(new)
  <1> DEFINE t == call.todo
             s == t[1]
             u == Tail(t)
  <1>1. t \in Seq(TaskStatements) /\ t \in Seq(Within(call.on)) /\ t # <<>>
    BY DEF TaskCalls, Disciplined
  <1>2. /\ s \in TaskStatements /\ u \in Seq(TaskStatements) /\ u \in Seq(Within(call.on))
        /\ Len(u) = Len(t) - 1 /\ Len(t) \in Nat
        /\ \A i \in DOMAIN u : u[i] = t[i + 1] /\ i + 1 \in DOMAIN t
        /\ DOMAIN u = 1 .. Len(t) - 1
    <2>1. u \in Seq(Within(call.on))
      BY <1>1, TailsIn, Zenon
    <2> HIDE DEF t
    <2> QED BY <1>1, <2>1, TailsIn
  <1>3. /\ t \in Seq(NoPatch) => u \in Seq(NoPatch)
        /\ t \in Seq(NoLookup) => u \in Seq(NoLookup) /\ s \in NoLookup
    BY <1>1, TailsIn
  <1>4. ASSUME NEW answer \in {"ok", "failed"}, new = T!Idle(answer)
        PROVE  new \in TaskCalls /\ Disciplined(new)
    BY <1>4 DEF T!Idle, TaskCalls, Disciplined
  <1>5. ASSUME LooksUp(t), s.op # "lookup" PROVE LooksUp(u)
    <2>1. Len(t) = 3 /\ t[2].op = "lookup" /\ t[3].op = "saveRef"
      BY <1>5 DEF LooksUp
    <2>2. Len(u) = 2 /\ u[1] = t[2] /\ u[2] = t[3]
      BY <2>1, <1>2
    <2> QED BY <2>1, <2>2 DEF LooksUp
  <1>6. ASSUME LooksUp(t), s.op = "lookup" PROVE Len(u) = 1 /\ u[1].op = "saveRef"
    <2>1. Len(t) = 2 /\ t[2].op = "saveRef"
      BY <1>6 DEF LooksUp
    <2>2. Len(u) = 1 /\ u[1] = t[2]
      BY <2>1, <1>2
    <2> QED BY <2>1, <2>2
  <1>8. ASSUME s.op # "lookup", NEW read \in Bodies \cup {NoRow},
               new = [call EXCEPT !.todo = u, !.read = read],
               read \in Bodies \/ u \in Seq(NoPatch)
        PROVE  new \in TaskCalls /\ Disciplined(new)
    <2>1. u \in Seq(NoLookup) \/ (LooksUp(u) /\ call.files = NoRow)
      BY <1>3, <1>5, <1>8 DEF Disciplined
    <2>2. new \in TaskCalls
      BY <1>2, <1>8, Zenon DEF TaskCalls
    <2>3. new.todo = u /\ new.read = read /\ new.on = call.on /\ new.files = call.files
      BY <1>8 DEF TaskCalls
    <2> QED BY <1>2, <1>8, <2>1, <2>2, <2>3 DEF Disciplined
  <1>9. ASSUME s.op \notin {"read", "lookup"}, new = [call EXCEPT !.todo = u]
        PROVE  new \in TaskCalls /\ Disciplined(new)
    <2>1. new = [call EXCEPT !.todo = u, !.read = call.read]
      BY <1>9, Zenon DEF TaskCalls
    <2>2. call.read \in Bodies \/ u \in Seq(NoPatch)
      BY <1>3, <1>9 DEF Disciplined
    <2>3. call.read \in Bodies \cup {NoRow}
      BY DEF TaskCalls
    <2> QED BY <1>8, <1>9, <2>1, <2>2, <2>3, Zenon
  <1>10. ASSUME s.op = "read", k[s.guid] \in s.kinds,
                new = [call EXCEPT !.todo = u, !.read = b[s.guid]]
         PROVE  new \in TaskCalls /\ Disciplined(new)
    <2>1. s.guid \in Names /\ s.kinds \subseteq T!RecordKinds
      BY <1>2, <1>10 DEF TaskStatements
    <2>2. b[s.guid] \in Bodies
      BY <1>10, <2>1, KindNames DEF RowsTyped
    <2> QED BY <1>8, <1>10, <2>2, Zenon
  <1>11. ASSUME s.op = "lookup", NEW v \in TaskStatements, v.op = "saveRef",
                new = [call EXCEPT !.todo = <<v>>]
         PROVE  new \in TaskCalls /\ Disciplined(new)
    <2>1. v \in Within(call.on) /\ v \in NoPatch /\ v \in NoLookup
      BY <1>11 DEF Within, NoPatch, NoLookup
    <2>2. /\ <<v>> \in Seq(TaskStatements) /\ <<v>> \in Seq(Within(call.on))
          /\ <<v>> \in Seq(NoPatch) /\ <<v>> \in Seq(NoLookup)
      BY <1>11, <2>1, OneStatement
    <2>3. new \in TaskCalls /\ new.todo = <<v>> /\ new.on = call.on
      BY <1>11, <2>2, Zenon DEF TaskCalls
    <2> QED BY <2>2, <2>3 DEF Disciplined
  <1>12. ASSUME s.op = "lookup" PROVE Len(u) = 1 /\ u[1].op = "saveRef" /\ u = <<u[1]>> /\ Head(u) = u[1]
    <2>1. LooksUp(t)
      BY <1>3, <1>12 DEF Disciplined, NoLookup
    <2>2. Len(u) = 1 /\ u[1].op = "saveRef"
      BY <1>6, <1>12, <2>1, Zenon
    <2> HIDE DEF u
    <2>3. u = <<u[1]>> /\ Head(u) = u[1]
      BY <1>2, <2>2, Single, Zenon
    <2> QED BY <2>2, <2>3
  <1>13. ASSUME s.op = "lookup", new = [call EXCEPT !.todo = u]
         PROVE  new \in TaskCalls /\ Disciplined(new)
    <2>1. u[1] \in TaskStatements
      BY <1>2, <1>12, <1>13
    <2> QED BY <1>11, <1>12, <1>13, <2>1, Zenon
  <1>14. ASSUME s.op = "lookup", NEW r \in TaskRefs,
                new = [call EXCEPT !.todo = <<[Head(u) EXCEPT !.ref = r]>>]
         PROVE  new \in TaskCalls /\ Disciplined(new)
    <2> DEFINE v == [u[1] EXCEPT !.ref = r]
    <2>1. u[1] \in TaskStatements /\ u[1].op = "saveRef" /\ Head(u) = u[1]
      BY <1>2, <1>12, <1>14
    <2>2. u[1] \in [op : {"saveRef", "patchRef"}, ref : TaskRefs, to : Names, ext : STRING]
      BY <2>1, Zenon DEF TaskStatements
    <2>3. v \in [op : {"saveRef", "patchRef"}, ref : TaskRefs, to : Names, ext : STRING] /\ v.op = "saveRef"
      BY <2>1, <2>2, Zenon
    <2>4. v \in TaskStatements
      BY <2>3, Zenon DEF TaskStatements
    <2>5. new = [call EXCEPT !.todo = <<v>>]
      BY <1>14, <2>1, Zenon
    <2> HIDE DEF v
    <2> QED BY <1>11, <1>14, <2>3, <2>4, <2>5, Zenon
  <1> QED BY <1>4, <1>9, <1>10, <1>13, <1>14, Zenon DEF Moves

\* What is left of a call that is alone leads to what it says after its statement.
LEMMA OwnLeads ==
  ASSUME TaskInv, NEW c \in Callers, s5[c].todo # <<>>, NEW new,
         Effect(c, s5[c].todo[1], new), new # T!Idle("failed"), s5[c].alone, s5[c].files # NoRow
  PROVE  LET call  == s5[c]
             f     == call.files
             s     == call.todo[1]
             read2 == IF s.op = "read" THEN s7[s.guid] ELSE call.read
         IN  /\ s.op # "lookup" /\ f.guid \in Names
             /\ SaysWithin(f, call.on) /\ \A x \in Slots(f) : Lands(Tail(call.todo), s2', x)
             /\ WritesRow(Tail(call.todo), f, s1'[f.guid], s7'[f.guid], read2, call.was)
  <1> DEFINE call == s5[c]
             f == call.files
             t == call.todo
             s == t[1]
             read2 == IF s.op = "read" THEN s7[s.guid] ELSE call.read
  <1>1. call \in TaskCalls /\ Disciplined(call) /\ RowsTyped(s1, s7)
    BY DEF TaskInv, RowsTyped
  <1>2. t \in Seq(TaskStatements) /\ t # <<>> /\ f \in SaysOf
    BY <1>1 DEF TaskCalls
  <1>3. Leads(call, s1, s2, s7)
    BY DEF TaskInv, AloneLeads
  <1>4. SaysWithin(f, call.on) /\ f.guid \in Names
    BY <1>2, <1>3 DEF Leads, SaysOf
  <1>5. s2' = After(s, s2) /\ RowsStep(s, call.read, s1, s7, s1', s7')
    BY DEF Effect
  <1>6. t \in Seq(NoLookup)
    BY <1>1 DEF Disciplined
  <1>7. s.op # "lookup"
    BY <1>2, <1>6, TailsIn DEF NoLookup
  <1>8. s.op = "read" => s1[s.guid] \in s.kinds
    BY DEF Effect, Moves
  <1>9. ASSUME NEW x \in Slots(f) PROVE Lands(Tail(t), s2', x)
    <2>1. SlotOn(x, call.on)
      BY <1>4, SlotsFit
    <2>2. Lands(t, s2, x)
      BY <1>3 DEF Leads
    <2> HIDE DEF call, f, t
    <2> QED BY <1>2, <1>5, <2>1, <2>2, OwnLands
  <1>10. WritesRow(t, f, s1[f.guid], s7[f.guid], call.read, call.was)
    BY <1>3 DEF Leads
  <1>11. WritesRow(Tail(t), f, s1'[f.guid], s7'[f.guid], read2, call.was)
    <2> DEFINE read == call.read
               was == call.was
    <2>1. read2 = (IF s.op = "read" THEN s7[s.guid] ELSE read)
      OBVIOUS
    <2> HIDE DEF call, f, t, read2, read, was
    <2> QED BY <1>1, <1>2, <1>4, <1>5, <1>8, <1>10, <2>1, OwnWrites, Zenon DEF read, was
  <1> QED BY <1>4, <1>7, <1>9, <1>11

LEMMA TaskStarts == ASSUME T!Init PROVE TaskInv
  <1>1. T!Idle("ok") \in TaskCalls /\ Disciplined(T!Idle("ok")) /\ ~T!Idle("ok").alone
    BY DEF T!Idle, TaskCalls, Disciplined
  <1> QED BY <1>1 DEF T!Init, TaskInv, AloneLeads

LEMMA CallStarts ==
  ASSUME TaskInv, NEW c \in Callers, NEW q \in s8.requests, T!Start(c, q)
  PROVE  TaskInv'
  <1> DEFINE script == T!Asked(q)
             others == {d \in T!Busy : s5[d].on \cap script.on # {}}
             was == IF script.files = NoRow THEN NoRow ELSE s7[script.files.guid]
             new == [todo |-> script.todo, on |-> script.on, answer |-> "none",
                     alone |-> others = {}, files |-> script.files, read |-> NoRow, was |-> was]
  <1>1. q \in T!RequestType
    BY TaskAssumption DEF TaskInv, T!RequestsAreTyped
  <1>2. SoundScript(script)
    BY <1>1, AskedSound
  <1>3. /\ UNCHANGED <<s1, s2, s7, s8>> /\ c \notin T!Busy
        /\ s5' = [d \in Callers |-> IF d = c THEN new
                                    ELSE IF d \in others THEN [s5[d] EXCEPT !.alone = FALSE]
                                    ELSE s5[d]]
    BY DEF T!Start
  <1>4. \A d \in Callers : d \in others <=> s5[d].todo # <<>> /\ s5[d].on \cap script.on # {}
    BY DEF T!Busy
  <1>5. s5 \in [Callers -> TaskCalls] /\ \A d \in Callers : Disciplined(s5[d])
    BY DEF TaskInv
  <1>6. script.todo \in Seq(TaskStatements)
    <2>1. Within(script.on) \subseteq TaskStatements
      BY DEF Within
    <2> QED BY <1>2, <2>1, WiderSeq DEF SoundScript
  <1>7. script.files # NoRow => script.files.guid \in Names
    BY <1>2 DEF SoundScript, SaysOf
  <1>8. was \in Bodies \cup {NoRow}
    BY <1>7 DEF TaskInv
  <1> HIDE DEF script, others, was
  <1>9. new \in TaskCalls
    BY <1>2, <1>6, <1>8 DEF SoundScript, TaskCalls
  <1>10. Disciplined(new)
    BY <1>2 DEF SoundScript, Disciplined
  <1>11. \A d \in others : [s5[d] EXCEPT !.alone = FALSE] \in TaskCalls
    BY <1>5, Zenon DEF TaskCalls, others, T!Busy
  <1>12. \A d \in others : Disciplined([s5[d] EXCEPT !.alone = FALSE])
    <2> SUFFICES ASSUME NEW d \in others PROVE Disciplined([s5[d] EXCEPT !.alone = FALSE])
      OBVIOUS
    <2> DEFINE e == [s5[d] EXCEPT !.alone = FALSE]
    <2>1. Disciplined(s5[d]) /\ s5[d] \in TaskCalls
      BY <1>5 DEF others, T!Busy
    <2>2. /\ e.todo = s5[d].todo /\ e.on = s5[d].on /\ e.read = s5[d].read
          /\ e.files = s5[d].files
      BY <2>1 DEF TaskCalls
    <2> HIDE DEF e
    <2>3. Disciplined(e)
      BY <2>1, <2>2 DEF Disciplined
    <2> QED BY <2>3 DEF e
  <1> HIDE DEF new
  <1>13. s5' \in [Callers -> TaskCalls] /\ \A d \in Callers : Disciplined(s5'[d])
    BY <1>3, <1>5, <1>9, <1>10, <1>11, <1>12
  <1>14. AloneLeads(c, s5', s1', s2', s7')
    <2> SUFFICES ASSUME new.alone, new.files # NoRow
                 PROVE  Apart(c, s5') /\ Leads(new, s1, s2, s7)
      BY <1>3 DEF AloneLeads, new
    <2>1. others = {} /\ script.files # NoRow
      BY Zenon DEF new
    <2>2. \A d \in Callers \ {c} : s5'[d] = s5[d]
      BY <1>3, <2>1
    <2>3. Apart(c, s5')
      BY <1>3, <1>4, <2>1, <2>2 DEF Apart, new
    <2>4. was = s7[script.files.guid]
      BY <2>1 DEF was
    <2>5. Leads(new, s1, s2, s7)
      BY <1>2, <2>1, <2>4 DEF SoundScript, Leads, Lands, WritesRow, new
    <2> QED BY <2>3, <2>5
  <1>15. ASSUME NEW d \in Callers \ {c} PROVE AloneLeads(d, s5', s1', s2', s7')
    <2>1. CASE d \in others
      <3>1. ~s5'[d].alone
        BY <1>3, <1>5, <2>1 DEF TaskCalls
      <3> QED BY <3>1 DEF AloneLeads
    <2>2. CASE d \notin others
      <3>1. s5'[d] = s5[d] /\ AloneLeads(d, s5, s1, s2, s7)
        BY <1>3, <2>2 DEF TaskInv
      <3>2. ASSUME Apart(d, s5), s5[d].todo # <<>> PROVE Apart(d, s5')
        <4>1. new.on \cap s5[d].on = {}
          BY <1>4, <2>2, <3>2 DEF new
        <4>2. ASSUME NEW e \in Callers \ {c} PROVE s5'[e].todo = s5[e].todo /\ s5'[e].on = s5[e].on
          BY <1>3, <1>5 DEF TaskCalls
        <4> QED BY <1>3, <3>1, <3>2, <4>1, <4>2 DEF Apart
      <3> QED BY <1>3, <3>1, <3>2 DEF AloneLeads
    <2> QED BY <2>1, <2>2
  <1>16. /\ s1' \in [Names -> T!RecordKinds \cup {NoRow}] /\ s7' \in [Names -> Bodies \cup {NoRow}]
         /\ \A g \in Names : s1'[g] # NoRow => s7'[g] \in Bodies
         /\ s2' \in SUBSET (Names \X Names \X T!Links) /\ s8' \in Workloads
    BY <1>3 DEF TaskInv
  <1> QED BY <1>13, <1>14, <1>15, <1>16 DEF TaskInv

LEMMA StatementKeeps ==
  ASSUME TaskInv, NEW c \in Callers, T!Statement(c)
  PROVE  TaskInv'
  <1>1. s5[c].todo # <<>> /\ s5[c].todo \in Seq(Within(s5[c].on))
    BY StatementDoes
  <1> DEFINE call == s5[c]
             s == call.todo[1]
  <1>2. PICK new : Effect(c, s, new)
    BY StatementDoes
  <1>3. call \in TaskCalls /\ Disciplined(call) /\ RowsTyped(s1, s7) /\ s5 \in [Callers -> TaskCalls]
    BY DEF TaskInv, RowsTyped
  <1>4. s \in Within(call.on) /\ s \in TaskStatements
    BY <1>1, TailsIn DEF Within
  <1>5. /\ s5' = [s5 EXCEPT ![c] = new] /\ Moves(call, new, s1, s7)
        /\ RowsStep(s, call.read, s1, s7, s1', s7') /\ s8' = s8
        /\ s2' = After(s, s2) \/ s2' = s2
    BY <1>2 DEF Effect
  <1>6. s.op = "patch" => call.read \in Bodies
    BY <1>1, <1>3, TailsIn DEF Disciplined, NoPatch
  <1>7. RowsTyped(s1', s7')
    BY <1>3, <1>4, <1>5, <1>6, RowsStayTyped, Zenon
  <1>8. After(s, s2) \in SUBSET (Names \X Names \X T!Links)
    <2>1. s.op = "link" => \A e \in s.pairs : <<e[1], e[2], s.kind>> \in Names \X Names \X T!Links
      BY <1>4 DEF TaskStatements
    <2> QED BY <2>1 DEF After, TaskInv
  <1>9. new \in TaskCalls /\ Disciplined(new)
    BY <1>1, <1>3, <1>5, MovedCall
  <1>10. s5'[c] = new /\ \A d \in Callers \ {c} : s5'[d] = s5[d]
    BY <1>3, <1>5
  <1>11. new.on = call.on \/ new.todo = <<>>
    <2>1. T!Idle("ok").todo = <<>> /\ T!Idle("failed").todo = <<>>
      BY DEF T!Idle
    <2> HIDE DEF call
    <2> QED BY <1>3, <1>5, <2>1, MovesOn
  <1>12. AloneLeads(c, s5', s1', s2', s7')
    <2> SUFFICES ASSUME new.alone
                 PROVE  /\ new.answer = "none"
                        /\ new.todo # <<>> /\ new.files # NoRow =>
                             Apart(c, s5') /\ Leads(new, s1', s2', s7')
      BY <1>10 DEF AloneLeads
    <2>1. /\ new # T!Idle("failed") /\ new # T!Idle("ok")
      BY DEF T!Idle
    <2>2. /\ call.alone /\ new.answer = call.answer /\ new.files = call.files
          /\ new.on = call.on /\ new.was = call.was
      <3> HIDE DEF call
      <3> QED BY <1>3, <1>5, <2>1, MovesOn
    <2>3. AloneLeads(c, s5, s1, s2, s7)
      BY DEF TaskInv
    <2>4. new.answer = "none"
      BY <2>2, <2>3 DEF AloneLeads
    <2>5. ASSUME new.files # NoRow PROVE Apart(c, s5') /\ Leads(new, s1', s2', s7')
      <3>1. Apart(c, s5)
        BY <1>1, <2>2, <2>3, <2>5 DEF AloneLeads
      <3>2. Apart(c, s5')
        BY <1>10, <2>2, <3>1 DEF Apart
      <3> DEFINE f == call.files
                 read2 == IF s.op = "read" THEN s7[s.guid] ELSE call.read
      <3>3. /\ s.op # "lookup"
            /\ SaysWithin(f, call.on) /\ \A x \in Slots(f) : Lands(Tail(call.todo), s2', x)
            /\ WritesRow(Tail(call.todo), f, s1'[f.guid], s7'[f.guid], read2, call.was)
        BY <1>1, <1>2, <2>1, <2>2, <2>5, OwnLeads, Zenon
      <3>4. new.todo = Tail(call.todo) /\ new.read = read2
        BY <1>3, <1>5, <2>1, <3>3, Zenon DEF Moves, TaskCalls
      <3>5. Leads(new, s1', s2', s7')
        BY <2>2, <3>3, <3>4 DEF Leads
      <3> QED BY <3>2, <3>5
    <2> QED BY <2>4, <2>5
  <1>13. ASSUME NEW d \in Callers \ {c} PROVE AloneLeads(d, s5', s1', s2', s7')
    <2> SUFFICES ASSUME s5[d].alone, s5[d].todo # <<>>, s5[d].files # NoRow
                 PROVE  Apart(d, s5') /\ Leads(s5[d], s1', s2', s7')
      BY <1>10 DEF AloneLeads, TaskInv
    <2> DEFINE e == s5[d]
               f == e.files
    <2>1. Apart(d, s5) /\ Leads(e, s1, s2, s7)
      BY DEF AloneLeads, TaskInv
    <2>2. call.on \cap e.on = {}
      BY <1>1, <2>1 DEF Apart
    <2>3. Apart(d, s5')
      BY <1>10, <1>11, <2>1, <2>2 DEF Apart
    <2>4. SaysWithin(f, e.on) /\ f \in SaysOf
      BY <1>3, <2>1 DEF Leads, TaskCalls
    <2>5. f.guid \in Names \ call.on
      BY <2>2, <2>4 DEF SaysWithin, SaysOf
    <2>6. s1'[f.guid] = s1[f.guid] /\ s7'[f.guid] = s7[f.guid]
      BY <1>3, <1>4, <1>5, <2>5, OthersKeepRow
    <2>7. ASSUME NEW x \in Slots(f) PROVE Lands(e.todo, s2', x)
      <3>1. Lands(e.todo, s2, x) /\ SlotOn(x, e.on)
        BY <2>1, <2>4, SlotsFit DEF Leads
      <3>2. Lands(e.todo, After(s, s2), x)
        BY <1>4, <2>2, <3>1, OthersLand
      <3> QED BY <1>5, <3>1, <3>2
    <2>8. Leads(e, s1', s2', s7')
      BY <2>1, <2>4, <2>6, <2>7 DEF Leads
    <2> QED BY <2>3, <2>8
  <1>14. \A d \in Callers : Disciplined(s5'[d]) /\ AloneLeads(d, s5', s1', s2', s7')
    BY <1>9, <1>10, <1>12, <1>13, <1>3 DEF TaskInv
  <1>15. s5' \in [Callers -> TaskCalls]
    BY <1>3, <1>5, <1>9
  <1> QED BY <1>5, <1>7, <1>8, <1>14, <1>15, Zenon DEF TaskInv, RowsTyped

LEMMA TaskStep == ASSUME TaskInv, T!Next PROVE TaskInv'
  BY CallStarts, StatementKeeps DEF T!Next

LEMMA TaskRests == ASSUME TaskInv, UNCHANGED <<s1, s2, s5, s7, s8>> PROVE TaskInv'
  BY DEF TaskInv

\* A call with nothing left to do has done what it says.
LEMMA NothingLeft ==
  /\ \A r, x : Lands(<<>>, r, x) => InSlot(r, x) = x.want
  /\ \A f, k, row, read, was : WritesRow(<<>>, f, k, row, read, was) => T!Holds(row, f, was)
  <1>1. DOMAIN <<>> = {}
    OBVIOUS
  <1>2. ASSUME NEW r, NEW x, Lands(<<>>, r, x) PROVE InSlot(r, x) = x.want
    BY <1>1, <1>2 DEF Lands, Places, FillsAfter
  <1>3. ASSUME NEW f, NEW k, NEW row, NEW read, NEW was, WritesRow(<<>>, f, k, row, read, was)
        PROVE  T!Holds(row, f, was)
    BY <1>1, <1>3 DEF WritesRow, Saves, Rereads, Rewrites
  <1> QED BY <1>2, <1>3

\* A slot that holds what f wants names the projects and the records of f.
LEMMA SlotEnds ==
  ASSUME NEW r, NEW f
  PROVE  /\ InSlot(r, Contained(f)) = Contained(f).want
              => T!Projects(r, f.guid) = {f.project} \ {NoRow}
         /\ \A k : InSlot(r, Listed(f, k)) = Listed(f, k).want
                     => T!Named(r, f.guid, k) = f.named[k]
  <1>1. ASSUME InSlot(r, Contained(f)) = Contained(f).want
        PROVE  T!Projects(r, f.guid) = {f.project} \ {NoRow}
    <2> DEFINE A == {f.project} \ {NoRow}
               B == {<<p, f.guid, "contains">> : p \in A}
    <2>1. {y \in r : y[2] = f.guid /\ y[3] = "contains"} = B
      BY <1>1 DEF InSlot, Contained
    <2>2. T!Projects(r, f.guid) = {x[1] : x \in B}
      BY <2>1 DEF T!Projects
    <2>3. \A p : <<p, f.guid, "contains">>[1] = p
      OBVIOUS
    <2>4. {x[1] : x \in B} = A
      <3> HIDE DEF A
      <3> QED BY <2>3, Zenon
    <2> QED BY <2>2, <2>4
  <1>2. ASSUME NEW k, InSlot(r, Listed(f, k)) = Listed(f, k).want
        PROVE  T!Named(r, f.guid, k) = f.named[k]
    <2> DEFINE A == f.named[k]
               B == {<<f.guid, y, k>> : y \in A}
    <2>1. {y \in r : y[1] = f.guid /\ y[3] = k} = B
      BY <1>2 DEF InSlot, Listed
    <2>2. T!Named(r, f.guid, k) = {x[2] : x \in B}
      BY <2>1 DEF T!Named
    <2>3. \A y : <<f.guid, y, k>>[2] = y
      OBVIOUS
    <2>4. {x[2] : x \in B} = A
      <3> HIDE DEF A
      <3> QED BY <2>3, Zenon
    <2> QED BY <2>2, <2>4
  <1> QED BY <1>1, <1>2

\* The action property, in the states that the invariant describes.
LEMMA AnswersFiled == ASSUME TaskInv, T!Next PROVE T!FiledAsAcked
  <1> SUFFICES ASSUME NEW c \in Callers, s5[c].alone, s5[c].files # NoRow, s5'[c].answer = "ok"
               PROVE  LET f == s5[c].files
                      IN  /\ f.project # "kept" => T!Projects(s2', f.guid) = {f.project} \ {NoRow}
                          /\ \A k \in DOMAIN f.named : T!Named(s2', f.guid, k) = f.named[k]
                          /\ T!Holds(s7'[f.guid], f, s5[c].was)
    BY DEF T!FiledAsAcked
  <1> DEFINE call == s5[c]
             f == call.files
             s == call.todo[1]
  <1>1. s5 \in [Callers -> TaskCalls] /\ call.answer = "none"
    BY DEF TaskInv, AloneLeads
  <1>2. ASSUME NEW d \in Callers, NEW q \in s8.requests, T!Start(d, q) PROVE FALSE
    <2>1. s5'[c].answer \in {call.answer, "none"}
      BY <1>1, <1>2 DEF T!Start, TaskCalls
    <2> QED BY <1>1, <2>1
  <1>3. PICK d \in Callers : T!Statement(d)
    BY <1>2 DEF T!Next
  <1>4. PICK new : Effect(d, s5[d].todo[1], new)
    BY <1>3, StatementDoes
  <1>5. d = c
    <2>1. d # c => s5'[c] = s5[c]
      BY <1>1, <1>4 DEF Effect
    <2> QED BY <1>1, <2>1
  <1>6. call.todo # <<>> /\ call.todo \in Seq(Within(call.on))
    BY <1>3, <1>5, StatementDoes
  <1>7. Effect(c, s, new) /\ new.answer = "ok"
    BY <1>1, <1>4, <1>5 DEF Effect
  <1>8. new = T!Idle("ok") /\ Len(call.todo) = 1 /\ s.op \notin {"read", "lookup"}
    <2>1. Moves(call, new, s1, s7) /\ new.answer = "ok" /\ call \in TaskCalls
      BY <1>1, <1>7 DEF Effect
    <2>2. T!Idle("failed").answer # "ok"
      BY DEF T!Idle
    <2> HIDE DEF call
    <2> QED BY <1>1, <2>1, <2>2, MovesOn
  <1>9. new # T!Idle("failed")
    BY <1>7 DEF T!Idle
  <1>10. /\ f.guid \in Names /\ \A x \in Slots(f) : Lands(Tail(call.todo), s2', x)
         /\ WritesRow(Tail(call.todo), f, s1'[f.guid], s7'[f.guid], call.read, call.was)
    BY <1>6, <1>7, <1>8, <1>9, OwnLeads, Zenon
  <1>11. Tail(call.todo) = <<>>
    BY <1>6, <1>8, TailsIn
  <1>12. T!Holds(s7'[f.guid], f, call.was)
    BY <1>10, <1>11, NothingLeft, Zenon
  <1>13. \A x \in Slots(f) : InSlot(s2', x) = x.want
    BY <1>10, <1>11, NothingLeft, Zenon
  <1>14. f.project # "kept" => Contained(f) \in Slots(f)
    BY DEF Slots
  <1>15. \A k \in DOMAIN f.named : Listed(f, k) \in Slots(f)
    BY DEF Slots
  <1> HIDE DEF call, f
  <1>16. f.project # "kept" => T!Projects(s2', f.guid) = {f.project} \ {NoRow}
    BY <1>13, <1>14, SlotEnds, Zenon
  <1>17. \A k \in DOMAIN f.named : T!Named(s2', f.guid, k) = f.named[k]
    BY <1>13, <1>15, SlotEnds
  <1> QED BY <1>12, <1>16, <1>17 DEF call, f

-----------------------------------------------------------------------------
(* One part in each behaviour.                                             *)

RecordsInv ==
    /\ part = "omni" => IInv
    /\ part = "surface" => SurfaceInv
    /\ part = "definition" => DefinitionInv
    /\ part = "store" => StoreInv /\ ReadsInv
    /\ part = "task" => TaskInv

LEMMA RecordsStarts == RecordsInit => RecordsInv
  BY Initially, SurfaceStarts, DefinitionStarts, StoreStarts, ReadsStart, TaskStarts
  DEF RecordsInit, RecordsInv

\* Nothing of a part changes while it rests.
LEMMA RecordsRests ==
  ASSUME RecordsInv, UNCHANGED records
  PROVE  RecordsInv'
  <1>1. part' = part /\ UNCHANGED <<s1, s2, s3, s4, s5, s6, s7, s8>>
    BY DEF records, state
  <1>2. SurfaceInv => SurfaceInv'
    <2>1. \A g : S!IsOwner(g)' = S!IsOwner(g)
      BY <1>1 DEF S!IsOwner
    <2>2. S!Allowed' = S!Allowed /\ S!Defined(s1.def)' = S!Defined(s1.def)
      BY <1>1 DEF S!Allowed, S!AllowedList, S!Defined
    <2>3. \A r : S!Carries(r)' = S!Carries(r)
      BY <2>2 DEF S!Carries
    <2>4. S!TypeOK => S!TypeOK'
      BY <1>1, <2>2, <2>3 DEF S!TypeOK
    <2>5. \A r : S!Checked(r)' = S!Checked(r)
      BY <1>1, <2>1 DEF S!Checked, S!EndpointsFit
    <2>6. S!ChecksHold => S!ChecksHold'
      BY <1>1, <2>1, <2>5 DEF S!ChecksHold, S!OwnersHold
    <2>7. S!PoliciesHold => S!PoliciesHold'
      BY <1>1, <2>1 DEF S!PoliciesHold, S!EndpointsFit
    <2> QED BY <2>4, <2>6, <2>7 DEF SurfaceInv
  <1>3. DefinitionInv => DefinitionInv'
    BY <1>1 DEF DefinitionInv
  <1>4. StoreInv => StoreInv'
    BY <1>1 DEF StoreInv, P!RowsCounted, P!OneWinner, P!Present
  <1>5. ReadsInv => ReadsInv'
    BY <1>1 DEF ReadsInv, P!RowsMade, P!FieldsWellFormed, P!Present
  <1>6. IInv => IInv'
    BY Inductive DEF records
  <1>7. TaskInv => TaskInv'
    BY <1>1, TaskRests
  <1> QED BY <1>1, <1>2, <1>3, <1>4, <1>5, <1>6, <1>7 DEF RecordsInv

LEMMA RecordsStep ==
  ASSUME RecordsInv, RecordsNext
  PROVE  RecordsInv'
  <1>1. part' = part
    BY DEF RecordsNext
  <1>2. CASE part = "surface"
    BY <1>1, <1>2, SurfaceStep DEF RecordsNext, RecordsInv
  <1>3. CASE part = "definition"
    BY <1>1, <1>3, DefinitionStep DEF RecordsNext, RecordsInv
  <1>4. CASE part = "store"
    BY <1>1, <1>4, StoreStep, ReadsStep DEF RecordsNext, RecordsInv
  <1>5. CASE part = "omni"
    BY <1>1, <1>5, Inductive DEF RecordsNext, RecordsInv
  <1>6. CASE part = "task"
    BY <1>1, <1>6, TaskStep DEF RecordsNext, RecordsInv
  <1>7. CASE part \notin {"surface", "definition", "store", "omni", "task"}
    BY <1>1, <1>7 DEF RecordsInv
  <1> QED BY <1>2, <1>3, <1>4, <1>5, <1>6, <1>7

LEMMA RecordsKept == RecordsSpec => []RecordsInv
  <1>1. RecordsInv /\ [RecordsNext]_records => RecordsInv'
    BY RecordsStep, RecordsRests
  <1> QED BY <1>1, RecordsStarts, PTL DEF RecordsSpec

\* An accepted definition is safe to run: fields do not write over each other's
\* paths, columns and indexes have one owner, and what its statements name is in
\* the table that the generated schema makes (AcceptedIsSafe).
THEOREM AcceptedDefinitionsAreSafe == RecordsSpec => []AcceptedIsSafe
  <1>1. RecordsInv => AcceptedIsSafe
    BY AcceptedAreSafe DEF RecordsInv, AcceptedIsSafe
  <1> QED BY <1>1, RecordsKept, PTL

\* Of the updates that expect the same revision of a row at most one is
\* acknowledged, whatever calls interleave their statements (OneWinner).
THEOREM SwapsHaveOneWinner == RecordsSpec => []OneWinner
  <1>1. RecordsInv => OneWinner
    BY DEF RecordsInv, StoreInv, OneWinner
  <1> QED BY <1>1, RecordsKept, PTL

\* Whatever mixture of raw payload and inputs a row was created and patched from,
\* each of its fields reads as a canonical value of its codec, null only where it
\* is nullable, and the pages of every list hold each matching row once, whatever
\* the sort (RowsReadBack).
THEOREM RowsStayReadable == RecordsSpec => []RowsReadBack
  <1>1. RecordsInv => RowsReadBack
    BY ListsCover DEF RecordsInv, ReadsInv, RowsReadBack
  <1> QED BY <1>1, RecordsKept, PTL

\* An update that is acknowledged has written the fields that its patch names and
\* nothing else of the payload, and the revision of an owner tells every change of
\* the content of its extension (SwapsLand).
THEOREM SwapsLandAsNamed == RecordsSpec => SwapsLand
  <1>1. RecordsInv /\ [RecordsNext]_records =>
          [/\ part = "store" => P!LandsAsNamed
           /\ part = "omni" => ContentMovesRevision]_records
    <2> SUFFICES ASSUME RecordsInv, RecordsNext
                 PROVE  /\ part = "store" => P!LandsAsNamed
                        /\ part = "omni" => ContentMovesRevision
      OBVIOUS
    <2>1. part = "store" => P!LandsAsNamed
      BY SwapsWrite DEF RecordsInv, RecordsNext
    <2>2. part = "omni" => ContentMovesRevision
      BY ContentMoves DEF RecordsInv, RecordsNext
    <2> QED BY <2>1, <2>2
  <1> QED BY <1>1, RecordsKept, PTL DEF RecordsSpec, SwapsLand

\* What the policies of an application checked in the transaction of a mutation
\* holds after it and stays so, through the mutations of other callers and the
\* services of plain records and relations (PoliciesHold).
THEOREM PoliciesAreKept == RecordsSpec => []PoliciesHold
  <1>1. RecordsInv => PoliciesHold
    BY DEF RecordsInv, SurfaceInv, PoliciesHold
  <1> QED BY <1>1, RecordsKept, PTL

\* A call of the relation surface makes, changes and deletes only rows that the
\* surface sees, and moves none to another kind (StaysInSurface).
THEOREM SurfaceKeepsToItsRows == RecordsSpec => StaysInSurface
  <1>1. RecordsInv /\ [RecordsNext]_records => [part = "surface" => S!StaysInSurface]_records
    BY SurfaceStays DEF RecordsInv, RecordsNext
  <1> QED BY <1>1, RecordsKept, PTL DEF RecordsSpec, StaysInSurface

\* An acknowledged call of the Task App that no other call on the same records
\* overlapped leaves its record filed, naming records and written exactly as it
\* said, whatever earlier calls failed half way (AckedAsFiled).
THEOREM AckedCallsAreFiled == RecordsSpec => AckedAsFiled
  <1>1. RecordsInv /\ [RecordsNext]_records => [part = "task" => T!FiledAsAcked]_records
    BY AnswersFiled DEF RecordsInv, RecordsNext
  <1> QED BY <1>1, RecordsKept, PTL DEF RecordsSpec, AckedAsFiled
=============================================================================
