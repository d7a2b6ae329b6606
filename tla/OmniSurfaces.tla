---------------------------- MODULE OmniSurfaces ----------------------------
(***************************************************************************)
(* examples/omnikernel: the generated surfaces over the shared tables of   *)
(* one scope.  An extension surface owns the records of the reserved kind, *)
(* a relation surface some kinds of relation between them.  Both may have  *)
(* a lifecycle: policies of the application, run in the transaction of the *)
(* mutation, that read through manager-bound readers.  The policies here:  *)
(* no two extensions have the same content, and a relation starts at an    *)
(* extension.  The services of plain records and relations write the same  *)
(* tables.                                                                 *)
(***************************************************************************)
EXTENDS Naturals, Sequences, FiniteSets, FiniteSetsExt

CONSTANTS
    Callers, Guids,
    Reserved, Note,     \* kinds of records: of the extension, and any other
    Kinds,              \* kinds of relation
    Source, Target,     \* the endpoints of the one edge
    RevMax,             \* bound: revisions
    Setups,             \* what applications define: see setup
    None

\* The status and the schema of a surface are both fixed columns: one stands
\* for the two.
VARIABLES
    setup,      \* [def, lifecycle, catalog], and as bounds [values, edges, reads]
    recs,       \* omni-record: [kind, rev]
    exts,       \* the extension table: its content
    rel,        \* omni-relation: [kind, status, rev] of the edge
    calls,
    stale,      \* callers whose reads a serializable transaction overwrote
    made,       \* history: the edge was made through the surface
    versions    \* history: <<guid, revision, content>> that were committed

tables == <<recs, exts, rel>>
vars == <<setup, recs, exts, rel, calls, stale, made, versions>>

-----------------------------------------------------------------------------
(* Definitions and their wiring.                                           *)

\* getOmniRelationProjectionAllowedKinds(): the legacy kind is a list of one.
AllowedList(d) == IF d.allowed # None THEN d.allowed ELSE <<d.kind>>

Defined(d) ==
    /\ d.kind = None \/ d.allowed = None
    /\ AllowedList(d) # <<>>
    /\ \A k, n \in DOMAIN AllowedList(d) : AllowedList(d)[k] = AllowedList(d)[n] => k = n
    /\ \A k \in DOMAIN AllowedList(d) : AllowedList(d)[k] \in Kinds

Allowed == LET l == AllowedList(setup.def) IN {l[k] : k \in DOMAIN l}

\* What a row must be for the surface to see it: definitionFilters().  The
\* schema is one more fixed column, like the status.
Fits(r) == r # None /\ r.kind \in Allowed /\ r.status = "active"

\* A lifecycle's readers: all registered surfaces with a catalog, else its own.
Reads(surface) == IF setup.catalog THEN {"extension", "relation"} ELSE {surface}

\* The mutations of a service with a lifecycle are serializable transactions.
Isolated == setup.lifecycle

-----------------------------------------------------------------------------
(* Rows.                                                                   *)

IsOwner(g) == recs[g] # None /\ recs[g].kind = Reserved

\* The extension reader takes rows first and then drops those without owner.
TakesFrom(rows, take) == {s \in SUBSET rows : Cardinality(s) = IF take < Cardinality(rows) THEN take ELSE Cardinality(rows)}
ReaderFinds(v, others) ==
    \E s \in TakesFrom({g \in others : exts[g] = v}, 1) : \E g \in s : IsOwner(g)

\* Foreign keys: a relation holds its records, an extension goes with its owner.
Held(g) == rel # None /\ g \in {Source, Target}

Idle == [pc |-> "idle"]
At(c, pc) == calls[c].pc = pc
Goto(c, call) == calls' = [calls EXCEPT ![c] = call]

Init ==
    /\ setup \in {x \in Setups : Defined(x.def)}
    /\ recs = [g \in Guids |-> None]
    /\ exts = [g \in Guids |-> None]
    /\ rel = None
    /\ calls = [c \in Callers |-> Idle]
    /\ stale = {} /\ made = FALSE /\ versions = {}

\* A call that checked what it needs goes on to its write.
Check(c, ok, call) ==
    /\ At(c, "idle") /\ ok /\ Goto(c, call)
    /\ stale' = stale \ {c}
    /\ UNCHANGED <<setup, recs, exts, rel, made, versions>>

\* Mutant: transactions of the default isolation level.
CommitsAnyway(c) == TRUE

\* A serializable transaction fails when another one overwrote what it read.
Commits(c) == ~(Isolated /\ c \in stale)

\* The write of call c, if it commits and its conditions hold: others that are
\* still to write have read what it overwrites.
Write(c, pc, ok, writes) ==
    /\ At(c, pc)
    /\ IF Commits(c) /\ ok
         THEN writes /\ stale' = {d \in Callers \ {c} : Isolated /\ calls[d].pc # "idle"}
         ELSE UNCHANGED <<recs, exts, rel, made, versions, stale>>
    /\ Goto(c, Idle)
    /\ UNCHANGED setup

Committed(g, rev, v) == versions' = IF setup.reads THEN versions \cup {<<g, rev, v>>} ELSE {}

Row(k, rev) == [kind |-> k, rev |-> rev]

-----------------------------------------------------------------------------
(* The extension surface.                                                  *)

PolicyAllows(v, others) == setup.lifecycle => ~ReaderFinds(v, others)

CheckExtend(c, g, v) ==
    Check(c, PolicyAllows(v, Guids) /\ (IF recs[g] = None THEN TRUE ELSE recs[g].rev < RevMax),
          [pc |-> "extend", guid |-> g, value |-> v, found |-> recs[g]])

\* save() writes over the record that it found, or inserts.
Extend(c) ==
    LET r   == calls[c]
        own == IF r.found = None THEN Row(Reserved, 1)
               ELSE IF r.found.kind = Reserved THEN recs[r.guid]
               ELSE Row(Reserved, recs[r.guid].rev + 1)
    IN  Write(c, "extend",
              /\ (r.found = None) <=> (recs[r.guid] = None)
              /\ Isolated => r.found = recs[r.guid],
              /\ recs' = [recs EXCEPT ![r.guid] = own]
              /\ exts' = [exts EXCEPT ![r.guid] = r.value]
              /\ Committed(r.guid, own.rev, r.value)
              /\ UNCHANGED <<rel, made>>)

CheckPatch(c, g, v) ==
    Check(c, /\ IsOwner(g) /\ exts[g] # None /\ recs[g].rev < RevMax
             /\ PolicyAllows(v, Guids \ {g}),
          [pc |-> "patch", guid |-> g, value |-> v, rev |-> recs[g].rev])

Patch(c) ==
    LET r == calls[c] IN
    Write(c, "patch", IsOwner(r.guid) /\ recs[r.guid].rev = r.rev,
          /\ recs' = [recs EXCEPT ![r.guid].rev = @ + 1]
          /\ exts' = [exts EXCEPT ![r.guid] = r.value]
          /\ Committed(r.guid, r.rev + 1, r.value)
          /\ UNCHANGED <<rel, made>>)

CheckErase(c, g) == Check(c, IsOwner(g) /\ exts[g] # None, [pc |-> "erase", guid |-> g])

Erase(c) ==
    LET g == calls[c].guid IN
    Write(c, "erase", IsOwner(g) /\ ~Held(g),
          /\ recs' = [recs EXCEPT ![g] = None]
          /\ exts' = [exts EXCEPT ![g] = None]
          /\ UNCHANGED <<rel, made, versions>>)

\* A get or a list reads the rows of the extension in one query ...
ReadRows(c, gs) ==
    /\ setup.reads /\ \E g \in gs : exts[g] # None
    /\ Check(c, TRUE, [pc |-> "rows", value |-> [g \in {x \in gs : exts[x] # None} |-> exts[g]]])

\* ... and their owners in another: an answer has the content of the first and
\* the revision of the second.  A row whose owner is gone by then is null for
\* a get, and fails a list.
ReadOwners(c) ==
    LET rows == calls[c].value IN
    /\ At(c, "rows")
    /\ Goto(c, IF \A g \in DOMAIN rows : IsOwner(g)
                 THEN [pc |-> "answered", answer |-> {<<g, recs[g].rev, rows[g]>> : g \in DOMAIN rows}]
                 ELSE Idle)
    /\ UNCHANGED <<setup, recs, exts, rel, stale, made, versions>>

Answered(c) ==
    /\ At(c, "answered") /\ Goto(c, Idle)
    /\ UNCHANGED <<setup, recs, exts, rel, stale, made, versions>>
-----------------------------------------------------------------------------
(* The relation surface.  A request names fields, by public or native name. *)

PublicName == [linkKind |-> "kind", metadata |-> "payload"]
Aliases == IF setup.def.aliased THEN DOMAIN PublicName ELSE {}

\* normalizeInput() refuses an alias beside its native name.
Normalized(names) == {IF n \in Aliases THEN PublicName[n] ELSE n : n \in names}
Ambiguous(names)  == \E n \in names \cap Aliases : PublicName[n] \in names
Unknown(names)    == names \cap (DOMAIN PublicName \ Aliases) # {}

\* Mutant: the fields are looked at before their aliases are resolved.
RejectsNames(names) == names \cap {"kind", "status"} # {}

\* rejectFixedFields(), on an update.
RejectsFixed(names) == Normalized(names) \cap {"kind", "status"} # {}

\* selectCreateKind(): only a surface of several kinds is told which.
Selected(k) == IF Len(AllowedList(setup.def)) = 1
                 THEN IF k = None THEN Allowed ELSE {}
                 ELSE Allowed \cap {k}

\* assertRelation(), and the policy, which reads extensions.
EndpointsFit == IsOwner(Source) /\ IsOwner(Target)
Related ==
    /\ setup.edges /\ EndpointsFit
    /\ setup.lifecycle => "extension" \in Reads("relation") /\ exts[Source] # None

CheckLink(c, k) ==
    \E kind \in Selected(k) : Check(c, Related, [pc |-> "link", row |-> [kind |-> kind, status |-> "active", rev |-> 1]])

Link(c) ==
    Write(c, "link", rel = None /\ recs[Source] # None /\ recs[Target] # None,
          rel' = calls[c].row /\ made' = TRUE /\ UNCHANGED <<recs, exts, versions>>)

CheckRelink(c, names, kind) ==
    /\ Fits(rel) /\ rel.rev < RevMax
    /\ names # {} /\ ~Ambiguous(names) /\ ~Unknown(names) /\ ~RejectsFixed(names)
    /\ Check(c, Related, [pc |-> "relink", rev |-> rel.rev,
                          kind |-> IF "kind" \in Normalized(names) THEN kind ELSE None])

Relink(c) ==
    Write(c, "relink", Fits(rel) /\ rel.rev = calls[c].rev,
          /\ rel' = [rel EXCEPT !.kind = IF calls[c].kind = None THEN @ ELSE calls[c].kind, !.rev = @ + 1]
          /\ UNCHANGED <<recs, exts, made, versions>>)

CheckUnlink(c) == Fits(rel) /\ Check(c, TRUE, [pc |-> "unlink", found |-> rel])

\* Without a lifecycle one statement deletes what fits; with one, a row that
\* changed since it was read conflicts.
Unlink(c) ==
    Write(c, "unlink", Fits(rel) /\ (Isolated => rel = calls[c].found),
          rel' = None /\ UNCHANGED <<recs, exts, made, versions>>)

-----------------------------------------------------------------------------
(* The services of plain records and relations, one call at a time: they   *)
(* leave records of the reserved kind alone, and know no surfaces.          *)

PlainRecord(g) ==
    /\ setup.edges
    /\ IF recs[g] = None THEN TRUE ELSE recs[g].kind = Note /\ ~Held(g)
    /\ recs' = [recs EXCEPT ![g] = IF @ = None THEN Row(Note, 1) ELSE None]
    /\ UNCHANGED <<exts, rel, made>>

PlainRelation(kind, status) ==
    /\ setup.edges /\ recs[Source] # None /\ recs[Target] # None
    /\ IF rel = None THEN TRUE ELSE rel.rev < RevMax /\ <<kind, status>> # <<rel.kind, rel.status>>
    /\ rel' = [kind |-> kind, status |-> status, rev |-> IF rel = None THEN 1 ELSE rel.rev + 1]
    /\ made' = FALSE
    /\ UNCHANGED <<recs, exts>>

PlainUnlink == rel # None /\ rel' = None /\ UNCHANGED <<recs, exts, made>>

Plain ==
    /\ \/ \E g \in Guids : PlainRecord(g)
       \/ \E kind \in Kinds, status \in {"active", "archived"} : PlainRelation(kind, status)
       \/ PlainUnlink
    /\ UNCHANGED <<setup, calls, stale, versions>>

Extension(c) ==
    \/ \E g \in Guids : \/ \E v \in setup.values[g] : CheckExtend(c, g, v) \/ CheckPatch(c, g, v)
                        \/ CheckErase(c, g)
    \/ \E gs \in {Guids} \cup {{g} : g \in Guids} : ReadRows(c, gs)
    \/ Extend(c) \/ Patch(c) \/ Erase(c) \/ ReadOwners(c) \/ Answered(c)

Relation(c) ==
    \/ \E k \in Kinds \cup {None} : CheckLink(c, k)
    \/ \E names \in SUBSET ({"kind", "payload"} \cup DOMAIN PublicName), k \in Kinds : CheckRelink(c, names, k)
    \/ CheckUnlink(c) \/ Link(c) \/ Relink(c) \/ Unlink(c)

Next == Plain \/ \E c \in Callers : Extension(c) \/ Relation(c)

Spec == Init /\ [][Next]_vars

-----------------------------------------------------------------------------
(* Correctness.                                                            *)

\* What a policy checked before a write holds after it, whatever other
\* mutations and plain services do meanwhile: no two extensions have the same
\* content, and an edge made through the surface joins two extensions, for as
\* long as it is there.
PoliciesHold ==
    setup.lifecycle =>
        /\ \A g, h \in Guids : exts[g] = exts[h] => g = h \/ exts[g] = None
        /\ made /\ rel # None => EndpointsFit

\* A call of the relation surface makes, changes and deletes only rows that
\* the surface sees, and never moves one to another kind, although rows come
\* and go between its look at them and its write.
StaysInSurface ==
    \A c \in Callers :
        /\ calls[c].pc \in {"link", "relink", "unlink"} /\ calls'[c] # calls[c] /\ rel' # rel
        => /\ rel # None  => Fits(rel)
           /\ rel' # None => Fits(rel')
           /\ rel # None /\ rel' # None => rel'.kind = rel.kind

Contents    == UNION {UNION {x.values[g] : g \in Guids} : x \in Setups}
RecordRow   == [kind : {Reserved, Note}, rev : Nat]
RelationRow == [kind : Kinds, status : {"active", "archived"}, rev : Nat]

\* What a call carries from its check to its write.
Carries(r) ==
    /\ r.pc \in {"extend", "patch"} => r.guid \in Guids /\ r.value \in Contents
    /\ r.pc = "extend" => r.found \in RecordRow \cup {None}
    /\ r.pc = "erase" => r.guid \in Guids
    /\ r.pc = "link" => r.row \in RelationRow /\ r.row.kind \in Allowed /\ r.row.status = "active"
    /\ r.pc = "relink" => r.kind = None

TypeOK ==
    /\ setup \in Setups /\ Defined(setup.def)
    /\ recs \in [Guids -> RecordRow \cup {None}]
    /\ exts \in [Guids -> Contents \cup {None}]
    /\ rel \in RelationRow \cup {None}
    /\ calls = [c \in Callers |-> calls[c]] /\ \A c \in Callers : Carries(calls[c])

OwnersHold == \A g \in Guids : exts[g] # None => IsOwner(g)

\* What a policy read for a call, of which nothing was overwritten since.
Checked(r) ==
    /\ r.pc = "extend" => \A g \in Guids : exts[g] # r.value
    /\ r.pc = "patch"  => \A g \in Guids \ {r.guid} : exts[g] # r.value
    /\ r.pc = "link"   => EndpointsFit

ChecksHold == setup.lifecycle => OwnersHold /\ \A c \in Callers \ stale : Checked(calls[c])

\* An answer has the content that its revision had: an update that expects the
\* revision it was answered knows what it replaces.
AnswersAreCommitted ==
    \A c \in Callers : At(c, "answered") => calls[c].answer \subseteq versions
=============================================================================
