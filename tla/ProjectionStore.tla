--------------------------- MODULE ProjectionStore ---------------------------
(***************************************************************************)
(* crud-gen: scoped JSON projections.  One declared resource, one trusted  *)
(* scope: a table of rows keyed by guid, each with a revision, the values  *)
(* of its column fields and a JSON payload that holds its other fields at  *)
(* declared paths.  Callers run ProjectionResourceService operations; an   *)
(* operation is as many steps as it has awaited statements, and the        *)
(* statements of different callers interleave.                             *)
(***************************************************************************)
EXTENDS Naturals, Sequences, FiniteSets, TLC, FiniteSetsExt, SequencesExt, JsonPaths

CONSTANTS
    Callers,        \* concurrent requests
    Guids,          \* identities, naturals, so that they are ordered
    Columns,        \* fields stored in a physical column
    Jsons,          \* fields stored in the payload
    Path,           \* the declared path of each field of Jsons
    Nullable,       \* the other fields are required on create
    Inputs,         \* by field: the values a request may carry, null aside
    Canon,          \* the codec: the canonical value of an input, or Refused
    Seeds,          \* raw payloads of create requests
    Lists,          \* the list requests
    RevMax,         \* PROJECTION_INTEGER_MAX
    Setups,         \* what takes part, see setup
    Null, Refused, NoRow, NoSeed

VARIABLES
    setup,          \* dialect, whether (scope, guid) is the primary key; bounds:
                    \* callers, identities, lives (how often one is created)
    rows,           \* the table, by guid
    calls,          \* the request each caller has in progress
    inc,            \* history: how often each identity was inserted
    won             \* history: the acknowledged revision swaps of each life

vars == <<setup, rows, calls, inc, won>>

Fields == Columns \cup Jsons

DefinitionIsValid ==
    /\ Columns \cap Jsons = {} /\ Nullable \subseteq Fields
    /\ RevMax \in Nat \ {0, 1} /\ IsFiniteSet(Jsons)
    /\ \A f \in Jsons : Path[f] \in Seq(STRING) \ {<<>>}
    /\ \A f, g \in Jsons : f # g => ~Overlap(Path[f], Path[g])

-----------------------------------------------------------------------------
(* Payloads and rows.                                                      *)

Norm(f, v) == IF v # Null THEN Canon[v]
              ELSE IF f \in Nullable THEN Null ELSE Refused

Accepted(in) == \A f \in DOMAIN in : Norm(f, in[f]) # Refused

JsonPatched(doc, patch) ==
    LET put(f, d) == IF setup.dialect = "sqlite"
                       THEN SqliteSet(d, Path[f], Norm(f, patch[f]))
                       ELSE PostgresSet(d, Path[f], Norm(f, patch[f]))
    IN  FoldSet(put, doc, DOMAIN patch \cap Jsons)

\* createPayload: the seed, then the inputs at their paths.  Raw payloads are
\* JSON, where a value the codec accepts is canonical already.
Payload(in, seed) ==
    LET put(f, d) == SetPath(d, Path[f], Norm(f, in[f]))
    IN  FoldSet(put, IF seed = NoSeed THEN <<>> ELSE seed, DOMAIN in \cap Jsons)

\* Mutant: declared paths of the raw payload are not validated.
CreatableUnchecked(in, seed) ==
    /\ Accepted(in)
    /\ \A f \in Fields \ Nullable : f \in DOMAIN in
    /\ seed # NoSeed => \A f \in Jsons : At(seed, Path[f]) # Missing => f \notin DOMAIN in

Creatable(in, seed) ==
    /\ Accepted(in)
    /\ \A f \in Fields \ Nullable : f \in DOMAIN in
    /\ seed # NoSeed => \A f \in Jsons :
          LET v == At(seed, Path[f]) IN
          /\ v # Missing => f \notin DOMAIN in
          /\ v # Missing => v # Obj /\ Norm(f, v) # Refused

NewRow(in, seed) ==
    [rev |-> 1,
     col |-> [f \in Columns |-> IF f \in DOMAIN in THEN Norm(f, in[f]) ELSE Null],
     doc |-> Payload(in, seed)]

Project(row, f) ==
    IF f \in Columns THEN row.col[f]
    ELSE LET v == At(row.doc, Path[f])
         IN  IF v = Missing /\ f \in Nullable THEN Null ELSE v

Patched(row, patch) ==
    [rev |-> row.rev + 1,
     col |-> [f \in Columns |-> IF f \in DOMAIN patch THEN Norm(f, patch[f])
                                ELSE row.col[f]],
     doc |-> JsonPatched(row.doc, patch)]

-----------------------------------------------------------------------------
(* Queries: conjunctive equality filters, declared sorting, paging.        *)

Valid(f) == {Canon[v] : v \in {w \in Inputs[f] : Canon[w] # Refused}}

Readable(f) == Valid(f) \cup (IF f \in Nullable THEN {Null} ELSE {})

\* What codecs and raw payloads are: a codec yields scalars, and what it accepts
\* of JSON it leaves as it is.
CodecsAreSound ==
    /\ Missing # Null /\ \A f \in Fields : Valid(f) \subseteq Nat \ {Missing}
    /\ \A seed \in Seeds : DOMAIN seed \subseteq Seq(STRING)
    /\ \A seed \in Seeds, f \in Jsons :
          LET v == At(seed, Path[f])
          IN  v \notin {Missing, Obj} /\ Norm(f, v) # Refused => v \in Readable(f)

Filters == {<<>>} \cup UNION {{f :> v : v \in Valid(f)} : f \in Fields}
Sorts   == {<<>>} \cup (Fields \X {"ASC", "DESC"})

Present == {g \in Guids : rows[g] # NoRow}

Matches(q) == {g \in Present : \A f \in DOMAIN q.filter :
                                 Project(rows[g], f) = q.filter[f]}

\* NULLs sort first in SQLite and last in PostgreSQL; canonical values are
\* naturals, so that they are ordered.
Rank(v) == IF v # Null THEN v + 1
           ELSE IF setup.dialect = "sqlite" THEN 0 ELSE 1000

Less(sort, g, h) ==
    LET r(x) == Rank(Project(rows[x], sort[1])) IN
    IF sort # <<>> /\ r(g) # r(h)
      THEN IF sort[2] = "ASC" THEN r(g) < r(h) ELSE r(h) < r(g)
      ELSE g < h

\* A list in which no row is before one that sorts first, and its page.
Listed(q) ==
    LET all == CHOOSE s \in SetToSeqs(Matches(q)) :
                   \A i, j \in DOMAIN s : i < j => ~Less(q.sort, s[j], s[i])
    IN  SubSeq(all, q.skip + 1, Min({Len(all), q.skip + q.take}))

-----------------------------------------------------------------------------
(* Requests.                                                               *)

Idle(c, answer) == calls' = [calls EXCEPT ![c] = [pc |-> "idle", ans |-> answer]]
Busy(c, call)   == calls' = [calls EXCEPT ![c] = call]
IsIdle(c)       == c \in setup.callers /\ calls[c].pc = "idle"

Init ==
    /\ setup \in Setups
    /\ rows = [g \in Guids |-> NoRow]
    /\ calls = [c \in Callers |-> [pc |-> "idle", ans |-> "ok"]]
    /\ inc = [g \in Guids |-> 0]
    /\ won = {}

Saving(g) == {c \in Callers : calls[c].pc = "save" /\ calls[c].guid = g}

\* repository.save looks the row up first when its key is (scope, guid), and
\* leaves out the columns the request does not give.
Create(c, g, in, seed) ==
    /\ IsIdle(c) /\ inc[g] + Cardinality(Saving(g)) < setup.lives
    /\ IF Creatable(in, seed)
         THEN Busy(c, [pc |-> "save", guid |-> g, row |-> NewRow(in, seed),
                       given |-> DOMAIN in \cap Columns,
                       found |-> IF setup.keyed THEN rows[g] ELSE NoRow])
         ELSE Idle(c, "invalid")
    /\ UNCHANGED <<setup, rows, inc, won>>

Insert(c) ==
    /\ calls[c].pc = "save" /\ calls[c].found = NoRow
    /\ IF calls[c].guid \in Present
         THEN /\ Idle(c, "conflict")
              /\ UNCHANGED <<rows, inc, won>>
         ELSE /\ rows' = [rows EXCEPT ![calls[c].guid] = calls[c].row]
              /\ inc' = [inc EXCEPT ![calls[c].guid] = @ + 1]
              /\ won' = {w \in won : w[1] # calls[c].guid}
              /\ Idle(c, "ok")
    /\ UNCHANGED setup

\* What save() makes of a row: it takes what is given and differs from the row
\* that was found.
Merged(call, was, rev) ==
    [rev |-> rev,
     col |-> [f \in Columns |-> IF f \in call.given /\ call.row.col[f] # call.found.col[f]
                                THEN call.row.col[f] ELSE was.col[f]],
     doc |-> IF call.row.doc # call.found.doc THEN call.row.doc ELSE was.doc]

\* The row is updated.  A revision that was found past 1 is set back to 1; one
\* found at 1 stays, or is counted up (below RevMax) where the entity declares it
\* its version column.
Overwrite(c) ==
    /\ calls[c].pc = "save" /\ calls[c].found # NoRow
    /\ LET g == calls[c].guid IN
       IF g \in Present
         THEN \E r \in (IF calls[c].found.rev # 1 THEN {1}
                        ELSE {rows[g].rev, rows[g].rev + 1} \cap 1 .. RevMax) :
                rows' = [rows EXCEPT ![g] = Merged(calls[c], rows[g], r)]
         ELSE UNCHANGED rows
    /\ Idle(c, "ok")
    /\ UNCHANGED <<setup, inc, won>>

Updatable(patch, expected) ==
    /\ expected \in 1 .. RevMax - 1
    /\ patch # <<>>
    /\ Accepted(patch)

\* Mutant: the UPDATE matches scope and identity only.
UpdateUnconditionally(c, g, patch, expected) ==
    /\ IsIdle(c) /\ Updatable(patch, expected) /\ g \in Present
    /\ rows' = [rows EXCEPT ![g] = Patched(@, patch)]
    /\ won' = won \cup {<<g, expected>>}
    /\ Busy(c, [pc |-> "missed", guid |-> g])
    /\ UNCHANGED <<setup, inc>>

\* One UPDATE that matches scope, identity and revision.
Update(c, g, patch, expected) ==
    /\ IsIdle(c)
    /\ IF ~Updatable(patch, expected)
         THEN /\ Idle(c, "invalid")
              /\ UNCHANGED <<rows, won>>
         ELSE IF rows[g] # NoRow /\ rows[g].rev = expected
         THEN /\ rows' = [rows EXCEPT ![g] = Patched(@, patch)]
              /\ won' = won \cup {<<g, expected>>}
              /\ Busy(c, [pc |-> "reread", guid |-> g, patch |-> [f \in DOMAIN patch |-> Norm(f, patch[f])]])
         ELSE /\ Busy(c, [pc |-> "missed", guid |-> g])
              /\ UNCHANGED <<rows, won>>
    /\ UNCHANGED <<setup, inc>>

Reread(c) ==
    /\ calls[c].pc = "reread"
    /\ Idle(c, IF calls[c].guid \in Present THEN "ok" ELSE "not found")
    /\ UNCHANGED <<setup, rows, inc, won>>

Missed(c) ==
    /\ calls[c].pc = "missed"
    /\ Idle(c, IF calls[c].guid \in Present THEN "conflict" ELSE "not found")
    /\ UNCHANGED <<setup, rows, inc, won>>

Delete(c, g) ==
    /\ IsIdle(c)
    /\ rows' = [rows EXCEPT ![g] = NoRow]
    /\ Idle(c, IF g \in Present THEN "ok" ELSE "not found")
    /\ UNCHANGED <<setup, inc, won>>

Get(c, g) ==
    /\ IsIdle(c)
    /\ Idle(c, IF g \in Present THEN "ok" ELSE "not found")
    /\ UNCHANGED <<setup, rows, inc, won>>

\* The page is read first and the matching rows are counted by a second
\* statement.
List(c, q) ==
    /\ IsIdle(c)
    /\ Busy(c, [pc |-> "count", page |-> Listed(q)])
    /\ UNCHANGED <<setup, rows, inc, won>>

Count(c) ==
    /\ calls[c].pc = "count"
    /\ Idle(c, "ok")
    /\ UNCHANGED <<setup, rows, inc, won>>

Patches == {p \in UNION {[D -> (UNION {Inputs[f] : f \in D}) \cup {Null}] : D \in SUBSET Fields} :
              \A f \in DOMAIN p : p[f] \in Inputs[f] \cup {Null}}

Request(c) ==
    \E g \in setup.guids :
        \/ \E in \in Patches, seed \in Seeds \cup {NoSeed} : Create(c, g, in, seed)
        \/ \E patch \in Patches, e \in 0 .. RevMax : Update(c, g, patch, e)
        \/ Delete(c, g)
        \/ Get(c, g)

Continue(c) == Insert(c) \/ Overwrite(c) \/ Reread(c) \/ Missed(c) \/ Count(c)

Next == \E c \in Callers :
           \/ Request(c)
           \/ \E q \in Lists : List(c, q)
           \/ Continue(c)

Spec == Init /\ [][Next]_vars

-----------------------------------------------------------------------------
(* Correctness.                                                            *)

WellFormed(row) == \A f \in Fields : Project(row, f) \in Readable(f)

\* Every row reads back as a well-formed resource: each declared field has a
\* canonical value of its codec, null only where it is nullable, whatever
\* mixture of raw payload and projected inputs it was created and patched from.
FieldsWellFormed ==
    \A g \in Present :
        /\ rows[g].rev \in 1 .. RevMax
        /\ WellFormed(rows[g])

\* Optimistic concurrency: a record at revision r was swapped exactly once from
\* each of the revisions 1 .. r-1 of this life of its identity; of two updates
\* that expect one revision, at most one is acknowledged.
OneWinner ==
    ~setup.keyed =>
        \A g \in Present :
            {w[2] : w \in {u \in won : u[1] = g}} = 1 .. rows[g].rev - 1

\* What the statements of a call rely on: a row is created at revision 1, and
\* found before it is only where it has its identity as its key.
RowsCounted ==
    /\ rows = [g \in Guids |-> rows[g]] /\ calls = [c \in Callers |-> calls[c]]
    /\ \A g \in Present : rows[g].rev \in Nat \ {0}
    /\ \A c \in Callers : calls[c].pc = "save" =>
          /\ calls[c].guid \in Guids
          /\ "rev" \in DOMAIN calls[c].row /\ calls[c].row.rev = 1
          /\ calls[c].found # NoRow => setup.keyed

\* A create that is accepted carries a row that is well-formed; payloads are
\* documents.
IsRow(row) ==
    /\ row = [rev |-> row.rev, col |-> row.col, doc |-> row.doc]
    /\ DOMAIN row.doc \subseteq Seq(STRING)

RowsMade ==
    /\ \A g \in Present : IsRow(rows[g])
    /\ \A c \in Callers : calls[c].pc = "save" => IsRow(calls[c].row) /\ WellFormed(calls[c].row)

\* An acknowledged update changes the fields it names, to the values it names,
\* and nothing else of the payload; under a payload leaf that stands where an
\* object is needed, SQLite keeps the leaf and drops the value.
LandsAsNamed ==
    \A c \in Callers :
        calls[c].pc = "idle" /\ calls'[c].pc = "reread" =>
          LET g     == calls'[c].guid
              patch == calls'[c].patch
              old   == rows[g].doc
              new   == rows'[g].doc
              lost(f) == /\ f \in Jsons /\ setup.dialect = "sqlite"
                         /\ Shadowed(old, Path[f])
              moved(p) == \E f \in DOMAIN patch \cap Jsons : Overlap(p, Path[f])
          IN  /\ \A f \in Fields : Project(rows'[g], f) =
                    IF f \in DOMAIN patch /\ ~lost(f) THEN patch[f]
                    ELSE Project(rows[g], f)
              /\ \A p \in DOMAIN old \cup DOMAIN new :
                    ~moved(p) => At(new, p) = At(old, p)

UpdateLands == [][LandsAsNamed]_vars

\* Paging is deterministic: whatever the sort, the pages of a list read from one
\* state of the table hold every matching record exactly once.
PagesCover ==
    \A filter \in Filters, sort \in Sorts :
        LET page(i) == Listed([filter |-> filter, sort |-> sort, skip |-> i - 1, take |-> 1])
            found   == Matches([filter |-> filter])
            pages   == {page(i) : i \in 1 .. Cardinality(found)}
        IN  /\ \A g, h \in found : g # h => (Less(sort, g, h) <=> ~Less(sort, h, g))
            /\ pages = {<<g>> : g \in found}
=============================================================================
