------------------------------- MODULE CrudGraph -------------------------------
(***************************************************************************)
(* crud-gen: a GraphQL request over the generated resolvers.  A root field *)
(* reads rows with the columns that its selection needs; every relation    *)
(* asked for below is resolved from its parent's row, as joined to it or   *)
(* through a loader shared by the request, which reads the rows of many    *)
(* parents in one query and keeps them.  Root mutations run one after the  *)
(* other, each with all that is below it.                                  *)
(***************************************************************************)
EXTENDS Naturals, Sequences, CrudWiring

CONSTANTS
    Cases,      \* a set of <<setup, request>>, see the variables
    Kept        \* ids of the rows that a filter lets through

\* setup: [wiring, extended, schema]; schema: per type [columns, derived,
\* symbolic, required, searchKey, rels]; a relation: [to, declared, join], the
\* last two None or [source, target].  request: [tables, serial, roots]; a root
\* or a relation below is a node [op, args, joins, fields, below] with more of
\* its own; of a relation, op is its shape: one, many (in nodes) or list.
VARIABLES
    setup, request,
    started,    \* the application: None, "up" or "refused"
    db,         \* per type and id the row, or None
    loaders,    \* per loader key: the node it was made for, queue, rows, seen
    answers     \* per field its record: a root field is at <<i>>, the j-th field
                \* below row i of the answer at x is at <<x, j, i>>

vars == <<setup, request, started, db, loaders, answers>>

Schema(t) == setup.schema[t]
Empty == [x \in {} |-> x]
Over(new, old) ==
    [x \in DOMAIN new \cup DOMAIN old |-> IF x \in DOMAIN new THEN new[x] ELSE old[x]]
With(f, x, v) == Over([y \in {x} |-> v], f)

Init ==
    /\ \E c \in Cases : setup = c[1] /\ request = c[2]
    /\ db \in request.tables
    /\ started = None /\ loaders = Empty /\ answers = Empty

Start ==
    /\ started = None
    /\ started' = IF Starts(setup.wiring) THEN "up" ELSE "refused"
    /\ UNCHANGED <<setup, request, db, loaders, answers>>

-----------------------------------------------------------------------------
(* Declarations and selections.                                            *)

\* ModelField's relation wins over what TypeORM knows; without a join column
\* the search key of the loader stands for both sides.
Relation(t, r) ==
    LET f   == Schema(t).rels[r]
        key == Schema(f.to).searchKey
        by  == Or(Or(f.declared, f.join), [source |-> key, target |-> key])
    IN  [to |-> f.to, declared |-> f.declared # None, source |-> by.source, target |-> by.target]

\* A list in nodes: a grid, and a relation to many that is not a plain array.
InNodes(node) == node.op \in {"grid", "many"}

Below(t, node) == {Relation(t, node.below[i].rel) : i \in DOMAIN node.below}

\* Mutant: the keys of the relations asked for are not selected.
OnlyAsked(t, node) ==
    ((node.fields \cup Schema(t).required) \ Schema(t).derived) \ Schema(t).symbolic

\* GqlModelFieldsMapper(): the columns asked for, the required ones, and the
\* source key of a declared relation below, but not when it is in nodes.
Keys(t, node) ==
    LET asked   == node.fields \cup Schema(t).required
        sources == IF InNodes(node) THEN {} ELSE {f.source : f \in {g \in Below(t, node) : g.declared}}
    IN  ((asked \ Schema(t).derived) \cup sources) \ Schema(t).symbolic

Derived(t, node) == (node.fields \cup Schema(t).required) \cap Schema(t).derived

\* An empty selection is all columns; only the extended queries derive.
Columns(t, keys, node) ==
    (IF keys = {} THEN Schema(t).columns \ Schema(t).symbolic ELSE keys)
      \cup (IF setup.extended THEN Derived(t, node) ELSE {})

-----------------------------------------------------------------------------
(* Queries.                                                                *)

Ids(table, t) == {i \in DOMAIN table[t] : table[t][i] # None}

\* The rows that a relation leads to from a key.
Related(table, f, key) ==
    IF key = None THEN {} ELSE {j \in Ids(table, f.to) : table[f.to][j][f.target] = key}

\* An inner join drops the rows that it finds nothing for.
JoinKeeps(table, t, node, i) ==
    \A r \in DOMAIN node.joins :
        LET f == Relation(t, r)
        IN  node.joins[r] = "inner" => Related(table, f, table[t][i][f.source]) # {}

Found(table, t, node) ==
    {i \in Ids(table, t) : (node.args = "filter" => i \in Kept) /\ JoinKeeps(table, t, node, i)}

Asked(t, node, state, key, via) ==
    [type |-> t, node |-> node, state |-> state, rows |-> {}, columns |-> {}, joined |-> {},
     table |-> db, key |-> key, via |-> via]

NewAnswer(t, node) == Asked(t, node, "rows", None, None)

Refused(t, node) == Asked(t, node, "refused", None, None)

\* The answer a with what a query found for it.
Filled(a, state, rows, columns, joined, table) ==
    [type |-> a.type, node |-> a.node, state |-> state, rows |-> rows, columns |-> columns,
     joined |-> joined, table |-> table, key |-> a.key, via |-> a.via]

Put(x, a) == answers' = With(answers, x, a)

\* What a query of the repository answers a root with.
Read(table, t, node, ids) ==
    Filled(NewAnswer(t, node), "rows", ids, Columns(t, Keys(t, node), node), DOMAIN node.joins, table)

-----------------------------------------------------------------------------
(* Loaders.                                                                *)

\* getDataloader(): neither joins nor derived columns tell two loaders apart.
LoaderKey(t, node, target) ==
    [type |-> t, keys |-> Keys(t, node), args |-> node.args, target |-> target]

\* A loader made of all tasks with one key asks for all their values at once.
Load(x, t, node, target, key) ==
    LET k   == LoaderKey(t, node, target)
        new == [node |-> node, queue |-> {}, rows |-> Empty, seen |-> Empty]
        l   == IF k \in DOMAIN loaders THEN loaders[k] ELSE new
    IN  IF key = None
          THEN Put(x, Asked(t, node, "rows", key, k)) /\ UNCHANGED loaders
          ELSE /\ loaders' = With(loaders, k, IF key \in DOMAIN l.rows THEN l
                                             ELSE [l EXCEPT !.queue = @ \cup {key}])
               /\ Put(x, Asked(t, node, "waits", key, k))

\* The search key is always selected.
LoadedColumns(k, l) == Columns(k.type, k.keys \cup {k.target}, l.node)

Batch(k) ==
    LET l     == loaders[k]
        found == {i \in Found(db, k.type, l.node) : db[k.type][i][k.target] \in l.queue}
        dealt == [v \in l.queue |-> {i \in found : k.target \in LoadedColumns(k, l)
                                                    /\ db[k.type][i][k.target] = v}]
    IN  /\ l.queue # {}
        /\ loaders' = [loaders EXCEPT ![k] =
             [node |-> l.node, queue |-> {}, rows |-> Over(dealt, l.rows),
              seen |-> Over([v \in l.queue |-> db], l.seen)]]
        /\ UNCHANGED <<setup, request, started, db, answers>>

\* loadOne() refuses several rows.
Resume(x) ==
    LET a == answers[x]
        l == loaders[a.via]
    IN  /\ a.state = "waits" /\ a.key \in DOMAIN l.rows
        /\ IF a.node.op \in {"single", "one"} /\ Cardinality(l.rows[a.key]) > 1
             THEN Put(x, Filled(a, "refused", {}, {}, {}, l.seen[a.key]))
             ELSE Put(x, Filled(a, "rows", l.rows[a.key], LoadedColumns(a.via, l),
                                DOMAIN l.node.joins, l.seen[a.key]))
        /\ UNCHANGED <<setup, request, started, db, loaders>>

-----------------------------------------------------------------------------
(* Root fields.                                                            *)

\* Every field asked for below an answer, per row.
Tasks(x) ==
    LET a == answers[x]
    IN  {<<x, j, i>> : j \in DOMAIN a.node.below, i \in IF a.state = "rows" THEN a.rows ELSE {}}

Ended == \A x \in DOMAIN answers : answers[x].state # "waits" /\ Tasks(x) \subseteq DOMAIN answers

Root(i) == <<i>>

\* The extra arguments of a grid: how many are given, by the strategy.
ExtraRefused(n) ==
    \/ n.strategy = "atLeastOne" /\ n.given = 0
    \/ n.strategy = "onlyOne" /\ n.given > 1

\* Of a plain repository a row read again has all its columns.
ReadAgain(table, t, node, i) ==
    IF setup.extended THEN Read(table, t, node, {j \in {i} : JoinKeeps(table, t, node, j)})
    ELSE Filled(NewAnswer(t, node), "rows", {i}, Schema(t).columns \ Schema(t).symbolic, {}, table)

\* The root field i may be asked for: mutations wait for those before.
MayAsk(i) ==
    /\ started = "up" /\ Root(i) \notin DOMAIN answers
    /\ request.serial => Ended /\ \A j \in 1 .. i - 1 : Root(j) \in DOMAIN answers
    /\ UNCHANGED <<setup, request, started>>

GetGrid(i) ==
    LET n == request.roots[i]
        refused == ExtraRefused(n) \/ (n.args = "filter" /\ ~setup.extended)
    IN  /\ MayAsk(i) /\ n.op = "grid"
        /\ Put(Root(i), IF refused THEN Refused(n.type, n) ELSE Read(db, n.type, n, Found(db, n.type, n)))
        /\ UNCHANGED <<db, loaders>>

GetSingle(i) ==
    LET n == request.roots[i]
    IN  /\ MayAsk(i) /\ n.op = "single"
        /\ IF n.id = None THEN Put(Root(i), Refused(n.type, n)) /\ UNCHANGED loaders
           ELSE Load(Root(i), n.type, n, Schema(n.type).searchKey, n.id)
        /\ UNCHANGED db

Written(n, row) == [db EXCEPT ![n.type][n.id] = row]

CreateOrUpdate(i) ==
    LET n == request.roots[i]
    IN  /\ MayAsk(i) /\ n.op \in {"create", "update"}
        /\ IF (n.op = "create") = (n.id \in Ids(db, n.type))
             THEN Put(Root(i), Refused(n.type, n)) /\ UNCHANGED db
             ELSE /\ db' = Written(n, n.row)
                  /\ Put(Root(i), ReadAgain(db', n.type, n, n.id))
        /\ UNCHANGED loaders

Delete(i) ==
    LET n == request.roots[i]
    IN  /\ MayAsk(i) /\ n.op = "delete"
        /\ IF n.id \notin Ids(db, n.type)
             THEN Put(Root(i), Refused(n.type, n)) /\ UNCHANGED db
             ELSE db' = Written(n, None) /\ Put(Root(i), NewAnswer(n.type, n))
        /\ UNCHANGED loaders

-----------------------------------------------------------------------------
(* Relations.                                                              *)

\* The field resolver of a relation: joined rows stay, but not with sorting.
Resolve(x, y) ==
    LET p   == answers[x]
        n   == p.node.below[y[2]]
        f   == Relation(p.type, n.rel)
        row == p.table[p.type][y[3]]
        joined == Filled(NewAnswer(f.to, n), "rows", Related(p.table, f, row[f.source]),
                         Schema(f.to).columns \ Schema(f.to).symbolic, {}, p.table)
    IN  /\ y \notin DOMAIN answers
        /\ IF n.rel \in p.joined
             THEN /\ Put(y, IF n.args = "sort" THEN Refused(f.to, n) ELSE joined)
                  /\ UNCHANGED loaders
             ELSE Load(y, f.to, n, f.target, IF f.source \in p.columns THEN row[f.source] ELSE None)
        /\ UNCHANGED <<setup, request, started, db>>

Next ==
    \/ Start
    \/ \E i \in DOMAIN request.roots : GetGrid(i) \/ GetSingle(i) \/ CreateOrUpdate(i) \/ Delete(i)
    \/ \E k \in DOMAIN loaders : Batch(k)
    \/ \E x \in DOMAIN answers :
         \/ Resume(x)
         \/ \E y \in Tasks(x) : Resolve(x, y)

Spec == Init /\ [][Next]_vars

-----------------------------------------------------------------------------
(* Correctness.                                                            *)

\* The parent's row has the source key of a relation below it, which is a
\* column of its own: its selection adds it, except in nodes, where the request
\* has to.  An empty selection is all columns, but not of what is loaded.
SourceKnown(p, f) ==
    /\ f.source \in (Schema(p.type).columns \ Schema(p.type).derived) \ Schema(p.type).symbolic
    /\ \/ f.declared /\ ~InNodes(p.node)
       \/ Keys(p.type, p.node) = {} /\ p.key = None
       \/ f.source \in p.node.fields \cup Schema(p.type).required

\* The answers that share the loader of a, itself included.
Sharers(a) == {b \in {answers[x] : x \in DOMAIN answers} : b.via = a.via}

\* The answer a at y to a relation below p.
Answered(p, y, a) ==
    LET f   == Relation(p.type, a.node.rel)
        key == p.table[p.type][y[3]][f.source]
        joined  == a.node.rel \in p.joined
        rows(b) == {j \in Related(a.table, f, key) :
                      ~joined => /\ a.node.args = "filter" => j \in Kept
                                 /\ JoinKeeps(a.table, f.to, b.node, j)}
        derived(b) == IF setup.extended /\ ~joined THEN Derived(f.to, b.node) ELSE {}
        asked   == (a.node.fields \cap (Schema(f.to).columns \cup Schema(f.to).derived))
                      \ Schema(f.to).symbolic
    IN  a.state # "waits" =>
          \E b \in Sharers(a) :
            IF a.state = "refused"
              THEN \/ joined /\ a.node.args = "sort"
                   \/ a.node.op \in {"single", "one"} /\ Cardinality(rows(b)) > 1
              ELSE /\ a.rows = rows(b) \/ (a.rows = {} /\ ~joined /\ ~SourceKnown(p, f))
                   /\ a.rows # {} => asked \ (Schema(f.to).derived \ derived(b)) \subseteq a.columns

\* Every relation asked for answers, below each row, exactly the rows that the
\* key of that row leads to, in the table as it was when they were read, that
\* its own filter lets through and the joins of one of the fields that share its
\* loader: of itself, where no other does.  They have every column asked for,
\* and what that field derives.  A joined relation answers all it leads to, its
\* filter is not looked at.  An answer is only refused when there are several
\* rows for one, or a joined relation is also sorted, and only empty for the
\* want of a key where the parent's selection does not have it (SourceKnown).
RelationsAnswer ==
    \A x \in DOMAIN answers : \A y \in Tasks(x) \cap DOMAIN answers :
        Answered(answers[x], y, answers[y])

\* A generated resolver or controller finds its service and its loader, unless
\* the application asked for none to be made; the application then starts, if
\* the loader that is made has a service of the factory too.
SurfacesServed ==
    LET o == setup.wiring
    IN  started # None /\ o.backend # None =>
          /\ WiringRefused(o) \/ ResolverInjects(o) \cup ControllerInjects(o) \subseteq Provided(o) \cup Named(o)
          /\ started = "refused" => WiringRefused(o) \/ ServiceToken(o) = None

GraphAnswers == RelationsAnswer /\ SurfacesServed

-----------------------------------------------------------------------------
(* Why it holds.                                                           *)

IsLoader(l) == l = [node |-> l.node, queue |-> l.queue, rows |-> l.rows, seen |-> l.seen]

TypeOK ==
    /\ started \in {None, "up", "refused"}
    /\ \A k \in DOMAIN loaders : IsLoader(loaders[k])

\* The rows that the query of a loader finds for one key.
Matching(table, k, node, key) ==
    {i \in Found(table, k.type, node) : table[k.type][i][k.target] = key}

\* The rows of a loader are those that its query, made for one of the answers
\* that share it, found in the table it saw.
LoadersFound ==
    \A k \in DOMAIN loaders :
        LET l == loaders[k]
        IN  /\ k.args = l.node.args /\ DOMAIN l.rows = DOMAIN l.seen
            /\ \E x \in DOMAIN answers :
                 answers[x].via = k /\ answers[x].type = k.type /\ answers[x].node = l.node
            /\ \A v \in DOMAIN l.rows : l.rows[v] = Matching(l.seen[v], k, l.node, v)

\* What was loaded is what the query of its loader found for its key.
Dealt(a) ==
    /\ a.via \in DOMAIN loaders /\ a.key # None
    /\ LET l    == loaders[a.via]
           rows == Matching(a.table, a.via, l.node, a.key)
       IN  \/ a.state = "waits"
           \/ a.state = "rows" /\ a.rows = rows /\ a.columns = LoadedColumns(a.via, l)
           \/ a.state = "refused" /\ a.node.op \in {"single", "one"} /\ Cardinality(rows) > 1

\* The answer a at y comes from a row of the answer p above it.
Follows(p, y, a) ==
    LET n   == p.node.below[y[2]]
        f   == Relation(p.type, n.rel)
        key == p.table[p.type][y[3]][f.source]
    IN  /\ a.node = n /\ a.type = f.to
        /\ IF n.rel \in p.joined
             THEN IF n.args = "sort" THEN a.state = "refused"
                  ELSE /\ a.state = "rows" /\ a.table = p.table /\ a.rows = Related(p.table, f, key)
                       /\ a.columns = Schema(f.to).columns \ Schema(f.to).symbolic
             ELSE /\ a.via = LoaderKey(f.to, n, f.target)
                  /\ a.key = IF f.source \in p.columns THEN key ELSE None
                  /\ IF a.key = None THEN a.state = "rows" /\ a.rows = {} ELSE Dealt(a)

\* Every answer is that of a root or follows from the one above it.
AnswersFollow ==
    /\ \A x \in DOMAIN answers : \A y \in Tasks(x) \cap DOMAIN answers : Follows(answers[x], y, answers[y])
    /\ \A y \in DOMAIN answers : (\E i : y = Root(i)) \/ (\E x \in DOMAIN answers : y \in Tasks(x))

\* Rows have all plain columns or those of their selection, which is only empty
\* for what is loaded; what waits has a loader of its own selection.
Selected(a) ==
    /\ a.state = "rows" /\ a.rows # {} =>
         \/ Schema(a.type).columns \ Schema(a.type).symbolic \subseteq a.columns
         \/ Keys(a.type, a.node) \subseteq a.columns /\ (Keys(a.type, a.node) = {} => a.key # None)
    /\ a.state = "waits" =>
         /\ a.via \in DOMAIN loaders /\ a.key # None
         /\ a.via = LoaderKey(a.type, a.node, a.via.target)

SelectionsKept == \A x \in DOMAIN answers : Selected(answers[x])

\* The application is refused where something that is injected is not found.
StartsAsWired == started = "refused" => ~Starts(setup.wiring)
=============================================================================
