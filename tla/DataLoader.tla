------------------------------ MODULE DataLoader ------------------------------
(***************************************************************************)
(* data-loader: the batching loader of one GraphQL request.  Loads with    *)
(* the same query options share a loader, found by a key made of them; the *)
(* loads of one tick make one query over all their search keys, and the    *)
(* answer to a search key is kept for the rest of the request.  The        *)
(* database may change between two queries.                                *)
(***************************************************************************)
EXTENDS Naturals, FiniteSets

CONSTANTS
    Loads,          \* resolvers that load, one call each
    Options,        \* query options: [colour, take]
    Ids,            \* rows of the table, numbers
    Keys,           \* values of the search key
    Colours,        \* a column that filters use
    Any,            \* no filter
    All,            \* no take
    WritesMax,      \* bound: writes to the table by others
    None

VARIABLES
    db,             \* per id the row, [key, colour], or None
    loader,         \* per loader key: its queue, its answers and its count
    load,           \* per load: [options, key, kind, state, rows, count], or None
    seen,           \* history: per loader key and search key, the table at its query
    writes

vars == <<db, loader, load, seen, writes>>

\* Mutant: the filter is no part of the key, and the first load's one is used.
KeyWithoutFilter(o) == CHOOSE p \in Options : p.take = o.take

\* getDataloader(): the filter and the paging of a load find its loader.
Key(o) == [colour |-> o.colour, take |-> o.take]

Rows == [key : Keys, colour : Colours]

Init ==
    /\ db \in [Ids -> Rows \cup {None}]
    /\ loader = [x \in Options |-> [queue |-> {}, rows |-> [k \in Keys |-> None], count |-> None]]
    /\ load = [l \in Loads |-> None]
    /\ seen = [x \in Options |-> [k \in Keys |-> None]]
    /\ writes = 0

\* loadOne() and loadOneToMany(); without a search key nothing is loaded.
Load(l, o, k, kind) ==
    /\ load[l] = None
    /\ load' = [load EXCEPT ![l] =
          [options |-> o, key |-> k, kind |-> kind, count |-> None,
           state |-> IF k = None THEN "answered" ELSE "waits",
           rows |-> {}]]
    /\ IF k # None /\ loader[Key(o)].rows[k] = None
         THEN loader' = [loader EXCEPT ![Key(o)].queue = @ \cup {k}]
         ELSE UNCHANGED loader
    /\ UNCHANGED <<db, seen, writes>>

\* The filter of the loads and the search keys are joined by AND.
Matching(t, o, ks) == {i \in Ids : t[i] # None /\ t[i].key \in ks /\ o.colour \in {Any, t[i].colour}}

\* take applies to the rows of the whole batch, here in the order of the ids.
Taken(ids, take) ==
    IF take = All THEN ids ELSE {i \in ids : Cardinality({j \in ids : j <= i}) <= take}

\* The batch function: one query, its rows dealt out by search key.
Batch(x) ==
    LET ks  == loader[x].queue
        ids == Matching(db, x, ks)
    IN  /\ ks # {}
        /\ loader' = [loader EXCEPT ![x] =
             [queue |-> {}, count |-> Cardinality(ids),
              rows |-> [k \in Keys |-> IF k \in ks THEN {i \in Taken(ids, x.take) : db[i].key = k}
                                       ELSE loader[x].rows[k]]]]
        /\ seen' = [seen EXCEPT ![x] = [k \in Keys |-> IF k \in ks THEN db ELSE @[k]]]
        /\ UNCHANGED <<db, load, writes>>

Waits(l) == load[l] # None /\ load[l].state = "waits"

\* A query that fails rejects the loads of its batch, whose keys are cleared.
BatchFails(x) ==
    /\ loader[x].queue # {}
    /\ load' = [l \in Loads |->
          IF Waits(l) /\ Key(load[l].options) = x /\ load[l].key \in loader[x].queue
            THEN [load[l] EXCEPT !.state = "failed"] ELSE load[l]]
    /\ loader' = [loader EXCEPT ![x].queue = {}]
    /\ UNCHANGED <<db, seen, writes>>

\* The load resumes, and reads the count of the loader.
Resume(l) ==
    /\ Waits(l)
    /\ LET x   == loader[Key(load[l].options)]
           got == x.rows[load[l].key]
       IN  /\ got # None
           /\ load' = [load EXCEPT ![l] = [@ EXCEPT
                 !.state = IF load[l].kind = "one" /\ Cardinality(got) > 1
                             THEN "refused" ELSE "answered",
                 !.rows = got,
                 !.count = IF load[l].kind = "counted" THEN x.count ELSE None]]
    /\ UNCHANGED <<db, loader, seen, writes>>

\* Somebody else writes a row.
Change(i, r) ==
    /\ writes < WritesMax /\ db[i] # r
    /\ db' = [db EXCEPT ![i] = r]
    /\ writes' = writes + 1
    /\ UNCHANGED <<loader, load, seen>>

Next ==
    \/ \E l \in Loads :
         \/ \E o \in Options, k \in Keys \cup {None}, kind \in {"one", "many", "counted"} : Load(l, o, k, kind)
         \/ Resume(l)
    \/ \E x \in Options : Batch(x) \/ BatchFails(x)
    \/ \E i \in Ids, r \in Rows \cup {None} : Change(i, r)

Spec == Init /\ [][Next]_vars

-----------------------------------------------------------------------------
(* Correctness.                                                            *)

Tables == [Ids -> Rows \cup {None}]
Counts == {Cardinality(ids) : ids \in SUBSET Ids} \cup {None}

Loaders == [queue : SUBSET Keys, rows : [Keys -> (SUBSET Ids) \cup {None}], count : Counts]
Calls ==
    [options : Options, key : Keys \cup {None}, kind : {"one", "many", "counted"},
     state : {"waits", "answered", "refused", "failed"}, rows : SUBSET Ids, count : Counts]

TypeOK ==
    /\ db \in Tables
    /\ loader \in [Options -> Loaders]
    /\ load \in [Loads -> Calls \cup {None}]
    /\ seen \in [Options -> [Keys -> Tables \cup {None}]]
    /\ writes \in Nat

\* A search key that waits for its query has no answer; an answer is what the
\* query of its key matched, when there is no limit.
RowsMatchSeen ==
    \A x \in Options : \A k \in Keys :
        /\ k \in loader[x].queue => loader[x].rows[k] = None
        /\ x.take = All /\ loader[x].rows[k] # None => loader[x].rows[k] = Matching(seen[x][k], x, {k})

Found(c) == c # None /\ c.key # None /\ c.state \in {"answered", "refused"}

\* A load that waits has a search key; one that has found its rows has those
\* of its loader, which stay.
FoundInLoader ==
    \A l \in Loads :
        /\ Waits(l) => load[l].key # None
        /\ Found(load[l]) =>
             /\ loader[Key(load[l].options)].rows[load[l].key] # None
             /\ load[l].rows = loader[Key(load[l].options)].rows[load[l].key]
             /\ (load[l].state = "refused") <=> (load[l].kind = "one" /\ Cardinality(load[l].rows) > 1)

\* A load without a limit answers with the rows of its search key that its own
\* filter matched at one moment of the request, whichever loads shared its
\* batch or its loader and whatever was written since; a load of one row is
\* refused when there were more.
LoadsAnswer ==
    \A l \in Loads :
        LET c == load[l]
            t == seen[Key(c.options)][c.key]
        IN  Found(c) =>
              /\ c.options.take = All => c.rows = Matching(t, c.options, {c.key})
              /\ (c.state = "refused") <=> (c.kind = "one" /\ Cardinality(c.rows) > 1)
=============================================================================
