------------------------------- MODULE CrudQuery -------------------------------
(***************************************************************************)
(* crud-gen: how the filters of a GraphQL or REST request become the       *)
(* condition of a query.  A request carries a tree of groups, each with an *)
(* operator, tests of columns and groups below it, and values of columns   *)
(* beside the tree: for GraphQL those of the extra arguments that the      *)
(* resolver declares, for REST the flat parameters of the client's query,  *)
(* of any column.  They join the tree unchecked.  An extended repository   *)
(* writes the tree as SQL; a plain TypeORM repository takes one mapping    *)
(* from columns to tests, or a list of alternatives.                       *)
(***************************************************************************)
EXTENDS Integers, Sequences, FiniteSets, SequencesExt

CONSTANTS Fields, Values

\* filterSwitch(): the values that a test of one column selects.
Selected(c) ==
    CASE c.type = "set"                -> c.x
      [] c.type = "equals"             -> {c.x}
      [] c.type = "lessthan"           -> {v \in Values : v < c.x}
      [] c.type = "lessthanorequal"    -> {v \in Values : v <= c.x}
      [] c.type = "greaterthan"        -> {v \in Values : v > c.x}
      [] c.type = "greaterthanorequal" -> {v \in Values : v >= c.x}
      [] c.type = "inrange"            -> {v \in Values : c.x <= v /\ v <= c.y}
      [] c.type = "notequal"           -> Values \ {c.x}

NoFilters == [f \in {} |-> {}]

\* createWhere(): every test becomes a group of its own, below the operator.
RECURSIVE CreateWhere(_)
CreateWhere(f) ==
    LET test(c)  == [op |-> "AND", filters |-> (c.field :> Selected(c)), kids |-> <<>>]
        below(k) == CreateWhere(k)
    IN  [op |-> f.op, filters |-> NoFilters,
         kids |-> [i \in DOMAIN f.exprs |-> test(f.exprs[i])] \o [i \in DOMAIN f.kids |-> below(f.kids[i])]]

\* checkFilterScope(): a test of a hidden column, at any depth.
RECURSIVE Prohibited(_, _)
Prohibited(w, hidden) ==
    DOMAIN w.filters \cap hidden # {} \/ \E i \in DOMAIN w.kids : Prohibited(w.kids[i], hidden)

\* The columns tested anywhere in a condition.
RECURSIVE Tested(_)
Tested(w) == DOMAIN w.filters \cup UNION {Tested(w.kids[i]) : i \in DOMAIN w.kids}

\* The values given beside the tree that are used: forceFilters() skips a falsy
\* one of GraphQL, the REST parameters are taken as they are.
ForcedByGraphql(given) == {f \in DOMAIN given : given[f] # 0}
ForcedByRest(given) == DOMAIN given

ForceFilters(w, given, api) ==
    LET used == IF api = "rest" THEN ForcedByRest(given) ELSE ForcedByGraphql(given)
    IN  [w EXCEPT !.filters = [f \in used |-> {given[f]}] @@ @]

\* whereObjectToSqlString(): the empty string.
RECURSIVE Blank(_)
Blank(w) == DOMAIN w.filters = {} /\ \A i \in DOMAIN w.kids : Blank(w.kids[i])

\* Mutant: the operator of a group is left out below the first level.
RECURSIVE SqlAllAnd(_, _)
SqlAllAnd(w, row) ==
    /\ \A f \in DOMAIN w.filters : row[f] \in w.filters[f]
    /\ \A i \in DOMAIN w.kids : SqlAllAnd(w.kids[i], row)

\* The rows that the SQL condition is true of.
RECURSIVE Sql(_, _)
Sql(w, row) ==
    LET kids  == {i \in DOMAIN w.kids : ~Blank(w.kids[i])}
        holds == {f \in DOMAIN w.filters : row[f] \in w.filters[f]}
        below == {i \in kids : Sql(w.kids[i], row)}
    IN  CASE Blank(w)     -> TRUE
          [] w.op = "OR"  -> holds # {} \/ below # {}
          [] w.op = "AND" -> holds = DOMAIN w.filters /\ below = kids

\* normalizeCrudGenWhereForPlainTypeorm(): no condition, one mapping, a list
\* of mappings, or refused.  In an AND the later test of a column wins.
RECURSIVE PlainWhere(_)
PlainWhere(w) ==
    LET kid(k)  == PlainWhere(k)
        all     == [i \in DOMAIN w.kids |-> kid(w.kids[i])]
        kids    == SelectSeq(all, LAMBDA k : k.kind # "none")
        own     == IF DOMAIN w.filters = {} THEN <<>> ELSE <<w.filters>>
        list    == own \o FlattenSeq([i \in DOMAIN kids |-> kids[i].maps])
        merged  == FoldLeft(LAMBDA m, k : k @@ m, NoFilters, list)
        is(k)   == \E i \in DOMAIN kids : kids[i].kind = k
    IN  CASE is("refused")                -> [kind |-> "refused", maps |-> <<>>]
          [] list = <<>>                  -> [kind |-> "none", maps |-> <<>>]
          [] w.op = "OR"                  -> [kind |-> "list", maps |-> list]
          [] w.op = "AND" /\ is("list")   -> [kind |-> "refused", maps |-> <<>>]
          [] w.op = "AND" /\ ~is("list")  -> [kind |-> "map", maps |-> <<merged>>]

\* The rows that TypeORM finds for it.
Plain(p, row) ==
    \/ p.kind = "none"
    \/ \E i \in DOMAIN p.maps : \A f \in DOMAIN p.maps[i] : row[f] \in p.maps[i][f]

-----------------------------------------------------------------------------
(* What a request asks for, to compare with.                               *)

RECURSIVE Tests(_)
Tests(f) == f.exprs \o FlattenSeq([i \in DOMAIN f.kids |-> Tests(f.kids[i])])

\* A group below that tests nothing asks nothing.
RECURSIVE Means(_, _)
Means(f, row) ==
    LET exprs == {i \in DOMAIN f.exprs : row[f.exprs[i].field] \in Selected(f.exprs[i])}
        asked == {i \in DOMAIN f.kids : Tests(f.kids[i]) # <<>>}
        kids  == {i \in asked : Means(f.kids[i], row)}
    IN  \/ Tests(f) = <<>>
        \/ f.op = "OR" /\ (exprs # {} \/ kids # {})
        \/ f.op = "AND" /\ exprs = DOMAIN f.exprs /\ kids = asked

TestedOnce(f, given) ==
    LET fields == [i \in DOMAIN Tests(f) |-> Tests(f)[i].field]
    IN  IsInjective(fields) /\ ToSet(fields) \cap DOMAIN given = {}
=============================================================================
