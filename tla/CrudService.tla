----------------------------- MODULE CrudService -----------------------------
(***************************************************************************)
(* crud-gen: the generic service, below the generated resolvers and REST   *)
(* controllers.  A call is a sequence of queries: a list reads its rows    *)
(* and their number, an update or delete first looks at what its           *)
(* conditions find, and a create or update reads its row again.  Reads go  *)
(* to a replica that lags, unless they ask for the master.                 *)
(***************************************************************************)
EXTENDS CrudQuery

CONSTANTS
    Ids,            \* primary keys, numbers
    Calls,          \* calls to the service, one request each
    Requests,       \* what may be asked: [filter, hidden, given, api, counts, page]
    MaxRow,         \* the largest page
    Tables,         \* tables to begin with
    None

Rows == [Fields -> Values]

VARIABLES
    extended,       \* the repository has the extended queries
    master,         \* per id the row, or None
    replica,
    call,           \* per call its record, or None
    since           \* history: per call the values its row had since its write

vars == <<extended, master, replica, call, since>>

Init ==
    /\ extended \in BOOLEAN
    /\ master \in Tables
    /\ replica = master
    /\ call = [c \in Calls |-> None]
    /\ since = [c \in Calls |-> {}]

\* Call c writes its own row: what rows became is noted for those that wrote them.
Noted(written, t, c, own) ==
    since' = [d \in Calls |->
        LET mine == IF d = c THEN own ELSE IF call[d] = None THEN {} ELSE call[d].wrote \cap written
        IN  since[d] \cup {t[i] : i \in mine}]

NewCall == [op |-> "list", pc |-> "end", ask |-> None, id |-> None, wrote |-> {}, input |-> None,
           conditions |-> None, rows |-> <<>>, count |-> None, read |-> None, counted |-> None]

Step(c, r) == call' = [call EXCEPT ![c] = r]

-----------------------------------------------------------------------------
(* Lists.                                                                  *)

Where(ask) == ForceFilters(CreateWhere(ask.filter), ask.given, ask.api)

\* mapPaginationParamsToTypeORM(): a page must be smaller than the maximum.
PageRefused(page) == page # None /\ page[2] - page[1] >= MaxRow
Skip(page) == IF page = None THEN 0 ELSE page[1]
Take(page) == IF page = None THEN MaxRow ELSE page[2] - page[1]

Admitted(t, ask) ==
    LET w == Where(ask)
    IN  {i \in Ids : t[i] # None /\ IF extended THEN Sql(w, t[i]) ELSE Plain(PlainWhere(w), t[i])}

InOrder(ids) == SetToSortSeq(ids, <)

PageOf(ids, page) ==
    LET last == Skip(page) + Take(page)
    IN  SubSeq(InOrder(ids), Skip(page) + 1, IF last < Cardinality(ids) THEN last ELSE Cardinality(ids))

\* getManyAndCountExtended() and findAndCount(): the rows, then their number.
List(c, ask) ==
    /\ call[c] = None
    /\ IF \/ PageRefused(ask.page)
          \/ Prohibited(CreateWhere(ask.filter), ask.hidden)
          \/ ~extended /\ PlainWhere(Where(ask)).kind = "refused"
         THEN Step(c, [NewCall EXCEPT !.pc = "failed", !.ask = ask])
         ELSE Step(c, [NewCall EXCEPT !.pc = "count", !.ask = ask, !.read = replica,
                                     !.rows = PageOf(Admitted(replica, ask), ask.page)])
    /\ UNCHANGED <<extended, master, replica, since>>

\* A GraphQL list that does not ask for the count skips it: a page that is not
\* full tells it.  REST lists always ask.
Count(c) ==
    LET r == call[c] IN
    /\ r # None /\ r.pc = "count"
    /\ Step(c, [r EXCEPT !.pc = "end", !.counted = replica, !.count =
          IF extended /\ ~r.ask.counts
            THEN IF Len(r.rows) < Take(r.ask.page) THEN Skip(r.ask.page) + Len(r.rows) ELSE -1
            ELSE Cardinality(Admitted(replica, r.ask))])
    /\ UNCHANGED <<extended, master, replica, since>>

-----------------------------------------------------------------------------
(* Writes.                                                                 *)

\* insert() fails on a key in use.
CreateEntity(c, i, row) ==
    /\ call[c] = None
    /\ IF master[i] # None
         THEN Step(c, [NewCall EXCEPT !.op = "create", !.pc = "failed"]) /\ UNCHANGED <<master, since>>
         ELSE /\ master' = [master EXCEPT ![i] = row]
              /\ Step(c, [NewCall EXCEPT !.op = "create", !.pc = "read", !.id = i, !.wrote = {i}])
              /\ Noted({i}, master', c, {i})
    /\ UNCHANGED <<extended, replica>>

\* Conditions: a key, or the value of a column.
Meets(t, i, cond) == t[i] # None /\ (cond[1] = "id" => i = cond[2]) /\ (cond[1] # "id" => t[i][cond[1]] = cond[2])
Met(t, cond) == {i \in Ids : Meets(t, i, cond)}

\* getEntity(): some row that meets the conditions; getEntityOrFail() fails
\* when there is none.
GetEntity(c, cond, failOnNull) ==
    LET found == Met(replica, cond) IN
    /\ call[c] = None
    /\ \/ /\ found = {}
          /\ Step(c, [NewCall EXCEPT !.op = "get", !.pc = IF failOnNull THEN "failed" ELSE "end"])
       \/ \E i \in found : Step(c, [NewCall EXCEPT !.op = "get", !.rows = <<replica[i]>>])
    /\ UNCHANGED <<extended, master, replica, since>>

\* validateConditions(): exactly one row must be found.
Validate(c, op, cond, input) ==
    LET found == Met(replica, cond) IN
    /\ call[c] = None
    /\ IF Cardinality(found) # 1
         THEN Step(c, [NewCall EXCEPT !.op = op, !.pc = "failed"])
         ELSE Step(c, [NewCall EXCEPT !.op = op, !.pc = "write", !.id = CHOOSE i \in found : TRUE,
                                     !.conditions = cond, !.input = input])
    /\ UNCHANGED <<extended, master, replica, since>>

\* update(): whatever the conditions find now, which nobody looks at.
UpdateEntity(c) ==
    LET r    == call[c]
        ids  == Met(master, r.conditions)
        next == [i \in Ids |-> IF i \in ids THEN [master[i] EXCEPT ![r.input[1]] = r.input[2]] ELSE master[i]]
    IN  /\ r # None /\ r.op = "update" /\ r.pc = "write"
        /\ master' = next
        /\ Step(c, [r EXCEPT !.pc = "read", !.wrote = ids \cap {r.id}])
        /\ Noted(ids, next, c, ids \cap {r.id})
        /\ UNCHANGED <<extended, replica>>

DeleteEntity(c) ==
    LET r   == call[c]
        ids == Met(master, r.conditions)
    IN  /\ r # None /\ r.op = "delete" /\ r.pc = "write"
        /\ master' = [i \in Ids |-> IF i \in ids THEN None ELSE master[i]]
        /\ Step(c, [r EXCEPT !.pc = "end", !.count = Cardinality(ids)])
        /\ UNCHANGED <<extended, replica, since>>


\* A row read again after a write comes from the master, if the repository can.
ReadAgainFrom == IF extended THEN master ELSE replica

\* getOneExtended() answers nothing for a row that is gone, findOneOrFail() fails.
ReadAgain(c) ==
    LET r   == call[c]
        row == ReadAgainFrom[r.id]
    IN  /\ r # None /\ r.pc = "read"
        /\ Step(c, [r EXCEPT !.pc = IF row = None /\ ~extended THEN "failed" ELSE "end",
                             !.rows = IF row = None THEN <<>> ELSE <<row>>])
        /\ UNCHANGED <<extended, master, replica, since>>

Replicate == replica # master /\ replica' = master /\ UNCHANGED <<extended, master, call, since>>

Conditions == {<<"id", i>> : i \in Ids} \cup (Fields \X Values)

Next ==
    \/ \E c \in Calls :
         \/ \E ask \in Requests : List(c, ask)
         \/ \E i \in Ids, row \in Rows : CreateEntity(c, i, row)
         \/ \E cond \in Conditions :
              \/ \E input \in Fields \X Values : Validate(c, "update", cond, input)
              \/ Validate(c, "delete", cond, None)
              \/ \E failOnNull \in BOOLEAN : GetEntity(c, cond, failOnNull)
         \/ Count(c) \/ UpdateEntity(c) \/ DeleteEntity(c) \/ ReadAgain(c)
    \/ Replicate

Spec == Init /\ [][Next]_vars

-----------------------------------------------------------------------------
(* Correctness.                                                            *)

\* What the filters of a request mean, with the values given beside them.
Asked(t, ask) == {i \in Ids : t[i] # None /\ Means(ask.filter, t[i])
                                /\ \A f \in DOMAIN ask.given : t[i][f] = ask.given[f]}

\* A given value of 0 is skipped for GraphQL, and in an OR a given value is one
\* alternative more: such requests are left out.
Sound(ask) ==
    /\ ask.api = "graphql" => \A f \in DOMAIN ask.given : ask.given[f] # 0
    /\ DOMAIN ask.given # {} => (ask.filter.op = "AND" \/ Tests(ask.filter) = <<>>)
    /\ extended \/ TestedOnce(ask.filter, ask.given)

\* A list answers the page of exactly the rows that its filters mean, in the
\* table as it was when it read them, and a number that it gives with some
\* row, or for the first page, was right for a table it read.
ListsAnswer ==
    \A c \in Calls :
        LET r == call[c]
            checked == r # None /\ r.op = "list" /\ r.pc = "end" /\ Sound(r.ask)
        IN  checked =>
              /\ r.rows = PageOf(Asked(r.read, r.ask), r.ask.page)
              /\ LET told == r.count # -1 /\ (r.rows # <<>> \/ Skip(r.ask.page) = 0)
                 IN  told => r.count \in {Cardinality(Asked(t, r.ask)) : t \in {r.read, r.counted}}

\* The condition of a list that was answered tests a hidden column only by a
\* value given beside the tree, whatever the depth of the tree.
HiddenUntested ==
    \A c \in Calls :
        LET r == call[c]
        IN  r # None /\ r.op = "list" /\ r.pc = "end" =>
              Tested(Where(r.ask)) \cap r.ask.hidden \subseteq DOMAIN r.ask.given

\* A create or update that wrote its row answers that row as it wrote it or as
\* a later write left it, never as it was before, or nothing once it is gone,
\* however far the replica lags.
WritesAreRead ==
    \A c \in Calls :
        LET r == call[c]
            checked == r # None /\ r.op \in {"create", "update"} /\ r.pc = "end" /\ r.wrote # {} /\ extended
        IN  checked => ToSet(r.rows) \subseteq since[c]

=============================================================================
