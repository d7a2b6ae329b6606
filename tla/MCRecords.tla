----------------------------- MODULE MCRecords -----------------------------
(***************************************************************************)
(* The values of the parts of Records.                                     *)
(***************************************************************************)
EXTENDS Records, TLC

CONSTANTS c1, c2, v1, v2, date, bad

OmniEdges == {<<1, 2, "contains">>}

-----------------------------------------------------------------------------
(* Projection definitions.                                                 *)

Field(name, storage, codec, null, req, column, path, filter, sort, index) ==
    [name |-> name, storage |-> storage, codec |-> codec, nullable |-> null,
     required |-> req, column |-> column, path |-> path, filter |-> filter,
     sort |-> sort, index |-> index]

Guid(codec, null, column) == Field("guid", "column", codec, null, ~null, column, <<>>, {"eq"}, TRUE, "")

FirstFields ==
    {Field("a", "column", "string", n, r, c, <<>>, {"eq"}, FALSE, i) :
        n \in BOOLEAN, r \in BOOLEAN, c \in {"a", "revision", ""}, i \in {"", "a_idx"}}
      \cup {Field("a", "json", "string", TRUE, FALSE, "", p, {}, FALSE, "") :
              p \in {<<"x">>, <<"x", "y">>}}

SecondFields ==
    {Field(n, "json", c, TRUE, FALSE, "", p, f, FALSE, i) :
        n \in {"a", "b", "payload"}, c \in {"instant", "string", "json"},
        p \in {<<"x">>, <<"x", "y">>, <<"z">>, <<>>},
        f \in {{}, {"eq"}, {"range"}}, i \in {"", "a_idx", "guid_unique"}}
      \cup {Field("b", "column", "integer", TRUE, FALSE, c, <<>>, {"range"}, TRUE, "") :
              c \in {"a", "b"}}

IndexOf == [a |-> "a_idx", ref |-> "ref_idx", rel |-> "rel_idx"]
Refers(name, f, t) ==
    [name |-> name, index |-> IndexOf[name], fields |-> f, targets |-> t, scopeTarget |-> "scopeId",
     onDelete |-> "RESTRICT"]
References == {<<>>} \cup
    {<<Refers(n, f, t)>> : n \in {"ref", "a"}, f \in {<<"a">>, <<"b">>, <<"a", "a">>},
                              t \in {<<"guid">>, <<"scopeId">>}}
    \cup {<<Refers("ref", <<"a">>, <<"guid">>), Refers(n, <<"b">>, <<"guid">>)>> : n \in {"ref", "rel"}}
Uniques == {<<>>, <<[name |-> "a_idx", fields |-> <<"a">>, predicate |-> {}]>>,
            <<[name |-> "ref_idx", fields |-> <<"a">>, predicate |-> {}]>>,
            <<[name |-> "uq", fields |-> <<"a", "b">>, predicate |-> {"b"}]>>}

Header0 == [table |-> "t", scope |-> "scopeId", identity |-> "guid", revision |-> "revision",
            identityIndex |-> "guid_unique", serverOwned |-> TRUE, hard |-> TRUE,
            uniqueWithinScope |-> TRUE, allowPatch |-> FALSE]

Defined(g, a, b, r, u) == Header0 @@ [fields |-> <<g, a, b>>, references |-> r, uniques |-> u]

Definitions ==
    LET guid == Guid("uuid", FALSE, "guid")
        a    == Field("a", "column", "string", TRUE, FALSE, "a", <<>>, {"eq"}, FALSE, "a_idx")
        b    == Field("b", "column", "integer", TRUE, FALSE, "b", <<>>, {"range"}, TRUE, "")
    IN  {Defined(guid, x, y, <<>>, <<>>) : x \in FirstFields, y \in SecondFields}
        \cup {Defined(g, a, b, <<>>, <<>>) :
                g \in {Guid("integer", FALSE, "guid"), Guid("uuid", TRUE, "guid"),
                       Guid("uuid", FALSE, "id")}}
        \cup {Defined(guid, x, b, r, u) : x \in FirstFields, r \in References, u \in Uniques}
        \cup {[Defined(guid, a, b, <<>>, <<>>) EXCEPT !.revision = "guid"]}

Payloads == {<<>>, <<"x">> :> 1, (<<"x">> :> Obj) @@ (<<"x", "y">> :> 1) @@ (<<"z">> :> 2)}

-----------------------------------------------------------------------------
(* The projection store: two callers race on one row, of a table that is   *)
(* keyed by something else or by (scope, guid), or one caller fills two.   *)

StoreFields   == {"label", "priority"}
StorePath     == [priority |-> <<"work", "priority">>]
StoreNullable == {"priority"}
StoreInputs   == [label |-> {1, date}, priority |-> {1, bad}]
StoreCanon    == (1 :> 1) @@ (date :> 2) @@ (bad :> Refused)
StoreSeeds    == {<<"work">> :> Null,
                  (<<"work">> :> Obj) @@ (<<"work", "x">> :> 2),
                  (<<"work">> :> Obj) @@ (<<"work", "priority">> :> bad)}
StoreLists    == {[filter |-> <<>>, sort |-> <<"priority", "DESC">>, skip |-> 0, take |-> 1],
                  [filter |-> "label" :> 1, sort |-> <<>>, skip |-> 1, take |-> 2]}
TwoCallers    == {[dialect |-> d, keyed |-> d = "sqlite",
                   callers |-> Callers, guids |-> {1}, lives |-> 2] : d \in {"sqlite", "postgres"}}
            \cup [dialect : {"sqlite", "postgres"}, keyed : {FALSE},
                  callers : {{c1}, {c2}}, guids : {{1, 2}}, lives : {1}]

-----------------------------------------------------------------------------
(* The Task App: filing of records, and external references.               *)

Requests == INSTANCE MCTaskRequests

AllWorkloads == {[requests |-> Requests!Filing, max |-> 6],
                 [requests |-> Requests!Referring, max |-> 4]}

-----------------------------------------------------------------------------
(* The generated surfaces: two callers, two records, one edge.             *)

Applications == INSTANCE MCSurfaceSetups WITH None <- NoRow

AllSetups == Applications!All

-----------------------------------------------------------------------------

Symmetry == Permutations(Callers) \cup Permutations(Values)

=============================================================================
