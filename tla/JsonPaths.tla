------------------------------ MODULE JsonPaths ------------------------------
(***************************************************************************)
(* JSON payloads of crud-gen projections: a partial function from paths to *)
(* leaf values, Obj at the inner nodes; no path below a leaf is present.   *)
(* A leaf is any value that is not a plain object: a scalar, null, an      *)
(* array.  The root, an object, is not in the domain.                      *)
(***************************************************************************)
EXTENDS Naturals, Sequences, SequencesExt

CONSTANTS Obj, Missing

Overlap(p, q) == IsPrefix(p, q) \/ IsPrefix(q, p)

At(doc, p) == IF p \in DOMAIN doc THEN doc[p] ELSE Missing

Ancestors(p) == {SubSeq(p, 1, i) : i \in 1 .. Len(p) - 1}

SetPath(doc, p, v) ==
    LET kept == {q \in DOMAIN doc : ~IsPrefix(p, q)}
    IN  [q \in kept \cup Ancestors(p) \cup {p} |->
            IF q = p THEN v ELSE IF q \in Ancestors(p) THEN Obj ELSE doc[q]]

Shadowed(doc, p) == \E a \in Ancestors(p) : At(doc, a) \notin {Obj, Missing}

\* json_set creates missing ancestors and does nothing under a leaf.
SqliteSet(doc, p, v) == IF Shadowed(doc, p) THEN doc ELSE SetPath(doc, p, v)

\* Mutant: the coalesced ancestors are always empty, siblings are lost.
PostgresReset(doc, p, v) ==
    SetPath([q \in {r \in DOMAIN doc : ~IsPrefix(<<p[1]>>, r)} |-> doc[q]], p, v)

\* Every ancestor that is not an object is replaced by {} first.
PostgresSet(doc, p, v) == SetPath(doc, p, v)
=============================================================================
