----------------------------- MODULE OmniKernel -----------------------------
(***************************************************************************)
(* examples/omnikernel: the services of one scope over shared tables.      *)
(* Every statement carries the scope of the server context, so scopes do   *)
(* not meet and one stands for all.  A record of the reserved kind belongs *)
(* to a registered extension: its row in the extension table shares its    *)
(* identity, and its revision is the revision of the pair.  Calls read,    *)
(* check, and write in separate statements, except that a registered       *)
(* lifecycle runs them in one serializable transaction.                    *)
(***************************************************************************)
EXTENDS Naturals, FiniteSets

CONSTANTS
    Callers, Guids,
    Kinds,          \* kinds of ordinary records; Collection is one of them
    Collection,
    Reserved,       \* the kind owned by the extension
    Edges,          \* <<source, target, kind>>, unique per scope
    Identities,     \* external identities, unique per scope
    Values,         \* contents of an extension row
    RevMax,         \* bound: revisions
    Policies,       \* deletion of records: "tombstone", "hard"
    NoRow

Rows == [kind : Kinds \cup {Reserved}, rev : Nat, dead : BOOLEAN]

ASSUME OmniAssumption ==
    /\ Reserved \notin Kinds
    /\ NoRow \notin Values \cup Nat \cup Kinds \cup {Reserved}
    /\ NoRow \notin Rows

VARIABLES
    policy,
    recs,           \* omni-record: [kind, rev, dead]
    exts,           \* the extension table: its content, by identity
    rels,           \* omni-relation: its revision, by edge
    refs,           \* omni-external-ref: the record it names, by external identity
    calls

tables == <<recs, exts, rels, refs>>
vars == <<policy, recs, exts, rels, refs, calls>>

Live(g) == recs[g] # NoRow /\ ~recs[g].dead

IsOwner(g) == Live(g) /\ recs[g].kind = Reserved

\* Foreign keys without cascade hold a record that a relation names.
Held(g) == \E e \in Edges : rels[e] # NoRow /\ g \in {e[1], e[2]}

\* isAllowedOmniRelation
Allowed(e) ==
    /\ Live(e[1]) /\ Live(e[2])
    /\ e[3] = "contains" => recs[e[1]].kind = Collection

-----------------------------------------------------------------------------

Idle == [pc |-> "idle"]

Init ==
    /\ policy \in Policies
    /\ recs = [g \in Guids |-> NoRow]
    /\ exts = [g \in Guids |-> NoRow]
    /\ rels = [e \in Edges |-> NoRow]
    /\ refs = [i \in Identities |-> NoRow]
    /\ calls = [c \in Callers |-> Idle]

At(c, pc) == calls[c].pc = pc
Goto(c, call) == calls' = [calls EXCEPT ![c] = call]
Check(c, ok, call) ==
    /\ At(c, "idle") /\ ok /\ Goto(c, call)
    /\ UNCHANGED tables

\* Calls start only below the bound on revisions.
Room(g) == recs[g] # NoRow => recs[g].rev < RevMax

\* The version column counts every write of a row.
Retyped(r, k) == [kind |-> k, rev |-> r.rev + 1, dead |-> r.dead]
Tombstone(r)  == [kind |-> r.kind, rev |-> r.rev + 1, dead |-> TRUE]
Bump(g) == recs' = [recs EXCEPT ![g].rev = @ + 1]

(* OmniRecordService.  Input of the reserved kind is refused.              *)

CreateRecord(c, g, k) ==
    /\ At(c, "idle") /\ recs[g] = NoRow
    /\ recs' = [recs EXCEPT ![g] = [kind |-> k, rev |-> 1, dead |-> FALSE]]
    /\ UNCHANGED <<exts, rels, refs, calls>>

\* assertExistingRecordIsNotReserved, before the write.
NotReserved(g) == Live(g) /\ recs[g].kind # Reserved

CheckUpdate(c, g, k) == Check(c, NotReserved(g) /\ Room(g), [pc |-> "update", guid |-> g, kind |-> k])
CheckDelete(c, g)    == Check(c, NotReserved(g) /\ Room(g), [pc |-> "delete", guid |-> g])

\* Mutant: the write does not repeat the check.
WritableAsChecked(g) == Live(g)

\* nonReservedConditions: the write repeats the check in its conditions.
Writable(g) == NotReserved(g)

UpdateRecord(c) ==
    /\ At(c, "update")
    /\ LET g == calls[c].guid IN
       recs' = IF Writable(g)
                 THEN [recs EXCEPT ![g] = Retyped(recs[g], calls[c].kind)]
                 ELSE recs
    /\ Goto(c, Idle)
    /\ UNCHANGED <<exts, rels, refs>>

\* A row of the extension goes with its record, by cascade.
Remove(g) == recs' = [recs EXCEPT ![g] = NoRow] /\ exts' = [exts EXCEPT ![g] = NoRow]

DeleteRecord(c) ==
    /\ At(c, "delete")
    /\ LET g == calls[c].guid IN
       CASE ~Writable(g) \/ (policy = "hard" /\ Held(g)) -> UNCHANGED <<recs, exts>>
         [] Writable(g) /\ policy = "hard" /\ ~Held(g)   -> Remove(g)
         [] Writable(g) /\ policy # "hard" ->
              recs' = [recs EXCEPT ![g] = Tombstone(recs[g])] /\ UNCHANGED exts
    /\ Goto(c, Idle)
    /\ UNCHANGED <<rels, refs>>

(* OmniExtensionProjectionService.  The owner is saved first: save() looks *)
(* the identity up, with tombstones, and writes what differs from the row  *)
(* it found: nothing over a record of the reserved kind, the kind over any *)
(* other; deletedAt stays as it is.                                        *)

LookOwner(c, g, v) ==
    Check(c, Room(g), [pc |-> "save", guid |-> g, value |-> v,
                       found |-> IF recs[g] = NoRow THEN NoRow ELSE recs[g].kind])

\* What save() writes of an owner, over what is there by now.
Saved(found, was) ==
    CASE found = NoRow              -> [kind |-> Reserved, rev |-> 1, dead |-> FALSE]
      [] found = Reserved           -> was
      [] found \notin {NoRow, Reserved} -> Retyped(was, Reserved)

\* Owner and extension commit together.  An insert of an owner that is there by
\* now, or of an extension whose owner has gone, rolls both back.
SaveExtension(c) ==
    /\ At(c, "save")
    /\ LET g     == calls[c].guid
           found == calls[c].found
       IN  IF (found = NoRow) # (recs[g] = NoRow)
             THEN UNCHANGED <<recs, exts>>
             ELSE /\ recs' = [recs EXCEPT ![g] = Saved(found, recs[g])]
                  /\ exts' = [exts EXCEPT ![g] = calls[c].value]
    /\ Goto(c, Idle)
    /\ UNCHANGED <<rels, refs>>

ReadForUpdate(c, g, v) ==
    Check(c, IsOwner(g) /\ exts[g] # NoRow /\ Room(g),
          [pc |-> "swap", guid |-> g, value |-> v, rev |-> recs[g].rev])

\* Mutant: the row is patched although the revision has moved.
SwapAnyway(c) ==
    /\ At(c, "swap")
    /\ LET g == calls[c].guid IN
       IF IsOwner(g)
         THEN /\ IF recs[g].rev = calls[c].rev THEN Bump(g) ELSE UNCHANGED recs
              /\ exts' = [exts EXCEPT ![g] = calls[c].value]
         ELSE UNCHANGED <<recs, exts>>
    /\ Goto(c, Idle)
    /\ UNCHANGED <<rels, refs>>

\* The owner's revision is swapped and the extension patched in one
\* transaction; a miss changes nothing.
Swap(c) ==
    /\ At(c, "swap")
    /\ LET g == calls[c].guid IN
       IF IsOwner(g) /\ recs[g].rev = calls[c].rev
         THEN Bump(g) /\ exts' = [exts EXCEPT ![g] = calls[c].value]
         ELSE UNCHANGED <<recs, exts>>
    /\ Goto(c, Idle)
    /\ UNCHANGED <<rels, refs>>

ReadForDelete(c, g) == Check(c, IsOwner(g) /\ exts[g] # NoRow, [pc |-> "erase", guid |-> g])

EraseExtension(c) ==
    /\ At(c, "erase")
    /\ LET g  == calls[c].guid
           ok == recs[g] # NoRow /\ recs[g].kind = Reserved /\ ~Held(g)
       IN  IF ok THEN Remove(g) ELSE UNCHANGED <<recs, exts>>
    /\ Goto(c, Idle)
    /\ UNCHANGED <<rels, refs>>

(* OmniRelationService and OmniRelationProjectionService.                  *)

CheckLink(c, e) == Check(c, Allowed(e), [pc |-> "link", edge |-> e])

Link(c) ==
    /\ At(c, "link")
    /\ LET e  == calls[c].edge
           ok == rels[e] = NoRow /\ recs[e[1]] # NoRow /\ recs[e[2]] # NoRow
       IN  rels' = IF ok THEN [rels EXCEPT ![e] = 1] ELSE rels
    /\ Goto(c, Idle)
    /\ UNCHANGED <<recs, exts, refs>>

CheckRelink(c, e) ==
    Check(c, rels[e] # NoRow /\ Allowed(e), [pc |-> "relink", edge |-> e, rev |-> rels[e]])

Relink(c) ==
    /\ At(c, "relink")
    /\ LET e == calls[c].edge IN
       rels' = IF rels[e] = calls[c].rev /\ rels[e] < RevMax
                 THEN [rels EXCEPT ![e] = @ + 1] ELSE rels
    /\ Goto(c, Idle)
    /\ UNCHANGED <<recs, exts, refs>>

Unlink(c, e) ==
    /\ At(c, "idle") /\ rels[e] # NoRow
    /\ rels' = [rels EXCEPT ![e] = NoRow]
    /\ UNCHANGED <<recs, exts, refs, calls>>

(* OmniExternalRefService: upsert, create and delete.                      *)

FindRef(c, i, g) ==
    /\ refs[i] \in {NoRow, g}
    /\ Check(c, TRUE, IF refs[i] = NoRow THEN [pc |-> "assert", identity |-> i, guid |-> g]
                      ELSE [pc |-> "touch", identity |-> i])

\* The write renews what no model tells apart: provenance, times, the revision.
Touch(c) ==
    /\ At(c, "touch")
    /\ Goto(c, Idle)
    /\ UNCHANGED tables

AssertBinding(c) ==
    /\ At(c, "assert")
    /\ Goto(c, IF Live(calls[c].guid) THEN [calls[c] EXCEPT !.pc = "bind"] ELSE Idle)
    /\ UNCHANGED tables

Bind(c) ==
    /\ At(c, "bind")
    /\ LET i == calls[c].identity IN
       refs' = IF refs[i] = NoRow THEN [refs EXCEPT ![i] = calls[c].guid] ELSE refs
    /\ Goto(c, Idle)
    /\ UNCHANGED <<recs, exts, rels>>

DeleteRef(c, i) ==
    /\ At(c, "idle") /\ refs[i] # NoRow
    /\ refs' = [refs EXCEPT ![i] = NoRow]
    /\ UNCHANGED <<recs, exts, rels, calls>>

-----------------------------------------------------------------------------

Record(c) ==
    \/ \E g \in Guids : \/ \E k \in Kinds : CreateRecord(c, g, k) \/ CheckUpdate(c, g, k)
                        \/ CheckDelete(c, g)
    \/ UpdateRecord(c) \/ DeleteRecord(c)

Extension(c) ==
    \/ \E g \in Guids : \/ \E v \in Values : LookOwner(c, g, v) \/ ReadForUpdate(c, g, v)
                        \/ ReadForDelete(c, g)
    \/ SaveExtension(c) \/ Swap(c) \/ EraseExtension(c)

Relation(c) ==
    \/ \E e \in Edges : CheckLink(c, e) \/ CheckRelink(c, e) \/ Unlink(c, e)
    \/ Link(c) \/ Relink(c)

Reference(c) ==
    \/ \E i \in Identities : DeleteRef(c, i) \/ \E g \in Guids : FindRef(c, i, g)
    \/ Touch(c) \/ AssertBinding(c) \/ Bind(c)

Next ==
    /\ \E c \in Callers : Record(c) \/ Extension(c) \/ Relation(c) \/ Reference(c)
    /\ UNCHANGED policy

Spec == Init /\ [][Next]_vars

-----------------------------------------------------------------------------
(* Correctness.                                                            *)

Owner(g)  == recs[g] # NoRow /\ recs[g].kind = Reserved
Paired(g) == (exts[g] # NoRow) <=> Owner(g)

\* A row of the extension has its record, and a record of the reserved kind has
\* its row.
RowsHaveRecords ==
    \A g \in Guids : (exts[g] # NoRow => recs[g] # NoRow) /\ (Owner(g) => exts[g] # NoRow)

\* A create request found an owner, which was deleted and followed by a record
\* of another kind before the request wrote: the row it inserts is no owner's.
Overtaken(g) ==
    \E c \in Callers : /\ At(c, "save") /\ calls[c].guid = g /\ calls'[c] = Idle
                       /\ calls[c].found = Reserved /\ recs[g] # NoRow /\ recs[g].kind # Reserved

PairsStay == \A g \in Guids : Paired(g) /\ ~Paired(g)' => Overtaken(g)

\* An owner never lacks its row nor a row its record, and a row that has an
\* owner of the reserved kind keeps it, through generic writes of records whose
\* kind changes under them; an overtaken create is the one way to part them.
ExtensionsOwned == []RowsHaveRecords /\ [][PairsStay]_vars

\* The content of an extension changes only with the revision of its owner,
\* except that a create request for an identity in use writes over it.
ContentMovesRevision ==
    \A g \in Guids :
        /\ exts[g] # NoRow /\ exts'[g] \notin {exts[g], NoRow}
        /\ ~\E c \in Callers : At(c, "save") /\ calls[c].guid = g /\ calls'[c] = Idle
        => recs'[g].rev = recs[g].rev + 1

RevisionTellsContent == [][ContentMovesRevision]_vars
=============================================================================
