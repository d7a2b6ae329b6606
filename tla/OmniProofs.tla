------------------------------ MODULE OmniProofs ------------------------------
(***************************************************************************)
(* Extension rows have their records, owners their rows, and pairs of the  *)
(* two last, for any number of concurrent calls, records and relations.    *)
(***************************************************************************)
EXTENDS OmniKernel, TLAPS

Calls ==
    {Idle} \cup [pc : {"update"}, guid : Guids, kind : Kinds]
           \cup [pc : {"delete", "erase"}, guid : Guids]
           \cup [pc : {"save"}, guid : Guids, value : Values, found : Kinds \cup {Reserved, NoRow}]
           \cup [pc : {"swap"}, guid : Guids, value : Values, rev : Nat]
           \cup [pc : {"link"}, edge : Edges]
           \cup [pc : {"relink"}, edge : Edges, rev : Nat]
           \cup [pc : {"touch"}, identity : Identities]
           \cup [pc : {"assert", "bind"}, identity : Identities, guid : Guids]

TablesOK ==
    /\ recs \in [Guids -> Rows \cup {NoRow}]
    /\ exts \in [Guids -> Values \cup {NoRow}]
    /\ rels \in [Edges -> Nat \cup {NoRow}]

CallsOK == calls \in [Callers -> Calls]

\* Calls carry what was checked: a kind that is not reserved, a content, what
\* was found of an owner.
IInv == TablesOK /\ CallsOK /\ RowsHaveRecords

\* What every step of the services does.
Kept == IInv' /\ PairsStay

\* What each pending call carries.
LEMMA CallShapes ==
    ASSUME CallsOK, NEW c \in Callers
    PROVE  /\ At(c, "update") => calls[c].guid \in Guids /\ calls[c].kind \in Kinds
           /\ At(c, "delete") => calls[c].guid \in Guids
           /\ At(c, "erase") => calls[c].guid \in Guids
           /\ At(c, "save") => /\ calls[c].guid \in Guids /\ calls[c].value \in Values
                               /\ calls[c].found \in Kinds \cup {Reserved, NoRow}
           /\ At(c, "swap") => calls[c].guid \in Guids /\ calls[c].value \in Values
           /\ At(c, "link") => calls[c].edge \in Edges
           /\ At(c, "relink") => calls[c].edge \in Edges /\ calls[c].rev \in Nat
           /\ At(c, "assert") => [calls[c] EXCEPT !.pc = "bind"] \in Calls
<1>1. calls[c] \in Calls
  BY DEF CallsOK
<1>2. /\ At(c, "update") => calls[c].guid \in Guids /\ calls[c].kind \in Kinds
      /\ At(c, "delete") => calls[c].guid \in Guids
      /\ At(c, "erase") => calls[c].guid \in Guids
  BY <1>1 DEF Calls, At, Idle
<1>3. /\ At(c, "save") => /\ calls[c].guid \in Guids /\ calls[c].value \in Values
                          /\ calls[c].found \in Kinds \cup {Reserved, NoRow}
      /\ At(c, "swap") => calls[c].guid \in Guids /\ calls[c].value \in Values
  BY <1>1 DEF Calls, At, Idle
<1>4. /\ At(c, "link") => calls[c].edge \in Edges
      /\ At(c, "relink") => calls[c].edge \in Edges /\ calls[c].rev \in Nat
  BY <1>1 DEF Calls, At, Idle
<1>5. At(c, "assert") => [calls[c] EXCEPT !.pc = "bind"] \in Calls
  <2> SUFFICES ASSUME At(c, "assert") PROVE [calls[c] EXCEPT !.pc = "bind"] \in Calls
    OBVIOUS
  <2>1. calls[c] \in [pc : {"assert", "bind"}, identity : Identities, guid : Guids]
    BY <1>1 DEF Calls, At, Idle
  <2> QED
    BY <2>1 DEF Calls
<1> QED
  BY <1>2, <1>3, <1>4, <1>5

\* A statement that ends its call, or sends it on to a proper one.
LEMMA Going ==
    ASSUME CallsOK, NEW c \in Callers, NEW call \in Calls, Goto(c, call)
    PROVE  CallsOK'
  BY DEF CallsOK, Goto

LEMMA IdleIsCall == Idle \in Calls
  BY DEF Calls

\* A step that leaves records and extensions alone.
LEMMA Untouched ==
    ASSUME IInv, CallsOK', rels' \in [Edges -> Nat \cup {NoRow}], UNCHANGED <<recs, exts>>
    PROVE  Kept
  BY DEF Kept, IInv, TablesOK, RowsHaveRecords, PairsStay, Paired, Owner

\* The checks of a call touch no table.
LEMMA Checking ==
    ASSUME IInv, NEW c \in Callers, NEW call \in Calls, NEW ok \in BOOLEAN, Check(c, ok, call)
    PROVE  Kept
<1>1. CallsOK'
  BY Going DEF Check, IInv
<1>2. UNCHANGED <<recs, exts, rels>>
  BY DEF Check, tables
<1> QED
  BY <1>1, <1>2, Untouched DEF IInv, TablesOK

\* One record changes with its extension row: the row has its record, an owner
\* its row, and a pair stays a pair unless a create was overtaken.
LEMMA Writing ==
    ASSUME IInv, CallsOK', UNCHANGED rels, NEW g \in Guids,
           NEW r \in Rows \cup {NoRow}, NEW x \in Values \cup {NoRow},
           recs' = [recs EXCEPT ![g] = r], exts' = [exts EXCEPT ![g] = x],
           x # NoRow => r # NoRow,
           r # NoRow /\ r.kind = Reserved => x # NoRow,
           Paired(g) /\ x # NoRow => r.kind = Reserved \/ Overtaken(g)
    PROVE  Kept
<1>1. TablesOK'
  BY DEF IInv, TablesOK
<1>2. \A h \in Guids : /\ recs'[h] = IF h = g THEN r ELSE recs[h]
                       /\ exts'[h] = IF h = g THEN x ELSE exts[h]
  BY DEF IInv, TablesOK
<1>3. RowsHaveRecords'
  BY <1>2 DEF IInv, RowsHaveRecords, Owner
<1>4. PairsStay
  <2> SUFFICES ASSUME NEW h \in Guids, Paired(h), ~Paired(h)' PROVE Overtaken(h)
    BY DEF PairsStay
  <2>1. h = g
    BY <1>2 DEF Paired, Owner
  <2>2. (x # NoRow) # (r # NoRow /\ r.kind = Reserved)
    BY <1>2, <2>1 DEF Paired, Owner
  <2> QED
    BY <2>1, <2>2
<1> QED
  BY <1>1, <1>3, <1>4 DEF IInv, Kept

\* What a write makes of a row.
LEMMA RowWrites ==
    ASSUME NEW r \in Rows, NEW k \in Kinds \cup {Reserved}
    PROVE  /\ Retyped(r, k) \in Rows /\ Retyped(r, k).kind = k
           /\ Tombstone(r) \in Rows /\ Tombstone(r).kind = r.kind
<1>1. Retyped(r, k) \in Rows /\ Retyped(r, k).kind = k
  BY DEF Retyped, Rows
<1>2. Tombstone(r) \in Rows /\ Tombstone(r).kind = r.kind
  BY DEF Tombstone, Rows
<1> QED
  BY <1>1, <1>2

\* What save() leaves of an owner: the reserved kind, unless it found it there.
LEMMA Saving ==
    ASSUME NEW found \in Kinds \cup {Reserved, NoRow}, NEW was \in Rows \cup {NoRow},
           (found = NoRow) <=> (was = NoRow)
    PROVE  /\ Saved(found, was) \in Rows /\ Saved(found, was) # NoRow
           /\ Saved(found, was).kind = Reserved \/ (found = Reserved /\ was.kind # Reserved)
<1>1. CASE found = NoRow
  <2>1. Saved(found, was) = [kind |-> Reserved, rev |-> 1, dead |-> FALSE]
    BY <1>1, OmniAssumption DEF Saved
  <2>2. [kind |-> Reserved, rev |-> 1, dead |-> FALSE] \in Rows
    BY DEF Rows
  <2>3. Saved(found, was) \in Rows /\ Saved(found, was).kind = Reserved
    BY <2>1, <2>2
  <2> QED
    BY <2>3, OmniAssumption
<1>2. CASE found = Reserved
  <2>1. Saved(found, was) = was /\ was \in Rows
    BY <1>2, OmniAssumption DEF Saved
  <2> QED
    BY <1>2, <2>1, OmniAssumption
<1>3. CASE found \notin {NoRow, Reserved}
  <2>1. Saved(found, was) = Retyped(was, Reserved) /\ was \in Rows
    BY <1>3 DEF Saved
  <2> QED
    BY <2>1, RowWrites, OmniAssumption
<1> QED
  BY <1>1, <1>2, <1>3

LEMMA Initially == Init => IInv
<1> SUFFICES ASSUME Init PROVE IInv
  OBVIOUS
<1>1. TablesOK /\ CallsOK
  BY IdleIsCall DEF Init, TablesOK, CallsOK
<1>2. RowsHaveRecords
  BY DEF Init, RowsHaveRecords, Owner
<1> QED
  BY <1>1, <1>2 DEF IInv

LEMMA RecordStep ==
    ASSUME IInv, NEW c \in Callers, Record(c)
    PROVE  Kept
<1> USE DEF IInv
<1>1. ASSUME NEW g \in Guids, NEW k \in Kinds, CreateRecord(c, g, k) PROVE Kept
  <2> DEFINE r == [kind |-> k, rev |-> 1, dead |-> FALSE]
  <2>1. r \in Rows \cup {NoRow} /\ r.kind # Reserved
    BY OmniAssumption DEF Rows
  <2>2. exts[g] = NoRow /\ exts' = [exts EXCEPT ![g] = NoRow]
    BY <1>1 DEF CreateRecord, RowsHaveRecords, TablesOK
  <2>3. recs' = [recs EXCEPT ![g] = r] /\ CallsOK' /\ UNCHANGED rels
    BY <1>1 DEF CreateRecord, CallsOK
  <2> HIDE DEF r
  <2> QED
    BY <2>1, <2>2, <2>3, Writing
<1>2. ASSUME NEW g \in Guids, NEW k \in Kinds, CheckUpdate(c, g, k) PROVE Kept
  <2>1. [pc |-> "update", guid |-> g, kind |-> k] \in Calls
    BY DEF Calls
  <2> QED
    BY <1>2, <2>1, Checking DEF CheckUpdate, NotReserved, Room, Live
<1>3. ASSUME NEW g \in Guids, CheckDelete(c, g) PROVE Kept
  <2>1. [pc |-> "delete", guid |-> g] \in Calls
    BY DEF Calls
  <2> QED
    BY <1>3, <2>1, Checking DEF CheckDelete, NotReserved, Room, Live
<1>4. CASE UpdateRecord(c)
  <2> DEFINE g == calls[c].guid
  <2>1. g \in Guids /\ calls[c].kind \in Kinds /\ CallsOK' /\ UNCHANGED <<exts, rels>>
    BY <1>4, CallShapes, Going, IdleIsCall DEF UpdateRecord
  <2>2. CASE ~Writable(g)
    BY <1>4, <2>1, <2>2, Untouched DEF UpdateRecord, TablesOK
  <2>3. CASE Writable(g)
    <3> DEFINE r == Retyped(recs[g], calls[c].kind)
               x == exts[g]
    <3>1. recs' = [recs EXCEPT ![g] = r] /\ exts' = [exts EXCEPT ![g] = x]
      BY <1>4, <2>1, <2>3 DEF UpdateRecord, TablesOK
    <3>2. recs[g] \in Rows /\ recs[g].kind # Reserved /\ x \in Values \cup {NoRow}
      BY <2>1, <2>3 DEF Writable, NotReserved, Live, TablesOK
    <3>3. r \in Rows /\ r.kind # Reserved /\ r # NoRow
      BY <2>1, <3>2, RowWrites, OmniAssumption
    <3>4. Paired(g) => x = NoRow
      BY <3>2 DEF Paired, Owner
    <3> HIDE DEF r, g, x
    <3> QED
      BY <2>1, <3>1, <3>2, <3>3, <3>4, Writing
  <2> QED
    BY <2>2, <2>3
<1>5. CASE DeleteRecord(c)
  <2> DEFINE g == calls[c].guid
  <2>1. g \in Guids /\ CallsOK' /\ UNCHANGED rels
    BY <1>5, CallShapes, Going, IdleIsCall DEF DeleteRecord
  <2>2. CASE UNCHANGED <<recs, exts>>
    BY <2>1, <2>2, Untouched DEF TablesOK
  <2>3. CASE Remove(g)
    <3> HIDE DEF g
    <3> QED
      BY <2>1, <2>3, Writing DEF Remove
  <2>4. CASE Writable(g) /\ recs' = [recs EXCEPT ![g] = Tombstone(recs[g])] /\ UNCHANGED exts
    <3> DEFINE r == Tombstone(recs[g])
               x == exts[g]
    <3>1. recs' = [recs EXCEPT ![g] = r] /\ exts' = [exts EXCEPT ![g] = x]
      BY <2>1, <2>4 DEF TablesOK
    <3>2. recs[g] \in Rows /\ recs[g].kind # Reserved /\ x \in Values \cup {NoRow}
      BY <2>1, <2>4 DEF Writable, NotReserved, Live, TablesOK
    <3>3. r \in Rows /\ r.kind # Reserved /\ r # NoRow
      BY <3>2, RowWrites, OmniAssumption
    <3>4. Paired(g) => x = NoRow
      BY <3>2 DEF Paired, Owner
    <3> HIDE DEF r, g, x
    <3> QED
      BY <2>1, <3>1, <3>2, <3>3, <3>4, Writing
  <2> QED
    BY <1>5, <2>2, <2>3, <2>4 DEF DeleteRecord
<1> QED
  BY <1>1, <1>2, <1>3, <1>4, <1>5 DEF Record

LEMMA ExtensionStep ==
    ASSUME IInv, NEW c \in Callers, Extension(c)
    PROVE  Kept
<1> USE DEF IInv
<1>1. ASSUME NEW g \in Guids, NEW v \in Values, LookOwner(c, g, v) PROVE Kept
  <2> DEFINE found == IF recs[g] = NoRow THEN NoRow ELSE recs[g].kind
  <2>1. found \in Kinds \cup {Reserved, NoRow}
    BY DEF TablesOK, Rows
  <2>2. [pc |-> "save", guid |-> g, value |-> v, found |-> found] \in Calls
    BY <2>1 DEF Calls
  <2> QED
    BY <1>1, <2>2, Checking DEF LookOwner, Room
<1>2. ASSUME NEW g \in Guids, NEW v \in Values, ReadForUpdate(c, g, v) PROVE Kept
  <2>1. recs[g] \in Rows
    BY <1>2 DEF ReadForUpdate, Check, IsOwner, Live, TablesOK
  <2>2. [pc |-> "swap", guid |-> g, value |-> v, rev |-> recs[g].rev] \in Calls
    BY <2>1 DEF Calls, Rows
  <2> QED
    BY <1>2, <2>2, Checking DEF ReadForUpdate, IsOwner, Live, Room
<1>3. ASSUME NEW g \in Guids, ReadForDelete(c, g) PROVE Kept
  <2>1. [pc |-> "erase", guid |-> g] \in Calls
    BY DEF Calls
  <2> QED
    BY <1>3, <2>1, Checking DEF ReadForDelete, IsOwner, Live
<1>4. CASE SaveExtension(c)
  <2> DEFINE g == calls[c].guid
             v == calls[c].value
             found == calls[c].found
             r == Saved(found, recs[g])
  <2>1. /\ g \in Guids /\ v \in Values /\ found \in Kinds \cup {Reserved, NoRow}
        /\ CallsOK' /\ UNCHANGED rels
    BY <1>4, CallShapes, Going, IdleIsCall DEF SaveExtension
  <2>2. CASE UNCHANGED <<recs, exts>>
    BY <2>1, <2>2, Untouched DEF TablesOK
  <2>3. CASE /\ (found = NoRow) <=> (recs[g] = NoRow)
             /\ recs' = [recs EXCEPT ![g] = r] /\ exts' = [exts EXCEPT ![g] = v]
    <3>1. recs[g] \in Rows \cup {NoRow}
      BY <2>1 DEF TablesOK
    <3>2. /\ r \in Rows /\ r # NoRow
          /\ r.kind = Reserved \/ (found = Reserved /\ recs[g].kind # Reserved)
      BY <2>1, <2>3, <3>1, Saving
    <3>3. v # NoRow
      BY <2>1, OmniAssumption
    <3>4. r.kind = Reserved \/ Overtaken(g)
      <4> SUFFICES ASSUME found = Reserved, recs[g].kind # Reserved PROVE Overtaken(g)
        BY <3>2
      <4>1. recs[g] # NoRow
        BY <2>3, OmniAssumption
      <4>2. At(c, "save") /\ calls'[c] = Idle
        BY <1>4 DEF SaveExtension, Goto, CallsOK
      <4> QED
        BY <4>1, <4>2 DEF Overtaken
    <3> HIDE DEF r, g, v, found
    <3> QED
      BY <2>1, <2>3, <3>2, <3>3, <3>4, Writing
  <2> QED
    BY <1>4, <2>2, <2>3 DEF SaveExtension
<1>5. CASE Swap(c)
  <2> DEFINE g == calls[c].guid
             v == calls[c].value
             r == [recs[g] EXCEPT !.rev = recs[g].rev + 1]
  <2>1. g \in Guids /\ v \in Values /\ CallsOK' /\ UNCHANGED rels
    BY <1>5, CallShapes, Going, IdleIsCall DEF Swap
  <2>2. CASE UNCHANGED <<recs, exts>>
    BY <2>1, <2>2, Untouched DEF TablesOK
  <2>3. CASE IsOwner(g) /\ Bump(g) /\ exts' = [exts EXCEPT ![g] = v]
    <3>1. recs[g] \in Rows /\ recs[g].kind = Reserved
      BY <2>1, <2>3 DEF IsOwner, Live, TablesOK
    <3>2. recs' = [recs EXCEPT ![g] = r] /\ r \in Rows /\ r.kind = Reserved
      BY <2>3, <3>1 DEF Rows, Bump
    <3>3. r # NoRow /\ v # NoRow
      BY <2>1, <3>2, OmniAssumption
    <3> HIDE DEF r, g, v
    <3> QED
      BY <2>1, <2>3, <3>2, <3>3, Writing
  <2> QED
    BY <1>5, <2>2, <2>3 DEF Swap
<1>6. CASE EraseExtension(c)
  <2> DEFINE g == calls[c].guid
  <2>1. g \in Guids /\ CallsOK' /\ UNCHANGED rels
    BY <1>6, CallShapes, Going, IdleIsCall DEF EraseExtension
  <2>2. CASE UNCHANGED <<recs, exts>>
    BY <2>1, <2>2, Untouched DEF TablesOK
  <2>3. CASE Remove(g)
    <3> HIDE DEF g
    <3> QED
      BY <2>1, <2>3, Writing DEF Remove
  <2> QED
    BY <1>6, <2>2, <2>3 DEF EraseExtension
<1> QED
  BY <1>1, <1>2, <1>3, <1>4, <1>5, <1>6 DEF Extension

\* Relations and references leave records and extensions alone.
LEMMA OtherStep ==
    ASSUME IInv, NEW c \in Callers, Relation(c) \/ Reference(c)
    PROVE  Kept
<1>1. UNCHANGED <<recs, exts>>
  BY DEF Relation, Reference, CheckLink, CheckRelink, Check, tables, Unlink, Link, Relink,
         DeleteRef, FindRef, Touch, AssertBinding, Bind
<1>2. rels' \in [Edges -> Nat \cup {NoRow}]
  <2>1. rels \in [Edges -> Nat \cup {NoRow}]
    BY DEF IInv, TablesOK
  <2>2. CASE Link(c)
    BY <2>1, <2>2 DEF Link
  <2>3. CASE Relink(c)
    <3>1. calls[c].edge \in Edges /\ calls[c].rev \in Nat
      BY <2>3, CallShapes DEF Relink, IInv
    <3> QED
      BY <2>1, <2>3, <3>1 DEF Relink
  <2>4. ASSUME NEW e \in Edges, Unlink(c, e) PROVE rels' \in [Edges -> Nat \cup {NoRow}]
    BY <2>1, <2>4 DEF Unlink
  <2>5. CASE UNCHANGED rels
    BY <2>1, <2>5
  <2> QED
    BY <2>2, <2>3, <2>4, <2>5
    DEF Relation, Reference, CheckLink, CheckRelink, Check, tables,
        DeleteRef, FindRef, Touch, AssertBinding, Bind
<1>3. CallsOK'
  <2>1. CallsOK /\ Idle \in Calls
    BY IdleIsCall DEF IInv
  <2>2. ASSUME NEW e \in Edges, CheckLink(c, e) \/ CheckRelink(c, e) PROVE CallsOK'
    <3>1. [pc |-> "link", edge |-> e] \in Calls
      BY DEF Calls
    <3>2. rels[e] # NoRow => [pc |-> "relink", edge |-> e, rev |-> rels[e]] \in Calls
      BY DEF Calls, IInv, TablesOK
    <3> QED
      BY <2>1, <2>2, <3>1, <3>2, Going DEF CheckLink, CheckRelink, Check
  <2>3. ASSUME NEW i \in Identities, NEW g \in Guids, FindRef(c, i, g) PROVE CallsOK'
    <3>1. /\ [pc |-> "assert", identity |-> i, guid |-> g] \in Calls
          /\ [pc |-> "touch", identity |-> i] \in Calls
      BY DEF Calls
    <3> QED
      BY <2>1, <2>3, <3>1, Going DEF FindRef, Check
  <2>4. CASE AssertBinding(c)
    BY <2>1, <2>4, CallShapes, Going DEF AssertBinding
  <2>5. CASE Link(c) \/ Relink(c) \/ Touch(c) \/ Bind(c)
    BY <2>1, <2>5, Going DEF Link, Relink, Touch, Bind
  <2>6. CASE UNCHANGED calls
    BY <2>1, <2>6 DEF CallsOK
  <2> QED
    BY <2>2, <2>3, <2>4, <2>5, <2>6 DEF Relation, Reference, Unlink, DeleteRef
<1> QED
  BY <1>1, <1>2, <1>3, Untouched

LEMMA StepsKeep == IInv /\ [Next]_vars => Kept
<1> SUFFICES ASSUME IInv, [Next]_vars PROVE Kept
  OBVIOUS
<1>1. CASE Next
  BY <1>1, RecordStep, ExtensionStep, OtherStep DEF Next
<1>2. CASE UNCHANGED vars
  BY <1>2, Untouched DEF vars, IInv, TablesOK, CallsOK
<1> QED
  BY <1>1, <1>2

LEMMA Inductive == IInv /\ [Next]_vars => IInv'
  BY StepsKeep DEF Kept

\* A row of the extension always has its record and an owner its row, and a
\* pair of the two stays one, except where a create of the extension found an
\* owner that was deleted and made anew as an ordinary record before its write.
THEOREM ExtensionsStayOwned == Spec => ExtensionsOwned
<1>1. IInv => RowsHaveRecords
  BY DEF IInv
<1>2. IInv /\ [Next]_vars => [PairsStay]_vars
  BY StepsKeep DEF Kept
<1> QED
  BY Initially, Inductive, <1>1, <1>2, PTL DEF Spec, ExtensionsOwned

LEMMA ContentMoves == IInv /\ Next => ContentMovesRevision
<1> SUFFICES ASSUME IInv, Next, NEW g \in Guids,
                    exts[g] # NoRow, exts'[g] \notin {exts[g], NoRow},
                    ~\E c \in Callers : At(c, "save") /\ calls[c].guid = g /\ calls'[c] = Idle
             PROVE  recs'[g].rev = recs[g].rev + 1
  BY DEF ContentMovesRevision
<1>1. PICK c \in Callers : SaveExtension(c) \/ Swap(c) \/ EraseExtension(c) \/ DeleteRecord(c)
  BY DEF Next, Record, Extension, Relation, Reference, CreateRecord, CheckUpdate, CheckDelete,
         UpdateRecord, LookOwner, ReadForUpdate, ReadForDelete,
         CheckLink, CheckRelink, Check, tables, Unlink, Link, Relink,
         DeleteRef, FindRef, Touch, AssertBinding, Bind
<1>2. exts \in [Guids -> Values \cup {NoRow}] /\ recs \in [Guids -> Rows \cup {NoRow}]
  BY DEF IInv, TablesOK
<1>3. CASE SaveExtension(c)
  <2>1. calls[c].guid = g
    BY <1>2, <1>3 DEF SaveExtension
  <2>2. calls'[c] = Idle
    BY <1>3 DEF SaveExtension, Goto, IInv, CallsOK
  <2> QED
    BY <1>3, <2>1, <2>2 DEF SaveExtension
<1>4. CASE Swap(c)
  <2>1. calls[c].guid = g /\ Bump(g) /\ recs[g] \in Rows
    BY <1>2, <1>4 DEF Swap, IsOwner, Live
  <2> QED
    BY <1>2, <2>1 DEF Bump, Rows
<1>5. CASE EraseExtension(c) \/ DeleteRecord(c)
  BY <1>2, <1>5 DEF EraseExtension, DeleteRecord, Remove
<1> QED
  BY <1>1, <1>3, <1>4, <1>5

\* The revision of an owner tells every change of the content of its extension,
\* except a create request that writes over it.
THEOREM RevisionsTellContent == Spec => RevisionTellsContent
<1>1. IInv /\ [Next]_vars => [ContentMovesRevision]_vars
  BY ContentMoves
<1> QED
  BY Initially, Inductive, <1>1, PTL DEF Spec, RevisionTellsContent
=============================================================================
