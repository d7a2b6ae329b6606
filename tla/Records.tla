------------------------------- MODULE Records -------------------------------
(***************************************************************************)
(* Five parts that keep records, one of them in each behaviour: the        *)
(* omnikernel services (the module this one extends) and their generated   *)
(* surfaces, the validation of projection definitions, the projection      *)
(* store, and the Task App.  The last four have no state in common, so     *)
(* they take the same variables.                                           *)
(***************************************************************************)
EXTENDS OmniKernel, Sequences

CONSTANTS
    Obj, Missing,                                           \* payloads
    RelationKinds, Note, Source, Target, SurfaceSetups,     \* surface
    Candidates, Docs,                                       \* definition
    Columns, Jsons, Path, Nullable, Inputs, Canon,          \* store
    Seeds, Lists, StoreRevMax, StoreSetups,
    Names, TaskRefs, Syncs, Workloads,                      \* Task App
    Null, Refused, NoSeed

VARIABLES part, s1, s2, s3, s4, s5, s6, s7, s8

state == <<s1, s2, s3, s4, s5, s6, s7, s8>>
records == <<part, vars, state>>

-----------------------------------------------------------------------------

S == INSTANCE OmniSurfaces WITH
       Kinds <- RelationKinds, Setups <- SurfaceSetups, None <- NoRow,
       setup <- s1, recs <- s2, exts <- s3, rel <- s4, calls <- s5, stale <- s6,
       made <- s7, versions <- s8

\* Edges join records, records have two kinds, and no content is NoRow.
ASSUME SurfaceAssumption ==
  /\ IsFiniteSet(Guids) /\ Source \in Guids /\ Target \in Guids
  /\ Note # Reserved
  /\ \A x \in SurfaceSetups :
       /\ x.lifecycle \in BOOLEAN
       /\ \A g \in Guids : NoRow \notin x.values[g]
  /\ NoRow \notin [kind : {Reserved, Note}, rev : Nat]

D == INSTANCE ProjectionDefinition WITH def <- s1, accepted <- s2

\* The parts of a definition are lists.
ASSUME DefinitionAssumption ==
  \A d \in Candidates :
      /\ d.fields \in Seq(D!FieldType)
      /\ d.references \in Seq(D!ReferenceType) /\ d.uniques \in Seq(D!UniqueType)

P == INSTANCE ProjectionStore WITH
       RevMax <- StoreRevMax, Setups <- StoreSetups,
       setup <- s1, rows <- s2, calls <- s3, inc <- s4, won <- s5

\* The definition of the projection was accepted, and requests name its rows;
\* identities are ordered.
ASSUME StoreAssumption ==
  /\ P!DefinitionIsValid /\ P!CodecsAreSound
  /\ IsFiniteSet(Guids) /\ Guids \subseteq Nat
  /\ \A x \in StoreSetups : x.keyed \in BOOLEAN /\ x.guids \subseteq Guids

T == INSTANCE TaskApp WITH
       Guids <- Names, Refs <- TaskRefs,
       recs <- s1, rels <- s2, refs <- s3, syncs <- s4, calls <- s5, started <- s6,
       body <- s7, load <- s8

ASSUME TaskAssumption == T!RequestsAreTyped

-----------------------------------------------------------------------------

OmniRests ==
    /\ policy = "hard" /\ calls = [c \in Callers |-> Idle]
    /\ recs = [g \in Guids |-> NoRow] /\ exts = [g \in Guids |-> NoRow]
    /\ rels = [e \in Edges |-> NoRow] /\ refs = [i \in Identities |-> NoRow]

RecordsInit ==
    \/ /\ part = "omni" /\ Init
       /\ s1 = 0 /\ s2 = 0 /\ s3 = 0 /\ s4 = 0 /\ s5 = 0 /\ s6 = 0 /\ s7 = 0 /\ s8 = 0
    \/ part = "surface" /\ S!Init /\ OmniRests
    \/ /\ part = "definition" /\ D!Init /\ OmniRests
       /\ s3 = 0 /\ s4 = 0 /\ s5 = 0 /\ s6 = 0 /\ s7 = 0 /\ s8 = 0
    \/ part = "store" /\ P!Init /\ s6 = 0 /\ s7 = 0 /\ s8 = 0 /\ OmniRests
    \/ part = "task" /\ T!Init /\ OmniRests

RecordsNext ==
    \/ part = "omni" /\ Next /\ UNCHANGED <<part, state>>
    \/ part = "surface" /\ S!Next /\ UNCHANGED <<part, vars>>
    \/ part = "definition" /\ D!Next /\ UNCHANGED <<part, vars, s3, s4, s5, s6, s7, s8>>
    \/ part = "store" /\ P!Next /\ UNCHANGED <<part, vars, s6, s7, s8>>
    \/ part = "task" /\ T!Next /\ UNCHANGED <<part, vars>>

RecordsSpec == RecordsInit /\ [][RecordsNext]_records

-----------------------------------------------------------------------------

\* ProjectionDefinition: an accepted definition is safe to run.
AcceptedIsSafe == part = "definition" => D!AcceptedIsSafe

\* ProjectionStore: rows read back as well-formed resources, and the pages of a
\* list hold every matching record once.
RowsReadBack == part = "store" => P!FieldsWellFormed /\ P!PagesCover

\* ProjectionStore: of two updates that expect one revision, one wins.
OneWinner == part = "store" => P!OneWinner

\* What a revision swap acknowledges is what it wrote: in the projection store
\* the fields the patch names, in the omnikernel the content of an extension
\* together with the revision of its owner.
SwapsLand == [][/\ part = "store" => P!LandsAsNamed
                /\ part = "omni" => ContentMovesRevision]_records

\* OmniSurfaces: what the policies of an application checked still holds.
PoliciesHold == part = "surface" => S!PoliciesHold

\* OmniSurfaces: a call of the relation surface touches only the surface's rows.
StaysInSurface == [][part = "surface" => S!StaysInSurface]_records

\* TaskApp: an acknowledged call leaves its record filed and written as it said.
AckedAsFiled == [][part = "task" => T!FiledAsAcked]_records
=============================================================================
