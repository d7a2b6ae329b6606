------------------------------ MODULE TaskApp ------------------------------
(***************************************************************************)
(* examples/task: the Task App over the omnikernel tables.  Projects,      *)
(* tasks and events are records; a contains relation files a record under  *)
(* a project, and a task names other records by references and related_to  *)
(* relations.  External references and sync states point at records and at *)
(* references.  The services issue plain repository statements, without a  *)
(* transaction around them, so a call is modelled as the sequence of its   *)
(* statements: statements of different calls interleave, and a statement   *)
(* that fails ends its call and leaves what the earlier ones did.          *)
(***************************************************************************)
EXTENDS Naturals, FiniteSets, TaskServices

CONSTANTS
    Callers,        \* requests in progress at once
    Guids,          \* identities of records
    Refs,           \* identities of external references
    Syncs,          \* identities of sync states
    Workloads       \* the requests to make, and a bound on the calls started

VARIABLES
    recs,           \* omni-record: the kind of each record
    body,           \* and its content
    rels,           \* omni-relation: <<source, target, kind>>
    refs,           \* omni-external-ref: [to, ext]
    syncs,          \* sync states: the external reference each one names
    calls,          \* per caller: statements left, footprint, and the filing
    started,        \* history: calls started
    load            \* the workload

vars == <<recs, body, rels, refs, syncs, calls, started, load>>

-----------------------------------------------------------------------------
(* Requests, of any status and date.                                       *)

RecordKinds == DOMAIN Default
Contents    == [status : STRING, due : STRING \cup {NoRow}]
Namings     == UNION {[ks -> SUBSET Guids] : ks \in SUBSET Relate}

RequestType ==
    [op : {"create"}, kind : {"task", "event"}, guid : Guids,
     project : Guids \cup {NoRow}, named : Namings, input : Contents]
      \cup [op : {"createProject"}, guid : Guids]
      \cup [op : {"createWithTask"}, project : Guids, guid : Guids]
      \cup [op : {"update"}, kind : RecordKinds, guid : Guids,
            project : Guids \cup {NoRow, "kept"}, named : Namings, input : Contents]
      \cup [op : {"delete"}, guid : Guids, kind : RecordKinds]
      \cup [op : {"list"}, project : Guids, kind : RecordKinds]
      \cup [op : {"createRef", "updateRef"}, ref : Refs, type : STRING, to : Guids, ext : STRING]
      \cup [op : {"deleteRef"}, ref : Refs]
      \cup [op : {"createSync", "updateSync"}, sync : Syncs, ref : Refs]
      \cup [op : {"deleteSync"}, sync : Syncs]

\* What stands for nothing is no identity, no kind and no text of a request.
RequestsAreTyped ==
    /\ "kept" \notin Guids \cup {NoRow}
    /\ NoRow \notin Guids \cup RecordKinds \cup {"bad"}
    /\ \A w \in Workloads : w.requests \subseteq RequestType /\ w.max \in Nat

-----------------------------------------------------------------------------
(* Statements.                                                             *)

Idle(answer) == [todo |-> <<>>, on |-> {}, alone |-> FALSE, files |-> NoRow, answer |-> answer,
                 was |-> NoRow, read |-> NoRow]

Init ==
    /\ recs = [g \in Guids |-> NoRow]
    /\ body = [g \in Guids |-> NoRow]
    /\ rels = {}
    /\ refs = [r \in Refs |-> NoRow]
    /\ syncs = [s \in Syncs |-> NoRow]
    /\ calls = [c \in Callers |-> Idle("ok")]
    /\ started = 0
    /\ load \in Workloads

Busy == {c \in Callers : calls[c].todo # <<>>}

\* A call is alone while no other call touches its records.
Start(c, q) ==
    LET script == Asked(q)
        others == {d \in Busy : calls[d].on \cap script.on # {}}
    IN  /\ c \notin Busy /\ started < load.max
        /\ calls' = [d \in Callers |->
              IF d = c THEN [todo |-> script.todo, on |-> script.on, answer |-> "none",
                             alone |-> others = {}, files |-> script.files, read |-> NoRow,
                             was |-> IF script.files = NoRow THEN NoRow ELSE body[script.files.guid]]
              ELSE IF d \in others THEN [calls[d] EXCEPT !.alone = FALSE]
              ELSE calls[d]]
        /\ started' = started + 1
        /\ UNCHANGED <<recs, body, rels, refs, syncs, load>>

Fails(c) == calls' = [calls EXCEPT ![c] = Idle("failed")]
Done(c)  == IF Len(calls[c].todo) = 1 THEN calls' = [calls EXCEPT ![c] = Idle("ok")]
            ELSE calls' = [calls EXCEPT ![c].todo = Tail(@)]

Then(c, ok) == IF ok THEN Done(c) ELSE Fails(c)

Read(c, s) ==
    /\ s.op \in {"find", "read", "findAll", "findRef", "findSync", "count", "page", "lookup"}
    /\ CASE s.op = "find"     -> Then(c, recs[s.guid] \in s.kinds)
         [] s.op = "read"     ->
              IF recs[s.guid] \in s.kinds
              THEN calls' = [calls EXCEPT ![c].todo = Tail(@), ![c].read = body[s.guid]]
              ELSE Fails(c)
         [] s.op = "findAll"  -> Then(c, \A g \in s.guids : recs[g] # NoRow)
         [] s.op = "findRef"  -> Then(c, refs[s.ref] # NoRow)
         [] s.op = "findSync" -> Then(c, syncs[s.sync] # NoRow)
         [] s.op = "lookup"   ->
              LET found == {r \in Refs : refs[r] # NoRow /\ refs[r].ext = s.ext}
                  rest  == Tail(calls[c].todo)
              IN  calls' = [calls EXCEPT ![c].todo =
                     IF found = {} THEN rest
                     ELSE <<[Head(rest) EXCEPT !.ref = CHOOSE r \in found : TRUE]>>]
         [] OTHER -> Done(c)
    /\ UNCHANGED <<recs, body, rels, refs, syncs>>

\* save() looks the row up and overwrites the one it finds, of whatever kind.
WriteRecord(c, s) ==
    /\ \/ /\ s.op = "save"
          /\ recs' = [recs EXCEPT ![s.guid] = s.kind]
          /\ body' = [body EXCEPT ![s.guid] = Body(s.kind, s.input)]
          /\ Done(c)
       \/ /\ s.op = "patch"
          /\ body' = IF recs[s.guid] # s.kind THEN body
                     ELSE [body EXCEPT ![s.guid] = Body(s.kind, Merged(calls[c].read, s.input))]
          /\ Done(c)
          /\ UNCHANGED recs
       \/ /\ s.op = "drop"
          /\ LET match == recs[s.guid] = s.kind
                 held  == \E x \in rels : s.guid \in {x[1], x[2]}
                 gone  == match /\ ~held
             IN  /\ Then(c, match => ~held)
                 /\ recs' = IF gone THEN [recs EXCEPT ![s.guid] = NoRow] ELSE recs
                 /\ body' = IF gone THEN [body EXCEPT ![s.guid] = NoRow] ELSE body
    /\ UNCHANGED <<rels, refs, syncs>>

\* The endpoints are foreign keys, an edge of one kind is unique.
WriteRelation(c, s) ==
    /\ \/ /\ s.op = "unlink"
          /\ rels' = {x \in rels : ~(x[s.col] = s.guid /\ x[3] \in s.kinds)}
          /\ Done(c)
       \/ /\ s.op = "link"
          /\ LET new == {<<e[1], e[2], s.kind>> : e \in s.pairs}
                 ok  == /\ \A e \in s.pairs : recs[e[1]] # NoRow /\ recs[e[2]] # NoRow
                        /\ new \cap rels = {}
             IN  /\ Then(c, ok)
                 /\ rels' = IF ok THEN rels \cup new ELSE rels
    /\ UNCHANGED <<recs, body, refs, syncs>>

WriteRef(c, s) ==
    /\ \/ /\ s.op \in {"saveRef", "patchRef"}
          /\ LET taken == \E r \in Refs \ {s.ref} : refs[r] # NoRow /\ refs[r].ext = s.ext
                 write == ~taken /\ (s.op = "saveRef" \/ refs[s.ref] # NoRow)
             IN  /\ Then(c, ~taken)
                 /\ refs' = IF write THEN [refs EXCEPT ![s.ref] = [to |-> s.to, ext |-> s.ext]]
                            ELSE refs
       \/ /\ s.op = "dropRef"
          /\ refs' = [refs EXCEPT ![s.ref] = NoRow]
          /\ Done(c)
    /\ UNCHANGED <<recs, body, rels, syncs>>

WriteSync(c, s) ==
    /\ \/ /\ s.op = "saveSync"
          /\ syncs' = [syncs EXCEPT ![s.sync] = s.ref]
          /\ Done(c)
       \/ /\ s.op = "patchSync"
          /\ syncs' = IF syncs[s.sync] = NoRow THEN syncs ELSE [syncs EXCEPT ![s.sync] = s.ref]
          /\ Then(c, syncs[s.sync] # NoRow)
       \/ /\ s.op = "dropSync"
          /\ syncs' = [syncs EXCEPT ![s.sync] = NoRow]
          /\ Then(c, syncs[s.sync] # NoRow)
    /\ UNCHANGED <<recs, body, rels, refs>>

Statement(c) ==
    /\ c \in Busy
    /\ LET s == Head(calls[c].todo)
       IN  Read(c, s) \/ WriteRecord(c, s) \/ WriteRelation(c, s)
             \/ WriteRef(c, s) \/ WriteSync(c, s)
    /\ UNCHANGED <<started, load>>

Next == \E c \in Callers : Statement(c) \/ (\E q \in load.requests : Start(c, q))

Spec == Init /\ [][Next]_vars

-----------------------------------------------------------------------------
(* Correctness.                                                            *)

Projects(r, g) == {x[1] : x \in {y \in r : y[2] = g /\ y[3] = "contains"}}

Named(r, g, kind) == {x[2] : x \in {y \in r : y[1] = g /\ y[3] = kind}}

\* The status and the date that f says, or else those of the row before.
Holds(row, f, was) ==
    /\ row.status = (IF f.status = "kept" THEN was.status ELSE f.status)
    /\ row.due = (IF f.due = "kept" THEN was.due ELSE f.due)
    /\ row.column = Column(row.status)

\* An acknowledged call that no other call on the same records overlapped
\* leaves its record filed exactly where the request said, under one project or
\* none, and naming exactly the records it listed, whatever earlier calls
\* failed half way, with the status and the date of the request or, where it
\* leaves them out, those that the record had when the call began; the status
\* column agrees.
FiledAsAcked ==
    \A c \in Callers :
        LET f     == calls[c].files
            acked == calls[c].alone /\ f # NoRow /\ calls'[c].answer = "ok"
        IN  acked =>
              /\ f.project # "kept" => Projects(rels', f.guid) = {f.project} \ {NoRow}
              /\ \A k \in DOMAIN f.named : Named(rels', f.guid, k) = f.named[k]
              /\ Holds(body'[f.guid], f, calls[c].was)

AckedAsFiled == [][FiledAsAcked]_vars
=============================================================================
