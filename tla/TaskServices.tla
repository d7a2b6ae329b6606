---------------------------- MODULE TaskServices ----------------------------
(***************************************************************************)
(* examples/task: the services of the Task App as sequences of statements, *)
(* in the order in which the service awaits them.  TaskApp runs them.      *)
(***************************************************************************)
EXTENDS Sequences

CONSTANT NoRow

-----------------------------------------------------------------------------
(* The mapper.  A request gives the status and the date of a record, of    *)
(* events the end, or leaves them out ("kept").                            *)

Kept == [status |-> "kept", due |-> "kept"]

\* mapDomainStatusToOmniStatus
Column(status) ==
    CASE status \in {"todo", "draft"} -> "draft"
      [] status \in {"done", "archived", "cancelled"} -> "archived"
      [] OTHER -> "active"

Default == [task |-> "todo", event |-> "scheduled", project |-> "active"]

\* normalizeDateInput: what is no date counts as none.
NormalDate(due) == IF due \in {"bad", "kept"} THEN NoRow ELSE due

\* A record: the status column and the payload with the status it stands for.
Body(kind, input) ==
    LET status == IF input.status = "kept" THEN Default[kind] ELSE input.status
    IN  [column |-> Column(status), status |-> status, due |-> NormalDate(input.due)]

\* What is stored already stands for what a request leaves out.
Merged(body, input) ==
    [status |-> IF input.status = "kept" THEN body.status ELSE input.status,
     due    |-> IF input.due = "kept" THEN body.due ELSE input.due]

-----------------------------------------------------------------------------

Relate == {"references", "related_to"}
Links  == {"contains"} \cup Relate

Find(g, kinds)   == <<[op |-> "find", guid |-> g, kinds |-> kinds]>>
Save(g, kind, input) == <<[op |-> "save", guid |-> g, kind |-> kind, input |-> input]>>
Unlink(col, g, kinds) == <<[op |-> "unlink", col |-> col, guid |-> g, kinds |-> kinds]>>
Link(pairs, kind)     == <<[op |-> "link", pairs |-> pairs, kind |-> kind]>>
Drop(g, kind)    == <<[op |-> "drop", guid |-> g, kind |-> kind]>>

EnsureProject(p) == IF p = NoRow THEN <<>> ELSE Find(p, {"project"})

\* Mutant: the earlier filing is removed last.
SyncContainsLinking(g, p) ==
    (IF p = NoRow THEN <<>> ELSE Link({<<p, g>>}, "contains"))
      \o Unlink(2, g, {"contains"})

\* syncContainsRelation
SyncContains(g, p) ==
    Unlink(2, g, {"contains"})
      \o IF p = NoRow THEN <<>> ELSE Link({<<p, g>>}, "contains")

\* syncTaskRelations: the relations go before the new targets are looked up.
SyncRelations(g, kind, targets) ==
    Unlink(1, g, {kind})
      \o (IF targets = {} THEN <<>>
          ELSE <<[op |-> "findAll", guids |-> targets]>>
                 \o Link({g} \X targets, kind))

\* The lists of a request, either of which it may leave out, in turn.
SyncNamed(g, named) ==
    (IF "references" \notin DOMAIN named THEN <<>>
     ELSE SyncRelations(g, "references", named["references"]))
      \o (IF "related_to" \notin DOMAIN named THEN <<>>
          ELSE SyncRelations(g, "related_to", named["related_to"]))

CreateRecord(g, kind, p, named, input) ==
    EnsureProject(p) \o Save(g, kind, input) \o SyncContains(g, p)
      \o SyncNamed(g, named) \o Find(g, {kind})

CreateProject(g) == Save(g, "project", Kept) \o Find(g, {"project"})

\* A request that names a project refiles the record, one that names null
\* takes it out of every project; "kept" stands for a request without the field.
\* The whole record is written, from what was read first.
UpdateRecord(g, kind, p, named, input) ==
    <<[op |-> "read", guid |-> g, kinds |-> {kind}],
      [op |-> "patch", guid |-> g, kind |-> kind, input |-> input]>>
      \o (IF p = "kept" THEN <<>> ELSE EnsureProject(p) \o SyncContains(g, p))
      \o SyncNamed(g, named) \o Find(g, {kind})

DeleteRecord(g, kind) ==
    Find(g, {kind}) \o Unlink(1, g, Links) \o Unlink(2, g, Links) \o Drop(g, kind)

ListMembers(p, kind) ==
    EnsureProject(p) \o <<[op |-> "count"], [op |-> "page", kind |-> kind]>>

\* TaskWorkflowsService calls the two services one after the other.
ProjectWithTask(p, g) == CreateProject(p) \o CreateRecord(g, "task", p, <<>>, Kept)

TargetKinds(type) == IF type = "collection" THEN {"project"} ELSE {"task", "event", "project"}

\* The row stored for the external identity, if any, is written over.
CreateRef(r, type, to, ext) ==
    Find(to, TargetKinds(type)) \o <<[op |-> "lookup", ext |-> ext]>>
      \o <<[op |-> "saveRef", ref |-> r, to |-> to, ext |-> ext]>>

UpdateRef(r, type, to, ext) ==
    <<[op |-> "findRef", ref |-> r]>> \o Find(to, TargetKinds(type))
      \o <<[op |-> "patchRef", ref |-> r, to |-> to, ext |-> ext]>>

DeleteRef(r) == <<[op |-> "findRef", ref |-> r], [op |-> "dropRef", ref |-> r]>>

CreateSync(s, r) ==
    <<[op |-> "findRef", ref |-> r], [op |-> "saveSync", sync |-> s, ref |-> r]>>

UpdateSync(s, r) ==
    <<[op |-> "findSync", sync |-> s], [op |-> "findRef", ref |-> r],
      [op |-> "patchSync", sync |-> s, ref |-> r]>>

DeleteSync(s) == <<[op |-> "dropSync", sync |-> s]>>

-----------------------------------------------------------------------------
(* Requests.                                                               *)

\* A call: its statements, the records they touch, and what an acknowledgement
\* says of the record that the call files.
Script(todo, on, files) == [todo |-> todo, on |-> on, files |-> files]

\* The project of the record, the records it names, its status and its date;
\* "kept" is what it had before.
Says(g, p, named, status, due) ==
    [guid |-> g, project |-> p, named |-> named, status |-> status, due |-> due]

SaysCreated(g, kind, p, named, input) ==
    Says(g, p, named, IF input.status = "kept" THEN Default[kind] ELSE input.status,
         NormalDate(input.due))

SaysUpdated(g, p, named, input) ==
    Says(g, p, named, input.status, IF input.due = "kept" THEN "kept" ELSE NormalDate(input.due))

Touches(g, p, named) ==
    ({g, p} \ {NoRow, "kept"}) \cup UNION {named[k] : k \in DOMAIN named}

\* What the services do with request q.
Asked(q) ==
    CASE q.op = "create" ->
           Script(CreateRecord(q.guid, q.kind, q.project, q.named, q.input),
                  Touches(q.guid, q.project, q.named),
                  SaysCreated(q.guid, q.kind, q.project, q.named, q.input))
      [] q.op = "createProject" ->
           Script(CreateProject(q.guid), {q.guid},
                  SaysCreated(q.guid, "project", "kept", <<>>, Kept))
      [] q.op = "createWithTask" ->
           Script(ProjectWithTask(q.project, q.guid), {q.project, q.guid},
                  SaysCreated(q.guid, "task", q.project, <<>>, Kept))
      [] q.op = "update" ->
           Script(UpdateRecord(q.guid, q.kind, q.project, q.named, q.input),
                  Touches(q.guid, q.project, q.named),
                  SaysUpdated(q.guid, q.project, q.named, q.input))
      [] q.op = "delete" -> Script(DeleteRecord(q.guid, q.kind), {q.guid}, NoRow)
      [] q.op = "list"   -> Script(ListMembers(q.project, q.kind), {q.project}, NoRow)
      [] q.op = "createRef"  -> Script(CreateRef(q.ref, q.type, q.to, q.ext), {q.to}, NoRow)
      [] q.op = "updateRef"  -> Script(UpdateRef(q.ref, q.type, q.to, q.ext), {q.to}, NoRow)
      [] q.op = "deleteRef"  -> Script(DeleteRef(q.ref), {}, NoRow)
      [] q.op = "createSync" -> Script(CreateSync(q.sync, q.ref), {}, NoRow)
      [] q.op = "updateSync" -> Script(UpdateSync(q.sync, q.ref), {}, NoRow)
      [] q.op = "deleteSync" -> Script(DeleteSync(q.sync), {}, NoRow)
=============================================================================
