----------------------------- MODULE MCGraphCases -----------------------------
(***************************************************************************)
(* The resources and the requests of the runs of CrudGraph: tasks, some of *)
(* them in a project, and a project with its tasks and one leading task.   *)
(***************************************************************************)
EXTENDS Naturals, Sequences, TLC

CONSTANTS None

By(source, target) == [source |-> source, target |-> target]

\* TypeORM and ModelField both tell of a relation, or one of them.
Rel(to, declared, join) == [to |-> to, declared |-> declared, join |-> join]

TaskType(project, required) ==
    [columns |-> {"id", "title", "project", "shown"}, derived |-> {"label"}, symbolic |-> {"shown"},
     required |-> required, searchKey |-> "id",
     rels |-> [project |-> Rel("project", project, By("project", "id"))]]

ProjectType(required) ==
    [columns |-> {"id", "name"}, derived |-> {}, symbolic |-> {}, required |-> required, searchKey |-> "id",
     rels |-> [tasks |-> Rel("task", By("id", "project"), None),
               lead  |-> Rel("task", By("id", "project"), None)]]

Schemas ==
    {[task |-> TaskType(By("project", "id"), {"id"}), project |-> ProjectType({"id"})],
     [task |-> TaskType(By("project", "id"), {"label"}), project |-> ProjectType({})],
     [task |-> TaskType(None, {}), project |-> ProjectType({"id"})]}

\* How the providers are found matters to no request.
Wiring == [backend |-> [service |-> None, loader |-> None, key |-> None], primaries |-> 1,
           graphql |-> [resolver |-> "generated", service |-> None, loader |-> None], rest |-> None]

Wirings ==
    [backend : {None} \cup [service : {None, "class", "own"}, loader : {None, "loader", "ownLoader"},
                            key : {None, "id"}],
     graphql : {None} \cup [resolver : {"generated", "provider"}, service : {None, "app"},
                            loader : {None, "appLoader"}],
     rest : {None} \cup [service : {None, "app"}], primaries : {1, 2}]

-----------------------------------------------------------------------------

Node(op, args, joins, fields, below) ==
    [op |-> op, args |-> args, joins |-> joins, fields |-> fields, below |-> below]
Below(rel, op, args, fields, below) == ("rel" :> rel) @@ Node(op, args, <<>>, fields, below)
Grid(type, args, joins, fields, below, given) ==
    ("type" :> type) @@ ("strategy" :> "onlyOne") @@ ("given" :> given) @@ Node("grid", args, joins, fields, below)
Single(type, id, joins, fields, below) ==
    ("type" :> type) @@ ("id" :> id) @@ Node("single", "none", joins, fields, below)
Write(op, type, id, row, fields, below) ==
    ("type" :> type) @@ ("id" :> id) @@ ("row" :> row) @@ Node(op, "none", <<>>, fields, below)

Project(fields) == Below("project", "one", "none", fields, <<>>)
Tasks(op, args, fields, below) == Below("tasks", op, args, fields, below)
Lead == Below("lead", "one", "none", {"title"}, <<>>)

Task(i, project) == [id |-> i, project |-> project]

Queries ==
    {\* a grid, with and without the key of the relation
     <<Grid("task", "none", <<>>, {"title"}, <<Project({"name"})>>, 0)>>,
     <<Grid("task", "filter", <<>>, {"project", "label"}, <<Project({"name"})>>, 1)>>,
     <<Grid("task", "none", <<>>, {}, <<Project({"name"})>>, 2)>>,
     \* down, up and down again
     <<Single("task", 1, <<>>, {"title", "shown"},
         <<Below("project", "one", "none", {"name"},
             <<Tasks("list", "none", {"title"}, <<Project({})>>), Lead>>)>>)>>,
     \* one relation several times
     <<Single("project", 1, <<>>, {"name"},
         <<Tasks("many", "none", {"title"}, <<>>), Tasks("many", "none", {"title", "label"}, <<>>),
           Tasks("many", "filter", {"title"}, <<Project({"name"})>>)>>)>>,
     \* two roots that share loaders, one of them for nothing
     <<Single("task", 1, <<>>, {"title"}, <<Project({"name"})>>),
       Single("task", 2, <<>>, {"title"}, <<Project({"name"}), Project({"id"})>>),
       Single("task", None, <<>>, {"title"}, <<>>)>>,
     \* joined relations
     <<Grid("task", "none", "project" :> "inner", {"title"}, <<Project({"name"})>>, 0),
       Single("project", 1, "tasks" :> "left", {"name"},
         <<Tasks("list", "none", {"title"}, <<Project({"name"})>>), Tasks("list", "sort", {"title"}, <<>>)>>)>>}

Mutations ==
    {<<Write("update", "task", 1, Task(1, 1), {"title"},
         <<Below("project", "one", "none", {"name"}, <<Tasks("list", "none", {"title"}, <<>>)>>)>>),
       Write("update", "task", 2, Task(2, None), {"title"}, <<Project({"name"})>>),
       Write("create", "task", 2, Task(2, 1), {}, <<Project({"name"})>>)>>,
     <<Write("create", "task", 2, Task(2, 1), {"title"},
         <<Below("project", "one", "none", {"name"}, <<Lead>>)>>),
       Write("delete", "task", 1, None, {}, <<>>),
       Write("update", "task", 2, Task(2, 1), {"title"}, <<Below("project", "one", "none", {"name"}, <<Lead>>)>>)>>}

Tables ==
    {[task |-> (1 :> x) @@ (2 :> y), project |-> 1 :> [id |-> 1]] :
       x \in {Task(1, 1), Task(1, None)}, y \in {Task(2, 1), None}}

Request(serial, roots, tables) == [serial |-> serial, roots |-> roots, tables |-> tables]
Requests == {Request(FALSE, q, Tables) : q \in Queries} \cup {Request(TRUE, m, Tables) : m \in Mutations}

Setup(wiring, extended, schema) == [wiring |-> wiring, extended |-> extended, schema |-> schema]
Nothing == Request(FALSE, <<>>, {CHOOSE t \in Tables : TRUE})

Cases ==
    ({Setup(Wiring, e, s) : e \in BOOLEAN, s \in Schemas} \X Requests)
      \cup ({Setup(w, TRUE, CHOOSE s \in Schemas : TRUE) : w \in Wirings} \X {Nothing})
=============================================================================
