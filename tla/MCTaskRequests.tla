--------------------------- MODULE MCTaskRequests ---------------------------
EXTENDS TaskServices, TLC

Giving(status, due) == [status |-> status, due |-> due]

Create(kind, g, p, named, input) ==
    [op |-> "create", kind |-> kind, guid |-> g, project |-> p, named |-> named, input |-> input]
Update(kind, g, p, named, input) == [Create(kind, g, p, named, input) EXCEPT !.op = "update"]

Filing ==
    {[op |-> "createProject", guid |-> "p"],
     [op |-> "createWithTask", project |-> "q", guid |-> "t"],
     Create("task", "t", "p", "references" :> {"e"}, Giving("in_progress", "kept")),
     Create("event", "e", NoRow, <<>>, Kept),
     Update("task", "t", "q", "related_to" :> {"e", "p"}, Giving("done", "kept")),
     Update("task", "t", "kept", "references" :> {}, Giving("kept", "today")),
     Update("event", "e", "p", <<>>, Giving("kept", "bad")),
     [op |-> "delete", kind |-> "project", guid |-> "p"],
     [op |-> "delete", kind |-> "task", guid |-> "t"],
     [op |-> "list", kind |-> "task", project |-> "p"]}

Referring ==
    {Create("task", "t", NoRow, <<>>, Kept),
     [op |-> "createRef", ref |-> "r", type |-> "record", to |-> "t", ext |-> "x"],
     [op |-> "createRef", ref |-> "s", type |-> "record", to |-> "t", ext |-> "x"],
     [op |-> "updateRef", ref |-> "r", type |-> "collection", to |-> "t", ext |-> "x"],
     [op |-> "deleteRef", ref |-> "r"],
     [op |-> "createSync", sync |-> "y", ref |-> "r"],
     [op |-> "updateSync", sync |-> "y", ref |-> "r"],
     [op |-> "deleteSync", sync |-> "y"]}
=============================================================================
