------------------------------ MODULE MCRuntime ------------------------------
(***************************************************************************)
(* Eleven parts of the runtime, one in each behaviour: the ten of Runtime  *)
(* (the module this one extends), and the CRUD service, which takes the    *)
(* same variables.                                                         *)
(***************************************************************************)
EXTENDS Runtime, TLC

CONSTANTS l1, l2, k1, k2

-----------------------------------------------------------------------------
(* One probe of each kind, with and without what may be left out.          *)

Check(kind, wants) == [kind |-> kind, wants |-> wants, valid |-> TRUE, reference |-> None]
ProbeChecks ==
    {Check("http", [status |-> s]) : s \in {200, 503}}
      \cup {Check("mcp", [required |-> r, min |-> 1, call |-> c]) : r \in {{}, {"read"}}, c \in BOOLEAN}
      \cup {Check(k, [valid |-> v, numeric |-> n, maxAge |-> a]) :
             k \in {"tcp", "sqlite"}, v \in BOOLEAN, n \in BOOLEAN, a \in {None, 1}}
      \cup {Check(k, [mode |-> m, maxAge |-> a]) : k \in {"file", "heartbeat"}, m \in {None, 1}, a \in {None, 1}}
      \cup {Check("service-report", <<>>)}

ProbeAges == {-1, 1, 2}
ProbeDefinitions ==
    {[c EXCEPT !.valid = v, !.reference = r] : c \in ProbeChecks, v \in BOOLEAN, r \in {None, "reference"}}

-----------------------------------------------------------------------------
(* Two loads of one request, alike or not, and one write by others.        *)

LoaderOptions ==
    {[colour |-> "red", take |-> All], [colour |-> "any", take |-> All], [colour |-> "any", take |-> 1]}

-----------------------------------------------------------------------------
(* Two calls to the CRUD service of a table with two columns.              *)

T(f, t, x) == [field |-> f, type |-> t, x |-> x]
G(op, exprs, kids) == [op |-> op, exprs |-> exprs, kids |-> kids]
Filters ==
    {G("AND", <<T("a", "equals", 1), T("b", "lessthan", 1)>>, <<>>),
     G("OR", <<T("a", "equals", 0)>>,
       <<G("AND", <<T("a", "greaterthan", 0), T("b", "notequal", 0)>>, <<>>)>>),
     G("AND", <<T("b", "set", {0, 1})>>,
       <<G("OR", <<T("a", "equals", 0), T("a", "equals", 1)>>, <<>>)>>),
     G("AND", <<>>, <<>>)}

Ask(filters, hidden, given, pages) ==
    {[filter |-> f, hidden |-> hidden, given |-> g, api |-> a[1], counts |-> a[2], page |-> p] :
       f \in filters, g \in given,
       a \in {<<"graphql", FALSE>>, <<"graphql", TRUE>>, <<"rest", TRUE>>}, p \in pages}

\* Every filter with every given value; pages of all rows and of some; and a
\* hidden column, in the filters and given beside them.
Requests ==
    Ask(Filters, {}, {<<>>, "b" :> 1, "a" :> 0}, {None})
      \cup Ask({f \in Filters : f.op = "OR" \/ f.exprs = <<>>}, {}, {<<>>}, {<<0, 1>>, <<1, 2>>, <<0, 2>>})
      \cup Ask(Filters, {"b"}, {<<>>, "b" :> 1}, {None})

Row(a, b) == [a |-> a, b |-> b]
Tables == {(1 :> x) @@ (2 :> y) : x \in {Row(0, 0), Row(1, 0)}, y \in {Row(1, 1), None}}

C == INSTANCE CrudService WITH
       Fields <- {"a", "b"}, Values <- {0, 1}, Ids <- {1, 2}, Calls <- {k1, k2}, MaxRow <- 2,
       extended <- s1, master <- s2, replica <- s3, call <- s4, since <- s5

-----------------------------------------------------------------------------
(* One call or event through two or three strategies.                      *)

Transport(key, via, gate, policy) == [key |-> key, via |-> via, gate |-> gate, policy |-> policy]
Local  == Transport("local", "local", "open", None)
Http   == Transport("http", "http", "open", None)
Strict == Transport("strict", "local", "open", {200})
Event(gate) == Transport("event", "event", gate, None)
Composed(wraps, modes, entries, signals, policies, legs) ==
    [wrap : wraps, mode : modes, entry : entries, signal : signals, policy : policies, legs : legs]

NoEntry == [configured |-> None, default |-> None, unknown |-> None]
Entries == [configured : {None, "local", "http", "grpc"}, default : {"local", "http", "grpc"},
            unknown : {"throw", "fallback"}]
CallSetups ==
    Composed({"selected"}, {None}, Entries, {TRUE}, {None}, {<<Local, Http>>})
      \cup Composed({"fallback"}, {"any", "once"}, {NoEntry}, BOOLEAN, {None, {200}, {200, 503}},
                    {<<x, y>> : x \in {Local, Http, [Local EXCEPT !.gate = "refuse"]},
                                y \in {Local, Http, Strict, [Http EXCEPT !.gate = "spare"]}})
      \cup Composed({"shadow"}, {"void", "await", "throw"}, {NoEntry}, BOOLEAN, {None, {200}},
                    {<<Local, Http, Local>>, <<Http, Local>>})
      \cup Composed({"emit", "emitAsync"}, {"throw", "ignore"}, {NoEntry}, {FALSE}, {None},
                    {<<Event("open"), Event("open"), Event(g)>> : g \in {"open", "spare"}})

-----------------------------------------------------------------------------
(* Two errors and one options object at a time.                            *)

Fault(kind, status, message, data) ==
    [kind |-> kind, status |-> status, message |-> message, data |-> data, shared |-> FALSE]
Faults == {Fault("plain", None, "private", None), Fault("http", 404, "object", None),
           Fault("http", 429, "public", None), Fault("default", 409, "public", "masked"),
           Fault("default", 503, "name", "raw")}

ErrorOptions ==
    [response : {None, "public"}, data : {None, "raw", "text"}, mask : BOOLEAN, class : {None}]

-----------------------------------------------------------------------------
(* One GraphQL request, or the start of one application.                   *)

Requested == INSTANCE MCGraphCases
RequestedCases == Requested!Cases

-----------------------------------------------------------------------------
(* Three commands on two databases.                                        *)

Conf(schema, database, async, seeds) ==
    [schema |-> schema, database |-> database, named |-> schema \/ database, async |-> async, seeds |-> seeds]
Confs == {<<a, b>> : a \in {Conf(TRUE, TRUE, FALSE, 2), Conf(FALSE, FALSE, FALSE, 1), Conf(FALSE, TRUE, TRUE, 1)},
                     b \in {Conf(TRUE, TRUE, async, 1) : async \in BOOLEAN}}

Selected == {None, <<{2}, {}>>, <<{1}, {1, 2}>>}

-----------------------------------------------------------------------------

MCInit ==
    \/ RuntimeInit
    \/ part = "crud" /\ C!Init /\ s6 = 0 /\ s7 = 0 /\ s8 = 0 /\ SchedulerRests

MCNext ==
    \/ RuntimeNext
    \/ part = "crud" /\ C!Next /\ UNCHANGED <<part, vars, s6, s7, s8>>

MCSpec == MCInit /\ [][MCNext]_runtime

Symmetry == Permutations({l1, l2}) \cup Permutations({k1, k2})

-----------------------------------------------------------------------------


=============================================================================
