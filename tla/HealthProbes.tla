----------------------------- MODULE HealthProbes -----------------------------
(***************************************************************************)
(* health: one run of runGenericProbe().  A probe resolves its credential, *)
(* then asks a server, opens a socket, looks at a file or queries a        *)
(* database, each answer one step, while its deadline may pass at any      *)
(* moment: then the caller has its answer and what still goes on is late.  *)
(* What is looked at may be different at every look.                       *)
(***************************************************************************)
EXTENDS Integers, FiniteSets

CONSTANTS
    Definitions,    \* the checks: [kind, valid, reference, wants]
    Statuses,       \* the HTTP statuses that servers answer
    Tools,          \* the tools that an MCP server may list
    Modes, Ages,    \* of files, rows and heartbeats
    None

VARIABLES
    check,
    step,       \* what the probe waits for
    late,       \* the deadline has passed
    result,     \* what the caller was answered, or None
    seen,       \* what was seen at each step
    asked,      \* the requests: [session, credential] at each step
    open,       \* a socket or a database is open
    deaf        \* the socket was opened when the signal was aborted already

vars == <<check, step, late, result, seen, asked, open, deaf>>

Empty == [x \in {} |-> x]

Init ==
    /\ check \in Definitions
    /\ step = "idle" /\ late = FALSE /\ result = None
    /\ seen = Empty /\ asked = Empty /\ open = FALSE /\ deaf = FALSE

Is(status, class) == [status |-> status, class |-> class]
Ok == Is("ok", None)
Failure(class) == Is("fail", class)

Results ==
    [status : {"ok", "warn", "unknown", "fail"},
     class : {None, "missing", "dns", "timeout", "auth", "http5xx", "protocol", "stale"}]

\* Mutant: the last answer counts, not the first.
EndsAnyway(r) ==
    /\ step' = "ended" /\ open' = FALSE /\ result' = r
    /\ UNCHANGED <<check, late, asked, deaf>>

\* The promise of the probe settles; when it is late nobody looks at it.
Ends(r) ==
    /\ step' = "ended" /\ open' = FALSE
    /\ result' = IF late THEN result ELSE r
    /\ UNCHANGED <<check, late, asked, deaf>>

With(f, x, value) == [y \in DOMAIN f \cup {x} |-> IF y = x THEN value ELSE f[y]]

Sees(value) == seen' = With(seen, step, value)

\* What is thrown is a failure of the probe, by its name or code.
Classes ==
    CASE step = "resolving" -> {"missing", "dns", "timeout"}
      [] step \in {"stat", "read", "open", "query"} -> {"missing"}
      [] OTHER -> {"missing", "dns"}

Throws == \E class \in Classes : Ends(Failure(class)) /\ UNCHANGED seen

-----------------------------------------------------------------------------

\* A request, with the session that the server gave and the credential.
Request(next, session, credential) ==
    /\ step' = next
    /\ asked' = With(asked, next, [session |-> session, credential |-> credential])
    /\ UNCHANGED <<check, late, result, open, deaf>>

Credential == IF "resolving" \in DOMAIN seen THEN seen["resolving"] ELSE None

\* fetch() rejects at once when the signal is aborted; a socket and a
\* database are opened whether it is or not.
Dispatch(credential) ==
    CASE check.kind \in {"http", "mcp"} ->
           IF late \/ credential = "bad header" THEN Ends(Failure("missing"))
           ELSE Request(IF check.kind = "http" THEN "http" ELSE "initialize", None, credential)
      [] check.kind \in {"tcp", "sqlite"} ->
           IF ~check.wants.valid THEN Ends(Failure("missing"))
           ELSE /\ step' = (IF check.kind = "tcp" THEN "connect" ELSE "open")
                /\ open' = TRUE /\ deaf' = late
                /\ UNCHANGED <<check, late, result, asked>>
      [] check.kind \in {"file", "heartbeat"} ->
           step' = "stat" /\ UNCHANGED <<check, late, result, asked, open, deaf>>
      [] OTHER -> Ends(Is("unknown", None))

Begin ==
    /\ step = "idle"
    /\ IF ~check.valid THEN Ends(Failure("missing"))
       ELSE IF check.reference = None THEN Dispatch(None)
       ELSE step' = "resolving" /\ UNCHANGED <<check, late, result, asked, open, deaf>>
    /\ UNCHANGED seen

\* The resolver knows the reference, or not.
Resolve ==
    /\ step = "resolving"
    /\ \/ \E c \in {"good header", "bad header"} : Sees(c) /\ Dispatch(c)
       \/ Sees(None) /\ Ends(Failure("auth"))
       \/ Throws

-----------------------------------------------------------------------------
(* Servers.                                                                *)

Denied == {401, 403}

HttpAnswer ==
    /\ step = "http"
    /\ \/ \E s \in Statuses :
            /\ Sees(s)
            /\ Ends(IF s = check.wants.status THEN Ok
                    ELSE Failure(CASE s \in Denied -> "auth" [] s >= 500 -> "http5xx" [] OTHER -> "protocol"))
       \/ Throws

Defect(class) == Ends(Is("warn", class))

\* An answer of JSON-RPC: a body with a result for this request, or not.
Replies ==
    {r \in [status : Statuses, body : {"result", "error", "none"}] : r.status = 202 => r.body = "none"}

\* tools/list and tools/call look at no other status.
Answered(r) == r.status # 202 /\ r.body = "result"

Initialize ==
    /\ step = "initialize"
    /\ \/ \E r \in Replies, session \in {"session", None} :
            /\ Sees(r)
            /\ IF r.status # 200 \/ r.body # "result" THEN Defect(IF r.status \in Denied THEN "auth" ELSE "protocol")
               ELSE IF session = None THEN Defect("protocol")
               ELSE Request("notify", session, Credential)
       \/ Throws

Session == asked["notify"].session

Notify ==
    /\ step = "notify"
    /\ \/ \E s \in Statuses :
            /\ Sees(s)
            /\ IF s \in {202, 204} THEN Request("list", Session, Credential) ELSE Defect("protocol")
       \/ Throws

List ==
    /\ step = "list"
    /\ \/ \E r \in Replies, tools \in SUBSET Tools :
            /\ Sees([status |-> r.status, body |-> r.body,
                     tools |-> IF r.body = "result" THEN tools ELSE {}])
            /\ IF ~Answered(r) THEN Defect("protocol")
               ELSE IF Cardinality(tools) < check.wants.min \/ ~(check.wants.required \subseteq tools)
                 THEN Ends(Failure("missing"))
               ELSE IF check.wants.call THEN Request("call", Session, Credential)
               ELSE Ends(Ok)
       \/ Throws

Call ==
    /\ step = "call"
    /\ \/ \E r \in Replies : Sees(r) /\ (IF Answered(r) THEN Ends(Ok) ELSE Defect("protocol"))
       \/ Throws

-----------------------------------------------------------------------------
(* Sockets, files and databases.                                           *)

Connect ==
    /\ step = "connect"
    /\ \/ Sees("connected") /\ Ends(Ok)
       \/ Throws

\* Without a limit nothing is too old.
Old(age) == check.wants.maxAge # None /\ age > check.wants.maxAge

Stat ==
    /\ step = "stat"
    /\ \/ \E mode \in Modes, age \in Ages :
            /\ Sees([mode |-> mode, age |-> age])
            /\ IF check.wants.mode \notin {None, mode} THEN Ends(Failure("protocol"))
               ELSE IF Old(age) THEN Ends(Failure("stale"))
               ELSE IF check.kind = "file" THEN Ends(Ok)
               ELSE step' = "read" /\ UNCHANGED <<check, late, result, asked, open, deaf>>
       \/ Throws

\* By now another file may be there.
ReadHeartbeat ==
    /\ step = "read"
    /\ \/ \E well \in BOOLEAN, age \in Ages \cup {None} :
            /\ Sees([well |-> well, age |-> age])
            /\ Ends(IF ~well \/ age = None THEN Failure("stale")
                    ELSE IF Old(age) THEN Failure("stale") ELSE Ok)
       \/ Throws

OpenDatabase ==
    /\ step = "open"
    /\ \/ step' = "query" /\ UNCHANGED <<check, late, result, seen, asked, open, deaf>>
       \/ Throws

\* Interrupted or not, the query ends and the database is closed.
Query ==
    /\ step = "query"
    /\ \/ Ends(Is("unknown", None)) /\ UNCHANGED seen     \* no row
       \/ \E age \in Ages \cup {None} :
            /\ Sees([age |-> age])
            /\ Ends(IF ~check.wants.numeric THEN Ok
                    ELSE IF age = None THEN Failure("protocol")
                    ELSE IF Old(age) THEN Failure("stale") ELSE Ok)
       \/ Throws

-----------------------------------------------------------------------------

\* Requests reject, and a socket that listens to the signal is destroyed.
Stopped == step \in {"http", "initialize", "notify", "list", "call"} \/ (step = "connect" /\ ~deaf)

Deadline ==
    /\ ~late /\ step \notin {"idle", "ended"}
    /\ late' = TRUE /\ result' = Failure("timeout")
    /\ step' = (IF Stopped THEN "ended" ELSE step)
    /\ open' = (open /\ ~Stopped)
    /\ UNCHANGED <<check, seen, asked, deaf>>

Next ==
    \/ Begin \/ Resolve \/ Deadline
    \/ HttpAnswer \/ Initialize \/ Notify \/ List \/ Call
    \/ Connect \/ Stat \/ ReadHeartbeat \/ OpenDatabase \/ Query

Spec == Init /\ [][Next]_vars

-----------------------------------------------------------------------------

Recent(age) == check.wants.maxAge = None \/ (age # None /\ age <= check.wants.maxAge)

\* All that the check wants was seen in this run.
Wanted ==
    CASE check.kind = "http" -> seen["http"] = check.wants.status
      [] check.kind = "mcp" ->
           /\ seen["initialize"].status = 200 /\ seen["list"].status # 202
           /\ check.wants.required \subseteq seen["list"].tools
           /\ Cardinality(seen["list"].tools) >= check.wants.min
           /\ check.wants.call => seen["call"].status # 202 /\ seen["call"].body = "result"
      [] check.kind = "tcp" -> seen["connect"] = "connected"
      [] check.kind \in {"file", "heartbeat"} ->
           /\ check.wants.mode \in {None, seen["stat"].mode} /\ Recent(seen["stat"].age)
           /\ check.kind = "heartbeat" => seen["read"].well /\ Recent(seen["read"].age)
      [] check.kind = "sqlite" ->
           "query" \in DOMAIN seen /\ (check.wants.numeric => Recent(seen["query"].age))
      [] OTHER -> FALSE

\* A check is only reported well when all that it wants was seen, in time; a
\* late probe is answered as a timeout whatever it still sees.  No request
\* goes out without the credential that the check names, nor after the
\* initialization without its session.  What is opened is closed, a socket at
\* the deadline at the latest, unless it was opened after it.
ProbesAnswer ==
    /\ result # None => (result.status = "ok" => Wanted /\ ~late)
    /\ late => result = Failure("timeout")
    /\ \A s \in DOMAIN asked :
         /\ check.reference # None => asked[s].credential = "good header"
         /\ s \notin {"http", "initialize"} => asked[s].session # None
    /\ step = "ended" => ~open /\ result # None
    /\ late /\ open => deaf \/ check.kind = "sqlite"

Steps ==
    {"idle", "resolving", "http", "initialize", "notify", "list", "call", "connect", "stat", "read",
     "open", "query", "ended"}

TypeOK ==
    /\ check \in Definitions /\ step \in Steps
    /\ late \in BOOLEAN /\ open \in BOOLEAN /\ deaf \in BOOLEAN

\* The steps of a kind; requests follow a credential that the check names.
StepOfKind ==
    /\ step = "http" => check.kind = "http"
    /\ step \in {"initialize", "notify", "list", "call"} => check.kind = "mcp"
    /\ step = "connect" => check.kind = "tcp"
    /\ step = "stat" => check.kind \in {"file", "heartbeat"}
    /\ step = "read" => check.kind = "heartbeat"
    /\ step \in {"open", "query"} => check.kind = "sqlite"
    /\ step \in {"initialize", "notify", "list", "call"} /\ check.reference # None =>
         Credential = "good header"
    /\ step \in {"notify", "list", "call"} => "notify" \in DOMAIN asked /\ Session # None

\* What the steps before this one have seen is what the check wants.
SeenSoFar ==
    /\ step \in {"notify", "list", "call"} =>
         "initialize" \in DOMAIN seen /\ seen["initialize"].status = 200
    /\ step = "call" =>
         /\ "list" \in DOMAIN seen /\ seen["list"].status # 202 /\ check.wants.required \subseteq seen["list"].tools
         /\ Cardinality(seen["list"].tools) >= check.wants.min
    /\ step = "read" =>
         /\ "stat" \in DOMAIN seen /\ seen["stat"].age \in Ages /\ ~Old(seen["stat"].age)
         /\ check.wants.mode \in {None, seen["stat"].mode}

\* The caller has its answer when the probe has ended or is late.
AnswersOnce ==
    /\ step # "ended" /\ ~late => result = None
    /\ open => step = "connect" \/ check.kind = "sqlite"
=============================================================================
