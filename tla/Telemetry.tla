------------------------------- MODULE Telemetry -------------------------------
(***************************************************************************)
(* observability: operations measured by TelemetryService.measure(), as    *)
(* the strategies and the decorator use it, and events recorded from the   *)
(* event manager, while the telemetry itself may fail: the tracer when a   *)
(* span is started, and what records durations, counts and logs.  A span   *)
(* that was started does not fail.                                         *)
(***************************************************************************)
EXTENDS Naturals, FiniteSets

CONSTANTS
    Ops,            \* measured operations
    EventsMax,      \* bound: events emitted
    None

VARIABLES
    options,        \* [enabled, throws, listens]: failureMode "throw" or "ignore"
    broken,         \* the parts that fail now: a subset of {"tracer", "meter"}
    op,             \* per operation [state, runs, last, span, answer, again]
    sdk,            \* None, "started", "stopping", "stopped" or "failed"
    listening,      \* the plugin hears the events
    counts          \* [emitted, events, errors, refused]

vars == <<options, broken, op, sdk, listening, counts>>

\* runs: how often it was called, last: the outcome of its last call, span:
\* None, "open", "ok", "error" or "lost", again: called again without a span.
NewOp == [state |-> "idle", runs |-> 0, last |-> None, span |-> None, answer |-> None, again |-> FALSE]

Init ==
    /\ options \in [enabled : BOOLEAN, throws : BOOLEAN, listens : BOOLEAN]
    /\ broken = {}
    /\ op = [o \in Ops |-> NewOp]
    /\ sdk = (IF options.enabled THEN "started" ELSE None)
    /\ listening = FALSE
    /\ counts = [emitted |-> 0, events |-> 0, errors |-> 0, refused |-> 0]

-----------------------------------------------------------------------------

\* Mutant: what fails inside the telemetry is always thrown to the caller.
AlwaysThrows == "meter" \in broken

\* execute(): a failure is only thrown when the options say so.
Throws == "meter" \in broken /\ options.throws

\* The caller has its answer; the span tells how the last call ended.
Finished(x, outcome) ==
    [x EXCEPT !.state = "answered", !.last = outcome, !.answer = outcome,
              !.span = IF @ = "open" THEN (IF outcome = "value" THEN "ok" ELSE "error") ELSE @]

\* The duration is recorded first; when that throws, the span is not ended.
Thrown(x, outcome) ==
    [x EXCEPT !.state = "answered", !.last = outcome, !.answer = "telemetry", !.span = "lost"]

Ended(x, outcome) == IF x.span = "open" /\ Throws THEN Thrown(x, outcome) ELSE Finished(x, outcome)

\* operation(): a value, an error, or a promise that settles later.
Called(x, how) ==
    LET y == [x EXCEPT !.runs = @ + 1]
    IN  IF how = "promise" THEN [y EXCEPT !.state = "waits"] ELSE Ended(y, how)

\* measure(): without a span the operation is just called; a span whose call
\* throws at once is ended, and the operation called again without one.
Measure(o) ==
    /\ op[o].state = "idle"
    /\ \E how, next \in {"value", "error", "promise"} :
         LET spanned == [op[o] EXCEPT !.span = "open"]
             first   == Called(spanned, how)
             second  == Called([first EXCEPT !.again = TRUE], next)
         IN  op' = [op EXCEPT ![o] =
               IF ~options.enabled THEN Called(@, how)
               ELSE IF "tracer" \in broken
                 THEN IF options.throws THEN [@ EXCEPT !.state = "answered", !.answer = "telemetry"]
                      ELSE Called(@, how)
               ELSE IF how = "error" /\ ~options.throws THEN second
               ELSE first]
    /\ UNCHANGED <<options, broken, sdk, listening, counts>>

\* The promise of an operation settles.
Settle(o) ==
    /\ op[o].state = "waits"
    /\ \E outcome \in {"value", "error"} : op' = [op EXCEPT ![o] = Ended(@, outcome)]
    /\ UNCHANGED <<options, broken, sdk, listening, counts>>

-----------------------------------------------------------------------------
(* The plugin.                                                             *)

\* onModuleInit()
Listen ==
    /\ ~listening /\ options.enabled /\ options.listens /\ sdk = "started"
    /\ listening' = TRUE
    /\ UNCHANGED <<options, broken, op, sdk, counts>>

\* An event with or without an error, that its patterns match or not; when it
\* cannot be recorded in mode "throw", the emitter of the event gets that.
Emit ==
    /\ counts.emitted < EventsMax
    /\ \E error, matched \in BOOLEAN :
         LET heard == listening /\ matched
             fails == heard /\ Throws
             told  == heard /\ "meter" \notin broken
         IN  counts' = [emitted |-> counts.emitted + 1,
                        events  |-> counts.events + (IF told THEN 1 ELSE 0),
                        errors  |-> counts.errors + (IF told /\ error THEN 1 ELSE 0),
                        refused |-> counts.refused + (IF fails THEN 1 ELSE 0)]
    /\ UNCHANGED <<options, broken, op, sdk, listening>>

\* The application is destroyed: the plugin stops to listen, and the SDK is
\* shut down, which fails on a rejected promise in either mode.
Destroy ==
    /\ sdk = "started"
    /\ sdk' = "stopping" /\ listening' = FALSE
    /\ UNCHANGED <<options, broken, op, counts>>

ShutDown ==
    /\ sdk = "stopping"
    /\ sdk' \in {"stopped", "failed"}
    /\ UNCHANGED <<options, broken, op, listening, counts>>

Backend ==
    /\ options.enabled
    /\ broken' \in SUBSET {"tracer", "meter"} /\ broken' # broken
    /\ UNCHANGED <<options, op, sdk, listening, counts>>

Next ==
    \/ \E o \in Ops : Measure(o) \/ Settle(o)
    \/ Listen \/ Emit \/ Destroy \/ ShutDown \/ Backend

Spec == Init /\ [][Next]_vars

-----------------------------------------------------------------------------

\* In mode "ignore" no failure of the telemetry reaches the caller of an
\* operation or of an event.  The caller gets the outcome of the operation,
\* which was called once, and every span that was started has ended and tells
\* that outcome.  Left out is an operation that throws at once under a span:
\* it is called again, and answers what that call did.
OperationsUnchanged ==
    /\ ~options.throws => counts.refused = 0
    /\ \A o \in Ops :
         LET x == op[o]
         IN  x.state = "answered" =>
               /\ x.answer = "telemetry" => options.throws
               /\ x.answer # "telemetry" => x.answer = x.last /\ x.runs = (IF x.again THEN 2 ELSE 1)
               /\ x.span \in {"open", "lost"} => options.throws
               /\ x.span \in {"ok", "error"} /\ ~x.again => (x.span = "ok") = (x.last = "value")

Outcomes == {"value", "error"}
Measurements ==
    [state : {"idle", "waits", "answered"}, runs : 0 .. 2, last : Outcomes \cup {None},
     span : {None, "open", "ok", "error", "lost"}, answer : Outcomes \cup {"telemetry", None},
     again : BOOLEAN]

TypeOK ==
    /\ options \in [enabled : BOOLEAN, throws : BOOLEAN, listens : BOOLEAN]
    /\ broken \in SUBSET {"tracer", "meter"}
    /\ op \in [Ops -> Measurements]
    /\ sdk \in {None, "started", "stopping", "stopped", "failed"} /\ listening \in BOOLEAN
    /\ counts \in [emitted : Nat, events : Nat, errors : Nat, refused : Nat]

\* An operation that has not answered was called as often as it should, and its
\* span is open, unless it has none or was called again.
Pending(x) ==
    /\ x.state = "idle" => x.runs = 0 /\ ~x.again /\ x.span = None
    /\ x.state = "waits" =>
         /\ x.runs = (IF x.again THEN 2 ELSE 1)
         /\ x.span \in IF x.again THEN {"error"} ELSE {None, "open"}
=============================================================================
