----------------------------- MODULE AppRuntime -----------------------------
(***************************************************************************)
(* The life of applications in one process: bootstrap and close (app), the *)
(* events they emit (event-manager), the promise tracker that closing      *)
(* waits for (utils) and the buffered log that it flushes (logger, pino).  *)
(* An event logs a line, then emits its name and its aliases; a listener   *)
(* may log too.  An emission with "await" lasts until its listeners end,   *)
(* one without it ends when they have been called.                         *)
(***************************************************************************)
CONSTANTS
    Apps,           \* bootstrap objects
    Standalone,     \* those without a server, subset of Apps
    Unchecked,      \* those with skipMultiServerCheck, subset of Apps
    Events,         \* events to emit
    Main,           \* the name of an event
    Names           \* what one event emits: its name and its aliases

VARIABLES
    apps,           \* per bootstrap object: how far it got
    closed,         \* isClosed
    registry,       \* getBootstrappedApps()
    parts,          \* per event and name: "none", "running", "ok", "failed"
    awaited,        \* per event: the names emitted with await
    tracked,        \* promises of the tracker
    buffer,         \* log lines not written yet
    closing         \* per app: its closeApp() in progress

vars == <<apps, closed, registry, parts, awaited, tracked, buffer, closing>>

-----------------------------------------------------------------------------
(* executeEvent, emitEvent and PromiseTracker.                             *)

Promises == Events \X (Names \cup {"all"})

Emitted(e) == \E n \in Names : parts[e][n] # "none"

\* Promise.all over the emissions of an event.
Whole(e) ==
    IF \E n \in Names : parts[e][n] = "failed" THEN "failed"
    ELSE IF \A n \in Names : parts[e][n] = "ok" THEN "ok" ELSE "running"

Outcome(p) == IF p[2] = "all" THEN Whole(p[1]) ELSE parts[p[1]][p[2]]

\* Mutant: the promise of the whole event stands for its emissions, and only
\* until the first of them ends.
AddFirstOnly(e, waits) == {<<e, n>> : n \in {n \in waits : n = CHOOSE m \in Names : TRUE}}

\* add(): each awaited emission and the whole event.
Add(e, waits) == {<<e, n>> : n \in waits} \cup {<<e, "all">>}

\* YalcEventService: what a call emits with await when its options do not say.
Messages == {"log", "warn", "debug", "verbose", "error", "errorForward"}
AsyncMessages == {"logAsync", "warnAsync", "debugAsync", "verboseAsync", "errorAsync"}
ClientErrors == {"errorBadRequest", "errorUnauthorized", "errorPaymentRequired", "errorForbidden",
                 "errorNotFound", "errorMethodNotAllowed"}
RequestErrors == {"errorNotAcceptable", "errorConflict", "errorGone", "errorUnsupportedMediaType",
                  "errorUnprocessableEntity", "errorTooManyRequests"}
ServerErrors == {"errorInternalServerError", "errorNotImplemented", "errorBadGateway",
                 "errorServiceUnavailable", "errorGatewayTimeout", "errorHttp"}

Methods == Messages \cup AsyncMessages \cup ClientErrors \cup RequestErrors \cup ServerErrors

AppliesAwait(method) == method \notin Messages

\* options.event.await, and per alias its own or, for a plain name, the event's.
Awaits(applies, option, alias) ==
    LET main == option = "await" \/ (option = "unset" /\ applies)
    IN  [n \in Names |-> IF n = Main \/ alias = "plain" THEN main ELSE alias = "await"]

\* What the calls emit, and with await; with event: false nothing is emitted.
Emissions ==
    {IF option = "off" THEN [emits |-> FALSE, waits |-> {}]
     ELSE [emits |-> TRUE, waits |-> {n \in Names : Awaits(applies, option, alias)[n]}] :
       applies \in {AppliesAwait(method) : method \in Methods}, option \in {"unset", "await", "not", "off"},
       alias \in {"plain", "await", "not"}}

\* executeEvent(): the line is logged first; an emission without await has
\* called its listeners at once.
Emit(e, x) ==
    /\ ~Emitted(e)
    /\ \E ends \in [Names -> {"ok", "failed"}] :
         /\ ~x.emits => ends = [n \in Names |-> "ok"]
         /\ parts' = [parts EXCEPT ![e] = [n \in Names |-> IF n \in x.waits THEN "running" ELSE ends[n]]]
    /\ awaited' = [awaited EXCEPT ![e] = x.waits]
    /\ tracked' = tracked \cup Add(e, x.waits)
    /\ buffer' = buffer \cup {<<e, "log">>}
    /\ UNCHANGED <<apps, closed, registry, closing>>

\* The listeners of one name end, or throw; what they log is in the buffer.
EndEmission(e, n) ==
    /\ parts[e][n] = "running"
    /\ \E end \in {"ok", "failed"} : parts' = [parts EXCEPT ![e][n] = end]
    /\ buffer' = buffer \cup {<<e, n>>}
    /\ UNCHANGED <<apps, closed, registry, awaited, tracked, closing>>

\* remove(), in a later turn than the end of the promise.
Untrack(p) ==
    /\ p \in tracked /\ Outcome(p) # "running"
    /\ tracked' = tracked \ {p}
    /\ UNCHANGED <<apps, closed, registry, parts, awaited, buffer, closing>>

\* The interval of the pino logger.
FlushInterval ==
    /\ buffer # {}
    /\ buffer' = {}
    /\ UNCHANGED <<apps, closed, registry, parts, awaited, tracked, closing>>

-----------------------------------------------------------------------------
(* BaseAppBootstrap, AppBootstrap and StandaloneAppBootstrap.              *)

Open == [pc |-> "no", on |-> {}, owed |-> {}, lines |-> {}]

Init ==
    /\ apps = [a \in Apps |-> "none"]
    /\ closed = [a \in Apps |-> FALSE]
    /\ registry = {}
    /\ parts = [e \in Events |-> [n \in Names |-> "none"]]
    /\ awaited = [e \in Events |-> {}]
    /\ tracked = {}
    /\ buffer = {}
    /\ closing = [a \in Apps |-> Open]

AddApp(a) == registry' = registry \cup {a}

CloseCleanup(a) ==
    /\ closed' = [closed EXCEPT ![a] = TRUE]
    /\ registry' = registry \ {a}

Events0 == <<parts, awaited, tracked, buffer>>

\* The constructor refuses a second application, unless told not to check.
Construct(a) ==
    /\ apps[a] = "none"
    /\ registry = {} \/ a \in Unchecked
    /\ apps' = [apps EXCEPT ![a] = "built"]
    /\ AddApp(a)
    /\ UNCHANGED <<closed, closing, Events0>>

CreateApp(a) ==
    /\ apps[a] = "built"
    /\ \/ /\ apps' = [apps EXCEPT ![a] = "created"]
          /\ UNCHANGED <<closed, registry>>
       \/ /\ apps' = [apps EXCEPT ![a] = "dead"]
          /\ CloseCleanup(a)
    /\ UNCHANGED <<closing, Events0>>

\* applyBootstrapGlobals(): a server cleans up when it fails.
ApplyGlobals(a) ==
    /\ apps[a] = "created"
    /\ \/ /\ apps' = [apps EXCEPT ![a] = "set"]
          /\ UNCHANGED <<closed, registry>>
       \/ /\ apps' = [apps EXCEPT ![a] = "dead"]
          /\ IF a \in Standalone THEN UNCHANGED <<closed, registry>> ELSE CloseCleanup(a)
    /\ UNCHANGED <<closing, Events0>>

\* The patched init(), also called again by executeFunctionForApp.
InitApp(a) ==
    /\ apps[a] \in {"set", "ready", "ended"} /\ closing[a].pc = "no"
    /\ apps' = [apps EXCEPT ![a] = "starting"]
    /\ closed' = [closed EXCEPT ![a] = FALSE]
    /\ AddApp(a)
    /\ UNCHANGED <<closing, Events0>>

InitEnds(a) ==
    /\ apps[a] = "starting"
    /\ \/ /\ apps' = [apps EXCEPT ![a] = "ready"]
          /\ UNCHANGED <<closed, registry>>
       \/ /\ apps' = [apps EXCEPT ![a] = "dead"]
          /\ CloseCleanup(a)
    /\ UNCHANGED <<closing, Events0>>

\* What a caller of closeApp() counts on: awaited emissions in progress, and
\* the lines logged so far.
Owed == {x \in Events \X Names : x[2] \in awaited[x[1]] /\ parts[x[1]][x[2]] = "running"}

\* closeApp() starts with waitForAll(), which takes the promises of the moment.
CloseApp(a) ==
    /\ apps[a] = "ready" /\ closing[a].pc = "no"
    /\ closing' = [closing EXCEPT ![a] =
          [pc |-> "wait", on |-> tracked, owed |-> Owed, lines |-> buffer]]
    /\ UNCHANGED <<apps, closed, registry, Events0>>

Goto(a, pc) == closing' = [closing EXCEPT ![a] = IF pc = "no" THEN Open ELSE [@ EXCEPT !.pc = pc]]

\* Mutant: the deferred calls do not wait for the promises.
WaitedAtOnce(a) == \A p \in closing[a].on : Outcome(p) # "failed"

Waited(a) == \A p \in closing[a].on : Outcome(p) = "ok"

\* The first promise that fails makes closeApp() fail, and the app stays open.
EndWait(a) ==
    /\ closing[a].pc = "wait"
    /\ \/ Waited(a) /\ Goto(a, "flush")
       \/ (\E p \in closing[a].on : Outcome(p) = "failed") /\ Goto(a, "no")
    /\ UNCHANGED <<apps, closed, registry, Events0>>

\* The deferred flush of the logger, then close() with its own flush.
Flush(a) ==
    /\ closing[a].pc = "flush"
    /\ buffer' = {}
    /\ Goto(a, "down") \/ Goto(a, "no")
    /\ UNCHANGED <<apps, closed, registry, parts, awaited, tracked>>

\* The patched close(): hooks of the modules run first, and may throw.
Close(a) ==
    /\ closing[a].pc = "down" \/ (closing[a].pc = "no" /\ apps[a] = "ready")
    /\ \/ /\ CloseCleanup(a)
          /\ apps' = [apps EXCEPT ![a] = "ended"]
          /\ buffer' = {}
       \/ UNCHANGED <<apps, closed, registry, buffer>>
    /\ Goto(a, "no")
    /\ UNCHANGED <<parts, awaited, tracked>>

Next ==
    \/ \E a \in Apps : \/ Construct(a) \/ CreateApp(a) \/ ApplyGlobals(a) \/ InitApp(a) \/ InitEnds(a)
                       \/ CloseApp(a) \/ EndWait(a) \/ Flush(a) \/ Close(a)
    \/ \E e \in Events : \/ \E x \in Emissions : Emit(e, x)
                         \/ \E n \in Names : EndEmission(e, n)
    \/ \E p \in Promises : Untrack(p)
    \/ FlushInterval

Spec == Init /\ [][Next]_vars

-----------------------------------------------------------------------------
(* Correctness.                                                            *)

\* An application that closeApp() closed left nothing behind: every awaited
\* emission that was in progress when it was called has ended well, every line
\* logged before, or by those listeners, is written, and the process may
\* bootstrap another application, although emissions, flushes and other closes
\* went on meanwhile.
CleanClose ==
    \A a \in Apps :
        LET c    == closing[a]
            done == c.pc = "down" /\ apps'[a] = "ended"
        IN  done => /\ \A x \in c.owed : parts[x[1]][x[2]] = "ok" /\ x \notin buffer'
                    /\ c.lines \cap buffer' = {}
                    /\ closed'[a] /\ a \notin registry'

CloseIsClean == [][CleanClose]_vars

Stages   == {"none", "built", "created", "set", "starting", "ready", "ended", "dead"}
Closings ==
    [pc : {"no", "wait", "flush", "down"}, on : SUBSET Promises, owed : SUBSET (Events \X Names),
     lines : SUBSET (Events \X (Names \cup {"log"}))]

TypeOK ==
    /\ apps \in [Apps -> Stages] /\ closed \in [Apps -> BOOLEAN] /\ registry \in SUBSET Apps
    /\ parts \in [Events -> [Names -> {"none", "running", "ok", "failed"}]]
    /\ awaited \in [Events -> SUBSET Names]
    /\ tracked \in SUBSET Promises
    /\ buffer \in SUBSET (Events \X (Names \cup {"log"}))
    /\ closing \in [Apps -> Closings]

\* The tracker has every awaited emission in progress.
TrackerHoldsAwaited == Owed \subseteq tracked

\* Only an open application is closed.  It waits for what it owes, and goes on
\* when all of that has ended well.
ClosesWhatIsOwed ==
    \A a \in Apps :
        /\ closing[a].pc # "no" => apps[a] = "ready"
        /\ closing[a].pc = "wait" => closing[a].owed \subseteq closing[a].on
        /\ closing[a].pc \in {"flush", "down"} => \A x \in closing[a].owed : parts[x[1]][x[2]] = "ok"
=============================================================================
