------------------------------- MODULE Runtime -------------------------------
(***************************************************************************)
(* Ten parts of the runtime, one of them in each behaviour: the probe      *)
(* scheduler (the module this one extends), one probe, the life of         *)
(* applications, the data loader, the strategies of calls, measured        *)
(* operations, the errors of the event service, the commands on databases, *)
(* the mutation journal and the generated resolvers.  The last nine have   *)
(* no state in common, so they take the same variables.                    *)
(***************************************************************************)
EXTENDS ProbeScheduler, Sequences

CONSTANTS
    Definitions, ProbeStatuses, Tools, Modes, Ages,             \* probe
    Apps, Standalone, Unchecked, AppEvents, Main, Names,        \* app
    Loads, Options, RowIds, SearchKeys, Colours, AnyColour,     \* loader
    All, WritesMax,
    Setups, Statuses,                                           \* call
    Ops, EventsMax,                                             \* telemetry
    Slots, ThrownErrors, StatusMethods, Codes, OptionSets,      \* error
    StepsMax,
    DbCount, Migrations, Selections, DbConfs, CommandsMax,      \* database
    Installers, Writers, JournalTables, Skipped, JournalKeys,   \* journal
    JournalValues, LogMax, InstallsMax,
    GraphCases, KeptRows                                        \* graph

\* The options of a load are its filter and its limit, which find its loader.
ASSUME LoaderAssumption == \A o \in Options : o = [colour |-> o.colour, take |-> o.take]

\* Strategies are put together in a list, a fallback and shadows with a primary
\* one; the options of emit() have no signal.
ASSUME CallAssumption ==
  \A x \in Setups :
      /\ x.wrap \in {"selected", "fallback", "shadow", "emit", "emitAsync"}
      /\ Len(x.legs) \in Nat
      /\ x.wrap \in {"fallback", "shadow"} => Len(x.legs) > 0
      /\ x.wrap = "emit" => ~x.signal

\* None is no outcome of a span.
ASSUME TelemetryAssumption == None \notin {"open", "ok", "error", "lost"}

VARIABLES part, s1, s2, s3, s4, s5, s6, s7, s8

state == <<s1, s2, s3, s4, s5, s6, s7, s8>>
runtime == <<part, vars, state>>

-----------------------------------------------------------------------------

P == INSTANCE HealthProbes WITH
       Statuses <- ProbeStatuses,
       check <- s1, step <- s2, late <- s3, result <- s4, seen <- s5, asked <- s6, open <- s7, deaf <- s8

\* Ages and their limits are numbers, and None is none, no text and no answer.
ASSUME ProbeAssumption ==
  /\ Ages \subseteq Int /\ P!IsFiniteSet(Tools)
  /\ \A c \in Definitions :
       /\ c.kind = "mcp" => c.wants.min \in Nat
       /\ c.kind \in {"file", "heartbeat", "sqlite"} => c.wants.maxAge \in Int \cup {None}
  /\ None \notin Int /\ None \notin {"good header", "bad header", "session"}
  /\ None \notin P!Results

A == INSTANCE AppRuntime WITH
       Events <- AppEvents,
       apps <- s1, closed <- s2, registry <- s3, parts <- s4, awaited <- s5,
       tracked <- s6, buffer <- s7, closing <- s8

\* No name of an event is that of its whole promise.
ASSUME AppAssumption == "all" \notin Names

L == INSTANCE DataLoader WITH
       Any <- AnyColour, Ids <- RowIds, Keys <- SearchKeys,
       db <- s1, loader <- s2, load <- s3, seen <- s4, writes <- s5

S == INSTANCE CallStrategies WITH
       setup <- s1, aborted <- s2, legs <- s3, status <- s4, reached <- s5, caller <- s6

M == INSTANCE Telemetry WITH
       options <- s1, broken <- s2, op <- s3, sdk <- s4, listening <- s5, counts <- s6

F == INSTANCE ErrorFlow WITH
       Thrown <- ThrownErrors, Methods <- StatusMethods,
       errs <- s1, opts <- s2, exposed <- s3, last <- s4, steps <- s5

\* Only a plain error has an internal message, and nothing that is thrown shares
\* the options of a call; a class is no error, and None no data.
ASSUME ErrorAssumption ==
  /\ ThrownErrors \subseteq
       [kind : {"plain", "http", "default"}, status : Nat \cup {None}, shared : {FALSE},
        message : {"private", "public", "name", "object"}, data : {None, "raw", "masked"}]
  /\ \A e \in ThrownErrors : e.message = "private" => e.kind = "plain"
  /\ OptionSets \subseteq [response : {None, "public"}, data : {None, "raw", "text"}, mask : BOOLEAN,
                          class : {None}]
  /\ Slots \cap (400 .. 599) = {}
  /\ None \notin Slots /\ None \notin F!Errors /\ None \notin {"raw", "text", "masked"}

B == INSTANCE DatabaseOps WITH
       Connections <- DbCount, Confs <- DbConfs, CallsMax <- CommandsMax,
       conf <- s1, db <- s2, op <- s3, work <- s4, conn <- s5, calls <- s6

\* Time stamps order the migrations, and a selection names some of them for
\* each connection.
ASSUME DatabaseAssumption ==
  /\ DbCount \in Nat \ {0} /\ Migrations \subseteq Nat
  /\ \A x \in Selections : x = None \/ x \in [1 .. DbCount -> SUBSET Migrations]
  /\ \A x \in DbConfs : x \in [1 .. DbCount -> [schema : BOOLEAN, database : BOOLEAN, named : BOOLEAN, async : BOOLEAN, seeds : Nat]]

J == INSTANCE MutationJournal WITH
       Tables <- JournalTables, Keys <- JournalKeys, Values <- JournalValues, Nothing <- None,
       CallsMax <- InstallsMax,
       db <- s1, work <- s2, owner <- s3, todo <- s4, base <- s5, calls <- s6

\* The journal service does not write rows, and None is no process.
ASSUME JournalAssumption ==
  /\ Installers \cap Writers = {}
  /\ None \notin Installers \cup Writers

Q == INSTANCE CrudGraph WITH
       Cases <- GraphCases, Kept <- KeptRows,
       setup <- s1, request <- s2, started <- s3, db <- s4, loaders <- s5, answers <- s6

\* None is no default token, and no state of the application.
ASSUME GraphAssumption == None \notin {"service", "loader", "refused"}

-----------------------------------------------------------------------------

SchedulerRests ==
    /\ active = {} /\ now = 0
    /\ lastRun = [c \in Checks |-> None] /\ run = [r \in Runs |-> None]

RuntimeInit ==
    \/ /\ part = "scheduler" /\ Init
       /\ s1 = 0 /\ s2 = 0 /\ s3 = 0 /\ s4 = 0 /\ s5 = 0 /\ s6 = 0 /\ s7 = 0 /\ s8 = 0
    \/ part = "probe" /\ P!Init /\ SchedulerRests
    \/ part = "app" /\ A!Init /\ SchedulerRests
    \/ part = "loader" /\ L!Init /\ s6 = 0 /\ s7 = 0 /\ s8 = 0 /\ SchedulerRests
    \/ part = "call" /\ S!Init /\ s7 = 0 /\ s8 = 0 /\ SchedulerRests
    \/ part = "telemetry" /\ M!Init /\ s7 = 0 /\ s8 = 0 /\ SchedulerRests
    \/ part = "error" /\ F!Init /\ s6 = 0 /\ s7 = 0 /\ s8 = 0 /\ SchedulerRests
    \/ part = "database" /\ B!Init /\ s7 = 0 /\ s8 = 0 /\ SchedulerRests
    \/ part = "journal" /\ J!Init /\ s7 = 0 /\ s8 = 0 /\ SchedulerRests
    \/ part = "graph" /\ Q!Init /\ s7 = 0 /\ s8 = 0 /\ SchedulerRests

RuntimeNext ==
    \/ part = "scheduler" /\ Next /\ UNCHANGED <<part, state>>
    \/ part = "probe" /\ P!Next /\ UNCHANGED <<part, vars>>
    \/ part = "app" /\ A!Next /\ UNCHANGED <<part, vars>>
    \/ part = "loader" /\ L!Next /\ UNCHANGED <<part, vars, s6, s7, s8>>
    \/ part = "call" /\ S!Next /\ UNCHANGED <<part, vars, s7, s8>>
    \/ part = "telemetry" /\ M!Next /\ UNCHANGED <<part, vars, s7, s8>>
    \/ part = "error" /\ F!Next /\ UNCHANGED <<part, vars, s6, s7, s8>>
    \/ part = "database" /\ B!Next /\ UNCHANGED <<part, vars, s7, s8>>
    \/ part = "journal" /\ J!Next /\ UNCHANGED <<part, vars, s7, s8>>
    \/ part = "graph" /\ Q!Next /\ UNCHANGED <<part, vars, s7, s8>>

RuntimeSpec == RuntimeInit /\ [][RuntimeNext]_runtime

-----------------------------------------------------------------------------

\* HealthProbes: a check is only well when all it wants was seen in time.
ProbesAnswer == part = "probe" => P!ProbesAnswer

\* AppRuntime: an application that closeApp() closed left nothing behind.
CloseIsClean == [][part = "app" => A!CleanClose]_runtime

\* DataLoader: a load answers with the rows its own filter matched.
LoadsAnswer == part = "loader" => L!LoadsAnswer

\* CallStrategies: a wrapper that returned leaves nothing behind, but for shadows
\* that it does not wait for, or did not after one of them failed, and returns
\* what the policy accepts; after an abort nothing more is dispatched.
\* Telemetry: unless it may throw, the caller of an operation gets its outcome
\* after one call, or after two of one that throws at once under a span.
CallsSettle == (part = "call" => S!CallsSettle) /\ (part = "telemetry" => M!OperationsUnchanged)
AbortStopsDispatch == [][part = "call" => S!AbortStops]_runtime

\* ErrorFlow: errors tell clients nothing internal, keep their masks, and are
\* made and forwarded as asked.
ErrorsAnswer == part = "error" => F!ErrorsAnswer

\* DatabaseOps: migrations are recorded once and run as often, but for those
\* that a selection left without a record; seeders write to their own database.
DatabasesKept == part = "database" => B!DatabasesKept

\* MutationJournal: a journaled table can be rebuilt from its journal.
JournalReplays == part = "journal" => J!JournalReplays

\* CrudGraph: every relation asked for answers the rows its parent leads to, as
\* one of the fields that share its loader asked for them, or none for the want
\* of a key that was not selected; generated surfaces find what they inject.
GraphAnswers == part = "graph" => Q!GraphAnswers
=============================================================================
