--------------------------- MODULE ProbeScheduler ---------------------------
(***************************************************************************)
(* health: the scheduler of probes.  A run takes the key of its check and  *)
(* a slot, races the probe against its deadline and gives both back when   *)
(* the race is decided.  A probe that ignores the abort signal goes on     *)
(* after that, beside later runs of the same check.                        *)
(***************************************************************************)
EXTENDS Integers, FiniteSets

CONSTANTS
    Checks,
    Enabled,        \* the checks whose definition is not disabled
    Concurrency,
    Interval,       \* between runs of a check
    Jitter,         \* the largest offset that the jitter adds
    Runs,           \* bound: identities of runs
    MaxTime,        \* bound: the clock
    None

Answers == {"ok", "fail", "unknown"}
RunRecords == [check : Checks, answer : Answers \cup {None}, probing : BOOLEAN]

ASSUME SchedulerAssumption ==
    Concurrency \in Nat /\ None \notin Answers /\ None \notin RunRecords

VARIABLES
    active,         \* keys of the checks that run
    lastRun,        \* per check, None before the first
    run,            \* per run: [check, answer, probing], or None
    now

vars == <<active, lastRun, run, now>>

Init ==
    /\ active = {}
    /\ lastRun = [c \in Checks |-> None]
    /\ run = [r \in Runs |-> None]
    /\ now = 0

Due(c, offset) ==
    /\ c \in Enabled
    /\ lastRun[c] # None => now - lastRun[c] >= Interval + offset

Answer(r, answer) == run' = [run EXCEPT ![r].answer = answer]

\* The caller asks due() and runs what is.
Start(r, c) ==
    /\ run[r] = None
    /\ \E offset \in 0..Jitter : Due(c, offset)
    /\ IF Cardinality(active) >= Concurrency \/ c \in active
         THEN /\ run' = [run EXCEPT ![r] = [check |-> c, answer |-> "unknown", probing |-> FALSE]]
              /\ UNCHANGED <<active, lastRun>>
         ELSE /\ active' = active \cup {c}
              /\ lastRun' = [lastRun EXCEPT ![c] = now]
              /\ run' = [run EXCEPT ![r] = [check |-> c, answer |-> None, probing |-> TRUE]]
    /\ UNCHANGED now

Open(r) == run[r] # None /\ run[r].answer = None

\* A run that is decided keeps its answer.
Ended(x, ends) ==
    [x EXCEPT !.probing = FALSE, !.answer = IF x.answer = None THEN ends ELSE x.answer]

\* Mutant: the slot goes back when the probe ends.
ProbeEndsFreeing(r) ==
    /\ run[r] # None /\ run[r].probing
    /\ \E ends \in {"ok", "fail"} : run' = [run EXCEPT ![r] = Ended(run[r], ends)]
    /\ active' = active \ {run[r].check}
    /\ UNCHANGED <<lastRun, now>>

\* The probe answers or throws; after the deadline nobody listens.
ProbeEnds(r) ==
    /\ run[r] # None /\ run[r].probing
    /\ \E ends \in {"ok", "fail"} : run' = [run EXCEPT ![r] = Ended(run[r], ends)]
    /\ active' = IF Open(r) THEN active \ {run[r].check} ELSE active
    /\ UNCHANGED <<lastRun, now>>

\* The timer aborts the probe and fails the run.
Deadline(r) ==
    /\ Open(r)
    /\ Answer(r, "fail")
    /\ active' = active \ {run[r].check}
    /\ UNCHANGED <<lastRun, now>>

Clock == now < MaxTime /\ now' = now + 1 /\ UNCHANGED <<active, lastRun, run>>

Next ==
    \/ \E r \in Runs : (\E c \in Checks : Start(r, c)) \/ ProbeEnds(r) \/ Deadline(r)
    \/ Clock

Spec == Init /\ [][Next]_vars

-----------------------------------------------------------------------------
(* Correctness.                                                            *)

OpenRuns == {r \in Runs : Open(r)}

\* A check is active exactly while one run of it is undecided, so no two runs
\* of a check are undecided at once, no more than Concurrency are, and a probe
\* that outlives its deadline neither keeps its slot nor gives away that of a
\* later run.
SlotsMatchRuns ==
    /\ active = {run[r].check : r \in OpenRuns}
    /\ \A r, s \in OpenRuns : run[r].check = run[s].check => r = s
    /\ Cardinality(active) <= Concurrency
=============================================================================
