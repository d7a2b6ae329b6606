----------------------------- MODULE HealthMonitor -----------------------------
(***************************************************************************)
(* The incident state machine of packages/health and the monitor service   *)
(* that persists it: record() runs transitionCheck on the stored state of  *)
(* a check and saves state, incident and alert in one transaction, so one  *)
(* record is one step; a transaction that fails leaves everything as it    *)
(* was.  The result row, the texts and the timestamps since and lastOkAt   *)
(* are written and never read, and are left out.                           *)
(*                                                                         *)
(* A check is recorded at most once per instant (its interval is at least  *)
(* a second), so the list of its transition times is a set.                *)
(***************************************************************************)
EXTENDS Integers, FiniteSets

CONSTANTS
  Checks,             \* check keys
  Critical,           \* the checks whose severity raises alerts
  FailThreshold, RecoverThreshold,
  Hour,               \* the window in which transitions are counted
  Stable,             \* the quiet time that ends flapping
  FlapCount,          \* transitions in the window that mean flapping
  Retention,          \* how long resolved incidents are kept
  MaxTime,            \* bound: the last instant of the clock
  None                \* an absent value

Statuses == {"ok", "warn", "fail", "unknown", "blocked", "disabled"}
Results == {"ok", "warn", "fail", "unknown", "disabled"}   \* what a probe reports
Outcomes == Results \cup {"blocked", "grace"}
Events == {"open", "recover", "flapping"}
IncidentIds == Checks \X Nat

ASSUME HealthAssumption ==
  /\ Critical \subseteq Checks
  /\ {FailThreshold, RecoverThreshold, FlapCount, Hour, Stable} \subseteq Nat \ {0}
  /\ {Retention, MaxTime} \subseteq Nat
  /\ None \notin IncidentIds \cup Nat \cup Events

VARIABLES
  state,       \* the state row of each check
  incidents,   \* incident rows
  outbox,      \* alert rows: their deduplication keys
  now,         \* the clock
  recordedAt   \* the last record of each check, -1 before the first

vars == <<state, incidents, outbox, now, recordedAt>>

(* initialCheckState(), also what a missing row is read as. *)
InitialState ==
  [status |-> "unknown", fails |-> 0, oks |-> 0, transitions |-> {}, flapping |-> FALSE,
   stableSince |-> None, incident |-> None]

Init ==
  /\ state = [c \in Checks |-> InitialState]
  /\ incidents = {}
  /\ outbox = {}
  /\ now = 0
  /\ recordedAt = [c \in Checks |-> -1]
-------------------------------------------------------------------------------
(* transitionCheck(): s is the stored state, o what the record amounts to. *)

(* A disabled check, a failing parent and a grace period each overrule     *)
(* what the probe reported, in this order.                                 *)
Outcome(result, parentFailing, grace) ==
  IF result = "disabled" THEN "disabled"
  ELSE IF parentFailing THEN "blocked"
  ELSE IF grace THEN "grace"
  ELSE result

Failure(o) == o \in {"fail", "warn"}

Opens(s, o) == Failure(o) /\ s.incident = None /\ s.fails + 1 >= FailThreshold

Recovers(s, o) == o = "ok" /\ s.incident # None /\ s.oks + 1 >= RecoverThreshold

(* Mutant: one success is enough to look healthy. *)
StatusAfterEager(s, o) ==
  CASE o \in {"disabled", "blocked", "ok"} -> o
    [] o \in {"grace", "unknown"} -> "unknown"
    [] Failure(o) -> IF Opens(s, o) THEN o
                     ELSE IF s.incident = None THEN "unknown" ELSE s.status

(* While an incident is open, successes and failures leave the status as   *)
(* it was found, whatever that is.                                         *)
StatusAfter(s, o) ==
  CASE o \in {"disabled", "blocked"} -> o
    [] o \in {"grace", "unknown"} -> "unknown"
    [] o = "ok" -> IF s.incident = None \/ Recovers(s, o) THEN "ok" ELSE s.status
    [] Failure(o) -> IF Opens(s, o) THEN o
                     ELSE IF s.incident = None THEN "unknown" ELSE s.status

(* An unknown result does not interrupt a run of failures or successes. *)
FailsAfter(s, o) ==
  IF Failure(o) THEN s.fails + 1 ELSE IF o = "unknown" THEN s.fails ELSE 0

OksAfter(s, o) ==
  IF o = "ok" THEN s.oks + 1 ELSE IF o = "unknown" THEN s.oks ELSE 0

(* Mutant: the state keeps the incident it recovered from. *)
IncidentAfterKept(s, o, id) == IF Opens(s, o) THEN id ELSE s.incident

IncidentAfter(s, o, id) ==
  IF Opens(s, o) THEN id ELSE IF Recovers(s, o) THEN None ELSE s.incident

Changed(s, o) == StatusAfter(s, o) # s.status

(* The transitions of the last hour, this one included. *)
Counted(s, o, at) ==
  {t \in s.transitions : t > at - Hour} \cup {t \in {at} : Changed(s, o)}

StableAfter(s, o, at) == IF Changed(s, o) THEN at ELSE s.stableSince

StartsFlapping(s, o, at) == ~s.flapping /\ Cardinality(Counted(s, o, at)) >= FlapCount

StopsFlapping(s, o, at) ==
  /\ s.flapping
  /\ StableAfter(s, o, at) # None
  /\ at - StableAfter(s, o, at) >= Stable

StateAfter(s, o, at, id) ==
  [status |-> StatusAfter(s, o),
   fails |-> FailsAfter(s, o),
   oks |-> OksAfter(s, o),
   transitions |-> IF StopsFlapping(s, o, at) THEN {} ELSE Counted(s, o, at),
   flapping |-> (s.flapping \/ StartsFlapping(s, o, at)) /\ ~StopsFlapping(s, o, at),
   stableSince |-> StableAfter(s, o, at),
   incident |-> IncidentAfter(s, o, id)]

(* The event of the change: flapping replaces open and recover, and a      *)
(* check that flaps reports nothing.                                       *)
Event(s, o, at) ==
  IF StartsFlapping(s, o, at) THEN "flapping"
  ELSE IF s.flapping /\ ~StopsFlapping(s, o, at) THEN None
  ELSE IF Opens(s, o) THEN "open"
  ELSE IF Recovers(s, o) THEN "recover"
  ELSE None
-------------------------------------------------------------------------------
(* HealthMonitorService. *)

(* Mutant: only an announced recovery resolves the incident. *)
IncidentsByEvent(s, o, at, id) ==
  {[id |-> r.id, resolvedAt |-> IF r.id = s.incident /\ Event(s, o, at) = "recover"
                                THEN at ELSE r.resolvedAt] :
     r \in {r \in incidents : Event(s, o, at) # "open" \/ r.id # id}}
  \cup {[id |-> i, resolvedAt |-> None] : i \in {i \in {id} : Event(s, o, at) = "open"}}

(* An incident row is saved on an open event only; a recovery resolves the *)
(* row, if there is one, whatever the event.                               *)
IncidentsAfter(s, o, at, id) ==
  {[id |-> r.id, resolvedAt |-> IF r.id = s.incident /\ Recovers(s, o)
                                THEN at ELSE r.resolvedAt] :
     r \in {r \in incidents : Event(s, o, at) # "open" \/ r.id # id}}
  \cup {[id |-> i, resolvedAt |-> None] : i \in {i \in {id} : Event(s, o, at) = "open"}}

(* The alert is named after the incident the check had, or the new one; it *)
(* is None when the check has neither.                                     *)
AlertKey(s, o, at, id) ==
  [incident |-> IF s.incident # None THEN s.incident ELSE IncidentAfter(s, o, id),
   kind |-> Event(s, o, at)]

(* record() and, for a critical check, the enqueue of OutboxNotifier: an   *)
(* alert whose key is already there is dropped.                            *)
Record(c, result, parentFailing, grace, silenced) ==
  LET s == state[c]
      o == Outcome(result, parentFailing, grace)
  IN
  /\ recordedAt[c] < now
  /\ recordedAt' = [recordedAt EXCEPT ![c] = now]
  /\ state' = [state EXCEPT ![c] = StateAfter(s, o, now, <<c, now>>)]
  /\ incidents' = IncidentsAfter(s, o, now, <<c, now>>)
  /\ outbox' = outbox \cup {k \in {AlertKey(s, o, now, <<c, now>>)} :
                              k.kind # None /\ c \in Critical /\ ~silenced}
  /\ UNCHANGED now

Prune ==
  /\ incidents' = {r \in incidents :
                     r.resolvedAt = None \/ r.resolvedAt >= now - Retention}
  /\ UNCHANGED <<state, outbox, now, recordedAt>>

Clock ==
  /\ now < MaxTime
  /\ now' = now + 1
  /\ UNCHANGED <<state, incidents, outbox, recordedAt>>

Next ==
  \/ \E c \in Checks, result \in Results, parentFailing, grace, silenced \in BOOLEAN :
       Record(c, result, parentFailing, grace, silenced)
  \/ Prune
  \/ Clock

Spec == Init /\ [][Next]_vars
-------------------------------------------------------------------------------
(* Properties. *)

States ==
  [status : Statuses, fails : Nat, oks : Nat, transitions : SUBSET Nat,
   flapping : BOOLEAN, stableSince : Nat \cup {None}, incident : IncidentIds \cup {None}]

(* Every variable has its type, and no check is at once in a run of        *)
(* failures and in a run of successes.                                     *)
TypeOK ==
  /\ state \in [Checks -> States]
  /\ \A c \in Checks : state[c].fails = 0 \/ state[c].oks = 0
  /\ incidents \subseteq [id : IncidentIds, resolvedAt : Nat \cup {None}]
  /\ outbox \subseteq [incident : IncidentIds \cup {None}, kind : Events]
  /\ now \in Nat
  /\ recordedAt \in [Checks -> Nat \cup {-1}]

(* A check that is shown as healthy has no open incident and one that is   *)
(* shown as failing has one, through blocking, grace and flapping.         *)
StatusTellsIncident ==
  \A c \in Checks :
    /\ state[c].status = "ok" => state[c].incident = None
    /\ state[c].status \in {"fail", "warn"} => state[c].incident # None

(* openIncidents() is never longer than the truth: an unresolved row is    *)
(* the open incident of its check, so a check has at most one, and it will *)
(* be resolved when the check recovers.                                    *)
NoOrphanIncident ==
  \A r \in incidents : r.resolvedAt = None => state[r.id[1]].incident = r.id

(* A recovery that was announced is final: the incident it names is not    *)
(* open in any check and has no unresolved row.                            *)
RecoverIsFinal ==
  \A k \in outbox : k.kind = "recover" =>
    /\ \A c \in Checks : state[c].incident # k.incident
    /\ \A r \in incidents : r.id = k.incident => r.resolvedAt # None

(* An incident row is never rewritten once resolved, never lost before,    *)
(* and kept after that for the retention time.                             *)
RowsSurvive ==
  [][\A r \in incidents :
       /\ r.resolvedAt = None => \E q \in incidents' : q.id = r.id
       /\ r.resolvedAt # None => r \in incidents' \/ r.resolvedAt < now - Retention]_vars

(* health/README.md: the transition, result, incident and outbox row are   *)
(* stored in one transaction: a check with an open incident has its row.   *)
OpenIncidentStored ==
  \A c \in Checks : state[c].incident # None =>
    \E r \in incidents : r.id = state[c].incident
===============================================================================
