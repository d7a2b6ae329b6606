------------------------------ MODULE HealthProofs ------------------------------
(***************************************************************************)
(* Theorems about the health monitor, for every set of checks, every       *)
(* threshold and every window.  All of them follow from one inductive      *)
(* invariant: besides the properties themselves it says that identifiers   *)
(* in use belong to the past of their check, so that an incident that      *)
(* opens now takes a new one, and that a resolved row is not the open      *)
(* incident of its check, so that no record rewrites it.                   *)
(***************************************************************************)
EXTENDS HealthMonitor, TLAPS

(* An identifier that was drawn by an earlier record of its check. *)
Drawn(id) == id[2] <= recordedAt[id[1]]

OwnIncident ==
  \A c \in Checks : state[c].incident # None =>
    state[c].incident[1] = c /\ Drawn(state[c].incident)

RowsDrawn == \A r \in incidents : Drawn(r.id)

AlertsDrawn == \A k \in outbox : k.incident # None => Drawn(k.incident)

(* A recovery or an opening always names an incident. *)
AlertsNamed == \A k \in outbox : k.kind \in {"open", "recover"} => k.incident # None

ResolvedIsClosed ==
  \A r \in incidents : r.resolvedAt # None => state[r.id[1]].incident # r.id

RecordsPast == \A c \in Checks : recordedAt[c] <= now

HealthInv ==
  /\ TypeOK /\ StatusTellsIncident /\ NoOrphanIncident /\ RecoverIsFinal
  /\ OwnIncident /\ RowsDrawn /\ AlertsDrawn /\ AlertsNamed
  /\ ResolvedIsClosed /\ RecordsPast
-------------------------------------------------------------------------------
(* transitionCheck maps a state to a state. *)
LEMMA StateAfterType ==
  ASSUME HealthAssumption, NEW s \in States, NEW o \in Outcomes, NEW at \in Nat,
         NEW id \in IncidentIds, s.fails = 0 \/ s.oks = 0
  PROVE  /\ StateAfter(s, o, at, id) \in States
         /\ StateAfter(s, o, at, id).fails = 0 \/ StateAfter(s, o, at, id).oks = 0
<1>1. StatusAfter(s, o) \in Statuses
  BY DEF StatusAfter, States, Statuses, Outcomes, Results, Failure
<1>2. FailsAfter(s, o) \in Nat /\ OksAfter(s, o) \in Nat
  BY DEF FailsAfter, OksAfter, States
<1>3. FailsAfter(s, o) = 0 \/ OksAfter(s, o) = 0
  BY DEF FailsAfter, OksAfter, Failure, States
<1>4. Counted(s, o, at) \in SUBSET Nat
  BY DEF Counted, States
<1>5. IncidentAfter(s, o, id) \in IncidentIds \cup {None}
  BY DEF IncidentAfter, States
<1>6. StableAfter(s, o, at) \in Nat \cup {None}
  BY DEF StableAfter, States
<1>7. ((s.flapping \/ StartsFlapping(s, o, at)) /\ ~StopsFlapping(s, o, at)) \in BOOLEAN
  OBVIOUS
<1>q. QED BY <1>1, <1>2, <1>3, <1>4, <1>5, <1>6, <1>7 DEF StateAfter, States

(* What a probe reported, overruled or not, is an outcome. *)
LEMMA OutcomeType ==
  ASSUME NEW result \in Results, NEW parentFailing \in BOOLEAN, NEW grace \in BOOLEAN
  PROVE  Outcome(result, parentFailing, grace) \in Outcomes
BY DEF Outcome, Outcomes, Results

(* The status and the incident of a check stay consistent. *)
LEMMA StatusConsistent ==
  ASSUME HealthAssumption, NEW s \in States, NEW o \in Outcomes, NEW id \in IncidentIds,
         s.status = "ok" => s.incident = None,
         s.status \in {"fail", "warn"} => s.incident # None
  PROVE  /\ StatusAfter(s, o) = "ok" => IncidentAfter(s, o, id) = None
         /\ StatusAfter(s, o) \in {"fail", "warn"} => IncidentAfter(s, o, id) # None
<1>1. id # None
  BY DEF HealthAssumption
<1>2. Opens(s, o) => s.incident = None /\ o \in {"fail", "warn"}
  BY DEF Opens, Failure
<1>3. Recovers(s, o) => s.incident # None /\ o = "ok"
  BY DEF Recovers
<1>4. CASE o \in {"disabled", "blocked", "grace", "unknown"}
  BY <1>4 DEF StatusAfter, Failure
<1>5. CASE o = "ok"
  BY <1>2, <1>3, <1>5 DEF StatusAfter, IncidentAfter, Failure
<1>6. CASE o \in {"fail", "warn"}
  BY <1>1, <1>2, <1>3, <1>6 DEF StatusAfter, IncidentAfter, Failure
<1>q. QED BY <1>4, <1>5, <1>6 DEF Outcomes, Results

(* What an event says about the change. *)
LEMMA EventMeans ==
  ASSUME HealthAssumption, NEW s, NEW o, NEW at
  PROVE  /\ Event(s, o, at) # None => Event(s, o, at) \in Events
         /\ Event(s, o, at) = "open" => Opens(s, o)
         /\ Event(s, o, at) = "recover" => Recovers(s, o)
BY DEF Event, Events, HealthAssumption

(* The rows after a record: the old ones, resolved or as they were, and,   *)
(* when an incident opened, the new one.                                   *)
LEMMA RowsAfter ==
  ASSUME NEW s, NEW o, NEW at, NEW id, NEW q \in IncidentsAfter(s, o, at, id)
  PROVE  \/ \E r \in incidents :
              /\ q.id = r.id
              /\ IF r.id = s.incident /\ Recovers(s, o) THEN q.resolvedAt = at
                 ELSE q.resolvedAt = r.resolvedAt
              /\ q = [id |-> r.id, resolvedAt |-> q.resolvedAt]
         \/ q = [id |-> id, resolvedAt |-> None] /\ Event(s, o, at) = "open"
BY DEF IncidentsAfter
-------------------------------------------------------------------------------
LEMMA InitHealth == HealthAssumption /\ Init => HealthInv
<1> SUFFICES ASSUME HealthAssumption, Init PROVE HealthInv
  OBVIOUS
<1>1. InitialState \in States /\ InitialState.fails = 0
      /\ InitialState.incident = None /\ InitialState.status = "unknown"
  BY DEF InitialState, States, Statuses
<1>2. \A c \in Checks : state[c] = InitialState
  BY DEF Init
<1>3. TypeOK
  BY <1>1, <1>2 DEF Init, TypeOK
<1>4. StatusTellsIncident /\ OwnIncident
  BY <1>1, <1>2 DEF StatusTellsIncident, OwnIncident
<1>5. NoOrphanIncident /\ RecoverIsFinal /\ RowsDrawn /\ AlertsDrawn /\ AlertsNamed
      /\ ResolvedIsClosed
  BY DEF Init, NoOrphanIncident, RecoverIsFinal, RowsDrawn, AlertsDrawn, AlertsNamed,
         ResolvedIsClosed
<1>6. RecordsPast
  BY DEF Init, RecordsPast
<1>q. QED BY <1>3, <1>4, <1>5, <1>6 DEF HealthInv

(* A record keeps the invariant. *)
LEMMA RecordKeeps ==
  ASSUME HealthAssumption, HealthInv, NEW c \in Checks, NEW result \in Results,
         NEW parentFailing \in BOOLEAN, NEW grace \in BOOLEAN, NEW silenced \in BOOLEAN,
         Record(c, result, parentFailing, grace, silenced)
  PROVE  HealthInv'
<1>1. PICK s : s = state[c]
  OBVIOUS
<1>2. PICK o : o = Outcome(result, parentFailing, grace)
  OBVIOUS
<1>3. PICK id : id = <<c, now>>
  OBVIOUS
<1>4. PICK n : n = StateAfter(s, o, now, id)
  OBVIOUS
<1>5. PICK e : e = Event(s, o, now)
  OBVIOUS
<1>types. /\ s \in States /\ o \in Outcomes /\ id \in IncidentIds /\ now \in Nat
          /\ s.fails = 0 \/ s.oks = 0
  BY <1>1, <1>2, <1>3, OutcomeType DEF HealthInv, TypeOK, IncidentIds
<1>next. /\ recordedAt[c] < now
         /\ recordedAt' = [recordedAt EXCEPT ![c] = now]
         /\ state' = [state EXCEPT ![c] = n]
         /\ incidents' = IncidentsAfter(s, o, now, id)
         /\ outbox' = outbox \cup {k \in {AlertKey(s, o, now, id)} :
                                     k.kind # None /\ c \in Critical /\ ~silenced}
         /\ now' = now
  BY <1>1, <1>2, <1>3, <1>4 DEF Record
<1>n. /\ n \in States
      /\ n.fails = 0 \/ n.oks = 0
      /\ n.status = StatusAfter(s, o) /\ n.incident = IncidentAfter(s, o, id)
  BY <1>4, <1>types, StateAfterType DEF StateAfter
<1>state. /\ state'[c] = n
          /\ \A d \in Checks : d # c => state'[d] = state[d]
          /\ state' \in [Checks -> States]
  <2>1. state \in [Checks -> States]
    BY DEF HealthInv, TypeOK
  <2>2. state' = [state EXCEPT ![c] = n] /\ n \in States
    BY <1>next, <1>n
  <2>q. QED BY <2>1, <2>2
<1>time. /\ recordedAt' \in [Checks -> Nat \cup {-1}]
         /\ recordedAt'[c] = now
         /\ \A d \in Checks : recordedAt[d] <= recordedAt'[d] /\ recordedAt'[d] <= now
  BY <1>next, <1>types DEF HealthInv, TypeOK, RecordsPast
<1>drawn. /\ id[1] = c /\ Drawn(id)' /\ id # None
          /\ \A j \in IncidentIds : Drawn(j) => j # id /\ Drawn(j)'
  <2>1. id[1] = c /\ id[2] = now /\ id # None
    BY <1>3, <1>types DEF HealthAssumption
  <2>2. Drawn(id)'
    BY <2>1, <1>time, <1>types DEF Drawn
  <2>3. ASSUME NEW j \in IncidentIds, Drawn(j)
        PROVE  j # id /\ Drawn(j)'
    <3>1. j[1] \in Checks /\ j[2] \in Nat
      BY DEF IncidentIds
    <3>2. j[2] <= recordedAt[j[1]] /\ recordedAt[j[1]] <= recordedAt'[j[1]]
      BY <2>3, <3>1, <1>time DEF Drawn
    <3>3. recordedAt[j[1]] \in Int /\ recordedAt'[j[1]] \in Int
      BY <3>1, <1>time DEF HealthInv, TypeOK
    <3>4. Drawn(j)'
      BY <3>1, <3>2, <3>3 DEF Drawn
    <3>5. j # id
      BY <2>1, <3>1, <3>2, <3>3, <1>next, <1>types
    <3>q. QED BY <3>4, <3>5
  <2>q. QED BY <2>1, <2>2, <2>3
<1>event. /\ e # None => e \in Events
          /\ e = "open" => Opens(s, o)
          /\ e = "recover" => Recovers(s, o)
  BY <1>5, EventMeans
<1>inc. /\ Opens(s, o) => s.incident = None /\ n.incident = id
        /\ Recovers(s, o) => s.incident # None /\ n.incident = None
        /\ ~Opens(s, o) /\ ~Recovers(s, o) => n.incident = s.incident
        /\ n.incident \in {id, None, s.incident}
        /\ ~(Opens(s, o) /\ Recovers(s, o))
  BY <1>n DEF IncidentAfter, Opens, Recovers
<1>rows. ASSUME NEW q \in incidents'
         PROVE  \/ \E r \in incidents :
                     /\ q.id = r.id
                     /\ IF r.id = s.incident /\ Recovers(s, o) THEN q.resolvedAt = now
                        ELSE q.resolvedAt = r.resolvedAt
                     /\ q = [id |-> r.id, resolvedAt |-> q.resolvedAt]
                \/ q = [id |-> id, resolvedAt |-> None] /\ Opens(s, o)
  BY <1>rows, <1>next, <1>5, <1>event, RowsAfter
<1>alert. ASSUME NEW k \in outbox'
          PROVE  \/ k \in outbox
                 \/ /\ k = [incident |-> IF s.incident # None THEN s.incident
                                         ELSE n.incident,
                            kind |-> e]
                    /\ e # None
  BY <1>alert, <1>next, <1>5, <1>n DEF AlertKey
<1>own. s.incident # None =>
          s.incident \in IncidentIds /\ s.incident[1] = c /\ Drawn(s.incident)
  BY <1>1, <1>types DEF HealthInv, OwnIncident, States
<1>old. \A r \in incidents :
          /\ r.id \in IncidentIds /\ r.resolvedAt \in Nat \cup {None} /\ r.id[1] \in Checks
          /\ Drawn(r.id) /\ r.id # id /\ Drawn(r.id)'
          /\ r.resolvedAt = None => state[r.id[1]].incident = r.id
          /\ r.resolvedAt # None => state[r.id[1]].incident # r.id
  BY <1>drawn DEF HealthInv, TypeOK, RowsDrawn, NoOrphanIncident, ResolvedIsClosed,
                  IncidentIds
<1>oldAlert. \A k \in outbox :
          /\ k \in [incident : IncidentIds \cup {None}, kind : Events]
          /\ k.incident # None => Drawn(k.incident) /\ k.incident # id /\ Drawn(k.incident)'
  BY <1>drawn DEF HealthInv, TypeOK, AlertsDrawn
<1>a. TypeOK'
  <2>1. \A d \in Checks : state'[d].fails = 0 \/ state'[d].oks = 0
    BY <1>state, <1>n DEF HealthInv, TypeOK
  <2>2. incidents' \subseteq [id : IncidentIds, resolvedAt : Nat \cup {None}]
    BY <1>rows, <1>old, <1>types
  <2>3. outbox' \subseteq [incident : IncidentIds \cup {None}, kind : Events]
    BY <1>alert, <1>oldAlert, <1>event, <1>own, <1>inc, <1>types
  <2>q. QED BY <2>1, <2>2, <2>3, <1>state, <1>time, <1>next, <1>types DEF TypeOK
<1>b. StatusTellsIncident'
  <2>1. /\ n.status = "ok" => n.incident = None
        /\ n.status \in {"fail", "warn"} => n.incident # None
    BY <1>1, <1>n, <1>types, StatusConsistent DEF HealthInv, StatusTellsIncident
  <2>q. QED BY <2>1, <1>state DEF StatusTellsIncident, HealthInv
<1>c. NoOrphanIncident'
  <2> SUFFICES ASSUME NEW q \in incidents', q.resolvedAt = None
               PROVE  state'[q.id[1]].incident = q.id
    BY DEF NoOrphanIncident
  <2>1. CASE q = [id |-> id, resolvedAt |-> None] /\ Opens(s, o)
    BY <2>1, <1>drawn, <1>state, <1>inc
  <2>2. CASE \E r \in incidents :
               /\ q.id = r.id
               /\ IF r.id = s.incident /\ Recovers(s, o) THEN q.resolvedAt = now
                  ELSE q.resolvedAt = r.resolvedAt
    <3>1. PICK r \in incidents :
               /\ q.id = r.id
               /\ IF r.id = s.incident /\ Recovers(s, o) THEN q.resolvedAt = now
                  ELSE q.resolvedAt = r.resolvedAt
      BY <2>2
    <3>2. r.resolvedAt = None /\ ~(r.id = s.incident /\ Recovers(s, o))
      BY <3>1, <1>types DEF HealthAssumption
    <3>3. state[r.id[1]].incident = r.id /\ r.id[1] \in Checks /\ r.id # None
      BY <3>2, <1>old DEF HealthAssumption
    <3>4. CASE r.id[1] = c
      BY <3>1, <3>2, <3>3, <3>4, <1>1, <1>inc, <1>state
    <3>5. CASE r.id[1] # c
      BY <3>1, <3>3, <3>5, <1>state
    <3>q. QED BY <3>4, <3>5
  <2>q. QED BY <1>rows, <2>1, <2>2
<1>d. RecoverIsFinal'
  <2> SUFFICES ASSUME NEW k \in outbox', k.kind = "recover"
               PROVE  /\ \A d \in Checks : state'[d].incident # k.incident
                      /\ \A q \in incidents' : q.id = k.incident => q.resolvedAt # None
    BY DEF RecoverIsFinal
  <2>1. CASE k \in outbox
    <3>1. /\ k.incident # None /\ k.incident # id
          /\ \A d \in Checks : state[d].incident # k.incident
          /\ \A r \in incidents : r.id = k.incident => r.resolvedAt # None
      BY <2>1, <1>oldAlert DEF HealthInv, AlertsNamed, RecoverIsFinal
    <3>2. \A d \in Checks : state'[d].incident # k.incident
      BY <3>1, <1>state, <1>inc, <1>1
    <3>3. ASSUME NEW q \in incidents', q.id = k.incident
          PROVE  q.resolvedAt # None
      BY <3>1, <3>3, <1>rows, <1>types DEF HealthAssumption
    <3>q. QED BY <3>2, <3>3
  <2>2. CASE /\ k = [incident |-> IF s.incident # None THEN s.incident ELSE n.incident,
                     kind |-> e]
             /\ e # None
    <3>1. Recovers(s, o) /\ s.incident # None /\ k.incident = s.incident
          /\ n.incident = None
      BY <2>2, <1>event, <1>inc
    <3>2. \A d \in Checks : state'[d].incident # k.incident
      <4> SUFFICES ASSUME NEW d \in Checks PROVE state'[d].incident # k.incident
        OBVIOUS
      <4>1. CASE d = c
        BY <4>1, <3>1, <1>state
      <4>2. CASE d # c
        <5>1. state'[d].incident # None => state'[d].incident[1] = d
          BY <4>2, <1>state DEF HealthInv, OwnIncident
        <5>q. QED BY <4>2, <5>1, <3>1, <1>own
      <4>q. QED BY <4>1, <4>2
    <3>3. ASSUME NEW q \in incidents', q.id = k.incident
          PROVE  q.resolvedAt # None
      BY <3>1, <3>3, <1>rows, <1>types, <1>inc DEF HealthAssumption
    <3>q. QED BY <3>2, <3>3
  <2>q. QED BY <1>alert, <2>1, <2>2
<1>e. OwnIncident'
  <2> SUFFICES ASSUME NEW d \in Checks, state'[d].incident # None
               PROVE  state'[d].incident[1] = d /\ Drawn(state[d].incident)'
    BY DEF OwnIncident
  <2>1. CASE d = c
    <3>1. state'[d].incident \in {id, s.incident} /\ (Drawn(id)' /\ id[1] = c)
      BY <2>1, <1>state, <1>inc, <1>drawn
    <3>2. PICK j \in {id, s.incident} : j = state'[d].incident
      BY <3>1
    <3>3. j[1] = c /\ Drawn(j)'
      BY <3>1, <3>2, <1>own, <1>drawn
    <3>q. QED BY <2>1, <3>2, <3>3 DEF Drawn
  <2>2. CASE d # c
    <3>1. PICK j : j = state[d].incident
      OBVIOUS
    <3>2. j \in IncidentIds /\ j[1] = d /\ Drawn(j) /\ state'[d].incident = j
      BY <2>2, <3>1, <1>state DEF HealthInv, OwnIncident, TypeOK, States
    <3>3. Drawn(j)'
      BY <3>2, <1>drawn
    <3>q. QED BY <3>2, <3>3 DEF Drawn
  <2>q. QED BY <2>1, <2>2
<1>f. RowsDrawn'
  <2> SUFFICES ASSUME NEW q \in incidents' PROVE q.id[2] <= recordedAt'[q.id[1]]
    BY DEF RowsDrawn, Drawn
  <2>1. q.id = id \/ \E r \in incidents : q.id = r.id
    BY <1>rows
  <2>q. QED BY <2>1, <1>drawn, <1>old DEF Drawn
<1>g. AlertsDrawn'
  <2> SUFFICES ASSUME NEW k \in outbox', k.incident # None
               PROVE  k.incident[2] <= recordedAt'[k.incident[1]]
    BY DEF AlertsDrawn, Drawn
  <2>1. k \in outbox \/ k.incident \in {s.incident, id}
    BY <1>alert, <1>inc
  <2>2. CASE k \in outbox
    BY <2>2, <1>oldAlert DEF Drawn
  <2>3. CASE k.incident \in {s.incident, id}
    BY <2>3, <1>own, <1>drawn DEF Drawn
  <2>q. QED BY <2>1, <2>2, <2>3
<1>h. AlertsNamed'
  <2> SUFFICES ASSUME NEW k \in outbox', k.kind \in {"open", "recover"}
               PROVE  k.incident # None
    BY DEF AlertsNamed
  <2>1. CASE k \in outbox
    BY <2>1 DEF HealthInv, AlertsNamed
  <2>2. CASE /\ k = [incident |-> IF s.incident # None THEN s.incident ELSE n.incident,
                     kind |-> e]
             /\ e # None
    BY <2>2, <1>event, <1>inc, <1>drawn
  <2>q. QED BY <1>alert, <2>1, <2>2
<1>i. ResolvedIsClosed'
  <2> SUFFICES ASSUME NEW q \in incidents', q.resolvedAt # None
               PROVE  state'[q.id[1]].incident # q.id
    BY DEF ResolvedIsClosed
  <2>1. PICK r \in incidents :
               /\ q.id = r.id
               /\ IF r.id = s.incident /\ Recovers(s, o) THEN q.resolvedAt = now
                  ELSE q.resolvedAt = r.resolvedAt
    BY <1>rows
  <2>2. r.id # id /\ r.id[1] \in Checks /\ r.id # None
    BY <1>old DEF HealthAssumption
  <2>3. CASE r.id = s.incident /\ Recovers(s, o)
    BY <2>1, <2>2, <2>3, <1>inc, <1>own, <1>state
  <2>4. CASE ~(r.id = s.incident /\ Recovers(s, o))
    <3>1. state[r.id[1]].incident # r.id
      BY <2>1, <2>4, <1>old
    <3>2. CASE r.id[1] = c
      BY <2>1, <2>2, <3>1, <3>2, <1>1, <1>inc, <1>state
    <3>3. CASE r.id[1] # c
      BY <2>1, <2>2, <3>1, <3>3, <1>state
    <3>q. QED BY <3>2, <3>3
  <2>q. QED BY <2>3, <2>4
<1>j. RecordsPast'
  BY <1>time, <1>next DEF RecordsPast
<1>q. QED
  BY <1>a, <1>b, <1>c, <1>d, <1>e, <1>f, <1>g, <1>h, <1>i, <1>j DEF HealthInv

(* Pruning only takes rows away. *)
LEMMA PruneKeeps == HealthInv /\ Prune => HealthInv'
<1> SUFFICES ASSUME HealthInv, Prune PROVE HealthInv'
  OBVIOUS
<1>1. /\ incidents' \subseteq incidents
      /\ state' = state /\ outbox' = outbox /\ now' = now /\ recordedAt' = recordedAt
  BY DEF Prune
<1>2. TypeOK' /\ StatusTellsIncident' /\ NoOrphanIncident' /\ RecoverIsFinal'
  BY <1>1 DEF HealthInv, TypeOK, StatusTellsIncident, NoOrphanIncident, RecoverIsFinal
<1>3. OwnIncident' /\ RowsDrawn' /\ AlertsDrawn' /\ AlertsNamed' /\ ResolvedIsClosed'
      /\ RecordsPast'
  BY <1>1 DEF HealthInv, OwnIncident, RowsDrawn, AlertsDrawn, AlertsNamed,
              ResolvedIsClosed, RecordsPast, Drawn
<1>q. QED BY <1>2, <1>3 DEF HealthInv

LEMMA ClockKeeps == HealthInv /\ Clock => HealthInv'
<1> SUFFICES ASSUME HealthInv, Clock PROVE HealthInv'
  OBVIOUS
<1>1. /\ UNCHANGED <<state, incidents, outbox, recordedAt>>
      /\ now \in Nat /\ now' = now + 1
  BY DEF Clock, HealthInv, TypeOK
<1>2. TypeOK' /\ StatusTellsIncident' /\ NoOrphanIncident' /\ RecoverIsFinal'
  BY <1>1 DEF HealthInv, TypeOK, StatusTellsIncident, NoOrphanIncident, RecoverIsFinal
<1>3. OwnIncident' /\ RowsDrawn' /\ AlertsDrawn' /\ AlertsNamed' /\ ResolvedIsClosed'
  BY <1>1 DEF HealthInv, OwnIncident, RowsDrawn, AlertsDrawn, AlertsNamed,
              ResolvedIsClosed, Drawn
<1>4. RecordsPast'
  BY <1>1 DEF HealthInv, RecordsPast, TypeOK
<1>q. QED BY <1>2, <1>3, <1>4 DEF HealthInv

LEMMA HealthInvariant == Spec => []HealthInv
<1>1. Init => HealthInv
  BY InitHealth, HealthAssumption
<1>2. HealthInv /\ [Next]_vars => HealthInv'
  <2> SUFFICES ASSUME HealthInv, [Next]_vars PROVE HealthInv'
    OBVIOUS
  <2>1. CASE UNCHANGED vars
    BY <2>1 DEF vars, HealthInv, TypeOK, StatusTellsIncident, NoOrphanIncident,
                RecoverIsFinal, OwnIncident, RowsDrawn, AlertsDrawn, AlertsNamed,
                ResolvedIsClosed, RecordsPast, Drawn
  <2>2. CASE \E c \in Checks, result \in Results, parentFailing, grace, silenced \in BOOLEAN :
               Record(c, result, parentFailing, grace, silenced)
    BY <2>2, RecordKeeps, HealthAssumption
  <2>3. CASE Prune
    BY <2>3, PruneKeeps
  <2>4. CASE Clock
    BY <2>4, ClockKeeps
  <2>q. QED BY <2>1, <2>2, <2>3, <2>4 DEF Next
<1>q. QED BY <1>1, <1>2, PTL DEF Spec
-------------------------------------------------------------------------------
(* Every variable keeps its type, for all thresholds and windows. *)
THEOREM TypeCorrect == Spec => []TypeOK
<1>1. HealthInv => TypeOK
  BY DEF HealthInv
<1>q. QED BY <1>1, HealthInvariant, PTL

(* transitionCheck never shows a check as healthy with an open incident,   *)
(* nor as failing without one.                                             *)
THEOREM StatusCorrect == Spec => []StatusTellsIncident
<1>1. HealthInv => StatusTellsIncident
  BY DEF HealthInv
<1>q. QED BY <1>1, HealthInvariant, PTL

(* record() leaves no unresolved row behind that no check would resolve.   *)
THEOREM NoOrphans == Spec => []NoOrphanIncident
<1>1. HealthInv => NoOrphanIncident
  BY DEF HealthInv
<1>q. QED BY <1>1, HealthInvariant, PTL

(* An announced recovery is final. *)
THEOREM RecoveriesFinal == Spec => []RecoverIsFinal
<1>1. HealthInv => RecoverIsFinal
  BY DEF HealthInv
<1>q. QED BY <1>1, HealthInvariant, PTL

(* No step rewrites a resolved row, or deletes one that is unresolved or   *)
(* younger than the retention time.                                        *)
THEOREM RowsKept == Spec => RowsSurvive
<1>1. HealthInv /\ [Next]_vars =>
        [\A r \in incidents :
           /\ r.resolvedAt = None => \E q \in incidents' : q.id = r.id
           /\ r.resolvedAt # None =>
                r \in incidents' \/ r.resolvedAt < now - Retention]_vars
  <2> SUFFICES ASSUME HealthInv, Next, NEW r \in incidents
               PROVE  /\ r.resolvedAt = None => \E q \in incidents' : q.id = r.id
                      /\ r.resolvedAt # None =>
                           r \in incidents' \/ r.resolvedAt < now - Retention
    OBVIOUS
  <2>1. ASSUME NEW c \in Checks, NEW result \in Results, NEW parentFailing \in BOOLEAN,
               NEW grace \in BOOLEAN, NEW silenced \in BOOLEAN,
               Record(c, result, parentFailing, grace, silenced)
        PROVE  /\ r.resolvedAt = None => \E q \in incidents' : q.id = r.id
               /\ r.resolvedAt # None => r \in incidents'
    <3>1. PICK s : s = state[c]
      OBVIOUS
    <3>2. PICK o : o = Outcome(result, parentFailing, grace)
      OBVIOUS
    <3>3. PICK id : id = <<c, now>>
      OBVIOUS
    <3>4. incidents' = IncidentsAfter(s, o, now, id) /\ recordedAt[c] < now
      BY <2>1, <3>1, <3>2, <3>3 DEF Record
    <3>5. r.id # id
      <4>1. PICK j : j = r.id
        OBVIOUS
      <4>2. j \in IncidentIds /\ j[2] <= recordedAt[j[1]]
        BY <4>1 DEF HealthInv, TypeOK, RowsDrawn, Drawn
      <4>3. recordedAt[c] \in Int /\ now \in Int
        BY DEF HealthInv, TypeOK
      <4>4. j # <<c, now>>
        BY <4>2, <4>3, <3>4 DEF IncidentIds
      <4>q. QED BY <4>1, <4>4, <3>3
    <3>6. [id |-> r.id, resolvedAt |-> IF r.id = s.incident /\ Recovers(s, o)
                                       THEN now ELSE r.resolvedAt] \in incidents'
      BY <3>4, <3>5 DEF IncidentsAfter
    <3>7. ASSUME r.resolvedAt # None PROVE r \in incidents'
      <4>1. r.id[1] \in Checks /\ r = [id |-> r.id, resolvedAt |-> r.resolvedAt]
            /\ r.id \in IncidentIds
        BY DEF HealthInv, TypeOK, IncidentIds
      <4>2. state[r.id[1]].incident # r.id /\ r.id # None
        BY <3>7, <4>1, HealthAssumption DEF HealthInv, ResolvedIsClosed, HealthAssumption
      <4>3. r.id # s.incident
        BY <3>1, <4>2 DEF HealthInv, OwnIncident
      <4>q. QED BY <3>6, <4>1, <4>3
    <3>q. QED BY <3>6, <3>7
  <2>2. CASE Prune
    BY <2>2, HealthAssumption DEF Prune, HealthInv, TypeOK, HealthAssumption
  <2>3. CASE Clock
    BY <2>3 DEF Clock
  <2>q. QED BY <2>1, <2>2, <2>3 DEF Next
<1>q. QED BY <1>1, HealthInvariant, PTL DEF Spec, RowsSurvive
===============================================================================
