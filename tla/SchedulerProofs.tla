--------------------------- MODULE SchedulerProofs ---------------------------
(***************************************************************************)
(* The slots of the probe scheduler match its open runs, for any number of *)
(* checks, runs and slots, at any time.                                    *)
(***************************************************************************)
EXTENDS ProbeScheduler, FiniteSetTheorems, TLAPS

RunsOK == run \in [Runs -> RunRecords \cup {None}]

\* The checks that run are finitely many, so that they can be counted.
IInv == RunsOK /\ IsFiniteSet(active) /\ SlotsMatchRuns

\* A run that is decided frees the slot of its check, and no other run of the
\* check is open.
LEMMA Decided ==
    ASSUME IInv, NEW r \in Runs, Open(r), NEW x \in RunRecords, x.answer # None,
           run' = [run EXCEPT ![r] = x], active' = active \ {run[r].check}
    PROVE  IInv'
<1>1. run \in [Runs -> RunRecords \cup {None}]
  BY DEF IInv, RunsOK
<1>2. RunsOK'
  BY <1>1 DEF RunsOK
<1>3. \A s \in Runs : run'[s] = IF s = r THEN x ELSE run[s]
  BY <1>1
<1>4. OpenRuns' = OpenRuns \ {r}
  BY <1>3 DEF OpenRuns, Open
<1>5. \A s \in OpenRuns' : run'[s] = run[s] /\ s # r
  BY <1>3, <1>4 DEF OpenRuns
<1>6. r \in OpenRuns
  BY DEF OpenRuns
<1>7. \A s \in OpenRuns : s # r => run[s].check # run[r].check
  BY <1>6 DEF IInv, SlotsMatchRuns
<1>8. active' = {run'[s].check : s \in OpenRuns'}
  BY <1>4, <1>5, <1>7 DEF IInv, SlotsMatchRuns
<1>9. \A s, t \in OpenRuns' : run'[s].check = run'[t].check => s = t
  BY <1>4, <1>5 DEF IInv, SlotsMatchRuns
<1>10. IsFiniteSet(active') /\ Cardinality(active') <= Cardinality(active)
  BY FS_Subset DEF IInv
<1>11. Cardinality(active) \in Nat /\ Cardinality(active') \in Nat
  BY <1>10, FS_CardinalityType DEF IInv
<1>12. Cardinality(active') <= Concurrency
  BY <1>10, <1>11, SchedulerAssumption DEF IInv, SlotsMatchRuns
<1> QED
  BY <1>2, <1>8, <1>9, <1>10, <1>12 DEF IInv, SlotsMatchRuns

\* A run that starts takes the slot of a check that had none.
LEMMA Begun ==
    ASSUME IInv, NEW r \in Runs, NEW c \in Checks, run[r] = None,
           c \notin active, ~(Cardinality(active) >= Concurrency),
           active' = active \cup {c},
           run' = [run EXCEPT ![r] = [check |-> c, answer |-> None, probing |-> TRUE]]
    PROVE  IInv'
<1> DEFINE x == [check |-> c, answer |-> None, probing |-> TRUE]
<1>1. run \in [Runs -> RunRecords \cup {None}] /\ x \in RunRecords /\ x # None
  <2>1. x \in RunRecords
    BY DEF RunRecords
  <2> QED
    BY <2>1, SchedulerAssumption DEF IInv, RunsOK
<1>2. RunsOK'
  BY <1>1 DEF RunsOK
<1>3. \A s \in Runs : run'[s] = IF s = r THEN x ELSE run[s]
  BY <1>1
<1>4. x.answer = None /\ x.check = c
  OBVIOUS
<1> HIDE DEF x
<1>5. OpenRuns' = OpenRuns \cup {r} /\ r \notin OpenRuns
  BY <1>1, <1>3, <1>4 DEF OpenRuns, Open
<1>6. \A s \in OpenRuns : run'[s] = run[s] /\ run[s].check # c
  BY <1>3, <1>5 DEF OpenRuns, IInv, SlotsMatchRuns
<1>7. run'[r].check = c
  BY <1>3, <1>4
<1>8. active' = {run'[s].check : s \in OpenRuns'}
  BY <1>5, <1>6, <1>7 DEF IInv, SlotsMatchRuns
<1>9. \A s, t \in OpenRuns' : run'[s].check = run'[t].check => s = t
  BY <1>5, <1>6, <1>7 DEF IInv, SlotsMatchRuns
<1>10. IsFiniteSet(active') /\ Cardinality(active') = Cardinality(active) + 1
  BY FS_AddElement DEF IInv
<1>11. Cardinality(active') <= Concurrency
  BY <1>10, FS_CardinalityType, SchedulerAssumption DEF IInv
<1> QED
  BY <1>2, <1>8, <1>9, <1>10, <1>11 DEF IInv, SlotsMatchRuns

\* What leaves the open runs and their checks as they are.
LEMMA Kept ==
    ASSUME IInv, RunsOK', active' = active, OpenRuns' = OpenRuns,
           \A s \in OpenRuns : run'[s].check = run[s].check
    PROVE  IInv'
  BY DEF IInv, SlotsMatchRuns

LEMMA Initially == Init => IInv
<1> SUFFICES ASSUME Init PROVE IInv
  OBVIOUS
<1>1. RunsOK /\ OpenRuns = {}
  BY DEF Init, RunsOK, OpenRuns, Open
<1>2. IsFiniteSet(active) /\ Cardinality(active) = 0
  BY FS_EmptySet DEF Init
<1> QED
  BY <1>1, <1>2, SchedulerAssumption DEF Init, IInv, SlotsMatchRuns

LEMMA Inductive == IInv /\ [Next]_vars => IInv'
<1> SUFFICES ASSUME IInv, [Next]_vars PROVE IInv'
  OBVIOUS
<1>1. run \in [Runs -> RunRecords \cup {None}]
  BY DEF IInv, RunsOK
<1>2. ASSUME NEW r \in Runs, NEW c \in Checks, Start(r, c) PROVE IInv'
  <2> DEFINE x == [check |-> c, answer |-> "unknown", probing |-> FALSE]
  <2>1. CASE Cardinality(active) >= Concurrency \/ c \in active
    <3>1. run' = [run EXCEPT ![r] = x] /\ active' = active /\ run[r] = None
      BY <1>2, <2>1 DEF Start
    <3>2. x \in RunRecords /\ x.answer # None
      BY SchedulerAssumption DEF RunRecords, Answers
    <3> HIDE DEF x
    <3>3. RunsOK' /\ \A s \in Runs : run'[s] = IF s = r THEN x ELSE run[s]
      BY <1>1, <3>1, <3>2 DEF RunsOK
    <3>4. OpenRuns' = OpenRuns /\ \A s \in OpenRuns : run'[s].check = run[s].check
      BY <3>1, <3>2, <3>3 DEF OpenRuns, Open
    <3> QED
      BY <3>1, <3>3, <3>4, Kept
  <2>2. CASE ~(Cardinality(active) >= Concurrency \/ c \in active)
    BY <1>2, <2>2, Begun DEF Start
  <2> QED
    BY <2>1, <2>2
<1>3. ASSUME NEW r \in Runs, ProbeEnds(r) PROVE IInv'
  <2>1. run[r] \in RunRecords /\ run[r] # None
    BY <1>1, <1>3 DEF ProbeEnds
  <2>2. PICK ends \in {"ok", "fail"} :
          run' = [run EXCEPT ![r] = Ended(run[r], ends)]
    BY <1>3 DEF ProbeEnds
  <2> DEFINE x == Ended(run[r], ends)
  <2>3. run' = [run EXCEPT ![r] = x]
    BY <2>2
  <2>4. x \in RunRecords /\ x.answer # None /\ x.check = run[r].check
    BY <2>1, SchedulerAssumption DEF RunRecords, Answers, Ended
  <2> HIDE DEF x
  <2>5. CASE Open(r)
    <3>1. active' = active \ {run[r].check}
      BY <1>3, <2>5 DEF ProbeEnds
    <3> QED
      BY <2>3, <2>4, <2>5, <3>1, Decided
  <2>6. CASE ~Open(r)
    <3>1. active' = active
      BY <1>3, <2>6 DEF ProbeEnds
    <3>2. RunsOK' /\ \A s \in Runs : run'[s] = IF s = r THEN x ELSE run[s]
      BY <1>1, <2>3, <2>4 DEF RunsOK
    <3>3. OpenRuns' = OpenRuns /\ \A s \in OpenRuns : run'[s].check = run[s].check
      BY <2>4, <2>6, <3>2 DEF OpenRuns, Open
    <3> QED
      BY <3>1, <3>2, <3>3, Kept
  <2> QED
    BY <2>5, <2>6
<1>4. ASSUME NEW r \in Runs, Deadline(r) PROVE IInv'
  <2> DEFINE x == [run[r] EXCEPT !.answer = "fail"]
  <2>1. Open(r) /\ run' = [run EXCEPT ![r] = x] /\ active' = active \ {run[r].check}
    BY <1>4 DEF Deadline, Answer
  <2>2. run[r] \in RunRecords
    BY <1>1, <2>1 DEF Open
  <2>3. x \in RunRecords /\ x.answer # None
    BY <2>2, SchedulerAssumption DEF RunRecords, Answers
  <2> HIDE DEF x
  <2> QED
    BY <2>1, <2>3, Decided
<1>5. CASE Clock \/ UNCHANGED vars
  BY <1>5 DEF Clock, vars, IInv, RunsOK, SlotsMatchRuns, OpenRuns, Open
<1> QED
  BY <1>2, <1>3, <1>4, <1>5 DEF Next

\* Slots and open runs match in every reachable state.
THEOREM SlotsMatch == Spec => []SlotsMatchRuns
<1>1. IInv => SlotsMatchRuns
  BY DEF IInv
<1> QED
  BY Initially, Inductive, <1>1, PTL DEF Spec
=============================================================================
