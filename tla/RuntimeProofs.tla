---------------------------- MODULE RuntimeProofs ----------------------------
(***************************************************************************)
(* Theorems about nine of the parts of the runtime (those of the scheduler *)
(* are in SchedulerProofs): the data loader, the strategies of calls,      *)
(* measured operations, the errors of the event service, the life of       *)
(* applications, one probe, the commands on databases, the mutation        *)
(* journal and the generated resolvers, for any loads, legs, operations,   *)
(* errors, applications, checks, connections, migrations, processes,       *)
(* tables, schemas and requests.  Each part has an inductive invariant and *)
(* one lemma for each of its actions; the last section puts them together  *)
(* for RuntimeSpec.                                                        *)
(***************************************************************************)
EXTENDS Runtime, FiniteSetTheorems, WellFoundedInduction, TLAPS

\* Among numbers one is the least.
LEMMA SomeIsLeast ==
  ASSUME NEW T \in SUBSET Nat, T # {}
  PROVE  \E x \in T : \A y \in T : x <= y
  <1>1. IsWellFoundedOn(OpToRel(<, Nat), Nat)
    BY NatLessThanWellFounded
  <1>2. PICK x \in T : \A y \in T : <<y, x>> \notin OpToRel(<, Nat)
    BY <1>1, WFMin
  <1>3. ASSUME NEW y \in T PROVE x <= y
    <2>1. ~(y < x)
      BY <1>2 DEF OpToRel
    <2>2. x \in Nat /\ y \in Nat
      OBVIOUS
    <2> QED BY <2>1, <2>2
  <1> QED BY <1>3

-----------------------------------------------------------------------------
(* The data loader.  s1 is the table, s2 the loaders, s3 the loads and s4  *)
(* what the query of each search key saw.                                  *)

LoaderInv == L!TypeOK /\ L!RowsMatchSeen /\ L!FoundInLoader

\* The key of a loader is the options that it was made of.
LEMMA KeyOfOptions == \A o \in Options : L!Key(o) = o
  BY LoaderAssumption DEF L!Key

LEMMA LoaderInit == L!Init => LoaderInv
  <1> SUFFICES ASSUME L!Init PROVE LoaderInv OBVIOUS
  <1>1. L!TypeOK
    <2>1. [queue |-> {}, rows |-> [k \in SearchKeys |-> None], count |-> None] \in L!Loaders
      BY DEF L!Loaders, L!Counts
    <2> QED BY <2>1 DEF L!Init, L!TypeOK, L!Tables
  <1> QED
    BY <1>1 DEF L!Init, LoaderInv, L!RowsMatchSeen, L!FoundInLoader, L!Waits, L!Found

\* Where no answer and no table kept for one changes, answers still match.
LEMMA SameAnswers ==
  ASSUME LoaderInv, s4' = s4,
         \A y \in Options : /\ s2'[y].rows = s2[y].rows
                            /\ \A j \in SearchKeys : j \in s2'[y].queue => s2[y].rows[j] = None
  PROVE  L!RowsMatchSeen'
  <1> SUFFICES ASSUME NEW y \in Options, NEW j \in SearchKeys
               PROVE  /\ j \in s2'[y].queue => s2[y].rows[j] = None
                      /\ y.take = All /\ s2[y].rows[j] # None
                           => s2[y].rows[j] = L!Matching(s4[y][j], y, {j})
    BY DEF L!RowsMatchSeen
  <1>1. y.take = All /\ s2[y].rows[j] # None => s2[y].rows[j] = L!Matching(s4[y][j], y, {j})
    BY DEF LoaderInv, L!RowsMatchSeen
  <1> QED BY <1>1

\* A load that begins asks for a key that has no answer.
LEMMA LoadBegins ==
  ASSUME LoaderInv, NEW l \in Loads, NEW o \in Options, NEW k \in SearchKeys \cup {None},
         NEW kind \in {"one", "many", "counted"}, L!Load(l, o, k, kind)
  PROVE  LoaderInv'
  <1> DEFINE c == [options |-> o, key |-> k, kind |-> kind, count |-> None,
                   state |-> IF k = None THEN "answered" ELSE "waits", rows |-> {}]
             asked == [queue |-> s2[o].queue \cup {k}, rows |-> s2[o].rows, count |-> s2[o].count]
  <1>1. s3' = [s3 EXCEPT ![l] = c] /\ c \in L!Calls
    BY DEF L!Load, L!Calls, L!Counts
  <1>2. s2[o] \in L!Loaders BY DEF LoaderInv, L!TypeOK
  <1>3. \/ s2' = s2
        \/ /\ k \in SearchKeys /\ s2[o].rows[k] = None
           /\ s2' = [s2 EXCEPT ![o] = asked] /\ asked \in L!Loaders
    <2>1. CASE k # None /\ s2[o].rows[k] = None
      <3>1. [s2[o] EXCEPT !.queue = @ \cup {k}] = asked BY <1>2 DEF L!Loaders
      <3>2. s2' = [s2 EXCEPT ![o] = asked] BY <2>1, <3>1, KeyOfOptions DEF L!Load
      <3>3. asked \in L!Loaders BY <2>1, <1>2 DEF L!Loaders
      <3> QED BY <2>1, <3>2, <3>3
    <2>2. CASE ~(k # None /\ s2[o].rows[k] = None)
      BY <2>2, KeyOfOptions DEF L!Load
    <2> QED BY <2>1, <2>2
  <1>4. UNCHANGED <<s1, s4, s5>> BY DEF L!Load
  <1> HIDE DEF c, asked
  <1>5. L!TypeOK'
    BY <1>1, <1>3, <1>4 DEF LoaderInv, L!TypeOK, L!Tables
  <1>6. L!RowsMatchSeen'
    <2>1. ASSUME NEW y \in Options
          PROVE  /\ s2'[y].rows = s2[y].rows
                 /\ \A j \in SearchKeys : j \in s2'[y].queue => s2[y].rows[j] = None
      <3>1. \A j \in SearchKeys : j \in s2[y].queue => s2[y].rows[j] = None
        BY DEF LoaderInv, L!RowsMatchSeen
      <3>2. CASE s2' = s2 BY <3>1, <3>2
      <3>3. CASE s2' = [s2 EXCEPT ![o] = asked] /\ s2[o].rows[k] = None
        <4>1. s2'[y] = IF y = o THEN asked ELSE s2[y] BY <3>3 DEF LoaderInv, L!TypeOK
        <4> QED BY <4>1, <3>1, <3>3 DEF asked
      <3> QED BY <3>2, <3>3, <1>3
    <2> QED BY <2>1, <1>4, SameAnswers
  <1>7. L!FoundInLoader'
    BY <1>1, <1>3, KeyOfOptions DEF c, asked, LoaderInv, L!TypeOK, L!FoundInLoader, L!Waits, L!Found, L!Calls
  <1> QED BY <1>5, <1>6, <1>7 DEF LoaderInv

\* The query of a batch answers keys that had no answer.
LEMMA BatchAnswers ==
  ASSUME LoaderInv, NEW x \in Options, L!Batch(x)
  PROVE  LoaderInv'
  <1> DEFINE ks  == s2[x].queue
             ids == L!Matching(s1, x, ks)
             got == [queue |-> {}, count |-> L!Cardinality(ids),
                     rows |-> [k \in SearchKeys |->
                                 IF k \in ks THEN {i \in L!Taken(ids, x.take) : s1[i].key = k}
                                 ELSE s2[x].rows[k]]]
             met == [k \in SearchKeys |-> IF k \in ks THEN s1 ELSE s4[x][k]]
  <1>1. s2' = [s2 EXCEPT ![x] = got] /\ s4' = [s4 EXCEPT ![x] = met] /\ UNCHANGED <<s1, s3, s5>>
    BY DEF L!Batch
  <1>2. ids \subseteq RowIds /\ L!Taken(ids, x.take) \subseteq RowIds
    BY DEF L!Matching, L!Taken
  <1>3. s2[x] \in L!Loaders /\ s4[x] \in [SearchKeys -> L!Tables \cup {None}] /\ s1 \in L!Tables
    BY DEF LoaderInv, L!TypeOK
  <1>4. got \in L!Loaders
    BY <1>2, <1>3 DEF L!Loaders, L!Counts
  <1>5. met \in [SearchKeys -> L!Tables \cup {None}]
    BY <1>3
  <1>6. ASSUME NEW k \in ks, x.take = All
        PROVE  {i \in L!Taken(ids, x.take) : s1[i].key = k} = L!Matching(s1, x, {k})
    BY <1>6 DEF L!Matching, L!Taken
  <1>7. \A k \in ks : k \in SearchKeys /\ s2[x].rows[k] = None
    BY <1>3 DEF LoaderInv, L!RowsMatchSeen, L!Loaders
  <1>8. \A k \in SearchKeys :
          /\ k \in ks => got.rows[k] = {i \in L!Taken(ids, x.take) : s1[i].key = k} /\ met[k] = s1
          /\ k \notin ks => got.rows[k] = s2[x].rows[k] /\ met[k] = s4[x][k]
    OBVIOUS
  <1>9. got.queue = {}
    OBVIOUS
  <1> HIDE DEF got, met, ids, ks
  <1>10. L!TypeOK'
    BY <1>1, <1>4, <1>5 DEF LoaderInv, L!TypeOK
  <1>11. L!RowsMatchSeen'
    <2> SUFFICES ASSUME NEW y \in Options, NEW j \in SearchKeys
                 PROVE  /\ j \in s2'[y].queue => s2'[y].rows[j] = None
                        /\ y.take = All /\ s2'[y].rows[j] # None
                             => s2'[y].rows[j] = L!Matching(s4'[y][j], y, {j})
      BY DEF L!RowsMatchSeen
    <2>1. CASE y = x
      <3>1. s2'[y] = got /\ s4'[y] = met BY <2>1, <1>1 DEF LoaderInv, L!TypeOK
      <3>2. CASE j \in ks
        <4>1. s2'[y].queue = {} /\ s2'[y].rows[j] = got.rows[j] /\ s4'[y][j] = met[j]
          BY <3>1, <1>9
        <4>2. met[j] = s1 /\ (x.take = All => got.rows[j] = L!Matching(s1, x, {j}))
          BY <3>2, <1>6, <1>8
        <4> QED BY <4>1, <4>2, <2>1
      <3>3. CASE j \notin ks BY <3>1, <3>3, <2>1, <1>8, <1>9 DEF LoaderInv, L!RowsMatchSeen
      <3> QED BY <3>2, <3>3
    <2>2. CASE y # x
      BY <2>2, <1>1 DEF LoaderInv, L!TypeOK, L!RowsMatchSeen
    <2> QED BY <2>1, <2>2
  <1>12. L!FoundInLoader'
    <2> SUFFICES ASSUME NEW l \in Loads, L!Found(s3[l])
                 PROVE  s2'[s3[l].options].rows[s3[l].key] = s2[s3[l].options].rows[s3[l].key]
      <3>1. \A l \in Loads : L!Found(s3[l]) => L!Key(s3[l].options) = s3[l].options
        BY KeyOfOptions DEF LoaderInv, L!TypeOK, L!Calls, L!Found
      <3> QED BY <1>1, <3>1 DEF LoaderInv, L!FoundInLoader, L!Waits, L!Found
    <2>1. /\ s3[l].options \in Options /\ s3[l].key \in SearchKeys
          /\ s2[s3[l].options].rows[s3[l].key] # None
      BY KeyOfOptions DEF LoaderInv, L!TypeOK, L!Calls, L!Found, L!Waits, L!FoundInLoader
    <2>2. CASE s3[l].options = x BY <2>1, <2>2, <1>1, <1>7, <1>8 DEF LoaderInv, L!TypeOK
    <2>3. CASE s3[l].options # x BY <2>1, <2>3, <1>1 DEF LoaderInv, L!TypeOK
    <2> QED BY <2>2, <2>3
  <1> QED BY <1>10, <1>11, <1>12 DEF LoaderInv

\* A batch that fails ends loads that waited, and answers no key.
LEMMA BatchRejects ==
  ASSUME LoaderInv, NEW x \in Options, L!BatchFails(x)
  PROVE  LoaderInv'
  <1> DEFINE left == [queue |-> {}, rows |-> s2[x].rows, count |-> s2[x].count]
  <1>1. s2[x] \in L!Loaders BY DEF LoaderInv, L!TypeOK
  <1>2. left \in L!Loaders /\ [s2[x] EXCEPT !.queue = {}] = left
    BY <1>1 DEF L!Loaders
  <1>3. s2' = [s2 EXCEPT ![x] = left] /\ UNCHANGED <<s1, s4, s5>>
    BY <1>2 DEF L!BatchFails
  <1>4. s3' \in [Loads -> L!Calls \cup {None}]
    <2>1. \A l \in Loads : L!Waits(l) => [s3[l] EXCEPT !.state = "failed"] \in L!Calls
      BY DEF LoaderInv, L!TypeOK, L!Calls, L!Waits
    <2> QED BY <2>1 DEF L!BatchFails, LoaderInv, L!TypeOK
  <1>5. \A l \in Loads : L!Found(s3'[l]) \/ s3'[l].state = "waits" => s3'[l] = s3[l]
    <2>1. \A l \in Loads : L!Waits(l) => [s3[l] EXCEPT !.state = "failed"].state = "failed"
      BY DEF LoaderInv, L!TypeOK, L!Calls, L!Waits
    <2> QED BY <2>1 DEF L!BatchFails, L!Found
  <1>6. \A y \in Options : s2'[y].rows = s2[y].rows /\ s2'[y].queue \subseteq s2[y].queue
    BY <1>3 DEF LoaderInv, L!TypeOK
  <1> HIDE DEF left
  <1>7. L!TypeOK'
    BY <1>2, <1>3, <1>4 DEF LoaderInv, L!TypeOK
  <1>8. L!RowsMatchSeen'
    BY <1>3, <1>6, SameAnswers DEF LoaderInv, L!RowsMatchSeen
  <1>9. L!FoundInLoader'
    BY <1>5, <1>6, KeyOfOptions DEF LoaderInv, L!TypeOK, L!Calls, L!FoundInLoader, L!Waits, L!Found
  <1> QED BY <1>7, <1>8, <1>9 DEF LoaderInv

\* A load that resumes copies the answer of its key.
LEMMA LoadResumes ==
  ASSUME LoaderInv, NEW l \in Loads, L!Resume(l)
  PROVE  LoaderInv'
  <1> DEFINE o   == s3[l].options
             k   == s3[l].key
             got == s2[o].rows[k]
             c   == [s3[l] EXCEPT !.state = IF s3[l].kind = "one" /\ L!Cardinality(got) > 1
                                              THEN "refused" ELSE "answered",
                                  !.rows = got,
                                  !.count = IF s3[l].kind = "counted" THEN s2[o].count ELSE None]
  <1>1. s3[l] \in L!Calls /\ o \in Options /\ L!Key(o) = o
    BY KeyOfOptions DEF LoaderInv, L!TypeOK, L!Calls, L!Resume, L!Waits
  <1>2. got # None /\ s3' = [s3 EXCEPT ![l] = c] /\ UNCHANGED <<s1, s2, s4, s5>>
    BY <1>1 DEF L!Resume
  <1>3. got \in SUBSET RowIds /\ c \in L!Calls
    <2>1. k \in SearchKeys
      BY <1>1 DEF LoaderInv, L!FoundInLoader, L!Resume, L!Calls
    <2>2. s2[o] \in L!Loaders
      BY <1>1 DEF LoaderInv, L!TypeOK
    <2>3. got \in SUBSET RowIds /\ s2[o].count \in L!Counts
      BY <2>1, <2>2, <1>2 DEF L!Loaders
    <2> QED BY <1>1, <2>3 DEF L!Calls, L!Counts
  <1>4. L!TypeOK'
    BY <1>1, <1>2, <1>3 DEF LoaderInv, L!TypeOK
  <1>5. L!RowsMatchSeen'
    BY <1>2, SameAnswers DEF LoaderInv, L!RowsMatchSeen
  <1>6. L!FoundInLoader'
    <2>1. /\ c.options = o /\ c.key = k /\ c.kind = s3[l].kind /\ c.rows = got
          /\ c.state = IF s3[l].kind = "one" /\ L!Cardinality(got) > 1 THEN "refused" ELSE "answered"
      BY <1>1 DEF L!Calls
    <2>2. \A m \in Loads : s3'[m] = IF m = l THEN c ELSE s3[m]
      BY <1>2 DEF LoaderInv, L!TypeOK
    <2> HIDE DEF c, got
    <2> QED BY <1>1, <1>2, <2>1, <2>2, KeyOfOptions DEF LoaderInv, L!FoundInLoader, L!Waits, L!Found, got
  <1> QED BY <1>4, <1>5, <1>6 DEF LoaderInv

LEMMA RowChanges ==
  ASSUME LoaderInv, NEW i \in RowIds, NEW r \in L!Rows \cup {None}, L!Change(i, r)
  PROVE  LoaderInv'
  BY DEF LoaderInv, L!TypeOK, L!Tables, L!Change, L!RowsMatchSeen, L!FoundInLoader, L!Waits, L!Found, L!Matching

LEMMA LoaderStep == LoaderInv /\ L!Next => LoaderInv'
  BY LoadBegins, LoadResumes, BatchAnswers, BatchRejects, RowChanges DEF L!Next

LEMMA LoaderAnswers == LoaderInv => L!LoadsAnswer
  <1> SUFFICES ASSUME LoaderInv, NEW l \in Loads, L!Found(s3[l])
               PROVE  LET c == s3[l]
                          t == s4[L!Key(c.options)][c.key]
                      IN  /\ c.options.take = All => c.rows = L!Matching(t, c.options, {c.key})
                          /\ (c.state = "refused") <=> (c.kind = "one" /\ L!Cardinality(c.rows) > 1)
    BY DEF L!LoadsAnswer
  <1>1. s3[l].options \in Options /\ s3[l].key \in SearchKeys
    BY DEF LoaderInv, L!TypeOK, L!Calls, L!Found
  <1>2. L!Key(s3[l].options) = s3[l].options
    BY <1>1, KeyOfOptions
  <1> QED BY <1>1, <1>2 DEF LoaderInv, L!RowsMatchSeen, L!FoundInLoader

-----------------------------------------------------------------------------
(* The strategies of calls.  s1 is the setup, s2 tells whether the call is *)
(* aborted, s3 are the legs, s4 what they answered, s5 the legs that were  *)
(* sent, and s6 is the caller.                                             *)

CallInv == S!TypeOK /\ S!InTurn /\ S!Answered /\ S!AbortHolds /\ S!NothingBehind

\* A selection that starts is one of the legs.
LEMMA FirstIsLeg ==
  ASSUME s1 \in Setups, S!Starts, s1.wrap \in {"selected", "fallback", "shadow"}
  PROVE  S!First \in S!Legs
  <1>1. ASSUME NEW key, S!Registered(key) PROVE S!IndexOf(key) \in S!Legs
    BY <1>1 DEF S!Registered, S!IndexOf
  <1>2. CASE s1.wrap = "selected"
    BY <1>1, <1>2 DEF S!Starts, S!First, S!Selects
  <1>3. CASE s1.wrap # "selected"
    BY <1>3, CallAssumption DEF S!First, S!Legs
  <1> QED BY <1>2, <1>3

LEMMA CallStarts == S!Init => CallInv
  <1> SUFFICES ASSUME S!Init PROVE CallInv OBVIOUS
  <1> USE DEF S!Init
  <1>1. S!TypeOK BY DEF S!TypeOK, S!States, S!Before
  <1>2. S!InTurn BY DEF S!InTurn, S!Before, S!InFlight, S!Starts, S!Registered, S!Selects, S!IndexOf, S!Legs, S!Leg
  <1>3. S!Answered BY DEF S!Answered
  <1>4. S!AbortHolds BY DEF S!AbortHolds
  <1>5. S!NothingBehind BY DEF S!NothingBehind, S!Returned
  <1> QED BY <1>1, <1>2, <1>3, <1>4, <1>5 DEF CallInv

\* Dispatches, replies and aborts only move legs that are under way, and the
\* wrapper stays where it is.
Quiet ==
    /\ UNCHANGED <<s1, s6>>
    /\ \A i \in S!Legs : s3[i] \notin S!InFlight => s3'[i] = s3[i] /\ (i \in s5' => i \in s5)

LEMMA QuietKeepsTurn ==
  ASSUME CallInv, Quiet, s5' \subseteq S!Legs
  PROVE  S!InTurn' /\ S!NothingBehind'
  <1>1. S!Legs' = S!Legs /\ S!Shadows' = S!Shadows
    BY DEF Quiet, S!Legs, S!Shadows
  <1>2. \A i \in S!Legs : s3[i] \in {"idle"} \cup S!Well \cup S!Badly => s3'[i] = s3[i] /\ (i \in s5' => i \in s5)
    BY DEF Quiet, S!InFlight, S!Well, S!Badly
  <1>3. s1.wrap = "shadow" => 1 \in S!Legs
    BY CallAssumption DEF CallInv, S!TypeOK, S!Legs
  <1>4. S!InTurn'
    <2>1. (s6.pc \in S!Before => s5 = {} /\ \A i \in S!Legs : s3[i] = "idle")'
      BY <1>1, <1>2 DEF Quiet, CallInv, S!InTurn, S!Before
    <2>2. (s1.wrap = "emit" => \A i \in S!Legs : s3[i] \notin S!InFlight)'
      BY <1>1 DEF Quiet, CallInv, S!InTurn, S!InFlight
    <2>3. (s1.wrap \in {"selected", "fallback"} /\ s6.pc \notin S!Before =>
             /\ s6.leg \in S!Legs
             /\ \A i \in S!Legs : i > s6.leg => s3[i] = "idle" /\ i \notin s5
             /\ \A i \in S!Legs : i < s6.leg => s3[i] \in IF s1.wrap = "fallback" THEN S!Badly ELSE {"idle"})'
      BY <1>1, <1>2 DEF Quiet, CallInv, S!InTurn, S!Before, S!Badly
    <2>4. (s1.wrap = "shadow" /\ s6.pc = "waits" => s6.leg = 1 /\ \A i \in S!Shadows : s3[i] = "idle")'
      BY <1>1, <1>2 DEF Quiet, CallInv, S!InTurn, S!Shadows
    <2>5. (s6.pc = "shadows" => s1.wrap = "shadow" /\ s3[1] \in S!Well)'
      BY <1>1, <1>2, <1>3 DEF Quiet, CallInv, S!InTurn, S!Well
    <2>6. (s6.pc = "ready" => S!Starts)'
      BY DEF Quiet, CallInv, S!InTurn, S!Starts, S!Registered, S!Selects, S!IndexOf, S!Legs, S!Leg
    <2> QED BY <2>1, <2>2, <2>3, <2>4, <2>5, <2>6 DEF S!InTurn
  <1>5. S!NothingBehind'
    <2>1. \A i \in S!Legs : s3'[i] \in S!InFlight => s3[i] \in S!InFlight
      BY DEF Quiet
    <2> QED
      BY <1>1, <1>2, <2>1 DEF Quiet, CallInv, S!NothingBehind, S!Returned, S!AwaitsShadows, S!InFlight, S!Shadows, S!Badly
  <1> QED BY <1>4, <1>5

LEMMA Dispatches ==
  ASSUME CallInv, NEW i \in S!Legs, S!Dispatch(i)
  PROVE  CallInv'
  <1>1. S!TypeOK'
    BY DEF CallInv, S!TypeOK, S!Dispatch, S!States, S!InFlight, S!Legs
  <1>2. Quiet /\ s5' \subseteq S!Legs
    BY DEF CallInv, S!TypeOK, S!Dispatch, Quiet, S!InFlight
  <1>3. S!Answered'
    BY DEF CallInv, S!TypeOK, S!Answered, S!Dispatch, S!Well, S!Policy, S!Leg, S!Legs
  <1>4. S!AbortHolds'
    BY DEF CallInv, S!TypeOK, S!AbortHolds, S!Dispatch, S!Legs
  <1> QED BY <1>1, <1>2, <1>3, <1>4, QuietKeepsTurn DEF CallInv

LEMMA Replies ==
  ASSUME CallInv, NEW i \in S!Legs, S!Reply(i)
  PROVE  CallInv'
  <1>1. S!TypeOK'
    BY DEF CallInv, S!TypeOK, S!Reply, S!States, S!Well, S!Badly, S!InFlight, S!Legs
  <1>2. Quiet /\ s5' \subseteq S!Legs
    BY DEF CallInv, S!TypeOK, S!Reply, Quiet, S!InFlight
  <1>3. S!Answered'
    <2>1. S!Legs' = S!Legs /\ (\A j : S!Policy(j)' = S!Policy(j)) /\ S!Well' = S!Well
      BY DEF S!Reply, S!Legs, S!Policy, S!Leg, S!Well
    <2>2. s3[i] = "sent" /\ s6' = s6 /\ s4[i] = None
      BY DEF CallInv, S!Answered, S!Reply
    <2>3. CASE s3' = [s3 EXCEPT ![i] = "failed"] /\ s4' = s4
      BY <2>1, <2>2, <2>3 DEF CallInv, S!TypeOK, S!Answered, S!Well
    <2>4. ASSUME NEW s, s3' = [s3 EXCEPT ![i] = IF S!Accepts(i, s) THEN "ok" ELSE "failed"],
                 s4' = [s4 EXCEPT ![i] = s]
          PROVE  S!Answered'
      BY <2>1, <2>2, <2>4 DEF CallInv, S!TypeOK, S!Answered, S!Well, S!Accepts
    <2> QED BY <2>3, <2>4 DEF S!Reply
  <1>4. S!AbortHolds'
    BY DEF CallInv, S!TypeOK, S!AbortHolds, S!Reply, S!Legs
  <1> QED BY <1>1, <1>2, <1>3, <1>4, QuietKeepsTurn DEF CallInv

LEMMA Aborts ==
  ASSUME CallInv, S!Abort
  PROVE  CallInv'
  <1>1. S!TypeOK'
    BY DEF CallInv, S!TypeOK, S!Abort, S!States, S!Well, S!Badly, S!InFlight, S!Legs
  <1>2. Quiet /\ s5' \subseteq S!Legs
    BY DEF CallInv, S!TypeOK, S!Abort, Quiet
  <1>3. S!Answered'
    BY DEF CallInv, S!TypeOK, S!Answered, S!Abort, S!InFlight, S!Well, S!Policy, S!Leg, S!Legs
  <1>4. S!AbortHolds'
    BY DEF CallInv, S!TypeOK, S!AbortHolds, S!Abort, S!InFlight, S!Legs
  <1> QED BY <1>1, <1>2, <1>3, <1>4, QuietKeepsTurn DEF CallInv

LEMMA EmitsAll ==
  ASSUME CallInv, S!EmitAll
  PROVE  CallInv'
  <1>1. /\ UNCHANGED <<s1, s2, s4>> /\ s5' \subseteq S!Legs
        /\ s3' \in [S!Legs -> {"idle", "failed", "ok", "spare"}]
        /\ s6' \in [pc : {"ok", "failed"}, leg : {None}]
        /\ s1.wrap = "emit" /\ s6.pc = "ready"
    BY DEF S!EmitAll, S!Goto
  <1>2. S!Legs' = S!Legs
    BY <1>1 DEF S!Legs
  <1>3. s2 = FALSE /\ s1 \in Setups
    BY <1>1, CallAssumption DEF CallInv, S!TypeOK, S!AbortHolds
  <1>4. \A i \in S!Legs : s4[i] = None
    BY <1>1 DEF CallInv, S!InTurn, S!Answered, S!Before
  <1>5. S!TypeOK'
    BY <1>1, <1>2, <1>3 DEF CallInv, S!TypeOK, S!States, S!Well, S!Badly, S!InFlight, S!Before
  <1>6. S!InTurn'
    BY <1>1, <1>2 DEF S!InTurn, S!InFlight, S!Before
  <1>7. S!Answered'
    BY <1>1, <1>2, <1>4 DEF S!Answered
  <1>8. S!AbortHolds'
    BY <1>1, <1>3 DEF S!AbortHolds
  <1>9. S!NothingBehind'
    BY <1>1, <1>2 DEF S!NothingBehind, S!InFlight
  <1> QED BY <1>5, <1>6, <1>7, <1>8, <1>9 DEF CallInv

\* What is called was idle; in an aborted call it is not dispatched.
LEMMA BeginLegs ==
  ASSUME CallInv, NEW is \in SUBSET S!Legs, S!Begin(is), UNCHANGED <<s1, s2, s4>>,
         \A i \in is : s3[i] = "idle"
  PROVE  /\ s3' \in [S!Legs -> S!States]
         /\ \A i \in S!Legs \ is : s3'[i] = s3[i]
         /\ s5' \subseteq s5 \cup is
         /\ s2 => s5' = s5
         /\ S!AbortHolds'
         /\ \A i \in S!Legs : s4[i] # None => i \notin is
         /\ S!Legs' = S!Legs /\ S!Shadows' = S!Shadows /\ \A j : S!Policy(j)' = S!Policy(j)
  <1>1. S!Legs' = S!Legs /\ S!Shadows' = S!Shadows /\ \A j : S!Policy(j)' = S!Policy(j)
    BY DEF S!Legs, S!Shadows, S!Policy, S!Leg
  <1>2. \A i \in is : /\ S!Begun(i) \in S!States
                      /\ s2 /\ s1.signal => S!Begun(i) \notin {"sent", "queued"}
    BY DEF S!Begun, S!States, S!InFlight, S!Well, S!Badly
  <1>3. s3' = [i \in S!Legs |-> IF i \in is THEN S!Begun(i) ELSE s3[i]] /\ s5' = s5 \cup {i \in is : S!Begun(i) = "sent"}
    BY DEF S!Begin
  <1>4. s2 => s1.signal
    BY DEF CallInv, S!AbortHolds
  <1> QED
    BY <1>1, <1>2, <1>3, <1>4 DEF CallInv, S!TypeOK, S!AbortHolds, S!Answered

\* The policies, the legs and the setup of a call stay, whoever answers.
AnswersKeep(is) ==
    /\ UNCHANGED <<s1, s2, s4>>
    /\ S!Legs' = S!Legs /\ S!Shadows' = S!Shadows /\ \A j : S!Policy(j)' = S!Policy(j)
    /\ \A i \in S!Legs : s4[i] # None => i \notin is
    /\ \A i \in S!Legs \ is : s3'[i] = s3[i]

LEMMA AnswersKept ==
  ASSUME CallInv, NEW is \in SUBSET S!Legs, AnswersKeep(is), s3' \in [S!Legs -> S!States],
         s6'.pc = "ok" /\ s6'.leg # None => s3'[s6'.leg] \in S!Well
  PROVE  S!Answered'
  BY DEF CallInv, AnswersKeep, S!Answered, S!Well

LEMMA Calls ==
  ASSUME CallInv, S!Call
  PROVE  CallInv'
  <1> DEFINE is == IF s1.wrap = "emitAsync" THEN S!Legs ELSE {S!First}
  <1>1. s1.wrap \in {"selected", "fallback", "shadow"} => S!First \in S!Legs
    BY FirstIsLeg DEF CallInv, S!TypeOK, S!InTurn, S!Call
  <1>2. s1.wrap \in {"selected", "fallback", "shadow", "emitAsync"} /\ is \in SUBSET S!Legs
    BY <1>1, CallAssumption DEF CallInv, S!TypeOK, S!Call
  <1>3. /\ UNCHANGED <<s1, s2, s4>> /\ S!Begin(is) /\ s6.pc = "ready"
        /\ s6' = [pc |-> "waits", leg |-> IF s1.wrap = "emitAsync" THEN None ELSE S!First]
    BY DEF S!Call, S!Goto
  <1>4. s5 = {} /\ \A i \in S!Legs : s3[i] = "idle"
    BY <1>3 DEF CallInv, S!InTurn, S!Before
  <1>5. /\ s3' \in [S!Legs -> S!States]
        /\ \A i \in S!Legs \ is : s3'[i] = "idle"
        /\ s5' \subseteq is
        /\ S!AbortHolds' /\ AnswersKeep(is)
    BY <1>2, <1>3, <1>4, BeginLegs DEF AnswersKeep
  <1> HIDE DEF is
  <1>6. S!TypeOK'
    BY <1>1, <1>2, <1>3, <1>5 DEF CallInv, S!TypeOK, S!Before, AnswersKeep
  <1>7. S!InTurn'
    <2>1. s1.wrap = "fallback" => S!First = 1
      BY DEF S!First
    <2>2. s1.wrap = "shadow" => S!First = 1 /\ \A i \in S!Shadows : i \in S!Legs \ is
      BY DEF S!First, S!Shadows, is
    <2>3. \A i \in S!Legs : i # S!First /\ s1.wrap # "emitAsync" => s3'[i] = "idle" /\ i \notin s5'
      BY <1>5 DEF is
    <2> QED
      BY <1>1, <1>2, <1>3, <1>5, <2>1, <2>2, <2>3 DEF S!InTurn, S!Before, AnswersKeep, S!Legs
  <1>8. S!Answered'
    BY <1>2, <1>3, <1>5, AnswersKept
  <1>9. S!NothingBehind'
    BY <1>3 DEF S!NothingBehind, S!Returned
  <1> QED BY <1>5, <1>6, <1>7, <1>8, <1>9 DEF CallInv

LEMMA Returns ==
  ASSUME CallInv, S!Return
  PROVE  CallInv'
  <1>1. /\ UNCHANGED <<s1, s2, s3, s4, s5>> /\ s6.pc = "waits" /\ s1.wrap \in {"selected", "fallback"}
        /\ s6.leg \in S!Legs /\ s6'.leg = s6.leg
        /\ s6' \in [pc : {"ok", "failed"}, leg : S!Legs]
        /\ s3[s6.leg] \in IF s6'.pc = "ok" THEN S!Well ELSE S!Badly
    BY DEF CallInv, S!InTurn, S!Before, S!Return, S!Goto
  <1>2. S!Legs' = S!Legs /\ S!Shadows' = S!Shadows /\ \A j : S!Policy(j)' = S!Policy(j)
    BY <1>1 DEF S!Legs, S!Shadows, S!Policy, S!Leg
  <1>3. S!TypeOK'
    BY <1>1, <1>2 DEF CallInv, S!TypeOK, S!Before, S!States, S!InFlight, S!Well, S!Badly
  <1>4. S!InTurn'
    BY <1>1, <1>2 DEF CallInv, S!InTurn, S!Before, S!Badly
  <1>5. S!Answered'
    BY <1>1, <1>2 DEF CallInv, S!Answered
  <1>6. S!AbortHolds'
    BY <1>1, <1>2 DEF CallInv, S!AbortHolds
  <1>7. S!NothingBehind'
    <2>1. \A i \in S!Legs : i = s6.leg \/ i > s6.leg \/ i < s6.leg
      BY <1>1 DEF S!Legs
    <2>2. \A i \in S!Legs : s3[i] \notin S!InFlight
      BY <1>1, <2>1 DEF CallInv, S!InTurn, S!Before, S!InFlight, S!Well, S!Badly
    <2> QED BY <1>1, <1>2, <2>2 DEF S!NothingBehind, S!InFlight
  <1> QED BY <1>3, <1>4, <1>5, <1>6, <1>7 DEF CallInv

LEMMA FallsBack ==
  ASSUME CallInv, S!FallBack
  PROVE  CallInv'
  <1> DEFINE n == s6.leg + 1
  <1>1. /\ UNCHANGED <<s1, s2, s4>> /\ s6.pc = "waits" /\ s1.wrap = "fallback"
        /\ s6.leg \in S!Legs /\ s3[s6.leg] \in S!Badly /\ s6.leg < Len(s1.legs)
        /\ S!Begin({n}) /\ s6' = [pc |-> "waits", leg |-> n]
    BY DEF CallInv, S!InTurn, S!Before, S!FallBack, S!Goto
  <1>2. n \in S!Legs /\ n > s6.leg /\ Len(s1.legs) \in Nat
    BY <1>1, CallAssumption DEF CallInv, S!TypeOK, S!Legs
  <1>3. s3[n] = "idle"
    BY <1>1, <1>2 DEF CallInv, S!InTurn, S!Before
  <1>4. /\ s3' \in [S!Legs -> S!States]
        /\ \A i \in S!Legs \ {n} : s3'[i] = s3[i]
        /\ s5' \subseteq s5 \cup {n}
        /\ S!AbortHolds' /\ AnswersKeep({n})
    BY <1>1, <1>2, <1>3, BeginLegs DEF AnswersKeep
  <1>5. S!TypeOK'
    BY <1>1, <1>2, <1>4 DEF CallInv, S!TypeOK, S!Before, AnswersKeep
  <1>6. S!InTurn'
    <2>1. \A i \in S!Legs : i > n => i > s6.leg /\ i # n
      BY <1>1, <1>2 DEF S!Legs
    <2>2. \A i \in S!Legs : i < n => i # n /\ (i < s6.leg \/ i = s6.leg)
      BY <1>1, <1>2 DEF S!Legs
    <2> HIDE DEF n
    <2> QED BY <1>1, <1>2, <1>4, <2>1, <2>2 DEF CallInv, S!InTurn, S!Before, AnswersKeep
  <1>7. S!Answered'
    BY <1>1, <1>2, <1>4, AnswersKept
  <1>8. S!NothingBehind'
    BY <1>1 DEF S!NothingBehind, S!Returned
  <1> QED BY <1>4, <1>5, <1>6, <1>7, <1>8 DEF CallInv

\* The primary has ended: well, and the shadows begin, or badly.
LEMMA PrimaryEnds ==
  ASSUME CallInv, S!Primary
  PROVE  CallInv'
  <1>1. /\ UNCHANGED <<s1, s2, s4>> /\ s6.pc = "waits" /\ s1.wrap = "shadow" /\ s6.leg = 1
        /\ \A i \in S!Shadows : s3[i] = "idle"
    BY DEF CallInv, S!InTurn, S!Primary
  <1>2. 1 \in S!Legs /\ S!Shadows \in SUBSET S!Legs /\ \A i \in S!Legs : i = 1 \/ i \in S!Shadows
    BY <1>1, CallAssumption DEF CallInv, S!TypeOK, S!Legs, S!Shadows
  <1>3. S!Legs' = S!Legs /\ S!Shadows' = S!Shadows /\ \A j : S!Policy(j)' = S!Policy(j)
    BY <1>1 DEF S!Legs, S!Shadows, S!Policy, S!Leg
  <1>4. CASE s3[1] \in S!Badly /\ s6' = [pc |-> "failed", leg |-> 1] /\ UNCHANGED <<s3, s5>>
    <2>1. S!TypeOK'
      BY <1>1, <1>2, <1>3, <1>4 DEF CallInv, S!TypeOK, S!Before, S!States, S!InFlight, S!Well, S!Badly
    <2>2. S!InTurn' /\ S!Answered' /\ S!AbortHolds'
      BY <1>1, <1>3, <1>4 DEF CallInv, S!InTurn, S!Answered, S!AbortHolds, S!Before
    <2>3. \A i \in S!Legs : s3[i] \notin S!InFlight
      BY <1>1, <1>2, <1>4 DEF S!InFlight, S!Badly
    <2> QED BY <1>3, <1>4, <2>1, <2>2, <2>3 DEF CallInv, S!NothingBehind, S!InFlight
  <1>5. CASE /\ s3[1] \in S!Well /\ S!Begin(S!Shadows)
             /\ s6' = [pc |-> IF S!AwaitsShadows THEN "shadows" ELSE "ok", leg |-> 1]
    <2>1. /\ s3' \in [S!Legs -> S!States] /\ s3'[1] = s3[1]
          /\ s5' \subseteq S!Legs
          /\ S!AbortHolds' /\ AnswersKeep(S!Shadows)
      <3>1. 1 \in S!Legs \ S!Shadows
        BY <1>2 DEF S!Shadows
      <3> QED BY <1>1, <1>2, <1>5, <3>1, BeginLegs DEF AnswersKeep, CallInv, S!TypeOK
    <2>2. S!TypeOK'
      BY <1>1, <1>2, <1>3, <1>5, <2>1 DEF CallInv, S!TypeOK, S!Before
    <2>3. S!InTurn'
      BY <1>1, <1>3, <1>5, <2>1 DEF S!InTurn, S!Before, S!Well
    <2>4. S!Answered'
      BY <1>2, <1>5, <2>1, AnswersKept
    <2>5. S!NothingBehind'
      BY <1>1, <1>5 DEF S!NothingBehind, S!Returned, S!AwaitsShadows
    <2> QED BY <2>1, <2>2, <2>3, <2>4, <2>5 DEF CallInv
  <1> QED BY <1>4, <1>5 DEF S!Primary, S!Goto

\* The wait for the shadows ends, with the last of them or with a failure.
LEMMA ShadowsEnd ==
  ASSUME CallInv, S!Shadowed
  PROVE  CallInv'
  <1>1. /\ UNCHANGED <<s1, s2, s3, s4, s5>> /\ s6' \in [pc : {"ok", "failed"}, leg : {1}]
        /\ s1.wrap = "shadow" /\ s3[1] \in S!Well
        /\ (\A i \in S!Shadows : s3[i] \in S!Well) \/ (\E i \in S!Shadows : s3[i] \in S!Badly)
    BY DEF CallInv, S!InTurn, S!Shadowed, S!Goto
  <1>2. 1 \in S!Legs /\ \A i \in S!Legs : i = 1 \/ i \in S!Shadows
    BY <1>1, CallAssumption DEF CallInv, S!TypeOK, S!Legs, S!Shadows
  <1>3. S!Legs' = S!Legs /\ S!Shadows' = S!Shadows /\ \A j : S!Policy(j)' = S!Policy(j)
    BY <1>1 DEF S!Legs, S!Shadows, S!Policy, S!Leg
  <1>4. S!TypeOK'
    BY <1>1, <1>2, <1>3 DEF CallInv, S!TypeOK, S!Before, S!States, S!InFlight, S!Well, S!Badly
  <1>5. S!InTurn' /\ S!Answered' /\ S!AbortHolds'
    BY <1>1, <1>3 DEF CallInv, S!InTurn, S!Answered, S!AbortHolds, S!Before, S!Well
  <1>6. S!NothingBehind'
    <2>1. CASE \A i \in S!Shadows : s3[i] \in S!Well
      <3>1. \A i \in S!Legs : s3[i] \notin S!InFlight
        BY <1>1, <1>2, <2>1 DEF S!InFlight, S!Well
      <3> QED BY <1>1, <1>3, <3>1 DEF S!NothingBehind, S!InFlight
    <2>2. CASE \E i \in S!Shadows : s3[i] \in S!Badly
      BY <1>1, <1>3, <2>2 DEF S!NothingBehind, S!Badly
    <2> QED BY <1>1, <2>1, <2>2
  <1> QED BY <1>4, <1>5, <1>6 DEF CallInv

\* emitAsync() returns when every leg has ended.
LEMMA EmitReturns ==
  ASSUME CallInv, S!EmitEnds
  PROVE  CallInv'
  <1>1. /\ UNCHANGED <<s1, s2, s3, s4, s5>> /\ s6' \in [pc : {"ok", "failed"}, leg : {None}]
        /\ s1.wrap = "emitAsync" /\ \A i \in S!Legs : s3[i] \notin S!InFlight
    BY DEF S!EmitEnds, S!Settled, S!Ended, S!Goto, S!InFlight, S!Well, S!Badly
  <1>2. S!Legs' = S!Legs /\ \A j : S!Policy(j)' = S!Policy(j)
    BY <1>1 DEF S!Legs, S!Policy, S!Leg
  <1>3. S!TypeOK'
    BY <1>1, <1>2 DEF CallInv, S!TypeOK, S!Before, S!States, S!InFlight, S!Well, S!Badly
  <1>4. S!InTurn' /\ S!Answered' /\ S!AbortHolds' /\ S!NothingBehind'
    BY <1>1, <1>2 DEF CallInv, S!InTurn, S!Answered, S!AbortHolds, S!NothingBehind, S!Before, S!InFlight
  <1> QED BY <1>3, <1>4 DEF CallInv

LEMMA CallStep == CallInv /\ S!Next => CallInv'
  BY EmitsAll, Calls, Returns, FallsBack, PrimaryEnds, ShadowsEnd, EmitReturns, Aborts, Dispatches, Replies
     DEF S!Next

\* After an abort no action dispatches.
LEMMA AbortIsHeard == CallInv /\ S!Next => S!AbortStops
  <1> SUFFICES ASSUME CallInv, S!Next, s2 PROVE s5' = s5
    BY DEF S!AbortStops
  <1>1. s1 \in Setups /\ s1.signal /\ \A i \in S!Legs : s3[i] # "queued"
    BY DEF CallInv, S!TypeOK, S!AbortHolds
  <1>2. ASSUME NEW is, S!Begin(is) PROVE s5' = s5
    BY <1>1, <1>2 DEF S!Begin, S!Begun
  <1>3. CASE S!EmitAll BY <1>1, <1>3, CallAssumption DEF S!EmitAll
  <1>4. CASE S!Call BY <1>2, <1>4 DEF S!Call
  <1>5. CASE S!FallBack BY <1>2, <1>5 DEF S!FallBack
  <1>6. CASE S!Primary BY <1>2, <1>6 DEF S!Primary
  <1>7. ASSUME NEW i \in S!Legs, S!Dispatch(i) \/ S!Reply(i) PROVE s5' = s5
    BY <1>1, <1>7 DEF S!Dispatch, S!Reply
  <1> QED
    BY <1>3, <1>4, <1>5, <1>6, <1>7 DEF S!Next, S!Return, S!Shadowed, S!EmitEnds, S!Abort

LEMMA CallKept == CallInv => S!CallsSettle
  <1> SUFFICES ASSUME CallInv PROVE S!AnswersAccepted
    BY DEF CallInv, S!CallsSettle
  <1>1. ASSUME s6.pc = "ok", s6.leg # None, s4[s6.leg] # None, S!Policy(s6.leg) # None
        PROVE  s4[s6.leg] \in S!Policy(s6.leg)
    BY <1>1 DEF CallInv, S!TypeOK, S!Answered, S!Well
  <1>2. ASSUME s1.wrap = "fallback", NEW i \in s5, NEW j \in S!Legs, j < i
        PROVE  s3[j] \in S!Badly
    BY <1>2 DEF CallInv, S!TypeOK, S!InTurn, S!Legs
  <1> QED BY <1>1, <1>2 DEF S!AnswersAccepted

-----------------------------------------------------------------------------
(* Measured operations.  s1 are the options, s2 is what is broken, s3 are  *)
(* the operations and s6 the counts.                                       *)

MeasureInv == M!TypeOK /\ (\A o \in Ops : M!Pending(s3[o])) /\ M!OperationsUnchanged

\* What the caller was told of an operation that has answered.
Told(x) ==
    x.state = "answered" =>
      /\ x.answer = "telemetry" => s1.throws
      /\ x.answer # "telemetry" => x.answer = x.last /\ x.runs = (IF x.again THEN 2 ELSE 1)
      /\ x.span \in {"open", "lost"} => s1.throws
      /\ x.span \in {"ok", "error"} /\ ~x.again => (x.span = "ok") = (x.last = "value")

Measured(x) == x \in M!Measurements /\ M!Pending(x) /\ Told(x)

\* An operation that was called with a span, without one, or again after its
\* span has ended.
Calling(x) ==
    /\ x \in M!Measurements
    /\ x.runs = (IF x.again THEN 2 ELSE 1)
    /\ x.span \in IF x.again THEN {"error"} ELSE {None, "open"}

LEMMA CallEnds ==
  ASSUME NEW x, Calling(x), NEW outcome \in M!Outcomes
  PROVE  /\ Measured(M!Ended(x, outcome))
         /\ M!Ended(x, outcome).again = x.again /\ M!Ended(x, outcome).runs = x.runs
         /\ ~s1.throws /\ x.span = "open" /\ outcome = "error" => M!Ended(x, outcome).span = "error"
  <1> DEFINE y == M!Ended(x, outcome)
  <1>1. CASE x.span = "open" /\ M!Throws
    <2>1. y = [x EXCEPT !.state = "answered", !.last = outcome, !.answer = "telemetry", !.span = "lost"]
      BY <1>1 DEF M!Ended, M!Thrown
    <2>2. s1.throws BY <1>1 DEF M!Throws
    <2> HIDE DEF y
    <2>3. y \in M!Measurements
      BY <2>1 DEF Calling, M!Measurements, M!Outcomes
    <2> QED BY <2>1, <2>2, <2>3 DEF Calling, M!Measurements, Measured, Told, M!Pending, y
  <1>2. CASE ~(x.span = "open" /\ M!Throws)
    <2>1. y = [x EXCEPT !.state = "answered", !.last = outcome, !.answer = outcome,
                        !.span = IF @ = "open" THEN (IF outcome = "value" THEN "ok" ELSE "error") ELSE @]
      BY <1>2 DEF M!Ended, M!Finished
    <2> HIDE DEF y
    <2>2. y \in M!Measurements
      BY <2>1 DEF Calling, M!Measurements, M!Outcomes
    <2> QED BY <2>1, <2>2, TelemetryAssumption DEF Calling, M!Measurements, M!Outcomes, Measured, Told, M!Pending, y
  <1> QED BY <1>1, <1>2

\* A call whose runs, before it, are as many as the earlier one was.
LEMMA CalledIsMeasured ==
  ASSUME NEW x \in M!Measurements, NEW how \in {"value", "error", "promise"},
         x.runs = (IF x.again THEN 1 ELSE 0), x.span \in IF x.again THEN {"error"} ELSE {None, "open"}
  PROVE  /\ Measured(M!Called(x, how)) /\ M!Called(x, how).again = x.again
         /\ M!Called(x, how).runs = x.runs + 1
         /\ ~s1.throws /\ x.span = "open" /\ how = "error" => M!Called(x, how).span = "error"
  <1> DEFINE y == [x EXCEPT !.runs = @ + 1]
  <1>1. Calling(y) /\ y.again = x.again /\ y.runs = x.runs + 1 /\ y.span = x.span
    BY DEF Calling, M!Measurements
  <1>2. CASE how = "promise"
    <2>1. M!Called(x, how) = [y EXCEPT !.state = "waits"]
      BY <1>2 DEF M!Called
    <2> HIDE DEF y
    <2> QED BY <1>1, <1>2, <2>1 DEF Calling, Measured, M!Measurements, M!Pending, Told
  <1>3. CASE how # "promise"
    <2>1. M!Called(x, how) = M!Ended(y, how) /\ how \in M!Outcomes
      BY <1>3 DEF M!Called, M!Outcomes
    <2> HIDE DEF y
    <2> QED BY <1>1, <2>1, CallEnds
  <1> QED BY <1>2, <1>3

LEMMA Measures ==
  ASSUME MeasureInv, NEW o \in Ops, M!Measure(o)
  PROVE  Measured(s3'[o]) /\ s3' = [s3 EXCEPT ![o] = s3'[o]] /\ UNCHANGED <<s1, s2, s4, s5, s6>>
  <1> DEFINE x == s3[o]
             spanned == [x EXCEPT !.span = "open"]
  <1>1. /\ x \in M!Measurements /\ x.state = "idle" /\ x.runs = 0 /\ ~x.again /\ x.span = None
        /\ UNCHANGED <<s1, s2, s4, s5, s6>>
    BY DEF MeasureInv, M!TypeOK, M!Pending, M!Measure
  <1>2. PICK how, next \in {"value", "error", "promise"} :
          s3' = [s3 EXCEPT ![o] =
                   IF ~s1.enabled THEN M!Called(x, how)
                   ELSE IF "tracer" \in s2
                     THEN IF s1.throws THEN [x EXCEPT !.state = "answered", !.answer = "telemetry"]
                          ELSE M!Called(x, how)
                   ELSE IF how = "error" /\ ~s1.throws
                     THEN M!Called([M!Called(spanned, how) EXCEPT !.again = TRUE], next)
                   ELSE M!Called(spanned, how)]
    BY DEF M!Measure
  <1>3. Measured(M!Called(x, how))
    BY <1>1, CalledIsMeasured
  <1>4. spanned \in M!Measurements /\ spanned.runs = 0 /\ ~spanned.again /\ spanned.span = "open"
    BY <1>1 DEF M!Measurements
  <1> HIDE DEF spanned
  <1>5. Measured(M!Called(spanned, how)) /\ M!Called(spanned, how).runs = 1 /\ ~M!Called(spanned, how).again
    BY <1>4, CalledIsMeasured
  <1>6. ASSUME how = "error", ~s1.throws
        PROVE  Measured(M!Called([M!Called(spanned, how) EXCEPT !.again = TRUE], next))
    <2> DEFINE y == [M!Called(spanned, how) EXCEPT !.again = TRUE]
    <2>1. M!Called(spanned, how).span = "error"
      BY <1>4, <1>6, CalledIsMeasured
    <2>2. y \in M!Measurements /\ y.again /\ y.runs = 1 /\ y.span = "error"
      BY <1>5, <2>1 DEF Measured, M!Measurements
    <2> HIDE DEF y
    <2>3. Measured(M!Called(y, next)) BY <2>2, CalledIsMeasured
    <2> QED BY <2>3 DEF y
  <1>7. ASSUME s1.throws
        PROVE  Measured([x EXCEPT !.state = "answered", !.answer = "telemetry"])
    BY <1>1, <1>7, TelemetryAssumption DEF M!Measurements, Measured, M!Pending, Told
  <1>8. DOMAIN s3 = Ops
    BY DEF MeasureInv, M!TypeOK
  <1> HIDE DEF x
  <1> QED BY <1>1, <1>2, <1>3, <1>5, <1>6, <1>7, <1>8

LEMMA Settles ==
  ASSUME MeasureInv, NEW o \in Ops, M!Settle(o)
  PROVE  Measured(s3'[o]) /\ s3' = [s3 EXCEPT ![o] = s3'[o]] /\ UNCHANGED <<s1, s2, s4, s5, s6>>
  <1>1. Calling(s3[o]) /\ UNCHANGED <<s1, s2, s4, s5, s6>> /\ DOMAIN s3 = Ops
    BY DEF MeasureInv, M!TypeOK, M!Pending, M!Settle, Calling
  <1>2. PICK outcome \in M!Outcomes : s3' = [s3 EXCEPT ![o] = M!Ended(s3[o], outcome)]
    BY DEF M!Settle, M!Outcomes
  <1>3. Measured(M!Ended(s3[o], outcome))
    BY <1>1, CallEnds
  <1> QED BY <1>1, <1>2, <1>3

LEMMA MeasureStarts == M!Init => MeasureInv
  <1> SUFFICES ASSUME M!Init PROVE MeasureInv OBVIOUS
  <1>1. M!NewOp \in M!Measurements /\ M!Pending(M!NewOp) /\ M!NewOp.state = "idle"
    BY DEF M!NewOp, M!Measurements, M!Pending, M!Outcomes
  <1> QED BY <1>1 DEF MeasureInv, M!Init, M!TypeOK, M!OperationsUnchanged

LEMMA MeasureStep == MeasureInv /\ M!Next => MeasureInv'
  <1> SUFFICES ASSUME MeasureInv, M!Next PROVE MeasureInv' OBVIOUS
  <1>1. \A o \in Ops : Measured(s3[o])
    BY DEF MeasureInv, M!TypeOK, M!OperationsUnchanged, Measured, Told
  <1>2. ASSUME NEW o \in Ops, M!Measure(o) \/ M!Settle(o) PROVE MeasureInv'
    <2>1. Measured(s3'[o]) /\ s3' = [s3 EXCEPT ![o] = s3'[o]] /\ UNCHANGED <<s1, s2, s4, s5, s6>>
      BY <1>2, Measures, Settles
    <2>2. \A u \in Ops : Measured(s3'[u])
      BY <1>1, <2>1 DEF MeasureInv, M!TypeOK
    <2>3. s3' \in [Ops -> M!Measurements]
      BY <2>1, <2>2 DEF MeasureInv, M!TypeOK, Measured
    <2> QED BY <2>1, <2>2, <2>3 DEF MeasureInv, M!TypeOK, M!OperationsUnchanged, Measured, Told, M!Pending
  <1>3. CASE M!Emit
    <2>1. UNCHANGED <<s1, s2, s3, s4, s5>> /\ s6' \in [emitted : Nat, events : Nat, errors : Nat, refused : Nat]
      BY <1>3 DEF M!Emit, MeasureInv, M!TypeOK
    <2>2. ~s1.throws => s6'.refused = 0
      BY <1>3 DEF M!Emit, M!Throws, MeasureInv, M!TypeOK, M!OperationsUnchanged
    <2> QED BY <2>1, <2>2 DEF MeasureInv, M!TypeOK, M!OperationsUnchanged, M!Pending
  <1>4. CASE M!Listen \/ M!Destroy \/ M!ShutDown \/ M!Backend
    <2>1. /\ UNCHANGED <<s1, s3, s6>> /\ s2' \in SUBSET {"tracer", "meter"} /\ s5' \in BOOLEAN
          /\ s4' \in {None, "started", "stopping", "stopped", "failed"}
      BY <1>4 DEF M!Listen, M!Destroy, M!ShutDown, M!Backend, MeasureInv, M!TypeOK
    <2> QED BY <2>1 DEF MeasureInv, M!TypeOK, M!OperationsUnchanged, M!Pending
  <1> QED BY <1>2, <1>3, <1>4 DEF M!Next

-----------------------------------------------------------------------------
(* Errors.  s1 are the errors, s2 the options object, s3 tells whether the *)
(* secret was exposed, and s4 is the last event.                           *)

ErrorInv == F!TypeOK /\ F!ErrorsGuarded /\ F!MasksHold /\ F!ForwardsAsGiven /\ F!MakesAsNamed

ErrorOptions == [response : {None, "public"}, data : F!Data, mask : BOOLEAN, class : {None} \cup Slots \cup F!Classes]

\* No class of errors is an error, or None.
LEMMA ClassesApart == \A c \in F!Classes : c \in Nat /\ c \notin Slots
  BY ErrorAssumption DEF F!Classes, F!RequestClasses, F!ServerClasses

LEMMA NoneApart == None \notin {"raw", "text", "masked"} /\ None \notin F!Errors /\ None \notin Slots
  BY ErrorAssumption

\* What is made of a class, or of an error that is normalised.
LEMMA MadeIsError ==
  ASSUME NEW c \in Nat \cup {None}, NEW text \in {None, "public", "name", "stringified"},
         NEW data \in F!Data, NEW shared \in BOOLEAN
  PROVE  LET e == F!Made(c, text, data, shared)
         IN  /\ e \in F!Errors /\ e.kind = "default" /\ e.status = c /\ e.message # "private"
             /\ e.data = data /\ e.shared = shared
  <1>1. F!Text(text) \in {"public", "name", "stringified"}
    BY DEF F!Text
  <1> QED BY <1>1 DEF F!Made, F!Errors

\* What becomes of an error and of the options when they are executed.
LEMMA Executes ==
  ASSUME ErrorInv, NEW i \in Slots, NEW e \in F!Errors, NEW level, NEW ask,
         ask.class \in Slots \cup F!Classes, ask.class \in Slots => ask.class = i \/ s1[ask.class] # None,
         F!Execute(i, e, level, ask), s5' \in Nat,
         e.message = "private" => e.kind = "plain",
         e.shared => s2.data \in {"raw", "masked"},
         ~e.shared /\ e.data \in {"raw", "text"} => s3 \/ s2.data = "text"
  PROVE  /\ F!TypeOK' /\ F!ErrorsGuarded' /\ F!MasksHold'
         /\ s4' # None => /\ s4'.given = ask.given /\ s4'.was = ask.was /\ s4'.first = ask.first
                          /\ s4'.result = i /\ s4'.level = level /\ s4'.status = e.status
                          /\ s4'.response = s2.response
                          /\ s4'.message = IF s2.response = None THEN e.message ELSE s2.response
  <1> DEFINE after == F!MergedInfo(e, s2)
  <1>1. s2 \in ErrorOptions /\ s3 \in BOOLEAN /\ s1 \in [Slots -> F!Errors \cup {None}]
    BY DEF ErrorInv, F!TypeOK, ErrorOptions
  <1>2. F!Received(s2) \in F!Data /\ F!DataOf(e) \in F!Data /\ F!Merged(F!DataOf(e), F!Received(s2)) \in F!Data
    BY <1>1 DEF ErrorOptions, F!Errors, F!Data, F!Received, F!DataOf, F!Merged
  <1>3. /\ after \in F!Errors /\ after.kind = e.kind /\ after.status = e.status
        /\ after.data = F!Merged(F!DataOf(e), F!Received(s2))
        /\ after.shared = (e.shared /\ s2.data # None)
        /\ after.message = IF s2.response = None THEN e.message ELSE s2.response
    BY <1>1, <1>2 DEF F!MergedInfo, F!Errors, ErrorOptions
  <1>4. /\ s1' = [s1 EXCEPT ![i] = after]
        /\ s2' = [s2 EXCEPT !.data = IF e.shared THEN after.data ELSE @, !.class = ask.class]
        /\ s3' = (s3 \/ s2.data = "text" \/ (s2.data = "raw" /\ ~s2.mask))
        /\ s4' = [given |-> ask.given, was |-> ask.was, first |-> ask.first, result |-> i,
                  status |-> after.status, message |-> after.message, level |-> level,
                  data |-> after.data, response |-> s2.response]
    BY DEF F!Execute
  <1>5. after.data \in {"raw", "text"} => s3'
    <2> SUFFICES ASSUME after.data \in {"raw", "text"}, s2.data # "text", ~(s2.data = "raw" /\ ~s2.mask)
                 PROVE  s3
      BY <1>4
    <2>1. F!Received(s2) \in {None, "masked"} /\ (F!Received(s2) = None => s2.data = None)
      BY <1>1, ErrorAssumption DEF F!Received, ErrorOptions, F!Data
    <2>2. F!Received(s2) = None \/ F!DataOf(e) = "text"
      BY <1>3, <2>1 DEF F!Merged
    <2>3. after.data = F!DataOf(e)
      BY <1>3, <2>2 DEF F!Merged
    <2>4. ~e.shared
      BY <2>1, <2>2, ErrorAssumption DEF F!DataOf
    <2> QED BY <2>3, <2>4 DEF F!DataOf
  <1>6. e.shared => after.data \in {"raw", "masked"}
    BY <1>1, <1>3, ErrorAssumption DEF F!Merged, F!DataOf, F!Received, F!Errors, F!Data, ErrorOptions
  <1> HIDE DEF after
  <1>7. s2' \in ErrorOptions /\ s2'.data = (IF e.shared THEN after.data ELSE s2.data) /\ s2'.class = ask.class
    BY <1>1, <1>3, <1>4 DEF ErrorOptions, F!Errors
  <1>8. F!TypeOK'
    BY <1>1, <1>3, <1>4, <1>7, ErrorAssumption DEF F!TypeOK, ErrorOptions
  <1>9. F!ErrorsGuarded'
    <2> SUFFICES ASSUME NEW j \in Slots, s1'[j] # None
                 PROVE  /\ s1'[j].message = "private" => s1'[j].kind = "plain"
                        /\ s1'[j].data \in {"raw", "text"} => s3'
                        /\ s1'[j].shared => s2'.data \in {"raw", "masked"} /\ (s2'.data = "raw" => s3')
      BY DEF F!ErrorsGuarded, F!Guarded
    <2>1. CASE j = i
      <3>1. s1'[j] = after BY <2>1, <1>1, <1>4
      <3> QED BY <3>1, <1>1, <1>3, <1>5, <1>6, <1>7 DEF F!Errors, ErrorOptions
    <2>2. CASE j # i
      <3>1. s1'[j] = s1[j] BY <2>2, <1>1, <1>4
      <3>2. s3 => s3' BY <1>4
      <3>3. CASE e.shared
        BY <3>1, <3>2, <3>3, <1>5, <1>6, <1>7 DEF ErrorInv, F!ErrorsGuarded, F!Guarded
      <3>4. CASE ~e.shared
        BY <3>1, <3>2, <3>4, <1>7 DEF ErrorInv, F!ErrorsGuarded, F!Guarded
      <3> QED BY <3>3, <3>4
    <2> QED BY <2>1, <2>2
  <1>10. F!MasksHold'
    BY <1>4, <1>5 DEF F!MasksHold
  <1> QED BY <1>3, <1>4, <1>8, <1>9, <1>10

\* An error that a class makes, and an error that there is, may be executed.
Executable(e) ==
    /\ e \in F!Errors
    /\ e.message = "private" => e.kind = "plain"
    /\ e.shared => s2.data \in {"raw", "masked"}
    /\ ~e.shared /\ e.data \in {"raw", "text"} => s3 \/ s2.data = "text"

LEMMA MadeIsExecutable ==
  ASSUME ErrorInv, NEW c \in F!Classes
  PROVE  LET e == F!Made(c, s2.response, s2.data, s2.data \in {"raw", "masked"})
         IN  Executable(e) /\ e.status = c
  <1> DEFINE shared == s2.data \in {"raw", "masked"}
             e == F!Made(c, s2.response, s2.data, shared)
  <1>1. c \in Nat \cup {None} /\ s2.data \in F!Data /\ shared \in BOOLEAN
        /\ s2.response \in {None, "public", "name", "stringified"}
    BY ClassesApart DEF ErrorInv, F!TypeOK
  <1>2. s2.data \in {"raw", "text"} /\ ~shared => s2.data = "text"
    OBVIOUS
  <1>3. shared => s2.data \in {"raw", "masked"}
    OBVIOUS
  <1> HIDE DEF shared
  <1>4. /\ e \in F!Errors /\ e.status = c /\ e.message # "private"
        /\ e.data = s2.data /\ e.shared = shared
    BY <1>1, MadeIsError
  <1> HIDE DEF e
  <1>5. Executable(e)
    BY <1>2, <1>3, <1>4 DEF Executable
  <1> QED BY <1>4, <1>5 DEF e, shared

LEMMA ExecutableIsGuarded ==
  ASSUME NEW e \in F!Errors, F!Guarded(e)
  PROVE  Executable(e)
  BY DEF Executable, F!Guarded

LEMMA ErrorIsExecutable ==
  ASSUME ErrorInv, NEW i \in Slots, s1[i] # None
  PROVE  /\ Executable(s1[i]) /\ Executable(F!Normal(s1[i]))
         /\ s1[i].kind # "plain" => F!Normal(s1[i]).status = s1[i].status
         /\ s1[i].kind = "default" => F!Normal(s1[i]).message = s1[i].message
         /\ F!Guarded(s1[i]) /\ F!Guarded(F!Normal(s1[i]))
  <1> DEFINE e == s1[i]
  <1>1. e \in F!Errors /\ F!Guarded(e)
    BY DEF ErrorInv, F!TypeOK, F!ErrorsGuarded
  <1>2. CASE e.kind = "default"
    BY <1>1, <1>2 DEF F!Normal, Executable, F!Guarded
  <1>3. CASE e.kind = "http"
    <2>1. F!Normal(e) = F!Made(e.status, IF e.message = "object" THEN "stringified" ELSE e.message, None, FALSE)
      BY <1>3 DEF F!Normal
    <2>2. /\ e.status \in Nat \cup {None} /\ None \in F!Data
          /\ (IF e.message = "object" THEN "stringified" ELSE e.message)
               \in {None, "public", "name", "stringified"}
      BY <1>1, <1>3 DEF F!Errors, F!Guarded, F!Data
    <2> DEFINE n == F!Normal(e)
    <2>3. /\ n \in F!Errors /\ n.status = e.status /\ n.message # "private"
          /\ n.data = None /\ ~n.shared
      BY <2>1, <2>2 DEF F!Made, F!Text, F!Errors
    <2> HIDE DEF n
    <2>4. F!Guarded(n)
      BY <2>3, NoneApart DEF F!Guarded
    <2> QED BY <1>1, <1>3, <2>3, <2>4, ExecutableIsGuarded DEF n
  <1>4. CASE e.kind = "plain"
    <2>1. F!Normal(e) = F!Made(500, None, None, FALSE)
      BY <1>4 DEF F!Normal
    <2>2. 500 \in Nat \cup {None} /\ None \in F!Data /\ FALSE \in BOOLEAN
      BY DEF F!Data
    <2> DEFINE n == F!Normal(e)
    <2>3. n \in F!Errors /\ n.message # "private" /\ n.data = None /\ ~n.shared
      BY <2>1, <2>2 DEF F!Made, F!Text, F!Errors
    <2> HIDE DEF n
    <2>4. F!Guarded(n)
      BY <2>3, NoneApart DEF F!Guarded
    <2> QED BY <1>1, <1>4, <2>3, <2>4, ExecutableIsGuarded DEF n
  <1> QED BY <1>1, <1>2, <1>3, <1>4 DEF F!Errors

LEMMA Makes ==
  ASSUME ErrorInv, NEW i \in Slots, NEW status \in F!Classes, NEW level, F!Make(i, status, level, status)
  PROVE  ErrorInv'
  <1> DEFINE class == F!Class(status)
             ask   == F!Ask(class, None, status)
  <1>1. s5' \in Nat
    BY DEF F!Make, F!Step, ErrorInv, F!TypeOK
  <1>2. /\ class \in Slots \cup F!Classes
        /\ s2.class = None => class = status
        /\ class \in Slots => s2.class # None /\ s1[class] # None
        /\ ask.class = class /\ ask.given = None /\ ask.was = status /\ ask.first = (s2.class = None)
    BY ClassesApart DEF F!Class, F!Ask, ErrorInv, F!TypeOK
  <1> HIDE DEF class, ask
  <1>3. CASE class \in Slots
    <2>1. F!Execute(class, s1[class], level, ask)
      BY <1>3 DEF F!Make, F!IsError, class, ask
    <2>2. Executable(s1[class])
      BY <1>2, <1>3, ErrorIsExecutable
    <2> QED BY <1>1, <1>2, <1>3, <2>1, <2>2, Executes
            DEF Executable, ErrorInv, F!ForwardsAsGiven, F!MakesAsNamed
  <1>4. CASE class \notin Slots
    <2> DEFINE e == F!Made(class, s2.response, s2.data, s2.data \in {"raw", "masked"})
    <2>1. F!Execute(i, e, level, ask)
      BY <1>4 DEF F!Make, F!IsError, class, ask
    <2>2. Executable(e) /\ e.status = class
      BY <1>2, <1>4, MadeIsExecutable
    <2> HIDE DEF e
    <2>3. /\ F!TypeOK' /\ F!ErrorsGuarded' /\ F!MasksHold'
          /\ s4' # None => s4'.given = None /\ s4'.was = status /\ s4'.first = (s2.class = None)
                           /\ s4'.status = class
      BY <1>1, <1>2, <1>4, <2>1, <2>2, Executes DEF Executable
    <2> QED BY <1>2, <2>3 DEF ErrorInv, F!ForwardsAsGiven, F!MakesAsNamed
  <1> QED BY <1>3, <1>4

LEMMA Forwards ==
  ASSUME ErrorInv, NEW i \in Slots, F!ErrorForward(i)
  PROVE  ErrorInv'
  <1> DEFINE e      == F!Normal(s1[i])
             level  == F!Level(e.status)
             class  == s2.class
             ask(c) == F!Ask(c, i, s1[i])
  <1>1. s5' \in Nat /\ s1[i] # None
    BY DEF F!ErrorForward, F!Step, F!Free, ErrorInv, F!TypeOK
  <1>2. /\ class \in {None} \cup Slots \cup F!Classes
        /\ class \in Slots => s1[class] # None
        /\ \A c : ask(c).class = c /\ ask(c).given = i /\ ask(c).was = s1[i] /\ ask(c).first = (class = None)
    BY DEF F!Ask, ErrorInv, F!TypeOK
  <1>3. i # None /\ None \notin Slots
    BY ErrorAssumption
  <1>4. Executable(e) /\ (s1[i].kind # "plain" => e.status = s1[i].status)
        /\ (s1[i].kind = "default" => e.message = s1[i].message)
    BY <1>1, ErrorIsExecutable
  <1>5. CASE class = None
    <2>1. PICK j \in F!Places(i) : F!Execute(j, e, level, ask(j))
      BY <1>5 DEF F!ErrorForward, F!Forwards
    <2>2. j \in Slots /\ (j = i <=> s1[i].kind = "default")
      BY <1>1, <2>1 DEF F!Places, F!Free
    <2> DEFINE asked == ask(j)
    <2>3. /\ asked.class = j /\ asked.given = i /\ asked.was = s1[i] /\ asked.first = (class = None)
          /\ F!Execute(j, e, level, asked)
      BY <1>2, <2>1
    <2> HIDE DEF class, ask, e, asked
    <2>4. /\ F!TypeOK' /\ F!ErrorsGuarded' /\ F!MasksHold'
          /\ s4' # None => /\ s4'.given = i /\ s4'.was = s1[i]
                           /\ s4'.result = j /\ s4'.level = level /\ s4'.status = e.status
                           /\ s4'.response = s2.response
                           /\ s4'.message = IF s2.response = None THEN e.message ELSE s2.response
      BY <1>1, <1>4, <2>2, <2>3, Executes DEF Executable
    <2> QED BY <1>3, <1>4, <2>2, <2>4 DEF ErrorInv, F!ForwardsAsGiven, F!MakesAsNamed
  <1>6. CASE class \in Slots
    <2> DEFINE asked == ask(class)
    <2>1. F!Execute(class, s1[class], level, asked)
      BY <1>3, <1>6 DEF F!ErrorForward, F!Forwards, F!IsError
    <2>2. Executable(s1[class])
      BY <1>2, <1>6, ErrorIsExecutable
    <2>3. asked.class = class /\ asked.given = i /\ ~asked.first
      BY <1>2, <1>3, <1>6
    <2> HIDE DEF class, ask, e, asked
    <2> QED BY <1>1, <1>3, <1>6, <2>1, <2>2, <2>3, Executes
            DEF Executable, ErrorInv, F!ForwardsAsGiven, F!MakesAsNamed
  <1>7. CASE class \in F!Classes /\ class # None
    <2> DEFINE made  == F!Made(class, s2.response, s2.data, s2.data \in {"raw", "masked"})
               asked == ask(class)
    <2>1. class \notin Slots
      BY <1>7, ClassesApart
    <2>2. PICK j \in Slots : F!Execute(j, made, level, asked)
      BY <1>7, <2>1 DEF F!ErrorForward, F!Forwards, F!IsError
    <2>3. Executable(made)
      BY <1>7, MadeIsExecutable
    <2>4. asked.class = class /\ asked.given = i /\ ~asked.first
      BY <1>2, <1>7
    <2> HIDE DEF class, ask, e, made, asked
    <2> QED BY <1>1, <1>3, <1>7, <2>1, <2>2, <2>3, <2>4, Executes
            DEF Executable, ErrorInv, F!ForwardsAsGiven, F!MakesAsNamed
  <1> QED BY <1>2, <1>5, <1>6, <1>7

\* An error is thrown or normalised, or the caller writes its options anew.
LEMMA Throws ==
  ASSUME ErrorInv, NEW i \in Slots, NEW e \in ThrownErrors, F!Throw(i, e)
  PROVE  ErrorInv'
  <1>1. /\ s1' = [s1 EXCEPT ![i] = e] /\ s3' = (s3 \/ e.data = "raw") /\ UNCHANGED <<s2, s4>>
        /\ s5' \in Nat /\ s1 \in [Slots -> F!Errors \cup {None}]
    BY DEF F!Throw, F!Step, ErrorInv, F!TypeOK
  <1>2. e \in F!Errors /\ ~e.shared /\ (e.message = "private" => e.kind = "plain") /\ e.data # "text"
    <2>1. /\ e \in [kind : {"plain", "http", "default"}, status : Nat \cup {None}, shared : {FALSE},
                    message : {"private", "public", "name", "object"}, data : {None, "raw", "masked"}]
          /\ e.message = "private" => e.kind = "plain"
      BY ErrorAssumption
    <2> QED BY <2>1, NoneApart DEF F!Errors, F!Data
  <1>3. F!TypeOK'
    BY <1>1, <1>2, ErrorAssumption DEF ErrorInv, F!TypeOK
  <1>4. F!ErrorsGuarded'
    BY <1>1, <1>2 DEF ErrorInv, F!ErrorsGuarded, F!Guarded
  <1>5. F!MasksHold' /\ F!ForwardsAsGiven' /\ F!MakesAsNamed'
    BY <1>1 DEF ErrorInv, F!MasksHold, F!ForwardsAsGiven, F!MakesAsNamed, F!Level
  <1> QED BY <1>3, <1>4, <1>5 DEF ErrorInv

LEMMA TriesAndCatches ==
  ASSUME ErrorInv, NEW i \in Slots, F!TryCatch(i)
  PROVE  ErrorInv'
  <1>0. PICK j \in Slots : s1' = [s1 EXCEPT ![j] = F!Normal(s1[i])]
    BY DEF F!TryCatch, F!Places
  <1>1. /\ UNCHANGED <<s2, s3, s4>> /\ s1[i] # None
        /\ s5' \in Nat /\ s1 \in [Slots -> F!Errors \cup {None}]
    BY DEF F!TryCatch, F!Step, F!Free, ErrorInv, F!TypeOK
  <1>2. F!Normal(s1[i]) \in F!Errors /\ F!Guarded(F!Normal(s1[i]))
    BY <1>1, ErrorIsExecutable DEF Executable
  <1>3. F!TypeOK'
    BY <1>0, <1>1, <1>2, ErrorAssumption DEF ErrorInv, F!TypeOK
  <1>4. F!ErrorsGuarded'
    BY <1>0, <1>1, <1>2 DEF ErrorInv, F!ErrorsGuarded, F!Guarded
  <1>5. F!MasksHold' /\ F!ForwardsAsGiven' /\ F!MakesAsNamed'
    BY <1>1 DEF ErrorInv, F!MasksHold, F!ForwardsAsGiven, F!MakesAsNamed, F!Level
  <1> QED BY <1>3, <1>4, <1>5 DEF ErrorInv

LEMMA Writes ==
  ASSUME ErrorInv, NEW o \in OptionSets, F!Write(o)
  PROVE  ErrorInv'
  <1>1. /\ s2' = o /\ s1' = [i \in Slots |-> F!Unshared(s1[i])] /\ UNCHANGED <<s3, s4>>
        /\ s5' \in Nat /\ s1 \in [Slots -> F!Errors \cup {None}] /\ s2.data \in F!Data
    BY DEF F!Write, F!Step, ErrorInv, F!TypeOK
  <1>2. o.class = None /\ o.response \in {None, "public"} /\ o.data \in F!Data /\ o.mask \in BOOLEAN
        /\ o = [response |-> o.response, data |-> o.data, mask |-> o.mask, class |-> o.class]
    BY ErrorAssumption DEF F!Data
  <1>3. ASSUME NEW i \in Slots, s1[i] # None
        PROVE  LET e == F!Unshared(s1[i])
               IN  /\ e \in F!Errors /\ ~e.shared /\ (e.message = "private" => e.kind = "plain")
                   /\ e.data \in {"raw", "text"} => s3
    <2> DEFINE e == s1[i]
    <2>1. e \in F!Errors /\ F!Guarded(e)
      BY <1>1, <1>3 DEF ErrorInv, F!ErrorsGuarded
    <2>2. CASE ~e.shared BY <2>1, <2>2 DEF F!Unshared, F!Guarded
    <2>3. CASE e.shared
      <3>1. F!Unshared(e) = [e EXCEPT !.data = s2.data, !.shared = FALSE]
        BY <1>3, <2>3 DEF F!Unshared
      <3> HIDE DEF e
      <3> DEFINE u == [e EXCEPT !.data = s2.data, !.shared = FALSE]
      <3>2. u \in F!Errors /\ ~u.shared /\ u.message = e.message /\ u.kind = e.kind /\ u.data = s2.data
        BY <1>1, <2>1 DEF F!Errors
      <3> HIDE DEF u
      <3>3. u.data \in {"raw", "text"} => s3
        BY <2>1, <2>3, <3>2 DEF F!Guarded
      <3>4. F!Unshared(e) = u
        BY <3>1 DEF u
      <3> QED BY <2>1, <3>2, <3>3, <3>4 DEF F!Guarded, e
    <2> QED BY <2>2, <2>3
  <1>4. \A i \in Slots : s1[i] = None => F!Unshared(s1[i]) = None
    BY DEF F!Unshared
  <1>5. F!TypeOK'
    BY <1>1, <1>2, <1>3, <1>4, ErrorAssumption DEF ErrorInv, F!TypeOK
  <1>6. F!ErrorsGuarded'
    BY <1>1, <1>3, <1>4 DEF ErrorInv, F!ErrorsGuarded, F!Guarded
  <1>7. F!MasksHold' /\ F!ForwardsAsGiven' /\ F!MakesAsNamed'
    BY <1>1 DEF ErrorInv, F!MasksHold, F!ForwardsAsGiven, F!MakesAsNamed, F!Level
  <1> QED BY <1>5, <1>6, <1>7 DEF ErrorInv

LEMMA ErrorStarts == F!Init => ErrorInv
  <1> SUFFICES ASSUME F!Init PROVE ErrorInv OBVIOUS
  <1>1. F!TypeOK
    <2>1. /\ s2 \in [response : {None, "public"}, data : {None, "raw", "text"}, mask : BOOLEAN, class : {None}]
          /\ s1 = [i \in Slots |-> None] /\ s3 = FALSE /\ s5 = 0
      BY ErrorAssumption DEF F!Init
    <2> QED BY <2>1, NoneApart DEF F!TypeOK, F!Data
  <1> QED BY <1>1 DEF F!Init, ErrorInv, F!ErrorsGuarded, F!MasksHold, F!ForwardsAsGiven, F!MakesAsNamed

LEMMA ErrorStep == ErrorInv /\ F!Next => ErrorInv'
  <1>1. \A c : F!Selected(c) \in F!Classes
    BY DEF F!Selected, F!Mapped, F!Classes, F!ServerClasses
  <1> QED
    BY <1>1, Makes, Forwards, Throws, TriesAndCatches, Writes
       DEF F!Next, F!ErrorMethod, F!ErrorHttp, F!Classes

LEMMA ErrorsKept == ErrorInv => F!ErrorsAnswer
  BY DEF ErrorInv, F!TypeOK, F!ErrorsGuarded, F!Guarded, F!ErrorsAnswer, F!ClientSafe, F!Defaults

-----------------------------------------------------------------------------
(* The life of applications.  s1 are the applications, s2 tells which are  *)
(* closed, s3 is the registry, s4 the emissions, s5 those with await, s6   *)
(* the tracked promises, s7 the buffer and s8 the closes in progress.      *)

AppInv == A!TypeOK /\ A!TrackerHoldsAwaited /\ A!ClosesWhatIsOwed

LEMMA AppStarts == A!Init => AppInv
  <1> SUFFICES ASSUME A!Init PROVE AppInv OBVIOUS
  <1>1. A!Open \in A!Closings /\ A!Open.pc = "no"
    BY DEF A!Open, A!Closings
  <1>2. A!TypeOK
    BY <1>1 DEF A!Init, A!TypeOK, A!Stages
  <1> QED BY <1>1, <1>2 DEF A!Init, AppInv, A!TrackerHoldsAwaited, A!ClosesWhatIsOwed, A!Owed

\* An application boots, which no application does that is being closed.
LEMMA AppBoots ==
  ASSUME AppInv, NEW a \in Apps,
         A!Construct(a) \/ A!CreateApp(a) \/ A!ApplyGlobals(a) \/ A!InitApp(a) \/ A!InitEnds(a)
  PROVE  /\ AppInv' /\ s8' = s8
         /\ \A b \in Apps : s8[b].pc # "no" => s1'[b] = s1[b]
  <1>1. /\ UNCHANGED <<s4, s5, s6, s7, s8>>
        /\ s1[a] # "ready" \/ s8[a].pc = "no"
        /\ \E to \in A!Stages : s1' = [s1 EXCEPT ![a] = to]
        /\ s2' \in [Apps -> BOOLEAN] /\ s3' \in SUBSET Apps
    BY DEF A!Construct, A!CreateApp, A!ApplyGlobals, A!InitApp, A!InitEnds, A!Events0, A!AddApp,
           A!CloseCleanup, A!Stages, AppInv, A!TypeOK
  <1>2. \A b \in Apps : s8[b].pc # "no" => s1'[b] = s1[b]
    BY <1>1 DEF AppInv, A!TypeOK, A!ClosesWhatIsOwed
  <1>3. A!TypeOK'
    BY <1>1 DEF AppInv, A!TypeOK
  <1>4. A!TrackerHoldsAwaited' /\ A!ClosesWhatIsOwed'
    BY <1>1, <1>2 DEF AppInv, A!TrackerHoldsAwaited, A!Owed, A!ClosesWhatIsOwed
  <1> QED BY <1>1, <1>2, <1>3, <1>4 DEF AppInv

\* An event is emitted once: what ended well stays so.
LEMMA AppEmits ==
  ASSUME AppInv, NEW e \in AppEvents, NEW x \in A!Emissions, A!Emit(e, x)
  PROVE  AppInv' /\ UNCHANGED <<s1, s8>>
  <1>1. x.waits \in SUBSET Names
    BY DEF A!Emissions
  <1>2. PICK ends \in [Names -> {"ok", "failed"}] :
          s4' = [s4 EXCEPT ![e] = [n \in Names |-> IF n \in x.waits THEN "running" ELSE ends[n]]]
    BY DEF A!Emit
  <1>3. /\ UNCHANGED <<s1, s2, s3, s8>> /\ s5' = [s5 EXCEPT ![e] = x.waits]
        /\ s6' = s6 \cup A!Add(e, x.waits) /\ s7' = s7 \cup {<<e, "log">>}
    BY DEF A!Emit
  <1>4. A!TypeOK'
    BY <1>1, <1>2, <1>3 DEF AppInv, A!TypeOK, A!Add, A!Promises
  <1>5. A!TrackerHoldsAwaited'
    BY <1>1, <1>2, <1>3 DEF AppInv, A!TypeOK, A!TrackerHoldsAwaited, A!Owed, A!Add
  <1>6. ASSUME NEW y \in AppEvents \X Names, s4[y[1]][y[2]] = "ok" PROVE s4'[y[1]][y[2]] = "ok"
    <2>1. \A n \in Names : s4[e][n] = "none"
      BY DEF A!Emit, A!Emitted
    <2> QED BY <1>2, <1>6, <2>1 DEF AppInv, A!TypeOK
  <1>7. A!ClosesWhatIsOwed'
    BY <1>3, <1>6 DEF AppInv, A!TypeOK, A!Closings, A!ClosesWhatIsOwed
  <1> QED BY <1>3, <1>4, <1>5, <1>7 DEF AppInv

LEMMA EmissionEnds ==
  ASSUME AppInv, NEW e \in AppEvents, NEW n \in Names, A!EndEmission(e, n)
  PROVE  AppInv' /\ UNCHANGED <<s1, s8>>
  <1>1. PICK end \in {"ok", "failed"} : s4' = [s4 EXCEPT ![e][n] = end]
    BY DEF A!EndEmission
  <1>2. UNCHANGED <<s1, s2, s3, s5, s6, s8>> /\ s7' = s7 \cup {<<e, n>>} /\ s4[e][n] = "running"
    BY DEF A!EndEmission
  <1>3. A!TypeOK'
    BY <1>1, <1>2 DEF AppInv, A!TypeOK
  <1>4. \A y \in AppEvents \X Names :
          /\ s4'[y[1]][y[2]] = "running" => s4[y[1]][y[2]] = "running"
          /\ s4[y[1]][y[2]] = "ok" => s4'[y[1]][y[2]] = "ok"
    BY <1>1, <1>2 DEF AppInv, A!TypeOK
  <1>5. A!TrackerHoldsAwaited'
    BY <1>2, <1>4 DEF AppInv, A!TrackerHoldsAwaited, A!Owed
  <1>6. A!ClosesWhatIsOwed'
    BY <1>2, <1>4 DEF AppInv, A!TypeOK, A!Closings, A!ClosesWhatIsOwed
  <1> QED BY <1>2, <1>3, <1>5, <1>6 DEF AppInv

\* A promise that is awaited leaves the tracker when it has ended.
LEMMA PromiseLeaves ==
  ASSUME AppInv, NEW p \in A!Promises, A!Untrack(p)
  PROVE  AppInv' /\ UNCHANGED <<s1, s8>>
  <1>1. UNCHANGED <<s1, s2, s3, s4, s5, s7, s8>> /\ s6' = s6 \ {p} /\ A!Outcome(p) # "running"
    BY DEF A!Untrack
  <1>2. p \notin A!Owed
    BY <1>1, AppAssumption DEF A!Outcome, A!Owed
  <1> QED BY <1>1, <1>2 DEF AppInv, A!TypeOK, A!TrackerHoldsAwaited, A!Owed, A!ClosesWhatIsOwed

\* What a close waits for has ended well when all that it waits for has.
LEMMA AppCloses ==
  ASSUME AppInv, NEW a \in Apps, A!CloseApp(a) \/ A!EndWait(a) \/ A!Flush(a) \/ A!Close(a)
  PROVE  AppInv'
  <1> DEFINE c == s8[a]
  <1>1. c \in A!Closings
    BY DEF AppInv, A!TypeOK
  <1>2. A!Open \in A!Closings /\ A!Open.pc = "no"
    BY DEF A!Open, A!Closings
  <1>3. ASSUME NEW d \in A!Closings, s8' = [s8 EXCEPT ![a] = d], UNCHANGED <<s4, s5, s6>>,
               s7' \in {s7, {}}, s2' \in [Apps -> BOOLEAN], s3' \in SUBSET Apps,
               \/ s1' = s1
               \/ d.pc = "no" /\ s1' = [s1 EXCEPT ![a] = "ended"],
               d.pc # "no" => s1[a] = "ready",
               d.pc = "wait" => d.owed \subseteq d.on,
               d.pc \in {"flush", "down"} => \A x \in d.owed : s4[x[1]][x[2]] = "ok"
        PROVE  AppInv'
    <2>1. A!TypeOK'
      BY <1>3 DEF AppInv, A!TypeOK, A!Stages
    <2>2. A!TrackerHoldsAwaited'
      BY <1>3 DEF AppInv, A!TrackerHoldsAwaited, A!Owed
    <2>3. A!ClosesWhatIsOwed'
      BY <1>3 DEF AppInv, A!TypeOK, A!ClosesWhatIsOwed
    <2> QED BY <2>1, <2>2, <2>3 DEF AppInv
  <1>4. CASE A!CloseApp(a)
    <2> DEFINE d == [pc |-> "wait", on |-> s6, owed |-> A!Owed, lines |-> s7]
    <2>1. d \in A!Closings /\ d.pc = "wait" /\ d.owed \subseteq d.on
      BY DEF AppInv, A!TypeOK, A!Closings, A!TrackerHoldsAwaited, A!Owed
    <2>2. s8' = [s8 EXCEPT ![a] = d] /\ UNCHANGED <<s1, s2, s3, s4, s5, s6, s7>> /\ s1[a] = "ready"
      BY <1>4 DEF A!CloseApp, A!Events0
    <2> HIDE DEF d
    <2> QED BY <1>3, <2>1, <2>2 DEF AppInv, A!TypeOK
  <1>5. ASSUME NEW pc \in {"flush", "down"}, A!Goto(a, pc), UNCHANGED <<s1, s2, s3, s4, s5, s6>>,
               s7' \in {s7, {}}, s1[a] = "ready",
               \A x \in c.owed : s4[x[1]][x[2]] = "ok"
        PROVE  AppInv'
    <2> DEFINE d == [c EXCEPT !.pc = pc]
    <2>1. d \in A!Closings /\ d.pc = pc /\ d.owed = c.owed
      BY <1>1 DEF A!Closings
    <2>2. s8' = [s8 EXCEPT ![a] = d]
      BY <1>5 DEF A!Goto
    <2> HIDE DEF d, c
    <2> QED BY <1>3, <1>5, <2>1, <2>2 DEF AppInv, A!TypeOK
  <1>6. ASSUME A!Goto(a, "no"), UNCHANGED <<s4, s5, s6>>, s7' \in {s7, {}},
               s2' \in [Apps -> BOOLEAN], s3' \in SUBSET Apps,
               s1' \in {s1, [s1 EXCEPT ![a] = "ended"]}
        PROVE  AppInv'
    <2>1. s8' = [s8 EXCEPT ![a] = A!Open]
      BY <1>6 DEF A!Goto
    <2> QED BY <1>2, <1>3, <1>6, <2>1
  <1>7. CASE A!EndWait(a)
    <2>1. UNCHANGED <<s1, s2, s3, s4, s5, s6, s7>> /\ c.pc = "wait" /\ s1[a] = "ready"
      BY <1>7 DEF A!EndWait, A!Events0, AppInv, A!ClosesWhatIsOwed
    <2>2. CASE A!Waited(a) /\ A!Goto(a, "flush")
      <3>1. ASSUME NEW x \in c.owed PROVE s4[x[1]][x[2]] = "ok"
        <4>1. x \in s8[a].on /\ x \in AppEvents \X Names
          BY <1>1, <2>1 DEF AppInv, A!ClosesWhatIsOwed, A!Closings
        <4>2. A!Outcome(x) = "ok" /\ x[2] # "all"
          BY <2>2, <4>1, AppAssumption DEF A!Waited
        <4> QED BY <4>2 DEF A!Outcome
      <3> QED BY <1>5, <2>1, <2>2, <3>1
    <2>3. CASE A!Goto(a, "no")
      BY <1>6, <2>1, <2>3 DEF AppInv, A!TypeOK
    <2> QED BY <1>7, <2>2, <2>3 DEF A!EndWait
  <1>8. CASE A!Flush(a)
    <2>1. /\ UNCHANGED <<s1, s2, s3, s4, s5, s6>> /\ s7' = {} /\ s1[a] = "ready"
          /\ \A x \in c.owed : s4[x[1]][x[2]] = "ok"
      BY <1>8 DEF A!Flush, AppInv, A!ClosesWhatIsOwed
    <2>2. CASE A!Goto(a, "down") BY <1>5, <2>1, <2>2
    <2>3. CASE A!Goto(a, "no") BY <1>6, <2>1, <2>3 DEF AppInv, A!TypeOK
    <2> QED BY <1>8, <2>2, <2>3 DEF A!Flush
  <1>9. CASE A!Close(a)
    BY <1>6, <1>9 DEF A!Close, A!CloseCleanup, AppInv, A!TypeOK
  <1> QED BY <1>4, <1>7, <1>8, <1>9

LEMMA AppStep == AppInv /\ A!Next => AppInv'
  <1>1. A!FlushInterval /\ AppInv => AppInv'
    BY DEF A!FlushInterval, AppInv, A!TypeOK, A!TrackerHoldsAwaited, A!Owed, A!ClosesWhatIsOwed
  <1> QED BY <1>1, AppBoots, AppEmits, EmissionEnds, PromiseLeaves, AppCloses DEF A!Next

\* An application ends in the step that cleans up and flushes.
LEMMA AppClosesClean == AppInv /\ A!Next => A!CleanClose
  <1> SUFFICES ASSUME AppInv, A!Next, NEW a \in Apps, s8[a].pc = "down", s1'[a] = "ended"
               PROVE  /\ \A x \in s8[a].owed : s4[x[1]][x[2]] = "ok" /\ x \notin s7'
                      /\ s8[a].lines \cap s7' = {} /\ s2'[a] /\ a \notin s3'
    BY DEF A!CleanClose
  <1>1. s1[a] = "ready" /\ \A x \in s8[a].owed : s4[x[1]][x[2]] = "ok"
    BY DEF AppInv, A!ClosesWhatIsOwed
  <1>2. ASSUME NEW b \in Apps, A!Close(b)
        PROVE  s7' = {} /\ s2'[a] /\ a \notin s3'
    BY <1>1, <1>2 DEF A!Close, A!CloseCleanup, AppInv, A!TypeOK
  <1>3. CASE \E b \in Apps : A!Close(b)
    BY <1>1, <1>2, <1>3
  <1>4. CASE s1'[a] = s1[a]
    BY <1>1, <1>4
  <1> QED
    BY <1>3, <1>4, AppBoots, AppEmits, EmissionEnds, PromiseLeaves
       DEF A!Next, A!CloseApp, A!EndWait, A!Flush, A!FlushInterval

-----------------------------------------------------------------------------
(* One probe.  s1 is the check, s2 the step, s3 tells whether it is late,  *)
(* s4 is the result, s5 what was seen, s6 the requests, s7 tells whether   *)
(* something is open and s8 whether the socket does not hear the signal.   *)

ProbeInv == P!TypeOK /\ P!StepOfKind /\ P!SeenSoFar /\ P!AnswersOnce /\ P!ProbesAnswer

LEMMA ToolsAreCounted ==
  ASSUME NEW tools \in SUBSET Tools
  PROVE  P!Cardinality(tools) \in Nat
  <1>1. IsFiniteSet(Tools)
    BY ProbeAssumption DEF P!IsFiniteSet, IsFiniteSet
  <1>2. P!Cardinality(tools) = Cardinality(tools)
    BY DEF P!Cardinality, Cardinality
  <1>3. IsFiniteSet(tools)
    BY <1>1, FS_Subset
  <1> QED BY <1>2, <1>3, FS_CardinalityType

LEMMA ProbeStarts == P!Init => ProbeInv
  BY DEF P!Init, ProbeInv, P!TypeOK, P!Steps, P!StepOfKind, P!SeenSoFar, P!AnswersOnce, P!ProbesAnswer, P!Empty

\* What is seen is kept, and read by its step.
LEMMA SeesOne ==
  ASSUME NEW value, P!Sees(value)
  PROVE  /\ DOMAIN s5' = DOMAIN s5 \cup {s2} /\ s5'[s2] = value
         /\ \A x \in DOMAIN s5 : x # s2 => s5'[x] = s5[x]
  BY DEF P!Sees, P!With

\* A failure is one of the results, and is none of them well.
LEMMA FailureIsResult ==
  /\ \A c \in {"missing", "dns", "timeout", "auth", "http5xx", "protocol", "stale"} :
       P!Failure(c) \in P!Results /\ P!Failure(c).status # "ok" /\ P!Failure(c) # None
  /\ P!Ok \in P!Results /\ P!Ok # None
  /\ \A r \in P!Results : r # None
  <1>1. \A r \in P!Results : r # None
    BY ProbeAssumption
  <1>2. \A c \in {"missing", "dns", "timeout", "auth", "http5xx", "protocol", "stale"} :
          P!Failure(c) \in P!Results /\ P!Failure(c).status # "ok"
    BY DEF P!Failure, P!Is, P!Results
  <1>3. P!Ok \in P!Results
    BY DEF P!Ok, P!Is, P!Results
  <1> QED BY <1>1, <1>2, <1>3

\* The probe ends; its answer is well only when all was seen.
LEMMA ProbeStops ==
  ASSUME ProbeInv, s2 # "ended", NEW r \in P!Results, P!Ends(r), r.status = "ok" => P!Wanted'
  PROVE  ProbeInv'
  <1>1. /\ s2' = "ended" /\ s7' = FALSE /\ s4' = IF s3 THEN s4 ELSE r
        /\ UNCHANGED <<s1, s3, s6, s8>>
    BY DEF P!Ends
  <1>2. s3 => s4 = P!Failure("timeout")
    BY DEF ProbeInv, P!ProbesAnswer
  <1>3. s3 \in BOOLEAN
    BY DEF ProbeInv, P!TypeOK
  <1>4. s4' # None /\ (s4'.status = "ok" => P!Wanted' /\ ~s3)
    BY <1>1, <1>2, <1>3, FailureIsResult
  <1>5. P!TypeOK' /\ P!StepOfKind' /\ P!SeenSoFar' /\ P!AnswersOnce'
    BY <1>1 DEF ProbeInv, P!TypeOK, P!Steps, P!StepOfKind, P!SeenSoFar, P!AnswersOnce
  <1>6. P!ProbesAnswer'
    BY <1>1, <1>2, <1>4 DEF ProbeInv, P!ProbesAnswer, P!Failure, P!Is

  <1> QED BY <1>5, <1>6 DEF ProbeInv

\* The probe goes on; what it has promised so far is as before.
LEMMA ProbeMoves ==
  ASSUME ProbeInv, s2 # "ended", UNCHANGED <<s1, s3, s4>>,
         s2' \in P!Steps \ {"ended"}, s7' \in BOOLEAN, s8' \in BOOLEAN,
         P!StepOfKind', P!SeenSoFar',
         s7' => s2' = "connect" \/ s1.kind = "sqlite",
         s3 /\ s7' => s8' \/ s1.kind = "sqlite",
         \A s \in DOMAIN s6' : /\ s1.reference # None => s6'[s].credential = "good header"
                               /\ s \notin {"http", "initialize"} => s6'[s].session # None
  PROVE  ProbeInv'
  <1>1. (s3 => s4 = P!Failure("timeout")) /\ (~s3 => s4 = None) /\ s3 \in BOOLEAN
    BY DEF ProbeInv, P!ProbesAnswer, P!AnswersOnce, P!TypeOK
  <1>2. P!TypeOK' /\ P!AnswersOnce'
    BY <1>1 DEF ProbeInv, P!TypeOK, P!AnswersOnce
  <1>3. P!ProbesAnswer'
    BY <1>1, FailureIsResult DEF P!ProbesAnswer, P!Failure, P!Is
  <1> QED BY <1>2, <1>3 DEF ProbeInv

LEMMA ProbeThrows ==
  ASSUME ProbeInv, s2 # "ended", P!Throws
  PROVE  ProbeInv'
  <1>1. P!Classes \subseteq {"missing", "dns", "timeout"}
    BY DEF P!Classes
  <1>2. PICK class \in P!Classes : P!Ends(P!Failure(class))
    BY DEF P!Throws
  <1> QED BY <1>1, <1>2, ProbeStops, FailureIsResult

\* A request carries the credential that the check names.
LEMMA ProbeRequests ==
  ASSUME ProbeInv, s2 \in {"idle", "resolving", "initialize", "notify", "list"}, s1.kind \in {"http", "mcp"},
         NEW next \in {"http", "initialize", "notify", "list", "call"},
         NEW session, NEW credential, P!Request(next, session, credential),
         next = "http" <=> s1.kind = "http",
         s1.reference # None => credential = "good header" /\ P!Credential' = "good header",
         next \notin {"http", "initialize"} => session # None,
         next \in {"list", "call"} => s2 \in {"notify", "list"},
         P!SeenSoFar'
  PROVE  ProbeInv'
  <1> DEFINE q == [session |-> session, credential |-> credential]
  <1>1. /\ s2' = next /\ UNCHANGED <<s1, s3, s4, s7, s8>>
        /\ DOMAIN s6' = DOMAIN s6 \cup {next} /\ s6'[next] = q
        /\ \A x \in DOMAIN s6 : x # next => s6'[x] = s6[x]
    BY DEF P!Request, P!With
  <1>2. q.session = session /\ q.credential = credential
    OBVIOUS
  <1> HIDE DEF q
  <1>3. ~s7
    BY DEF ProbeInv, P!AnswersOnce, P!StepOfKind, P!TypeOK
  <1>4. next \in {"notify", "list", "call"} => "notify" \in DOMAIN s6' /\ s6'["notify"].session # None
    BY <1>1, <1>2 DEF ProbeInv, P!StepOfKind, P!Session
  <1>5. P!StepOfKind'
    BY <1>1, <1>4 DEF P!StepOfKind, P!Session
  <1>6. \A s \in DOMAIN s6' : /\ s1.reference # None => s6'[s].credential = "good header"
                              /\ s \notin {"http", "initialize"} => s6'[s].session # None
    BY <1>1, <1>2 DEF ProbeInv, P!ProbesAnswer
  <1> QED BY <1>1, <1>3, <1>5, <1>6, ProbeMoves DEF ProbeInv, P!TypeOK, P!Steps

\* The probe asks, opens or looks when it has its credential.
LEMMA ProbeDispatches ==
  ASSUME ProbeInv, s2 \in {"idle", "resolving"}, NEW credential, P!Dispatch(credential),
         s1.reference # None =>
           credential \in {"good header", "bad header"} /\ P!Credential' = credential
  PROVE  ProbeInv'
  <1>1. s3 \in BOOLEAN /\ s2 # "ended"
    BY DEF ProbeInv, P!TypeOK
  <1>2. \A s \in DOMAIN s6 : /\ s1.reference # None => s6[s].credential = "good header"
                             /\ s \notin {"http", "initialize"} => s6[s].session # None
    BY DEF ProbeInv, P!ProbesAnswer
  <1>3. ~s7 \/ s1.kind = "sqlite"
    BY DEF ProbeInv, P!AnswersOnce
  <1>4. ASSUME P!Ends(P!Failure("missing")) PROVE ProbeInv'
    BY <1>1, <1>4, ProbeStops, FailureIsResult
  <1>5. CASE s1.kind \in {"http", "mcp"}
    <2>1. CASE s3 \/ credential = "bad header"
      BY <1>4, <1>5, <2>1 DEF P!Dispatch
    <2>2. CASE ~(s3 \/ credential = "bad header")
      <3>1. P!Request(IF s1.kind = "http" THEN "http" ELSE "initialize", None, credential)
        BY <1>5, <2>2 DEF P!Dispatch
      <3>2. s2' = IF s1.kind = "http" THEN "http" ELSE "initialize"
        BY <3>1 DEF P!Request
      <3>3. P!SeenSoFar'
        BY <3>2 DEF P!SeenSoFar
      <3>4. CASE s1.kind = "http"
        BY <2>2, <3>1, <3>3, <3>4, ProbeRequests
      <3>5. CASE s1.kind = "mcp"
        BY <2>2, <3>1, <3>3, <3>5, ProbeRequests
      <3> QED BY <1>5, <3>4, <3>5
    <2> QED BY <2>1, <2>2
  <1>6. CASE s1.kind \in {"tcp", "sqlite"}
    <2>1. CASE ~s1.wants.valid
      BY <1>4, <1>6, <2>1 DEF P!Dispatch
    <2>2. CASE s1.wants.valid
      <3>1. /\ s2' = (IF s1.kind = "tcp" THEN "connect" ELSE "open") /\ s7' = TRUE /\ s8' = s3
            /\ UNCHANGED <<s1, s3, s4, s6>>
        BY <1>6, <2>2 DEF P!Dispatch
      <3>2. P!StepOfKind' /\ P!SeenSoFar' /\ s2' \in P!Steps \ {"ended"}
        BY <1>6, <3>1 DEF P!StepOfKind, P!SeenSoFar, P!Steps
      <3> QED BY <1>1, <1>2, <1>6, <3>1, <3>2, ProbeMoves
    <2> QED BY <2>1, <2>2
  <1>7. CASE s1.kind \in {"file", "heartbeat"}
    <2>1. s2' = "stat" /\ UNCHANGED <<s1, s3, s4, s6, s7, s8>>
      BY <1>7 DEF P!Dispatch
    <2>2. P!StepOfKind' /\ P!SeenSoFar' /\ s2' \in P!Steps \ {"ended"}
      BY <1>7, <2>1 DEF P!StepOfKind, P!SeenSoFar, P!Steps
    <2>3. ~s7 /\ s7 \in BOOLEAN /\ s8 \in BOOLEAN
      BY <1>3, <1>7 DEF ProbeInv, P!TypeOK
    <2> QED BY <1>1, <1>2, <2>1, <2>2, <2>3, ProbeMoves
  <1>8. CASE s1.kind \notin {"http", "mcp", "tcp", "sqlite", "file", "heartbeat"}
    <2>1. P!Ends(P!Is("unknown", None))
      BY <1>8 DEF P!Dispatch
    <2>2. P!Is("unknown", None) \in P!Results /\ P!Is("unknown", None).status # "ok"
      BY DEF P!Is, P!Results
    <2> QED BY <1>1, <2>1, <2>2, ProbeStops
  <1> QED BY <1>5, <1>6, <1>7, <1>8

LEMMA ProbeBegins ==
  ASSUME ProbeInv, P!Begin
  PROVE  ProbeInv'
  <1>1. s2 = "idle" /\ s5' = s5
    BY DEF P!Begin
  <1>2. CASE ~s1.valid
    <2>1. P!Ends(P!Failure("missing")) BY <1>2 DEF P!Begin
    <2> QED BY <1>1, <2>1, ProbeStops, FailureIsResult
  <1>3. CASE s1.valid /\ s1.reference = None
    <2>1. P!Dispatch(None) BY <1>3 DEF P!Begin
    <2> QED BY <1>1, <1>3, <2>1, ProbeDispatches
  <1>4. CASE s1.valid /\ s1.reference # None
    <2>1. s2' = "resolving" /\ UNCHANGED <<s1, s3, s4, s6, s7, s8>>
      BY <1>4 DEF P!Begin
    <2>2. P!StepOfKind' /\ P!SeenSoFar' /\ s2' \in P!Steps \ {"ended"}
      BY <2>1 DEF P!StepOfKind, P!SeenSoFar, P!Steps
    <2> QED BY <1>1, <2>1, <2>2, ProbeMoves DEF ProbeInv, P!TypeOK, P!AnswersOnce, P!ProbesAnswer
  <1> QED BY <1>2, <1>3, <1>4

LEMMA ProbeResolves ==
  ASSUME ProbeInv, P!Resolve
  PROVE  ProbeInv'
  <1>1. s2 = "resolving"
    BY DEF P!Resolve
  <1>2. ASSUME NEW c \in {"good header", "bad header"}, P!Sees(c), P!Dispatch(c)
        PROVE  ProbeInv'
    <2>1. "resolving" \in DOMAIN s5' /\ s5'["resolving"] = c
      BY <1>1, <1>2, SeesOne
    <2>2. P!Credential' = c
      BY <2>1 DEF P!Credential
    <2> QED BY <1>1, <1>2, <2>2, ProbeDispatches
  <1>3. CASE P!Ends(P!Failure("auth"))
    BY <1>1, <1>3, ProbeStops, FailureIsResult
  <1>4. CASE P!Throws
    BY <1>1, <1>4, ProbeThrows
  <1> QED BY <1>2, <1>3, <1>4 DEF P!Resolve

\* A defect warns.
LEMMA DefectIsResult ==
  /\ \A c \in {"auth", "protocol"} : P!Is("warn", c) \in P!Results /\ P!Is("warn", c).status # "ok"
  BY DEF P!Is, P!Results

LEMMA HttpAnswers ==
  ASSUME ProbeInv, P!HttpAnswer
  PROVE  ProbeInv'
  <1>1. s2 = "http" /\ s1.kind = "http"
    BY DEF P!HttpAnswer, ProbeInv, P!StepOfKind
  <1>2. ASSUME NEW s, P!Sees(s),
               P!Ends(IF s = s1.wants.status THEN P!Ok
                      ELSE P!Failure(CASE s \in P!Denied -> "auth" [] s >= 500 -> "http5xx"
                                     [] OTHER -> "protocol"))
        PROVE  ProbeInv'
    <2>1. s5'["http"] = s
      BY <1>1, <1>2, SeesOne
    <2>2. CASE s = s1.wants.status
      <3>1. P!Ends(P!Ok) BY <1>2, <2>2
      <3>2. P!Wanted' BY <1>1, <2>1, <2>2, <3>1 DEF P!Ends, P!Wanted
      <3> QED BY <1>1, <3>1, <3>2, ProbeStops, FailureIsResult
    <2>3. CASE s # s1.wants.status
      <3>1. PICK c \in {"auth", "http5xx", "protocol"} : P!Ends(P!Failure(c))
        BY <1>2, <2>3
      <3> QED BY <1>1, <3>1, ProbeStops, FailureIsResult
    <2> QED BY <2>2, <2>3
  <1>3. CASE P!Throws
    BY <1>1, <1>3, ProbeThrows
  <1> QED BY <1>2, <1>3 DEF P!HttpAnswer

\* A request of the MCP handshake follows the one before.
LEMMA HandshakeGoesOn ==
  ASSUME ProbeInv, s2 \in {"initialize", "notify", "list"}, NEW value, P!Sees(value),
         NEW next \in {"notify", "list", "call"}, NEW session, session # None,
         P!Request(next, session, P!Credential),
         next \in {"list", "call"} => s2 \in {"notify", "list"},
         P!SeenSoFar'
  PROVE  ProbeInv'
  <1>1. s1.kind = "mcp" /\ (s1.reference # None => P!Credential = "good header")
    BY DEF ProbeInv, P!StepOfKind
  <1>2. P!Credential = "good header" => P!Credential' = "good header"
    BY SeesOne, ProbeAssumption DEF P!Credential
  <1> QED BY <1>1, <1>2, ProbeRequests

LEMMA Initializes ==
  ASSUME ProbeInv, P!Initialize
  PROVE  ProbeInv'
  <1>1. s2 = "initialize"
    BY DEF P!Initialize
  <1>2. ASSUME NEW r, P!Sees(r), r.status = 200, P!Request("notify", "session", P!Credential)
        PROVE  ProbeInv'
    <2>1. "initialize" \in DOMAIN s5' /\ s5'["initialize"].status = 200 /\ s2' = "notify"
      BY <1>1, <1>2, SeesOne DEF P!Request
    <2>2. P!SeenSoFar'
      BY <2>1 DEF P!SeenSoFar
    <2> QED BY <1>1, <1>2, <2>2, ProbeAssumption, HandshakeGoesOn
  <1>3. ASSUME NEW c \in {"auth", "protocol"}, P!Defect(c)
        PROVE  ProbeInv'
    BY <1>1, <1>3, ProbeStops, DefectIsResult DEF P!Defect
  <1>4. CASE P!Throws
    BY <1>1, <1>4, ProbeThrows
  <1>5. CASE \E r \in P!Replies, session \in {"session", None} :
               /\ P!Sees(r)
               /\ IF r.status # 200 \/ r.body # "result"
                    THEN P!Defect(IF r.status \in P!Denied THEN "auth" ELSE "protocol")
                  ELSE IF session = None THEN P!Defect("protocol")
                  ELSE P!Request("notify", session, P!Credential)
    <2>1. PICK r \in P!Replies, session \in {"session", None} :
               /\ P!Sees(r)
               /\ IF r.status # 200 \/ r.body # "result"
                    THEN P!Defect(IF r.status \in P!Denied THEN "auth" ELSE "protocol")
                  ELSE IF session = None THEN P!Defect("protocol")
                  ELSE P!Request("notify", session, P!Credential)
      BY <1>5
    <2>2. CASE r.status # 200 \/ r.body # "result"
      BY <1>3, <2>1, <2>2
    <2>3. CASE r.status = 200 /\ session = None
      BY <1>3, <2>1, <2>3
    <2>4. CASE r.status = 200 /\ r.body = "result" /\ session = "session"
      <3>1. session # None BY <2>4, ProbeAssumption
      <3> QED BY <1>2, <2>1, <2>4, <3>1
    <2> QED BY <2>2, <2>3, <2>4
  <1> QED BY <1>4, <1>5 DEF P!Initialize

LEMMA Notifies ==
  ASSUME ProbeInv, P!Notify
  PROVE  ProbeInv'
  <1>1. /\ s2 = "notify" /\ P!Session # None
        /\ "initialize" \in DOMAIN s5 /\ s5["initialize"].status = 200
    BY DEF P!Notify, ProbeInv, P!StepOfKind, P!SeenSoFar
  <1>2. ASSUME NEW s, P!Sees(s), P!Request("list", P!Session, P!Credential)
        PROVE  ProbeInv'
    <2>1. "initialize" \in DOMAIN s5' /\ s5'["initialize"].status = 200 /\ s2' = "list"
      BY <1>1, <1>2, SeesOne DEF P!Request
    <2>2. P!SeenSoFar'
      BY <2>1 DEF P!SeenSoFar
    <2> QED BY <1>1, <1>2, <2>2, HandshakeGoesOn
  <1>3. CASE P!Defect("protocol")
    BY <1>1, <1>3, ProbeStops, DefectIsResult DEF P!Defect
  <1>4. CASE P!Throws
    BY <1>1, <1>4, ProbeThrows
  <1> QED BY <1>2, <1>3, <1>4 DEF P!Notify

LEMMA Lists ==
  ASSUME ProbeInv, P!List
  PROVE  ProbeInv'
  <1>1. /\ s2 = "list" /\ s1.kind = "mcp" /\ P!Session # None
        /\ "initialize" \in DOMAIN s5 /\ s5["initialize"].status = 200
    BY DEF P!List, ProbeInv, P!StepOfKind, P!SeenSoFar
  <1>2. CASE P!Throws
    BY <1>1, <1>2, ProbeThrows
  <1>3. CASE ~P!Throws
    <2>1. PICK r \in P!Replies, tools \in SUBSET Tools :
            /\ P!Sees([status |-> r.status, body |-> r.body,
                       tools |-> IF r.body = "result" THEN tools ELSE {}])
            /\ IF ~P!Answered(r) THEN P!Defect("protocol")
               ELSE IF P!Cardinality(tools) < s1.wants.min \/ ~(s1.wants.required \subseteq tools)
                 THEN P!Ends(P!Failure("missing"))
               ELSE IF s1.wants.call THEN P!Request("call", P!Session, P!Credential)
               ELSE P!Ends(P!Ok)
      BY <1>3 DEF P!List
    <2> DEFINE value == [status |-> r.status, body |-> r.body,
                         tools |-> IF r.body = "result" THEN tools ELSE {}]
    <2>2. P!Sees(value) /\ value.status = r.status /\ (r.body = "result" => value.tools = tools)
      BY <2>1
    <2> HIDE DEF value
    <2>3. /\ "initialize" \in DOMAIN s5' /\ s5'["initialize"].status = 200
          /\ "list" \in DOMAIN s5' /\ s5'["list"] = value
      BY <1>1, <2>2, SeesOne
    <2>4. CASE ~P!Answered(r)
      BY <1>1, <2>1, <2>4, ProbeStops, DefectIsResult DEF P!Defect
    <2>5. CASE P!Answered(r) /\ (P!Cardinality(tools) < s1.wants.min \/ ~(s1.wants.required \subseteq tools))
      BY <1>1, <2>1, <2>5, ProbeStops, FailureIsResult
    <2>6. CASE P!Answered(r) /\ ~(P!Cardinality(tools) < s1.wants.min \/ ~(s1.wants.required \subseteq tools))
      <3>1. s1.wants.min \in Nat /\ P!Cardinality(tools) \in Nat
        BY <1>1, ProbeAssumption, ToolsAreCounted DEF ProbeInv, P!TypeOK
      <3>2. P!Cardinality(tools) >= s1.wants.min /\ s1.wants.required \subseteq tools
        BY <2>6, <3>1
      <3>3. /\ s5'["list"].status # 202 /\ s1.wants.required \subseteq s5'["list"].tools
            /\ P!Cardinality(s5'["list"].tools) >= s1.wants.min
        BY <2>2, <2>3, <2>6, <3>2 DEF P!Answered
      <3>4. CASE s1.wants.call
        <4>1. P!Request("call", P!Session, P!Credential)
          BY <2>1, <2>6, <3>4
        <4>2. P!SeenSoFar'
          BY <2>3, <3>3, <4>1 DEF P!SeenSoFar, P!Request
        <4> QED BY <1>1, <2>2, <4>1, <4>2, HandshakeGoesOn
      <3>5. CASE ~s1.wants.call
        <4>1. P!Ends(P!Ok)
          BY <2>1, <2>6, <3>5
        <4>2. P!Wanted'
          BY <1>1, <2>3, <3>3, <3>5, <4>1 DEF P!Wanted, P!Ends
        <4> QED BY <1>1, <4>1, <4>2, ProbeStops, FailureIsResult
      <3> QED BY <3>4, <3>5
    <2> QED BY <2>4, <2>5, <2>6
  <1> QED BY <1>2, <1>3

\* tools/call is the last request.
LEMMA ToolIsCalled ==
  ASSUME ProbeInv, P!Call
  PROVE  ProbeInv'
  <1>1. /\ s2 = "call" /\ s1.kind = "mcp" /\ "initialize" \in DOMAIN s5 /\ s5["initialize"].status = 200
        /\ "list" \in DOMAIN s5 /\ s5["list"].status # 202 /\ s1.wants.required \subseteq s5["list"].tools
        /\ P!Cardinality(s5["list"].tools) >= s1.wants.min
    BY DEF P!Call, ProbeInv, P!StepOfKind, P!SeenSoFar
  <1>2. CASE P!Throws
    BY <1>1, <1>2, ProbeThrows
  <1>3. CASE ~P!Throws
    <2>1. PICK r \in P!Replies : P!Sees(r) /\ (IF P!Answered(r) THEN P!Ends(P!Ok) ELSE P!Defect("protocol"))
      BY <1>3 DEF P!Call
    <2>2. CASE P!Answered(r)
      <3>1. s5'["call"] = r /\ s5'["initialize"] = s5["initialize"] /\ s5'["list"] = s5["list"]
        BY <1>1, <2>1, SeesOne
      <3>2. P!Ends(P!Ok) BY <2>1, <2>2
      <3>3. P!Wanted' BY <1>1, <2>2, <3>1, <3>2 DEF P!Wanted, P!Ends, P!Answered
      <3> QED BY <1>1, <3>2, <3>3, ProbeStops, FailureIsResult
    <2>3. CASE ~P!Answered(r)
      BY <1>1, <2>1, <2>3, ProbeStops, DefectIsResult DEF P!Defect
    <2> QED BY <2>2, <2>3
  <1> QED BY <1>2, <1>3

LEMMA Connects ==
  ASSUME ProbeInv, P!Connect
  PROVE  ProbeInv'
  <1>1. s2 = "connect" /\ s1.kind = "tcp"
    BY DEF P!Connect, ProbeInv, P!StepOfKind
  <1>2. CASE P!Sees("connected") /\ P!Ends(P!Ok)
    <2>1. s5'["connect"] = "connected" BY <1>1, <1>2, SeesOne
    <2>2. P!Wanted' BY <1>1, <1>2, <2>1 DEF P!Wanted, P!Ends
    <2> QED BY <1>1, <1>2, <2>2, ProbeStops, FailureIsResult
  <1>3. CASE P!Throws
    BY <1>1, <1>3, ProbeThrows
  <1> QED BY <1>2, <1>3 DEF P!Connect

\* What is not too old is recent.
LEMMA NotOldIsRecent ==
  ASSUME ProbeInv, s1.kind \in {"file", "heartbeat", "sqlite"}, NEW age \in Ages, ~P!Old(age)
  PROVE  P!Recent(age)
  <1>1. s1.wants.maxAge \in Int \cup {None} /\ age \in Int /\ age # None
    BY ProbeAssumption DEF ProbeInv, P!TypeOK
  <1> QED BY <1>1 DEF P!Old, P!Recent

LEMMA StatAnswers ==
  ASSUME ProbeInv, P!Stat
  PROVE  ProbeInv'
  <1>1. s2 = "stat" /\ s1.kind \in {"file", "heartbeat"}
    BY DEF P!Stat, ProbeInv, P!StepOfKind
  <1>2. CASE P!Throws
    BY <1>1, <1>2, ProbeThrows
  <1>3. CASE ~P!Throws
    <2>1. PICK mode \in Modes, age \in Ages :
            /\ P!Sees([mode |-> mode, age |-> age])
            /\ IF s1.wants.mode \notin {None, mode} THEN P!Ends(P!Failure("protocol"))
               ELSE IF P!Old(age) THEN P!Ends(P!Failure("stale"))
               ELSE IF s1.kind = "file" THEN P!Ends(P!Ok)
               ELSE s2' = "read" /\ UNCHANGED <<s1, s3, s4, s6, s7, s8>>
      BY <1>3 DEF P!Stat
    <2>2. "stat" \in DOMAIN s5' /\ s5'["stat"] = [mode |-> mode, age |-> age]
      BY <1>1, <2>1, SeesOne
    <2>3. s5'["stat"].mode = mode /\ s5'["stat"].age = age
      BY <2>2
    <2>4. CASE s1.wants.mode \notin {None, mode} \/ P!Old(age)
      BY <1>1, <2>1, <2>4, ProbeStops, FailureIsResult
    <2>5. CASE s1.wants.mode \in {None, mode} /\ ~P!Old(age) /\ s1.kind = "file"
      <3>1. P!Ends(P!Ok) BY <2>1, <2>5
      <3>2. P!Recent(age) BY <2>5, NotOldIsRecent
      <3>3. P!Wanted' BY <2>3, <2>5, <3>1, <3>2 DEF P!Wanted, P!Ends, P!Recent
      <3> QED BY <1>1, <3>1, <3>3, ProbeStops, FailureIsResult
    <2>6. CASE s1.wants.mode \in {None, mode} /\ ~P!Old(age) /\ s1.kind = "heartbeat"
      <3>1. s2' = "read" /\ UNCHANGED <<s1, s3, s4, s6, s7, s8>>
        BY <2>1, <2>6
      <3>2. P!StepOfKind' /\ P!SeenSoFar' /\ s2' \in P!Steps \ {"ended"}
        BY <2>2, <2>3, <2>6, <3>1 DEF P!StepOfKind, P!SeenSoFar, P!Steps, P!Old
      <3>3. ~s7 /\ s7 \in BOOLEAN /\ s8 \in BOOLEAN
        BY <1>1 DEF ProbeInv, P!TypeOK, P!AnswersOnce
      <3> QED BY <1>1, <3>1, <3>2, <3>3, ProbeMoves DEF ProbeInv, P!ProbesAnswer
    <2> QED BY <1>1, <2>4, <2>5, <2>6
  <1> QED BY <1>2, <1>3

LEMMA HeartbeatIsRead ==
  ASSUME ProbeInv, P!ReadHeartbeat
  PROVE  ProbeInv'
  <1>1. /\ s2 = "read" /\ s1.kind = "heartbeat" /\ "stat" \in DOMAIN s5 /\ s5["stat"].age \in Ages
        /\ ~P!Old(s5["stat"].age) /\ s1.wants.mode \in {None, s5["stat"].mode}
    BY DEF P!ReadHeartbeat, ProbeInv, P!StepOfKind, P!SeenSoFar
  <1>2. CASE P!Throws
    BY <1>1, <1>2, ProbeThrows
  <1>3. CASE ~P!Throws
    <2>1. PICK well \in BOOLEAN, age \in Ages \cup {None} :
            /\ P!Sees([well |-> well, age |-> age])
            /\ P!Ends(IF ~well \/ age = None THEN P!Failure("stale")
                      ELSE IF P!Old(age) THEN P!Failure("stale") ELSE P!Ok)
      BY <1>3 DEF P!ReadHeartbeat
    <2>2. CASE ~well \/ age = None \/ P!Old(age)
      <3>1. P!Ends(P!Failure("stale")) BY <2>1, <2>2
      <3> QED BY <1>1, <3>1, ProbeStops, FailureIsResult
    <2>3. CASE well /\ age # None /\ ~P!Old(age)
      <3>1. P!Ends(P!Ok) BY <2>1, <2>3
      <3>2. s5'["read"] = [well |-> well, age |-> age] /\ s5'["stat"] = s5["stat"]
        BY <1>1, <2>1, SeesOne
      <3>3. s5'["read"].well /\ s5'["read"].age = age
        BY <2>3, <3>2
      <3>4. P!Recent(age) /\ P!Recent(s5["stat"].age)
        BY <1>1, <2>3, NotOldIsRecent
      <3>5. P!Wanted'
        BY <1>1, <3>1, <3>2, <3>3, <3>4 DEF P!Wanted, P!Ends, P!Recent
      <3> QED BY <1>1, <3>1, <3>5, ProbeStops, FailureIsResult
    <2> QED BY <2>2, <2>3
  <1> QED BY <1>2, <1>3

LEMMA DatabaseOpens ==
  ASSUME ProbeInv, P!OpenDatabase
  PROVE  ProbeInv'
  <1>1. s2 = "open" /\ s1.kind = "sqlite"
    BY DEF P!OpenDatabase, ProbeInv, P!StepOfKind
  <1>2. CASE P!Throws
    BY <1>1, <1>2, ProbeThrows
  <1>3. CASE s2' = "query" /\ UNCHANGED <<s1, s3, s4, s5, s6, s7, s8>>
    <2>1. P!StepOfKind' /\ P!SeenSoFar' /\ s2' \in P!Steps \ {"ended"}
      BY <1>1, <1>3 DEF P!StepOfKind, P!SeenSoFar, P!Steps
    <2> QED BY <1>1, <1>3, <2>1, ProbeMoves DEF ProbeInv, P!TypeOK, P!ProbesAnswer
  <1> QED BY <1>2, <1>3 DEF P!OpenDatabase

LEMMA Queries ==
  ASSUME ProbeInv, P!Query
  PROVE  ProbeInv'
  <1>1. s2 = "query" /\ s1.kind = "sqlite"
    BY DEF P!Query, ProbeInv, P!StepOfKind
  <1>2. CASE P!Throws
    BY <1>1, <1>2, ProbeThrows
  <1>3. CASE P!Ends(P!Is("unknown", None))
    <2>1. P!Is("unknown", None) \in P!Results /\ P!Is("unknown", None).status # "ok"
      BY DEF P!Is, P!Results
    <2> QED BY <1>1, <1>3, <2>1, ProbeStops
  <1>4. ASSUME NEW age \in Ages \cup {None}, P!Sees([age |-> age]),
               P!Ends(IF ~s1.wants.numeric THEN P!Ok
                      ELSE IF age = None THEN P!Failure("protocol")
                      ELSE IF P!Old(age) THEN P!Failure("stale") ELSE P!Ok)
        PROVE  ProbeInv'
    <2>1. "query" \in DOMAIN s5' /\ s5'["query"].age = age
      BY <1>1, <1>4, SeesOne
    <2>2. CASE s1.wants.numeric /\ (age = None \/ P!Old(age))
      <3>1. PICK c \in {"protocol", "stale"} : P!Ends(P!Failure(c))
        BY <1>4, <2>2
      <3> QED BY <1>1, <3>1, ProbeStops, FailureIsResult
    <2>3. CASE ~(s1.wants.numeric /\ (age = None \/ P!Old(age)))
      <3>1. P!Ends(P!Ok)
        BY <1>4, <2>3
      <3>2. s1.wants.numeric => P!Recent(age)
        BY <1>1, <2>3, NotOldIsRecent
      <3>3. P!Wanted'
        BY <1>1, <2>1, <3>1, <3>2 DEF P!Wanted, P!Ends, P!Recent
      <3> QED BY <1>1, <3>1, <3>3, ProbeStops, FailureIsResult
    <2> QED BY <2>2, <2>3
  <1> QED BY <1>2, <1>3, <1>4 DEF P!Query

\* At the deadline the caller is answered, and what hears the signal closed.
LEMMA DeadlinePasses ==
  ASSUME ProbeInv, P!Deadline
  PROVE  ProbeInv'
  <1>1. /\ ~s3 /\ s2 \notin {"idle", "ended"} /\ s3' = TRUE /\ s4' = P!Failure("timeout")
        /\ s2' = (IF P!Stopped THEN "ended" ELSE s2) /\ s7' = (s7 /\ ~P!Stopped)
        /\ UNCHANGED <<s1, s5, s6, s8>>
    BY DEF P!Deadline
  <1>2. P!TypeOK'
    BY <1>1 DEF ProbeInv, P!TypeOK, P!Steps
  <1>3. P!StepOfKind' /\ P!SeenSoFar'
    BY <1>1 DEF ProbeInv, P!StepOfKind, P!SeenSoFar, P!Credential, P!Session, P!Old
  <1>4. P!AnswersOnce'
    BY <1>1 DEF ProbeInv, P!AnswersOnce
  <1>5. P!ProbesAnswer'
    <2>1. s4' # None /\ s4'.status # "ok"
      BY <1>1, FailureIsResult
    <2>2. s7' => s8 \/ s1.kind = "sqlite"
      BY <1>1 DEF P!Stopped, ProbeInv, P!AnswersOnce
    <2>3. s2' = "ended" => ~s7'
      BY <1>1
    <2>4. s4' = P!Failure("timeout")'
      BY <1>1 DEF P!Failure, P!Is
    <2> QED BY <1>1, <2>1, <2>2, <2>3, <2>4 DEF ProbeInv, P!ProbesAnswer
  <1> QED BY <1>2, <1>3, <1>4, <1>5 DEF ProbeInv

LEMMA ProbeStep == ProbeInv /\ P!Next => ProbeInv'
  BY ProbeBegins, ProbeResolves, DeadlinePasses, HttpAnswers, Initializes, Notifies, Lists, ToolIsCalled,
     Connects, StatAnswers, HeartbeatIsRead, DatabaseOpens, Queries
     DEF P!Next

-----------------------------------------------------------------------------
(* The commands on databases.  s1 is the configuration, s2 the databases,  *)
(* s3 the command, s4 what runs side by side, s5 the global connection and *)
(* s6 counts the commands.                                                 *)

\* The next migration is one of those left.
LEMMA LeastIsOne ==
  ASSUME NEW T \in SUBSET Nat, T # {}
  PROVE  B!Min(T) \in T
  BY SomeIsLeast DEF B!Min

LEMMA SameCount == \A T : B!Cardinality(T) = Cardinality(T)
  BY DEF B!Cardinality, Cardinality

\* A list that is told apart by its length stays so with a new member.
LEMMA AppendsOnce ==
  ASSUME NEW T, NEW s \in Seq(T), NEW x \in T, x \notin B!ToSet(s), IsFiniteSet(B!ToSet(s)),
         B!Cardinality(B!ToSet(s)) = Len(s)
  PROVE  /\ B!ToSet(Append(s, x)) = B!ToSet(s) \cup {x} /\ IsFiniteSet(B!ToSet(Append(s, x)))
         /\ B!Cardinality(B!ToSet(Append(s, x))) = Len(Append(s, x))
  <1>1. B!ToSet(Append(s, x)) = B!ToSet(s) \cup {x}
    BY DEF B!ToSet
  <1>2. Len(Append(s, x)) = Len(s) + 1
    OBVIOUS
  <1>3. /\ IsFiniteSet(B!ToSet(s) \cup {x})
        /\ Cardinality(B!ToSet(s) \cup {x}) = Cardinality(B!ToSet(s)) + 1
    BY FS_AddElement
  <1> QED BY <1>1, <1>2, <1>3, SameCount

\* What was executed is finite, so that it can be counted.
Executed == \A d \in B!Dbs : IsFiniteSet(B!ToSet(s2[d].migrated))

\* What a seeder wrote is in the database of its own connection.
WritesOwn == \A d \in B!Dbs : \A s \in DOMAIN s2[d].rows : s2[d].rows[s] > 0 => s[1] = d

\* The last three only hold while at most one connection is seeded beside others.
DatabaseInv ==
    /\ B!TypeOK /\ B!TodoIsPending /\ Executed /\ B!MigrationsOnce
    /\ B!OneAsync => WritesOwn /\ B!OneIsSeeded /\ B!ReseedsInOrder

\* What a command needs of the configuration, which stays.
LEMMA ConfigurationStays ==
  ASSUME s1' = s1
  PROVE  /\ B!Seeders' = B!Seeders /\ B!DatabaseType' = B!DatabaseType /\ B!OneAsync' = B!OneAsync
         /\ \A d : B!Seeded(d)' = B!Seeded(d)
  BY DEF B!Seeders, B!DatabaseType, B!OneAsync, B!Seeded

LEMMA SeederOf ==
  ASSUME B!TypeOK, NEW d \in B!Dbs, NEW k \in 1 .. s1[d].seeds
  PROVE  <<d, k>> \in B!Seeders
  BY DEF B!Seeders

LEMMA EmptyDatabase ==
  /\ B!Empty \in B!DatabaseType /\ B!Empty.migrated = <<>> /\ B!Empty.rows = [s \in B!Seeders |-> 0]
  /\ B!Empty.ran = [m \in Migrations |-> 0] /\ B!Empty.lost = {}
  BY DEF B!Empty, B!DatabaseType

\* Each migration ran as often as it is recorded, but for those that were lost.
Recorded(t) ==
    \A m \in Migrations :
       IF m \in t.lost THEN t.ran[m] > 0 ELSE t.ran[m] = IF m \in B!ToSet(t.migrated) THEN 1 ELSE 0

LEMMA RecordedOnce ==
  B!MigrationsOnce <=>
    /\ \A d \in B!Dbs : B!Cardinality(B!ToSet(s2[d].migrated)) = Len(s2[d].migrated) /\ Recorded(s2[d])
    /\ s3.kind = "migrate" => \A d \in 1 .. s3.at - 1 : B!Chosen(d) \subseteq B!ToSet(s2[d].migrated)
  BY DEF B!MigrationsOnce, Recorded

LEMMA NoneExecuted == B!ToSet(<<>>) = {} /\ B!Cardinality({}) = 0 /\ IsFiniteSet(B!ToSet(<<>>))
  <1>1. B!ToSet(<<>>) = {}
    BY DEF B!ToSet
  <1> QED BY <1>1, FS_EmptySet, SameCount

LEMMA EmptyIsRecorded ==
  ASSUME NEW t, t.migrated = <<>>, t.ran = [m \in Migrations |-> 0], t.lost = {}
  PROVE  Recorded(t)
  BY NoneExecuted DEF Recorded

\* A run with its record, of what was not recorded; and one without.
LEMMA RunIsRecorded ==
  ASSUME NEW t, NEW u, NEW m \in Migrations, Recorded(t), m \notin B!ToSet(t.migrated),
         t.ran \in [Migrations -> Nat], u.ran = [t.ran EXCEPT ![m] = @ + 1],
         \/ u.lost = t.lost /\ B!ToSet(u.migrated) = B!ToSet(t.migrated) \cup {m}
         \/ u.lost = t.lost \cup {m} /\ u.migrated = t.migrated
  PROVE  Recorded(u)
  BY DEF Recorded

LEMMA DatabaseStarts == B!Init => DatabaseInv
  <1> SUFFICES ASSUME B!Init PROVE DatabaseInv
    OBVIOUS
  <1>1. \A d \in B!Dbs : s2[d] = B!Empty
    BY DEF B!Init
  <1>2. B!TypeOK
    BY <1>1, EmptyDatabase, DatabaseAssumption DEF B!Init, B!TypeOK
  <1>3. Executed /\ \A d \in B!Dbs : B!Cardinality(B!ToSet(s2[d].migrated)) = Len(s2[d].migrated)
    <2>1. Len(<<>>) = 0
      OBVIOUS
    <2>2. ASSUME NEW d \in B!Dbs
          PROVE  /\ IsFiniteSet(B!ToSet(s2[d].migrated))
                 /\ B!Cardinality(B!ToSet(s2[d].migrated)) = Len(s2[d].migrated)
      <3>1. s2[d].migrated = <<>>
        BY <1>1, EmptyDatabase
      <3> QED BY <2>1, <3>1, NoneExecuted
    <2> QED BY <2>2 DEF Executed
  <1>4. B!TodoIsPending /\ B!MigrationsOnce
    <2>1. \A d \in B!Dbs : Recorded(s2[d])
      BY <1>1, EmptyDatabase, EmptyIsRecorded
    <2> QED BY <1>3, <2>1, RecordedOnce DEF B!Init, B!TodoIsPending
  <1>5. WritesOwn
    BY <1>1, EmptyDatabase DEF WritesOwn
  <1>6. B!OneIsSeeded /\ B!ReseedsInOrder
    BY DEF B!Init, B!OneIsSeeded, B!ReseedsInOrder
  <1> QED BY <1>2, <1>3, <1>4, <1>5, <1>6 DEF DatabaseInv

LEMMA GoesForward ==
  ASSUME B!TypeOK, B!Forward
  PROVE  s3' = [kind |-> s3.kind, how |-> s3.how, at |-> s3.at + 1, todo |-> None, clean |-> s3.clean,
                state |-> IF s3.at = DbCount THEN "ok" ELSE s3.state]
  BY DEF B!TypeOK, B!Forward

LEMMA CommandFails ==
  ASSUME B!TypeOK, B!Fails
  PROVE  s3' = [kind |-> s3.kind, how |-> s3.how, at |-> s3.at, todo |-> s3.todo, clean |-> s3.clean,
                state |-> "failed"]
  BY DEF B!TypeOK, B!Fails

\* A new command finds no seeds of those before it.
LEMMA CommandStarts ==
  ASSUME DatabaseInv, NEW kind \in {"create", "drop", "sync", "migrate", "seed"}, NEW how,
         kind = "migrate" => how \in Selections, kind = "seed" => how \in BOOLEAN, B!Start(kind, how)
  PROVE  DatabaseInv'
  <1> DEFINE clear == IF kind = "seed" /\ how = TRUE THEN {d \in B!Dbs : B!Seeded(d)} ELSE {}
             new   == {[of |-> s6 + 1, db |-> d, at |-> -1] : d \in clear}
  <1>1. /\ s3' = [kind |-> IF kind = "seed" THEN "clear" ELSE kind, how |-> how, at |-> 1, todo |-> None,
                  clean |-> s4 = {}, state |-> "runs"]
        /\ s4' = s4 \cup new /\ s5' \in {s5, None} /\ s6' = s6 + 1 /\ UNCHANGED <<s1, s2>>
        /\ s3.state # "runs"
    <2>1. {d \in B!Dbs : kind = "seed" /\ how /\ B!Seeded(d)} = clear
      OBVIOUS
    <2> HIDE DEF clear
    <2> QED BY <2>1 DEF B!Start
  <1>2. \A w \in new : w.of = s6 + 1 /\ w.at = -1 /\ w.db \in B!Dbs /\ B!Seeded(w.db)
                       /\ w = [of |-> w.of, db |-> w.db, at |-> w.at]
    OBVIOUS
  <1>3. new # {} => kind = "seed"
    OBVIOUS
  <1>4. kind = "seed" /\ how = TRUE => \A d \in B!Dbs : B!Seeded(d) => [of |-> s6 + 1, db |-> d, at |-> -1] \in new
    OBVIOUS
  <1> HIDE DEF new, clear
  <1>5. s6 \in Nat /\ 1 \in B!Dbs /\ \A w \in s4 : w.of \in 0 .. s6
    BY DatabaseAssumption DEF DatabaseInv, B!TypeOK, B!Dbs
  <1>6. B!TypeOK'
    <2>1. \A w \in s4' : /\ w = [of |-> w.of, db |-> w.db, at |-> w.at]
                         /\ w.of \in 0 .. s6' /\ w.db \in B!Dbs /\ B!Seeded(w.db)' /\ w.at \in -1 .. s1'[w.db].seeds
      <3>1. ASSUME NEW w \in s4
            PROVE  /\ w = [of |-> w.of, db |-> w.db, at |-> w.at]
                   /\ w.of \in 0 .. s6 + 1 /\ w.db \in B!Dbs /\ B!Seeded(w.db) /\ w.at \in -1 .. s1[w.db].seeds
        BY <1>5 DEF DatabaseInv, B!TypeOK
      <3>2. ASSUME NEW w \in new
            PROVE  w.of \in 0 .. s6 + 1 /\ w.at \in -1 .. s1[w.db].seeds
        <4>1. s1[w.db].seeds \in Nat
          BY <1>2, <3>2, DatabaseAssumption DEF DatabaseInv, B!TypeOK, B!Dbs
        <4> QED BY <1>2, <1>5, <3>2, <4>1
      <3> QED BY <1>1, <1>2, <3>1, <3>2, ConfigurationStays
    <2>2. /\ s3' = [kind |-> s3.kind, how |-> s3.how, at |-> s3.at, todo |-> s3.todo, clean |-> s3.clean,
                    state |-> s3.state]'
          /\ s3'.kind \in {"create", "drop", "sync", "migrate", "clear"}
          /\ s3'.at = 1 /\ s3'.clean \in BOOLEAN /\ s3'.state = "runs" /\ s3'.how = how
          /\ s3'.kind = "clear" => kind = "seed"
          /\ s3'.kind = "migrate" => kind = "migrate"
      BY <1>1
    <2>3. s3'.at \in 1 .. DbCount + 1
      BY <2>2, DatabaseAssumption
    <2> QED BY <1>1, <1>5, <2>1, <2>2, <2>3, ConfigurationStays DEF DatabaseInv, B!TypeOK
  <1>7. B!TodoIsPending' /\ Executed' /\ B!MigrationsOnce'
    BY <1>1 DEF DatabaseInv, B!TodoIsPending, Executed, B!MigrationsOnce
  <1>8. ASSUME B!OneAsync PROVE WritesOwn' /\ B!OneIsSeeded' /\ B!ReseedsInOrder'
    <2>1. \A w \in s4 : w.at < 0
      BY <1>1, <1>8 DEF DatabaseInv, B!OneIsSeeded, B!TypeOK
    <2>2. \A w \in s4' : w.at < 0 /\ (w.of = s6' => w \in new)
      BY <1>1, <1>2, <1>5, <2>1
    <2>3. B!OneIsSeeded'
      <3>1. \A w \in s4' : w.of = s6' => s3'.kind = "clear"
        BY <1>1, <1>3, <2>2
      <3>2. \A w \in s4' : ~(w.at >= 0)
        <4> SUFFICES ASSUME NEW w \in s4' PROVE ~(w.at >= 0)
          OBVIOUS
        <4>1. w.at \in Int /\ w.at < 0
          <5>1. w.at \in -1 .. s1'[w.db].seeds
            BY <1>6 DEF B!TypeOK
          <5> QED BY <2>2, <5>1
        <4> QED BY <4>1
      <3> QED BY <3>1, <3>2 DEF B!OneIsSeeded
    <2>4. B!ReseedsInOrder'
      <3> SUFFICES ASSUME s4 = {}, kind = "seed", how = TRUE
                   PROVE  /\ \A w \in s4' : w.of = s6'
                          /\ \A d \in B!Dbs : B!Seeded(d) => [of |-> s6', db |-> d, at |-> -1] \in s4'
        BY <1>1, ConfigurationStays DEF B!ReseedsInOrder
      <3> QED BY <1>1, <1>2, <1>4
    <2> QED BY <1>1, <1>8, <2>3, <2>4 DEF DatabaseInv, WritesOwn
  <1> QED BY <1>1, <1>6, <1>7, <1>8, ConfigurationStays DEF DatabaseInv

\* Where nothing is seeded there is nothing to say of the seeds.
LEMMA NoSeeds ==
  ASSUME DatabaseInv, B!OneAsync, s3.state = "runs", s3.kind \in {"create", "drop", "sync", "migrate"},
         s3'.kind = s3.kind, UNCHANGED <<s1, s4, s6>>
  PROVE  B!OneIsSeeded' /\ B!ReseedsInOrder'
  <1>1. \A w \in s4 : w.at # -1 \/ w.of # s6
    BY DEF DatabaseInv, B!OneIsSeeded
  <1>2. \A w \in s4 : ~(w.at >= 0)
    BY DEF DatabaseInv, B!OneIsSeeded
  <1> QED BY <1>1, <1>2 DEF B!OneIsSeeded, B!ReseedsInOrder

\* Databases are made, dropped and synchronised one by one.
LEMMA DatabasesChange ==
  ASSUME DatabaseInv, B!Create \/ B!Drop \/ B!Sync
  PROVE  DatabaseInv'
  <1>1. /\ UNCHANGED <<s1, s4, s5, s6>> /\ s3.state = "runs" /\ s3.kind \in {"create", "drop", "sync"}
        /\ B!Forward \/ B!Fails
    BY DEF B!Create, B!Drop, B!Sync, B!Doing
  <1>2. /\ s3.at \in B!Dbs
        /\ s3' = [kind |-> s3.kind, how |-> s3.how, at |-> s3'.at, todo |-> s3'.todo, clean |-> s3.clean,
                  state |-> s3'.state]
        /\ s3'.at \in 1 .. DbCount + 1 /\ s3'.state \in {"runs", "ok", "failed"} /\ (s3'.state = "runs" => s3'.at \in B!Dbs)
    <2>1. s3.at \in B!Dbs /\ DbCount \in Nat
      BY <1>1, DatabaseAssumption DEF DatabaseInv, B!TypeOK
    <2>2. s3.at \in 1 .. DbCount
      BY <2>1 DEF B!Dbs
    <2>3. CASE B!Forward
      <3>1. s3' = [kind |-> s3.kind, how |-> s3.how, at |-> s3.at + 1, todo |-> None, clean |-> s3.clean,
                   state |-> IF s3.at = DbCount THEN "ok" ELSE s3.state]
        BY <2>3, GoesForward DEF DatabaseInv
      <3> QED BY <1>1, <2>1, <2>2, <3>1 DEF B!Dbs
    <2>4. CASE B!Fails
      <3>1. s3' = [kind |-> s3.kind, how |-> s3.how, at |-> s3.at, todo |-> s3.todo, clean |-> s3.clean,
                   state |-> "failed"]
        BY <2>4, CommandFails DEF DatabaseInv
      <3> QED BY <1>1, <2>1, <2>2, <3>1
    <2> QED BY <1>1, <2>3, <2>4
  <1>3. /\ s2' \in [B!Dbs -> B!DatabaseType]
        /\ \A d \in B!Dbs : \/ s2'[d].migrated = s2[d].migrated /\ s2'[d].ran = s2[d].ran /\ s2'[d].lost = s2[d].lost
                            \/ s2'[d].migrated = <<>> /\ s2'[d].ran = [m \in Migrations |-> 0] /\ s2'[d].lost = {}
        /\ \A d \in B!Dbs : s2'[d].rows \in {s2[d].rows, [s \in B!Seeders |-> 0]}
    <2>0. s2 \in [B!Dbs -> B!DatabaseType]
      BY DEF DatabaseInv, B!TypeOK
    <2>1. PICK t \in B!DatabaseType :
            /\ s2' = s2 \/ s2' = [s2 EXCEPT ![s3.at] = t]
            /\ \/ t.migrated = s2[s3.at].migrated /\ t.ran = s2[s3.at].ran /\ t.lost = s2[s3.at].lost
               \/ t.migrated = <<>> /\ t.ran = [m \in Migrations |-> 0] /\ t.lost = {}
            /\ t.rows \in {s2[s3.at].rows, [s \in B!Seeders |-> 0]}
      <3>1. CASE B!Create /\ s2' # s2
        <4> DEFINE t == [s2[s3.at] EXCEPT !.there = @ \/ s1[s3.at].schema]
        <4>1. s2' = [s2 EXCEPT ![s3.at] = t]
          BY <3>1 DEF B!Create
        <4>2. /\ t \in B!DatabaseType /\ t.migrated = s2[s3.at].migrated /\ t.rows = s2[s3.at].rows
              /\ t.ran = s2[s3.at].ran /\ t.lost = s2[s3.at].lost
          BY <1>2, <2>0 DEF B!DatabaseType
        <4> HIDE DEF t
        <4> QED BY <4>1, <4>2
      <3>2. CASE B!Drop /\ s2' # s2
        <4> DEFINE t == [B!Empty EXCEPT !.there = FALSE]
        <4>1. s2' = [s2 EXCEPT ![s3.at] = t]
          BY <3>2 DEF B!Drop
        <4>2. /\ t \in B!DatabaseType /\ t.migrated = <<>> /\ t.rows = [s \in B!Seeders |-> 0]
              /\ t.ran = [m \in Migrations |-> 0] /\ t.lost = {}
          <5> DEFINE e == B!Empty
          <5>1. /\ e \in B!DatabaseType /\ e.migrated = <<>> /\ e.rows = [s \in B!Seeders |-> 0]
                /\ e.ran = [m \in Migrations |-> 0] /\ e.lost = {}
            BY EmptyDatabase
          <5> HIDE DEF e
          <5>2. /\ [e EXCEPT !.there = FALSE] \in B!DatabaseType
                /\ [e EXCEPT !.there = FALSE].migrated = e.migrated /\ [e EXCEPT !.there = FALSE].rows = e.rows
                /\ [e EXCEPT !.there = FALSE].ran = e.ran /\ [e EXCEPT !.there = FALSE].lost = e.lost
            BY <5>1 DEF B!DatabaseType
          <5> QED BY <5>1, <5>2 DEF e
        <4> HIDE DEF t
        <4> QED BY <4>1, <4>2
      <3>3. CASE B!Sync /\ s2' # s2
        BY <3>3, EmptyDatabase DEF B!Sync
      <3>4. CASE s2' = s2
        BY <1>2, <2>0, <3>4
      <3> QED BY <3>1, <3>2, <3>3, <3>4
    <2> QED BY <1>2, <2>0, <2>1
  <1>4. B!TypeOK'
    <2>1. s3'.kind = s3.kind /\ s3'.clean = s3.clean
      BY <1>2
    <2> QED BY <1>1, <1>2, <1>3, <2>1, ConfigurationStays DEF DatabaseInv, B!TypeOK
  <1>5. s3'.kind = s3.kind
    BY <1>2
  <1>6. Executed' /\ B!TodoIsPending' /\ B!MigrationsOnce'
    <2>1. Len(<<>>) = 0
      OBVIOUS
    <2>2. ASSUME NEW d \in B!Dbs
          PROVE  /\ IsFiniteSet(B!ToSet(s2'[d].migrated))
                 /\ B!Cardinality(B!ToSet(s2'[d].migrated)) = Len(s2'[d].migrated)
      BY <1>3, <2>1, NoneExecuted DEF DatabaseInv, Executed, B!MigrationsOnce
    <2>3. ASSUME NEW d \in B!Dbs
          PROVE  Recorded(s2'[d])
      <3>1. Recorded(s2[d])
        BY RecordedOnce DEF DatabaseInv
      <3>2. CASE s2'[d].migrated = s2[d].migrated /\ s2'[d].ran = s2[d].ran /\ s2'[d].lost = s2[d].lost
        BY <3>1, <3>2 DEF Recorded
      <3> QED BY <1>3, <3>2, EmptyIsRecorded
    <2> QED BY <1>1, <1>5, <2>2, <2>3 DEF Executed, B!TodoIsPending, B!MigrationsOnce, Recorded
  <1>7. WritesOwn => WritesOwn'
    BY <1>3 DEF WritesOwn
  <1> QED BY <1>1, <1>4, <1>5, <1>6, <1>7, NoSeeds, ConfigurationStays DEF DatabaseInv

\* A command on one connection stays at it or goes on to the next.
LEMMA ChosenStays ==
  ASSUME s1' = s1, s3'.how = s3.how, NEW d
  PROVE  B!Chosen(d)' = B!Chosen(d)
  BY DEF B!Chosen

LEMMA ChosenAreMigrations ==
  ASSUME B!TypeOK, s3.kind = "migrate", NEW d \in B!Dbs
  PROVE  B!Chosen(d) \in SUBSET Migrations
  BY DatabaseAssumption DEF B!TypeOK, B!Chosen, B!Dbs

LEMMA LooksForMigrations ==
  ASSUME DatabaseInv, B!Look
  PROVE  DatabaseInv'
  <1>1. /\ UNCHANGED <<s1, s2, s4, s5, s6>> /\ s3.state = "runs" /\ s3.kind = "migrate"
        /\ s3.at \in B!Dbs /\ s3.how \in Selections
    BY DEF DatabaseInv, B!TypeOK, B!Look, B!Doing
  <1>3. /\ s3'.kind = "migrate" /\ s3'.how = s3.how /\ s3'.at = s3.at /\ s3'.clean = s3.clean
        /\ s3'.state \in {"runs", "failed"}
        /\ s3'.state = "runs" => s3'.todo = B!Chosen(s3.at) \cap B!Pending(s3.at)
        /\ s3' = [kind |-> s3'.kind, how |-> s3'.how, at |-> s3'.at, todo |-> s3'.todo, clean |-> s3'.clean,
                  state |-> s3'.state]
    <2>1. CASE B!Fails
      <3>1. s3' = [kind |-> s3.kind, how |-> s3.how, at |-> s3.at, todo |-> s3.todo, clean |-> s3.clean,
                   state |-> "failed"]
        BY <2>1, CommandFails DEF DatabaseInv
      <3> QED BY <1>1, <3>1
    <2>2. CASE ~B!Fails
      <3>1. s3' = [s3 EXCEPT !.todo = B!Chosen(s3.at) \cap B!Pending(s3.at)]
        BY <2>2 DEF B!Look
      <3>2. s3' = [kind |-> s3.kind, how |-> s3.how, at |-> s3.at, todo |-> B!Chosen(s3.at) \cap B!Pending(s3.at),
                   clean |-> s3.clean, state |-> s3.state]
        BY <3>1 DEF DatabaseInv, B!TypeOK
      <3> QED BY <1>1, <3>2
    <2> QED BY <2>1, <2>2
  <1>4. B!TypeOK'
    BY <1>1, <1>3, ConfigurationStays DEF DatabaseInv, B!TypeOK
  <1>5. B!TodoIsPending'
    <2>1. B!Chosen(s3.at) \in SUBSET Migrations
      BY <1>1, ChosenAreMigrations DEF DatabaseInv
    <2>2. B!Chosen(s3.at)' = B!Chosen(s3.at)
      BY <1>1, <1>3 DEF B!Chosen
    <2>3. s3'.state = "runs" => s3'.todo = B!Chosen(s3.at) \cap (Migrations \ B!ToSet(s2[s3.at].migrated))
      BY <1>3 DEF B!Pending
    <2> SUFFICES ASSUME s3'.state = "runs"
                 PROVE  /\ s3'.todo \in SUBSET Migrations /\ s3'.todo \cap B!ToSet(s2[s3.at].migrated) = {}
                        /\ B!Chosen(s3.at) \subseteq s3'.todo \cup B!ToSet(s2[s3.at].migrated)
      BY <1>1, <1>3, <2>2 DEF B!TodoIsPending
    <2> QED BY <2>1, <2>3
  <1>6. Executed' /\ B!MigrationsOnce'
    <2>1. \A d : B!Chosen(d)' = B!Chosen(d)
      BY <1>1, <1>3, ChosenStays
    <2> QED BY <1>1, <1>3, <2>1 DEF DatabaseInv, Executed, B!MigrationsOnce
  <1> QED BY <1>1, <1>3, <1>4, <1>5, <1>6, NoSeeds, ConfigurationStays DEF DatabaseInv, WritesOwn

\* What becomes of a database when a migration runs on it.
LEMMA RunsOne ==
  ASSUME DatabaseInv, s3.at \in B!Dbs, NEW m \in Migrations, NEW recorded \in BOOLEAN, B!Ran(m, recorded)
  PROVE  /\ s2' \in [B!Dbs -> B!DatabaseType]
         /\ \A d \in B!Dbs : d # s3.at => s2'[d] = s2[d]
         /\ s2'[s3.at].rows = s2[s3.at].rows
         /\ s2'[s3.at].migrated = IF recorded THEN Append(s2[s3.at].migrated, m) ELSE s2[s3.at].migrated
         /\ s2'[s3.at].ran = [s2[s3.at].ran EXCEPT ![m] = @ + 1]
         /\ s2'[s3.at].lost = IF recorded THEN s2[s3.at].lost ELSE s2[s3.at].lost \cup {m}
  <1> DEFINE at == s3.at
             was == s2[at]
             list == IF recorded THEN Append(was.migrated, m) ELSE was.migrated
             ran == [was.ran EXCEPT ![m] = @ + 1]
             lost == IF recorded THEN was.lost ELSE was.lost \cup {m}
             t == [was EXCEPT !.ran = ran, !.migrated = list, !.lost = lost]
  <1>1. s2 \in [B!Dbs -> B!DatabaseType] /\ was \in B!DatabaseType
    BY DEF DatabaseInv, B!TypeOK
  <1>2. /\ list \in Seq(Migrations) /\ ran \in [Migrations -> Nat] /\ lost \in SUBSET Migrations
    <2>1. was.migrated \in Seq(Migrations) /\ was.ran \in [Migrations -> Nat] /\ was.lost \in SUBSET Migrations
      BY <1>1 DEF B!DatabaseType
    <2> HIDE DEF was
    <2>2. was.ran[m] + 1 \in Nat /\ Append(was.migrated, m) \in Seq(Migrations)
      BY <2>1
    <2> QED BY <2>1, <2>2
  <1>3. s2' = [s2 EXCEPT ![at] = t]
    BY <1>1 DEF B!Ran, B!DatabaseType
  <1> HIDE DEF list, ran, lost
  <1>4. /\ t \in B!DatabaseType /\ t.rows = was.rows /\ t.migrated = list /\ t.ran = ran /\ t.lost = lost
    BY <1>1, <1>2 DEF B!DatabaseType
  <1> HIDE DEF t
  <1>5. s2'[at] = t /\ s2' \in [B!Dbs -> B!DatabaseType] /\ \A d \in B!Dbs : d # at => s2'[d] = s2[d]
    BY <1>1, <1>3, <1>4
  <1> QED BY <1>4, <1>5 DEF list, ran, lost

LEMMA ExecutesNext ==
  ASSUME DatabaseInv, B!Execute
  PROVE  DatabaseInv'
  <1> DEFINE at   == s3.at
             done == B!ToSet(s2[at].migrated)
             next == B!Min(s3.todo)
  <1>1. /\ UNCHANGED <<s1, s4, s5, s6>> /\ s3.state = "runs" /\ s3.kind = "migrate"
        /\ at \in B!Dbs /\ at \in 1 .. DbCount /\ s3.how \in Selections /\ s3.todo # None
    BY DatabaseAssumption DEF DatabaseInv, B!TypeOK, B!Execute, B!Doing, B!Dbs
  <1>2. /\ s3.todo \in SUBSET Migrations /\ s3.todo \cap done = {}
        /\ B!Chosen(at) \subseteq s3.todo \cup done
    BY <1>1 DEF DatabaseInv, B!TodoIsPending
  <1>3. /\ s2 \in [B!Dbs -> B!DatabaseType] /\ s2[at] \in B!DatabaseType
    BY <1>1 DEF DatabaseInv, B!TypeOK
  <1>4. PICK todo, stage, n :
          /\ s3' = [kind |-> "migrate", how |-> s3.how, at |-> n, todo |-> todo, clean |-> s3.clean, state |-> stage]
          /\ \/ /\ s2' = s2 /\ n = at + 1 /\ s3.todo = {} /\ todo = None
                /\ stage = IF at = DbCount THEN "ok" ELSE "runs"
             \/ s2' = s2 /\ n = at /\ stage = "failed"
             \/ B!Ran(next, FALSE) /\ s3.todo # {} /\ n = at /\ stage = "failed"
             \/ B!Ran(next, TRUE) /\ s3.todo # {} /\ n = at /\ todo = s3.todo \ {next} /\ stage = "runs"
    <2>1. CASE s3.todo = {} /\ B!Forward /\ UNCHANGED s2
      <3>1. s3' = [kind |-> s3.kind, how |-> s3.how, at |-> at + 1, todo |-> None, clean |-> s3.clean,
                   state |-> IF at = DbCount THEN "ok" ELSE s3.state]
        BY <2>1, GoesForward DEF DatabaseInv
      <3> QED BY <1>1, <2>1, <3>1
    <2>2. CASE B!Fails /\ (UNCHANGED s2 \/ (s3.todo # {} /\ B!Ran(next, FALSE)))
      <3>1. s3' = [kind |-> s3.kind, how |-> s3.how, at |-> at, todo |-> s3.todo, clean |-> s3.clean,
                   state |-> "failed"]
        BY <2>2, CommandFails DEF DatabaseInv
      <3> QED BY <1>1, <2>2, <3>1
    <2>3. CASE s3.todo # {} /\ B!Ran(next, TRUE) /\ s3' = [s3 EXCEPT !.todo = @ \ {next}]
      <3>1. s3' = [kind |-> s3.kind, how |-> s3.how, at |-> at, todo |-> s3.todo \ {next}, clean |-> s3.clean,
                   state |-> s3.state]
        BY <2>3 DEF DatabaseInv, B!TypeOK
      <3> QED BY <1>1, <2>3, <3>1
    <2> QED BY <2>1, <2>2, <2>3 DEF B!Execute
  <1>5. /\ s3'.kind = "migrate" /\ s3'.how = s3.how /\ s3'.clean = s3.clean
        /\ s3'.at = n /\ s3'.todo = todo /\ s3'.state = stage
        /\ s3' = [kind |-> s3'.kind, how |-> s3'.how, at |-> s3'.at, todo |-> s3'.todo, clean |-> s3'.clean,
                  state |-> s3'.state]
        /\ n \in 1 .. DbCount + 1 /\ stage \in {"runs", "ok", "failed"} /\ (stage = "runs" => n \in B!Dbs)
    <2>1. \/ n = at + 1 /\ stage = IF at = DbCount THEN "ok" ELSE "runs"
          \/ n = at /\ (stage = "failed" \/ stage = "runs")
      BY <1>4, Zenon
    <2>2. s3' = [kind |-> "migrate", how |-> s3.how, at |-> n, todo |-> todo, clean |-> s3.clean, state |-> stage]
      BY <1>4, Zenon
    <2> QED BY <1>1, <2>1, <2>2, DatabaseAssumption DEF B!Dbs
  <1>6. s3.todo # {} => next \in s3.todo /\ next \in Migrations /\ next \notin done
    BY <1>2, LeastIsOne, DatabaseAssumption
  <1> HIDE DEF next
  \* What is there of each database, in either of the three ways that it goes.
  <1>7. /\ s2' \in [B!Dbs -> B!DatabaseType]
        /\ \A d \in B!Dbs : s2'[d].rows = s2[d].rows
        /\ \A d \in B!Dbs : d # at => s2'[d] = s2[d]
        /\ \/ /\ s2' = s2
              /\ \/ n = at + 1 /\ s3.todo = {} /\ todo = None
                 \/ n = at /\ stage = "failed"
           \/ /\ s2'[at].migrated = s2[at].migrated /\ s2'[at].lost = s2[at].lost \cup {next} /\ s3.todo # {}
              /\ s2'[at].ran = [s2[at].ran EXCEPT ![next] = @ + 1] /\ n = at /\ stage = "failed"
           \/ /\ s2'[at].migrated = Append(s2[at].migrated, next) /\ s2'[at].lost = s2[at].lost /\ s3.todo # {}
              /\ s2'[at].ran = [s2[at].ran EXCEPT ![next] = @ + 1]
              /\ n = at /\ todo = s3.todo \ {next} /\ stage = "runs"
    <2>1. CASE /\ s2' = s2
               /\ \/ n = at + 1 /\ s3.todo = {} /\ todo = None
                  \/ n = at /\ stage = "failed"
      BY <1>3, <2>1
    <2>2. CASE B!Ran(next, FALSE) /\ s3.todo # {} /\ n = at /\ stage = "failed"
      <3>1. /\ s2' \in [B!Dbs -> B!DatabaseType] /\ s2'[at].rows = s2[at].rows
            /\ \A d \in B!Dbs : d # at => s2'[d] = s2[d]
            /\ s2'[at].migrated = s2[at].migrated /\ s2'[at].lost = s2[at].lost \cup {next}
            /\ s2'[at].ran = [s2[at].ran EXCEPT ![next] = @ + 1]
        BY <1>1, <1>6, <2>2, RunsOne
      <3> HIDE DEF at
      <3> QED BY <2>2, <3>1
    <2>3. CASE B!Ran(next, TRUE) /\ s3.todo # {} /\ n = at /\ todo = s3.todo \ {next} /\ stage = "runs"
      <3>1. /\ s2' \in [B!Dbs -> B!DatabaseType] /\ s2'[at].rows = s2[at].rows
            /\ \A d \in B!Dbs : d # at => s2'[d] = s2[d]
            /\ s2'[at].migrated = Append(s2[at].migrated, next) /\ s2'[at].lost = s2[at].lost
            /\ s2'[at].ran = [s2[at].ran EXCEPT ![next] = @ + 1]
        BY <1>1, <1>6, <2>3, RunsOne
      <3> HIDE DEF at
      <3> QED BY <2>3, <3>1
    <2>4. \/ s2' = s2 /\ n = at + 1 /\ s3.todo = {} /\ todo = None
          \/ s2' = s2 /\ n = at /\ stage = "failed"
          \/ B!Ran(next, FALSE) /\ s3.todo # {} /\ n = at /\ stage = "failed"
          \/ B!Ran(next, TRUE) /\ s3.todo # {} /\ n = at /\ todo = s3.todo \ {next} /\ stage = "runs"
      BY <1>4, Zenon
    <2> HIDE DEF at
    <2> QED BY <2>1, <2>2, <2>3, <2>4
  <1> DEFINE became == s2'[at]
  <1>8. /\ IsFiniteSet(B!ToSet(became.migrated)) /\ B!Cardinality(B!ToSet(became.migrated)) = Len(became.migrated)
        /\ B!ToSet(became.migrated) = IF stage = "runs" /\ n = at THEN done \cup {next} ELSE done
        /\ Recorded(became)
    <2> DEFINE was == s2[at]
    <2>1. /\ IsFiniteSet(done) /\ B!Cardinality(done) = Len(was.migrated) /\ Recorded(was)
      BY <1>1, RecordedOnce DEF DatabaseInv, Executed
    <2>2. was.migrated \in Seq(Migrations) /\ was.ran \in [Migrations -> Nat]
      BY <1>3 DEF B!DatabaseType
    <2>3. CASE s2' = s2 /\ (n = at + 1 \/ stage = "failed")
      BY <1>1, <2>1, <2>3
    <2>4. CASE /\ became.migrated = was.migrated /\ became.lost = was.lost \cup {next} /\ s3.todo # {}
               /\ became.ran = [was.ran EXCEPT ![next] = @ + 1] /\ stage = "failed"
      <3> HIDE DEF became, was
      <3>1. Recorded(became)
        BY <1>6, <2>1, <2>2, <2>4, RunIsRecorded DEF was
      <3> QED BY <2>1, <2>4, <3>1 DEF was
    <2>5. CASE /\ became.migrated = Append(was.migrated, next) /\ became.lost = was.lost /\ s3.todo # {}
               /\ became.ran = [was.ran EXCEPT ![next] = @ + 1] /\ n = at /\ stage = "runs"
      <3>1. next \in Migrations /\ next \notin B!ToSet(was.migrated) /\ done = B!ToSet(was.migrated)
        BY <1>6, <2>5
      <3> HIDE DEF became, was, done
      <3>2. /\ B!ToSet(became.migrated) = done \cup {next} /\ IsFiniteSet(B!ToSet(became.migrated))
            /\ B!Cardinality(B!ToSet(became.migrated)) = Len(became.migrated)
        BY <2>1, <2>2, <2>5, <3>1, AppendsOnce
      <3>3. Recorded(became)
        BY <2>1, <2>2, <2>5, <3>1, <3>2, RunIsRecorded
      <3> QED BY <2>5, <3>2, <3>3
    <2> QED BY <1>7, <2>3, <2>4, <2>5
  <1> HIDE DEF became
  <1>9. B!TypeOK'
    BY <1>1, <1>5, <1>7, ConfigurationStays DEF DatabaseInv, B!TypeOK
  <1>10. \A d : B!Chosen(d)' = B!Chosen(d)
    BY <1>1, <1>5, ChosenStays
  <1>11. B!TodoIsPending'
    <2> SUFFICES ASSUME stage = "runs", todo # None
                 PROVE  /\ todo \in SUBSET Migrations /\ todo \cap B!ToSet(s2'[n].migrated) = {}
                        /\ B!Chosen(n) \subseteq todo \cup B!ToSet(s2'[n].migrated)
      BY <1>5, <1>10 DEF B!TodoIsPending
    <2>1. n = at /\ todo = s3.todo \ {next} /\ s3.todo # {}
      BY <1>7
    <2>2. B!ToSet(s2'[n].migrated) = done \cup {next}
      BY <1>8, <2>1 DEF became
    <2> HIDE DEF done
    <2> QED BY <1>2, <1>6, <2>1, <2>2
  <1>12. /\ Executed'
         /\ \A d \in B!Dbs : B!Cardinality(B!ToSet(s2'[d].migrated)) = Len(s2'[d].migrated) /\ Recorded(s2'[d])
    <2>1. ASSUME NEW d \in B!Dbs
          PROVE  /\ IsFiniteSet(B!ToSet(s2'[d].migrated))
                 /\ B!Cardinality(B!ToSet(s2'[d].migrated)) = Len(s2'[d].migrated)
                 /\ Recorded(s2'[d])
      <3>1. CASE d = at
        BY <1>8, <3>1 DEF became
      <3>2. CASE d # at
        <4>1. s2'[d] = s2[d]
          BY <1>7, <3>2
        <4> QED BY <4>1, RecordedOnce DEF DatabaseInv, Executed
      <3> QED BY <3>1, <3>2
    <2> QED BY <2>1 DEF Executed
  <1>13. ASSUME NEW d \in 1 .. n - 1
         PROVE  B!Chosen(d) \subseteq B!ToSet(s2'[d].migrated)
    <2>0. n \in {at, at + 1} /\ at \in Int
      BY <1>1, <1>7, DatabaseAssumption
    <2>1. CASE d = at
      <3>1. n = at + 1 /\ s3.todo = {} /\ s2' = s2
        BY <1>7, <2>0, <2>1
      <3> QED BY <1>2, <2>1, <3>1
    <2>2. CASE d # at
      <3>1. d \in 1 .. at - 1 /\ d \in B!Dbs
        BY <1>1, <2>0, <2>2, DatabaseAssumption DEF B!Dbs
      <3>2. s2'[d].migrated = s2[d].migrated
        BY <1>7, <2>2, <3>1
      <3> QED BY <1>1, <3>1, <3>2 DEF DatabaseInv, B!MigrationsOnce
    <2> QED BY <2>1, <2>2
  <1>14. B!MigrationsOnce'
    BY <1>5, <1>10, <1>12, <1>13 DEF B!MigrationsOnce, Recorded
  <1>15. WritesOwn => WritesOwn'
    BY <1>7 DEF WritesOwn
  <1>16. B!OneAsync => B!OneIsSeeded' /\ B!ReseedsInOrder'
    BY <1>1, <1>5, NoSeeds
  <1> QED BY <1>1, <1>9, <1>11, <1>12, <1>14, <1>15, <1>16, ConfigurationStays DEF DatabaseInv

\* What only seeds changes nothing of the migrations.
LEMMA MigrationsStay ==
  ASSUME DatabaseInv, s1' = s1,
         \A d \in B!Dbs : s2'[d].migrated = s2[d].migrated /\ s2'[d].ran = s2[d].ran /\ s2'[d].lost = s2[d].lost,
         \/ s3' = s3
         \/ s3'.kind # "migrate"
         \/ s3'.state = "failed" /\ s3'.kind = s3.kind /\ s3'.how = s3.how /\ s3'.at = s3.at
  PROVE  Executed' /\ B!TodoIsPending' /\ B!MigrationsOnce'
  <1>1. /\ Executed'
        /\ \A d \in B!Dbs : B!Cardinality(B!ToSet(s2'[d].migrated)) = Len(s2'[d].migrated) /\ Recorded(s2'[d])
    <2>1. \A d \in B!Dbs : B!Cardinality(B!ToSet(s2[d].migrated)) = Len(s2[d].migrated) /\ Recorded(s2[d])
      BY RecordedOnce DEF DatabaseInv
    <2> QED BY <2>1 DEF DatabaseInv, Executed, Recorded
  <1>2. CASE s3'.kind # "migrate"
    BY <1>1, <1>2 DEF B!TodoIsPending, B!MigrationsOnce, Recorded
  <1>3. CASE s3'.kind = "migrate"
    <2>1. s3.kind = "migrate" /\ s3'.how = s3.how /\ s3'.at = s3.at /\ (s3'.state = "failed" \/ s3' = s3)
      BY <1>3
    <2>2. \A d : B!Chosen(d)' = B!Chosen(d)
      BY <2>1, ChosenStays
    <2>3. s3.at - 1 \in 0 .. DbCount
      BY DatabaseAssumption DEF DatabaseInv, B!TypeOK
    <2>4. \A d \in 1 .. s3.at - 1 : B!Chosen(d) \subseteq B!ToSet(s2'[d].migrated)
      <3>1. ASSUME NEW d \in 1 .. s3.at - 1 PROVE d \in B!Dbs /\ B!Chosen(d) \subseteq B!ToSet(s2[d].migrated)
        BY <2>1, <2>3, DatabaseAssumption DEF DatabaseInv, B!MigrationsOnce, B!Dbs
      <3> QED BY <3>1
    <2>5. B!MigrationsOnce'
      BY <1>1, <2>1, <2>2, <2>4 DEF B!MigrationsOnce, Recorded
    <2>6. B!TodoIsPending'
      <3>1. CASE s3'.state = "failed"
        BY <3>1 DEF B!TodoIsPending
      <3>2. CASE s3' = s3 /\ s3.state = "runs"
        <4>1. s3.at \in B!Dbs
          BY <2>1, <3>2 DEF DatabaseInv, B!TypeOK
        <4> QED BY <2>2, <3>2, <4>1 DEF DatabaseInv, B!TodoIsPending
      <3>3. CASE s3' = s3 /\ s3.state # "runs"
        BY <3>3 DEF B!TodoIsPending
      <3> QED BY <2>1, <3>1, <3>2, <3>3
    <2> QED BY <1>1, <2>5, <2>6
  <1> QED BY <1>2, <1>3

LEMMA WorkIs ==
  ASSUME DatabaseInv, NEW w \in s4
  PROVE  /\ w = [of |-> w.of, db |-> w.db, at |-> w.at]
         /\ w.of \in 0 .. s6 /\ w.db \in B!Dbs /\ B!Seeded(w.db) /\ w.at \in -1 .. s1[w.db].seeds
         /\ s6 \in Nat /\ s1[w.db].seeds \in Nat /\ s1[w.db].seeds > 0
  <1>1. /\ w = [of |-> w.of, db |-> w.db, at |-> w.at]
        /\ w.of \in 0 .. s6 /\ w.db \in B!Dbs /\ B!Seeded(w.db) /\ w.at \in -1 .. s1[w.db].seeds
        /\ s6 \in Nat /\ s1 \in DbConfs
    BY DEF DatabaseInv, B!TypeOK
  <1> QED BY <1>1, DatabaseAssumption DEF B!Seeded, B!Dbs

\* What runs side by side stays of the kind it is.
LEMMA WorkStays ==
  ASSUME DatabaseInv, s1' = s1, s6' = s6,
         \A w \in s4' : \/ w \in s4
                        \/ /\ w = [of |-> w.of, db |-> w.db, at |-> w.at]
                           /\ w.of = s6 /\ w.db \in B!Dbs /\ B!Seeded(w.db) /\ w.at = 0
                        \/ \E v \in s4 : /\ w = [of |-> v.of, db |-> v.db, at |-> w.at]
                                         /\ w.at \in 0 .. s1[v.db].seeds
  PROVE  \A w \in s4' :
           /\ w = [of |-> w.of, db |-> w.db, at |-> w.at]
           /\ w.of \in 0 .. s6' /\ w.db \in B!Dbs /\ B!Seeded(w.db)' /\ w.at \in -1 .. s1'[w.db].seeds
  <1> SUFFICES ASSUME NEW w \in s4'
               PROVE  /\ w = [of |-> w.of, db |-> w.db, at |-> w.at]
                      /\ w.of \in 0 .. s6 /\ w.db \in B!Dbs /\ B!Seeded(w.db) /\ w.at \in -1 .. s1[w.db].seeds
    BY ConfigurationStays
  <1>1. CASE w \in s4
    BY <1>1, WorkIs
  <1>2. CASE /\ w = [of |-> w.of, db |-> w.db, at |-> w.at]
             /\ w.of = s6 /\ w.db \in B!Dbs /\ B!Seeded(w.db) /\ w.at = 0
    <2>1. s6 \in Nat /\ s1[w.db].seeds \in Nat
      BY <1>2, DatabaseAssumption DEF DatabaseInv, B!TypeOK, B!Dbs
    <2> QED BY <1>2, <2>1
  <1>3. CASE \E v \in s4 : w = [of |-> v.of, db |-> v.db, at |-> w.at] /\ w.at \in 0 .. s1[v.db].seeds
    <2>1. PICK v \in s4 : w = [of |-> v.of, db |-> v.db, at |-> w.at] /\ w.at \in 0 .. s1[v.db].seeds
      BY <1>3
    <2>2. w.of = v.of /\ w.db = v.db
      BY <2>1
    <2>3. /\ v.of \in 0 .. s6 /\ v.db \in B!Dbs /\ B!Seeded(v.db) /\ s1[v.db].seeds \in Nat
      BY WorkIs
    <2> QED BY <2>1, <2>2, <2>3
  <1> QED BY <1>1, <1>2, <1>3

\* Of the seeds that are under way there is one, of the command that runs.
LEMMA OneAtWork ==
  ASSUME DatabaseInv, B!OneAsync, NEW w \in s4, w.at >= 0
  PROVE  /\ w.of = s6 /\ s3.state = "runs" /\ s3.kind \in {"seed", "spread"}
         /\ s3.kind = "seed" => ~s1[w.db].async /\ w.db < s3.at
         /\ s3.kind = "spread" => s1[w.db].async
         /\ w.at > 0 => s5 = w.db
         /\ \A v \in s4 : v.at >= 0 => v = w
  BY DEF DatabaseInv, B!OneIsSeeded

LEMMA NoneAtWork ==
  ASSUME DatabaseInv, B!OneAsync, B!Mine = {}
  PROVE  \A w \in s4 : ~(w.at >= 0) /\ w.of # s6
  BY DEF B!Mine, DatabaseInv, B!OneIsSeeded

\* The work that a step of a running seed finds.
LEMMA SeedSteps ==
  ASSUME DatabaseInv, s1' = s1, s2' = s2, s6' = s6, s5' \in B!Dbs \cup {None},
         s3.state = "runs", s3.kind \in {"clear", "seed", "spread"},
         NEW kind \in {"seed", "spread"}, NEW at \in 1 .. DbCount + 1, NEW stage \in {"runs", "ok"},
         s3' = [kind |-> kind, how |-> s3.how, at |-> at, todo |-> s3.todo, clean |-> s3.clean, state |-> stage],
         \A w \in s4' : \/ w \in s4
                        \/ /\ w = [of |-> w.of, db |-> w.db, at |-> w.at]
                           /\ w.of = s6 /\ w.db \in B!Dbs /\ B!Seeded(w.db) /\ w.at = 0
  PROVE  B!TypeOK' /\ Executed' /\ B!TodoIsPending' /\ B!MigrationsOnce' /\ (WritesOwn => WritesOwn')
  <1>1. /\ s3' = [kind |-> s3'.kind, how |-> s3'.how, at |-> s3'.at, todo |-> s3'.todo, clean |-> s3'.clean,
                  state |-> s3'.state]
        /\ s3'.kind = kind /\ s3'.how = s3.how /\ s3'.at = at /\ s3'.clean = s3.clean /\ s3'.state = stage
    OBVIOUS
  <1>2. \A w \in s4' :
           /\ w = [of |-> w.of, db |-> w.db, at |-> w.at]
           /\ w.of \in 0 .. s6' /\ w.db \in B!Dbs /\ B!Seeded(w.db)' /\ w.at \in -1 .. s1'[w.db].seeds
    BY WorkStays
  <1>3. B!TypeOK'
    BY <1>1, <1>2, ConfigurationStays DEF DatabaseInv, B!TypeOK
  <1>4. Executed' /\ B!TodoIsPending' /\ B!MigrationsOnce'
    BY <1>1, MigrationsStay
  <1> QED BY <1>3, <1>4 DEF WritesOwn

LEMMA SeededStays ==
  ASSUME s1' = s1, s2' = s2
  PROVE  \A d, n : B!SeededTo(d, n)' = B!SeededTo(d, n)
  BY DEF B!SeededTo

LEMMA TablesAreCleared ==
  ASSUME DatabaseInv, B!Cleared
  PROVE  DatabaseInv'
  <1>1. /\ UNCHANGED <<s1, s2, s4, s5, s6>> /\ s3.state = "runs" /\ s3.kind = "clear" /\ B!Mine = {} /\ s3.at = 1
        /\ s3.how \in BOOLEAN
    BY DEF B!Cleared, B!Doing, DatabaseInv, B!TypeOK
  <1>2. s3' = [kind |-> "seed", how |-> s3.how, at |-> 1, todo |-> s3.todo, clean |-> s3.clean, state |-> "runs"]
    <2>1. s3' = [s3 EXCEPT !.kind = "seed"]
      BY DEF B!Cleared
    <2> QED BY <1>1, <2>1 DEF DatabaseInv, B!TypeOK
  <1>3. B!TypeOK' /\ Executed' /\ B!TodoIsPending' /\ B!MigrationsOnce' /\ (WritesOwn => WritesOwn')
    <2>1. s5' \in B!Dbs \cup {None} /\ 1 \in 1 .. DbCount + 1
      BY <1>1, DatabaseAssumption DEF DatabaseInv, B!TypeOK
    <2> QED BY <1>1, <1>2, <2>1, SeedSteps
  <1>4. ASSUME B!OneAsync PROVE B!OneIsSeeded' /\ B!ReseedsInOrder'
    <2>1. \A w \in s4 : ~(w.at >= 0) /\ w.of # s6
      BY <1>1, <1>4, NoneAtWork
    <2>2. B!OneIsSeeded'
      BY <1>1, <2>1 DEF B!OneIsSeeded
    <2>3. B!ReseedsInOrder'
      <3> SUFFICES ASSUME s3.clean, s3.how = TRUE
                   PROVE  /\ \A w \in s4 : w.of = s6
                          /\ \A d \in B!Dbs : B!Seeded(d) => B!SeededTo(d, 0)
        <4>1. \A d \in B!Dbs : ~(d < 1)
          BY DEF B!Dbs
        <4> QED BY <1>1, <1>2, <4>1, SeededStays, ConfigurationStays DEF B!ReseedsInOrder
      <3>1. /\ \A w \in s4 : w.of = s6
            /\ \A d \in B!Dbs : B!Seeded(d) => B!SeededTo(d, 0) \/ [of |-> s6, db |-> d, at |-> -1] \in s4
        BY <1>1, <1>4 DEF DatabaseInv, B!ReseedsInOrder
      <3>2. \A d : [of |-> s6, db |-> d, at |-> -1] \notin s4
        BY <2>1
      <3> QED BY <3>1, <3>2
    <2> QED BY <2>2, <2>3
  <1> QED BY <1>1, <1>3, <1>4, ConfigurationStays DEF DatabaseInv

LEMMA SeedsEnd ==
  ASSUME DatabaseInv, B!SeedEnds
  PROVE  DatabaseInv'
  <1>1. /\ UNCHANGED <<s1, s2, s4, s5, s6>> /\ s3.state = "runs" /\ s3.kind = "spread" /\ B!Mine = {}
        /\ s3.how \in BOOLEAN /\ s3.at \in 1 .. DbCount + 1
    BY DEF B!SeedEnds, B!Doing, DatabaseInv, B!TypeOK
  <1>2. s3' = [kind |-> "spread", how |-> s3.how, at |-> s3.at, todo |-> s3.todo, clean |-> s3.clean, state |-> "ok"]
    <2>1. s3' = [s3 EXCEPT !.state = "ok"]
      BY DEF B!SeedEnds
    <2> QED BY <1>1, <2>1 DEF DatabaseInv, B!TypeOK
  <1>3. B!TypeOK' /\ Executed' /\ B!TodoIsPending' /\ B!MigrationsOnce' /\ (WritesOwn => WritesOwn')
    <2>1. s5' \in B!Dbs \cup {None}
      BY <1>1 DEF DatabaseInv, B!TypeOK
    <2> QED BY <1>1, <1>2, <2>1, SeedSteps
  <1>4. ASSUME B!OneAsync PROVE B!OneIsSeeded' /\ B!ReseedsInOrder'
    <2>1. \A w \in s4 : ~(w.at >= 0) /\ w.of # s6
      BY <1>1, <1>4, NoneAtWork
    <2>2. B!OneIsSeeded'
      BY <1>1, <1>2, <2>1 DEF B!OneIsSeeded
    <2>3. B!ReseedsInOrder'
      <3> SUFFICES ASSUME s3.clean, s3.how = TRUE
                   PROVE  /\ s4 = {}
                          /\ \A d \in B!Dbs : B!Seeded(d) =>
                               /\ \A w \in s4 : w.db = d => B!SeededTo(d, w.at)
                               /\ (\A w \in s4 : w.db # d) => B!SeededTo(d, s1[d].seeds + 1)
        BY <1>1, <1>2, SeededStays, ConfigurationStays DEF B!ReseedsInOrder
      <3>1. /\ \A w \in s4 : w.of = s6
            /\ \A d \in B!Dbs : B!Seeded(d) =>
                 /\ \A w \in s4 : w.db = d => B!SeededTo(d, w.at)
                 /\ (\A w \in s4 : w.db # d) => B!SeededTo(d, s1[d].seeds + 1)
        BY <1>1, <1>4 DEF DatabaseInv, B!ReseedsInOrder
      <3> QED BY <2>1, <3>1
    <2> QED BY <2>2, <2>3
  <1> QED BY <1>1, <1>3, <1>4, ConfigurationStays DEF DatabaseInv

\* The connections that are seeded side by side at the end.
Aside == {d \in B!Dbs : B!Seeded(d) /\ s1[d].async}

LEMMA AsideIsOne ==
  ASSUME B!OneAsync, DatabaseInv, NEW d \in Aside, NEW e \in Aside
  PROVE  d = e
  <1> SUFFICES ASSUME d # e PROVE FALSE
    OBVIOUS
  <1>1. Cardinality(Aside) <= 1
    BY SameCount DEF B!OneAsync, Aside
  <1>2. IsFiniteSet(Aside) /\ Cardinality(Aside) \in Nat
    <2>1. IsFiniteSet(1 .. DbCount)
      BY FS_Interval, DatabaseAssumption
    <2>2. Aside \subseteq 1 .. DbCount
      BY DEF Aside, B!Dbs
    <2> QED BY <2>1, <2>2, FS_Subset, FS_CardinalityType
  <1>3. IsFiniteSet({d}) /\ Cardinality({d}) = 1
    BY FS_Singleton
  <1>4. IsFiniteSet({d} \cup {e}) /\ Cardinality({d} \cup {e}) = 2
    BY <1>3, FS_AddElement
  <1>5. Cardinality({d} \cup {e}) <= Cardinality(Aside)
    BY <1>2, FS_Subset
  <1> QED BY <1>1, <1>2, <1>4, <1>5

LEMMA SeedsNext ==
  ASSUME DatabaseInv, B!SeedNext
  PROVE  DatabaseInv'
  <1> DEFINE ds  == IF s3.at > DbCount THEN Aside ELSE {d \in {s3.at} : B!Seeded(d) /\ ~s1[d].async}
             new == {[of |-> s6, db |-> d, at |-> 0] : d \in ds}
             kind == IF s3.at > DbCount THEN "spread" ELSE "seed"
             at   == IF s3.at > DbCount THEN s3.at ELSE s3.at + 1
  <1>1. /\ UNCHANGED <<s1, s2, s6>> /\ s3.state = "runs" /\ s3.kind = "seed" /\ B!Mine = {}
        /\ s3.how \in BOOLEAN /\ s3.at \in 1 .. DbCount + 1 /\ DbCount \in Nat /\ s6 \in Nat
    BY DatabaseAssumption DEF B!SeedNext, B!Doing, DatabaseInv, B!TypeOK
  <1>2. s4' = s4 \cup new /\ s5' \in {s5, None}
    BY DEF B!SeedNext, B!Begun, Aside
  <1>3. s3' = [kind |-> kind, how |-> s3.how, at |-> at, todo |-> s3.todo, clean |-> s3.clean, state |-> "runs"]
    <2>1. s3' = IF s3.at > DbCount THEN [s3 EXCEPT !.kind = "spread"] ELSE [s3 EXCEPT !.at = @ + 1]
      BY DEF B!SeedNext
    <2> QED BY <1>1, <2>1 DEF DatabaseInv, B!TypeOK
  <1>4. \A d \in ds : d \in B!Dbs /\ B!Seeded(d)
    BY <1>1 DEF Aside, B!Dbs
  <1>5. \A w \in new : /\ w = [of |-> w.of, db |-> w.db, at |-> w.at]
                       /\ w.of = s6 /\ w.db \in ds /\ w.db \in B!Dbs /\ B!Seeded(w.db) /\ w.at = 0
    BY <1>4
  <1>6. B!TypeOK' /\ Executed' /\ B!TodoIsPending' /\ B!MigrationsOnce' /\ (WritesOwn => WritesOwn')
    <2>1. s5' \in B!Dbs \cup {None} /\ kind \in {"seed", "spread"} /\ at \in 1 .. DbCount + 1
      BY <1>1, <1>2 DEF DatabaseInv, B!TypeOK
    <2> HIDE DEF new, kind, at
    <2> QED BY <1>1, <1>2, <1>3, <1>5, <2>1, SeedSteps
  <1>7. ASSUME B!OneAsync PROVE B!OneIsSeeded' /\ B!ReseedsInOrder'
    <2>1. \A w \in s4 : ~(w.at >= 0) /\ w.of # s6
      BY <1>1, <1>7, NoneAtWork
    <2>2. \A d, e \in ds : d = e
      BY <1>7, AsideIsOne
    <2>3. \A v, w \in new : v = w
      BY <2>2
    <2>4. \A w \in new : /\ kind = "seed" => ~s1[w.db].async /\ w.db < at
                         /\ kind = "spread" => s1[w.db].async
      BY <1>1 DEF Aside
    <2>5. \A d \in ds : [of |-> s6, db |-> d, at |-> 0] \in new
      OBVIOUS
    <2>6. kind \in {"seed", "spread"}
      OBVIOUS
    <2>7. B!OneIsSeeded'
      <3> HIDE DEF new, ds, kind, at
      <3>1. \A w \in s4' : w.of = s6 => w \in new /\ w.at = 0
        BY <1>2, <1>5, <2>1
      <3>2. \A w \in s4' : w.at >= 0 => w \in new
        BY <1>2, <2>1
      <3>3. s3'.kind = kind /\ s3'.state = "runs" /\ s3'.at = at
        BY <1>3
      <3>4. \A w \in s4' : w.of = s6 => w.at # -1
        BY <3>1
      <3>5. \A w \in new : w.of = s6 /\ ~(w.at > 0)
        BY <1>5
      <3> QED BY <1>1, <2>3, <2>4, <2>6, <3>2, <3>3, <3>4, <3>5 DEF B!OneIsSeeded
    <2>8. B!ReseedsInOrder'
      <3> SUFFICES ASSUME s3.clean, s3.how = TRUE
                   PROVE  /\ \A w \in s4' : w.of = s6
                          /\ \A d \in B!Dbs : B!Seeded(d) =>
                                IF kind = "spread" \/ (d < at /\ ~s1[d].async)
                                  THEN /\ \A w \in s4' : w.db = d => B!SeededTo(d, w.at)
                                       /\ (\A w \in s4' : w.db # d) => B!SeededTo(d, s1[d].seeds + 1)
                                  ELSE B!SeededTo(d, 0)
        <4> HIDE DEF kind, at, new
        <4>1. /\ s3'.kind = kind /\ s3'.how = s3.how /\ s3'.at = at /\ s3'.clean = s3.clean /\ s3'.state = "runs"
          BY <1>3
        <4> QED BY <1>1, <4>1, <2>6, SeededStays, ConfigurationStays DEF B!ReseedsInOrder
      <3>1. s4 = {} /\ s4' = new
        <4>1. \A w \in s4 : w.of = s6
          BY <1>1, <1>7 DEF DatabaseInv, B!ReseedsInOrder
        <4> QED BY <1>2, <2>1, <4>1
      <3>2. \A d \in B!Dbs : B!Seeded(d) =>
               IF d < s3.at /\ ~s1[d].async THEN B!SeededTo(d, s1[d].seeds + 1) ELSE B!SeededTo(d, 0)
        BY <1>1, <1>7, <3>1 DEF DatabaseInv, B!ReseedsInOrder
      <3>3. \A w \in new : w.of = s6 /\ w.at = 0 /\ w.db \in ds
        BY <1>5
      <3>4. ASSUME NEW d \in B!Dbs, B!Seeded(d)
            PROVE  IF kind = "spread" \/ (d < at /\ ~s1[d].async)
                     THEN /\ \A w \in new : w.db = d => B!SeededTo(d, w.at)
                          /\ (\A w \in new : w.db # d) => B!SeededTo(d, s1[d].seeds + 1)
                     ELSE B!SeededTo(d, 0)
        <4>1. d \in 1 .. DbCount
          BY DEF B!Dbs
        <4>2. CASE d \in ds
          <5>1. s1[d].async \/ ~(d < s3.at)
            BY <1>1, <4>2 DEF Aside
          <5>2. B!SeededTo(d, 0)
            BY <3>2, <3>4, <5>1
          <5>3. ~\A w \in new : w.db # d
            BY <2>5, <4>2
          <5> HIDE DEF new, ds, kind, at
          <5> QED BY <3>3, <5>2, <5>3
        <4>3. CASE d \notin ds
          <5>1. \A w \in new : w.db # d
            BY <4>3, <3>3
          <5>2. kind = "spread" \/ (d < at /\ ~s1[d].async) <=> d < s3.at /\ ~s1[d].async
            BY <1>1, <3>4, <4>1, <4>3 DEF Aside
          <5> HIDE DEF new, ds, kind, at
          <5> QED BY <3>2, <3>4, <5>1, <5>2
        <4> QED BY <4>2, <4>3
      <3> HIDE DEF new, ds, kind, at
      <3> QED BY <3>1, <3>3, <3>4
    <2> QED BY <2>7, <2>8
  <1> QED BY <1>1, <1>6, <1>7, ConfigurationStays DEF DatabaseInv

LEMMA ClearsTables ==
  ASSUME DatabaseInv, NEW w \in s4, B!ClearTables(w)
  PROVE  DatabaseInv'
  <1> DEFINE zero == [s \in B!Seeders |-> 0]
  <1>1. /\ UNCHANGED <<s1, s3, s5, s6>> /\ w.at = -1 /\ s4' = s4 \ {w}
        /\ s2' = [s2 EXCEPT ![w.db].rows = zero]
    BY DEF B!ClearTables, B!Ends
  <1>2. w = [of |-> w.of, db |-> w.db, at |-> w.at] /\ w.db \in B!Dbs
    BY WorkIs
  <1>3. /\ s2' \in [B!Dbs -> B!DatabaseType]
        /\ \A d \in B!Dbs : s2'[d].migrated = s2[d].migrated /\ s2'[d].ran = s2[d].ran /\ s2'[d].lost = s2[d].lost
        /\ \A d \in B!Dbs : s2'[d].rows = IF d = w.db THEN zero ELSE s2[d].rows
    <2>1. s2 \in [B!Dbs -> B!DatabaseType] /\ zero \in [B!Seeders -> Nat]
      BY DEF DatabaseInv, B!TypeOK
    <2> DEFINE t == [s2[w.db] EXCEPT !.rows = zero]
    <2>2. s2' = [s2 EXCEPT ![w.db] = t]
      BY <1>1
    <2> HIDE DEF zero
    <2>3. /\ t \in B!DatabaseType /\ t.migrated = s2[w.db].migrated /\ t.rows = zero
          /\ t.ran = s2[w.db].ran /\ t.lost = s2[w.db].lost
      BY <1>2, <2>1 DEF B!DatabaseType
    <2> HIDE DEF t
    <2> QED BY <1>2, <2>1, <2>2, <2>3
  <1>4. B!TypeOK'
    <2>1. \A v \in s4' :
             /\ v = [of |-> v.of, db |-> v.db, at |-> v.at]
             /\ v.of \in 0 .. s6' /\ v.db \in B!Dbs /\ B!Seeded(v.db)' /\ v.at \in -1 .. s1'[v.db].seeds
      BY <1>1, WorkStays
    <2> QED BY <1>1, <1>3, <2>1, ConfigurationStays DEF DatabaseInv, B!TypeOK
  <1>5. Executed' /\ B!TodoIsPending' /\ B!MigrationsOnce'
    BY <1>1, <1>3, MigrationsStay
  <1>6. ASSUME B!OneAsync PROVE WritesOwn' /\ B!OneIsSeeded' /\ B!ReseedsInOrder'
    <2>1. WritesOwn'
      BY <1>3, <1>6 DEF DatabaseInv, WritesOwn
    <2>2. B!OneIsSeeded'
      BY <1>1, <1>6 DEF DatabaseInv, B!OneIsSeeded
    <2>3. B!ReseedsInOrder'
      <3> SUFFICES ASSUME s3.clean, s3.kind \in {"clear", "seed", "spread"}, s3.how = TRUE, s3.state # "failed"
                   PROVE  /\ \A v \in s4' : v.of = s6
                          /\ s3.state = "runs" /\ s3.kind = "clear"
                          /\ \A d \in B!Dbs : B!Seeded(d) =>
                               B!SeededTo(d, 0)' \/ [of |-> s6, db |-> d, at |-> -1] \in s4'
        BY <1>1, ConfigurationStays DEF B!ReseedsInOrder
      <3>1. \A v \in s4 : v.of = s6
        BY <1>6 DEF DatabaseInv, B!ReseedsInOrder
      <3>2. s3.state = "runs"
        BY <1>6 DEF DatabaseInv, B!ReseedsInOrder, B!TypeOK
      <3>3. s3.kind = "clear"
        BY <1>1, <1>6, <3>1, <3>2 DEF DatabaseInv, B!OneIsSeeded
      <3>4. ASSUME NEW d \in B!Dbs, B!Seeded(d)
            PROVE  B!SeededTo(d, 0)' \/ [of |-> s6, db |-> d, at |-> -1] \in s4'
        <4>1. CASE d = w.db
          <5>1. \A k \in 1 .. s1[d].seeds : ~(k < 0) /\ <<d, k>> \in B!Seeders
            BY SeederOf DEF DatabaseInv
          <5> QED BY <1>1, <1>3, <4>1, <5>1 DEF B!SeededTo
        <4>2. CASE d # w.db
          <5>1. B!SeededTo(d, 0) \/ [of |-> s6, db |-> d, at |-> -1] \in s4
            BY <1>6, <3>2, <3>3, <3>4 DEF DatabaseInv, B!ReseedsInOrder
          <5>2. CASE B!SeededTo(d, 0)
            BY <1>1, <1>3, <4>2, <5>2 DEF B!SeededTo
          <5>3. CASE [of |-> s6, db |-> d, at |-> -1] \in s4
            <6>1. [of |-> s6, db |-> d, at |-> -1] # w
              BY <4>2
            <6> QED BY <1>1, <5>3, <6>1
          <5> QED BY <5>1, <5>2, <5>3
        <4> QED BY <4>1, <4>2
      <3> QED BY <1>1, <3>1, <3>2, <3>3, <3>4
    <2> QED BY <2>1, <2>2, <2>3
  <1> QED BY <1>1, <1>4, <1>5, <1>6, ConfigurationStays DEF DatabaseInv

LEMMA SetsConnection ==
  ASSUME DatabaseInv, NEW w \in s4, B!SetConnection(w)
  PROVE  DatabaseInv'
  <1> DEFINE next == [of |-> w.of, db |-> w.db, at |-> 1]
  <1>1. /\ UNCHANGED <<s1, s2, s3, s6>> /\ w.at = 0 /\ s5' = w.db
        /\ s4' = (s4 \ {w}) \cup {[w EXCEPT !.at = 1]}
    BY DEF B!SetConnection, B!Becomes
  <1>2. /\ w = [of |-> w.of, db |-> w.db, at |-> w.at] /\ w.db \in B!Dbs
        /\ s1[w.db].seeds \in Nat /\ s1[w.db].seeds > 0
    BY WorkIs
  <1>3. s4' = (s4 \ {w}) \cup {next}
    BY <1>1, <1>2
  <1>4. next.of = w.of /\ next.db = w.db /\ next.at = 1 /\ next = [of |-> next.of, db |-> next.db, at |-> next.at]
    OBVIOUS
  <1> HIDE DEF next
  <1>5. B!TypeOK'
    <2>1. \E v \in s4 : next = [of |-> v.of, db |-> v.db, at |-> next.at] /\ next.at \in 0 .. s1[v.db].seeds
      BY <1>2, <1>4
    <2>2. \A v \in s4' :
             /\ v = [of |-> v.of, db |-> v.db, at |-> v.at]
             /\ v.of \in 0 .. s6' /\ v.db \in B!Dbs /\ B!Seeded(v.db)' /\ v.at \in -1 .. s1'[v.db].seeds
      BY <1>1, <1>3, <2>1, WorkStays
    <2> QED BY <1>1, <1>2, <2>2, ConfigurationStays DEF DatabaseInv, B!TypeOK
  <1>6. Executed' /\ B!TodoIsPending' /\ B!MigrationsOnce'
    BY <1>1, MigrationsStay
  <1>7. ASSUME B!OneAsync PROVE WritesOwn' /\ B!OneIsSeeded' /\ B!ReseedsInOrder'
    <2>1. WritesOwn'
      BY <1>1, <1>7 DEF DatabaseInv, WritesOwn
    <2>2. /\ w.of = s6 /\ s3.state = "runs" /\ s3.kind \in {"seed", "spread"}
          /\ s3.kind = "seed" => ~s1[w.db].async /\ w.db < s3.at
          /\ s3.kind = "spread" => s1[w.db].async
          /\ \A v \in s4 : v.at >= 0 => v = w
      BY <1>1, <1>7, OneAtWork
    <2>3. B!OneIsSeeded'
      <3>1. \A v \in s4' : v.at >= 0 => v = next
        BY <1>3, <2>2
      <3>2. \A v \in s4' : v.at # -1 \/ v.of # s6
        <4>1. \A v \in s4 : v.at # -1 \/ v.of # s6
          BY <1>7, <2>2 DEF DatabaseInv, B!OneIsSeeded
        <4> QED BY <1>3, <1>4, <4>1
      <3> QED BY <1>1, <1>4, <2>2, <3>1, <3>2 DEF B!OneIsSeeded
    <2>4. B!ReseedsInOrder'
      <3> SUFFICES ASSUME s3.clean, s3.how = TRUE
                   PROVE  /\ \A v \in s4' : v.of = s6
                          /\ \A d \in B!Dbs : B!Seeded(d) =>
                               IF s3.kind = "spread" \/ (d < s3.at /\ ~s1[d].async)
                                 THEN /\ \A v \in s4' : v.db = d => B!SeededTo(d, v.at)
                                      /\ (\A v \in s4' : v.db # d) => B!SeededTo(d, s1[d].seeds + 1)
                                 ELSE B!SeededTo(d, 0)
        <4>1. \A d, n : B!SeededTo(d, n)' = B!SeededTo(d, n)
          BY <1>1, SeededStays
        <4>2. \A d : B!Seeded(d)' = B!Seeded(d)
          BY <1>1, ConfigurationStays
        <4>3. s3' = s3 /\ s6' = s6 /\ s1' = s1
          BY <1>1
        <4> HIDE DEF next
        <4> QED BY <2>2, <4>1, <4>2, <4>3 DEF B!ReseedsInOrder
      <3>1. \A v \in s4' : v.of = s6
        <4>1. \A v \in s4 : v.of = s6
          BY <1>7, <2>2 DEF DatabaseInv, B!ReseedsInOrder
        <4> QED BY <1>3, <1>4, <2>2, <4>1
      <3>2. ASSUME NEW d \in B!Dbs, B!Seeded(d)
            PROVE  IF s3.kind = "spread" \/ (d < s3.at /\ ~s1[d].async)
                     THEN /\ \A v \in s4 : v.db = d => B!SeededTo(d, v.at)
                          /\ (\A v \in s4 : v.db # d) => B!SeededTo(d, s1[d].seeds + 1)
                     ELSE B!SeededTo(d, 0)
        BY <1>7, <2>2, <3>2 DEF DatabaseInv, B!ReseedsInOrder
      <3>3. B!SeededTo(w.db, 0) => B!SeededTo(w.db, 1)
        <4>1. \A k \in 1 .. s1[w.db].seeds : ~(k < 0) /\ ~(k < 1)
          BY <1>2
        <4> QED BY <4>1 DEF B!SeededTo
      <3>4. ASSUME NEW d \in B!Dbs, B!Seeded(d), s3.kind = "spread" \/ (d < s3.at /\ ~s1[d].async)
            PROVE  /\ \A v \in s4' : v.db = d => B!SeededTo(d, v.at)
                   /\ (\A v \in s4' : v.db # d) => B!SeededTo(d, s1[d].seeds + 1)
        <4>1. \A v \in s4 : v.db = d => B!SeededTo(d, v.at)
          BY <3>2, <3>4
        <4>2. (\A v \in s4 : v.db # d) => B!SeededTo(d, s1[d].seeds + 1)
          BY <3>2, <3>4
        <4>3. (\A v \in s4' : v.db # d) => \A v \in s4 : v.db # d
          BY <1>3, <1>4
        <4>4. \A v \in s4' : v.db = d => B!SeededTo(d, v.at)
          <5> SUFFICES ASSUME NEW v \in s4', v.db = d PROVE B!SeededTo(d, v.at)
            OBVIOUS
          <5>1. CASE v = next
            BY <1>1, <1>4, <3>3, <4>1, <5>1
          <5>2. CASE v # next
            BY <1>3, <4>1, <5>2
          <5> QED BY <5>1, <5>2
        <4> QED BY <4>2, <4>3, <4>4
      <3> QED BY <3>1, <3>2, <3>4
    <2> QED BY <2>1, <2>3, <2>4
  <1> QED BY <1>1, <1>5, <1>6, <1>7, ConfigurationStays DEF DatabaseInv

LEMMA FailsAtWork ==
  ASSUME DatabaseInv, NEW w \in s4, B!WorkFails(w)
  PROVE  DatabaseInv'
  <1>1. /\ UNCHANGED <<s1, s2, s5, s6>> /\ s4' = s4 \ {w}
        /\ IF w.of = s6 /\ s3.state = "runs"
             THEN s3' = [kind |-> s3.kind, how |-> s3.how, at |-> s3.at, todo |-> s3.todo, clean |-> s3.clean,
                         state |-> "failed"]
             ELSE s3' = s3
    BY CommandFails DEF B!WorkFails, B!Ends, B!Mine, DatabaseInv
  <1>2. /\ s3' = [kind |-> s3'.kind, how |-> s3'.how, at |-> s3'.at, todo |-> s3'.todo, clean |-> s3'.clean,
                  state |-> s3'.state]
        /\ s3'.kind = s3.kind /\ s3'.how = s3.how /\ s3'.at = s3.at /\ s3'.clean = s3.clean
        /\ s3'.state = "failed" \/ s3' = s3
    BY <1>1 DEF DatabaseInv, B!TypeOK
  <1>3. B!TypeOK'
    <2>1. \A v \in s4' :
             /\ v = [of |-> v.of, db |-> v.db, at |-> v.at]
             /\ v.of \in 0 .. s6' /\ v.db \in B!Dbs /\ B!Seeded(v.db)' /\ v.at \in -1 .. s1'[v.db].seeds
      BY <1>1, WorkStays
    <2> QED BY <1>1, <1>2, <2>1, ConfigurationStays DEF DatabaseInv, B!TypeOK
  <1>4. Executed' /\ B!TodoIsPending' /\ B!MigrationsOnce'
    BY <1>1, <1>2, MigrationsStay
  <1>5. ASSUME B!OneAsync PROVE WritesOwn' /\ B!OneIsSeeded' /\ B!ReseedsInOrder'
    <2>1. WritesOwn'
      BY <1>1, <1>5 DEF DatabaseInv, WritesOwn
    <2>2. B!OneIsSeeded'
      <3>1. CASE s3' = s3
        BY <1>1, <1>5, <3>1 DEF DatabaseInv, B!OneIsSeeded
      <3>2. CASE w.of = s6 /\ s3.state = "runs" /\ s3'.state = "failed"
        <4>1. \A v \in s4' : ~(v.at >= 0)
          <5> SUFFICES ASSUME NEW v \in s4', v.at >= 0 PROVE FALSE
            OBVIOUS
          <5>1. v \in s4 /\ v # w
            BY <1>1
          <5>2. s3.kind \in {"seed", "spread"} /\ ~(w.at >= 0)
            BY <1>5, <5>1, OneAtWork
          <5>3. w.at = -1
            <6>1. w.at \in -1 .. s1[w.db].seeds /\ s1[w.db].seeds \in Nat
              BY WorkIs
            <6> QED BY <5>2, <6>1
          <5> QED BY <1>5, <3>2, <5>2, <5>3 DEF DatabaseInv, B!OneIsSeeded
        <4> QED BY <1>1, <3>2, <4>1 DEF B!OneIsSeeded
      <3> QED BY <1>1, <1>2, <3>1, <3>2
    <2>3. B!ReseedsInOrder'
      <3>1. CASE s3'.state = "failed"
        BY <3>1 DEF B!ReseedsInOrder
      <3>2. CASE s3'.state # "failed"
        <4>1. s3' = s3 /\ ~(w.of = s6 /\ s3.state = "runs")
          BY <1>1, <3>2
        <4>2. s3.clean /\ s3.kind \in {"clear", "seed", "spread"} /\ s3.how = TRUE => FALSE
          <5> SUFFICES ASSUME s3.clean /\ s3.kind \in {"clear", "seed", "spread"} /\ s3.how = TRUE
                       PROVE  FALSE
            OBVIOUS
          <5>1. w.of = s6
            BY <1>5, <3>2, <4>1 DEF DatabaseInv, B!ReseedsInOrder
          <5>2. s3.state = "ok"
            BY <3>2, <4>1, <5>1 DEF DatabaseInv, B!TypeOK
          <5> QED BY <1>5, <5>2 DEF DatabaseInv, B!ReseedsInOrder
        <4> QED BY <4>1, <4>2 DEF B!ReseedsInOrder
      <3> QED BY <3>1, <3>2
    <2> QED BY <2>1, <2>2, <2>3
  <1> QED BY <1>1, <1>3, <1>4, <1>5, ConfigurationStays DEF DatabaseInv

LEMMA RunsSeeder ==
  ASSUME DatabaseInv, NEW w \in s4, B!RunSeeder(w)
  PROVE  DatabaseInv'
  <1> DEFINE next == [of |-> w.of, db |-> w.db, at |-> w.at + 1]
             last == w.at = s1[w.db].seeds
  <1>1. /\ UNCHANGED <<s1, s3, s5, s6>> /\ w.at > 0 /\ s5 # None
        /\ s2' = [s2 EXCEPT ![s5].rows[<<w.db, w.at>>] = @ + 1]
        /\ s4' = IF last THEN s4 \ {w} ELSE (s4 \ {w}) \cup {[w EXCEPT !.at = w.at + 1]}
    BY DEF B!RunSeeder, B!Becomes, B!Ends
  <1>2. /\ w = [of |-> w.of, db |-> w.db, at |-> w.at] /\ w.db \in B!Dbs
        /\ w.at \in -1 .. s1[w.db].seeds /\ s1[w.db].seeds \in Nat /\ s1[w.db].seeds > 0
    BY WorkIs
  <1>3. s4' = IF last THEN s4 \ {w} ELSE (s4 \ {w}) \cup {next}
    <2>1. [w EXCEPT !.at = w.at + 1] = next
      BY <1>2
    <2> HIDE DEF last
    <2> QED BY <1>1, <2>1
  <1>4. /\ next.of = w.of /\ next.db = w.db /\ next.at = w.at + 1
        /\ next = [of |-> next.of, db |-> next.db, at |-> next.at]
    OBVIOUS
  <1>5. ~last => next.at \in 0 .. s1[w.db].seeds
    BY <1>1, <1>2
  <1>6. s5 \in B!Dbs /\ <<w.db, w.at>> \in B!Seeders
    <2>1. w.at \in 1 .. s1[w.db].seeds
      BY <1>1, <1>2
    <2> QED BY <1>1, <1>2, <2>1, SeederOf DEF DatabaseInv, B!TypeOK
  <1> DEFINE me == <<w.db, w.at>>
  <1>7. /\ s2' \in [B!Dbs -> B!DatabaseType]
        /\ \A d \in B!Dbs : s2'[d].migrated = s2[d].migrated /\ s2'[d].ran = s2[d].ran /\ s2'[d].lost = s2[d].lost
        /\ \A d \in B!Dbs : s2'[d].rows = IF d = s5 THEN [s2[s5].rows EXCEPT ![me] = @ + 1] ELSE s2[d].rows
        /\ s2[s5].rows \in [B!Seeders -> Nat]
    <2>1. s2 \in [B!Dbs -> B!DatabaseType] /\ s2[s5] \in B!DatabaseType
      BY <1>6 DEF DatabaseInv, B!TypeOK
    <2> DEFINE rows == [s2[s5].rows EXCEPT ![me] = @ + 1]
               t    == [s2[s5] EXCEPT !.rows = rows]
    <2>2. s2' = [s2 EXCEPT ![s5] = t]
      BY <1>1
    <2>3. s2[s5].rows \in [B!Seeders -> Nat]
      BY <2>1 DEF B!DatabaseType
    <2> HIDE DEF me
    <2>4. rows \in [B!Seeders -> Nat]
      <3> DEFINE r == s2[s5].rows
      <3>1. r \in [B!Seeders -> Nat] /\ me \in B!Seeders
        BY <1>6, <2>3 DEF me
      <3> HIDE DEF r
      <3>2. r[me] + 1 \in Nat
        BY <3>1
      <3>3. [r EXCEPT ![me] = @ + 1] \in [B!Seeders -> Nat]
        BY <3>1, <3>2
      <3> QED BY <3>3 DEF r
    <2> HIDE DEF rows
    <2>5. /\ t \in B!DatabaseType /\ t.migrated = s2[s5].migrated /\ t.rows = rows
          /\ t.ran = s2[s5].ran /\ t.lost = s2[s5].lost
      BY <2>1, <2>4 DEF B!DatabaseType
    <2> HIDE DEF t
    <2>6. /\ s2' \in [B!Dbs -> B!DatabaseType]
          /\ \A d \in B!Dbs : s2'[d].migrated = s2[d].migrated /\ s2'[d].ran = s2[d].ran /\ s2'[d].lost = s2[d].lost
          /\ \A d \in B!Dbs : s2'[d].rows = IF d = s5 THEN rows ELSE s2[d].rows
      BY <1>6, <2>1, <2>2, <2>5
    <2> QED BY <2>3, <2>6 DEF rows
  <1> HIDE DEF next, last
  <1>8. B!TypeOK'
    <2>1. ~last => \E v \in s4 : next = [of |-> v.of, db |-> v.db, at |-> next.at] /\ next.at \in 0 .. s1[v.db].seeds
      BY <1>4, <1>5
    <2>2. \A v \in s4' : v \in s4 \/ (~last /\ v = next)
      BY <1>3
    <2>3. \A v \in s4' :
             /\ v = [of |-> v.of, db |-> v.db, at |-> v.at]
             /\ v.of \in 0 .. s6' /\ v.db \in B!Dbs /\ B!Seeded(v.db)' /\ v.at \in -1 .. s1'[v.db].seeds
      BY <1>1, <2>1, <2>2, WorkStays
    <2> QED BY <1>1, <1>7, <2>3, ConfigurationStays DEF DatabaseInv, B!TypeOK
  <1>9. Executed' /\ B!TodoIsPending' /\ B!MigrationsOnce'
    BY <1>1, <1>7, MigrationsStay
  <1>10. ASSUME B!OneAsync PROVE WritesOwn' /\ B!OneIsSeeded' /\ B!ReseedsInOrder'
    <2>1. /\ w.of = s6 /\ s3.state = "runs" /\ s3.kind \in {"seed", "spread"}
          /\ s3.kind = "seed" => ~s1[w.db].async /\ w.db < s3.at
          /\ s3.kind = "spread" => s1[w.db].async
          /\ s5 = w.db
          /\ \A v \in s4 : v.at >= 0 => v = w
      BY <1>1, <1>2, <1>10, OneAtWork
    <2>2. \A d \in B!Dbs : d # w.db => s2'[d].rows = s2[d].rows
      BY <1>7, <2>1
    <2>3. s2'[w.db].rows = [s2[w.db].rows EXCEPT ![me] = @ + 1] /\ s2[w.db].rows \in [B!Seeders -> Nat]
      BY <1>2, <1>7, <2>1
    <2>4. WritesOwn'
      <3> SUFFICES ASSUME NEW d \in B!Dbs, NEW s \in DOMAIN s2'[d].rows, s2'[d].rows[s] > 0
                   PROVE  s[1] = d
        BY DEF WritesOwn
      <3>1. CASE d # w.db \/ s # me
        <4>1. s \in DOMAIN s2[d].rows /\ s2[d].rows[s] > 0
          <5> HIDE DEF me
          <5> QED BY <2>2, <2>3, <3>1
        <4> QED BY <1>10, <4>1 DEF DatabaseInv, WritesOwn
      <3>2. CASE d = w.db /\ s = me
        BY <3>2
      <3> QED BY <3>1, <3>2
    <2>5. \A v \in s4' : v.at >= 0 => v = next
      BY <1>3, <2>1
    <2>6. B!OneIsSeeded'
      <3>1. \A v \in s4' : v.at # -1 \/ v.of # s6
        <4>1. \A v \in s4 : v.at # -1 \/ v.of # s6
          BY <1>10, <2>1 DEF DatabaseInv, B!OneIsSeeded
        <4>2. next.at # -1
          BY <1>1, <1>2, <1>4
        <4> QED BY <1>3, <4>1, <4>2
      <3> QED BY <1>1, <1>4, <2>1, <2>5, <3>1 DEF B!OneIsSeeded
    <2>7. B!ReseedsInOrder'
      <3> SUFFICES ASSUME s3.clean, s3.how = TRUE
                   PROVE  /\ \A v \in s4' : v.of = s6
                          /\ \A d \in B!Dbs : B!Seeded(d) =>
                               IF s3.kind = "spread" \/ (d < s3.at /\ ~s1[d].async)
                                 THEN /\ \A v \in s4' : v.db = d => B!SeededTo(d, v.at)'
                                      /\ (\A v \in s4' : v.db # d) => B!SeededTo(d, s1[d].seeds + 1)'
                                 ELSE B!SeededTo(d, 0)'
        <4>1. \A d : B!Seeded(d)' = B!Seeded(d)
          BY <1>1, ConfigurationStays
        <4>2. s3' = s3 /\ s6' = s6 /\ s1' = s1
          BY <1>1
        <4> QED BY <2>1, <4>1, <4>2 DEF B!ReseedsInOrder
      <3>1. \A v \in s4 : v.of = s6
        BY <1>10, <2>1 DEF DatabaseInv, B!ReseedsInOrder
      <3>2. \A v \in s4' : v.of = s6
        BY <1>3, <1>4, <2>1, <3>1
      <3>3. s4 = {w}
        <4>1. \A v \in s4 : v.at # -1
          BY <1>10, <2>1, <3>1 DEF DatabaseInv, B!OneIsSeeded
        <4>2. \A v \in s4 : v.at >= 0
          <5> SUFFICES ASSUME NEW v \in s4 PROVE v.at >= 0
            OBVIOUS
          <5>1. v.at \in -1 .. s1[v.db].seeds /\ s1[v.db].seeds \in Nat
            BY WorkIs
          <5> QED BY <4>1, <5>1
        <4> QED BY <2>1, <4>2
      <3>4. ASSUME NEW d \in B!Dbs, B!Seeded(d)
            PROVE  IF s3.kind = "spread" \/ (d < s3.at /\ ~s1[d].async)
                     THEN /\ d = w.db => B!SeededTo(d, w.at)
                          /\ d # w.db => B!SeededTo(d, s1[d].seeds + 1)
                     ELSE B!SeededTo(d, 0)
        BY <1>10, <2>1, <3>3, <3>4 DEF DatabaseInv, B!ReseedsInOrder
      <3>5. ASSUME NEW d \in B!Dbs, d # w.db, NEW n, B!SeededTo(d, n)
            PROVE  B!SeededTo(d, n)'
        BY <1>1, <2>2, <3>5 DEF B!SeededTo
      <3>6. B!SeededTo(w.db, w.at) => B!SeededTo(w.db, w.at + 1)'
        <4> SUFFICES ASSUME B!SeededTo(w.db, w.at), NEW k \in 1 .. s1[w.db].seeds
                     PROVE  s2'[w.db].rows[<<w.db, k>>] = IF k < w.at + 1 THEN 1 ELSE 0
          BY <1>1 DEF B!SeededTo
        <4>1. s2[w.db].rows[<<w.db, k>>] = IF k < w.at THEN 1 ELSE 0
          BY DEF B!SeededTo
        <4>2. CASE k = w.at
          <5>1. s2[w.db].rows[me] = 0
            BY <1>2, <4>1, <4>2
          <5>2. s2'[w.db].rows[me] = 1
            <6> HIDE DEF me
            <6>1. me \in B!Seeders
              BY <1>6 DEF me
            <6> QED BY <2>3, <5>1, <6>1
          <5> QED BY <1>2, <4>2, <5>2
        <4>3. CASE k # w.at
          <5>1. <<w.db, k>> # me
            BY <4>3
          <5>2. s2'[w.db].rows[<<w.db, k>>] = s2[w.db].rows[<<w.db, k>>]
            <6>1. <<w.db, k>> \in B!Seeders
              BY <1>2, SeederOf DEF DatabaseInv
            <6> HIDE DEF me
            <6> QED BY <2>3, <5>1, <6>1
          <5> QED BY <1>2, <4>1, <4>3, <5>2
        <4> QED BY <4>2, <4>3
      <3>7. ASSUME NEW d \in B!Dbs, B!Seeded(d)
            PROVE  IF s3.kind = "spread" \/ (d < s3.at /\ ~s1[d].async)
                     THEN /\ \A v \in s4' : v.db = d => B!SeededTo(d, v.at)'
                          /\ (\A v \in s4' : v.db # d) => B!SeededTo(d, s1[d].seeds + 1)'
                     ELSE B!SeededTo(d, 0)'
        <4>1. s4' = IF last THEN {} ELSE {next}
          BY <1>3, <3>3
        <4>0. s1' = s1
          BY <1>1
        <4>2. CASE d # w.db
          <5>1. \A v \in s4' : v.db # d
            BY <1>4, <4>1, <4>2
          <5>2. CASE s3.kind = "spread" \/ (d < s3.at /\ ~s1[d].async)
            <6> DEFINE n == s1[d].seeds + 1
            <6>1. B!SeededTo(d, n)
              BY <3>4, <3>7, <4>2, <5>2
            <6> QED BY <1>1, <2>2, <4>0, <4>2, <5>1, <5>2, <6>1 DEF B!SeededTo
          <5>3. CASE ~(s3.kind = "spread" \/ (d < s3.at /\ ~s1[d].async))
            BY <3>4, <3>5, <3>7, <4>2, <5>3
          <5> QED BY <5>2, <5>3
        <4>3. CASE d = w.db
          <5>1. s3.kind = "spread" \/ (d < s3.at /\ ~s1[d].async)
            BY <2>1, <4>3
          <5>2. B!SeededTo(w.db, w.at + 1)'
            BY <3>4, <3>6, <3>7, <4>3, <5>1
          <5>3. CASE last
            <6>1. w.at = s1[w.db].seeds
              BY <5>3 DEF last
            <6>2. w.at + 1 = s1'[d].seeds + 1
              BY <4>0, <4>3, <6>1
            <6> QED BY <4>1, <4>3, <5>1, <5>2, <5>3, <6>2
          <5>4. CASE ~last
            BY <1>4, <4>1, <4>3, <5>1, <5>2, <5>4
          <5> QED BY <5>3, <5>4
        <4> QED BY <4>2, <4>3
      <3> QED BY <3>2, <3>7
    <2> QED BY <2>4, <2>6, <2>7
  <1> QED BY <1>1, <1>8, <1>9, <1>10, ConfigurationStays DEF DatabaseInv

LEMMA DatabaseStep ==
  ASSUME DatabaseInv, B!Next
  PROVE  DatabaseInv'
  <1>1. ASSUME NEW kind \in {"create", "drop"}, B!Start(kind, None)
        PROVE  DatabaseInv'
    BY <1>1, CommandStarts
  <1>2. ASSUME NEW throws \in BOOLEAN, NEW drop \in BOOLEAN, B!Start("sync", [throws |-> throws, drop |-> drop])
        PROVE  DatabaseInv'
    BY <1>2, CommandStarts
  <1>3. ASSUME NEW selected \in Selections, B!Start("migrate", selected)
        PROVE  DatabaseInv'
    BY <1>3, CommandStarts
  <1>4. ASSUME NEW reseed \in BOOLEAN, B!Start("seed", reseed)
        PROVE  DatabaseInv'
    BY <1>4, CommandStarts
  <1>5. CASE B!Create \/ B!Drop \/ B!Sync
    BY <1>5, DatabasesChange
  <1>6. CASE B!Look \/ B!Execute
    BY <1>6, LooksForMigrations, ExecutesNext
  <1>7. CASE B!Cleared \/ B!SeedNext \/ B!SeedEnds
    BY <1>7, TablesAreCleared, SeedsNext, SeedsEnd
  <1>8. ASSUME NEW w \in s4, B!ClearTables(w) \/ B!SetConnection(w) \/ B!RunSeeder(w) \/ B!WorkFails(w)
        PROVE  DatabaseInv'
    BY <1>8, ClearsTables, SetsConnection, RunsSeeder, FailsAtWork
  <1> QED BY <1>1, <1>2, <1>3, <1>4, <1>5, <1>6, <1>7, <1>8 DEF B!Next

LEMMA DatabaseRests ==
  ASSUME DatabaseInv, UNCHANGED <<s1, s2, s3, s4, s5, s6>>
  PROVE  DatabaseInv'
  <1>1. \A d : B!Chosen(d)' = B!Chosen(d)
    BY ChosenStays
  <1>2. \A d, n : B!SeededTo(d, n)' = B!SeededTo(d, n)
    BY SeededStays
  <1>3. B!TypeOK'
    BY ConfigurationStays DEF DatabaseInv, B!TypeOK
  <1>4. B!TodoIsPending' /\ Executed' /\ B!MigrationsOnce'
    BY MigrationsStay
  <1>5. B!OneAsync => WritesOwn' /\ B!OneIsSeeded' /\ B!ReseedsInOrder'
    BY <1>2, ConfigurationStays DEF DatabaseInv, WritesOwn, B!OneIsSeeded, B!ReseedsInOrder
  <1> QED BY <1>3, <1>4, <1>5, ConfigurationStays DEF DatabaseInv

LEMMA DatabasesAreInOrder ==
  ASSUME DatabaseInv
  PROVE  B!DatabasesKept
  <1>1. ASSUME B!OneAsync, s3.kind = "spread", s3.state = "ok", s3.how, s3.clean,
               NEW d \in B!Dbs, B!Seeded(d), NEW s \in B!Seeders, s[1] = d
        PROVE  s2[d].rows[s] = 1
    <2>1. s3.how = TRUE
      BY <1>1 DEF DatabaseInv, B!TypeOK
    <2>2. s4 = {}
      BY <1>1, <2>1 DEF DatabaseInv, B!ReseedsInOrder
    <2>3. B!SeededTo(d, s1[d].seeds + 1)
      BY <1>1, <2>1, <2>2 DEF DatabaseInv, B!ReseedsInOrder
    <2>4. PICK k \in 1 .. s1[d].seeds : s = <<d, k>>
      BY <1>1 DEF B!Seeders
    <2>5. s1[d].seeds \in Nat
      BY DatabaseAssumption DEF DatabaseInv, B!TypeOK, B!Dbs
    <2> QED BY <2>3, <2>4, <2>5 DEF B!SeededTo
  <1> QED BY <1>1 DEF DatabaseInv, WritesOwn, B!DatabasesKept, B!SeedsLand

-----------------------------------------------------------------------------
(* The mutation journal.  s1 is the database, s2 what the open transaction *)
(* sees, s3 its owner, s4 what is left of the installs and uninstalls, and *)
(* s5 what the reports vouch for.                                          *)

JournalInv == J!TypeOK /\ J!InstallsMakeAll /\ J!VouchedIsWatched

\* A journal that is not installed vouches for nothing.
LEMMA JournalStarts == J!Init => JournalInv
  <1> SUFFICES ASSUME J!Init PROVE JournalInv OBVIOUS
  <1>1. J!Empty \in J!Rows
    BY DEF J!Empty, J!Rows
  <1>2. s1 \in J!Databases
    BY <1>1 DEF J!Init, J!Databases
  <1>3. J!Done = [kind |-> "none", drop |-> {}, make |-> {}]
    BY DEF J!Done, J!Call
  <1>4. J!TypeOK
    BY <1>2, <1>3 DEF J!Init, J!TypeOK
  <1>5. J!InstallsMakeAll /\ J!VouchedIsWatched
    BY <1>3, JournalAssumption DEF J!Init, J!InstallsMakeAll, J!VouchedIsWatched, J!Uninstalling
  <1> QED BY <1>4, <1>5 DEF JournalInv

\* What leads to the rows of a table is what its journal replays to.
LEMMA ReplayIsOne ==
  ASSUME J!TypeOK, NEW t \in JournalTables, s5[t] # None, J!Leads(s5[t], s1, t)
  PROVE  J!Replay(t) = s1.rows[t]
  <1> DEFINE log == s1.log
             b   == s5[t]
             Step(f, n) == IF n <= b.from THEN b.rows
                           ELSE IF log[n].table # t THEN f[n - 1]
                           ELSE [f[n - 1] EXCEPT ![log[n].key] = log[n].new]
  <1>1. Len(log) \in Nat /\ b.from \in Nat
    BY DEF J!TypeOK, J!Databases
  <1>2. PICK f : f = [n \in 0 .. Len(log) |-> Step(f, n)] /\ f[Len(log)] = s1.rows[t]
    BY DEF J!Leads
  <1>3. ASSUME NEW g, g = [n \in 0 .. Len(log) |-> Step(g, n)]
        PROVE  g = f
    <2> DEFINE Apart == {n \in 0 .. Len(log) : g[n] # f[n]}
    <2>1. SUFFICES ASSUME Apart # {} PROVE FALSE
      <3>1. DOMAIN f = 0 .. Len(log) /\ DOMAIN g = 0 .. Len(log)
        BY <1>2, <1>3, Zenon
      <3>2. f = [n \in 0 .. Len(log) |-> f[n]] /\ g = [n \in 0 .. Len(log) |-> g[n]]
        BY <1>2, <1>3, Zenon
      <3> QED BY <3>2
    <2>2. PICK n \in Apart : \A m \in Apart : n <= m
      <3>1. Apart \in SUBSET Nat
        BY <1>1
      <3> HIDE DEF Apart
      <3> QED BY <2>1, <3>1, SomeIsLeast
    <2>3. f[n] = Step(f, n) /\ g[n] = Step(g, n)
      <3>1. n \in 0 .. Len(log)
        BY <2>2
      <3> HIDE DEF Step
      <3> QED BY <3>1, <1>2, <1>3, Zenon
    <2>4. CASE n <= b.from
      BY <2>2, <2>3, <2>4
    <2>5. CASE n > b.from
      <3>1. n - 1 \in 0 .. Len(log) /\ n - 1 \notin Apart
        BY <2>2, <2>5, <1>1
      <3>2. g[n - 1] = f[n - 1]
        BY <3>1
      <3>3. Step(g, n) = Step(f, n)
        BY <3>2
      <3> QED BY <3>3, <2>3
    <2> QED BY <2>4, <2>5, <1>1, <2>2
  <1>4. J!Replay(t) = (CHOOSE g : g = [n \in 0 .. Len(log) |-> Step(g, n)])[Len(log)]
    BY Zenon DEF J!Replay
  <1>5. (CHOOSE g : g = [n \in 0 .. Len(log) |-> Step(g, n)]) = f
    <2> HIDE DEF Step, log
    <2> QED BY <1>2, <1>3, Zenon
  <1> QED BY <1>2, <1>4, <1>5, Zenon

\* A journal leads on where neither it nor the rows change.
LEMMA LeadsOn ==
  ASSUME NEW b, NEW d, NEW e, NEW t, d.log = e.log, d.rows[t] = e.rows[t], J!Leads(b, d, t)
  PROVE  J!Leads(b, e, t)
  <1> DEFINE Step(f, log, n) == IF n <= b.from THEN b.rows
                     ELSE IF log[n].table # t THEN f[n - 1]
                     ELSE [f[n - 1] EXCEPT ![log[n].key] = log[n].new]
  <1>1. PICK f : f = [n \in 0 .. Len(d.log) |-> Step(f, d.log, n)] /\ f[Len(d.log)] = d.rows[t]
    BY DEF J!Leads
  <1>2. f = [n \in 0 .. Len(e.log) |-> Step(f, e.log, n)] /\ f[Len(e.log)] = e.rows[t]
    <2> HIDE DEF Step
    <2> QED BY <1>1
  <1>3. b.from <= Len(e.log)
    BY DEF J!Leads
  <1> QED BY <1>2, <1>3, Zenon DEF J!Leads

\* What an install finds leads to itself.
LEMMA LeadsFromHere ==
  ASSUME NEW d \in J!Databases, NEW t
  PROVE  J!Leads([rows |-> d.rows[t], from |-> Len(d.log)], d, t)
  <1> DEFINE b == [rows |-> d.rows[t], from |-> Len(d.log)]
             f == [n \in 0 .. Len(d.log) |-> d.rows[t]]
  <1>1. Len(d.log) \in Nat
    BY DEF J!Databases
  <1>2. f = [n \in 0 .. Len(d.log) |-> IF n <= b.from THEN b.rows
                     ELSE IF d.log[n].table # t THEN f[n - 1]
                     ELSE [f[n - 1] EXCEPT ![d.log[n].key] = d.log[n].new]]
    BY <1>1
  <1>3. f[Len(d.log)] = d.rows[t]
    BY <1>1
  <1>4. b.from <= Len(d.log)
    BY <1>1
  <1> HIDE DEF f, b
  <1>5. J!Leads(b, d, t)
    BY <1>2, <1>3, <1>4, Zenon DEF J!Leads
  <1> QED BY <1>5 DEF b

\* The journal of e has one more row than that of d, whose change t has too.
OneMore(d, e, t, entry) ==
    /\ e.log = Append(d.log, entry)
    /\ entry \in [table : JournalTables, key : JournalKeys, old : JournalValues \cup {None}, new : JournalValues \cup {None}]
    /\ entry.table = t => e.rows[t] = [d.rows[t] EXCEPT ![entry.key] = entry.new]
    /\ entry.table # t => e.rows[t] = d.rows[t]

\* One more row of the journal replays to one more change.
LEMMA LeadsFurther ==
  ASSUME NEW d \in J!Databases, NEW t \in JournalTables, NEW b \in [rows : J!Rows, from : Nat],
         NEW e, NEW entry, OneMore(d, e, t, entry), J!Leads(b, d, t)
  PROVE  J!Leads(b, e, t)
  <1>0. /\ e.log = Append(d.log, entry)
        /\ entry \in [table : JournalTables, key : JournalKeys, old : JournalValues \cup {None}, new : JournalValues \cup {None}]
        /\ entry.table = t => e.rows[t] = [d.rows[t] EXCEPT ![entry.key] = entry.new]
        /\ entry.table # t => e.rows[t] = d.rows[t]
    BY DEF OneMore
  <1> USE <1>0
  <1> DEFINE N == Len(d.log)
             Step(f, log, n) == IF n <= b.from THEN b.rows
                     ELSE IF log[n].table # t THEN f[n - 1]
                     ELSE [f[n - 1] EXCEPT ![log[n].key] = log[n].new]
  <1>1. N \in Nat /\ Len(e.log) = N + 1 /\ e.log[N + 1] = entry
        /\ \A n \in 1 .. N : e.log[n] = d.log[n]
    BY DEF J!Databases
  <1>2. PICK f : f = [n \in 0 .. N |-> Step(f, d.log, n)] /\ f[N] = d.rows[t]
    BY DEF J!Leads
  <1> DEFINE g == [n \in 0 .. N + 1 |-> IF n <= N THEN f[n] ELSE e.rows[t]]
  <1>3. b.from \in Nat /\ b.from <= N
    BY DEF J!Leads
  <1>4. \A n \in 0 .. N + 1 : g[n] = Step(g, e.log, n)
    <2> SUFFICES ASSUME NEW n \in 0 .. N + 1 PROVE g[n] = Step(g, e.log, n)
      OBVIOUS
    <2>1. CASE n <= N
      <3>1. f[n] = Step(f, d.log, n)
        <4>1. n \in 0 .. N
          BY <2>1, <1>1
        <4> HIDE DEF Step, N
        <4> QED BY <4>1, <1>2, Zenon
      <3>2. g[n] = f[n]
        BY <2>1
      <3>3. n > b.from => e.log[n] = d.log[n] /\ g[n - 1] = f[n - 1]
        BY <1>1, <1>3, <2>1
      <3> HIDE DEF g
      <3> QED BY <3>1, <3>2, <3>3, <1>3, <1>1
    <2>2. CASE n = N + 1
      <3>1. g[n] = e.rows[t] /\ g[N] = f[N] /\ n - 1 = N /\ ~(n <= b.from)
        BY <2>2, <1>1, <1>3
      <3>2. e.log[n] = entry
        BY <2>2, <1>1
      <3> HIDE DEF g, N
      <3> QED BY <3>1, <3>2, <1>2
    <2>3. n <= N \/ n = N + 1
      BY <1>1
    <2> QED BY <2>1, <2>2, <2>3, Zenon
  <1>5. g = [n \in 0 .. Len(e.log) |-> Step(g, e.log, n)]
    <2>1. 0 .. Len(e.log) = 0 .. N + 1
      BY <1>1
    <2> HIDE DEF Step, N
    <2> QED BY <2>1, <1>4
  <1>6. g[Len(e.log)] = e.rows[t]
    BY <1>1
  <1>7. b.from <= Len(e.log)
    BY <1>1, <1>3
  <1> HIDE DEF g
  <1> QED BY <1>5, <1>6, <1>7, Zenon DEF J!Leads

\* A row that is written is journaled when the table is watched.
LEMMA WriteIsJournaled ==
  ASSUME NEW d \in J!Databases, NEW t \in JournalTables, NEW k \in JournalKeys,
         NEW v \in JournalValues \cup {None}, d.rows[t][k] # None \/ v # None,
         NEW e, e = [d EXCEPT !.rows[t][k] = v, !.log = J!Journaled(d, t, k, v)]
  PROVE  /\ e \in J!Databases /\ e.triggers = d.triggers
         /\ \A u \in JournalTables, b \in [rows : J!Rows, from : Nat] :
              J!Watched(d, u) /\ J!Leads(b, d, u) => J!Leads(b, e, u)
  <1> DEFINE entry == [table |-> t, key |-> k, old |-> d.rows[t][k], new |-> v]
             rows  == [d.rows EXCEPT ![t] = [d.rows[t] EXCEPT ![k] = v]]
  <1>1. d.rows \in [JournalTables -> J!Rows] /\ d.rows[t] \in J!Rows /\ d.rows[t][k] \in JournalValues \cup {None}
    BY DEF J!Databases, J!Rows
  <1>2. e = [rows |-> rows, triggers |-> d.triggers, log |-> J!Journaled(d, t, k, v)]
    BY DEF J!Databases
  <1>3. rows \in [JournalTables -> J!Rows]
    <2>1. [d.rows[t] EXCEPT ![k] = v] \in J!Rows
      BY <1>1 DEF J!Rows
    <2> QED BY <1>1, <2>1
  <1>4. entry \in [table : JournalTables, key : JournalKeys, old : JournalValues \cup {None},
                   new : JournalValues \cup {None}]
    BY <1>1
  <1>5. J!Journaled(d, t, k, v) \in {d.log, Append(d.log, entry)}
    BY DEF J!Journaled
  <1>6. e \in J!Databases
    <2>1. Append(d.log, entry) \in Seq([table : JournalTables, key : JournalKeys,
                   old : JournalValues \cup {None}, new : JournalValues \cup {None}])
      BY <1>4 DEF J!Databases
    <2>2. d.log \in Seq([table : JournalTables, key : JournalKeys,
                         old : JournalValues \cup {None}, new : JournalValues \cup {None}])
          /\ d.triggers \in SUBSET J!Triggers
      BY DEF J!Databases
    <2>3. J!Journaled(d, t, k, v) \in Seq([table : JournalTables, key : JournalKeys,
                         old : JournalValues \cup {None}, new : JournalValues \cup {None}])
      BY <1>5, <2>1, <2>2
    <2> HIDE DEF entry, rows
    <2> QED BY <1>2, <1>3, <2>2, <2>3 DEF J!Databases
  <1>7. e.triggers = d.triggers
    BY <1>2
  <1>8. ASSUME NEW u \in JournalTables, NEW b \in [rows : J!Rows, from : Nat],
               J!Watched(d, u), J!Leads(b, d, u)
        PROVE  J!Leads(b, e, u)
    <2>1. e.rows[u] = IF t = u THEN [d.rows[u] EXCEPT ![k] = v] ELSE d.rows[u]
      BY <1>1, <1>2
    <2>2. CASE J!Journaled(d, t, k, v) = Append(d.log, entry)
      <3>1. e.log = Append(d.log, entry)
        BY <1>2, <2>2
      <3>2. entry.table = t /\ entry.key = k /\ entry.new = v
        OBVIOUS
      <3>3. /\ t = u => e.rows[u] = [d.rows[u] EXCEPT ![entry.key] = entry.new]
            /\ t # u => e.rows[u] = d.rows[u]
        BY <2>1
      <3> HIDE DEF entry
      <3> HIDE DEF rows
      <3>4. entry.table = t
        BY <3>2
      <3>5. ASSUME NEW n, n = entry PROVE J!Leads(b, e, u)
        <4>1. e.log = Append(d.log, n)
          BY <3>1, <3>5
        <4>2. n.table = t
          BY <3>4, <3>5
        <4>3. t = u => e.rows[u] = [d.rows[u] EXCEPT ![n.key] = n.new]
          BY <3>3, <3>5
        <4>4. t # u => e.rows[u] = d.rows[u]
          BY <3>3, <3>5
        <4>5. n \in [table : JournalTables, key : JournalKeys, old : JournalValues \cup {None}, new : JournalValues \cup {None}]
          BY <3>5, <1>4
        <4>6. J!Leads(b, d, u)
          BY <1>8
        <4>7. OneMore(d, e, u, n)
          BY <4>1, <4>2, <4>3, <4>4, <4>5, Zenon DEF OneMore
        <4> QED BY <4>6, <4>7, LeadsFurther, Zenon
      <3> QED BY <3>5
    <2>3. CASE J!Journaled(d, t, k, v) # Append(d.log, entry)
      <3>1. J!EventOf(d.rows[t][k], v) \in J!Events
        BY DEF J!EventOf, J!Events
      <3>2. u # t
        BY <2>3, <3>1, <1>8 DEF J!Journaled, J!Watched
      <3>3. e.log = d.log /\ e.rows[u] = d.rows[u]
        BY <1>2, <1>5, <2>1, <2>3, <3>2
      <3> QED BY <3>3, <1>8, LeadsOn
    <2> QED BY <2>2, <2>3
  <1> QED BY <1>6, <1>7, <1>8

\* A row is written in a transaction or in the database, which watch alike.
LEMMA JournalWrites ==
  ASSUME JournalInv, NEW w \in Writers, NEW t \in JournalTables, NEW k \in JournalKeys,
         NEW v \in JournalValues \cup {None}, J!Write(w, t, k, v)
  PROVE  JournalInv'
  <1> DEFINE d == J!Seen(w)
             e == [d EXCEPT !.rows[t][k] = v, !.log = J!Journaled(d, t, k, v)]
  <1>1. w \notin Installers /\ w # None /\ None \notin Installers
    BY JournalAssumption
  <1>2. d \in J!Databases
    BY <1>1 DEF JournalInv, J!TypeOK, J!Seen
  <1>3. /\ e \in J!Databases /\ e.triggers = d.triggers
        /\ \A u \in JournalTables, b \in [rows : J!Rows, from : Nat] :
             J!Watched(d, u) /\ J!Leads(b, d, u) => J!Leads(b, e, u)
    <2> HIDE DEF d
    <2>1. d.rows[t][k] # None \/ v # None
      BY DEF d, J!Write
    <2> QED BY <1>2, <2>1, WriteIsJournaled
  <1>4. \/ s3 = w /\ s2' = e /\ s1' = s1
        \/ s3 = None /\ s1' = e /\ s2' = s2
    BY DEF J!Write, J!Execute
  <1>5. /\ s3 = w => d = s2
        /\ s3 = None => d = s1
    BY <1>1 DEF J!Seen
  <1>6. s3' = s3 /\ s4' = s4 /\ s5' = s5
    BY DEF J!Write
  <1> HIDE DEF d, e
  <1>7. J!TypeOK'
    BY <1>3, <1>4, <1>6, <1>1 DEF JournalInv, J!TypeOK
  <1>8. J!InstallsMakeAll'
    BY <1>3, <1>4, <1>6, <1>1 DEF JournalInv, J!InstallsMakeAll, J!Uninstalling
  <1>9. J!VouchedIsWatched'
    <2> SUFFICES ASSUME NEW u \in JournalTables, s5[u] # None
                 PROVE  /\ J!Leads(s5[u], s1', u) /\ J!Watched(s1', u)
                        /\ s3 # None => J!Leads(s5[u], s2', u)
                        /\ s3 \in Writers => J!Watched(s2', u)
      BY <1>6 DEF J!VouchedIsWatched, J!Watched
    <2>1. s5[u] \in [rows : J!Rows, from : Nat]
      BY DEF JournalInv, J!TypeOK
    <2>2. /\ J!Leads(s5[u], s1, u) /\ J!Watched(s1, u)
          /\ s3 # None => J!Leads(s5[u], s2, u)
          /\ s3 \in Writers => J!Watched(s2, u)
      BY DEF JournalInv, J!VouchedIsWatched
    <2>3. J!Watched(d, u) => J!Watched(e, u)
      BY <1>3 DEF J!Watched
    <2> QED BY <1>3, <1>4, <1>5, <1>1, <2>1, <2>2, <2>3
  <1> QED BY <1>7, <1>8, <1>9 DEF JournalInv

\* What is left of a call.
TodoType == [kind : {"none", "install", "uninstall"}, drop : SUBSET J!Triggers, make : SUBSET J!Triggers]

\* A transaction that begins sees what is vouched for.
LEMMA JournalBegins ==
  ASSUME JournalInv, NEW p \in Installers \cup Writers, J!Begin(p), UNCHANGED <<s1, s5>>
  PROVE  J!VouchedIsWatched' /\ s2' \in J!Databases
  BY JournalAssumption DEF J!Begin, JournalInv, J!TypeOK, J!VouchedIsWatched, J!Watched

\* An install has every trigger still to make.
LEMMA JournalInstalls ==
  ASSUME JournalInv, NEW p \in Installers, J!Install(p)
  PROVE  JournalInv'
  <1>1. /\ s3 = None /\ s3' = p /\ s2' = s1 /\ UNCHANGED <<s1, s5>> /\ J!Begin(p)
        /\ s4' = [s4 EXCEPT ![p] = [kind |-> "install", drop |-> s1.triggers,
                                    make |-> (JournalTables \ Skipped) \X J!Events]]
    BY DEF J!Install, J!Begin, J!Goto, J!Call
  <1>2. s4' \in [Installers -> TodoType]
    <2>1. s1.triggers \in SUBSET J!Triggers /\ (JournalTables \ Skipped) \X J!Events \in SUBSET J!Triggers
      BY DEF JournalInv, J!TypeOK, J!Databases, J!Triggers
    <2> QED BY <1>1, <2>1 DEF JournalInv, J!TypeOK, TodoType
  <1>3. J!TypeOK'
    BY <1>1, <1>2, JournalBegins DEF JournalInv, J!TypeOK, TodoType
  <1>4. J!InstallsMakeAll'
    <2>1. \A q \in Installers : q # p => s4'[q] = s4[q] /\ s3 # q /\ s4[q].kind # "install"
      BY <1>1, JournalAssumption DEF JournalInv, J!TypeOK, J!InstallsMakeAll
    <2>2. s4'[p].kind = "install" /\ s4'[p].make = (JournalTables \ Skipped) \X J!Events
      BY <1>1 DEF JournalInv, J!TypeOK
    <2>3. J!Uninstalling' => J!Uninstalling
      BY <2>1, <2>2 DEF J!Uninstalling
    <2> QED BY <1>1, <2>1, <2>2, <2>3 DEF JournalInv, J!InstallsMakeAll
  <1>5. J!VouchedIsWatched'
    BY <1>1, JournalBegins
  <1> QED BY <1>3, <1>4, <1>5 DEF JournalInv

\* An uninstall ends what is vouched for before it drops a trigger.
LEMMA JournalUninstalls ==
  ASSUME JournalInv, NEW p \in Installers, J!Uninstall(p)
  PROVE  JournalInv'
  <1>1. /\ UNCHANGED <<s1, s2, s3>> /\ s5' = [t \in JournalTables |-> None]
        /\ s4' = [s4 EXCEPT ![p] = [kind |-> "uninstall", drop |-> s1.triggers, make |-> {}]]
        /\ s4[p].kind = "none"
    BY DEF J!Uninstall, J!Goto, J!Call, J!Running, J!Done
  <1>2. s4' \in [Installers -> TodoType]
    BY <1>1 DEF JournalInv, J!TypeOK, J!Databases, TodoType
  <1>3. J!TypeOK'
    BY <1>1, <1>2 DEF JournalInv, J!TypeOK, TodoType
  <1>4. J!InstallsMakeAll'
    BY <1>1, JournalAssumption DEF JournalInv, J!TypeOK, J!InstallsMakeAll
  <1>5. J!VouchedIsWatched'
    BY <1>1 DEF J!VouchedIsWatched
  <1> QED BY <1>3, <1>4, <1>5 DEF JournalInv

\* Other triggers are all that changes of a database.
LEMMA TriggersChange ==
  ASSUME NEW d \in J!Databases, NEW X \in SUBSET J!Triggers, NEW e, e = [d EXCEPT !.triggers = X]
  PROVE  /\ e \in J!Databases /\ e.triggers = X
         /\ \A t, b : J!Leads(b, d, t) => J!Leads(b, e, t)
  <1>1. e = [rows |-> d.rows, triggers |-> X, log |-> d.log]
    BY DEF J!Databases
  <1>2. e \in J!Databases /\ e.triggers = X /\ e.rows = d.rows /\ e.log = d.log
    BY <1>1 DEF J!Databases
  <1> QED BY <1>2, LeadsOn

\* Only an install that has its transaction, or an uninstall outside of one,
\* drops a trigger.
LEMMA JournalDrops ==
  ASSUME JournalInv, NEW p \in Installers, J!DropTrigger(p)
  PROVE  JournalInv'
  <1>1. PICK x \in s4[p].drop :
          LET rest == [s4[p] EXCEPT !.drop = @ \ {x}]
              d    == J!Seen(p)
          IN  /\ J!Execute(p, [d EXCEPT !.triggers = @ \ {x}])
              /\ J!Goto(p, IF rest.kind = "uninstall" /\ rest.drop = {} THEN J!Done ELSE rest)
    BY DEF J!DropTrigger
  <1> DEFINE d == J!Seen(p)
             e == [d EXCEPT !.triggers = d.triggers \ {x}]
             rest == [kind |-> s4[p].kind, drop |-> s4[p].drop \ {x}, make |-> s4[p].make]
             next == IF rest.kind = "uninstall" /\ rest.drop = {} THEN J!Done ELSE rest
  <1>2. s4[p] \in TodoType /\ p # None
    BY JournalAssumption DEF JournalInv, J!TypeOK, TodoType
  <1>3. J!Execute(p, e) /\ s4' = [s4 EXCEPT ![p] = next] /\ UNCHANGED <<s3, s5>>
    <2>1. rest = [s4[p] EXCEPT !.drop = @ \ {x}]
      BY <1>2 DEF TodoType
    <2> HIDE DEF rest
    <2> QED BY <1>1, <2>1 DEF J!Goto, J!DropTrigger
  <1>4. d \in J!Databases
    BY <1>2 DEF JournalInv, J!TypeOK, J!Seen
  <1>5. e \in J!Databases /\ e.triggers = d.triggers \ {x} /\ \A t, b : J!Leads(b, d, t) => J!Leads(b, e, t)
    <2>1. d.triggers \ {x} \in SUBSET J!Triggers
      BY <1>4 DEF J!Databases
    <2> HIDE DEF d
    <2> QED BY <1>4, <2>1, TriggersChange
  <1>6. \/ s3 = p /\ d = s2 /\ s2' = e /\ s1' = s1
        \/ s3 = None /\ d = s1 /\ s1' = e /\ s2' = s2
    BY <1>2, <1>3 DEF J!Execute, J!Seen
  <1>7. next \in TodoType
    BY <1>2 DEF TodoType, J!Done, J!Call
  <1>8. s3 = p => next.kind = "install" /\ next.make = s4[p].make
    BY <1>2 DEF JournalInv, J!InstallsMakeAll
  <1>9. s3 # p => s4[p].kind = "uninstall" /\ next.kind \in {"uninstall", "none"}
    BY <1>2, <1>1 DEF JournalInv, J!InstallsMakeAll, TodoType, J!Done, J!Call
  <1>10. next.kind = "none" => next.drop = {}
    BY <1>2, <1>1 DEF JournalInv, J!InstallsMakeAll, TodoType, J!Done, J!Call
  <1> HIDE DEF d, e, next, rest
  <1>11. J!TypeOK'
    BY <1>3, <1>5, <1>6, <1>7 DEF JournalInv, J!TypeOK, TodoType
  <1>12. J!InstallsMakeAll'
    <2>1. \A q \in Installers : s4'[q] = IF q = p THEN next ELSE s4[q]
      BY <1>3 DEF JournalInv, J!TypeOK
    <2>2. J!Uninstalling' => J!Uninstalling
      BY <1>8, <1>9, <2>1 DEF J!Uninstalling
    <2>3. \A q \in Installers : (s4'[q].kind = "install" <=> s3 = q) /\ (s4'[q].kind = "none" => s4'[q].drop = {})
      BY <2>1, <1>8, <1>9, <1>10 DEF JournalInv, J!InstallsMakeAll
    <2>4. s3 = p => \A y \in (JournalTables \ Skipped) \X J!Events : y \in s4[p].make
      BY <1>1 DEF JournalInv, J!InstallsMakeAll
    <2>5. \A q \in Installers : s3 = q => \A y \in (JournalTables \ Skipped) \X J!Events :
                y \in s4'[q].make \/ (s4'[q].drop = {} /\ y \in s2'.triggers)
      BY <2>1, <2>4, <1>8, <1>6 DEF JournalInv, J!InstallsMakeAll
    <2> QED BY <1>3, <2>2, <2>3, <2>5 DEF JournalInv, J!InstallsMakeAll
  <1>13. J!VouchedIsWatched'
    <2>1. CASE s3 = p
      <3>1. p \notin Writers
        BY JournalAssumption
      <3> QED BY <2>1, <3>1, <1>2, <1>3, <1>5, <1>6 DEF JournalInv, J!VouchedIsWatched, J!Watched
    <2>2. CASE s3 # p
      BY <2>2, <1>3, <1>9 DEF JournalInv, J!InstallsMakeAll, J!VouchedIsWatched, J!Uninstalling
    <2> QED BY <2>1, <2>2
  <1> QED BY <1>11, <1>12, <1>13 DEF JournalInv

\* A trigger that is made is one less to make.
LEMMA JournalCreates ==
  ASSUME JournalInv, NEW p \in Installers, J!CreateTrigger(p)
  PROVE  JournalInv'
  <1>1. PICK x \in s4[p].make :
          /\ J!Execute(p, [J!Seen(p) EXCEPT !.triggers = @ \cup {x}])
          /\ J!Goto(p, [s4[p] EXCEPT !.make = @ \ {x}])
    BY DEF J!CreateTrigger
  <1> DEFINE d == J!Seen(p)
             e == [d EXCEPT !.triggers = d.triggers \cup {x}]
             rest == [kind |-> s4[p].kind, drop |-> s4[p].drop, make |-> s4[p].make \ {x}]
  <1>2. s4[p] \in TodoType /\ p # None /\ s4[p].drop = {}
    BY JournalAssumption DEF JournalInv, J!TypeOK, TodoType, J!CreateTrigger
  <1>3. J!Execute(p, e) /\ s4' = [s4 EXCEPT ![p] = rest] /\ UNCHANGED <<s3, s5>>
    <2>1. rest = [s4[p] EXCEPT !.make = @ \ {x}]
      BY <1>2 DEF TodoType
    <2> HIDE DEF rest
    <2> QED BY <1>1, <2>1 DEF J!Goto, J!CreateTrigger
  <1>4. d \in J!Databases
    BY <1>2 DEF JournalInv, J!TypeOK, J!Seen
  <1>5. e \in J!Databases /\ e.triggers = d.triggers \cup {x} /\ \A t, b : J!Leads(b, d, t) => J!Leads(b, e, t)
    <2>1. d.triggers \cup {x} \in SUBSET J!Triggers
      BY <1>2, <1>4 DEF J!Databases, TodoType
    <2> HIDE DEF d
    <2> QED BY <1>4, <2>1, TriggersChange
  <1>6. \/ s3 = p /\ d = s2 /\ s2' = e /\ s1' = s1
        \/ s3 = None /\ d = s1 /\ s1' = e /\ s2' = s2
    BY <1>2, <1>3 DEF J!Execute, J!Seen
  <1>7. rest \in TodoType /\ rest.kind = s4[p].kind /\ rest.drop = {} /\ rest.make = s4[p].make \ {x}
    BY <1>2 DEF TodoType
  <1> HIDE DEF d, e, rest
  <1>8. J!TypeOK'
    BY <1>3, <1>5, <1>6, <1>7 DEF JournalInv, J!TypeOK, TodoType
  <1>9. J!InstallsMakeAll'
    <2>1. \A q \in Installers : s4'[q] = IF q = p THEN rest ELSE s4[q]
      BY <1>3 DEF JournalInv, J!TypeOK
    <2>2. J!Uninstalling' => J!Uninstalling
      BY <1>7, <2>1 DEF J!Uninstalling
    <2>3. \A q \in Installers : (s4'[q].kind = "install" <=> s3 = q) /\ (s4'[q].kind = "none" => s4'[q].drop = {})
      BY <2>1, <1>7 DEF JournalInv, J!InstallsMakeAll
    <2>4. \A q \in Installers : s3 = q => \A y \in (JournalTables \ Skipped) \X J!Events :
                y \in s4'[q].make \/ (s4'[q].drop = {} /\ y \in s2'.triggers)
      BY <2>1, <1>2, <1>7, <1>6, <1>5 DEF JournalInv, J!InstallsMakeAll
    <2> QED BY <1>3, <2>2, <2>3, <2>4 DEF JournalInv, J!InstallsMakeAll
  <1>10. J!VouchedIsWatched'
    BY <1>2, <1>3, <1>5, <1>6 DEF JournalInv, J!VouchedIsWatched, J!Watched
  <1> QED BY <1>8, <1>9, <1>10 DEF JournalInv

\* An install that ends has made every trigger.
LEMMA JournalInstalled ==
  ASSUME JournalInv, NEW p \in Installers, J!EndInstall(p)
  PROVE  JournalInv'
  <1>1. /\ s3 = p /\ s1' = s2 /\ s3' = None /\ p # None
        /\ s4' = [s4 EXCEPT ![p] = J!Done] /\ s4[p].drop = {} /\ s4[p].make = {}
        /\ s5' = [t \in JournalTables |-> IF t \in Skipped \/ J!Uninstalling THEN None
                    ELSE [rows |-> s2.rows[t], from |-> Len(s2.log)]]
    BY JournalAssumption DEF J!EndInstall, J!Commit, J!Goto
  <1>2. s2 \in J!Databases
    BY <1>1 DEF JournalInv, J!TypeOK
  <1>3. J!Done \in TodoType /\ J!Done.kind = "none" /\ J!Done.drop = {}
    BY DEF J!Done, J!Call, TodoType
  <1>4. J!TypeOK'
    <2>1. s5' \in [JournalTables -> {None} \cup [rows : J!Rows, from : Nat]]
      BY <1>1, <1>2 DEF J!Databases
    <2>2. s4' \in [Installers -> TodoType]
      BY <1>1, <1>3 DEF JournalInv, J!TypeOK, TodoType
    <2> QED BY <1>1, <1>2, <2>1, <2>2 DEF JournalInv, J!TypeOK, TodoType
  <1>5. J!InstallsMakeAll'
    <2>1. \A q \in Installers : s4'[q] = IF q = p THEN J!Done ELSE s4[q]
      BY <1>1 DEF JournalInv, J!TypeOK
    <2>2. J!Uninstalling' => J!Uninstalling
      BY <1>3, <2>1 DEF J!Uninstalling
    <2>3. \A q \in Installers : (s4'[q].kind = "install" <=> s3' = q) /\ (s4'[q].kind = "none" => s4'[q].drop = {})
      BY <2>1, <1>1, <1>3, JournalAssumption DEF JournalInv, J!InstallsMakeAll
    <2>4. J!Uninstalling => \A t \in JournalTables : s5'[t] = None
      BY <1>1
    <2> QED BY <1>1, <2>2, <2>3, <2>4, JournalAssumption DEF J!InstallsMakeAll
  <1>6. J!VouchedIsWatched'
    <2> SUFFICES ASSUME NEW t \in JournalTables, s5'[t] # None
                 PROVE  J!Leads(s5'[t], s2, t) /\ J!Watched(s2, t)
      BY <1>1, JournalAssumption DEF J!VouchedIsWatched, J!Watched
    <2>1. t \notin Skipped /\ s5'[t] = [rows |-> s2.rows[t], from |-> Len(s2.log)]
      BY <1>1
    <2>2. J!Watched(s2, t)
      BY <2>1, <1>1 DEF JournalInv, J!InstallsMakeAll, J!Watched
    <2> QED BY <2>1, <2>2, <1>2, LeadsFromHere
  <1> QED BY <1>4, <1>5, <1>6 DEF JournalInv

\* What fails leaves the database as it was committed.
LEMMA JournalFails ==
  ASSUME JournalInv, NEW p \in Installers, J!Fail(p)
  PROVE  JournalInv'
  <1>1. /\ s4' = [s4 EXCEPT ![p] = J!Done] /\ UNCHANGED <<s1, s5>>
        /\ s3' = IF s3 = p THEN None ELSE s3
        /\ s3 # p => s2' = s2
    BY DEF J!Fail, J!Goto, J!Rollback
  <1>2. J!Done \in TodoType /\ J!Done.kind = "none" /\ J!Done.drop = {}
    BY DEF J!Done, J!Call, TodoType
  <1>3. s4' \in [Installers -> TodoType]
    BY <1>1, <1>2 DEF JournalInv, J!TypeOK, TodoType
  <1>4. J!TypeOK'
    BY <1>1, <1>3 DEF JournalInv, J!TypeOK, TodoType
  <1>5. J!InstallsMakeAll'
    <2>1. \A q \in Installers : s4'[q] = IF q = p THEN J!Done ELSE s4[q]
      BY <1>1 DEF JournalInv, J!TypeOK
    <2>2. J!Uninstalling' => J!Uninstalling
      BY <1>2, <2>1 DEF J!Uninstalling
    <2>3. \A q \in Installers : (s4'[q].kind = "install" <=> s3' = q) /\ (s4'[q].kind = "none" => s4'[q].drop = {})
      BY <2>1, <1>1, <1>2, JournalAssumption DEF JournalInv, J!InstallsMakeAll
    <2> QED BY <1>1, <2>1, <2>2, <2>3, JournalAssumption DEF JournalInv, J!InstallsMakeAll
  <1>6. J!VouchedIsWatched'
    BY <1>1, JournalAssumption DEF JournalInv, J!VouchedIsWatched, J!Watched
  <1> QED BY <1>4, <1>5, <1>6 DEF JournalInv

\* A transaction that writes rows watches what the database does.
LEMMA JournalWriteBegins ==
  ASSUME JournalInv, NEW w \in Writers, J!BeginWrite(w)
  PROVE  JournalInv'
  <1>1. s3 = None /\ s3' = w /\ s2' = s1 /\ UNCHANGED <<s1, s4, s5>> /\ J!Begin(w)
        /\ w \notin Installers
    BY JournalAssumption DEF J!BeginWrite, J!Begin
  <1>2. J!TypeOK'
    BY <1>1, JournalBegins DEF JournalInv, J!TypeOK
  <1>3. J!InstallsMakeAll'
    BY <1>1, JournalAssumption DEF JournalInv, J!InstallsMakeAll, J!Uninstalling
  <1>4. J!VouchedIsWatched'
    BY <1>1, JournalBegins
  <1> QED BY <1>2, <1>3, <1>4 DEF JournalInv

\* It is committed or forgotten as a whole.
LEMMA JournalWriteEnds ==
  ASSUME JournalInv, NEW w \in Writers, J!EndWrite(w)
  PROVE  JournalInv'
  <1>1. s3 = w /\ s3' = None /\ s1' \in {s1, s2} /\ UNCHANGED <<s4, s5>>
        /\ w \notin Installers /\ w # None
    BY JournalAssumption DEF J!EndWrite, J!Commit, J!Rollback
  <1>2. J!TypeOK'
    BY <1>1 DEF JournalInv, J!TypeOK
  <1>3. J!InstallsMakeAll'
    BY <1>1, JournalAssumption DEF JournalInv, J!InstallsMakeAll, J!Uninstalling
  <1>4. J!VouchedIsWatched'
    BY <1>1, JournalAssumption DEF JournalInv, J!VouchedIsWatched, J!Watched
  <1> QED BY <1>2, <1>3, <1>4 DEF JournalInv

\* A table that is rebuilt is no longer vouched for.
LEMMA JournalRebuilds ==
  ASSUME JournalInv, NEW w \in Writers, NEW t \in JournalTables, J!Rebuild(w, t)
  PROVE  JournalInv'
  <1> DEFINE X == {x \in s1.triggers : x[1] # t}
             e == [s1 EXCEPT !.triggers = X]
  <1>1. s3 = None /\ s1' = e /\ s5' = [s5 EXCEPT ![t] = None] /\ UNCHANGED <<s2, s3, s4>>
    BY DEF J!Rebuild
  <1>2. s1 \in J!Databases /\ X \in SUBSET J!Triggers
    BY DEF JournalInv, J!TypeOK, J!Databases
  <1>3. e \in J!Databases /\ e.triggers = X /\ \A u, b : J!Leads(b, s1, u) => J!Leads(b, e, u)
    <2> HIDE DEF X
    <2> QED BY <1>2, TriggersChange
  <1>4. \A u \in JournalTables : s5'[u] = IF u = t THEN None ELSE s5[u]
    BY <1>1 DEF JournalInv, J!TypeOK
  <1> HIDE DEF e
  <1>5. J!TypeOK'
    BY <1>1, <1>3 DEF JournalInv, J!TypeOK
  <1>6. J!InstallsMakeAll'
    BY <1>1, <1>4 DEF JournalInv, J!InstallsMakeAll, J!Uninstalling
  <1>7. J!VouchedIsWatched'
    <2> SUFFICES ASSUME NEW u \in JournalTables, s5'[u] # None
                 PROVE  J!Leads(s5[u], e, u) /\ J!Watched(e, u)
      BY <1>1, <1>4, JournalAssumption DEF J!VouchedIsWatched, J!Watched
    <2>1. u # t /\ s5[u] # None
      BY <1>4
    <2>2. J!Watched(e, u)
      BY <2>1, <1>3 DEF JournalInv, J!VouchedIsWatched, J!Watched
    <2> QED BY <2>1, <2>2, <1>3 DEF JournalInv, J!VouchedIsWatched
  <1> QED BY <1>5, <1>6, <1>7 DEF JournalInv

\* Every action keeps the invariant, which implies the property.
LEMMA JournalStep == JournalInv /\ J!Next => JournalInv'
  BY JournalInstalls, JournalUninstalls, JournalDrops, JournalCreates, JournalInstalled, JournalFails,
     JournalWriteBegins, JournalWriteEnds, JournalRebuilds, JournalWrites
  DEF J!Next

LEMMA JournalKept == JournalInv => J!JournalReplays
  BY ReplayIsOne DEF JournalInv, J!JournalReplays, J!VouchedIsWatched

LEMMA JournalRests == JournalInv /\ UNCHANGED <<s1, s2, s3, s4, s5>> => JournalInv'
  BY DEF JournalInv, J!TypeOK, J!InstallsMakeAll, J!Uninstalling, J!VouchedIsWatched, J!Watched

-----------------------------------------------------------------------------
(* The generated resolvers.  s1 is the setup, s2 the request, s3 tells     *)
(* whether the application started, s4 is the database, s5 the loaders and *)
(* s6 the answers.                                                         *)

\* What a surface injects is provided, made for it or named by the application.
LEMMA SurfacesFind ==
  ASSUME NEW o, o.backend # None, ~Q!WiringRefused(o)
  PROVE  /\ Q!ResolverInjects(o) \cup Q!ControllerInjects(o) \subseteq Q!Provided(o) \cup Q!Named(o)
         /\ ~Q!Starts(o) => Q!ServiceToken(o) = None
  <1>1. Q!Generated(o) /\ o.graphql.service = None => Q!ServiceToken(o) # None
    BY GraphAssumption DEF Q!ServiceToken, Q!NeedsService, Q!Or
  <1>2. Q!Generated(o) /\ o.graphql.loader = None => Q!LoaderToken(o) # None
    BY GraphAssumption DEF Q!LoaderToken, Q!NeedsLoader, Q!Or
  <1>3. o.rest # None /\ o.rest.service = None => Q!ServiceToken(o) # None
    BY GraphAssumption DEF Q!ServiceToken, Q!NeedsService, Q!Or
  <1>4. Q!ResolverInjects(o) \subseteq Q!Provided(o) \cup Q!Named(o)
    BY <1>1, <1>2, GraphAssumption DEF Q!ResolverInjects, Q!Provided, Q!Named, Q!Or
  <1>5. Q!ControllerInjects(o) \subseteq Q!Provided(o) \cup Q!Named(o)
    BY <1>3, GraphAssumption DEF Q!ControllerInjects, Q!Provided, Q!Named, Q!Or
  <1>6. Q!ServiceToken(o) # None => Q!LoaderInjects(o) \subseteq Q!Provided(o)
    BY DEF Q!LoaderInjects, Q!Provided, Q!Or
  <1> QED BY <1>4, <1>5, <1>6 DEF Q!Starts

GraphInv == Q!TypeOK /\ Q!StartsAsWired /\ Q!LoadersFound /\ Q!AnswersFollow /\ Q!SelectionsKept

\* What only depends on the schema stays.
LEMMA SchemaStays ==
  ASSUME s1' = s1
  PROVE  /\ \A t : Q!Schema(t)' = Q!Schema(t)
         /\ \A t, r : Q!Relation(t, r)' = Q!Relation(t, r)
         /\ \A t, n : Q!Keys(t, n)' = Q!Keys(t, n)
         /\ \A t, n : Q!Derived(t, n)' = Q!Derived(t, n)
         /\ \A t, ks, n : Q!Columns(t, ks, n)' = Q!Columns(t, ks, n)
         /\ \A d, t, n : Q!Found(d, t, n)' = Q!Found(d, t, n)
         /\ \A d, k, n, v : Q!Matching(d, k, n, v)' = Q!Matching(d, k, n, v)
         /\ \A t, n, c : Q!LoaderKey(t, n, c)' = Q!LoaderKey(t, n, c)
         /\ \A k, l : Q!LoadedColumns(k, l)' = Q!LoadedColumns(k, l)
  <1>1. \A t : Q!Schema(t)' = Q!Schema(t)
    BY DEF Q!Schema
  <1>2. \A t, r : Q!Relation(t, r)' = Q!Relation(t, r)
    BY <1>1 DEF Q!Relation, Q!Or
  <1>3. \A t, n : Q!Below(t, n)' = Q!Below(t, n)
    BY <1>2 DEF Q!Below
  <1>4. \A t, n : Q!Keys(t, n)' = Q!Keys(t, n)
    BY <1>1, <1>3 DEF Q!Keys, Q!InNodes
  <1>5. \A t, n : Q!Derived(t, n)' = Q!Derived(t, n)
    BY <1>1 DEF Q!Derived
  <1>6. \A t, ks, n : Q!Columns(t, ks, n)' = Q!Columns(t, ks, n)
    BY <1>1, <1>5 DEF Q!Columns
  <1>7. \A d, t, n, i : Q!JoinKeeps(d, t, n, i)' = Q!JoinKeeps(d, t, n, i)
    BY <1>2 DEF Q!JoinKeeps, Q!Related, Q!Ids
  <1>8. \A d, t, n : Q!Found(d, t, n)' = Q!Found(d, t, n)
    BY <1>7 DEF Q!Found, Q!Ids
  <1>9. \A d, k, n, v : Q!Matching(d, k, n, v)' = Q!Matching(d, k, n, v)
    BY <1>8 DEF Q!Matching
  <1>10. \A t, n, c : Q!LoaderKey(t, n, c)' = Q!LoaderKey(t, n, c)
    BY <1>4 DEF Q!LoaderKey
  <1>11. \A k, l : Q!LoadedColumns(k, l)' = Q!LoadedColumns(k, l)
    BY <1>6 DEF Q!LoadedColumns
  <1> QED BY <1>1, <1>2, <1>4, <1>5, <1>6, <1>8, <1>9, <1>10, <1>11

\* What was said of an answer holds while the loaders keep their queries.
LEMMA ClaimsStay ==
  ASSUME s1' = s1, \A k \in DOMAIN s5 : k \in DOMAIN s5' /\ s5'[k].node = s5[k].node
  PROVE  /\ \A a : Q!Dealt(a) => Q!Dealt(a)'
         /\ \A p, y, a : Q!Follows(p, y, a) => Q!Follows(p, y, a)'
         /\ \A a : Q!Selected(a) => Q!Selected(a)'
  <1>1. ASSUME NEW a, Q!Dealt(a) PROVE Q!Dealt(a)'
    <2>1. \A t, ks, n : Q!Columns(t, ks, n)' = Q!Columns(t, ks, n)
      BY SchemaStays
    <2>2. \A d, k, n, v : Q!Matching(d, k, n, v)' = Q!Matching(d, k, n, v)
      BY SchemaStays
    <2>3. a.via \in DOMAIN s5 /\ a.via \in DOMAIN s5' /\ s5'[a.via].node = s5[a.via].node
      BY <1>1 DEF Q!Dealt
    <2> QED BY <1>1, <2>1, <2>2, <2>3 DEF Q!Dealt, Q!LoadedColumns
  <1>2. ASSUME NEW p, NEW y, NEW a, Q!Follows(p, y, a) PROVE Q!Follows(p, y, a)'
    <2>1. /\ \A t : Q!Schema(t)' = Q!Schema(t)
          /\ \A t, r : Q!Relation(t, r)' = Q!Relation(t, r)
          /\ \A t, n, c : Q!LoaderKey(t, n, c)' = Q!LoaderKey(t, n, c)
      BY SchemaStays
    <2> QED BY <1>1, <1>2, <2>1 DEF Q!Follows, Q!Related, Q!Ids
  <1>3. ASSUME NEW a, Q!Selected(a) PROVE Q!Selected(a)'
    <2>1. /\ \A t : Q!Schema(t)' = Q!Schema(t)
          /\ \A t, n : Q!Keys(t, n)' = Q!Keys(t, n)
          /\ \A t, n, c : Q!LoaderKey(t, n, c)' = Q!LoaderKey(t, n, c)
      BY SchemaStays
    <2> QED BY <1>3, <2>1 DEF Q!Selected
  <1> QED BY <1>1, <1>2, <1>3

\* A loader keeps what it found while the answers keep their nodes.
LEMMA LoadersStay ==
  ASSUME Q!LoadersFound, s1' = s1, s5' = s5,
         \A x \in DOMAIN s6 : /\ x \in DOMAIN s6' /\ s6'[x].via = s6[x].via
                              /\ s6'[x].type = s6[x].type /\ s6'[x].node = s6[x].node
  PROVE  Q!LoadersFound'
  <1>1. \A d, k, n, v : Q!Matching(d, k, n, v)' = Q!Matching(d, k, n, v)
    BY SchemaStays
  <1> SUFFICES ASSUME NEW k \in DOMAIN s5
               PROVE  /\ k.args = s5[k].node.args /\ DOMAIN s5[k].rows = DOMAIN s5[k].seen
                      /\ \E x \in DOMAIN s6' : s6'[x].via = k /\ s6'[x].type = k.type /\ s6'[x].node = s5[k].node
                      /\ \A v \in DOMAIN s5[k].rows :
                           s5[k].rows[v] = Q!Matching(s5[k].seen[v], k, s5[k].node, v)
    BY <1>1 DEF Q!LoadersFound
  <1> QED BY DEF Q!LoadersFound

\* The answers below an answer are told by where they are.
LEMMA TasksBelow ==
  ASSUME NEW x, NEW y \in Q!Tasks(x)
  PROVE  /\ s6[x].state = "rows"
         /\ \E j \in DOMAIN s6[x].node.below, i \in s6[x].rows : y = <<x, j, i>>
         /\ \A i : y # Q!Root(i)
         /\ \A z : y \in Q!Tasks(z) => z = x
  <1>1. PICK j \in DOMAIN s6[x].node.below, i \in IF s6[x].state = "rows" THEN s6[x].rows ELSE {} :
          y = <<x, j, i>>
    BY DEF Q!Tasks
  <1>2. \A k : <<x, j, i>> # <<k>>
    OBVIOUS
  <1>3. \A z : y \in Q!Tasks(z) => z = x
    <2> SUFFICES ASSUME NEW z, y \in Q!Tasks(z) PROVE z = x
      OBVIOUS
    <2>1. PICK k, l : y = <<z, k, l>>
      BY DEF Q!Tasks
    <2> QED BY <1>1, <2>1
  <1> QED BY <1>1, <1>2, <1>3 DEF Q!Root

\* Queries of the loaders stay, whatever they load.
NodesStay == \A k \in DOMAIN s5 : k \in DOMAIN s5' /\ s5'[k].node = s5[k].node

\* A new answer is that of a root or follows from the one above it.
LEMMA AnswerComes ==
  ASSUME GraphInv, NEW x, x \notin DOMAIN s6, NEW a, s6' = Q!With(s6, x, a), UNCHANGED <<s1, s3>>,
         NodesStay, \A k \in DOMAIN s5' : Q!IsLoader(s5'[k]), Q!LoadersFound',
         Q!Selected(a)',
         \/ \E i : x = Q!Root(i)
         \/ \E w \in DOMAIN s6 : \E p : x \in Q!Tasks(w) /\ p = s6[w] /\ Q!Follows(p, x, a)'
  PROVE  GraphInv'
  <1>1. /\ DOMAIN s6' = DOMAIN s6 \cup {x} /\ s6'[x] = a
        /\ \A y \in DOMAIN s6 : s6'[y] = s6[y]
    BY DEF Q!With, Q!Over
  <1>2. Q!TypeOK'
    BY <1>1 DEF GraphInv, Q!TypeOK
  <1>3. Q!StartsAsWired'
    BY DEF GraphInv, Q!StartsAsWired
  <1>4. /\ \A p, y, b : Q!Follows(p, y, b) => Q!Follows(p, y, b)'
        /\ \A b : Q!Selected(b) => Q!Selected(b)'
    BY ClaimsStay DEF NodesStay
  <1>5. Q!SelectionsKept'
    BY <1>1, <1>4 DEF GraphInv, Q!SelectionsKept
  <1>6. /\ \A w, y : y \in Q!Tasks(w)' => \E j, i : y = <<w, j, i>>
        /\ \A w, y : y \in Q!Tasks(w) => \E j, i : y = <<w, j, i>>
        /\ \A w \in DOMAIN s6 : Q!Tasks(w)' = Q!Tasks(w)
    BY <1>1 DEF Q!Tasks
  <1>7. \A k, w, j, i : Q!Root(k) # <<w, j, i>>
    BY DEF Q!Root
  <1>8. \A y \in DOMAIN s6 : (\E i : y = Q!Root(i)) \/ (\E w \in DOMAIN s6 : y \in Q!Tasks(w))
    BY DEF GraphInv, Q!AnswersFollow
  <1>9. ASSUME NEW w \in DOMAIN s6', NEW y \in DOMAIN s6', y \in Q!Tasks(w)', NEW p, p = s6'[w], NEW b, b = s6'[y]
        PROVE  Q!Follows(p, y, b)'
    <2>1. PICK j, i : y = <<w, j, i>>
      BY <1>6, <1>9
    <2>2. w # x
      <3> SUFFICES ASSUME w = x PROVE FALSE
        OBVIOUS
      <3>1. y # x
        <4>1. CASE \E k : x = Q!Root(k)
          BY <4>1, <1>7, <2>1
        <4>2. CASE \E v \in DOMAIN s6 : x \in Q!Tasks(v)
          <5>1. PICK v \in DOMAIN s6 : \E k, l : x = <<v, k, l>>
            BY <4>2, <1>6
          <5> QED BY <5>1, <2>1
        <4> QED BY <4>1, <4>2
      <3>2. PICK v \in DOMAIN s6 : y \in Q!Tasks(v)
        BY <3>1, <1>1, <1>7, <1>8, <2>1
      <3>3. PICK k, l : y = <<v, k, l>>
        BY <3>2, <1>6
      <3> QED BY <3>3, <2>1
    <2>3. w \in DOMAIN s6 /\ y \in Q!Tasks(w) /\ p = s6[w]
      BY <2>2, <1>1, <1>6, <1>9
    <2>4. CASE y = x
      <3>1. PICK v \in DOMAIN s6 : \E q : x \in Q!Tasks(v) /\ q = s6[v] /\ Q!Follows(q, x, a)'
        BY <2>4, <2>1, <1>7
      <3>2. PICK k, l : x = <<v, k, l>>
        BY <3>1, <1>6
      <3>3. v = w
        BY <3>2, <2>1, <2>4
      <3> QED BY <3>1, <3>3, <2>3, <2>4, <1>1, <1>9
    <2>5. CASE y # x
      <3>1. y \in DOMAIN s6 /\ b = s6[y]
        BY <2>5, <1>1, <1>9
      <3>2. Q!Follows(p, y, b)
        BY <3>1, <2>3 DEF GraphInv, Q!AnswersFollow
      <3> QED BY <3>2, <1>4
    <2> QED BY <2>4, <2>5
  <1>10. \A w \in DOMAIN s6' : \A y \in Q!Tasks(w)' \cap DOMAIN s6' : Q!Follows(s6[w], y, s6[y])'
    BY <1>9
  <1>11. \A y \in DOMAIN s6' : (\E i : y = Q!Root(i)) \/ (\E w \in DOMAIN s6' : y \in Q!Tasks(w)')
    <2> TAKE y \in DOMAIN s6'
    <2>1. CASE y = x
      <3>1. CASE \E i : x = Q!Root(i)
        BY <2>1, <3>1
      <3>2. CASE \E w \in DOMAIN s6 : x \in Q!Tasks(w)
        BY <2>1, <3>2, <1>1, <1>6
      <3> QED BY <3>1, <3>2
    <2>2. CASE y \in DOMAIN s6
      BY <2>2, <1>1, <1>6, <1>8
    <2> QED BY <2>1, <2>2, <1>1
  <1>12. Q!AnswersFollow'
    BY <1>10, <1>11 DEF Q!AnswersFollow, Q!Root
  <1> QED BY <1>2, <1>3, <1>5, <1>12 DEF GraphInv

\* The row above x and the field asked for lead to the key of a loader.
Leading(x, t, n, c, key) ==
    \E w \in DOMAIN s6 : \E p :
        LET f == Q!Relation(p.type, n.rel)
        IN  /\ x \in Q!Tasks(w) /\ p = s6[w] /\ n = p.node.below[x[2]] /\ n.rel \notin p.joined
            /\ t = f.to /\ c = f.target
            /\ key = IF f.source \in p.columns THEN p.table[p.type][x[3]][f.source] ELSE None

\* A load without a key answers nothing, and any other waits for its loader.
LEMMA LoadComes ==
  ASSUME GraphInv, NEW x, x \notin DOMAIN s6, NEW t, NEW n, NEW c, NEW key,
         Q!Load(x, t, n, c, key), UNCHANGED <<s1, s3>>,
         (\E i : x = Q!Root(i)) \/ Leading(x, t, n, c, key)
  PROVE  GraphInv'
  <1>0. PICK k, d0 : k = Q!LoaderKey(t, n, c) /\ d0 = s4
    OBVIOUS
  <1> DEFINE new == [node |-> n, queue |-> {}, rows |-> Q!Empty, seen |-> Q!Empty]
             l   == IF k \in DOMAIN s5 THEN s5[k] ELSE new
             queued == [node |-> l.node, queue |-> l.queue \cup {key}, rows |-> l.rows, seen |-> l.seen]
             got == [type |-> t, node |-> n, state |-> "rows", rows |-> {}, columns |-> {}, joined |-> {},
                     table |-> d0, key |-> key, via |-> k]
             waits == [type |-> t, node |-> n, state |-> "waits", rows |-> {}, columns |-> {}, joined |-> {},
                       table |-> d0, key |-> key, via |-> k]
  <1>1. k.type = t /\ k.args = n.args /\ k.target = c
    BY <1>0 DEF Q!LoaderKey
  <1>2. Q!IsLoader(l) /\ (k \in DOMAIN s5 => l = s5[k])
    <2>1. Q!IsLoader(new)
      BY DEF Q!IsLoader
    <2> HIDE DEF new
    <2> QED BY <2>1 DEF GraphInv, Q!TypeOK
  <1>3. /\ key = None => s6' = Q!With(s6, x, got) /\ s5' = s5
        /\ key # None => /\ s6' = Q!With(s6, x, waits)
                         /\ s5' = Q!With(s5, k, IF key \in DOMAIN l.rows THEN l ELSE queued)
    <2>1. Q!Asked(t, n, "rows", key, k) = got /\ Q!Asked(t, n, "waits", key, k) = waits
      BY <1>0 DEF Q!Asked
    <2>2. [l EXCEPT !.queue = @ \cup {key}] = queued
      <3> HIDE DEF l
      <3> QED BY <1>2 DEF Q!IsLoader
    <2> HIDE DEF got, waits, queued
    <2> QED BY <1>0, <2>1, <2>2 DEF Q!Load, Q!Put
  <1>4. \A u, m, d : Q!LoaderKey(u, m, d)' = Q!LoaderKey(u, m, d)
    BY SchemaStays
  <1>5. \A u, r : Q!Relation(u, r)' = Q!Relation(u, r)
    BY SchemaStays
  <1>6. CASE key = None
    <2>1. Q!Selected(got)'
      BY DEF Q!Selected
    <2>2. NodesStay /\ \A j \in DOMAIN s5' : Q!IsLoader(s5'[j])
      BY <1>3, <1>6 DEF NodesStay, GraphInv, Q!TypeOK
    <2>3. Q!LoadersFound'
      <3>1. \A y \in DOMAIN s6 : y \in DOMAIN s6' /\ s6'[y] = s6[y]
        BY <1>3, <1>6 DEF Q!With, Q!Over
      <3> QED BY <3>1, <1>3, <1>6, LoadersStay DEF GraphInv
    <2>4. \/ \E i : x = Q!Root(i)
          \/ \E w \in DOMAIN s6 : \E p : x \in Q!Tasks(w) /\ p = s6[w] /\ Q!Follows(p, x, got)'
      <3>1. CASE Leading(x, t, n, c, key)
        BY <3>1, <1>0, <1>4, <1>5, <1>6 DEF Leading, Q!Follows
      <3> QED BY <3>1
    <2> HIDE DEF got
    <2> QED BY <2>1, <2>2, <2>3, <2>4, <1>3, <1>6, AnswerComes
  <1>7. CASE key # None
    <2> DEFINE m == IF key \in DOMAIN l.rows THEN l ELSE queued
    <2>1. m.node = l.node /\ m.rows = l.rows /\ m.seen = l.seen /\ Q!IsLoader(m)
      <3>1. Q!IsLoader(queued) /\ queued.node = l.node /\ queued.rows = l.rows /\ queued.seen = l.seen
        BY DEF Q!IsLoader
      <3> HIDE DEF l, queued
      <3> QED BY <3>1, <1>2
    <2>2. s5' = Q!With(s5, k, m) /\ s6' = Q!With(s6, x, waits)
      BY <1>3, <1>7
    <2> HIDE DEF m
    <2>3. /\ DOMAIN s5' = DOMAIN s5 \cup {k} /\ s5'[k] = m
          /\ \A j \in DOMAIN s5 : j # k => s5'[j] = s5[j]
      <3> QED BY <2>2 DEF Q!With, Q!Over
    <2>4. /\ DOMAIN s6' = DOMAIN s6 \cup {x} /\ s6'[x] = waits
          /\ \A y \in DOMAIN s6 : s6'[y] = s6[y]
      <3> HIDE DEF waits
      <3> QED BY <2>2 DEF Q!With, Q!Over
    <2>5. NodesStay /\ \A j \in DOMAIN s5' : Q!IsLoader(s5'[j])
      <3> HIDE DEF l
      <3> QED BY <2>1, <2>3, <1>2 DEF NodesStay, GraphInv, Q!TypeOK
    <2>6. Q!Selected(waits)'
      <3>1. k \in DOMAIN s5'
        BY <2>3
      <3>2. Q!LoaderKey(t, n, k.target)' = k
        BY <1>0, <1>1, <1>4
      <3>3. waits.type = t /\ waits.node = n /\ waits.via = k /\ waits.key = key /\ waits.state = "waits"
        OBVIOUS
      <3> HIDE DEF waits
      <3> QED BY <3>1, <3>2, <3>3, <1>7 DEF Q!Selected
    <2>7. Q!LoadersFound'
      <3>1. \A d, j, o, v : Q!Matching(d, j, o, v)' = Q!Matching(d, j, o, v)
        BY SchemaStays
      <3>2. ASSUME NEW j \in DOMAIN s5, j # k \/ k \in DOMAIN s5, NEW lo, lo = s5[j]
            PROVE  /\ j.args = lo.node.args /\ DOMAIN lo.rows = DOMAIN lo.seen
                   /\ \E y \in DOMAIN s6' : s6'[y].via = j /\ s6'[y].type = j.type /\ s6'[y].node = lo.node
                   /\ \A v \in DOMAIN lo.rows : lo.rows[v] = Q!Matching(lo.seen[v], j, lo.node, v)
        BY <2>4, <3>2 DEF GraphInv, Q!LoadersFound
      <3>3. CASE k \in DOMAIN s5
        <4>1. ASSUME NEW j \in DOMAIN s5'
              PROVE  j \in DOMAIN s5 /\ s5'[j].node = s5[j].node /\ s5'[j].rows = s5[j].rows /\ s5'[j].seen = s5[j].seen
          <5> HIDE DEF l
          <5> QED BY <3>3, <2>1, <2>3, <1>2
        <4> HIDE DEF l
        <4> QED BY <4>1, <3>1, <3>2, <3>3 DEF Q!LoadersFound
      <3>4. CASE k \notin DOMAIN s5
        <4>1. m.node = n /\ DOMAIN m.rows = {} /\ DOMAIN m.seen = {}
          <5>1. l = new
            BY <3>4
          <5>2. new.node = n /\ DOMAIN new.rows = {} /\ DOMAIN new.seen = {}
            BY DEF Q!Empty
          <5> HIDE DEF l, new
          <5> QED BY <5>1, <5>2, <2>1
        <4>2. waits.via = k /\ waits.type = k.type /\ waits.node = n
          BY <1>1
        <4> HIDE DEF l, waits
        <4>3. ASSUME NEW j \in DOMAIN s5', NEW lo, lo = s5'[j]
              PROVE  /\ j.args = lo.node.args /\ DOMAIN lo.rows = DOMAIN lo.seen
                     /\ \E y \in DOMAIN s6' : s6'[y].via = j /\ s6'[y].type = j.type /\ s6'[y].node = lo.node
                     /\ \A v \in DOMAIN lo.rows : lo.rows[v] = Q!Matching(lo.seen[v], j, lo.node, v)
          <5>1. CASE j = k
            BY <5>1, <4>1, <4>2, <4>3, <2>3, <2>4, <1>1
          <5>2. CASE j # k
            BY <5>2, <4>3, <2>3, <3>2
          <5> QED BY <5>1, <5>2
        <4> QED BY <4>3, <3>1 DEF Q!LoadersFound
      <3> QED BY <3>3, <3>4
    <2>8. \/ \E i : x = Q!Root(i)
          \/ \E w \in DOMAIN s6 : \E p : x \in Q!Tasks(w) /\ p = s6[w] /\ Q!Follows(p, x, waits)'
      <3>1. CASE Leading(x, t, n, c, key)
        <4>1. PICK w \in DOMAIN s6 : \E p :
                LET f == Q!Relation(p.type, n.rel)
                IN  /\ x \in Q!Tasks(w) /\ p = s6[w] /\ n = p.node.below[x[2]] /\ n.rel \notin p.joined
                    /\ t = f.to /\ c = f.target
                    /\ key = IF f.source \in p.columns THEN p.table[p.type][x[3]][f.source] ELSE None
          BY <3>1 DEF Leading
        <4>2. PICK p : LET f == Q!Relation(p.type, n.rel)
                IN  /\ x \in Q!Tasks(w) /\ p = s6[w] /\ n = p.node.below[x[2]] /\ n.rel \notin p.joined
                    /\ t = f.to /\ c = f.target
                    /\ key = IF f.source \in p.columns THEN p.table[p.type][x[3]][f.source] ELSE None
          BY <4>1
        <4>3. waits.type = t /\ waits.node = n /\ waits.via = k /\ waits.key = key /\ waits.state = "waits"
          OBVIOUS
        <4>4. Q!Dealt(waits)'
          <5>1. k \in DOMAIN s5'
            BY <2>3
          <5> HIDE DEF waits
          <5> QED BY <4>3, <5>1, <1>7 DEF Q!Dealt
        <4>5. Q!LoaderKey(t, n, c)' = k
          BY <1>0, <1>4
        <4> HIDE DEF waits
        <4>6. Q!Follows(p, x, waits)'
          BY <4>2, <4>3, <4>4, <4>5, <1>5, <1>7 DEF Q!Follows
        <4> QED BY <4>2, <4>6
      <3> QED BY <3>1
    <2> HIDE DEF waits
    <2> QED BY <2>2, <2>5, <2>6, <2>7, <2>8, AnswerComes
  <1> QED BY <1>6, <1>7

\* The columns of a selection are all plain ones or those asked for.
LEMMA ReadsSelected ==
  ASSUME NEW t, NEW n, NEW d, NEW ids, NEW a, a = Q!Read(d, t, n, ids)
  PROVE  /\ a.type = t /\ a.node = n /\ a.state = "rows" /\ Q!Selected(a)
  <1>1. /\ a.type = t /\ a.node = n /\ a.state = "rows" /\ a.key = None
        /\ a.columns = Q!Columns(t, Q!Keys(t, n), n)
    BY DEF Q!Read, Q!Filled, Q!NewAnswer, Q!Asked
  <1>2. IF Q!Keys(t, n) = {} THEN Q!Schema(t).columns \ Q!Schema(t).symbolic \subseteq a.columns
        ELSE Q!Keys(t, n) \subseteq a.columns
    BY <1>1 DEF Q!Columns
  <1> QED BY <1>1, <1>2 DEF Q!Selected

\* A root field is answered with what its query selects.
LEMMA RootComes ==
  ASSUME GraphInv, NEW i, Q!Root(i) \notin DOMAIN s6, NEW a, s6' = Q!With(s6, Q!Root(i), a),
         UNCHANGED <<s1, s3, s5>>, Q!Selected(a), a.state # "waits"
  PROVE  GraphInv'
  <1>1. NodesStay /\ \A k \in DOMAIN s5' : Q!IsLoader(s5'[k])
    BY DEF NodesStay, GraphInv, Q!TypeOK
  <1>2. \A y \in DOMAIN s6 : y \in DOMAIN s6' /\ s6'[y] = s6[y]
    BY DEF Q!With, Q!Over
  <1>3. Q!LoadersFound'
    BY <1>2, LoadersStay DEF GraphInv
  <1>4. Q!Selected(a)'
    BY ClaimsStay
  <1> QED BY <1>1, <1>3, <1>4, AnswerComes

\* Each root field is answered, or loads, once.
LEMMA RootsAnswered ==
  ASSUME GraphInv, NEW i,
         Q!GetGrid(i) \/ Q!GetSingle(i) \/ Q!CreateOrUpdate(i) \/ Q!Delete(i)
  PROVE  GraphInv'
  <1>0. PICK n : n = s2.roots[i]
    OBVIOUS
  <1>1. Q!Root(i) \notin DOMAIN s6 /\ UNCHANGED <<s1, s3>>
    BY DEF Q!GetGrid, Q!GetSingle, Q!CreateOrUpdate, Q!Delete, Q!MayAsk
  <1>2. \A t, m, a : a \in {Q!Refused(t, m), Q!NewAnswer(t, m)} => Q!Selected(a) /\ a.state # "waits"
    BY DEF Q!Refused, Q!NewAnswer, Q!Asked, Q!Selected
  <1>3. \A d, t, m, ids, a : a = Q!Read(d, t, m, ids) => Q!Selected(a) /\ a.state # "waits"
    <2> TAKE d, t, m, ids, a
    <2> HAVE a = Q!Read(d, t, m, ids)
    <2> QED BY ReadsSelected
  <1>4. \A d, t, m, j, a : a = Q!ReadAgain(d, t, m, j) => Q!Selected(a) /\ a.state # "waits"
    <2> TAKE d, t, m, j, a
    <2> HAVE a = Q!ReadAgain(d, t, m, j)
    <2>1. CASE s1.extended
      BY <2>1, <1>3 DEF Q!ReadAgain
    <2>2. CASE ~s1.extended
      <3>1. a.state = "rows" /\ a.type = t /\ a.columns = Q!Schema(t).columns \ Q!Schema(t).symbolic
        BY <2>2 DEF Q!ReadAgain, Q!Filled, Q!NewAnswer, Q!Asked
      <3> QED BY <3>1 DEF Q!Selected
    <2> QED BY <2>1, <2>2
  <1>5. CASE Q!GetGrid(i)
    <2>1. PICK a : s6' = Q!With(s6, Q!Root(i), a) /\ s5' = s5 /\ Q!Selected(a) /\ a.state # "waits"
      BY <1>5, <1>2, <1>3 DEF Q!GetGrid, Q!Put
    <2> QED BY <2>1, <1>1, RootComes
  <1>6. CASE Q!GetSingle(i)
    <2>1. CASE n.id = None
      <3>1. PICK a : s6' = Q!With(s6, Q!Root(i), a) /\ s5' = s5 /\ Q!Selected(a) /\ a.state # "waits"
        BY <1>0, <1>6, <2>1, <1>2 DEF Q!GetSingle, Q!Put
      <3> QED BY <3>1, <1>1, RootComes
    <2>2. CASE n.id # None
      <3>1. PICK c : c = Q!Schema(n.type).searchKey
        OBVIOUS
      <3>2. Q!Load(Q!Root(i), n.type, n, c, n.id)
        BY <1>0, <1>6, <2>2, <3>1 DEF Q!GetSingle
      <3> QED BY <3>2, <1>1, LoadComes
    <2> QED BY <2>1, <2>2
  <1>7. CASE Q!CreateOrUpdate(i)
    <2>1. PICK a : s6' = Q!With(s6, Q!Root(i), a) /\ s5' = s5 /\ Q!Selected(a) /\ a.state # "waits"
      BY <1>7, <1>2, <1>4 DEF Q!CreateOrUpdate, Q!Put
    <2> QED BY <2>1, <1>1, RootComes
  <1>8. CASE Q!Delete(i)
    <2>1. PICK a : s6' = Q!With(s6, Q!Root(i), a) /\ s5' = s5 /\ Q!Selected(a) /\ a.state # "waits"
      BY <1>8, <1>2 DEF Q!Delete, Q!Put
    <2> QED BY <2>1, <1>1, RootComes
  <1> QED BY <1>5, <1>6, <1>7, <1>8

\* A relation is answered as it was joined, or loads by the key of its row.
LEMMA RelationsAnswered ==
  ASSUME GraphInv, NEW x \in DOMAIN s6, NEW y \in Q!Tasks(x), Q!Resolve(x, y)
  PROVE  GraphInv'
  <1>0. PICK p, n, f : p = s6[x] /\ n = p.node.below[y[2]] /\ f = Q!Relation(p.type, n.rel)
    OBVIOUS
  <1>1. y \notin DOMAIN s6 /\ UNCHANGED <<s1, s3>>
    BY DEF Q!Resolve
  <1>2. CASE n.rel \in p.joined
    <2>1. PICK key, a : /\ key = p.table[p.type][y[3]][f.source]
                        /\ a = IF n.args = "sort" THEN Q!Refused(f.to, n)
                               ELSE Q!Filled(Q!NewAnswer(f.to, n), "rows", Q!Related(p.table, f, key),
                                             Q!Schema(f.to).columns \ Q!Schema(f.to).symbolic, {}, p.table)
                        /\ s6' = Q!With(s6, y, a) /\ s5' = s5
      BY <1>0, <1>2 DEF Q!Resolve, Q!Put
    <2>2. /\ a.type = f.to /\ a.node = n
          /\ n.args = "sort" => a.state = "refused"
          /\ n.args # "sort" => /\ a.state = "rows" /\ a.table = p.table
                                /\ a.rows = Q!Related(p.table, f, key)
                                /\ a.columns = Q!Schema(f.to).columns \ Q!Schema(f.to).symbolic
      BY <2>1 DEF Q!Refused, Q!Filled, Q!NewAnswer, Q!Asked
    <2>3. Q!Selected(a)
      BY <2>2 DEF Q!Selected
    <2>4. Q!Follows(p, y, a)
      BY <2>1, <2>2, <1>0, <1>2 DEF Q!Follows
    <2>5. NodesStay /\ \A k \in DOMAIN s5' : Q!IsLoader(s5'[k])
      BY <2>1 DEF NodesStay, GraphInv, Q!TypeOK
    <2>6. \A z \in DOMAIN s6 : z \in DOMAIN s6' /\ s6'[z] = s6[z]
      <3>1. s6' = Q!With(s6, y, a)
        BY <2>1
      <3> QED BY <3>1, <1>1 DEF Q!With, Q!Over
    <2>7. Q!LoadersFound'
      BY <2>1, <2>6, <1>1, LoadersStay DEF GraphInv
    <2>8. Q!Selected(a)' /\ Q!Follows(p, y, a)'
      BY <2>3, <2>4, <2>5, <1>1, ClaimsStay DEF NodesStay
    <2> QED BY <2>1, <2>5, <2>7, <2>8, <1>0, <1>1, AnswerComes
  <1>3. CASE n.rel \notin p.joined
    <2>1. PICK t, c, key :
            /\ t = f.to /\ c = f.target
            /\ key = IF f.source \in p.columns THEN p.table[p.type][y[3]][f.source] ELSE None
      OBVIOUS
    <2>2. Q!Load(y, t, n, c, key)
      BY <1>0, <1>3, <2>1 DEF Q!Resolve
    <2>3. Leading(y, t, n, c, key)
      BY <1>0, <1>3, <2>1 DEF Leading
    <2> QED BY <2>2, <2>3, <1>1, LoadComes
  <1> QED BY <1>2, <1>3

\* A batch answers all that is queued by one query of the loader.
LEMMA LoadersAnswer ==
  ASSUME GraphInv, NEW k \in DOMAIN s5, Q!Batch(k)
  PROVE  GraphInv'
  <1>0. PICK l, d : l = s5[k] /\ d = s4
    OBVIOUS
  <1> DEFINE found == {i \in Q!Found(d, k.type, l.node) : d[k.type][i][k.target] \in l.queue}
             dealt == [v \in l.queue |-> {i \in found : k.target \in Q!LoadedColumns(k, l)
                                                         /\ d[k.type][i][k.target] = v}]
             rows  == Q!Over(dealt, l.rows)
             seen  == Q!Over([v \in l.queue |-> d], l.seen)
             m     == [node |-> l.node, queue |-> {}, rows |-> rows, seen |-> seen]
  <1>1. UNCHANGED <<s1, s2, s3, s4, s6>>
    BY DEF Q!Batch
  <1>2. s5' = [s5 EXCEPT ![k] = m]
    BY <1>0 DEF Q!Batch
  <1>3. k.target \in Q!LoadedColumns(k, l)
    BY DEF Q!LoadedColumns, Q!Columns
  <1>4. \A v \in l.queue : dealt[v] = Q!Matching(d, k, l.node, v)
    BY <1>3 DEF Q!Matching
  <1>5. /\ \A v \in DOMAIN l.rows : l.rows[v] = Q!Matching(l.seen[v], k, l.node, v)
        /\ k.args = l.node.args /\ DOMAIN l.rows = DOMAIN l.seen
        /\ \E x \in DOMAIN s6 : s6[x].via = k /\ s6[x].type = k.type /\ s6[x].node = l.node
    BY <1>0 DEF GraphInv, Q!LoadersFound
  <1>6. DOMAIN rows = DOMAIN seen /\ \A v \in DOMAIN rows : rows[v] = Q!Matching(seen[v], k, l.node, v)
    <2>1. DOMAIN dealt = l.queue
      OBVIOUS
    <2> HIDE DEF dealt
    <2>2. /\ DOMAIN rows = l.queue \cup DOMAIN l.rows
          /\ \A v \in l.queue : rows[v] = dealt[v]
          /\ \A v \in DOMAIN l.rows : v \notin l.queue => rows[v] = l.rows[v]
      BY <2>1 DEF Q!Over
    <2>3. /\ DOMAIN seen = l.queue \cup DOMAIN l.rows
          /\ \A v \in l.queue : seen[v] = d
          /\ \A v \in DOMAIN l.rows : v \notin l.queue => seen[v] = l.seen[v]
      BY <1>5 DEF Q!Over
    <2> HIDE DEF rows, seen
    <2> QED BY <2>2, <2>3, <1>4, <1>5
  <1> HIDE DEF rows, seen
  <1>7. m.node = l.node /\ m.rows = rows /\ m.seen = seen /\ Q!IsLoader(m)
    BY DEF Q!IsLoader
  <1> HIDE DEF m
  <1>8. /\ DOMAIN s5' = DOMAIN s5 /\ s5'[k] = m
        /\ \A j \in DOMAIN s5 : j # k => s5'[j] = s5[j]
    BY <1>2
  <1>9. NodesStay /\ \A j \in DOMAIN s5' : Q!IsLoader(s5'[j])
    BY <1>0, <1>7, <1>8 DEF NodesStay, GraphInv, Q!TypeOK
  <1>10. \A e, j, o, v : Q!Matching(e, j, o, v)' = Q!Matching(e, j, o, v)
    BY <1>1, SchemaStays
  <1>11. Q!LoadersFound'
    <2>1. ASSUME NEW j \in DOMAIN s5', NEW lo, lo = s5'[j]
          PROVE  /\ j.args = lo.node.args /\ DOMAIN lo.rows = DOMAIN lo.seen
                 /\ \E y \in DOMAIN s6 : s6[y].via = j /\ s6[y].type = j.type /\ s6[y].node = lo.node
                 /\ \A v \in DOMAIN lo.rows : lo.rows[v] = Q!Matching(lo.seen[v], j, lo.node, v)
      <3>1. CASE j = k
        BY <3>1, <2>1, <1>5, <1>6, <1>7, <1>8
      <3>2. CASE j # k
        BY <3>2, <2>1, <1>8 DEF GraphInv, Q!LoadersFound
      <3> QED BY <3>1, <3>2
    <2> QED BY <2>1, <1>1, <1>10 DEF Q!LoadersFound
  <1>12. /\ \A p, y, a : Q!Follows(p, y, a) => Q!Follows(p, y, a)'
         /\ \A a : Q!Selected(a) => Q!Selected(a)'
    BY <1>1, <1>9, ClaimsStay DEF NodesStay
  <1>13. \A w : Q!Tasks(w)' = Q!Tasks(w)
    BY <1>1 DEF Q!Tasks
  <1>14. Q!AnswersFollow'
    BY <1>1, <1>12, <1>13 DEF GraphInv, Q!AnswersFollow, Q!Root
  <1>15. Q!SelectionsKept'
    BY <1>1, <1>12 DEF GraphInv, Q!SelectionsKept
  <1>16. Q!TypeOK' /\ Q!StartsAsWired'
    BY <1>1, <1>9 DEF GraphInv, Q!TypeOK, Q!StartsAsWired
  <1> QED BY <1>11, <1>14, <1>15, <1>16 DEF GraphInv

\* What waited takes the rows of its loader.
LEMMA AnswersResume ==
  ASSUME GraphInv, NEW x \in DOMAIN s6, Q!Resume(x)
  PROVE  GraphInv'
  <1>0. PICK a, l, k : a = s6[x] /\ k = a.via /\ l = s5[k]
    OBVIOUS
  <1>1. a.state = "waits" /\ a.key \in DOMAIN l.rows /\ UNCHANGED <<s1, s3, s5>>
    BY <1>0 DEF Q!Resume
  <1>2. Q!Selected(a)
    BY <1>0 DEF GraphInv, Q!SelectionsKept
  <1>3. k \in DOMAIN s5 /\ a.key # None /\ k = Q!LoaderKey(a.type, a.node, k.target)
    BY <1>0, <1>1, <1>2 DEF Q!Selected
  <1>4. l.rows[a.key] = Q!Matching(l.seen[a.key], k, l.node, a.key)
    BY <1>0, <1>1, <1>3 DEF GraphInv, Q!LoadersFound
  <1>5. PICK b :
          /\ s6' = Q!With(s6, x, b)
          /\ \/ /\ b = Q!Filled(a, "refused", {}, {}, {}, l.seen[a.key])
                /\ a.node.op \in {"single", "one"} /\ Q!Cardinality(l.rows[a.key]) > 1
             \/ b = Q!Filled(a, "rows", l.rows[a.key], Q!LoadedColumns(k, l), DOMAIN l.node.joins, l.seen[a.key])
    BY <1>0 DEF Q!Resume, Q!Put
  <1>6. /\ b.type = a.type /\ b.node = a.node /\ b.key = a.key /\ b.via = k /\ b.table = l.seen[a.key]
        /\ \/ b.state = "refused" /\ a.node.op \in {"single", "one"} /\ Q!Cardinality(l.rows[a.key]) > 1
           \/ b.state = "rows" /\ b.rows = l.rows[a.key] /\ b.columns = Q!LoadedColumns(k, l)
    BY <1>0, <1>5 DEF Q!Filled
  <1>7. Q!Dealt(b)
    BY <1>0, <1>3, <1>4, <1>6 DEF Q!Dealt
  <1>8. Q!Selected(b)
    <2>1. k.keys = Q!Keys(a.type, a.node)
      BY <1>3 DEF Q!LoaderKey
    <2>2. k.keys \subseteq Q!LoadedColumns(k, l)
      BY DEF Q!LoadedColumns, Q!Columns
    <2> QED BY <2>1, <2>2, <1>3, <1>6 DEF Q!Selected
  <1>9. DOMAIN s6' = DOMAIN s6 /\ s6'[x] = b /\ \A y \in DOMAIN s6 : y # x => s6'[y] = s6[y]
    <2>1. s6' = Q!With(s6, x, b)
      BY <1>5
    <2> QED BY <2>1 DEF Q!With, Q!Over
  <1>10. /\ \A p, y, c : Q!Follows(p, y, c) => Q!Follows(p, y, c)'
         /\ \A c : Q!Selected(c) => Q!Selected(c)'
    BY <1>1, ClaimsStay
  <1>11. Q!TypeOK' /\ Q!StartsAsWired'
    BY <1>1 DEF GraphInv, Q!TypeOK, Q!StartsAsWired
  <1>12. Q!SelectionsKept'
    BY <1>8, <1>9, <1>10 DEF GraphInv, Q!SelectionsKept
  <1>13. Q!LoadersFound'
    <2>1. \A y \in DOMAIN s6 : /\ s6'[y].via = s6[y].via /\ s6'[y].type = s6[y].type
                               /\ s6'[y].node = s6[y].node
      BY <1>0, <1>6, <1>9
    <2> QED BY <2>1, <1>1, <1>9, LoadersStay DEF GraphInv
  <1>14. /\ \A w, y : y \in Q!Tasks(w)' => \E j, i : y = <<w, j, i>>
         /\ \A w, y : y \in Q!Tasks(w) => \E j, i : y = <<w, j, i>>
         /\ \A w \in DOMAIN s6 : w # x => Q!Tasks(w)' = Q!Tasks(w)
         /\ Q!Tasks(x) = {}
    BY <1>0, <1>1, <1>9 DEF Q!Tasks
  <1>15. \A i, w, j, v : Q!Root(i) # <<w, j, v>>
    BY DEF Q!Root
  <1>16. \A y \in DOMAIN s6 : (\E i : y = Q!Root(i)) \/ (\E w \in DOMAIN s6 : w # x /\ y \in Q!Tasks(w))
    BY <1>14 DEF GraphInv, Q!AnswersFollow
  <1>17. ASSUME NEW w \in DOMAIN s6, NEW y \in DOMAIN s6, y \in Q!Tasks(w)', NEW p, p = s6'[w],
                NEW c, c = s6'[y]
         PROVE  Q!Follows(p, y, c)'
    <2>1. PICK j, i : y = <<w, j, i>>
      BY <1>14, <1>17
    <2>2. w # x
      <3> SUFFICES ASSUME w = x PROVE FALSE
        OBVIOUS
      <3>1. PICK v \in DOMAIN s6 : v # x /\ y \in Q!Tasks(v)
        BY <1>15, <1>16, <2>1
      <3>2. PICK m, n : y = <<v, m, n>>
        BY <3>1, <1>14
      <3> QED BY <3>1, <3>2, <2>1
    <2>3. y \in Q!Tasks(w) /\ p = s6[w]
      BY <2>2, <1>9, <1>14, <1>17
    <2>4. Q!Follows(p, y, s6[y])
      BY <2>3 DEF GraphInv, Q!AnswersFollow
    <2>5. CASE y = x
      <3>1. Q!Follows(p, x, a)
        BY <2>4, <2>5, <1>0
      <3>2. Q!Follows(p, x, b)
        BY <3>1, <1>0, <1>1, <1>3, <1>6, <1>7 DEF Q!Follows
      <3> QED BY <3>2, <2>5, <1>9, <1>10, <1>17
    <2>6. CASE y # x
      BY <2>4, <2>6, <1>9, <1>10, <1>17
    <2> QED BY <2>5, <2>6
  <1>18. \A w \in DOMAIN s6' : \A y \in Q!Tasks(w)' \cap DOMAIN s6' : Q!Follows(s6[w], y, s6[y])'
    BY <1>9, <1>17
  <1>19. \A y \in DOMAIN s6' : (\E i : y = Q!Root(i)) \/ (\E w \in DOMAIN s6' : y \in Q!Tasks(w)')
    BY <1>9, <1>14, <1>16
  <1>20. Q!AnswersFollow'
    BY <1>18, <1>19 DEF Q!AnswersFollow, Q!Root
  <1> QED BY <1>11, <1>12, <1>13, <1>20 DEF GraphInv

\* A request starts with no loader and no answer.
LEMMA GraphStarts ==
  ASSUME Q!Init
  PROVE  GraphInv
  <1>1. s3 = None /\ DOMAIN s5 = {} /\ DOMAIN s6 = {}
    BY DEF Q!Init, Q!Empty
  <1> QED BY <1>1, GraphAssumption
       DEF GraphInv, Q!TypeOK, Q!StartsAsWired, Q!LoadersFound, Q!AnswersFollow, Q!SelectionsKept

\* What does not change is kept.
LEMMA GraphRests ==
  ASSUME GraphInv, UNCHANGED <<s1, s5, s6>>, s3' = s3 \/ (Q!TypeOK' /\ Q!StartsAsWired')
  PROVE  GraphInv'
  <1>1. /\ \A p, y, a : Q!Follows(p, y, a) => Q!Follows(p, y, a)'
        /\ \A a : Q!Selected(a) => Q!Selected(a)'
    BY ClaimsStay
  <1>2. \A d, k, n, v : Q!Matching(d, k, n, v)' = Q!Matching(d, k, n, v)
    BY SchemaStays
  <1>3. \A w : Q!Tasks(w)' = Q!Tasks(w)
    BY DEF Q!Tasks
  <1>4. Q!AnswersFollow'
    BY <1>1, <1>3 DEF GraphInv, Q!AnswersFollow, Q!Root
  <1>5. Q!SelectionsKept'
    BY <1>1 DEF GraphInv, Q!SelectionsKept
  <1>6. Q!LoadersFound'
    BY LoadersStay DEF GraphInv
  <1>7. Q!TypeOK' /\ Q!StartsAsWired'
    BY DEF GraphInv, Q!TypeOK, Q!StartsAsWired
  <1> QED BY <1>4, <1>5, <1>6, <1>7 DEF GraphInv

\* Every step keeps it.
LEMMA GraphStep ==
  ASSUME GraphInv, Q!Next
  PROVE  GraphInv'
  <1>1. CASE Q!Start
    <2>1. Q!TypeOK' /\ Q!StartsAsWired'
      BY <1>1 DEF Q!Start, GraphInv, Q!TypeOK, Q!StartsAsWired
    <2> QED BY <1>1, <2>1, GraphRests DEF Q!Start
  <1>2. CASE \E i \in DOMAIN s2.roots : Q!GetGrid(i) \/ Q!GetSingle(i) \/ Q!CreateOrUpdate(i) \/ Q!Delete(i)
    BY <1>2, RootsAnswered
  <1>3. CASE \E k \in DOMAIN s5 : Q!Batch(k)
    BY <1>3, LoadersAnswer
  <1>4. CASE \E x \in DOMAIN s6 : Q!Resume(x)
    BY <1>4, AnswersResume
  <1>5. CASE \E x \in DOMAIN s6 : \E y \in Q!Tasks(x) : Q!Resolve(x, y)
    BY <1>5, RelationsAnswered
  <1> QED BY <1>1, <1>2, <1>3, <1>4, <1>5 DEF Q!Next

\* A row has the source key of a relation below that its selection adds.
LEMMA SourcesSelected ==
  ASSUME NEW p, NEW j \in DOMAIN p.node.below, NEW f, f = Q!Relation(p.type, p.node.below[j].rel),
         Q!Selected(p), p.state = "rows", p.rows # {}, Q!SourceKnown(p, f)
  PROVE  f.source \in p.columns
  <1>1. f.source \in (Q!Schema(p.type).columns \ Q!Schema(p.type).derived) \ Q!Schema(p.type).symbolic
    BY DEF Q!SourceKnown
  <1>2. CASE Q!Schema(p.type).columns \ Q!Schema(p.type).symbolic \subseteq p.columns
    BY <1>1, <1>2
  <1>3. CASE Q!Keys(p.type, p.node) \subseteq p.columns /\ (Q!Keys(p.type, p.node) = {} => p.key # None)
    <2>1. CASE f.declared /\ ~Q!InNodes(p.node)
      <3>1. f \in Q!Below(p.type, p.node)
        BY DEF Q!Below
      <3>2. f.source \in Q!Keys(p.type, p.node)
        BY <3>1, <2>1, <1>1 DEF Q!Keys
      <3> QED BY <3>2, <1>3
    <2>2. CASE Q!Keys(p.type, p.node) = {} /\ p.key = None
      BY <2>2, <1>3
    <2>3. CASE f.source \in p.node.fields \cup Q!Schema(p.type).required
      <3>1. f.source \in Q!Keys(p.type, p.node)
        BY <2>3, <1>1 DEF Q!Keys
      <3> QED BY <3>1, <1>3
    <2> QED BY <2>1, <2>2, <2>3 DEF Q!SourceKnown
  <1> QED BY <1>2, <1>3 DEF Q!Selected

\* What a loader deals is what the relation leads to, with what was asked for
\* by one of the fields that share the loader.
LEMMA DealsAnswer ==
  ASSUME GraphInv, NEW a, NEW f, f.to = a.type, NEW key,
         a.via = Q!LoaderKey(a.type, a.node, f.target), a.key = key, Q!Dealt(a)
  PROVE  \E b \in Q!Sharers(a) :
           LET all == {j \in Q!Related(a.table, f, key) :
                           /\ a.node.args = "filter" => j \in KeptRows
                           /\ Q!JoinKeeps(a.table, a.type, b.node, j)}
           IN  /\ a.state = "refused" => a.node.op \in {"single", "one"} /\ Q!Cardinality(all) > 1
               /\ a.state = "rows" =>
                    /\ a.rows = all
                    /\ Q!Keys(a.type, a.node) \cup (IF s1.extended THEN Q!Derived(a.type, b.node) ELSE {})
                         \subseteq a.columns
  <1>0. PICK k, l : k = a.via /\ l = s5[k]
    OBVIOUS
  <1>1. /\ k.type = a.type /\ k.keys = Q!Keys(a.type, a.node) /\ k.args = a.node.args
        /\ k.target = f.target
    BY <1>0 DEF Q!LoaderKey
  <1>2. /\ k \in DOMAIN s5 /\ key # None
        /\ \/ a.state = "waits"
           \/ a.state = "rows" /\ a.rows = Q!Matching(a.table, k, l.node, key)
                /\ a.columns = Q!LoadedColumns(k, l)
           \/ a.state = "refused" /\ a.node.op \in {"single", "one"}
                /\ Q!Cardinality(Q!Matching(a.table, k, l.node, key)) > 1
    BY <1>0 DEF Q!Dealt
  <1>3. PICK z \in DOMAIN s6 : s6[z].via = k /\ s6[z].type = k.type /\ s6[z].node = l.node
    BY <1>0, <1>2 DEF GraphInv, Q!LoadersFound
  <1>4. l.node.args = a.node.args
    BY <1>0, <1>1, <1>2 DEF GraphInv, Q!LoadersFound
  <1>5. PICK b \in Q!Sharers(a) : b.node = l.node
    BY <1>0, <1>3 DEF Q!Sharers
  <1> DEFINE all == {j \in Q!Related(a.table, f, key) :
                       /\ a.node.args = "filter" => j \in KeptRows
                       /\ Q!JoinKeeps(a.table, a.type, b.node, j)}
  <1>7. Q!Matching(a.table, k, l.node, key) = all
    <2>1. Q!Related(a.table, f, key) = {j \in Q!Ids(a.table, a.type) : a.table[a.type][j][f.target] = key}
      BY <1>2 DEF Q!Related
    <2> QED BY <2>1, <1>1, <1>4, <1>5 DEF Q!Matching, Q!Found
  <1>8. Q!Keys(a.type, a.node) \cup (IF s1.extended THEN Q!Derived(a.type, b.node) ELSE {})
          \subseteq Q!LoadedColumns(k, l)
    BY <1>1, <1>5 DEF Q!LoadedColumns, Q!Columns
  <1> HIDE DEF all
  <1>9. /\ a.state = "refused" => a.node.op \in {"single", "one"} /\ Q!Cardinality(all) > 1
        /\ a.state = "rows" =>
             /\ a.rows = all
             /\ Q!Keys(a.type, a.node) \cup (IF s1.extended THEN Q!Derived(a.type, b.node) ELSE {})
                  \subseteq a.columns
    BY <1>2, <1>7, <1>8
  <1> QED BY <1>9 DEF all

\* The answer to a relation is what its row and what was asked for lead to.
LEMMA AnswersRelated ==
  ASSUME GraphInv, NEW x \in DOMAIN s6, NEW y \in Q!Tasks(x) \cap DOMAIN s6,
         NEW p, p = s6[x], NEW a, a = s6[y]
  PROVE  Q!Answered(p, y, a)
  <1> DEFINE f == Q!Relation(p.type, a.node.rel)
             key == p.table[p.type][y[3]][f.source]
             joined == a.node.rel \in p.joined
             all(b) == {j \in Q!Related(a.table, f, key) :
                          ~joined => /\ a.node.args = "filter" => j \in KeptRows
                                     /\ Q!JoinKeeps(a.table, f.to, b.node, j)}
             derived(b) == IF s1.extended /\ ~joined THEN Q!Derived(f.to, b.node) ELSE {}
             asked == (a.node.fields \cap (Q!Schema(f.to).columns \cup Q!Schema(f.to).derived))
                         \ Q!Schema(f.to).symbolic
             Fits(b) ==
               IF a.state = "refused"
                 THEN \/ joined /\ a.node.args = "sort"
                      \/ a.node.op \in {"single", "one"} /\ Q!Cardinality(all(b)) > 1
                 ELSE /\ a.rows = all(b) \/ (a.rows = {} /\ ~joined /\ ~Q!SourceKnown(p, f))
                      /\ a.rows # {} => asked \ (Q!Schema(f.to).derived \ derived(b)) \subseteq a.columns
  <1> SUFFICES ASSUME a.state # "waits"
               PROVE  \E b \in Q!Sharers(a) : Fits(b)
    BY DEF Q!Answered
  <1>0. /\ f = Q!Relation(p.type, a.node.rel) /\ key = p.table[p.type][y[3]][f.source]
        /\ joined = (a.node.rel \in p.joined)
        /\ asked = (a.node.fields \cap (Q!Schema(f.to).columns \cup Q!Schema(f.to).derived))
                      \ Q!Schema(f.to).symbolic
    OBVIOUS
  <1>a. /\ joined => all(a) = Q!Related(a.table, f, key)
        /\ \A b : ~joined => all(b) = {j \in Q!Related(a.table, f, key) :
                                         /\ a.node.args = "filter" => j \in KeptRows
                                         /\ Q!JoinKeeps(a.table, f.to, b.node, j)}
        /\ \A b : ~joined /\ s1.extended => derived(b) = Q!Derived(f.to, b.node)
        /\ \A b : all(b) \subseteq Q!Related(a.table, f, key)
    OBVIOUS
  <1>b. a \in Q!Sharers(a)
    BY DEF Q!Sharers
  <1> HIDE DEF f, key, joined, all, asked, derived
  <1>1. PICK j \in DOMAIN p.node.below, i \in p.rows : y = <<x, j, i>> /\ p.state = "rows"
    <2>1. s6[x].state = "rows" /\ \E j \in DOMAIN s6[x].node.below, i \in s6[x].rows : y = <<x, j, i>>
      BY TasksBelow
    <2>2. p = s6[x]
      OBVIOUS
    <2> QED BY <2>1, <2>2
  <1>2. Q!Follows(p, y, a)
    BY <1>0 DEF GraphInv, Q!AnswersFollow
  <1>3. a.node = p.node.below[j] /\ a.type = f.to
    BY <1>0, <1>1, <1>2 DEF Q!Follows
  <1>4. CASE joined
    <2>1. IF a.node.args = "sort" THEN a.state = "refused"
          ELSE /\ a.state = "rows" /\ a.table = p.table /\ a.rows = Q!Related(p.table, f, key)
               /\ a.columns = Q!Schema(f.to).columns \ Q!Schema(f.to).symbolic
      BY <1>0, <1>1, <1>2, <1>3, <1>4 DEF Q!Follows
    <2>2. all(a) = Q!Related(a.table, f, key)
      BY <1>a, <1>4
    <2>3. derived(a) = {}
      BY <1>4 DEF derived
    <2>4. Fits(a)
      BY <2>1, <2>2, <2>3, <1>4, <1>0
    <2> HIDE DEF Fits
    <2> QED BY <2>4, <1>b
  <1>5. CASE ~joined
    <2>1. Q!Selected(p)
      BY <1>0 DEF GraphInv, Q!SelectionsKept
    <2>2. Q!SourceKnown(p, f) => f.source \in p.columns
      BY <2>1, <1>1, <1>3, <1>0, SourcesSelected
    <2>3. /\ a.via = Q!LoaderKey(a.type, a.node, f.target)
          /\ a.key = IF f.source \in p.columns THEN key ELSE None
          /\ IF a.key = None THEN a.state = "rows" /\ a.rows = {} ELSE Q!Dealt(a)
      <3>1. p.state = "rows" /\ y[2] = j /\ y[3] = i
        BY <1>1
      <3>2. Q!Follows(p, y, a)
        BY <1>2
      <3>3. a.node.rel \notin p.joined
        BY <1>0, <1>5
      <3> QED BY <3>1, <3>2, <3>3, <1>0, <1>3 DEF Q!Follows
    <2>4. CASE a.key = None
      <3>1. a.state = "rows" /\ a.rows = {}
        BY <2>3, <2>4
      <3>2. f.source \in p.columns => all(a) = {}
        <4>1. f.source \in p.columns => key = None
          BY <2>3, <2>4
        <4>2. key = None => Q!Related(a.table, f, key) = {}
          BY DEF Q!Related
        <4> QED BY <4>1, <4>2, <1>a
      <3>3. Fits(a)
        BY <3>1, <3>2, <2>2, <1>5
      <3> HIDE DEF Fits
      <3> QED BY <3>3, <1>b
    <2>5. CASE a.key # None
      <3>1. Q!Dealt(a) /\ f.to = a.type /\ a.key = key /\ a.via = Q!LoaderKey(a.type, a.node, f.target)
        BY <2>3, <2>5, <1>3
      <3>2. PICK b \in Q!Sharers(a) :
              LET got == {z \in Q!Related(a.table, f, key) :
                           /\ a.node.args = "filter" => z \in KeptRows
                           /\ Q!JoinKeeps(a.table, a.type, b.node, z)}
              IN  /\ a.state = "refused" => a.node.op \in {"single", "one"} /\ Q!Cardinality(got) > 1
                  /\ a.state = "rows" =>
                       /\ a.rows = got
                       /\ Q!Keys(a.type, a.node) \cup (IF s1.extended THEN Q!Derived(a.type, b.node) ELSE {})
                            \subseteq a.columns
        BY <3>1, DealsAnswer
      <3>3. /\ a.state = "refused" => a.node.op \in {"single", "one"} /\ Q!Cardinality(all(b)) > 1
            /\ a.state = "rows" =>
                 /\ a.rows = all(b)
                 /\ Q!Keys(a.type, a.node) \cup (IF s1.extended THEN Q!Derived(a.type, b.node) ELSE {})
                      \subseteq a.columns
        <4>1. all(b) = {z \in Q!Related(a.table, f, key) :
                           /\ a.node.args = "filter" => z \in KeptRows
                           /\ Q!JoinKeeps(a.table, a.type, b.node, z)}
          BY <1>a, <1>3, <1>5
        <4> QED BY <3>2, <4>1
      <3>4. a.state \in {"rows", "refused"}
        BY <3>1 DEF Q!Dealt
      <3>5. asked \ Q!Schema(f.to).derived \subseteq Q!Keys(a.type, a.node)
        BY <1>0, <1>3 DEF Q!Keys
      <3>6. derived(b) \subseteq IF s1.extended THEN Q!Derived(a.type, b.node) ELSE {}
        BY <1>3 DEF derived
      <3>7. asked \ (Q!Schema(f.to).derived \ derived(b))
              \subseteq Q!Keys(a.type, a.node) \cup (IF s1.extended THEN Q!Derived(a.type, b.node) ELSE {})
        BY <3>5, <3>6
      <3>8. Fits(b)
        BY <3>3, <3>4, <3>7
      <3> HIDE DEF Fits
      <3> QED BY <3>8
    <2> QED BY <2>4, <2>5
  <1> QED BY <1>4, <1>5

\* So every relation is answered, and what is injected is found.
LEMMA GraphKept ==
  ASSUME GraphInv
  PROVE  Q!GraphAnswers
  <1>1. Q!SurfacesServed
    <2> SUFFICES ASSUME s3 # None, s1.wiring.backend # None, ~Q!WiringRefused(s1.wiring)
                 PROVE  /\ Q!ResolverInjects(s1.wiring) \cup Q!ControllerInjects(s1.wiring)
                             \subseteq Q!Provided(s1.wiring) \cup Q!Named(s1.wiring)
                        /\ s3 = "refused" => Q!ServiceToken(s1.wiring) = None
      BY DEF Q!SurfacesServed
    <2>1. PICK o : o = s1.wiring
      OBVIOUS
    <2>2. s3 = "refused" => ~Q!Starts(o)
      BY <2>1 DEF GraphInv, Q!StartsAsWired
    <2> QED BY <2>1, <2>2, SurfacesFind
  <1>2. Q!RelationsAnswer
    BY AnswersRelated DEF Q!RelationsAnswer
  <1> QED BY <1>1, <1>2 DEF Q!GraphAnswers

-----------------------------------------------------------------------------
(* The parts together.                                                     *)

RuntimeInv ==
    /\ part = "probe" => ProbeInv
    /\ part = "app" => AppInv
    /\ part = "loader" => LoaderInv
    /\ part = "call" => CallInv
    /\ part = "telemetry" => MeasureInv
    /\ part = "error" => ErrorInv
    /\ part = "database" => DatabaseInv
    /\ part = "journal" => JournalInv
    /\ part = "graph" => GraphInv

LEMMA RuntimeStarts == RuntimeInit => RuntimeInv
  BY ProbeStarts, AppStarts, LoaderInit, CallStarts, MeasureStarts, ErrorStarts, DatabaseStarts, JournalStarts,
     GraphStarts
  DEF RuntimeInit, RuntimeInv

\* Nothing of a part changes while it rests.
LEMMA RuntimeRests ==
  ASSUME RuntimeInv, UNCHANGED runtime
  PROVE  RuntimeInv'
  <1>1. part' = part /\ UNCHANGED <<s1, s2, s3, s4, s5, s6, s7, s8>>
    BY DEF runtime, state
  <1>2. LoaderInv => LoaderInv'
    BY <1>1 DEF LoaderInv, L!TypeOK, L!RowsMatchSeen, L!FoundInLoader, L!Waits, L!Found
  <1>3. CallInv => CallInv'
    <2>1. S!Legs' = S!Legs /\ S!Starts' = S!Starts /\ S!Shadows' = S!Shadows
          /\ S!AwaitsShadows' = S!AwaitsShadows
      BY <1>1 DEF S!Legs, S!Leg, S!Shadows, S!AwaitsShadows, S!Starts, S!Registered, S!IndexOf, S!Selects
    <2>2. \A i : S!Policy(i)' = S!Policy(i)
      BY <1>1 DEF S!Policy, S!Leg
    <2> QED BY <1>1, <2>1, <2>2 DEF CallInv, S!TypeOK, S!InTurn, S!Answered, S!AbortHolds, S!NothingBehind,
                                    S!Returned
  <1>4. MeasureInv => MeasureInv'
    BY <1>1 DEF MeasureInv, M!TypeOK, M!Pending, M!OperationsUnchanged
  <1>5. ErrorInv => ErrorInv'
    BY <1>1 DEF ErrorInv, F!TypeOK, F!ErrorsGuarded, F!Guarded, F!MasksHold, F!ForwardsAsGiven, F!MakesAsNamed
  <1>6. AppInv => AppInv'
    BY <1>1 DEF AppInv, A!TypeOK, A!TrackerHoldsAwaited, A!Owed, A!ClosesWhatIsOwed
  <1>7. ProbeInv => ProbeInv'
    <2>1. P!Wanted' = P!Wanted /\ P!Credential' = P!Credential /\ P!Session' = P!Session
      BY <1>1 DEF P!Wanted, P!Recent, P!Credential, P!Session
    <2>2. P!TypeOK => P!TypeOK'
      BY <1>1 DEF P!TypeOK
    <2>3. P!StepOfKind => P!StepOfKind'
      BY <1>1, <2>1 DEF P!StepOfKind
    <2>4. P!SeenSoFar => P!SeenSoFar'
      BY <1>1 DEF P!SeenSoFar, P!Old
    <2>5. P!AnswersOnce /\ P!ProbesAnswer => P!AnswersOnce' /\ P!ProbesAnswer'
      BY <1>1, <2>1 DEF P!AnswersOnce, P!ProbesAnswer, P!Failure, P!Is
    <2> QED BY <2>2, <2>3, <2>4, <2>5 DEF ProbeInv
  <1>8. DatabaseInv => DatabaseInv'
    BY <1>1, DatabaseRests
  <1>9. JournalInv => JournalInv'
    BY <1>1, JournalRests
  <1>10. GraphInv => GraphInv'
    BY <1>1, GraphRests
  <1> QED BY <1>1, <1>2, <1>3, <1>4, <1>5, <1>6, <1>7, <1>8, <1>9, <1>10 DEF RuntimeInv

LEMMA RuntimeStep ==
  ASSUME RuntimeInv, RuntimeNext
  PROVE  RuntimeInv'
  <1>1. part' = part
    BY DEF RuntimeNext
  <1>2. CASE part = "loader"
    BY <1>1, <1>2, LoaderStep DEF RuntimeNext, RuntimeInv
  <1>3. CASE part = "call"
    BY <1>1, <1>3, CallStep DEF RuntimeNext, RuntimeInv
  <1>4. CASE part = "telemetry"
    BY <1>1, <1>4, MeasureStep DEF RuntimeNext, RuntimeInv
  <1>5. CASE part = "error"
    BY <1>1, <1>5, ErrorStep DEF RuntimeNext, RuntimeInv
  <1>6. CASE part = "app"
    BY <1>1, <1>6, AppStep DEF RuntimeNext, RuntimeInv
  <1>7. CASE part = "probe"
    BY <1>1, <1>7, ProbeStep DEF RuntimeNext, RuntimeInv
  <1>8. CASE part = "database"
    BY <1>1, <1>8, DatabaseStep DEF RuntimeNext, RuntimeInv
  <1>9. CASE part = "journal"
    BY <1>1, <1>9, JournalStep DEF RuntimeNext, RuntimeInv
  <1>10. CASE part = "graph"
    BY <1>1, <1>10, GraphStep DEF RuntimeNext, RuntimeInv
  <1>11. CASE part \notin {"probe", "app", "loader", "call", "telemetry", "error", "database", "journal",
                         "graph"}
    BY <1>1, <1>11 DEF RuntimeInv
  <1> QED BY <1>2, <1>3, <1>4, <1>5, <1>6, <1>7, <1>8, <1>9, <1>10, <1>11

LEMMA RuntimeKept == RuntimeSpec => []RuntimeInv
  <1>1. RuntimeInv /\ [RuntimeNext]_runtime => RuntimeInv'
    BY RuntimeStep, RuntimeRests
  <1> QED BY <1>1, RuntimeStarts, PTL DEF RuntimeSpec

\* A check is only reported well when all that it wants was seen in time; a late
\* probe is answered as a timeout; no request goes out without the credential
\* and the session it needs; and what is opened is closed (ProbesAnswer).
THEOREM ProbesAreAnswered == RuntimeSpec => []ProbesAnswer
  <1>1. RuntimeInv => ProbesAnswer
    BY DEF RuntimeInv, ProbeInv, ProbesAnswer
  <1> QED BY <1>1, RuntimeKept, PTL

\* When closeApp() has closed an application, every awaited emission that was in
\* progress has ended well, every line logged before is written, and the
\* registry has forgotten it (CloseIsClean).
THEOREM ClosesAreClean == RuntimeSpec => CloseIsClean
  <1>1. RuntimeInv /\ [RuntimeNext]_runtime => [part = "app" => A!CleanClose]_runtime
    BY AppClosesClean DEF RuntimeInv, RuntimeNext
  <1> QED BY <1>1, RuntimeKept, PTL DEF RuntimeSpec, CloseIsClean

\* A load without a limit answers with the rows of its search key that its own
\* filter matched at one moment of the request, whichever loads shared its
\* batch; a load of one row is refused when there were more (LoadsAnswer).
THEOREM LoadsAreAnswered == RuntimeSpec => []LoadsAnswer
  <1>1. RuntimeInv => LoadsAnswer
    BY LoaderAnswers DEF RuntimeInv, LoadsAnswer
  <1> QED BY <1>1, RuntimeKept, PTL

\* A wrapper that returned answers what its policy accepts and leaves no leg
\* running, but for shadows that it does not wait for, or no longer waited for
\* when one of them had failed.  Whatever the telemetry does, in mode "ignore"
\* the caller of an operation gets its outcome after one call, or after a second
\* one of an operation that throws at once under a span (CallsSettle).
THEOREM CallsAreSettled == RuntimeSpec => []CallsSettle
  <1>1. RuntimeInv => CallsSettle
    BY CallKept DEF RuntimeInv, CallsSettle, MeasureInv
  <1> QED BY <1>1, RuntimeKept, PTL

\* Once a call is aborted none of its legs is dispatched (AbortStopsDispatch).
THEOREM AbortIsFinal == RuntimeSpec => AbortStopsDispatch
  <1>1. RuntimeInv /\ [RuntimeNext]_runtime => [part = "call" => S!AbortStops]_runtime
    BY AbortIsHeard DEF RuntimeInv, RuntimeNext
  <1> QED BY <1>1, RuntimeKept, PTL DEF RuntimeSpec, AbortStopsDispatch

\* What a client reads of an error is never an internal message, what is logged
\* shows a secret only when a call gave it without a mask, and errors are made
\* and forwarded with the status, level and message asked (ErrorsAnswer).
THEOREM ErrorsAreAnswered == RuntimeSpec => []ErrorsAnswer
  <1>1. RuntimeInv => ErrorsAnswer
    BY ErrorsKept DEF RuntimeInv, ErrorsAnswer
  <1> QED BY <1>1, RuntimeKept, PTL

\* However commands fail and are given again, no migration is recorded twice in
\* one life of a database, and it ran as often as it is recorded unless a
\* selection left it without its record; while at most one connection is seeded
\* beside others, a seeder only writes to its own database, and an undisturbed
\* reseed leaves what each seeder wrote once (DatabasesKept).
THEOREM DatabasesAreKept == RuntimeSpec => []DatabasesKept
  <1>1. RuntimeInv => DatabasesKept
    BY DatabasesAreInOrder DEF RuntimeInv, DatabasesKept
  <1> QED BY <1>1, RuntimeKept, PTL

\* A table that an install reported as journaled can be rebuilt from its content
\* at the install and its journal, until it is uninstalled or rebuilt, whatever
\* installs, uninstalls and transactions failed half way before (JournalReplays).
THEOREM JournalsReplay == RuntimeSpec => []JournalReplays
  <1>1. RuntimeInv => JournalReplays
    BY JournalKept DEF RuntimeInv, JournalReplays
  <1> QED BY <1>1, RuntimeKept, PTL

\* Whatever mutations wrote before, every relation of a request answers, below
\* each row, the rows that its key leads to and its own filter lets through,
\* joined and derived as one of the fields that share its loader asked, with its
\* own columns; it answers none when the row was read without its key, which
\* happens only where SourceKnown fails, and joined relations are not filtered.
\* And generated surfaces find what they inject (GraphAnswers).
THEOREM RelationsAreAnswered == RuntimeSpec => []GraphAnswers
  <1>1. RuntimeInv => GraphAnswers
    BY GraphKept DEF RuntimeInv, GraphAnswers
  <1> QED BY <1>1, RuntimeKept, PTL
=============================================================================
