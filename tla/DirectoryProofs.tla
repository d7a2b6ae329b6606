---------------------------- MODULE DirectoryProofs ----------------------------
(***************************************************************************)
(* Theorems about the identity directory, for any number of handles,       *)
(* concurrent calls, commands, identities and accounts, and any faults.    *)
(***************************************************************************)
EXTENDS Directory, FiniteSetTheorems, TLAPS

USE DEF Planned
-------------------------------------------------------------------------------
(* Types. *)

LEMMA InitType == Init => TypeOK
BY DirectoryAssumption DEF Init, TypeOK, StoreType, HostType, HandleType, CallType, Steps,
   Reservations

LEMMA FinishType ==
  ASSUME TypeOK, NEW a \in Attempts, NEW fence \in BOOLEAN, pc[a] # "idle",
         Finish(a, fence)
  PROVE  CallType' /\ fenced' \in [Handles -> BOOLEAN] /\ concurrent' \in [Handles -> Int]
<1>1. CallType'
  BY DEF TypeOK, CallType, Finish, Steps
<1>2. handle[a] \in Handles
  BY DEF TypeOK, CallType
<1>3. fenced' \in [Handles -> BOOLEAN]
  BY <1>2 DEF TypeOK, HandleType, Finish
<1>4. concurrent' \in [Handles -> Int]
  BY <1>2 DEF TypeOK, HandleType, Finish
<1>5. QED BY <1>1, <1>3, <1>4

LEMMA RefuseType ==
  ASSUME TypeOK, NEW a \in Attempts, pc[a] # "idle", Refuse(a)
  PROVE  TypeOK'
<1>1. PICK fence \in BOOLEAN : Finish(a, fence)
  BY DEF Refuse, MayFence, Backward
<1>2. CallType' /\ fenced' \in [Handles -> BOOLEAN] /\ concurrent' \in [Handles -> Int]
  BY <1>1, FinishType
<1>3. QED
  BY <1>2 DEF Refuse, TypeOK, StoreType, HostType, HandleType, store, host

LEMMA GuardType ==
  ASSUME TypeOK, NEW a \in Attempts, Guard(a)
  PROVE  TypeOK'
<1>1. CASE Refuse(a)
  BY <1>1, RefuseType DEF Guard
<1>2. CASE ~Refuse(a)
  <2>1. CallType'
    BY <1>2, DirectoryAssumption DEF Guard, TypeOK, CallType, StoreType, Steps
  <2>2. HandleType'
    BY <1>2 DEF Guard, TypeOK, CallType, HandleType, HostType, host, Observe
  <2>3. StoreType' /\ HostType'
    BY <1>2 DEF Guard, TypeOK, StoreType, HostType, store, host
  <2>4. QED BY <2>1, <2>2, <2>3 DEF TypeOK
<1>3. QED BY <1>1, <1>2

LEMMA PreflightType ==
  ASSUME TypeOK, NEW a \in Attempts, Preflight(a)
  PROVE  TypeOK'
<1>1. CASE Refuse(a)
  BY <1>1, RefuseType DEF Preflight
<1>2. CASE ~Refuse(a)
  <2>1. intent[a] \in Intents /\ intent[a].target \in Identities /\ intent[a].account \in Accounts
    BY DirectoryAssumption DEF Preflight, TypeOK, CallType
  <2>2. [row |-> row[intent[a].target], rev |-> rev[intent[a].account],
         others |-> ActiveLinks(intent[a].account) \ {intent[a].target}] \in Plans
    BY <2>1 DEF Plans, TypeOK, StoreType, ActiveLinks, LinksOf
  <2>3. CallType'
    BY <1>2, <2>2 DEF Preflight, TypeOK, CallType, Steps
  <2>4. StoreType' /\ HostType' /\ HandleType'
    BY <1>2 DEF Preflight, TypeOK, StoreType, HostType, HandleType, store, host
  <2>5. QED BY <2>3, <2>4 DEF TypeOK
<1>3. QED BY <1>1, <1>2

LEMMA ReservedType ==
  ASSUME TypeOK, NEW i \in Intents
  PROVE  Reserved(i) \in [Commands -> Reservations]
<1>1. i.cmd \in Commands /\ Digest(i) \in Digests
  BY DirectoryAssumption DEF Digest, Digests
<1>2. QED
  BY <1>1 DEF Reserved, TypeOK, HostType, Reservations

LEMMA ReserveType ==
  ASSUME TypeOK, NEW a \in Attempts, Reserve(a)
  PROVE  TypeOK'
<1>1. intent[a] \in Intents /\ handle[a] \in Handles /\ pc[a] # "idle"
  BY DEF Reserve, TypeOK, CallType
<1>2. Reserved(intent[a]) \in [Commands -> Reservations]
  BY <1>1, ReservedType
<1>3. CASE Refuse(a)
  BY <1>1, <1>3, RefuseType
<1>4. CASE Finish(a, FALSE) /\ reservation' = Reserved(intent[a])
           /\ UNCHANGED <<store, host, lastTime>>
  <2>1. CallType' /\ fenced' \in [Handles -> BOOLEAN] /\ concurrent' \in [Handles -> Int]
    BY <1>1, <1>4, FinishType
  <2>2. QED
    BY <1>2, <1>4, <2>1 DEF TypeOK, StoreType, HostType, HandleType, store, host
<1>5. CASE /\ Observe(handle[a])
           /\ reservation' = Reserved(intent[a])
           /\ pc' = [pc EXCEPT ![a] = "recheck"]
           /\ UNCHANGED <<store, host, fenced, concurrent, call>>
  <2>1. CallType'
    BY <1>5 DEF Reserve, TypeOK, CallType, Steps, call
  <2>2. StoreType' /\ HostType' /\ HandleType'
    BY <1>1, <1>2, <1>5 DEF TypeOK, StoreType, HostType, HandleType, store, host, Observe
  <2>3. QED BY <2>1, <2>2 DEF TypeOK
<1>6. QED BY <1>3, <1>4, <1>5 DEF Reserve

LEMMA RecheckType ==
  ASSUME TypeOK, NEW a \in Attempts, Recheck(a)
  PROVE  TypeOK'
<1>1. handle[a] \in Handles /\ plan[a] \in Plans
  BY DEF Recheck, TypeOK, CallType
<1>2. CASE RecheckPasses(a)
  <2>1. OpenMethods(a) \subseteq Identities
    BY <1>1 DEF OpenMethods, Plans
  <2>2. CallType'
    BY <1>2, <2>1 DEF Recheck, RecheckPasses, TypeOK, CallType, Steps
  <2>3. StoreType' /\ HostType' /\ HandleType'
    BY <1>1, <1>2 DEF RecheckPasses, TypeOK, StoreType, HostType, HandleType, store, host,
       Observe
  <2>4. QED BY <2>2, <2>3 DEF TypeOK
<1>3. CASE RecheckFails(a)
  <2>1. CallType'
    BY <1>3 DEF Recheck, RecheckFails, TypeOK, CallType, Steps
  <2>2. StoreType' /\ HostType'
    BY <1>3 DEF RecheckFails, TypeOK, StoreType, HostType, store, host
  <2>3. HandleType'
    BY <1>1, <1>3 DEF RecheckFails, TypeOK, HandleType, Backward
  <2>4. QED BY <2>1, <2>2, <2>3 DEF TypeOK
<1>4. QED BY <1>2, <1>3 DEF Recheck

LEMMA WriteType ==
  ASSUME TypeOK, NEW a \in Attempts, pc[a] = "commit", Write(a)
  PROVE  StoreType'
<1>1. /\ intent[a].target \in Identities /\ intent[a].account \in Accounts
      /\ intent[a].cmd \in Commands /\ intent[a].consent \in Consents
      /\ Digest(intent[a]) \in Digests
  BY DirectoryAssumption DEF TypeOK, CallType, Digest, Digests
<1>2. plan[a].row \in Rows \cup {None} /\ plan[a].rev \in Nat
  BY DEF TypeOK, CallType, Plans
<1>3. NewRow(a) \in Rows
  BY <1>1, <1>2 DEF NewRow, Rows, Statuses
<1>4. [digest |-> Digest(intent[a]), revision |-> plan[a].rev + 1] \in Receipts
  BY <1>1, <1>2 DEF Receipts
<1>5. QED
  BY <1>1, <1>2, <1>3, <1>4 DEF Write, TypeOK, StoreType

LEMMA CommitType ==
  ASSUME TypeOK, NEW a \in Attempts, Commit(a)
  PROVE  TypeOK'
<1>1. pc[a] = "commit"
  BY DEF Commit
<1>2. StoreType'
  <2>1. CASE Write(a)
    BY <1>1, <2>1, WriteType
  <2>2. CASE UNCHANGED store
    BY <2>2 DEF TypeOK, StoreType, store
  <2>3. QED BY <2>1, <2>2 DEF Commit
<1>3. CallType' /\ fenced' \in [Handles -> BOOLEAN] /\ concurrent' \in [Handles -> Int]
  <2>1. CASE Finish(a, TRUE)
    BY <1>1, <2>1, FinishType
  <2>2. CASE pc' = [pc EXCEPT ![a] = "settle"] /\ UNCHANGED <<fenced, concurrent, call>>
    BY <1>1, <2>2 DEF TypeOK, CallType, HandleType, Steps, call
  <2>3. CASE pc' = [pc EXCEPT ![a] = "release"] /\ UNCHANGED <<fenced, concurrent, call>>
    BY <1>1, <2>3 DEF TypeOK, CallType, HandleType, Steps, call
  <2>4. QED BY <2>1, <2>2, <2>3 DEF Commit
<1>4. HostType' /\ lastTime' \in [Handles -> Nat]
  BY DEF Commit, TypeOK, HostType, HandleType, host
<1>5. QED BY <1>2, <1>3, <1>4 DEF TypeOK, HandleType

LEMMA TerminalType ==
  ASSUME TypeOK, NEW a \in Attempts, pc[a] # "idle",
         NEW to \in {"settled", "released"}, Terminal(a, "held", to)
  PROVE  TypeOK'
<1>1. intent[a].cmd \in Commands
  BY DirectoryAssumption DEF TypeOK, CallType
<1>2. PICK fence \in BOOLEAN : Finish(a, fence)
  <2>1. {FALSE} \cup {"lost" \in Faults} \subseteq BOOLEAN
    OBVIOUS
  <2>2. QED BY <2>1 DEF Terminal
<1>3. CallType' /\ fenced' \in [Handles -> BOOLEAN] /\ concurrent' \in [Handles -> Int]
  BY <1>2, FinishType
<1>4. reservation' \in [Commands -> Reservations]
  <2>1. [state |-> to, digest |-> reservation[intent[a].cmd].digest] \in Reservations
    BY <1>1 DEF TypeOK, HostType, Reservations
  <2>2. \/ UNCHANGED reservation
        \/ reservation' = [reservation EXCEPT ![intent[a].cmd] =
             [state |-> to, digest |-> reservation[intent[a].cmd].digest]]
    BY DEF Terminal
  <2>3. QED BY <2>1, <2>2 DEF TypeOK, HostType
<1>5. QED
  BY <1>3, <1>4 DEF Terminal, TypeOK, StoreType, HostType, HandleType, store, host

LEMMA StepType ==
  ASSUME TypeOK, NEW a \in Attempts, Step(a)
  PROVE  TypeOK'
<1>1. Settle(a) => TypeOK'
  BY TerminalType DEF Settle
<1>2. Release(a) => TypeOK'
  BY TerminalType DEF Release
<1>3. QED
  BY <1>1, <1>2, GuardType, PreflightType, ReserveType, RecheckType, CommitType DEF Step

LEMMA EntryType ==
  ASSUME TypeOK, NEW a \in Attempts, NEW h \in Handles, NEW i \in Intents, Entry(a, h, i)
  PROVE  TypeOK'
<1>1. StoreType' /\ HostType'
  BY DEF Entry, Call, Reconcile, TypeOK, StoreType, HostType, store, host
<1>2. HandleType'
  BY DEF Entry, Call, Reconcile, TypeOK, HandleType, HostType, Observe
<1>3. CallType'
  BY DEF Entry, Call, Reconcile, TypeOK, CallType, Steps
<1>4. QED BY <1>1, <1>2, <1>3 DEF TypeOK

LEMMA EnvironmentType == TypeOK /\ Environment => TypeOK'
<1> SUFFICES ASSUME TypeOK, Environment PROVE TypeOK'
  OBVIOUS
<1>1. ASSUME NEW h \in Handles, Restart(h) PROVE TypeOK'
  <2>1. CallType'
    BY <1>1 DEF Restart, TypeOK, CallType, Steps
  <2>2. StoreType' /\ HostType' /\ HandleType'
    BY <1>1 DEF Restart, TypeOK, StoreType, HostType, HandleType, store, host
  <2>3. QED BY <2>1, <2>2 DEF TypeOK
<1>2. ASSUME NEW h \in Handles, ReadOnlyCall(h) PROVE TypeOK'
  BY <1>2 DEF ReadOnlyCall, TypeOK, StoreType, HostType, HandleType, CallType, store, host,
     call, Observe
<1>3. ASSUME NEW s \in Sessions, NEW id \in Identities, BindSession(s, id) PROVE TypeOK'
  <2>1. [target |-> id, account |-> row[id].account, gen |-> row[id].gen] \in Bindings
    BY <1>3 DEF BindSession, TypeOK, StoreType, Bindings, Rows
  <2>2. QED
    BY <1>3, <2>1 DEF BindSession, TypeOK, StoreType, HostType, HandleType, CallType, store,
       call
<1>4. ASSUME NEW c \in Commands, AcknowledgeEvent(c) PROVE TypeOK'
  BY <1>4 DEF AcknowledgeEvent, TypeOK, StoreType, HostType, HandleType, CallType, host, call
<1>5. ASSUME NEW c \in Commands, ReconcileUnknown(c) PROVE TypeOK'
  <2>1. reservation' \in [Commands -> Reservations]
    BY <1>5 DEF ReconcileUnknown, TypeOK, HostType, Reservations
  <2>2. QED
    BY <1>5, <2>1 DEF ReconcileUnknown, TypeOK, StoreType, HostType, HandleType, CallType,
       store, host, call
<1>6. CASE Clock
  BY <1>6 DEF Clock, TypeOK, StoreType, HostType, HandleType, CallType, store, call
<1>7. ASSUME NEW p \in Providers, SwitchProvider(p) PROVE TypeOK'
  BY <1>7 DEF SwitchProvider, TypeOK, StoreType, HostType, HandleType, CallType, store, call
<1>8. QED
  BY <1>1, <1>2, <1>3, <1>4, <1>5, <1>6, <1>7 DEF Environment

LEMMA NextType == TypeOK /\ [Next]_vars => TypeOK'
<1>1. CASE UNCHANGED vars
  BY <1>1 DEF vars, TypeOK, StoreType, HostType, HandleType, CallType
<1>2. QED
  BY <1>1, StepType, EntryType, EnvironmentType DEF Next

(* Every reachable state of the directory is well typed: in particular a   *)
(* call past its first transaction always works from a plan.               *)
THEOREM TypeCorrect == Spec => []TypeOK
<1>1. QED BY InitType, NextType, PTL DEF Spec

-------------------------------------------------------------------------------
(* What a step can do to the store and to the plan of a call. *)

(* The one way the store's links, revisions, receipts and consents change. *)
Commits(a) ==
  pc[a] = "commit" /\ Writable(a) /\ Write(a) /\ pc'[a] \in {"settle", "idle"}

LEMMA WriteStep ==
  ASSUME TypeOK, [Next]_vars
  PROVE  \/ UNCHANGED store
         \/ \E c \in Commands : AcknowledgeEvent(c)
         \/ \E a \in Attempts : Commits(a)
<1>1. ASSUME NEW a \in Attempts, Step(a)
      PROVE  UNCHANGED store \/ Commits(a)
  <2>1. CASE Commit(a)
    BY <2>1 DEF Commit, Commits, Finish, TypeOK, CallType
  <2>2. CASE ~Commit(a)
    BY <1>1, <2>2 DEF Step, Guard, Preflight, Reserve, Recheck, RecheckPasses, RecheckFails,
       Settle, Release, Terminal, Refuse
  <2>3. QED BY <2>1, <2>2
<1>2. ASSUME NEW a \in Attempts, NEW h \in Handles, NEW i \in Intents, Entry(a, h, i)
      PROVE  UNCHANGED store
  BY <1>2 DEF Entry, Call, Reconcile
<1>3. Environment => UNCHANGED store \/ \E c \in Commands : AcknowledgeEvent(c)
  BY DEF Environment, Restart, ReadOnlyCall, BindSession, ReconcileUnknown, Clock,
     SwitchProvider
<1>4. QED BY <1>1, <1>2, <1>3 DEF Next, vars, store

LEMMA StoreStep ==
  ASSUME TypeOK, [Next]_vars
  PROVE  UNCHANGED <<row, rev, receipt>> \/ \E a \in Attempts : Commits(a)
BY WriteStep DEF store, AcknowledgeEvent

(* A call past its first transaction either keeps its plan or is just      *)
(* getting it from that transaction.                                       *)
KeepsPlan(a) ==
  /\ pc[a] \in Planned
  /\ UNCHANGED <<plan[a], intent[a], handle[a]>>
  /\ pc'[a] = "commit" /\ ~checkError'[a] =>
       \/ pc[a] = "commit" /\ ~checkError[a] /\ UNCHANGED usable[a]
       \/ LastMethodKept(a) /\ usable'[a] = OpenMethods(a)

GetsPlan(a) ==
  /\ UNCHANGED <<row, rev, receipt>>
  /\ intent'[a] = intent[a]
  /\ pc[a] = "preflight" /\ pc'[a] = "reserve"
  /\ Admits(a)
  /\ plan'[a] = [row |-> row[intent[a].target], rev |-> rev[intent[a].account],
                 others |-> ActiveLinks(intent[a].account) \ {intent[a].target}]

LEMMA PlanStep ==
  ASSUME TypeOK, [Next]_vars, NEW b \in Attempts, pc'[b] \in Planned
  PROVE  KeepsPlan(b) \/ GetsPlan(b)
<1>1. CASE UNCHANGED vars
  BY <1>1 DEF vars, KeepsPlan
<1>2. ASSUME NEW a \in Attempts, a # b, Step(a)
      PROVE  UNCHANGED <<pc[b], plan[b], intent[b], handle[b], checkError[b], usable[b]>>
  BY <1>2 DEF Step, Guard, Preflight, Reserve, Recheck, RecheckPasses, RecheckFails, Commit,
     Settle, Release, Terminal, Refuse, Finish, TypeOK, CallType, call
<1>3. ASSUME Step(b) PROVE KeepsPlan(b) \/ GetsPlan(b)
  BY <1>3 DEF Step, Guard, Preflight, Reserve, Recheck, RecheckPasses, RecheckFails, Commit,
     Settle, Release, Terminal, Refuse, Finish, TypeOK, CallType, call, KeepsPlan, GetsPlan, store
<1>4. ASSUME NEW a \in Attempts, NEW h \in Handles, NEW i \in Intents, Entry(a, h, i)
      PROVE  UNCHANGED <<pc[b], plan[b], intent[b], handle[b], checkError[b], usable[b]>>
  BY <1>4 DEF Entry, Call, Reconcile, TypeOK, CallType
<1>5. ASSUME Environment
      PROVE  UNCHANGED <<pc[b], plan[b], intent[b], handle[b], checkError[b], usable[b]>>
  <2>1. ASSUME NEW h \in Handles, Restart(h)
        PROVE  UNCHANGED <<pc[b], plan[b], intent[b], handle[b], checkError[b], usable[b]>>
    <3>1. handle[b] # h
      BY <2>1 DEF Restart
    <3>2. QED BY <2>1, <3>1 DEF Restart
  <2>2. (\E h \in Handles : Restart(h)) \/ UNCHANGED <<pc, call>>
    BY <1>5 DEF Environment, ReadOnlyCall, BindSession, AcknowledgeEvent, ReconcileUnknown,
       Clock, SwitchProvider
  <2>3. QED BY <2>1, <2>2 DEF call
<1>6. CASE UNCHANGED <<pc[b], plan[b], intent[b], handle[b], checkError[b], usable[b]>>
  BY <1>6 DEF KeepsPlan
<1>7. QED BY <1>1, <1>2, <1>3, <1>4, <1>5, <1>6 DEF Next

-------------------------------------------------------------------------------
(* The inductive invariant.  NeverStranded and the refinement need to know *)
(* what a call in flight still holds about the links of its account:       *)
(* SnapshotsAge says when its plan is still true, and MethodSeen that an   *)
(* unlink about to commit saw a method it does not remove.                 *)

MethodSeen ==
  \A a \in Attempts :
    pc[a] = "commit" /\ ~checkError[a] /\ intent[a].action = "unlink" =>
      usable[a] # {} /\ usable[a] \subseteq plan[a].others

LinkInv == TypeOK /\ SnapshotsAge /\ MethodSeen

LEMMA IntentParts ==
  ASSUME TypeOK, NEW a \in Attempts, pc[a] # "idle"
  PROVE  /\ intent[a] \in Intents
         /\ intent[a].cmd \in Commands /\ intent[a].action \in Actions
         /\ intent[a].account \in Accounts /\ intent[a].target \in Identities
         /\ intent[a].session \in Sessions /\ intent[a].consent \in Consents
BY DirectoryAssumption DEF TypeOK, CallType

(* What a committing call does to the rows. *)
LEMMA CommitRows ==
  ASSUME TypeOK, NEW a \in Attempts, Commits(a)
  PROVE  /\ rev[intent[a].account] = plan[a].rev
         /\ rev' = [rev EXCEPT ![intent[a].account] = rev[intent[a].account] + 1]
         /\ row' = [row EXCEPT ![intent[a].target] = NewRow(a)]
         /\ row[intent[a].target] = plan[a].row
         /\ NewRow(a) \in Rows
         /\ row[intent[a].target] # None => row[intent[a].target].account = intent[a].account
<1>1. /\ intent[a].target \in Identities /\ intent[a].account \in Accounts
  BY IntentParts DEF Commits
<1>2. plan[a].row \in Rows \cup {None}
  BY DEF Commits, TypeOK, CallType, Plans
<1>3. NewRow(a) \in Rows
  BY <1>1, <1>2 DEF NewRow, Rows, Statuses
<1>4. QED
  BY <1>3 DEF Commits, Writable, PlanHolds, Write, Admits, TargetFree, ActiveLinks, LinksOf

(* The links of an account a command is not about stay as they are; those  *)
(* of its own account stay except the target.                              *)
LEMMA CommitLinks ==
  ASSUME TypeOK, NEW a \in Attempts, Commits(a), NEW acc \in Accounts
  PROVE  /\ ActiveLinks(acc) \ {intent[a].target} \subseteq ActiveLinks(acc)'
         /\ acc # intent[a].account => ActiveLinks(acc)' = ActiveLinks(acc)
         /\ acc = intent[a].account /\ intent[a].action # "unlink" =>
              \E id \in ActiveLinks(acc)' : id = intent[a].target
<1>1. /\ intent[a].target \in Identities /\ row \in [Identities -> Rows \cup {None}]
  BY IntentParts DEF Commits, TypeOK, StoreType
<1>2. row' = [row EXCEPT ![intent[a].target] = NewRow(a)] /\ NewRow(a) # None
  BY CommitRows, DirectoryAssumption
<1>3. ActiveLinks(acc) \ {intent[a].target} \subseteq ActiveLinks(acc)'
  BY <1>1, <1>2 DEF ActiveLinks, LinksOf
<1>4. ASSUME acc # intent[a].account PROVE ActiveLinks(acc)' = ActiveLinks(acc)
  <2>1. intent[a].target \notin LinksOf(acc)
    BY <1>4, CommitRows DEF LinksOf
  <2>2. NewRow(a).account # acc
    BY <1>4 DEF NewRow
  <2>3. QED BY <1>1, <1>2, <2>1, <2>2 DEF ActiveLinks, LinksOf
<1>5. ASSUME intent[a].action # "unlink", acc = intent[a].account
      PROVE  \E id \in ActiveLinks(acc)' : id = intent[a].target
  <2>1. NewRow(a).account = intent[a].account /\ NewRow(a).status = "active"
    BY <1>5 DEF NewRow
  <2>2. PICK t \in Identities : t = intent[a].target
    BY <1>1
  <2>3. row'[t] = NewRow(a) /\ NewRow(a) # None
    BY <1>1, <1>2, <2>2
  <2>4. t \in ActiveLinks(acc)'
    BY <1>5, <2>1, <2>3 DEF ActiveLinks, LinksOf
  <2>5. QED BY <2>2, <2>4
<1>6. QED BY <1>3, <1>4, <1>5

(* No plan runs ahead of the store, and what it counted on is still there. *)
LEMMA SnapshotsStep ==
  ASSUME LinkInv, [Next]_vars
  PROVE  SnapshotsAge'
<1>1. TypeOK /\ SnapshotsAge /\ TypeOK'
  BY NextType DEF LinkInv
<1> SUFFICES ASSUME NEW b \in Attempts, pc'[b] \in Planned
             PROVE  /\ plan'[b].rev <= rev'[intent'[b].account]
                    /\ intent'[b].target \notin plan'[b].others
                    /\ rev'[intent'[b].account] = plan'[b].rev =>
                         plan'[b].others \subseteq ActiveLinks(intent[b].account)'
  BY DEF SnapshotsAge
<1>2. CASE GetsPlan(b)
  <2>1. ActiveLinks(intent[b].account)' = ActiveLinks(intent[b].account)
    BY <1>2 DEF GetsPlan, ActiveLinks, LinksOf
  <2>2. intent[b].account \in Accounts
    BY <1>1, IntentParts, <1>2 DEF GetsPlan
  <2>3. QED
    BY <1>1, <1>2, <2>1, <2>2 DEF GetsPlan, TypeOK, StoreType
<1>3. CASE KeepsPlan(b)
  <2> DEFINE acc == intent[b].account
  <2>1. /\ plan[b].rev <= rev[acc] /\ intent[b].target \notin plan[b].others
        /\ rev[acc] = plan[b].rev => plan[b].others \subseteq ActiveLinks(acc)
        /\ plan'[b] = plan[b] /\ intent'[b] = intent[b]
    BY <1>1, <1>3 DEF KeepsPlan, SnapshotsAge
  <2>2. acc \in Accounts /\ plan[b].rev \in Nat
    BY <1>1, <1>3, IntentParts DEF KeepsPlan, TypeOK, CallType, Plans
  <2>3. CASE UNCHANGED <<row, rev, receipt>>
    <3>1. ActiveLinks(acc)' = ActiveLinks(acc)
      BY <2>1, <2>3 DEF ActiveLinks, LinksOf
    <3>2. QED BY <2>1, <2>3, <3>1
  <2>4. ASSUME NEW a \in Attempts, Commits(a), acc # intent[a].account
        PROVE  rev'[acc] = rev[acc] /\ ActiveLinks(acc)' = ActiveLinks(acc)
    <3>1. PICK x \in Accounts : x = acc
      BY <2>2
    <3>2. ActiveLinks(x)' = ActiveLinks(x) /\ rev'[x] = rev[x]
      BY <1>1, <2>4, <3>1, CommitLinks, CommitRows DEF TypeOK, StoreType
    <3>3. QED BY <2>1, <3>1, <3>2
  <2>5. ASSUME NEW a \in Attempts, Commits(a), acc = intent[a].account
        PROVE  rev'[acc] = rev[acc] + 1
    BY <1>1, <2>2, <2>5, CommitRows DEF TypeOK, StoreType
  <2>6. rev[acc] \in Nat
    BY <1>1, <2>2 DEF TypeOK, StoreType
  <2>7. QED
    BY <1>1, <2>1, <2>2, <2>3, <2>4, <2>5, <2>6, StoreStep
<1>4. QED BY <1>1, <1>2, <1>3, PlanStep

LEMMA MethodStep ==
  ASSUME LinkInv, [Next]_vars
  PROVE  MethodSeen'
<1> SUFFICES ASSUME NEW b \in Attempts, pc'[b] = "commit", ~checkError'[b],
                    intent'[b].action = "unlink"
             PROVE  usable'[b] # {} /\ usable'[b] \subseteq plan'[b].others
  BY DEF MethodSeen
<1>1. KeepsPlan(b)
  BY PlanStep DEF LinkInv, GetsPlan
<1>2. QED
  BY <1>1 DEF KeepsPlan, LinkInv, MethodSeen, LastMethodKept, OpenMethods

LEMMA LinkInvInit == Init => LinkInv
BY InitType DEF Init, LinkInv, SnapshotsAge, MethodSeen

LEMMA LinkInvStep == LinkInv /\ [Next]_vars => LinkInv'
BY NextType, SnapshotsStep, MethodStep DEF LinkInv

(* A plan is never ahead of its account, and while the account's revision  *)
(* has not moved the methods it counts on remain (SnapshotsAge).           *)
THEOREM SnapshotsOnlyAge == Spec => []SnapshotsAge
<1>1. LinkInv => SnapshotsAge
  BY DEF LinkInv
<1>2. QED BY <1>1, LinkInvInit, LinkInvStep, PTL DEF Spec

-------------------------------------------------------------------------------
(* The last login method. *)

(* What an unlink saw enabled is still linked when it commits, although    *)
(* its check and its transaction are separated by an await.                *)
LEMMA MethodSurvives ==
  ASSUME LinkInv, NEW a \in Attempts, Commits(a), intent[a].action = "unlink",
         NEW acc \in Accounts, acc = intent[a].account
  PROVE  usable[a] # {} /\ usable[a] \subseteq ActiveLinks(acc) \ {intent[a].target}
<1>1. usable[a] # {} /\ usable[a] \subseteq plan[a].others
  BY DEF LinkInv, MethodSeen, Commits, Writable
<1>2. plan[a].others \subseteq ActiveLinks(acc) /\ intent[a].target \notin plan[a].others
  BY CommitRows DEF LinkInv, SnapshotsAge, Commits
<1>3. QED BY <1>1, <1>2

LEMMA NeverStrandedStep ==
  ASSUME LinkInv, NeverStranded, [Next]_vars
  PROVE  NeverStranded'
<1> SUFFICES ASSUME NEW acc \in Accounts, rev'[acc] > 0
             PROVE  ActiveLinks(acc)' # {}
  BY DEF NeverStranded
<1>1. CASE UNCHANGED <<row, rev, receipt>>
  BY <1>1 DEF NeverStranded, ActiveLinks, LinksOf
<1>2. ASSUME NEW a \in Attempts, Commits(a) PROVE ActiveLinks(acc)' # {}
  <2>1. TypeOK
    BY DEF LinkInv
  <2>2. CASE acc # intent[a].account
    BY <1>2, <2>1, <2>2, CommitLinks, CommitRows DEF NeverStranded, TypeOK, StoreType
  <2>3. CASE acc = intent[a].account /\ intent[a].action = "unlink"
    BY <1>2, <2>1, <2>3, CommitLinks, MethodSurvives
  <2>4. CASE acc = intent[a].account /\ intent[a].action # "unlink"
    BY <1>2, <2>1, <2>4, CommitLinks
  <2>5. QED BY <2>2, <2>3, <2>4
<1>3. QED BY <1>1, <1>2, StoreStep DEF LinkInv

(* An account that was provisioned always keeps an active login method,    *)
(* whatever unlinks race on however many handles (NeverStranded).          *)
THEOREM NobodyStranded == Spec => []NeverStranded
<1>1. Init => NeverStranded
  BY DEF Init, NeverStranded
<1>2. QED
  BY <1>1, LinkInvInit, LinkInvStep, NeverStrandedStep, PTL DEF Spec

-------------------------------------------------------------------------------
(* The directory implements the ledger. *)

LEMMA CommitApplies ==
  ASSUME LinkInv, NEW a \in Attempts, Commits(a), NEW i \in Intents, i = intent[a]
  PROVE  Ledger!Apply(i)
<1>1. /\ TypeOK /\ i \in Intents /\ i.cmd \in Commands /\ i.account \in Accounts
      /\ i.target \in Identities /\ i.action \in Actions
  BY IntentParts DEF LinkInv, Commits
<1>2. /\ receipt[i.cmd] = None /\ TargetFree(i)
      /\ receipt' = [receipt EXCEPT ![i.cmd] =
                       [digest |-> Digest(i), revision |-> plan[a].rev + 1]]
  BY DEF Commits, Writable, Admits, Write
<1>3. {c \in Commands : receipt'[c] # None} = {c \in Commands : receipt[c] # None} \cup {i.cmd}
  <2>1. [digest |-> Digest(i), revision |-> plan[a].rev + 1] \in Receipts
    <3>1. plan[a].rev + 1 \in Nat
      BY <1>1 DEF Commits, TypeOK, CallType, Plans
    <3>2. Digest(i) \in Digests
      BY <1>1, DirectoryAssumption DEF Digest, Digests
    <3>3. QED BY <3>1, <3>2 DEF Receipts
  <2>2. receipt'[i.cmd] # None /\ \A c \in Commands \ {i.cmd} : receipt'[c] = receipt[c]
    BY <1>1, <1>2, <2>1, DirectoryAssumption DEF TypeOK, StoreType
  <2>3. QED BY <1>1, <2>2
<1>4. rev' = [rev EXCEPT ![i.account] = rev[i.account] + 1]
  BY <1>1, CommitRows
<1>5. /\ row' = [row EXCEPT ![i.target] = NewRow(a)]
      /\ plan[a].row = row[i.target]
  BY <1>1, CommitRows
<1>6. Ledger!Admit(i) \/ Ledger!Relink(i) \/ Ledger!Unlink(i)
  <2>1. CASE i.action # "unlink" /\ row[i.target] = None
    BY <1>1, <1>5, <2>1 DEF Ledger!Admit, NewRow, Actions
  <2>2. CASE i.action = "link" /\ i.target \in LinksOf(i.account)
             /\ row[i.target].status = "unlinked"
    BY <1>5, <2>2 DEF Ledger!Relink, NewRow, LinksOf
  <2>3. CASE i.action = "unlink" /\ i.target \in ActiveLinks(i.account)
    <3>1. Ledger!ActiveIn(row, i.account) = ActiveLinks(i.account)
      BY DEF Ledger!ActiveIn, ActiveLinks, LinksOf
    <3>2. ActiveLinks(i.account) \ {i.target} # {}
      BY <1>1, <2>3, MethodSurvives
    <3>3. row[i.target] # None
      BY <2>3 DEF ActiveLinks, LinksOf
    <3>4. QED BY <1>5, <2>3, <3>1, <3>2, <3>3 DEF Ledger!Unlink, NewRow
  <2>4. QED BY <1>2, <2>1, <2>2, <2>3 DEF TargetFree
<1>7. QED
  BY <1>1, <1>2, <1>3, <1>4, <1>6 DEF Ledger!Apply

LEMMA LedgerStep ==
  ASSUME LinkInv, [Next]_vars
  PROVE  [Ledger!Next]_(Ledger!vars)
<1>1. CASE UNCHANGED <<row, rev, receipt>>
  BY <1>1 DEF Ledger!vars
<1>2. ASSUME NEW a \in Attempts, Commits(a) PROVE Ledger!Next
  <2>1. PICK i \in Intents : i = intent[a]
    BY <1>2, IntentParts DEF LinkInv, Commits
  <2>2. Ledger!Apply(i)
    BY <1>2, <2>1, CommitApplies
  <2>3. QED BY <2>1, <2>2 DEF Ledger!Next
<1>3. QED BY <1>1, <1>2, StoreStep DEF LinkInv

(* Every behaviour of the directory is one of the ledger: commands take    *)
(* effect one at a time, once each, and keep the account's last method.    *)
THEOREM DirectoryRefines == Spec => ImplementsLedger
<1>1. Init => Ledger!Init
  BY DEF Init, Ledger!Init
<1>2. QED
  BY <1>1, LinkInvInit, LinkInvStep, LedgerStep, PTL DEF Spec, ImplementsLedger, Ledger!Spec

(* A command takes effect only for a caller that is still current, on a    *)
(* handle that is not fenced, and an unlink leaves a method it saw enabled *)
(* (EffectsAreCurrent).                                                    *)
THEOREM EffectsCurrent == Spec => EffectsAreCurrent
<1>1. ASSUME LinkInv, [Next]_vars, NEW c \in Commands, receipt[c] = None, receipt'[c] # None
      PROVE  \E a \in Attempts : /\ pc[a] = "commit" /\ intent[a].cmd = c
                                 /\ EffectAuthorised(a)
  <2>1. PICK a \in Attempts : Commits(a)
    BY <1>1, StoreStep DEF LinkInv
  <2>2. TypeOK /\ intent[a].account \in Accounts /\ intent[a].cmd \in Commands
    BY <1>1, <2>1, IntentParts DEF LinkInv, Commits
  <2>3. intent[a].cmd = c
    BY <1>1, <2>1, <2>2 DEF Commits, Write, TypeOK, StoreType
  <2>4. ~fenced[handle[a]] /\ (intent[a].action # "provision" => Current(intent[a].session))
    BY <2>1 DEF Commits, Writable, Admits, ActorRow
  <2>5. ASSUME intent[a].action = "unlink"
        PROVE  \E acc \in {intent[a].account} : usable[a] \cap ActiveLinks(acc)' # {}
    <3>1. PICK acc \in Accounts : acc = intent[a].account
      BY <2>2
    <3>2. usable[a] # {} /\ usable[a] \subseteq ActiveLinks(acc) \ {intent[a].target}
      BY <1>1, <2>1, <2>5, <3>1, MethodSurvives
    <3>3. usable[a] \cap ActiveLinks(acc)' # {}
      BY <2>1, <2>2, <3>2, CommitLinks
    <3>4. QED BY <3>1, <3>3
  <2>6. QED BY <2>1, <2>3, <2>4, <2>5 DEF EffectAuthorised, Commits
<1>2. LinkInv /\ [Next]_vars =>
        [\A c \in Commands : receipt[c] = None /\ receipt'[c] # None =>
           \E a \in Attempts : /\ pc[a] = "commit" /\ intent[a].cmd = c
                               /\ EffectAuthorised(a)]_vars
  BY <1>1
<1>3. QED
  BY <1>2, LinkInvInit, LinkInvStep, PTL DEF Spec, EffectsAreCurrent

-------------------------------------------------------------------------------
(* Stale sessions.  The generation of a row is the whole story: it never   *)
(* falls, and at the generation a session was bound to, the row is still   *)
(* the active link of that account.                                        *)

BindInv ==
  \A s \in Sessions : binding[s] # None =>
    LET b == binding[s] IN
    /\ row[b.target] # None
    /\ b.gen <= row[b.target].gen
    /\ b.gen = row[b.target].gen =>
         row[b.target].status = "active" /\ row[b.target].account = b.account

(* A binding is only ever made once, to an active row.                     *)
LEMMA BindingStep ==
  ASSUME TypeOK, [Next]_vars, NEW s \in Sessions
  PROVE  \/ binding'[s] = binding[s]
         \/ /\ binding[s] = None /\ UNCHANGED <<row, rev, receipt>>
            /\ \E id \in Identities :
                 /\ row[id] # None /\ row[id].status = "active"
                 /\ binding'[s] = [target |-> id, account |-> row[id].account,
                                   gen |-> row[id].gen]
<1>1. ASSUME NEW a \in Attempts, Step(a) PROVE UNCHANGED binding
  BY <1>1 DEF Step, Guard, Preflight, Reserve, Recheck, RecheckPasses, RecheckFails, Commit,
     Settle, Release, Terminal, Refuse, host
<1>2. ASSUME NEW a \in Attempts, NEW h \in Handles, NEW i \in Intents, Entry(a, h, i)
      PROVE  UNCHANGED binding
  BY <1>2 DEF Entry, Call, Reconcile, host
<1>3. ASSUME NEW t \in Sessions, NEW id \in Identities, BindSession(t, id)
      PROVE  \/ binding'[s] = binding[s]
             \/ /\ binding[s] = None /\ UNCHANGED <<row, rev, receipt>>
                /\ row[id] # None /\ row[id].status = "active"
                /\ binding'[s] = [target |-> id, account |-> row[id].account,
                                  gen |-> row[id].gen]
  BY <1>3 DEF BindSession, TypeOK, HostType, store
<1>4. Environment => \/ UNCHANGED binding
                     \/ \E t \in Sessions, id \in Identities : BindSession(t, id)
  BY DEF Environment, Restart, ReadOnlyCall, AcknowledgeEvent, ReconcileUnknown, Clock,
     SwitchProvider, host
<1>5. QED BY <1>1, <1>2, <1>3, <1>4 DEF Next, vars

(* No step lowers a generation, and a step that keeps one keeps the row.   *)
LEMMA GenerationStep ==
  ASSUME TypeOK, [Next]_vars, NEW id \in Identities, row[id] # None
  PROVE  /\ row'[id] # None
         /\ row'[id] = row[id] \/ row[id].gen < row'[id].gen
<1>1. ASSUME NEW a \in Attempts, Commits(a), id = intent[a].target
      PROVE  row'[id] # None /\ row[id].gen < row'[id].gen
  <2>1. row'[id] = NewRow(a) /\ NewRow(a) \in Rows /\ plan[a].row = row[id]
    BY <1>1, CommitRows DEF TypeOK, StoreType
  <2>2. row[id] \in Rows
    BY DEF TypeOK, StoreType
  <2>3. row[id].gen \in Nat /\ NewRow(a).gen = row[id].gen + 1
    BY <2>1, <2>2 DEF NewRow, Rows
  <2>4. QED BY <2>1, <2>3, DirectoryAssumption
<1>2. ASSUME NEW a \in Attempts, Commits(a), id # intent[a].target
      PROVE  row'[id] = row[id]
  BY <1>2, CommitRows DEF TypeOK, StoreType
<1>3. QED BY <1>1, <1>2, StoreStep

LEMMA BindInvStep ==
  ASSUME TypeOK, BindInv, [Next]_vars
  PROVE  BindInv'
<1> SUFFICES ASSUME NEW s \in Sessions, binding'[s] # None
             PROVE  /\ row'[binding'[s].target] # None
                    /\ binding'[s].gen <= row'[binding'[s].target].gen
                    /\ binding'[s].gen = row'[binding'[s].target].gen =>
                         /\ row'[binding'[s].target].status = "active"
                         /\ row'[binding'[s].target].account = binding'[s].account
  BY DEF BindInv
<1>1. CASE binding'[s] = binding[s]
  <2>1. binding[s] \in Bindings
    BY <1>1 DEF TypeOK, HostType
  <2>2. PICK id \in Identities : id = binding[s].target
    BY <2>1 DEF Bindings
  <2>3. /\ row[id] # None /\ row[id] \in Rows /\ binding[s].gen <= row[id].gen
        /\ binding[s].gen = row[id].gen =>
             row[id].status = "active" /\ row[id].account = binding[s].account
    BY <1>1, <2>2 DEF BindInv, TypeOK, StoreType
  <2>4. row'[id] # None /\ (row'[id] = row[id] \/ row[id].gen < row'[id].gen)
    BY <2>3, GenerationStep
  <2>5. row'[id] \in Rows
    BY <2>4, NextType DEF TypeOK, StoreType
  <2>6. row[id].gen \in Nat /\ row'[id].gen \in Nat /\ binding[s].gen \in Nat
    BY <2>1, <2>3, <2>5 DEF Rows, Bindings
  <2>7. QED BY <1>1, <2>2, <2>3, <2>4, <2>6
<1>2. CASE binding'[s] # binding[s]
  <2>1. PICK id \in Identities :
          /\ row[id] # None /\ row[id].status = "active" /\ row' = row
          /\ binding'[s] = [target |-> id, account |-> row[id].account, gen |-> row[id].gen]
    BY <1>2, BindingStep
  <2>2. row[id].gen \in Nat
    BY <2>1 DEF TypeOK, StoreType, Rows
  <2>3. QED BY <2>1, <2>2
<1>3. QED BY <1>1, <1>2

(* A session whose link changed is never current again, even when the same *)
(* identity is linked back to the same account (StaleSessionStaysStale).   *)
THEOREM StaleStaysStale == Spec => StaleSessionStaysStale
<1>1. Init => BindInv
  BY DEF Init, BindInv
<1>2. ASSUME TypeOK, BindInv, [Next]_vars, NEW s \in Sessions, binding[s] # None, ~Current(s)
      PROVE  ~Current(s)'
  <2>1. binding'[s] = binding[s] /\ binding[s] \in Bindings
    BY <1>2, BindingStep DEF TypeOK, HostType
  <2>2. PICK id \in Identities : id = binding[s].target
    BY <2>1 DEF Bindings
  <2>3. /\ row[id] # None /\ row[id] \in Rows /\ binding[s].gen <= row[id].gen
        /\ binding[s].gen # row[id].gen
    BY <1>2, <2>2 DEF BindInv, Current, TypeOK, StoreType
  <2>4. row'[id] # None /\ (row'[id] = row[id] \/ row[id].gen < row'[id].gen)
    BY <1>2, <2>3, GenerationStep
  <2>5. row'[id] \in Rows
    BY <1>2, <2>4, NextType DEF TypeOK, StoreType
  <2>6. row[id].gen \in Nat /\ row'[id].gen \in Nat /\ binding[s].gen \in Nat
    BY <2>1, <2>3, <2>5 DEF Rows, Bindings
  <2>7. binding'[s].gen # row'[binding'[s].target].gen
    BY <2>1, <2>2, <2>3, <2>4, <2>6
  <2>8. QED BY <2>7 DEF Current
<1>3. TypeOK /\ BindInv /\ [Next]_vars =>
        [\A s \in Sessions : binding[s] # None /\ ~Current(s) => ~Current(s)']_vars
  BY <1>2
<1>4. TypeOK /\ BindInv /\ [Next]_vars => TypeOK' /\ BindInv'
  BY NextType, BindInvStep
<1>5. QED
  BY <1>1, <1>3, <1>4, InitType, PTL DEF Spec, StaleSessionStaysStale

-------------------------------------------------------------------------------
(* Capacity.  A call only settles once it has seen its command's receipt.  *)

Settling == {"settle", "reconcile"}

SettleInv ==
  /\ SettledIsCommitted
  /\ \A a \in Attempts : pc[a] \in Settling => receipt[intent[a].cmd] # None

(* Receipts are never removed.                                             *)
LEMMA ReceiptStep ==
  ASSUME TypeOK, [Next]_vars, NEW c \in Commands, receipt[c] # None
  PROVE  receipt'[c] # None
<1>1. ASSUME NEW a \in Attempts, Commits(a) PROVE receipt'[c] = receipt[c]
  BY <1>1 DEF Commits, Writable, Admits, Write, TypeOK, StoreType
<1>2. QED BY <1>1, StoreStep

(* A terminal transition of a call touches its own command's reservation.  *)
Changed(a, to) ==
  \/ UNCHANGED reservation
  \/ /\ reservation[intent[a].cmd].state \in {"held", to}
     /\ reservation' = [reservation EXCEPT ![intent[a].cmd] =
          [state |-> to, digest |-> reservation[intent[a].cmd].digest]]

LEMMA ChangedAt ==
  ASSUME TypeOK, NEW a \in Attempts, NEW to \in {"settled", "released"}, Changed(a, to),
         NEW c \in Commands
  PROVE  \/ reservation'[c] = reservation[c]
         \/ /\ reservation'[c].state = to /\ reservation[c].state \in {"held", to}
            /\ intent[a].cmd = c
BY DEF Changed, TypeOK, HostType

(* What happens to the reservation of one command in a step.               *)
LEMMA ReservationStep ==
  ASSUME TypeOK, [Next]_vars, NEW c \in Commands
  PROVE  \/ reservation'[c] = reservation[c]
         \/ reservation'[c].state = "held" /\ reservation[c].state = "none"
         \/ /\ reservation'[c].state = "settled" /\ reservation[c].state \in {"held", "settled"}
            /\ \/ receipt[c] # None
               \/ \E a \in Attempts : pc[a] \in Settling /\ intent[a].cmd = c
         \/ /\ reservation'[c].state = "released"
            /\ reservation[c].state \in {"held", "released"}
            /\ \/ receipt[c] = None /\ InFlight(c) = {}
               \/ \E a \in Attempts : pc[a] = "release" /\ intent[a].cmd = c
<1> DEFINE Goal ==
      \/ reservation'[c] = reservation[c]
      \/ reservation'[c].state = "held" /\ reservation[c].state = "none"
      \/ /\ reservation'[c].state = "settled" /\ reservation[c].state \in {"held", "settled"}
         /\ \/ receipt[c] # None
            \/ \E a \in Attempts : pc[a] \in Settling /\ intent[a].cmd = c
      \/ /\ reservation'[c].state = "released"
         /\ reservation[c].state \in {"held", "released"}
         /\ \/ receipt[c] = None /\ InFlight(c) = {}
            \/ \E a \in Attempts : pc[a] = "release" /\ intent[a].cmd = c
<1>1. CASE UNCHANGED reservation
  BY <1>1
<1>2. ASSUME NEW a \in Attempts, Reserve(a) PROVE Goal
  <2>1. \/ UNCHANGED reservation
        \/ /\ reservation[intent[a].cmd].state = "none"
           /\ reservation' = [reservation EXCEPT ![intent[a].cmd] =
                                [state |-> "held", digest |-> Digest(intent[a])]]
    BY <1>2 DEF Reserve, Reserved, Refuse
  <2>2. QED BY <1>1, <2>1 DEF TypeOK, HostType
<1>3. ASSUME NEW a \in Attempts, Settle(a) PROVE Goal
  <2>1. Changed(a, "settled") /\ pc[a] \in Settling
    BY <1>3 DEF Settle, Terminal, Settling, Changed
  <2>2. QED BY <1>1, <2>1, ChangedAt
<1>4. ASSUME NEW a \in Attempts, Release(a) PROVE Goal
  <2>1. Changed(a, "released") /\ pc[a] = "release"
    BY <1>4 DEF Release, Terminal, Changed
  <2>2. QED BY <1>1, <2>1, ChangedAt
<1>5. ASSUME NEW d \in Commands, ReconcileUnknown(d) PROVE Goal
  BY <1>5 DEF ReconcileUnknown, TypeOK, HostType
<1>6. ASSUME NEW a \in Attempts, Step(a) PROVE Goal
  BY <1>1, <1>2, <1>3, <1>4, <1>6 DEF Step, Guard, Preflight, Recheck, RecheckPasses,
     RecheckFails, Commit, Refuse
<1>7. ASSUME NEW a \in Attempts, NEW h \in Handles, NEW i \in Intents, Entry(a, h, i)
      PROVE  UNCHANGED reservation
  BY <1>7 DEF Entry, Call, Reconcile
<1>8. ASSUME Environment PROVE Goal
  <2>1. UNCHANGED reservation \/ \E d \in Commands : ReconcileUnknown(d)
    BY <1>8 DEF Environment, Restart, ReadOnlyCall, BindSession, AcknowledgeEvent, Clock,
       SwitchProvider
  <2>2. QED BY <1>1, <1>5, <2>1
<1>9. QED BY <1>1, <1>6, <1>7, <1>8 DEF Next, vars

(* How a call comes to a step: it was there already, or ...                *)
LEMMA SettlingStep ==
  ASSUME TypeOK, [Next]_vars, NEW b \in Attempts, pc'[b] \in Settling
  PROVE  \/ pc[b] \in Settling /\ intent'[b] = intent[b]
         \/ receipt[intent'[b].cmd] # None
         \/ Commits(b) /\ intent'[b] = intent[b]
<1>1. CASE UNCHANGED <<pc[b], intent[b]>>
  BY <1>1
<1>2. ASSUME NEW a \in Attempts, a # b, Step(a) PROVE UNCHANGED <<pc[b], intent[b]>>
  BY <1>2 DEF Step, Guard, Preflight, Reserve, Recheck, RecheckPasses, RecheckFails, Commit,
     Settle, Release, Terminal, Refuse, Finish, TypeOK, CallType, call
<1>3. ASSUME Step(b)
      PROVE  \/ receipt[intent'[b].cmd] # None
             \/ Commits(b) /\ intent'[b] = intent[b]
  BY <1>3 DEF Step, Guard, Preflight, Reserve, Recheck, RecheckPasses, RecheckFails, Commit,
     Settle, Release, Terminal, Refuse, Finish, TypeOK, CallType, call, Settling, Replays,
     Commits
<1>4. ASSUME NEW a \in Attempts, NEW h \in Handles, NEW i \in Intents, Entry(a, h, i)
      PROVE  UNCHANGED <<pc[b], intent[b]>> \/ receipt[intent'[b].cmd] # None
  BY <1>4 DEF Entry, Call, Reconcile, TypeOK, CallType, Settling
<1>5. ASSUME Environment PROVE UNCHANGED <<pc[b], intent[b]>>
  <2>1. ASSUME NEW h \in Handles, Restart(h) PROVE UNCHANGED <<pc[b], intent[b]>>
    <3>1. handle[b] # h
      BY <2>1 DEF Restart, Settling
    <3>2. QED BY <2>1, <3>1 DEF Restart
  <2>2. (\E h \in Handles : Restart(h)) \/ UNCHANGED <<pc, call>>
    BY <1>5 DEF Environment, ReadOnlyCall, BindSession, AcknowledgeEvent, ReconcileUnknown,
       Clock, SwitchProvider
  <2>3. QED BY <2>1, <2>2 DEF call
<1>6. QED BY <1>1, <1>2, <1>3, <1>4, <1>5 DEF Next, vars

LEMMA SettleInvStep ==
  ASSUME TypeOK, SettleInv, [Next]_vars
  PROVE  SettleInv'
<1>1. ASSUME NEW c \in Commands, reservation'[c].state = "settled" PROVE receipt'[c] # None
  <2>1. receipt[c] # None
    BY <1>1, ReservationStep DEF SettleInv, SettledIsCommitted
  <2>2. QED BY <2>1, ReceiptStep
<1>2. ASSUME NEW b \in Attempts, pc'[b] \in Settling PROVE receipt'[intent'[b].cmd] # None
  <2>1. intent'[b].cmd \in Commands
    BY <1>2, NextType, DirectoryAssumption DEF TypeOK, CallType, Settling
  <2>2. CASE Commits(b) /\ intent'[b] = intent[b]
    <3>1. [digest |-> Digest(intent[b]), revision |-> plan[b].rev + 1] = receipt'[intent[b].cmd]
      BY <2>1, <2>2 DEF Commits, Write, TypeOK, StoreType
    <3>2. receipt'[intent[b].cmd] # None
      <4>1. plan[b].rev + 1 \in Nat
        BY <2>2 DEF Commits, TypeOK, CallType, Plans
      <4>2. Digest(intent[b]) \in Digests
        BY <2>2, IntentParts DEF Commits, Digest, Digests
      <4>3. QED BY <3>1, <4>1, <4>2, DirectoryAssumption DEF Receipts
    <3>3. QED BY <2>2, <3>2
  <2>3. QED BY <1>2, <2>1, <2>2, SettlingStep, ReceiptStep DEF SettleInv
<1>3. QED BY <1>1, <1>2 DEF SettleInv, SettledIsCommitted

(* Capacity is charged only for a command whose rows are in the store,     *)
(* whatever replies are lost and whoever settles (SettledIsCommitted).     *)
THEOREM SettledCommitted == Spec => []SettledIsCommitted
<1>1. Init => SettleInv
  BY DEF Init, SettleInv, SettledIsCommitted, Settling
<1>2. TypeOK /\ SettleInv /\ [Next]_vars => TypeOK' /\ SettleInv'
  BY NextType, SettleInvStep
<1>3. SettleInv => SettledIsCommitted
  BY DEF SettleInv
<1>4. QED BY <1>1, <1>2, <1>3, InitType, PTL DEF Spec

-------------------------------------------------------------------------------
(* Funding.  When a host never runs two calls of one command at once, a    *)
(* committed command is always paid for.  (The run MCDirectoryOverlap      *)
(* shows that it is not otherwise.)                                        *)

Unwritten == {"reserve", "recheck", "commit", "release"}
Holding == {"recheck", "commit"}

FundInv ==
  /\ \A a, b \in Attempts :
       a # b /\ pc[a] # "idle" /\ pc[b] # "idle" => intent[a].cmd # intent[b].cmd
  /\ \A a \in Attempts :
       /\ pc[a] \in Unwritten => receipt[intent[a].cmd] = None
       /\ pc[a] \in Holding => reservation[intent[a].cmd].state \in {"held", "settled"}
  /\ CommittedIsFunded

(* At most one call starts in a step, and no other call of its command is  *)
(* running then.                                                           *)
LEMMA StartStep ==
  ASSUME TypeOK, [Next]_vars, Overlap = FALSE
  PROVE  \/ \A b \in Attempts : pc'[b] # "idle" => pc[b] # "idle" /\ intent'[b] = intent[b]
         \/ \E b \in Attempts :
              /\ pc[b] = "idle" /\ pc'[b] \notin Unwritten /\ InFlight(intent'[b].cmd) = {}
              /\ \A d \in Attempts \ {b} : UNCHANGED <<pc[d], intent[d]>>
<1>1. CASE UNCHANGED <<pc, intent>>
  BY <1>1 DEF TypeOK, CallType
<1>2. ASSUME NEW a \in Attempts, Step(a), NEW b \in Attempts, pc'[b] # "idle"
      PROVE  pc[b] # "idle" /\ intent'[b] = intent[b]
  BY <1>2 DEF Step, Guard, Preflight, Reserve, Recheck, RecheckPasses, RecheckFails, Commit,
     Settle, Release, Terminal, Refuse, Finish, TypeOK, CallType, call
<1>3. ASSUME NEW a \in Attempts, NEW h \in Handles, NEW i \in Intents, Entry(a, h, i)
      PROVE  /\ pc[a] = "idle" /\ pc'[a] \notin Unwritten /\ InFlight(intent'[a].cmd) = {}
             /\ \A d \in Attempts \ {a} : UNCHANGED <<pc[d], intent[d]>>
  BY <1>3 DEF Entry, Call, Reconcile, TypeOK, CallType, Unwritten
<1>4. ASSUME NEW h \in Handles, Restart(h), NEW b \in Attempts, pc'[b] # "idle"
      PROVE  pc[b] # "idle" /\ intent'[b] = intent[b]
  BY <1>4 DEF Restart
<1>5. ASSUME Environment PROVE (\E h \in Handles : Restart(h)) \/ UNCHANGED <<pc, intent>>
  BY <1>5 DEF Environment, ReadOnlyCall, BindSession, AcknowledgeEvent, ReconcileUnknown,
     Clock, SwitchProvider, call
<1>6. QED BY <1>1, <1>2, <1>3, <1>4, <1>5 DEF Next, vars

(* How a running call comes to a step before its receipt is written.       *)
LEMMA AdvanceStep ==
  ASSUME TypeOK, [Next]_vars, NEW b \in Attempts, pc'[b] \in Unwritten
  PROVE  /\ pc[b] # "idle" /\ intent'[b] = intent[b]
         /\ \/ pc'[b] = pc[b]
            \/ pc[b] = "preflight" /\ pc'[b] = "reserve" /\ receipt[intent[b].cmd] = None
            \/ /\ pc[b] = "reserve" /\ pc'[b] = "recheck"
               /\ reservation'[intent[b].cmd].state \in {"held", "settled"}
            \/ pc[b] = "recheck" /\ pc'[b] = "commit"
            \/ pc[b] = "commit" /\ pc'[b] = "release"
<1> USE DEF Unwritten
<1>1. CASE UNCHANGED <<pc[b], intent[b]>>
  BY <1>1
<1>2. ASSUME NEW a \in Attempts, a # b, Step(a) PROVE UNCHANGED <<pc[b], intent[b]>>
  BY <1>2 DEF Step, Guard, Preflight, Reserve, Recheck, RecheckPasses, RecheckFails, Commit,
     Settle, Release, Terminal, Refuse, Finish, TypeOK, CallType, call
<1>3. CASE Reserve(b)
  <2>1. pc[b] = "reserve" /\ pc'[b] = "recheck" /\ intent'[b] = intent[b]
    BY <1>3 DEF Reserve, Refuse, Finish, TypeOK, CallType, call
  <2>2. Grants(intent[b]) /\ reservation' = Reserved(intent[b])
    BY <1>3, <2>1 DEF Reserve, Refuse, Finish, TypeOK, CallType
  <2>3. intent[b].cmd \in Commands
    BY <2>1, IntentParts
  <2>4. reservation'[intent[b].cmd].state \in {"held", "settled"}
    BY <2>2, <2>3 DEF Grants, Reserved, TypeOK, HostType
  <2>5. QED BY <2>1, <2>4
<1>4. ASSUME Step(b), ~Reserve(b)
      PROVE  /\ pc[b] # "idle" /\ intent'[b] = intent[b]
             /\ \/ /\ pc[b] = "preflight" /\ pc'[b] = "reserve"
                   /\ receipt[intent[b].cmd] = None
                \/ pc[b] = "recheck" /\ pc'[b] = "commit"
                \/ pc[b] = "commit" /\ pc'[b] = "release"
  BY <1>4 DEF Step, Guard, Preflight, Admits, Recheck, RecheckPasses, RecheckFails, Commit,
     Settle, Release, Terminal, Refuse, Finish, TypeOK, CallType, call
<1>5. ASSUME NEW a \in Attempts, NEW h \in Handles, NEW i \in Intents, Entry(a, h, i)
      PROVE  UNCHANGED <<pc[b], intent[b]>>
  BY <1>5 DEF Entry, Call, Reconcile, TypeOK, CallType
<1>6. ASSUME Environment PROVE UNCHANGED <<pc[b], intent[b]>>
  <2>1. ASSUME NEW h \in Handles, Restart(h) PROVE UNCHANGED <<pc[b], intent[b]>>
    <3>1. handle[b] # h
      BY <2>1 DEF Restart
    <3>2. QED BY <2>1, <3>1 DEF Restart
  <2>2. (\E h \in Handles : Restart(h)) \/ UNCHANGED <<pc, call>>
    BY <1>6 DEF Environment, ReadOnlyCall, BindSession, AcknowledgeEvent, ReconcileUnknown,
       Clock, SwitchProvider
  <2>3. QED BY <2>1, <2>2 DEF call
<1>7. CASE UNCHANGED vars
  BY <1>1, <1>7 DEF vars
<1>8. CASE Step(b)
  BY <1>3, <1>4, <1>8
<1>9. QED BY <1>1, <1>2, <1>5, <1>6, <1>7, <1>8 DEF Next

LEMMA FundStep ==
  ASSUME TypeOK, SettleInv, FundInv, [Next]_vars, Overlap = FALSE
  PROVE  FundInv'
<1>1. ASSUME NEW a \in Attempts, NEW b \in Attempts, a # b, pc'[a] # "idle", pc'[b] # "idle"
      PROVE  intent'[a].cmd # intent'[b].cmd
  BY <1>1, StartStep DEF FundInv, InFlight
<1>2. ASSUME NEW b \in Attempts, pc'[b] \in Unwritten
      PROVE  /\ receipt[intent[b].cmd] = None /\ intent[b].cmd \in Commands
             /\ pc[b] # "idle" /\ intent'[b] = intent[b]
  BY <1>2, AdvanceStep, IntentParts DEF FundInv, Unwritten
<1>3. ASSUME NEW b \in Attempts, pc'[b] \in Unwritten PROVE receipt'[intent'[b].cmd] = None
  <2>1. ASSUME NEW a \in Attempts, Commits(a) PROVE receipt'[intent[b].cmd] = None
    <3>1. a # b
      BY <1>3, <2>1 DEF Commits, Unwritten
    <3>2. intent[a].cmd # intent[b].cmd
      BY <1>2, <1>3, <2>1, <3>1 DEF FundInv, Commits
    <3>3. QED BY <1>2, <1>3, <2>1, <3>2 DEF Commits, Write, TypeOK, StoreType
  <2>2. QED BY <1>2, <1>3, <2>1, StoreStep
<1>4. ASSUME NEW c \in Commands, NEW b \in Attempts, pc[b] \in Holding, intent[b].cmd = c
      PROVE  reservation'[c].state \in {"held", "settled"}
  <2>1. reservation[c].state \in {"held", "settled"}
    BY <1>4 DEF FundInv
  <2>2. InFlight(c) # {}
    BY <1>4 DEF InFlight, Holding
  <2>3. ~ \E a \in Attempts : pc[a] = "release" /\ intent[a].cmd = c
    BY <1>4 DEF FundInv, Holding
  <2>4. QED BY <2>1, <2>2, <2>3, ReservationStep
<1>5. ASSUME NEW b \in Attempts, pc'[b] \in Holding
      PROVE  reservation'[intent'[b].cmd].state \in {"held", "settled"}
  BY <1>2, <1>4, <1>5, AdvanceStep DEF Holding, Unwritten
<1>6. ASSUME NEW c \in Commands, receipt'[c] # None
      PROVE  reservation'[c].state \in {"held", "settled"}
  <2>1. CASE receipt[c] # None
    <3>1. reservation[c].state \in {"held", "settled"}
      BY <2>1 DEF FundInv, CommittedIsFunded
    <3>2. ~ \E a \in Attempts : pc[a] = "release" /\ intent[a].cmd = c
      BY <2>1 DEF FundInv, Unwritten
    <3>3. QED BY <2>1, <3>1, <3>2, ReservationStep
  <2>2. CASE receipt[c] = None
    <3>1. PICK a \in Attempts : Commits(a)
      BY <1>6, <2>2, StoreStep
    <3>2. intent[a].cmd = c
      BY <1>6, <2>2, <3>1 DEF Commits, Write, TypeOK, StoreType
    <3>3. QED BY <1>4, <3>1, <3>2 DEF Commits, Holding
  <2>3. QED BY <2>1, <2>2
<1>7. QED BY <1>1, <1>3, <1>5, <1>6 DEF FundInv, CommittedIsFunded, Holding, Unwritten

(* A host that serialises the calls of one command never has a committed   *)
(* command whose capacity was given back (CommittedIsFunded).              *)
THEOREM CommittedFunded ==
  ASSUME Overlap = FALSE
  PROVE  Spec => []CommittedIsFunded
<1>1. Init => SettleInv /\ FundInv
  BY DEF Init, SettleInv, SettledIsCommitted, Settling, FundInv, CommittedIsFunded, Unwritten,
     Holding
<1>2. TypeOK /\ SettleInv /\ FundInv /\ [Next]_vars => TypeOK' /\ SettleInv' /\ FundInv'
  BY NextType, SettleInvStep, FundStep
<1>3. FundInv => CommittedIsFunded
  BY DEF FundInv
<1>4. QED BY <1>1, <1>2, <1>3, InitType, PTL DEF Spec

-------------------------------------------------------------------------------
(* Slots.  A handle's counter is the number of its running writers. *)

Writers(h) == {a \in Attempts : handle[a] = h /\ pc[a] \notin {"idle", "reconcile"}}

\* The writers of a handle are finitely many, so that they can be counted.
SlotsInv ==
  \A h \in Handles : /\ IsFiniteSet(Writers(h))
                     /\ concurrent[h] = Cardinality(Writers(h))
                     /\ concurrent[h] <= MaxConcurrent

(* What a step may do to the writers and the counter of one handle.        *)
SameSlots(h) == Writers(h)' = Writers(h) /\ concurrent'[h] = concurrent[h]

TakesSlot(h) ==
  /\ concurrent[h] < MaxConcurrent /\ concurrent'[h] = concurrent[h] + 1
  /\ \E a \in Attempts \ Writers(h) : Writers(h)' = Writers(h) \cup {a}

FreesSlot(h) ==
  /\ concurrent'[h] = concurrent[h] - 1
  /\ \E a \in Writers(h) : Writers(h)' = Writers(h) \ {a}

LosesSlots(h) == Writers(h)' = {} /\ concurrent'[h] = 0

(* Every exit of a writer frees the one slot its call took.                *)
LEMMA FinishSlots ==
  ASSUME TypeOK, NEW a \in Attempts, NEW fence, pc[a] # "idle", Finish(a, fence),
         NEW h \in Handles
  PROVE  SameSlots(h) \/ FreesSlot(h)
<1>1. /\ pc \in [Attempts -> Steps] /\ handle \in [Attempts -> Handles \cup {None}]
      /\ concurrent \in [Handles -> Int] /\ handle[a] \in Handles
  BY DEF TypeOK, CallType, HandleType
<1>2. Writers(h)' = Writers(h) \ {a}
  <2>1. pc' = [pc EXCEPT ![a] = "idle"] /\ handle' = [handle EXCEPT ![a] = None]
    BY DEF Finish
  <2>2. QED BY <1>1, <2>1 DEF Writers
<1>3. CASE a \in Writers(h)
  <2>1. concurrent'[h] = concurrent[h] - 1
    BY <1>1, <1>3 DEF Finish, Writers
  <2>2. QED BY <1>2, <1>3, <2>1 DEF FreesSlot
<1>4. CASE a \notin Writers(h)
  <2>1. concurrent'[h] = concurrent[h]
    BY <1>1, <1>4 DEF Finish, Writers
  <2>2. QED BY <1>2, <1>4, <2>1 DEF SameSlots
<1>5. QED BY <1>3, <1>4

(* A step that is not an exit leaves the writers alone: the call stays one. *)
LEMMA StepSlots ==
  ASSUME TypeOK, NEW a \in Attempts, Step(a), NEW h \in Handles
  PROVE  SameSlots(h) \/ FreesSlot(h)
<1>1. pc[a] # "idle"
  BY DEF Step, Guard, Preflight, Reserve, Recheck, Commit, Settle, Release
<1>2. CASE \E fence : Finish(a, fence)
  BY <1>1, <1>2, FinishSlots
<1>3. CASE ~ \E fence : Finish(a, fence)
  <2>1. UNCHANGED concurrent /\ UNCHANGED handle
    BY <1>3 DEF Step, Guard, Preflight, Reserve, Recheck, RecheckPasses, RecheckFails, Commit,
       Settle, Release, Terminal, Refuse, call
  <2>2. \E s \in Steps \ {"idle", "reconcile"} :
          /\ pc' = [pc EXCEPT ![a] = s]
          /\ pc[a] \notin {"idle", "reconcile"}
    BY <1>3 DEF Step, Guard, Preflight, Reserve, Recheck, RecheckPasses, RecheckFails, Commit,
       Settle, Release, Terminal, Refuse, Steps
  <2>3. Writers(h)' = Writers(h)
    BY <2>1, <2>2 DEF Writers, TypeOK, CallType
  <2>4. QED BY <2>1, <2>3 DEF SameSlots
<1>4. QED BY <1>2, <1>3

LEMMA EntrySlots ==
  ASSUME TypeOK, NEW a \in Attempts, NEW g \in Handles, NEW i \in Intents, Entry(a, g, i),
         NEW h \in Handles
  PROVE  SameSlots(h) \/ TakesSlot(h)
<1>1. /\ pc \in [Attempts -> Steps] /\ handle \in [Attempts -> Handles \cup {None}]
      /\ concurrent \in [Handles -> Int]
  BY DEF TypeOK, CallType, HandleType
<1>2. a \notin Writers(h) /\ handle' = [handle EXCEPT ![a] = g]
  BY DEF Entry, Call, Reconcile, Writers
<1>3. CASE Reconcile(a, g, i)
  <2>1. Writers(h)' = Writers(h)
    BY <1>1, <1>2, <1>3 DEF Reconcile, Writers
  <2>2. QED BY <1>3, <2>1 DEF Reconcile, SameSlots
<1>4. CASE Call(a, g, i) /\ g # h
  <2>1. Writers(h)' = Writers(h)
    BY <1>1, <1>2, <1>4 DEF Call, Writers
  <2>2. QED BY <1>1, <1>4, <2>1 DEF Call, SameSlots
<1>5. CASE Call(a, g, i) /\ g = h
  <2>1. Writers(h)' = Writers(h) \cup {a}
    BY <1>1, <1>2, <1>5 DEF Call, Writers
  <2>2. QED BY <1>1, <1>2, <1>5, <2>1 DEF Call, TakesSlot
<1>6. QED BY <1>3, <1>4, <1>5 DEF Entry

LEMMA SlotStep ==
  ASSUME TypeOK, [Next]_vars, NEW h \in Handles
  PROVE  SameSlots(h) \/ TakesSlot(h) \/ FreesSlot(h) \/ LosesSlots(h)
<1>1. CASE UNCHANGED <<pc, handle, concurrent>>
  BY <1>1 DEF SameSlots, Writers
<1>2. ASSUME NEW g \in Handles, Restart(g) PROVE SameSlots(h) \/ LosesSlots(h)
  <2>1. /\ pc' = [a \in Attempts |-> IF handle[a] = g THEN "idle" ELSE pc[a]]
        /\ handle' = [a \in Attempts |-> IF handle[a] = g THEN None ELSE handle[a]]
    BY <1>2 DEF Restart
  <2>2. Writers(h)' = IF g = h THEN {} ELSE Writers(h)
    BY <2>1 DEF Writers
  <2>3. concurrent'[h] = IF g = h THEN 0 ELSE concurrent[h]
    BY <1>2 DEF Restart, TypeOK, HandleType
  <2>4. QED BY <2>2, <2>3 DEF SameSlots, LosesSlots
<1>3. Environment => (\E g \in Handles : Restart(g)) \/ UNCHANGED <<pc, handle, concurrent>>
  BY DEF Environment, ReadOnlyCall, BindSession, AcknowledgeEvent, ReconcileUnknown, Clock,
     SwitchProvider, call
<1>4. QED BY <1>1, <1>2, <1>3, StepSlots, EntrySlots DEF Next, vars

LEMMA SlotsInvStep ==
  ASSUME TypeOK, SlotsInv, [Next]_vars
  PROVE  SlotsInv'
<1> SUFFICES ASSUME NEW h \in Handles
             PROVE  /\ IsFiniteSet(Writers(h)')
                    /\ concurrent'[h] = Cardinality(Writers(h)')
                    /\ concurrent'[h] <= MaxConcurrent
  BY DEF SlotsInv
<1>1. /\ IsFiniteSet(Writers(h)) /\ concurrent[h] = Cardinality(Writers(h))
      /\ concurrent[h] <= MaxConcurrent
  BY DEF SlotsInv
<1>2. concurrent[h] \in Nat /\ MaxConcurrent \in Nat
  BY <1>1, FS_CardinalityType, DirectoryAssumption
<1>3. CASE SameSlots(h)
  BY <1>1, <1>3 DEF SameSlots
<1>4. CASE TakesSlot(h)
  BY <1>1, <1>2, <1>4, FS_AddElement DEF TakesSlot
<1>5. CASE FreesSlot(h)
  BY <1>1, <1>2, <1>5, FS_RemoveElement DEF FreesSlot
<1>6. CASE LosesSlots(h)
  BY <1>2, <1>6, FS_EmptySet DEF LosesSlots
<1>7. QED BY <1>3, <1>4, <1>5, <1>6, SlotStep

(* A handle's counter is exactly its running writers, and never above the  *)
(* limit: whichever way a call ends, its slot is given back once           *)
(* (SlotsExact).                                                           *)
THEOREM SlotsAreExact == Spec => []SlotsExact
<1>1. Init => SlotsInv
  <2>1. SUFFICES ASSUME Init, NEW h \in Handles PROVE Writers(h) = {} /\ concurrent[h] = 0
    BY <2>1, FS_EmptySet, DirectoryAssumption DEF SlotsInv
  <2>2. QED BY <2>1 DEF Init, Writers
<1>2. TypeOK /\ SlotsInv /\ [Next]_vars => TypeOK' /\ SlotsInv'
  BY NextType, SlotsInvStep
<1>3. SlotsInv => SlotsExact
  BY DEF SlotsInv, SlotsExact, Writers
<1>4. QED BY <1>1, <1>2, <1>3, InitType, PTL DEF Spec

-------------------------------------------------------------------------------
(* The five row classes.  A commit adds at most one row to each of them.   *)

Linked == {i \in Identities : row[i] # None}
Known == {acc \in Accounts : rev[acc] > 0}
Received == {c \in Commands : receipt[c] # None}
Spent == {k \in Consents : consumed[k] # None}
Announced == {c \in Commands : event[c] # "none"}

FiniteStore ==
  /\ IsFiniteSet(Linked) /\ IsFiniteSet(Known) /\ IsFiniteSet(Received)
  /\ IsFiniteSet(Spent) /\ IsFiniteSet(Announced)

LEMMA Grows ==
  ASSUME NEW S, NEW T, NEW x, IsFiniteSet(S), T \subseteq S \cup {x}
  PROVE  /\ IsFiniteSet(T) /\ Cardinality(T) \in Nat /\ Cardinality(S) \in Nat
         /\ Cardinality(T) <= Cardinality(S) + 1
         /\ x \in T /\ x \notin S /\ S \subseteq T => Cardinality(T) = Cardinality(S) + 1
<1>0. Cardinality(S) \in Nat
  BY FS_CardinalityType
<1>1. /\ IsFiniteSet(S \cup {x})
      /\ Cardinality(S \cup {x}) <= Cardinality(S) + 1
      /\ x \notin S => Cardinality(S \cup {x}) = Cardinality(S) + 1
  <2>1. /\ IsFiniteSet(S \cup {x})
        /\ Cardinality(S \cup {x}) = IF x \in S THEN Cardinality(S) ELSE Cardinality(S) + 1
    BY FS_AddElement
  <2>2. QED BY <1>0, <2>1
<1>2. IsFiniteSet(T) /\ Cardinality(T) <= Cardinality(S \cup {x})
  BY <1>1, FS_Subset
<1>3. Cardinality(T) \in Nat /\ Cardinality(S \cup {x}) \in Nat
  BY <1>1, <1>2, FS_CardinalityType
<1>4. CASE x \in T /\ x \notin S /\ S \subseteq T
  <2>1. T = S \cup {x}
    BY <1>4
  <2>2. QED BY <1>0, <1>1, <1>2, <1>3, <1>4, <2>1
<1>5. CASE ~(x \in T /\ x \notin S /\ S \subseteq T)
  <2>1. Cardinality(T) <= Cardinality(S) + 1
    BY <1>0, <1>1, <1>2, <1>3
  <2>2. QED BY <1>0, <1>2, <1>3, <1>5, <2>1
<1>6. QED BY <1>4, <1>5

(* A commit writes one row of each class, for a command and with a consent *)
(* that had none.                                                          *)
LEMMA CommitWrites ==
  ASSUME TypeOK, NEW a \in Attempts, Commits(a), NEW i \in Intents, i = intent[a]
  PROVE  /\ i.cmd \in Commands /\ i.consent \in Consents /\ i.account \in Accounts
         /\ i.target \in Identities
         /\ receipt[i.cmd] = None /\ consumed[i.consent] = None
         /\ receipt'[i.cmd] = [digest |-> Digest(i), revision |-> rev[i.account] + 1]
         /\ receipt'[i.cmd] # None
         /\ consumed'[i.consent] = i.cmd /\ event'[i.cmd] = "pending"
         /\ \A c \in Commands \ {i.cmd} : receipt'[c] = receipt[c] /\ event'[c] = event[c]
         /\ \A k \in Consents \ {i.consent} : consumed'[k] = consumed[k]
<1>1. /\ i.cmd \in Commands /\ i.consent \in Consents /\ i.account \in Accounts
      /\ i.target \in Identities
  BY IntentParts DEF Commits
<1>2. rev[i.account] = plan[a].rev /\ rev[i.account] \in Nat
  BY <1>1, CommitRows DEF TypeOK, StoreType
<1>3. [digest |-> Digest(i), revision |-> rev[i.account] + 1] \in Receipts
  <2>1. Digest(i) \in Digests
    BY DirectoryAssumption DEF Digest, Digests
  <2>2. QED BY <1>2, <2>1 DEF Receipts
<1>4. /\ receipt[i.cmd] = None /\ consumed[i.consent] = None
      /\ receipt' = [receipt EXCEPT ![i.cmd] =
                       [digest |-> Digest(i), revision |-> rev[i.account] + 1]]
      /\ consumed' = [consumed EXCEPT ![i.consent] = i.cmd]
      /\ event' = [event EXCEPT ![i.cmd] = "pending"]
  BY <1>2 DEF Commits, Write, Writable, Admits
<1>5. /\ receipt \in [Commands -> Receipts \cup {None}]
      /\ consumed \in [Consents -> Commands \cup {None}]
      /\ event \in [Commands -> {"none", "pending", "acknowledged"}]
  BY DEF TypeOK, StoreType
<1>6. receipt'[i.cmd] = [digest |-> Digest(i), revision |-> rev[i.account] + 1]
  BY <1>1, <1>4, <1>5
<1>7. receipt'[i.cmd] # None
  BY <1>3, <1>6, DirectoryAssumption
<1>8. QED BY <1>1, <1>4, <1>5, <1>6, <1>7

(* The sets a commit changes, and those it does not.                       *)
LEMMA CommitGrows ==
  ASSUME TypeOK, NEW a \in Attempts, Commits(a), NEW i \in Intents, i = intent[a]
  PROVE  /\ Linked' \subseteq Linked \cup {i.target}
         /\ Known' \subseteq Known \cup {i.account}
         /\ Received' = Received \cup {i.cmd} /\ i.cmd \notin Received
         /\ Spent' \subseteq Spent \cup {i.consent}
         /\ Announced' \subseteq Announced \cup {i.cmd}
         /\ Pending' \subseteq Pending \cup {i.cmd}
<1>1. /\ i.cmd \in Commands /\ i.consent \in Consents /\ i.account \in Accounts
      /\ i.target \in Identities
      /\ receipt[i.cmd] = None /\ receipt'[i.cmd] # None
  BY CommitWrites
<1>2. /\ \A c \in Commands \ {i.cmd} : receipt'[c] = receipt[c] /\ event'[c] = event[c]
      /\ \A k \in Consents \ {i.consent} : consumed'[k] = consumed[k]
  BY CommitWrites
<1>3. /\ \A id \in Identities \ {i.target} : row'[id] = row[id]
      /\ \A acc \in Accounts \ {i.account} : rev'[acc] = rev[acc]
  BY <1>1, CommitRows DEF TypeOK, StoreType
<1>4. QED
  BY <1>1, <1>2, <1>3 DEF Linked, Known, Received, Spent, Announced, Pending

(* An acknowledgement takes an event from the pending ones, and no more.   *)
LEMMA OtherRows ==
  ASSUME TypeOK, UNCHANGED store \/ \E c \in Commands : AcknowledgeEvent(c)
  PROVE  /\ UNCHANGED <<row, rev, receipt, consumed>>
         /\ Linked' = Linked /\ Known' = Known /\ Received' = Received /\ Spent' = Spent
         /\ Announced' = Announced /\ Pending' \subseteq Pending
<1>1. UNCHANGED <<row, rev, receipt, consumed>>
  BY DEF AcknowledgeEvent, store
<1>2. \A c \in Commands : \/ event'[c] = event[c]
                          \/ event[c] = "pending" /\ event'[c] = "acknowledged"
  <2>1. CASE UNCHANGED store
    <3>1. event' = event
      BY <2>1 DEF store
    <3>2. QED BY <3>1
  <2>2. ASSUME NEW d \in Commands, AcknowledgeEvent(d), NEW c \in Commands
        PROVE  \/ event'[c] = event[c]
               \/ event[c] = "pending" /\ event'[c] = "acknowledged"
    <3>1. event \in [Commands -> {"none", "pending", "acknowledged"}]
      BY DEF TypeOK, StoreType
    <3>2. event[d] = "pending" /\ event' = [event EXCEPT ![d] = "acknowledged"]
      BY <2>2 DEF AcknowledgeEvent
    <3>3. QED BY <3>1, <3>2
  <2>3. QED BY <2>1, <2>2
<1>3. Announced' = Announced /\ Pending' \subseteq Pending
  BY <1>2 DEF Announced, Pending
<1>4. QED BY <1>1, <1>3 DEF Linked, Known, Received, Spent

LEMMA FiniteInit == Init => FiniteStore /\ RowCount = 0
<1>1. Init => Linked = {} /\ Known = {} /\ Received = {} /\ Spent = {} /\ Announced = {}
  BY DEF Init, Linked, Known, Received, Spent, Announced
<1>2. RowCount = Cardinality(Linked) + Cardinality(Known) + Cardinality(Received)
                 + Cardinality(Spent) + Cardinality(Announced)
  BY DEF RowCount, Linked, Known, Received, Spent, Announced
<1>3. QED BY <1>1, <1>2, FS_EmptySet DEF FiniteStore

LEMMA FiniteStep ==
  ASSUME TypeOK, FiniteStore, [Next]_vars
  PROVE  FiniteStore'
<1>1. CASE UNCHANGED store \/ \E c \in Commands : AcknowledgeEvent(c)
  BY <1>1, OtherRows DEF FiniteStore
<1>2. ASSUME NEW a \in Attempts, Commits(a) PROVE FiniteStore'
  <2>1. PICK i \in Intents : i = intent[a]
    BY <1>2, IntentParts DEF Commits
  <2>2. /\ Linked' \subseteq Linked \cup {i.target}
        /\ Known' \subseteq Known \cup {i.account}
        /\ Received' \subseteq Received \cup {i.cmd}
        /\ Spent' \subseteq Spent \cup {i.consent}
        /\ Announced' \subseteq Announced \cup {i.cmd}
    BY <1>2, <2>1, CommitGrows
  <2>3. IsFiniteSet(Linked') /\ IsFiniteSet(Known')
    BY <2>2, Grows DEF FiniteStore
  <2>4. IsFiniteSet(Received') /\ IsFiniteSet(Spent') /\ IsFiniteSet(Announced')
    BY <2>2, Grows DEF FiniteStore
  <2>5. QED BY <2>3, <2>4 DEF FiniteStore
<1>3. QED BY <1>1, <1>2, WriteStep

-------------------------------------------------------------------------------
(* Atomicity.  LedgerAtomic is inductive once the receipts can be counted. *)

LEMMA ReceiptsFinite ==
  ASSUME FiniteStore, NEW acc \in Accounts
  PROVE  IsFiniteSet(ReceiptsOf(acc)) /\ Cardinality(ReceiptsOf(acc)) \in Nat
<1>1. ReceiptsOf(acc) \subseteq Received
  BY DEF ReceiptsOf, Received
<1>2. QED BY <1>1, FS_Subset, FS_CardinalityType DEF FiniteStore

(* A commit adds its receipt to those of its own account, no other.        *)
LEMMA CommitReceipts ==
  ASSUME TypeOK, FiniteStore, NEW a \in Attempts, Commits(a), NEW i \in Intents,
         i = intent[a], NEW acc \in Accounts
  PROVE  /\ acc = i.account => Cardinality(ReceiptsOf(acc)') = Cardinality(ReceiptsOf(acc)) + 1
         /\ acc # i.account => ReceiptsOf(acc)' = ReceiptsOf(acc)
<1>1. /\ i.cmd \in Commands /\ receipt[i.cmd] = None /\ receipt'[i.cmd] # None
      /\ receipt'[i.cmd].digest.account = i.account
      /\ \A c \in Commands \ {i.cmd} : receipt'[c] = receipt[c]
  <2>1. receipt'[i.cmd] = [digest |-> Digest(i), revision |-> rev[i.account] + 1]
    BY CommitWrites
  <2>2. receipt'[i.cmd].digest.account = i.account
    BY <2>1 DEF Digest
  <2>3. QED BY <2>2, CommitWrites
<1>2. i.cmd \notin ReceiptsOf(acc)
  BY <1>1 DEF ReceiptsOf
<1>3. ReceiptsOf(acc)' = IF acc = i.account THEN ReceiptsOf(acc) \cup {i.cmd} ELSE ReceiptsOf(acc)
  BY <1>1 DEF ReceiptsOf
<1>4. QED BY <1>2, <1>3, ReceiptsFinite, FS_AddElement

LEMMA LedgerCommit ==
  ASSUME TypeOK, FiniteStore, LedgerAtomic, NEW a \in Attempts, Commits(a),
         NEW i \in Intents, i = intent[a]
  PROVE  LedgerAtomic'
<1>1. /\ i.cmd \in Commands /\ i.consent \in Consents /\ i.account \in Accounts
      /\ receipt[i.cmd] = None /\ consumed[i.consent] = None
      /\ receipt'[i.cmd] # None /\ receipt'[i.cmd].digest.consent = i.consent
      /\ receipt'[i.cmd].digest.account = i.account
      /\ receipt'[i.cmd].revision = rev[i.account] + 1
      /\ consumed'[i.consent] = i.cmd /\ event'[i.cmd] = "pending"
  <2>1. receipt'[i.cmd] = [digest |-> Digest(i), revision |-> rev[i.account] + 1]
    BY CommitWrites
  <2>2. /\ receipt'[i.cmd].digest.consent = i.consent
        /\ receipt'[i.cmd].digest.account = i.account
        /\ receipt'[i.cmd].revision = rev[i.account] + 1
    BY <2>1 DEF Digest
  <2>3. QED BY <2>2, CommitWrites
<1>2. /\ \A c \in Commands \ {i.cmd} : receipt'[c] = receipt[c] /\ event'[c] = event[c]
      /\ \A k \in Consents \ {i.consent} : consumed'[k] = consumed[k]
  BY CommitWrites
<1>3. /\ \A acc \in Accounts : rev[acc] \in Nat
      /\ \A acc \in Accounts :
           rev'[acc] = IF acc = i.account THEN rev[acc] + 1 ELSE rev[acc]
  BY <1>1, CommitRows DEF TypeOK, StoreType
<1>4. ASSUME NEW c \in Commands, receipt[c] # None
      PROVE  /\ c # i.cmd /\ receipt[c].digest.consent \in Consents \ {i.consent}
             /\ receipt[c].digest.account \in Accounts
             /\ receipt[c].revision \in 1 .. rev[receipt[c].digest.account]
  <2>1. receipt[c] \in Receipts
    BY <1>4 DEF TypeOK, StoreType
  <2>2. consumed[receipt[c].digest.consent] = c /\ c # None
    BY <1>4, DirectoryAssumption DEF LedgerAtomic
  <2>3. QED BY <1>1, <1>4, <2>1, <2>2 DEF Receipts, Digests, LedgerAtomic
<1>5. ASSUME NEW c \in Commands
      PROVE  /\ receipt'[c] # None <=> event'[c] # "none"
             /\ receipt'[c] # None =>
                  /\ consumed'[receipt'[c].digest.consent] = c
                  /\ receipt'[c].revision \in 1 .. rev'[receipt'[c].digest.account]
  <2>1. CASE c = i.cmd
    BY <1>1, <1>3, <2>1
  <2>2. CASE c # i.cmd
    BY <1>2, <1>3, <1>4, <2>2 DEF LedgerAtomic
  <2>3. QED BY <2>1, <2>2
<1>6. ASSUME NEW k \in Consents, consumed'[k] # None
      PROVE  receipt'[consumed'[k]] # None /\ receipt'[consumed'[k]].digest.consent = k
  <2>1. CASE k = i.consent
    BY <1>1, <2>1
  <2>2. CASE k # i.consent
    <3>1. /\ consumed'[k] = consumed[k] /\ consumed[k] \in Commands
          /\ receipt[consumed[k]] # None /\ receipt[consumed[k]].digest.consent = k
      BY <1>2, <1>6, <2>2 DEF LedgerAtomic, TypeOK, StoreType
    <3>2. QED BY <1>2, <1>4, <3>1
  <2>3. QED BY <2>1, <2>2
<1>7. ASSUME NEW c \in Commands, NEW d \in Commands, receipt'[c] # None, receipt'[d] # None,
             c # d, receipt'[c].digest.account = receipt'[d].digest.account
      PROVE  receipt'[c].revision # receipt'[d].revision
  <2>1. ASSUME NEW x \in Commands, receipt'[x] # None, x # i.cmd,
               receipt'[x].digest.account = i.account
        PROVE  receipt'[x].revision # rev[i.account] + 1
    BY <1>1, <1>2, <1>3, <1>4, <2>1
  <2>2. CASE c = i.cmd \/ d = i.cmd
    BY <1>1, <1>7, <2>1, <2>2
  <2>3. CASE c # i.cmd /\ d # i.cmd
    BY <1>2, <1>7, <2>3 DEF LedgerAtomic
  <2>4. QED BY <2>2, <2>3
<1>8. ASSUME NEW acc \in Accounts PROVE rev'[acc] = Cardinality(ReceiptsOf(acc)')
  BY <1>3, CommitReceipts DEF LedgerAtomic
<1>9. QED BY <1>5, <1>6, <1>7, <1>8 DEF LedgerAtomic

LEMMA LedgerAtomicStep ==
  ASSUME TypeOK, FiniteStore, LedgerAtomic, [Next]_vars
  PROVE  LedgerAtomic'
<1>1. CASE UNCHANGED store \/ \E c \in Commands : AcknowledgeEvent(c)
  <2>1. /\ UNCHANGED <<row, rev, receipt, consumed>>
        /\ \A c \in Commands : event'[c] # "none" <=> event[c] # "none"
    BY <1>1, OtherRows DEF Announced
  <2>2. \A acc \in Accounts : ReceiptsOf(acc)' = ReceiptsOf(acc)
    BY <2>1 DEF ReceiptsOf
  <2>3. QED BY <2>1, <2>2 DEF LedgerAtomic
<1>2. ASSUME NEW a \in Attempts, Commits(a) PROVE LedgerAtomic'
  <2>1. PICK i \in Intents : i = intent[a]
    BY <1>2, IntentParts DEF Commits
  <2>2. QED BY <1>2, <2>1, LedgerCommit
<1>3. QED BY <1>1, <1>2, WriteStep

(* The rows of a command are all there or none of them, its consent is     *)
(* spent on it alone, and an account's revision is the number of commands  *)
(* that changed it (LedgerAtomic).                                         *)
THEOREM LedgerIsAtomic == Spec => []LedgerAtomic
<1>1. Init => LedgerAtomic
  <2>1. Init => \A acc \in Accounts : ReceiptsOf(acc) = {}
    BY DEF Init, ReceiptsOf
  <2>2. Init => \A acc \in Accounts : rev[acc] = Cardinality(ReceiptsOf(acc))
    BY <2>1, FS_EmptySet DEF Init
  <2>3. Init => /\ \A c \in Commands : receipt[c] = None /\ event[c] = "none"
                /\ \A k \in Consents : consumed[k] = None
    BY DEF Init
  <2>4. QED BY <2>2, <2>3 DEF LedgerAtomic
<1>2. TypeOK /\ FiniteStore /\ LedgerAtomic /\ [Next]_vars
        => TypeOK' /\ FiniteStore' /\ LedgerAtomic'
  BY NextType, FiniteStep, LedgerAtomicStep
<1>3. QED BY <1>1, <1>2, InitType, FiniteInit, PTL DEF Spec

-------------------------------------------------------------------------------
(* The limits.  The check and the writes are in one transaction, so what   *)
(* the headroom promised is still true of the rows it leaves.              *)

LEMMA CommitLimits ==
  ASSUME TypeOK, FiniteStore, WithinLimits, NEW a \in Attempts, Commits(a),
         NEW i \in Intents, i = intent[a]
  PROVE  WithinLimits'
<1>1. Headroom(i) /\ TargetFree(i)
  BY DEF Commits, Writable, Admits
<1>2. {MaxLinks, MaxCommands, MaxPending, MaxRows} \subseteq Nat
  BY DirectoryAssumption
<1>3. RowCount' <= MaxRows
  <2> DEFINE OneMore(S, T) == /\ Cardinality(T) <= Cardinality(S) + 1
                              /\ Cardinality(S) \in Nat /\ Cardinality(T) \in Nat
  <2>1. OneMore(Linked, Linked') /\ OneMore(Known, Known')
    <3>1. Linked' \subseteq Linked \cup {i.target} /\ Known' \subseteq Known \cup {i.account}
      BY CommitGrows
    <3>2. QED BY <3>1, Grows DEF FiniteStore
  <2>2. OneMore(Received, Received') /\ OneMore(Spent, Spent') /\ OneMore(Announced, Announced')
    <3>1. /\ Received' \subseteq Received \cup {i.cmd} /\ Spent' \subseteq Spent \cup {i.consent}
          /\ Announced' \subseteq Announced \cup {i.cmd}
      BY CommitGrows
    <3>2. QED BY <3>1, Grows DEF FiniteStore
  <2>3. RowCount = Cardinality(Linked) + Cardinality(Known) + Cardinality(Received)
                   + Cardinality(Spent) + Cardinality(Announced)
    BY DEF RowCount, Linked, Known, Received, Spent, Announced
  <2>4. RowCount' = Cardinality(Linked') + Cardinality(Known') + Cardinality(Received')
                    + Cardinality(Spent') + Cardinality(Announced')
    BY DEF RowCount, Linked, Known, Received, Spent, Announced
  <2>5. RowCount + 5 <= MaxRows
    BY <1>1 DEF Headroom
  <2>6. QED BY <1>2, <2>1, <2>2, <2>3, <2>4, <2>5
<1>4. Cardinality(Pending') <= MaxPending
  <2>1. IsFiniteSet(Pending)
    <3>1. Pending \subseteq Announced
      BY DEF Pending, Announced
    <3>2. QED BY <3>1, FS_Subset DEF FiniteStore
  <2>2. /\ Cardinality(Pending') <= Cardinality(Pending) + 1
        /\ Cardinality(Pending') \in Nat /\ Cardinality(Pending) \in Nat
    BY <2>1, CommitGrows, Grows
  <2>3. QED BY <1>1, <1>2, <2>2 DEF Headroom
<1>5. ASSUME NEW acc \in Accounts PROVE Cardinality(LinksOf(acc)') <= MaxLinks
  <2>1. /\ row' = [row EXCEPT ![i.target] = NewRow(a)] /\ NewRow(a).account = i.account
        /\ i.target \in Identities /\ row \in [Identities -> Rows \cup {None}]
        /\ row[i.target] # None => row[i.target].account = i.account
    BY CommitRows, CommitWrites DEF NewRow, TypeOK, StoreType
  <2>2. \A id \in Identities : row'[id] = IF id = i.target THEN NewRow(a) ELSE row[id]
    BY <2>1
  <2>3. IsFiniteSet(LinksOf(acc))
    <3>1. LinksOf(acc) \subseteq Linked
      BY DEF LinksOf, Linked
    <3>2. QED BY <3>1, FS_Subset DEF FiniteStore
  <2>4. CASE acc # i.account \/ row[i.target] # None
    <3>1. LinksOf(acc)' \subseteq LinksOf(acc)
      BY <2>1, <2>2, <2>4 DEF LinksOf
    <3>2. Cardinality(LinksOf(acc)') <= Cardinality(LinksOf(acc))
      BY <2>3, <3>1, FS_Subset
    <3>3. Cardinality(LinksOf(acc)') \in Nat /\ Cardinality(LinksOf(acc)) \in Nat
      BY <2>3, <3>1, FS_Subset, FS_CardinalityType
    <3>4. QED BY <1>2, <3>2, <3>3 DEF WithinLimits
  <2>5. CASE acc = i.account /\ row[i.target] = None
    <3>1. LinksOf(acc)' \subseteq LinksOf(acc) \cup {i.target}
      BY <2>2 DEF LinksOf
    <3>2. /\ Cardinality(LinksOf(acc)') <= Cardinality(LinksOf(acc)) + 1
          /\ Cardinality(LinksOf(acc)') \in Nat /\ Cardinality(LinksOf(acc)) \in Nat
      BY <2>3, <3>1, Grows
    <3>3. Cardinality(LinksOf(acc)) < MaxLinks
      BY <1>1, <2>5 DEF Headroom
    <3>4. QED BY <1>2, <3>2, <3>3
  <2>6. QED BY <2>4, <2>5
<1>6. ASSUME NEW acc \in Accounts PROVE Cardinality(ReceiptsOf(acc)') <= MaxCommands
  <2>1. Cardinality(ReceiptsOf(acc)) \in Nat
    BY ReceiptsFinite
  <2>2. acc = i.account => Cardinality(ReceiptsOf(acc)) < MaxCommands
    BY <1>1 DEF Headroom
  <2>3. QED BY <1>2, <2>1, <2>2, CommitReceipts DEF WithinLimits
<1>7. QED BY <1>3, <1>4, <1>5, <1>6 DEF WithinLimits

LEMMA LimitsStep ==
  ASSUME TypeOK, FiniteStore, WithinLimits, [Next]_vars
  PROVE  WithinLimits'
<1>1. CASE UNCHANGED store \/ \E c \in Commands : AcknowledgeEvent(c)
  <2>1. RowCount' = RowCount
    BY <1>1, OtherRows DEF RowCount, Linked, Known, Received, Spent, Announced
  <2>2. \A acc \in Accounts : LinksOf(acc)' = LinksOf(acc) /\ ReceiptsOf(acc)' = ReceiptsOf(acc)
    BY <1>1, OtherRows DEF LinksOf, ReceiptsOf
  <2>3. Cardinality(Pending') <= MaxPending
    <3>1. Pending \subseteq Announced
      BY DEF Pending, Announced
    <3>2. /\ Cardinality(Pending') <= Cardinality(Pending)
          /\ IsFiniteSet(Pending) /\ IsFiniteSet(Pending')
      BY <1>1, <3>1, OtherRows, FS_Subset DEF FiniteStore
    <3>3. Cardinality(Pending') \in Nat /\ Cardinality(Pending) \in Nat
      BY <3>2, FS_CardinalityType
    <3>4. QED BY <3>2, <3>3, DirectoryAssumption DEF WithinLimits
  <2>4. QED BY <2>1, <2>2, <2>3 DEF WithinLimits
<1>2. ASSUME NEW a \in Attempts, Commits(a) PROVE WithinLimits'
  <2>1. PICK i \in Intents : i = intent[a]
    BY <1>2, IntentParts DEF Commits
  <2>2. QED BY <1>2, <2>1, CommitLimits
<1>3. QED BY <1>1, <1>2, WriteStep

(* The namespace never outgrows its limits, whatever calls race past the   *)
(* first check (WithinLimits).                                             *)
THEOREM LimitsHold == Spec => []WithinLimits
<1>1. Init => WithinLimits
  <2>1. Init => /\ Pending = {}
                /\ \A acc \in Accounts : LinksOf(acc) = {} /\ ReceiptsOf(acc) = {}
    BY DEF Init, Pending, LinksOf, ReceiptsOf
  <2>2. Init => /\ Cardinality(Pending) = 0
                /\ \A acc \in Accounts : /\ Cardinality(LinksOf(acc)) = 0
                                         /\ Cardinality(ReceiptsOf(acc)) = 0
    BY <2>1, FS_EmptySet
  <2>3. QED BY <2>2, FiniteInit, DirectoryAssumption DEF WithinLimits
<1>2. TypeOK /\ FiniteStore /\ WithinLimits /\ [Next]_vars
        => TypeOK' /\ FiniteStore' /\ WithinLimits'
  BY NextType, FiniteStep, LimitsStep
<1>3. QED BY <1>1, <1>2, InitType, FiniteInit, PTL DEF Spec

===============================================================================
