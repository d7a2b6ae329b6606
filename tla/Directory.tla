------------------------------- MODULE Directory -------------------------------
(***************************************************************************)
(* The identity directory of packages/auth: the facade that                *)
(* createIdentityDirectory returns, run by several handles (processes)     *)
(* over one store and one capacity ledger.  A call is a sequence of steps  *)
(* separated by the awaits of the code: everything read in one step may    *)
(* be stale in the next.  Store transactions are serialised, so each one   *)
(* is a single step; its reply may still be lost.                          *)
(*                                                                         *)
(* A linkId is drawn once per identity row and never changes, so the       *)
(* identity stands for it.  Proofs, consent and authority are answered by  *)
(* the host: any of these checks may refuse, whatever the state.           *)
(***************************************************************************)
EXTENDS Integers, FiniteSets

CONSTANTS
  Handles,        \* live facades over the one namespace
  Attempts,       \* calls that may be in flight at once
  Commands,       \* command identifiers the host issued
  Identities,     \* (issuer, subject) pairs
  Accounts,       \* host accounts
  Sessions,       \* login sessions
  Consents,       \* approval and consent identifiers
  Providers,      \* login providers
  ProviderOf,     \* [Identities -> Providers], the canonical route
  Intents,        \* what callers ask for
  IssuedAt,       \* [Commands -> Nat], the time inside a command identifier
  Window,         \* replayWindowMs
  MaxConcurrent, MaxLinks, MaxCommands, MaxPending, MaxRows,  \* the limits
  MaxTime,        \* bound: the last instant of the host's clock
  Faults,         \* bound: what may go wrong in this instance
  Overlap,        \* may two calls for one command be in flight together?
  None            \* an absent row, plan or value

Actions == {"provision", "link", "unlink"}
Statuses == {"active", "unlinked"}

(* The rows of the store, and what a session or a call remembers of them. *)
Rows == [account : Accounts, status : Statuses, gen : Nat \ {0}]
Digests == [account : Accounts, action : Actions, target : Identities, consent : Consents]
Receipts == [digest : Digests, revision : Nat]
Bindings == [target : Identities, account : Accounts, gen : Nat \ {0}]
Reservations == [state : {"none", "held", "settled", "released"}, digest : Digests \cup {None}]
Plans == [row : Rows \cup {None}, rev : Nat, others : SUBSET Identities]

ASSUME DirectoryAssumption ==
  /\ None \notin Intents \cup Rows \cup Receipts \cup Bindings \cup Plans \cup Commands
  /\ ProviderOf \in [Identities -> Providers]
  /\ Intents \subseteq [cmd : Commands, action : Actions, account : Accounts,
                        target : Identities, session : Sessions, consent : Consents]
  /\ IssuedAt \in [Commands -> Nat]
  /\ {Window, MaxConcurrent, MaxLinks, MaxCommands, MaxPending, MaxRows, MaxTime}
       \subseteq Nat
  /\ Faults \subseteq {"unknown", "lost", "restart", "clock", "provider"}
  /\ Overlap \in BOOLEAN

VARIABLES
  \* the store: one namespace, five row classes
  row, rev, receipt, consumed, event,
  \* the host: capacity ledger, clock, provider switches, session bindings
  reservation, now, enabled, binding,
  \* each handle's closure variables
  fenced, lastTime, concurrent,
  \* each call's local variables
  pc, handle, intent, actorRev, plan, checkError, usable

store == <<row, rev, receipt, consumed, event>>
host == <<now, enabled, binding>>
call == <<handle, intent, actorRev, plan, checkError, usable>>
vars == <<row, rev, receipt, consumed, event, reservation, now, enabled, binding,
          fenced, lastTime, concurrent, pc, handle, intent, actorRev, plan,
          checkError, usable>>

Steps == {"idle", "guard", "preflight", "reserve", "recheck", "commit", "settle",
          "release", "reconcile"}
Planned == {"reserve", "recheck", "commit"}   \* the steps that work from a plan

(* The part of an intent that intentDigest covers: the session is not in it. *)
Digest(i) == [account |-> i.account, action |-> i.action, target |-> i.target,
              consent |-> i.consent]

Init ==
  /\ row = [i \in Identities |-> None]
  /\ rev = [acc \in Accounts |-> 0]
  /\ receipt = [c \in Commands |-> None]
  /\ consumed = [k \in Consents |-> None]
  /\ event = [c \in Commands |-> "none"]
  /\ reservation = [c \in Commands |-> [state |-> "none", digest |-> None]]
  /\ now = 0
  /\ enabled = Providers
  /\ binding = [s \in Sessions |-> None]
  /\ fenced = [h \in Handles |-> FALSE]
  /\ lastTime = [h \in Handles |-> 0]
  /\ concurrent = [h \in Handles |-> 0]
  /\ pc = [a \in Attempts |-> "idle"]
  /\ handle = [a \in Attempts |-> None]
  /\ intent = [a \in Attempts |-> None]
  /\ actorRev = [a \in Attempts |-> 0]
  /\ plan = [a \in Attempts |-> None]
  /\ checkError = [a \in Attempts |-> FALSE]
  /\ usable = [a \in Attempts |-> {}]
-------------------------------------------------------------------------------
(* The clock. *)

(* time(): an observation that went backwards fences the handle. *)
Backward(h) == now < lastTime[h]

Observe(h) == ~Backward(h) /\ lastTime' = [lastTime EXCEPT ![h] = now]

(* horizon(): a command lives from the instant it names for the window. *)
Live(c) == IssuedAt[c] <= now /\ now < IssuedAt[c] + Window

-------------------------------------------------------------------------------
(* What a transaction reads. *)

LinksOf(acc) == {i \in Identities : row[i] # None /\ row[i].account = acc}

ActiveLinks(acc) == {i \in LinksOf(acc) : row[i].status = "active"}

(* actorRow(): the binding still names the row the session was issued for. *)
Current(s) ==
  /\ binding[s] # None
  /\ row[binding[s].target] # None
  /\ row[binding[s].target].status = "active"
  /\ row[binding[s].target].account = binding[s].account
  /\ row[binding[s].target].gen = binding[s].gen

ActorRow(i) ==
  i.action # "provision" => /\ Current(i.session)
                            /\ binding[i.session].account = i.account
                            /\ rev[i.account] > 0

Routed(id) == ProviderOf[id] \in enabled

(* guard(): the session's own route must be enabled as well. *)
Guarded(i) ==
  /\ ActorRow(i)
  /\ i.action # "provision" => Routed(binding[i.session].target)

RowCount ==
  Cardinality({i \in Identities : row[i] # None})
  + Cardinality({acc \in Accounts : rev[acc] > 0})
  + Cardinality({c \in Commands : receipt[c] # None})
  + Cardinality({k \in Consents : consumed[k] # None})
  + Cardinality({c \in Commands : event[c] # "none"})

Pending == {c \in Commands : event[c] = "pending"}

ReceiptsOf(acc) ==
  {c \in Commands : receipt[c] # None /\ receipt[c].digest.account = acc}

(* Mutant: the pending-event limit off by one. *)
HeadroomOffByOne(i) ==
  /\ RowCount + 5 <= MaxRows
  /\ row[i.target] = None => Cardinality(LinksOf(i.account)) < MaxLinks
  /\ Cardinality(ReceiptsOf(i.account)) < MaxCommands
  /\ Cardinality(Pending) <= MaxPending

Headroom(i) ==
  /\ RowCount + 5 <= MaxRows
  /\ Cardinality(LinksOf(i.account)) <= MaxLinks
  /\ row[i.target] = None => Cardinality(LinksOf(i.account)) < MaxLinks
  /\ Cardinality(ReceiptsOf(i.account)) < MaxCommands
  /\ Cardinality(Pending) < MaxPending

(* Mutant: linking does not look whose row it takes over. *)
TargetFreeForAll(i) ==
  \/ i.action = "unlink" /\ i.target \in ActiveLinks(i.account)
  \/ i.action # "unlink"

(* A link may be created, or taken back from the account's own tombstone;  *)
(* only an active link of the account may be unlinked.                     *)
TargetFree(i) ==
  \/ i.action = "unlink" /\ i.target \in ActiveLinks(i.account)
  \/ i.action # "unlink" /\ row[i.target] = None
  \/ /\ i.action = "link"
     /\ i.target \in LinksOf(i.account)
     /\ row[i.target].status = "unlinked"

Replays(i) ==
  /\ ActorRow(i)
  /\ receipt[i.cmd] # None
  /\ receipt[i.cmd].digest = Digest(i)

(* preflight() when it returns a plan for a new command. *)
Admits(a) ==
  LET i == intent[a] IN
  /\ ActorRow(i)
  /\ receipt[i.cmd] = None
  /\ TargetFree(i)
  /\ i.action # "provision" => rev[i.account] = actorRev[a]
  /\ consumed[i.consent] = None
  /\ Headroom(i)
-------------------------------------------------------------------------------
(* The end of a call. *)

(* Mutant: the slot is only given back when the handle is not fenced. *)
FinishLeakingSlot(a, fence) ==
  /\ pc' = [pc EXCEPT ![a] = "idle"]
  /\ fenced' = [fenced EXCEPT ![handle[a]] = fenced[handle[a]] \/ fence]
  /\ concurrent' = IF pc[a] = "reconcile" \/ fence THEN concurrent
                   ELSE [concurrent EXCEPT ![handle[a]] = concurrent[handle[a]] - 1]
  /\ handle' = [handle EXCEPT ![a] = None]
  /\ intent' = [intent EXCEPT ![a] = None]
  /\ actorRev' = [actorRev EXCEPT ![a] = 0]
  /\ plan' = [plan EXCEPT ![a] = None]
  /\ checkError' = [checkError EXCEPT ![a] = FALSE]
  /\ usable' = [usable EXCEPT ![a] = {}]

(* Every exit of a call: the error path may fence the handle, and write()  *)
(* gives its slot back.  A reconcile call never took one.                  *)
Finish(a, fence) ==
  /\ pc' = [pc EXCEPT ![a] = "idle"]
  /\ fenced' = [fenced EXCEPT ![handle[a]] = fenced[handle[a]] \/ fence]
  /\ concurrent' = IF pc[a] = "reconcile" THEN concurrent
                   ELSE [concurrent EXCEPT ![handle[a]] = concurrent[handle[a]] - 1]
  /\ handle' = [handle EXCEPT ![a] = None]
  /\ intent' = [intent EXCEPT ![a] = None]
  /\ actorRev' = [actorRev EXCEPT ![a] = 0]
  /\ plan' = [plan EXCEPT ![a] = None]
  /\ checkError' = [checkError EXCEPT ![a] = FALSE]
  /\ usable' = [usable EXCEPT ![a] = {}]

(* A step before the reservation may fail at any port.  It fences when its *)
(* transaction ends with an unknown outcome or its clock went backwards.   *)
MayFence(a) ==
  \/ "unknown" \in Faults /\ pc[a] \in {"guard", "preflight"}
  \/ Backward(handle[a]) /\ pc[a] \in {"guard", "reserve"}

Refuse(a) ==
  /\ \E fence \in {FALSE} \cup {MayFence(a)} : Finish(a, fence)
  /\ UNCHANGED <<store, reservation, host, lastTime>>
-------------------------------------------------------------------------------
(* One call of provision, link or unlink. *)

InFlight(c) == {a \in Attempts : pc[a] # "idle" /\ intent[a].cmd = c}

(* write(): a fenced handle or a full one refuses; then the horizon. *)
Call(a, h, i) ==
  /\ pc[a] = "idle"
  /\ Overlap \/ InFlight(i.cmd) = {}
  /\ ~fenced[h]
  /\ concurrent[h] < MaxConcurrent
  /\ Observe(h)
  /\ Live(i.cmd)
  /\ concurrent' = [concurrent EXCEPT ![h] = concurrent[h] + 1]
  /\ pc' = [pc EXCEPT ![a] = "guard"]
  /\ handle' = [handle EXCEPT ![a] = h]
  /\ intent' = [intent EXCEPT ![a] = i]
  /\ UNCHANGED <<store, reservation, host, fenced, actorRev, plan, checkError, usable>>

(* list, resolveIdentity, assertCurrentLink and every call that refuses    *)
(* before it holds a slot: they observe the clock, and fence the handle on *)
(* a backward clock or an unknown outcome of their read transaction.       *)
ReadOnlyCall(h) ==
  /\ \/ Observe(h) /\ UNCHANGED fenced
     \/ /\ Backward(h) \/ "unknown" \in Faults
        /\ fenced' = [fenced EXCEPT ![h] = TRUE]
        /\ UNCHANGED lastTime
  /\ UNCHANGED <<store, reservation, host, concurrent, pc, call>>

(* Session, current link, fresh proofs, authority and consent (link and    *)
(* unlink), or proof and approval (provision).  The account revision read  *)
(* here is the one every later check compares with.                        *)
Guard(a) ==
  /\ pc[a] = "guard"
  /\ \/ LET i == intent[a] IN
        /\ Guarded(i)
        /\ i.action # "unlink" => Routed(i.target)
        /\ i.action = "unlink" => i.target \in LinksOf(i.account)
        /\ Observe(handle[a])
        /\ actorRev' = [actorRev EXCEPT ![a] = rev[i.account]]
        /\ pc' = [pc EXCEPT ![a] = "preflight"]
        /\ UNCHANGED <<store, reservation, host, fenced, concurrent, handle, intent,
                       plan, checkError, usable>>
     \/ Refuse(a)

(* The first transaction of mutate(): replay a stored receipt or snapshot  *)
(* the rows the command will change.                                       *)
Preflight(a) ==
  /\ pc[a] = "preflight"
  /\ \/ /\ Replays(intent[a])
        /\ pc' = [pc EXCEPT ![a] = "settle"]
        /\ UNCHANGED plan
        /\ UNCHANGED <<store, reservation, host, fenced, lastTime, concurrent, handle,
                       intent, actorRev, checkError, usable>>
     \/ LET i == intent[a] IN
        /\ Admits(a)
        /\ plan' = [plan EXCEPT ![a] =
                      [row |-> row[i.target], rev |-> rev[i.account],
                       others |-> ActiveLinks(i.account) \ {i.target}]]
        /\ pc' = [pc EXCEPT ![a] = "reserve"]
        /\ UNCHANGED <<store, reservation, host, fenced, lastTime, concurrent, handle,
                       intent, actorRev, checkError, usable>>
     \/ Refuse(a)

(* The other active links whose provider answers enabled right now. *)
OpenMethods(a) == {id \in plan[a].others : Routed(id)}

LastMethodKept(a) == intent[a].action = "unlink" => OpenMethods(a) # {}

(* reserveGrowth: a new hold, or the same one again for the same command.  *)
(* A released reservation is never handed out again.                       *)
Grants(i) == \/ reservation[i.cmd].state = "none"
             \/ /\ reservation[i.cmd].state \in {"held", "settled"}
                /\ reservation[i.cmd].digest = Digest(i)

Reserved(i) ==
  IF reservation[i.cmd].state = "none"
  THEN [reservation EXCEPT ![i.cmd] = [state |-> "held", digest |-> Digest(i)]]
  ELSE reservation

Reserve(a) ==
  /\ pc[a] = "reserve"
  /\ \/ /\ LastMethodKept(a)
        /\ Observe(handle[a])
        /\ Grants(intent[a])
        /\ reservation' = Reserved(intent[a])
        /\ pc' = [pc EXCEPT ![a] = "recheck"]
        /\ UNCHANGED <<store, host, fenced, concurrent, call>>
     \/ Refuse(a)
     \/ /\ "lost" \in Faults   \* the hold is placed and its reply lost
        /\ LastMethodKept(a)
        /\ Grants(intent[a])
        /\ reservation' = Reserved(intent[a])
        /\ Finish(a, FALSE)
        /\ UNCHANGED <<store, host, lastTime>>

(* The checks between the reservation and the commit. *)
RecheckPasses(a) ==
  LET i == intent[a] IN
  /\ ~fenced[handle[a]]
  /\ Observe(handle[a])
  /\ Live(i.cmd)
  /\ Guarded(i)
  /\ i.action # "provision" => rev[i.account] = actorRev[a]
  /\ i.action # "unlink" => Routed(i.target)
  /\ LastMethodKept(a)
  /\ pc' = [pc EXCEPT ![a] = "commit"]
  /\ usable' = [usable EXCEPT ![a] = OpenMethods(a)]
  /\ UNCHANGED <<store, reservation, host, fenced, concurrent, handle, intent, actorRev,
                 plan, checkError>>

(* Mutant: a failed check leaves at once and the hold is forgotten. *)
RecheckThrows(a) ==
  /\ Finish(a, FALSE)
  /\ UNCHANGED <<store, reservation, host, lastTime>>

(* Whatever fails is kept in checkError and thrown inside the transaction, *)
(* so that the hold is only given up on a confirmed abort.                 *)
RecheckFails(a) ==
  /\ pc' = [pc EXCEPT ![a] = "commit"]
  /\ checkError' = [checkError EXCEPT ![a] = TRUE]
  /\ \E fence \in {FALSE} \cup {"unknown" \in Faults \/ Backward(handle[a])} :
       fenced' = [fenced EXCEPT ![handle[a]] = fenced[handle[a]] \/ fence]
  /\ UNCHANGED <<store, reservation, host, lastTime, concurrent, handle, intent, actorRev,
                 plan, usable>>

Recheck(a) == pc[a] = "recheck" /\ (RecheckPasses(a) \/ RecheckFails(a))

(* The commit callback finds the rows its writes were computed from.       *)
PlanHolds(a) ==
  /\ rev[intent[a].account] = plan[a].rev
  /\ row[intent[a].target] = plan[a].row

(* Mutant: the transaction trusts the preflight that ran before the awaits. *)
WritableByPlan(a) == ~checkError[a] /\ ~fenced[handle[a]] /\ receipt[intent[a].cmd] = None

Writable(a) ==
  /\ ~checkError[a]
  /\ ~fenced[handle[a]]
  /\ Admits(a)
  /\ PlanHolds(a)

(* Mutant: a relink keeps the generation it had. *)
NewRowSameGeneration(a) ==
  [account |-> intent[a].account,
   status |-> IF intent[a].action = "unlink" THEN "unlinked" ELSE "active",
   gen |-> IF plan[a].row = None THEN 1 ELSE plan[a].row.gen]

(* The row the command leaves: a first link starts at generation 1, every  *)
(* later change of the same identity takes the next one.                   *)
NewRow(a) ==
  [account |-> intent[a].account,
   status |-> IF intent[a].action = "unlink" THEN "unlinked" ELSE "active",
   gen |-> IF plan[a].row = None THEN 1 ELSE plan[a].row.gen + 1]

(* Mutant: the outbox row is left out of the transaction. *)
WriteWithoutEvent(a) ==
  LET i == intent[a] IN
  /\ row' = [row EXCEPT ![i.target] = NewRow(a)]
  /\ rev' = [rev EXCEPT ![i.account] = plan[a].rev + 1]
  /\ consumed' = [consumed EXCEPT ![i.consent] = i.cmd]
  /\ receipt' = [receipt EXCEPT ![i.cmd] =
                   [digest |-> Digest(i), revision |-> plan[a].rev + 1]]
  /\ UNCHANGED event

(* The five writes of one transaction. *)
Write(a) ==
  LET i == intent[a] IN
  /\ row' = [row EXCEPT ![i.target] = NewRow(a)]
  /\ rev' = [rev EXCEPT ![i.account] = plan[a].rev + 1]
  /\ consumed' = [consumed EXCEPT ![i.consent] = i.cmd]
  /\ receipt' = [receipt EXCEPT ![i.cmd] =
                   [digest |-> Digest(i), revision |-> plan[a].rev + 1]]
  /\ event' = [event EXCEPT ![i.cmd] = "pending"]

(* The committing transaction and its three outcomes.  A callback that     *)
(* throws, or a store that rolls back, is a confirmed abort; an unknown    *)
(* outcome may hide either a commit or a rollback.                         *)
Commit(a) ==
  /\ pc[a] = "commit"
  /\ \/ /\ \/ Writable(a) /\ Write(a)
           \/ /\ ~checkError[a] /\ ~fenced[handle[a]]
              /\ Replays(intent[a])
              /\ UNCHANGED store
        /\ pc' = [pc EXCEPT ![a] = "settle"]
        /\ UNCHANGED <<fenced, concurrent, call>>
     \/ /\ pc' = [pc EXCEPT ![a] = "release"]
        /\ UNCHANGED <<store, fenced, concurrent, call>>
     \/ /\ "unknown" \in Faults
        /\ UNCHANGED store \/ (Writable(a) /\ Write(a))
        /\ Finish(a, TRUE)
  /\ UNCHANGED <<reservation, host, lastTime>>

(* settle and releaseConfirmedAbort are idempotent and refuse to cross     *)
(* over; any failure, even of the reply alone, fences the handle.          *)
Terminal(a, from, to) ==
  /\ \/ /\ reservation[intent[a].cmd].state \in {from, to}
        /\ reservation' = [reservation EXCEPT ![intent[a].cmd] =
             [state |-> to, digest |-> reservation[intent[a].cmd].digest]]
        /\ \E fence \in {FALSE} \cup {"lost" \in Faults} : Finish(a, fence)
     \/ /\ reservation[intent[a].cmd].state \notin {from, to} \/ "lost" \in Faults
        /\ UNCHANGED reservation
        /\ Finish(a, TRUE)
  /\ UNCHANGED <<store, host, lastTime>>

(* Mutants: the wrong terminal transition. *)
SettleByRelease(a) == pc[a] \in {"settle", "reconcile"} /\ Terminal(a, "held", "released")

ReleaseBySettle(a) == pc[a] = "release" /\ Terminal(a, "held", "settled")

Settle(a) == pc[a] \in {"settle", "reconcile"} /\ Terminal(a, "held", "settled")

Release(a) == pc[a] = "release" /\ Terminal(a, "held", "released")

(* reconcile() of a stored command: no slot, and not stopped by a fence. *)
Reconcile(a, h, i) ==
  /\ pc[a] = "idle"
  /\ Overlap \/ InFlight(i.cmd) = {}
  /\ Observe(h)
  /\ Live(i.cmd)
  /\ Guarded(i)
  /\ i.action = "provision" => Routed(i.target)
  /\ receipt[i.cmd] # None
  /\ receipt[i.cmd].digest.account = i.account
  /\ i.action = "provision" => receipt[i.cmd].digest = Digest(i)
  /\ pc' = [pc EXCEPT ![a] = "reconcile"]
  /\ handle' = [handle EXCEPT ![a] = h]
  /\ intent' = [intent EXCEPT ![a] = i]
  /\ UNCHANGED <<store, reservation, host, fenced, concurrent, actorRev, plan,
                 checkError, usable>>
-------------------------------------------------------------------------------
(* The host around the directory. *)

(* A process dies: its calls end where they are, a new handle replaces it. *)
Restart(h) ==
  /\ "restart" \in Faults
  /\ LET lost == {a \in Attempts : handle[a] = h}
         Reset(f, v) == [a \in Attempts |-> IF a \in lost THEN v ELSE f[a]]
     IN /\ pc' = Reset(pc, "idle")
        /\ handle' = Reset(handle, None)
        /\ intent' = Reset(intent, None)
        /\ actorRev' = Reset(actorRev, 0)
        /\ plan' = Reset(plan, None)
        /\ checkError' = Reset(checkError, FALSE)
        /\ usable' = Reset(usable, {})
  /\ fenced' = [fenced EXCEPT ![h] = FALSE]
  /\ lastTime' = [lastTime EXCEPT ![h] = 0]
  /\ concurrent' = [concurrent EXCEPT ![h] = 0]
  /\ UNCHANGED <<store, reservation, host>>

(* A login session is bound to the link it was issued through. *)
BindSession(s, id) ==
  /\ binding[s] = None
  /\ row[id] # None /\ row[id].status = "active"
  /\ binding' = [binding EXCEPT ![s] =
                   [target |-> id, account |-> row[id].account, gen |-> row[id].gen]]
  /\ UNCHANGED <<store, reservation, now, enabled, fenced, lastTime, concurrent, pc, call>>

(* The outbox worker, after the sink acknowledged the event. *)
AcknowledgeEvent(c) ==
  /\ event[c] = "pending"
  /\ event' = [event EXCEPT ![c] = "acknowledged"]
  /\ UNCHANGED <<row, rev, receipt, consumed, reservation, host, fenced, lastTime,
                 concurrent, pc, call>>

(* reconcileUnknown: the host knows how a transaction ended once no call   *)
(* for the command is running.                                             *)
ReconcileUnknown(c) ==
  /\ reservation[c].state = "held"
  /\ InFlight(c) = {}
  /\ reservation' = [reservation EXCEPT ![c] =
                       [state |-> IF receipt[c] = None THEN "released" ELSE "settled",
                        digest |-> reservation[c].digest]]
  /\ UNCHANGED <<store, host, fenced, lastTime, concurrent, pc, call>>

Clock ==
  /\ \/ now < MaxTime /\ now' = now + 1
     \/ "clock" \in Faults /\ now > 0 /\ now' = now - 1
  /\ UNCHANGED <<store, reservation, enabled, binding, fenced, lastTime, concurrent,
                 pc, call>>

SwitchProvider(p) ==
  /\ "provider" \in Faults
  /\ enabled' = IF p \in enabled THEN enabled \ {p} ELSE enabled \cup {p}
  /\ UNCHANGED <<store, reservation, now, binding, fenced, lastTime, concurrent, pc, call>>
-------------------------------------------------------------------------------
Step(a) ==
  Guard(a) \/ Preflight(a) \/ Reserve(a) \/ Recheck(a) \/ Commit(a) \/ Settle(a)
  \/ Release(a)

Entry(a, h, i) == Call(a, h, i) \/ Reconcile(a, h, i)

Environment ==
  \/ \E h \in Handles : Restart(h) \/ ReadOnlyCall(h)
  \/ \E s \in Sessions, id \in Identities : BindSession(s, id)
  \/ \E c \in Commands : AcknowledgeEvent(c) \/ ReconcileUnknown(c)
  \/ Clock
  \/ \E p \in Providers : SwitchProvider(p)

Next ==
  \/ \E a \in Attempts : Step(a)
  \/ \E a \in Attempts, h \in Handles, i \in Intents : Entry(a, h, i)
  \/ Environment

Spec == Init /\ [][Next]_vars

(* Every await of a running call is answered; nothing makes a caller call. *)
FairSpec == Spec /\ \A a \in Attempts : WF_vars(Step(a))
-------------------------------------------------------------------------------
(* Properties. *)

StoreType ==
  /\ row \in [Identities -> Rows \cup {None}]
  /\ rev \in [Accounts -> Nat]
  /\ receipt \in [Commands -> Receipts \cup {None}]
  /\ consumed \in [Consents -> Commands \cup {None}]
  /\ event \in [Commands -> {"none", "pending", "acknowledged"}]

HostType ==
  /\ reservation \in [Commands -> Reservations]
  /\ now \in Nat
  /\ enabled \subseteq Providers
  /\ binding \in [Sessions -> Bindings \cup {None}]

HandleType ==
  /\ fenced \in [Handles -> BOOLEAN]
  /\ lastTime \in [Handles -> Nat]
  /\ concurrent \in [Handles -> Int]

CallType ==
  /\ pc \in [Attempts -> Steps]
  /\ handle \in [Attempts -> Handles \cup {None}]
  /\ intent \in [Attempts -> Intents \cup {None}]
  /\ actorRev \in [Attempts -> Nat]
  /\ plan \in [Attempts -> Plans \cup {None}]
  /\ checkError \in [Attempts -> BOOLEAN]
  /\ usable \in [Attempts -> SUBSET Identities]
  /\ \A a \in Attempts :
       /\ pc[a] # "idle" => handle[a] \in Handles /\ intent[a] \in Intents
       /\ pc[a] \in Planned => plan[a] \in Plans

(* Every variable has its type; a call that runs has a handle, an intent,  *)
(* and, once its first transaction admitted it, a plan.                    *)
TypeOK == StoreType /\ HostType /\ HandleType /\ CallType

(* The five writes of a command are all or nothing: receipt, consumed      *)
(* consent and event exist together, and the account revision counts the   *)
(* commands that changed the account, each with a revision of its own.     *)
LedgerAtomic ==
  /\ \A c \in Commands :
       /\ receipt[c] # None <=> event[c] # "none"
       /\ receipt[c] # None =>
            /\ consumed[receipt[c].digest.consent] = c
            /\ receipt[c].revision \in 1 .. rev[receipt[c].digest.account]
  /\ \A k \in Consents : consumed[k] # None =>
       receipt[consumed[k]] # None /\ receipt[consumed[k]].digest.consent = k
  /\ \A c, d \in Commands :
       /\ receipt[c] # None /\ receipt[d] # None /\ c # d
       /\ receipt[c].digest.account = receipt[d].digest.account
       => receipt[c].revision # receipt[d].revision
  /\ \A acc \in Accounts : rev[acc] = Cardinality(ReceiptsOf(acc))

(* The directory never strands an account: one that was provisioned keeps  *)
(* an active link, whatever unlinks race with each other.                  *)
NeverStranded == \A acc \in Accounts : rev[acc] > 0 => ActiveLinks(acc) # {}

(* A plan is a snapshot that can only age: as long as the account's        *)
(* revision has not moved, the links it counted as remaining login methods *)
(* are still active, and none of them is the link the command removes.     *)
SnapshotsAge ==
  \A a \in Attempts : pc[a] \in Planned =>
    LET acc == intent[a].account IN
    /\ plan[a].rev <= rev[acc]
    /\ intent[a].target \notin plan[a].others
    /\ rev[acc] = plan[a].rev => plan[a].others \subseteq ActiveLinks(acc)

(* A handle's counter is exactly its running writers: no exit path of a    *)
(* call leaks a slot or returns it twice, and the limit holds.             *)
SlotsExact ==
  \A h \in Handles :
    /\ concurrent[h] = Cardinality({a \in Attempts :
                          /\ handle[a] = h
                          /\ pc[a] \notin {"idle", "reconcile"}})
    /\ concurrent[h] <= MaxConcurrent

(* The namespace limits hold although every call checked them in a         *)
(* transaction that others may have followed.                              *)
WithinLimits ==
  /\ RowCount <= MaxRows
  /\ Cardinality(Pending) <= MaxPending
  /\ \A acc \in Accounts : /\ Cardinality(LinksOf(acc)) <= MaxLinks
                           /\ Cardinality(ReceiptsOf(acc)) <= MaxCommands

(* Capacity is settled only for a command whose rows are in the store.     *)
SettledIsCommitted ==
  \A c \in Commands : reservation[c].state = "settled" => receipt[c] # None

(* A command whose rows are in the store is paid for: its hold was never   *)
(* given back.                                                             *)
CommittedIsFunded ==
  \A c \in Commands :
    receipt[c] # None => reservation[c].state \in {"held", "settled"}

(* Every change of the directory is one step of the abstract ledger: once  *)
(* per command, never across accounts, generation and revision together,   *)
(* and never the last login method.                                        *)
Ledger == INSTANCE LinkLedger WITH done <- {c \in Commands : receipt[c] # None}

ImplementsLedger == Ledger!Spec

(* A session whose link was changed is never current again, not even when  *)
(* the same identity is linked back to the same account.                   *)
StaleSessionStaysStale ==
  [][\A s \in Sessions : binding[s] # None /\ ~Current(s) => ~Current(s)']_vars

(* A command that takes effect does so for a caller that is still current  *)
(* at that instant, on a handle that is not fenced; an unlink leaves a     *)
(* method that its last provider check found enabled.                      *)
EffectAuthorised(a) ==
  /\ ~fenced[handle[a]]
  /\ intent[a].action # "provision" => Current(intent[a].session)
  /\ intent[a].action = "unlink" =>
       \E acc \in {intent[a].account} : usable[a] \cap ActiveLinks(acc)' # {}

EffectsAreCurrent ==
  [][\A c \in Commands : receipt[c] = None /\ receipt'[c] # None =>
       \E a \in Attempts : /\ pc[a] = "commit" /\ intent[a].cmd = c
                           /\ EffectAuthorised(a)]_vars

(* With no lost reply and no unknown outcome, every hold is settled or     *)
(* given back by the call that placed it.                                  *)
HoldsEnd == \A c \in Commands :
  reservation[c].state = "held" ~> reservation[c].state \in {"settled", "released"}
===============================================================================
