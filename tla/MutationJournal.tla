--------------------------- MODULE MutationJournal ---------------------------
(***************************************************************************)
(* audit: the mutation journal of a SQLite database.  Three triggers per   *)
(* table write a row of the journal for every insert, update and delete,   *)
(* in the transaction of the change itself.  Processes install, refresh    *)
(* and uninstall the triggers while others write and change the schema.    *)
(* SQLite has one write transaction at a time: "work" is what its owner    *)
(* sees, db what everyone else sees, and a statement outside a transaction *)
(* needs the lock for itself.                                              *)
(***************************************************************************)
EXTENDS Naturals, Sequences, FiniteSets

CONSTANTS
    Installers,     \* processes with the journal service
    Writers,        \* connections that write rows
    Tables,
    Skipped,        \* tables skipped: excluded, virtual, untyped or BLOB columns
    Keys,
    Values,
    Nothing,        \* no row, no owner
    LogMax,         \* bound: rows of the journal
    CallsMax        \* bound: installs and uninstalls

VARIABLES
    db,             \* committed: rows, triggers, journal
    work,           \* the same in the open write transaction, or Nothing
    owner,          \* whose transaction it is, or Nothing
    todo,           \* per installer: the statements left of its call
    base,           \* history: content and journal length a report vouches for
    calls           \* history: calls started

vars == <<db, work, owner, todo, base, calls>>

Events == {"insert", "update", "delete"}
Triggers == Tables \X Events

\* A call: triggers to drop, then triggers to create; an install commits.
Call(kind, drop, make) == [kind |-> kind, drop |-> drop, make |-> make]
Done == Call("none", {}, {})

Empty == [k \in Keys |-> Nothing]

Init ==
    /\ db = [rows |-> [t \in Tables |-> Empty], triggers |-> {}, log |-> <<>>]
    /\ work = Nothing
    /\ owner = Nothing
    /\ todo = [p \in Installers |-> Done]
    /\ base = [t \in Tables |-> Nothing]
    /\ calls = 0

\* What p reads and writes: its transaction, or the committed database.
Seen(p) == IF owner = p THEN work ELSE db

Execute(p, d) ==
    IF owner = p THEN work' = d /\ UNCHANGED db
    ELSE owner = Nothing /\ db' = d /\ UNCHANGED work

Begin(p) == owner = Nothing /\ owner' = p /\ work' = db

Commit(p) == owner = p /\ db' = work /\ work' = Nothing /\ owner' = Nothing

Rollback(p) ==
    IF owner = p THEN work' = Nothing /\ owner' = Nothing
    ELSE UNCHANGED <<work, owner>>

-----------------------------------------------------------------------------
(* SqliteTriggerJournalDriver, called by MutationJournalService.           *)

Running(p) == todo[p] # Done
Goto(p, call) == todo' = [todo EXCEPT ![p] = call]

\* install() and refresh(): the statements run in one transaction.
Install(p) ==
    /\ ~Running(p) /\ calls < CallsMax
    /\ Begin(p)
    /\ Goto(p, Call("install", db.triggers, (Tables \ Skipped) \X Events))
    /\ calls' = calls + 1
    /\ UNCHANGED <<db, base>>

\* uninstall(): every trigger in a transaction of its own.
Uninstall(p) ==
    /\ ~Running(p) /\ calls < CallsMax /\ db.triggers # {}
    /\ Goto(p, Call("uninstall", db.triggers, {}))
    /\ base' = [t \in Tables |-> Nothing]
    /\ calls' = calls + 1
    /\ UNCHANGED <<db, work, owner>>

DropTrigger(p) ==
    /\ \E x \in todo[p].drop :
         LET rest == [todo[p] EXCEPT !.drop = @ \ {x}]
             d    == Seen(p)
         IN  /\ Execute(p, [d EXCEPT !.triggers = @ \ {x}])
             /\ Goto(p, IF rest.kind = "uninstall" /\ rest.drop = {} THEN Done ELSE rest)
    /\ UNCHANGED <<owner, base, calls>>

CreateTrigger(p) ==
    /\ todo[p].drop = {}
    /\ \E x \in todo[p].make :
         LET d == Seen(p) IN
         /\ Execute(p, [d EXCEPT !.triggers = @ \cup {x}])
         /\ Goto(p, [todo[p] EXCEPT !.make = @ \ {x}])
    /\ UNCHANGED <<owner, base, calls>>

Uninstalling == \E p \in Installers : todo[p].kind = "uninstall"

\* The report vouches for every table that is not skipped, unless an uninstall
\* is still on its way.
EndInstall(p) ==
    /\ todo[p].kind = "install" /\ todo[p].drop = {} /\ todo[p].make = {}
    /\ Commit(p)
    /\ Goto(p, Done)
    /\ base' = [t \in Tables |-> IF t \in Skipped \/ Uninstalling THEN Nothing
                  ELSE [rows |-> work.rows[t], from |-> Len(work.log)]]
    /\ UNCHANGED calls

\* A statement fails, or the process dies.  An install rolls back, and the
\* service warns and reports no journaled table; an uninstall leaves the
\* triggers it has not reached.
Fail(p) ==
    /\ Running(p)
    /\ Goto(p, Done)
    /\ Rollback(p)
    /\ UNCHANGED <<db, base, calls>>

-----------------------------------------------------------------------------
(* The rest of the world: external.                                        *)

BeginWrite(w) == Begin(w) /\ UNCHANGED <<db, todo, base, calls>>

EventOf(old, new) ==
    IF old = Nothing THEN "insert" ELSE IF new = Nothing THEN "delete" ELSE "update"

\* Mutant: the row is journaled as it is after the change only.
JournaledWithoutOld(d, t, k, new) ==
    IF new # Nothing /\ <<t, EventOf(d.rows[t][k], new)>> \in d.triggers
      THEN Append(d.log, [table |-> t, key |-> k, old |-> d.rows[t][k], new |-> new])
      ELSE d.log

\* The body of the triggers.
Journaled(d, t, k, new) ==
    IF <<t, EventOf(d.rows[t][k], new)>> \in d.triggers
      THEN Append(d.log, [table |-> t, key |-> k, old |-> d.rows[t][k], new |-> new])
      ELSE d.log

Write(w, t, k, new) ==
    /\ owner \in {w, Nothing} /\ Len(Seen(w).log) < LogMax
    /\ LET d == Seen(w) IN
       /\ d.rows[t][k] # Nothing \/ new # Nothing
       /\ Execute(w, [d EXCEPT !.rows[t][k] = new, !.log = Journaled(d, t, k, new)])
    /\ UNCHANGED <<owner, todo, base, calls>>

EndWrite(w) ==
    /\ owner = w
    /\ Commit(w) \/ (Rollback(w) /\ UNCHANGED db)
    /\ UNCHANGED <<todo, base, calls>>

\* A migration that rebuilds a table loses its triggers until a refresh.
Rebuild(w, t) ==
    /\ owner = Nothing
    /\ db' = [db EXCEPT !.triggers = {x \in @ : x[1] # t}]
    /\ base' = [base EXCEPT ![t] = Nothing]
    /\ UNCHANGED <<work, owner, todo, calls>>

Next ==
    \/ \E p \in Installers : Install(p) \/ Uninstall(p) \/ DropTrigger(p) \/ CreateTrigger(p)
                               \/ EndInstall(p) \/ Fail(p)
    \/ \E w \in Writers :
         \/ BeginWrite(w) \/ EndWrite(w)
         \/ \E t \in Tables : \/ Rebuild(w, t)
                              \/ \E k \in Keys, v \in Values \cup {Nothing} : Write(w, t, k, v)

Spec == Init /\ [][Next]_vars

-----------------------------------------------------------------------------
(* Correctness.                                                            *)

Replay(t) ==
    LET upto[n \in 0..Len(db.log)] ==
          IF n <= base[t].from THEN base[t].rows
          ELSE LET e == db.log[n]
               IN  IF e.table # t THEN upto[n - 1]
                   ELSE [upto[n - 1] EXCEPT ![e.key] = e.new]
    IN  upto[Len(db.log)]

\* A table that a report calls journaled can be rebuilt from its content at
\* the install and the journal, until someone uninstalls or rebuilds it,
\* whatever installs, uninstalls and transactions failed half way before.
JournalReplays == \A t \in Tables : base[t] # Nothing => Replay(t) = db.rows[t]

-----------------------------------------------------------------------------
(* Why it holds.                                                           *)

Rows == [Keys -> Values \cup {Nothing}]
Databases ==
    [rows : [Tables -> Rows], triggers : SUBSET Triggers,
     log : Seq([table : Tables, key : Keys, old : Values \cup {Nothing}, new : Values \cup {Nothing}])]

\* Only a transaction that is open has a database of its own.
TypeOK ==
    /\ db \in Databases
    /\ owner \in Installers \cup Writers \cup {Nothing}
    /\ owner # Nothing => work \in Databases
    /\ todo \in [Installers -> [kind : {"none", "install", "uninstall"},
                                drop : SUBSET Triggers, make : SUBSET Triggers]]
    /\ base \in [Tables -> {Nothing} \cup [rows : Rows, from : Nat]]

\* An install is in progress while its transaction is open, and has made or will
\* make every trigger; while an uninstall is in progress nothing is vouched for.
InstallsMakeAll ==
    /\ \A p \in Installers :
         /\ todo[p].kind = "install" <=> owner = p
         /\ todo[p].kind = "none" => todo[p].drop = {}
         /\ owner = p => \A x \in (Tables \ Skipped) \X Events :
                           x \in todo[p].make \/ (todo[p].drop = {} /\ x \in work.triggers)
    /\ Uninstalling => \A t \in Tables : base[t] = Nothing

\* The journal of d, from where the report b vouches for t on, leads to its rows.
Leads(b, d, t) ==
    /\ b.from <= Len(d.log)
    /\ \E f : /\ f = [n \in 0 .. Len(d.log) |->
                        IF n <= b.from THEN b.rows
                        ELSE IF d.log[n].table # t THEN f[n - 1]
                        ELSE [f[n - 1] EXCEPT ![d.log[n].key] = d.log[n].new]]
              /\ f[Len(d.log)] = d.rows[t]

Watched(d, t) == \A e \in Events : <<t, e>> \in d.triggers

\* What is vouched for is journaled, in the database and in a transaction that
\* writes rows.
VouchedIsWatched ==
    \A t \in Tables : base[t] # Nothing =>
        /\ Leads(base[t], db, t) /\ Watched(db, t)
        /\ owner # Nothing => Leads(base[t], work, t)
        /\ owner \in Writers => Watched(work, t)
=============================================================================
