------------------------------ MODULE SessionCore ------------------------------
(***************************************************************************)
(* The session core of packages/auth: the facade createAuthCore returns,   *)
(* called concurrently over one transactional store.  Every operation      *)
(* reads the clock first and runs its transaction later; login also awaits *)
(* the identity provider and the account resolver in between.  A           *)
(* transaction is serialised by the store, so it is one step here.         *)
(*                                                                         *)
(* A session's CSRF secret is drawn with the session and never changes, so *)
(* the session stands for it.  authTime is at most createdAt (the verifier *)
(* check of login), so createdAt stands for both in the clock checks.      *)
(***************************************************************************)
EXTENDS Integers, FiniteSets

CONSTANTS
  Attempts,     \* calls of the facade that may run at once
  Sessions,     \* session identifiers that can be drawn
  Tokens,       \* tokens that can be drawn
  Accounts,     \* host accounts
  Requests,     \* what callers ask for
  Absolute,     \* absoluteTtlMs
  Idle,         \* idleTtlMs
  MaxTime,      \* bound: the last instant of the host's clock
  Faults,       \* bound: what may go wrong in this instance
  None          \* an absent row or an empty field

Transports == {"cookie", "bearer"}
Contexts == [transport : Transports, safe : BOOLEAN, origin : BOOLEAN,
             csrf : Sessions \cup {None}]
Operations == {"login", "authenticate", "refresh", "logout", "revokeAll"}

(* The rows of the store. *)
Records == [account : Accounts, transport : Transports, createdAt : Nat, lastSeenAt : Nat,
            expiresAt : Nat, csrf : Sessions \cup {None}, revokedAt : Nat \cup {None},
            revision : Nat \ {0}]
Entries == [session : Sessions, state : {"current", "rotated"}]
Kinds == {"session_created", "session_refreshed", "session_revoked", "session_reused"}

Credentialed == {"authenticate", "refresh", "logout"}   \* these present a token

ASSUME SessionAssumption ==
  /\ Absolute \in Nat \ {0} /\ Idle \in 1 .. Absolute /\ MaxTime \in Nat
  /\ Requests \subseteq [op : Operations, token : Tokens \cup {None},
                         account : Accounts \cup {None}, context : Contexts]
  /\ \A r \in Requests : IF r.op \in Credentialed THEN r.token \in Tokens
                                                  ELSE r.account \in Accounts
  /\ Faults \subseteq {"storage", "clock", "provider"}
  /\ None \notin Sessions \cup Requests \cup Nat \cup Records \cup Entries

VARIABLES
  \* the store
  session, token, events,
  \* the host's clock
  now,
  \* each call
  pc, request, at

store == <<session, token, events>>
vars == <<session, token, events, now, pc, request, at>>

Init ==
  /\ session = [s \in Sessions |-> None]
  /\ token = [t \in Tokens |-> None]
  /\ events = {}
  /\ now = 0
  /\ pc = [a \in Attempts |-> "idle"]
  /\ request = [a \in Attempts |-> None]
  /\ at = [a \in Attempts |-> 0]
-------------------------------------------------------------------------------
(* The checks. *)

(* contextFor(): only authenticate accepts a safe method; an unsafe cookie *)
(* request must come from an allowed origin.  revokeAll has no context.    *)
ContextFor(r) ==
  \/ r.op = "revokeAll"
  \/ r.op = "authenticate" /\ r.context.safe
  \/ ~r.context.safe /\ (r.context.transport = "cookie" => r.context.origin)

(* checkCsrf(): an unsafe cookie request proves it knows the CSRF secret.  *)
CheckCsrf(c, record) ==
  c.transport = "cookie" /\ ~c.safe => record.csrf # None /\ c.csrf = record.csrf

(* Mutant: only the absolute lifetime is checked. *)
AliveUntilExpiry(record, time) == record.createdAt <= time /\ time < record.expiresAt

Alive(record, time) ==
  /\ record.createdAt <= time /\ record.lastSeenAt <= time
  /\ time < record.expiresAt
  /\ time < record.lastSeenAt + Idle

EntryOf(a) == token[request[a].token]

(* The token leads to a session of the request's transport, unrevoked and  *)
(* with the CSRF secret of the request.                                    *)
Bound(a) ==
  /\ EntryOf(a) # None
  /\ session[EntryOf(a).session] # None
  /\ session[EntryOf(a).session].transport = request[a].context.transport
  /\ session[EntryOf(a).session].revokedAt = None
  /\ CheckCsrf(request[a].context, session[EntryOf(a).session])

CheckedSession(a) == Bound(a) /\ Alive(session[EntryOf(a).session], at[a])
-------------------------------------------------------------------------------
(* The frame of a call. *)

(* The context is checked and the clock is read. *)
Begin(a, r) ==
  /\ pc[a] = "idle"
  /\ ContextFor(r)
  /\ request' = [request EXCEPT ![a] = r]
  /\ at' = [at EXCEPT ![a] = now]
  /\ pc' = [pc EXCEPT ![a] = IF r.op = "login" THEN "verify" ELSE "transact"]
  /\ UNCHANGED <<store, now>>

(* The call ends, with an answer or an error. *)
Return(a) ==
  /\ pc' = [pc EXCEPT ![a] = "idle"]
  /\ request' = [request EXCEPT ![a] = None]
  /\ at' = [at EXCEPT ![a] = 0]
  /\ UNCHANGED now

(* The callback throws and the store rolls back, or it wrote nothing. *)
Refuse(a) == Return(a) /\ UNCHANGED store

(* login: the provider and the resolver answer, or the call is over. *)
Verify(a) ==
  /\ pc[a] = "verify"
  /\ \/ /\ pc' = [pc EXCEPT ![a] = "transact"]
        /\ UNCHANGED <<store, now, request, at>>
     \/ "provider" \in Faults /\ Refuse(a)

(* A store that fails inside the transaction. *)
StorageFails(a) == "storage" \in Faults /\ pc[a] = "transact" /\ Refuse(a)

Transacting(a, op) == pc[a] = "transact" /\ request[a].op = op

(* putEvent() is insert-only: the identifier is bound to session, revision *)
(* and kind.                                                               *)
PutEvent(s, revision, kind) ==
  /\ [session |-> s, revision |-> revision, kind |-> kind] \notin events
  /\ events' = events \cup {[session |-> s, revision |-> revision, kind |-> kind]}
-------------------------------------------------------------------------------
(* The transactions. *)

NewSession(a, s) ==
  [account |-> request[a].account, transport |-> request[a].context.transport,
   createdAt |-> at[a], lastSeenAt |-> at[a], expiresAt |-> at[a] + Absolute,
   csrf |-> IF request[a].context.transport = "cookie" THEN s ELSE None,
   revokedAt |-> None, revision |-> 1]

(* The draws may collide with stored identifiers: nothing is overwritten. *)
Login(a) ==
  /\ Transacting(a, "login")
  /\ \E s \in Sessions, t \in Tokens :
       \/ session[s] # None /\ Refuse(a)
       \/ token[t] # None /\ Refuse(a)
       \/ /\ session[s] = None /\ token[t] = None
          /\ session' = [session EXCEPT ![s] = NewSession(a, s)]
          /\ token' = [token EXCEPT ![t] = [session |-> s, state |-> "current"]]
          /\ PutEvent(s, 1, "session_created")
          /\ Return(a)

(* The touch never moves lastSeenAt back. *)
Touch(a) ==
  LET s == EntryOf(a).session IN
  session' = [session EXCEPT ![s].lastSeenAt =
                IF at[a] > session[s].lastSeenAt THEN at[a] ELSE session[s].lastSeenAt]

Authenticate(a) ==
  /\ Transacting(a, "authenticate")
  /\ \/ /\ CheckedSession(a) /\ EntryOf(a).state = "current"
        /\ Touch(a)
        /\ UNCHANGED <<token, events>>
        /\ Return(a)
     \/ ~(CheckedSession(a) /\ EntryOf(a).state = "current") /\ Refuse(a)

(* The session is revoked at the call's time, with its event. *)
Revoke(s, time, kind) ==
  /\ session' = [session EXCEPT ![s].revokedAt = time,
                                ![s].revision = session[s].revision + 1]
  /\ PutEvent(s, session[s].revision + 1, kind)

(* Mutant: the presented token stays current beside its successor. *)
RotateBeside(a, next) ==
  LET s == EntryOf(a).session IN
  /\ token' = [token EXCEPT ![next] = [session |-> s, state |-> "current"]]
  /\ session' = [session EXCEPT ![s].lastSeenAt = at[a],
                                ![s].revision = session[s].revision + 1]
  /\ PutEvent(s, session[s].revision + 1, "session_refreshed")

(* The presented token is spent and its successor becomes the current one. *)
Rotate(a, next) ==
  LET s == EntryOf(a).session IN
  /\ token' = [token EXCEPT ![request[a].token].state = "rotated",
                            ![next] = [session |-> s, state |-> "current"]]
  /\ session' = [session EXCEPT ![s].lastSeenAt = at[a],
                                ![s].revision = session[s].revision + 1]
  /\ PutEvent(s, session[s].revision + 1, "session_refreshed")

(* Mutant: a rotated token is refreshed like a current one. *)
RefreshAnyToken(a) ==
  /\ Transacting(a, "refresh")
  /\ CheckedSession(a)
  /\ \E next \in Tokens : token[next] = None /\ Rotate(a, next) /\ Return(a)

(* Reuse of a rotated token revokes the session, and that commits although *)
(* the caller gets an error.                                               *)
Refresh(a) ==
  /\ Transacting(a, "refresh")
  /\ \/ ~CheckedSession(a) /\ Refuse(a)
     \/ /\ CheckedSession(a) /\ EntryOf(a).state = "rotated"
        /\ Revoke(EntryOf(a).session, at[a], "session_reused")
        /\ UNCHANGED token
        /\ Return(a)
     \/ /\ CheckedSession(a) /\ EntryOf(a).state = "current"
        /\ \E next \in Tokens :
             \/ token[next] # None /\ Refuse(a)
             \/ token[next] = None /\ Rotate(a, next) /\ Return(a)

(* Mutant: a revocation that does not say so in the outbox. *)
LogoutSilently(a) ==
  /\ Transacting(a, "logout")
  /\ CheckedSession(a) /\ EntryOf(a).state = "current"
  /\ session' = [session EXCEPT ![EntryOf(a).session].revokedAt = at[a]]
  /\ UNCHANGED <<token, events>>
  /\ Return(a)

(* Logout of an unknown token or of a revoked session answers without an   *)
(* error; neither writes anything.                                         *)
Logout(a) ==
  /\ Transacting(a, "logout")
  /\ \/ /\ CheckedSession(a) /\ EntryOf(a).state = "current"
        /\ Revoke(EntryOf(a).session, at[a], "session_revoked")
        /\ UNCHANGED token
        /\ Return(a)
     \/ ~(CheckedSession(a) /\ EntryOf(a).state = "current") /\ Refuse(a)

(* The sessions revokeAll() changes. *)
LiveOf(acc) ==
  {s \in Sessions : session[s] # None /\ session[s].account = acc
                    /\ session[s].revokedAt = None}

(* revokeAll(): in one transaction, without looking at the session's clock. *)
RevokeAll(a) ==
  LET family == LiveOf(request[a].account) IN
  /\ Transacting(a, "revokeAll")
  /\ session' = [s \in Sessions |-> IF s \in family
                   THEN [session[s] EXCEPT !.revokedAt = at[a],
                                           !.revision = session[s].revision + 1]
                   ELSE session[s]]
  /\ events' = events \cup {[session |-> s, revision |-> session[s].revision + 1,
                             kind |-> "session_revoked"] : s \in family}
  /\ UNCHANGED token
  /\ Return(a)

Clock ==
  /\ \/ now < MaxTime /\ now' = now + 1
     \/ "clock" \in Faults /\ now > 0 /\ now' = now - 1
  /\ UNCHANGED <<store, pc, request, at>>
-------------------------------------------------------------------------------
Transaction(a) ==
  Login(a) \/ Authenticate(a) \/ Refresh(a) \/ Logout(a) \/ RevokeAll(a)

Next ==
  \/ \E a \in Attempts, r \in Requests : Begin(a, r)
  \/ \E a \in Attempts : Verify(a) \/ Transaction(a) \/ StorageFails(a)
  \/ Clock

Spec == Init /\ [][Next]_vars
-------------------------------------------------------------------------------
(* Properties. *)

(* Every variable has its type. *)
TypeOK ==
  /\ session \in [Sessions -> Records \cup {None}]
  /\ token \in [Tokens -> Entries \cup {None}]
  /\ events \subseteq [session : Sessions, revision : Nat \ {0}, kind : Kinds]
  /\ now \in Nat
  /\ pc \in [Attempts -> {"idle", "verify", "transact"}]
  /\ request \in [Attempts -> Requests \cup {None}]
  /\ at \in [Attempts -> Nat]
  /\ \A a \in Attempts : pc[a] # "idle" => request[a] \in Requests

CurrentOf(s) == {t \in Tokens : token[t] # None /\ token[t].session = s
                                /\ token[t].state = "current"}

(* A session has exactly one branch: however refreshes race, fail or lose  *)
(* their answer, one token of a stored session is current and no token     *)
(* belongs to a session that is not stored.                                *)
OneBranch ==
  /\ \A s \in Sessions : session[s] # None => Cardinality(CurrentOf(s)) = 1
  /\ \A t \in Tokens : token[t] # None => session[token[t].session] # None

(* The outbox has one event for every revision of every session, and the   *)
(* last one tells whether the session was revoked.                         *)
OutboxComplete ==
  \A s \in Sessions :
    LET own == {e \in events : e.session = s}
        last == IF session[s] = None THEN 0 ELSE session[s].revision
    IN /\ {e.revision : e \in own} = 1 .. last
       /\ Cardinality(own) = last
       /\ session[s] # None =>
            (session[s].revokedAt # None <=>
               \E e \in own : /\ e.revision = last
                              /\ e.kind \in {"session_revoked", "session_reused"})

(* What a session was opened with. *)
Terms(record) ==
  <<record.account, record.transport, record.createdAt, record.expiresAt, record.csrf>>

(* A use moves lastSeenAt forward only, within the lifetime, and never     *)
(* touches a revoked session; its owner, transport, secret and absolute    *)
(* expiry are those it was opened with.                                    *)
UsesAreTimely ==
  [][\A s \in Sessions : session[s] # None =>
       /\ session'[s] # None
       /\ Terms(session'[s]) = Terms(session[s])
       /\ session'[s].lastSeenAt >= session[s].lastSeenAt
       /\ session'[s].lastSeenAt < session[s].lastSeenAt + Idle
       /\ session'[s].lastSeenAt < session[s].expiresAt
       /\ session[s].revokedAt # None => session'[s] = session[s]]_vars

(* The credentials follow the abstract lifecycle of a session family. *)
Family == INSTANCE SessionFamily WITH
  status <- [s \in Sessions |-> IF session[s] = None THEN "absent"
                                ELSE IF session[s].revokedAt = None THEN "live"
                                ELSE "revoked"],
  issued <- [t \in Tokens |-> IF token[t] = None THEN None ELSE token[t].session],
  usable <- {t \in Tokens : token[t] # None /\ token[t].state = "current"}

ImplementsFamily == Family!Spec

(* AUTH-C11 and AUTH-C12 of docs/auth/session-core-v1.md: a refresh that   *)
(* presents a rotated token, with its own transport and CSRF secret, while *)
(* the session is alive by the clock of the host, revokes the family.      *)
ReuseRevokes ==
  [][\A a \in Attempts :
       /\ Transacting(a, "refresh") /\ pc'[a] = "idle"
       /\ Bound(a) /\ EntryOf(a).state = "rotated"
       /\ Alive(session[EntryOf(a).session], now)
       => \E s \in {EntryOf(a).session} : session'[s].revokedAt # None]_vars
===============================================================================
