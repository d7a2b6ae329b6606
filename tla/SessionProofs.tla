----------------------------- MODULE SessionProofs -----------------------------
(***************************************************************************)
(* Theorems about the session core, for any number of concurrent calls,    *)
(* sessions, tokens and accounts, any requests and any lifetimes.          *)
(***************************************************************************)
EXTENDS SessionCore, FiniteSetTheorems, TLAPS

LEMMA InitType == Init => TypeOK
BY DEF Init, TypeOK

(* What a running call has.                                                *)
LEMMA CallParts ==
  ASSUME TypeOK, NEW a \in Attempts, pc[a] # "idle"
  PROVE  /\ request[a] \in Requests /\ at[a] \in Nat
         /\ request[a].op \notin Credentialed => request[a].account \in Accounts
         /\ request[a].op \in Credentialed => request[a].token \in Tokens
         /\ request[a].context.transport \in Transports
BY SessionAssumption DEF TypeOK, Contexts

(* The session a checked token leads to.                                   *)
LEMMA CheckedParts ==
  ASSUME TypeOK, NEW a \in Attempts, pc[a] # "idle", request[a].op \in Credentialed,
         CheckedSession(a)
  PROVE  /\ request[a].token \in Tokens /\ EntryOf(a) \in Entries
         /\ EntryOf(a).session \in Sessions
         /\ session[EntryOf(a).session] \in Records
         /\ session[EntryOf(a).session].revokedAt = None
         /\ Alive(session[EntryOf(a).session], at[a])
<1>1. request[a].token \in Tokens
  BY CallParts
<1>2. QED
  BY <1>1 DEF TypeOK, EntryOf, Entries, CheckedSession, Bound

LEMMA ReturnType ==
  ASSUME TypeOK, NEW a \in Attempts, Return(a)
  PROVE  /\ now' \in Nat
         /\ pc' \in [Attempts -> {"idle", "verify", "transact"}]
         /\ request' \in [Attempts -> Requests \cup {None}]
         /\ at' \in [Attempts -> Nat]
         /\ \A b \in Attempts : pc'[b] # "idle" => request'[b] \in Requests
BY DEF TypeOK, Return

LEMMA RefuseType ==
  ASSUME TypeOK, NEW a \in Attempts, Refuse(a)
  PROVE  TypeOK'
BY ReturnType DEF Refuse, TypeOK, store

LEMMA LoginType ==
  ASSUME TypeOK, NEW a \in Attempts, Login(a)
  PROVE  TypeOK'
<1>1. CASE Refuse(a)
  BY <1>1, RefuseType
<1>2. CASE ~Refuse(a)
  <2>1. PICK s \in Sessions, t \in Tokens :
          /\ session' = [session EXCEPT ![s] = NewSession(a, s)]
          /\ token' = [token EXCEPT ![t] = [session |-> s, state |-> "current"]]
          /\ PutEvent(s, 1, "session_created")
          /\ Return(a)
    BY <1>2 DEF Login
  <2>2. at[a] \in Nat /\ request[a].account \in Accounts
        /\ request[a].context.transport \in Transports
    BY CallParts DEF Login, Transacting, Credentialed
  <2>3. NewSession(a, s) \in Records
    BY <2>2, SessionAssumption DEF NewSession, Records
  <2>4. session' \in [Sessions -> Records \cup {None}]
    BY <2>1, <2>3 DEF TypeOK
  <2>5. token' \in [Tokens -> Entries \cup {None}]
    BY <2>1 DEF TypeOK, Entries
  <2>6. events' \subseteq [session : Sessions, revision : Nat \ {0}, kind : Kinds]
    BY <2>1 DEF TypeOK, PutEvent, Kinds
  <2>7. QED BY <2>1, <2>4, <2>5, <2>6, ReturnType DEF TypeOK
<1>3. QED BY <1>1, <1>2

(* Updating the times, the revocation or the revision of a record.         *)
LEMMA RecordUpdate ==
  ASSUME NEW r \in Records, NEW n \in Nat
  PROVE  /\ [r EXCEPT !.lastSeenAt = n] \in Records
         /\ [r EXCEPT !.revokedAt = n, !.revision = r.revision + 1] \in Records
         /\ [r EXCEPT !.lastSeenAt = n, !.revision = r.revision + 1] \in Records
         /\ r.revision + 1 \in Nat \ {0}
<1>1. r.revision + 1 \in Nat \ {0}
  BY DEF Records
<1>2. [r EXCEPT !.lastSeenAt = n] \in Records
  BY DEF Records
<1>3. [r EXCEPT !.revokedAt = n, !.revision = r.revision + 1] \in Records
  BY <1>1 DEF Records
<1>4. [r EXCEPT !.lastSeenAt = n, !.revision = r.revision + 1] \in Records
  BY <1>1 DEF Records
<1>5. QED BY <1>1, <1>2, <1>3, <1>4

LEMMA AuthenticateType ==
  ASSUME TypeOK, NEW a \in Attempts, Authenticate(a)
  PROVE  TypeOK'
<1>1. CASE Refuse(a)
  BY <1>1, RefuseType
<1>2. CASE ~Refuse(a)
  <2>1. CheckedSession(a) /\ Touch(a) /\ UNCHANGED <<token, events>> /\ Return(a)
        /\ pc[a] # "idle" /\ request[a].op \in Credentialed
    BY <1>2 DEF Authenticate, Transacting, Credentialed
  <2> DEFINE s == EntryOf(a).session
             n == IF at[a] > session[s].lastSeenAt THEN at[a] ELSE session[s].lastSeenAt
  <2>2. s \in Sessions /\ session[s] \in Records
    BY <2>1, CheckedParts
  <2>3. n \in Nat
    BY <2>1, <2>2, CallParts DEF Records
  <2>4. session' = [session EXCEPT ![s] = [session[s] EXCEPT !.lastSeenAt = n]]
    BY <2>1 DEF Touch
  <2>5. session' \in [Sessions -> Records \cup {None}]
    BY <2>2, <2>3, <2>4, RecordUpdate DEF TypeOK
  <2>6. QED BY <2>1, <2>5, ReturnType DEF TypeOK
<1>3. QED BY <1>1, <1>2

LEMMA RevokeType ==
  ASSUME TypeOK, NEW s \in Sessions, session[s] \in Records, NEW n \in Nat,
         NEW kind \in Kinds, Revoke(s, n, kind)
  PROVE  /\ session' \in [Sessions -> Records \cup {None}]
         /\ events' \subseteq [session : Sessions, revision : Nat \ {0}, kind : Kinds]
<1>1. session' = [session EXCEPT ![s] =
        [session[s] EXCEPT !.revokedAt = n, !.revision = session[s].revision + 1]]
  BY DEF Revoke, TypeOK
<1>2. session' \in [Sessions -> Records \cup {None}]
  BY <1>1, RecordUpdate DEF TypeOK
<1>3. session[s].revision + 1 \in Nat \ {0}
  BY RecordUpdate
<1>4. events' \subseteq [session : Sessions, revision : Nat \ {0}, kind : Kinds]
  BY <1>3 DEF Revoke, PutEvent, TypeOK
<1>5. QED BY <1>2, <1>4

LEMMA RefreshType ==
  ASSUME TypeOK, NEW a \in Attempts, Refresh(a)
  PROVE  TypeOK'
<1> DEFINE s == EntryOf(a).session
<1>1. CASE Refuse(a)
  BY <1>1, RefuseType
<1>2. ASSUME ~Refuse(a)
      PROVE  /\ pc[a] # "idle" /\ request[a].op \in Credentialed /\ CheckedSession(a)
             /\ Return(a)
             /\ \/ Revoke(s, at[a], "session_reused") /\ UNCHANGED token
                \/ \E next \in Tokens : Rotate(a, next)
  BY <1>2 DEF Refresh, Transacting, Credentialed
<1>3. ASSUME ~Refuse(a)
      PROVE  /\ request[a].token \in Tokens /\ s \in Sessions /\ session[s] \in Records
             /\ at[a] \in Nat /\ token[request[a].token] \in Entries
  BY <1>2, <1>3, CheckedParts, CallParts DEF EntryOf
<1>4. CASE ~Refuse(a) /\ Revoke(s, at[a], "session_reused") /\ UNCHANGED token
  <2>1. /\ session' \in [Sessions -> Records \cup {None}]
        /\ events' \subseteq [session : Sessions, revision : Nat \ {0}, kind : Kinds]
    BY <1>3, <1>4, RevokeType DEF Kinds
  <2>2. QED BY <1>2, <1>4, <2>1, ReturnType DEF TypeOK
<1>5. ASSUME ~Refuse(a), NEW next \in Tokens, Rotate(a, next) PROVE TypeOK'
  <2>1. session' = [session EXCEPT ![s] =
          [session[s] EXCEPT !.lastSeenAt = at[a], !.revision = session[s].revision + 1]]
    BY <1>5 DEF Rotate, TypeOK
  <2>2. session' \in [Sessions -> Records \cup {None}]
    BY <1>3, <1>5, <2>1, RecordUpdate DEF TypeOK
  <2>3. token' \in [Tokens -> Entries \cup {None}]
    <3>1. [token[request[a].token] EXCEPT !.state = "rotated"] \in Entries
      BY <1>3, <1>5 DEF Entries
    <3>2. [session |-> s, state |-> "current"] \in Entries
      BY <1>3, <1>5 DEF Entries
    <3>3. QED BY <1>3, <1>5, <3>1, <3>2 DEF Rotate, TypeOK
  <2>4. events' \subseteq [session : Sessions, revision : Nat \ {0}, kind : Kinds]
    <3>1. session[s].revision + 1 \in Nat \ {0}
      BY <1>3, <1>5, RecordUpdate
    <3>2. QED BY <1>3, <1>5, <3>1 DEF Rotate, PutEvent, TypeOK, Kinds
  <2>5. QED BY <1>2, <1>5, <2>2, <2>3, <2>4, ReturnType DEF TypeOK
<1>6. QED BY <1>1, <1>2, <1>4, <1>5

LEMMA LogoutType ==
  ASSUME TypeOK, NEW a \in Attempts, Logout(a)
  PROVE  TypeOK'
<1> DEFINE s == EntryOf(a).session
<1>1. CASE Refuse(a)
  BY <1>1, RefuseType
<1>2. CASE ~Refuse(a)
  <2>1. /\ pc[a] # "idle" /\ request[a].op \in Credentialed /\ CheckedSession(a)
        /\ Return(a) /\ Revoke(s, at[a], "session_revoked") /\ UNCHANGED token
    BY <1>2 DEF Logout, Transacting, Credentialed
  <2>2. s \in Sessions /\ session[s] \in Records /\ at[a] \in Nat
    BY <2>1, CheckedParts, CallParts
  <2>3. /\ session' \in [Sessions -> Records \cup {None}]
        /\ events' \subseteq [session : Sessions, revision : Nat \ {0}, kind : Kinds]
    BY <2>1, <2>2, RevokeType DEF Kinds
  <2>4. QED BY <2>1, <2>3, ReturnType DEF TypeOK
<1>3. QED BY <1>1, <1>2

LEMMA RevokeAllType ==
  ASSUME TypeOK, NEW a \in Attempts, RevokeAll(a)
  PROVE  TypeOK'
<1>1. /\ Return(a) /\ UNCHANGED token /\ at[a] \in Nat
      /\ \A s \in LiveOf(request[a].account) : s \in Sessions /\ session[s] \in Records
  BY CallParts DEF RevokeAll, Transacting, LiveOf, TypeOK
<1>2. session' \in [Sessions -> Records \cup {None}]
  BY <1>1, RecordUpdate DEF RevokeAll, TypeOK
<1>3. events' \subseteq [session : Sessions, revision : Nat \ {0}, kind : Kinds]
  <2>1. \A s \in LiveOf(request[a].account) : session[s].revision + 1 \in Nat \ {0}
    BY <1>1, RecordUpdate
  <2>2. \A s \in LiveOf(request[a].account) :
          [session |-> s, revision |-> session[s].revision + 1, kind |-> "session_revoked"]
            \in [session : Sessions, revision : Nat \ {0}, kind : Kinds]
    BY <1>1, <2>1 DEF Kinds
  <2>3. QED BY <2>2 DEF RevokeAll, TypeOK
<1>4. QED BY <1>1, <1>2, <1>3, ReturnType DEF TypeOK

LEMMA NextType == TypeOK /\ [Next]_vars => TypeOK'
<1> SUFFICES ASSUME TypeOK, [Next]_vars PROVE TypeOK'
  OBVIOUS
<1>1. CASE UNCHANGED vars
  BY <1>1 DEF vars, TypeOK
<1>2. ASSUME NEW a \in Attempts, NEW r \in Requests, Begin(a, r) PROVE TypeOK'
  BY <1>2 DEF Begin, TypeOK, store
<1>3. ASSUME NEW a \in Attempts, Verify(a) \/ StorageFails(a) PROVE TypeOK'
  <2>1. CASE Refuse(a)
    BY <2>1, RefuseType
  <2>2. CASE ~Refuse(a)
    BY <1>3, <2>2 DEF Verify, StorageFails, TypeOK, store
  <2>3. QED BY <2>1, <2>2
<1>4. ASSUME NEW a \in Attempts, Transaction(a) PROVE TypeOK'
  BY <1>4, LoginType, AuthenticateType, RefreshType, LogoutType, RevokeAllType DEF Transaction
<1>5. CASE Clock
  BY <1>5 DEF Clock, TypeOK, store
<1>6. QED BY <1>1, <1>2, <1>3, <1>4, <1>5 DEF Next

(* Every reachable state of the session core is well typed.                *)
THEOREM TypeCorrect == Spec => []TypeOK
<1>1. QED BY InitType, NextType, PTL DEF Spec

-------------------------------------------------------------------------------
(* The inductive invariant behind the other theorems: a token belongs to a *)
(* stored session, and a session was last seen within its lifetime.        *)
LifeInv ==
  /\ \A t \in Tokens : token[t] # None => session[token[t].session] # None
  /\ \A s \in Sessions : session[s] # None => session[s].lastSeenAt < session[s].expiresAt

(* What a step does to the store, in the terms of the operations.          *)
Event(s, revision, kind) == [session |-> s, revision |-> revision, kind |-> kind]

Endings == {"session_revoked", "session_reused"}   \* the kinds of a revocation

Opens(a, s, t) ==
  /\ session[s] = None /\ token[t] = None
  /\ session' = [session EXCEPT ![s] = NewSession(a, s)] /\ NewSession(a, s) \in Records
  /\ token' = [token EXCEPT ![t] = [session |-> s, state |-> "current"]]
  /\ events' = events \cup {Event(s, 1, "session_created")}

Sees(a, s) ==
  /\ session[s] \in Records /\ session[s].revokedAt = None /\ Alive(session[s], at[a])
  /\ at[a] \in Nat

Touches(a, s) ==
  /\ Sees(a, s)
  /\ session' = [session EXCEPT ![s] = [session[s] EXCEPT !.lastSeenAt = at[a]]]
  /\ token' = token /\ events' = events

Rotates(a, s, t, next) ==
  /\ Sees(a, s) /\ token[t] # None /\ token[t] = [session |-> s, state |-> "current"]
  /\ token[next] = None
  /\ session' = [session EXCEPT ![s] = [session[s] EXCEPT !.lastSeenAt = at[a],
                                          !.revision = session[s].revision + 1]]
  /\ token' = [token EXCEPT ![t] = [session |-> s, state |-> "rotated"],
                            ![next] = [session |-> s, state |-> "current"]]
  /\ events' = events \cup {Event(s, session[s].revision + 1, "session_refreshed")}

Revokes(a, family) ==
  /\ \A s \in family : session[s] \in Records /\ session[s].revokedAt = None
  /\ at[a] \in Nat
  /\ session' = [s \in Sessions |-> IF s \in family
                   THEN [session[s] EXCEPT !.revokedAt = at[a],
                                           !.revision = session[s].revision + 1]
                   ELSE session[s]]
  /\ token' = token
  /\ \E kind \in Endings :
       events' = events \cup {Event(s, session[s].revision + 1, kind) : s \in family}

LEMMA StoreStep ==
  ASSUME TypeOK, [Next]_vars
  PROVE  \/ UNCHANGED <<session, token, events>>
         \/ \E a \in Attempts, s \in Sessions, t \in Tokens : Opens(a, s, t)
         \/ \E a \in Attempts, s \in Sessions : Touches(a, s)
         \/ \E a \in Attempts, s \in Sessions, t, next \in Tokens : Rotates(a, s, t, next)
         \/ \E a \in Attempts, family \in SUBSET Sessions : Revokes(a, family)
<1> DEFINE Goal == \/ UNCHANGED <<session, token, events>>
                   \/ \E a \in Attempts, s \in Sessions, t \in Tokens : Opens(a, s, t)
                   \/ \E a \in Attempts, s \in Sessions : Touches(a, s)
                   \/ \E a \in Attempts, s \in Sessions, t, next \in Tokens :
                        Rotates(a, s, t, next)
                   \/ \E a \in Attempts, family \in SUBSET Sessions : Revokes(a, family)
<1>1. CASE UNCHANGED <<session, token, events>>
  BY <1>1
<1>2. ASSUME NEW a \in Attempts, Login(a), ~UNCHANGED <<session, token, events>> PROVE Goal
  <2>1. PICK s \in Sessions, t \in Tokens :
          /\ session[s] = None /\ token[t] = None
          /\ session' = [session EXCEPT ![s] = NewSession(a, s)]
          /\ token' = [token EXCEPT ![t] = [session |-> s, state |-> "current"]]
          /\ events' = events \cup {Event(s, 1, "session_created")}
    BY <1>2 DEF Login, Refuse, store, PutEvent, Event
  <2>2. at[a] \in Nat /\ request[a].account \in Accounts
        /\ request[a].context.transport \in Transports
    BY <1>2, CallParts DEF Login, Transacting, Credentialed
  <2>3. NewSession(a, s) \in Records
    BY <2>2, SessionAssumption DEF NewSession, Records
  <2>4. QED BY <2>1, <2>3 DEF Opens
<1>3. ASSUME NEW a \in Attempts, Authenticate(a), ~UNCHANGED <<session, token, events>> PROVE Goal
  <2> DEFINE s == EntryOf(a).session
  <2>1. CheckedSession(a) /\ Touch(a) /\ token' = token /\ events' = events
        /\ pc[a] # "idle" /\ request[a].op \in Credentialed
    BY <1>3 DEF Authenticate, Transacting, Credentialed, Refuse, store
  <2>2. s \in Sessions /\ Sees(a, s)
    BY <2>1, CheckedParts, CallParts DEF Sees
  <2>3. (IF at[a] > session[s].lastSeenAt THEN at[a] ELSE session[s].lastSeenAt) = at[a]
    BY <2>2 DEF Sees, Alive, Records
  <2>4. session' = [session EXCEPT ![s] = [session[s] EXCEPT !.lastSeenAt = at[a]]]
    BY <2>1, <2>3 DEF Touch
  <2>5. QED BY <2>1, <2>2, <2>4 DEF Touches
<1>4. ASSUME NEW a \in Attempts, NEW s \in Sessions, NEW kind \in Endings,
             session[s] \in Records, session[s].revokedAt = None, at[a] \in Nat,
             Revoke(s, at[a], kind), UNCHANGED token
      PROVE  Goal
  <2>1. session' = [x \in Sessions |-> IF x \in {s}
                     THEN [session[x] EXCEPT !.revokedAt = at[a],
                                             !.revision = session[x].revision + 1]
                     ELSE session[x]]
    BY <1>4 DEF Revoke, TypeOK
  <2>2. events' = events \cup {Event(x, session[x].revision + 1, kind) : x \in {s}}
    BY <1>4 DEF Revoke, PutEvent, Event
  <2>3. Revokes(a, {s})
    BY <1>4, <2>1, <2>2 DEF Revokes
  <2>4. QED BY <2>3
<1>5. ASSUME NEW a \in Attempts, Refresh(a), ~UNCHANGED <<session, token, events>> PROVE Goal
  <2> DEFINE s == EntryOf(a).session
             t == request[a].token
  <2>1. /\ CheckedSession(a) /\ pc[a] # "idle" /\ request[a].op \in Credentialed
        /\ \/ Revoke(s, at[a], "session_reused") /\ UNCHANGED token
           \/ \E next \in Tokens : /\ EntryOf(a).state = "current"
                                   /\ token[next] = None /\ Rotate(a, next)
    BY <1>5 DEF Refresh, Transacting, Credentialed, Refuse, store
  <2>2. /\ s \in Sessions /\ t \in Tokens /\ Sees(a, s) /\ token[t] \in Entries
        /\ token[t] = EntryOf(a)
    BY <2>1, CheckedParts, CallParts DEF Sees, EntryOf
  <2>3. CASE Revoke(s, at[a], "session_reused") /\ UNCHANGED token
    BY <1>4, <2>2, <2>3 DEF Sees, Endings
  <2>4. ASSUME NEW next \in Tokens, EntryOf(a).state = "current", token[next] = None,
               Rotate(a, next)
        PROVE  Goal
    <3>1. session' = [session EXCEPT ![s] = [session[s] EXCEPT !.lastSeenAt = at[a],
                                               !.revision = session[s].revision + 1]]
      BY <2>4 DEF Rotate, TypeOK
    <3>2. token[t] = [session |-> s, state |-> "current"] /\ token[t] # None
      BY <2>2, <2>4, SessionAssumption DEF Entries
    <3>3. [token[t] EXCEPT !.state = "rotated"] = [session |-> s, state |-> "rotated"]
      BY <3>2
    <3>4. token' = [token EXCEPT ![t] = [token[t] EXCEPT !.state = "rotated"],
                                 ![next] = [session |-> s, state |-> "current"]]
      BY <2>4 DEF Rotate, TypeOK
    <3>5. Rotates(a, s, t, next)
      BY <2>2, <2>4, <3>1, <3>2, <3>3, <3>4 DEF Rotates, Rotate, PutEvent, Event
    <3>6. QED BY <2>2, <3>5
  <2>5. QED BY <2>1, <2>3, <2>4
<1>6. ASSUME NEW a \in Attempts, Logout(a), ~UNCHANGED <<session, token, events>> PROVE Goal
  <2>1. /\ CheckedSession(a) /\ pc[a] # "idle" /\ request[a].op \in Credentialed
        /\ Revoke(EntryOf(a).session, at[a], "session_revoked") /\ UNCHANGED token
    BY <1>6 DEF Logout, Transacting, Credentialed, Refuse, store
  <2>2. QED BY <1>4, <2>1, CheckedParts, CallParts DEF Endings
<1>7. ASSUME NEW a \in Attempts, RevokeAll(a) PROVE Goal
  <2>1. /\ LiveOf(request[a].account) \in SUBSET Sessions /\ at[a] \in Nat
        /\ \A s \in LiveOf(request[a].account) :
             session[s] \in Records /\ session[s].revokedAt = None
    BY <1>7, CallParts DEF RevokeAll, Transacting, LiveOf, TypeOK
  <2>2. Revokes(a, LiveOf(request[a].account))
    BY <1>7, <2>1 DEF RevokeAll, Revokes, Endings, Event
  <2>3. QED BY <2>1, <2>2
<1>8. ASSUME NEW a \in Attempts, Verify(a) \/ StorageFails(a) PROVE UNCHANGED <<session, token, events>>
  BY <1>8 DEF Verify, StorageFails, Refuse, store
<1>9. ASSUME NEW a \in Attempts, NEW r \in Requests, Begin(a, r) PROVE UNCHANGED <<session, token, events>>
  BY <1>9 DEF Begin, store
<1>10. Clock => UNCHANGED <<session, token, events>>
  BY DEF Clock, store
<1>11. QED
  BY <1>1, <1>2, <1>3, <1>5, <1>6, <1>7, <1>8, <1>9, <1>10 DEF Next, Transaction, vars

LEMMA LifeInvStep ==
  ASSUME TypeOK, LifeInv, [Next]_vars
  PROVE  LifeInv'
<1>1. CASE UNCHANGED <<session, token, events>>
  BY <1>1 DEF LifeInv
<1>2. ASSUME NEW a \in Attempts, NEW s \in Sessions, NEW t \in Tokens, Opens(a, s, t)
      PROVE  LifeInv'
  <2>1. NewSession(a, s) # None /\ NewSession(a, s).lastSeenAt < NewSession(a, s).expiresAt
    <3>1. at[a] \in Nat
      BY DEF TypeOK
    <3>2. at[a] < at[a] + Absolute
      BY <3>1, SessionAssumption
    <3>3. QED BY <1>2, <3>2, SessionAssumption DEF Opens, NewSession
  <2>2. \A x \in Sessions : session'[x] = IF x = s THEN NewSession(a, s) ELSE session[x]
    BY <1>2 DEF Opens, TypeOK
  <2>3. \A x \in Tokens : token'[x] = IF x = t THEN [session |-> s, state |-> "current"]
                                      ELSE token[x]
    BY <1>2 DEF Opens, TypeOK
  <2>4. \A x \in Tokens : token[x] # None => token[x].session \in Sessions
    BY DEF TypeOK, Entries
  <2>5. QED BY <2>1, <2>2, <2>3, <2>4 DEF LifeInv
<1>3. ASSUME NEW a \in Attempts, NEW s \in Sessions, Touches(a, s)
      PROVE  LifeInv'
  <2>1. [session[s] EXCEPT !.lastSeenAt = at[a]] \in Records
    BY <1>3, RecordUpdate DEF Touches, Sees
  <2>2. at[a] < session[s].expiresAt
    BY <1>3 DEF Touches, Sees, Alive
  <2>3. \A x \in Sessions : session'[x] = IF x = s THEN [session[s] EXCEPT !.lastSeenAt = at[a]]
                                        ELSE session[x]
    BY <1>3 DEF Touches, TypeOK
  <2>4. session'[s] # None /\ session'[s].lastSeenAt < session'[s].expiresAt
    BY <1>3, <2>1, <2>2, <2>3, SessionAssumption DEF Touches, Sees, Records
  <2>5. \A x \in Tokens : token[x] # None => token[x].session \in Sessions
    BY DEF TypeOK, Entries
  <2>6. QED BY <1>3, <2>3, <2>4, <2>5 DEF LifeInv, Touches
<1>4. ASSUME NEW a \in Attempts, NEW s \in Sessions, NEW t \in Tokens, NEW next \in Tokens,
             Rotates(a, s, t, next)
      PROVE  LifeInv'
  <2> DEFINE r == [session[s] EXCEPT !.lastSeenAt = at[a], !.revision = session[s].revision + 1]
  <2>1. r \in Records /\ r # None
    BY <1>4, RecordUpdate, SessionAssumption DEF Rotates, Sees
  <2>2. r.lastSeenAt < r.expiresAt
    BY <1>4 DEF Rotates, Sees, Alive, Records
  <2>3. \A x \in Sessions : session'[x] = IF x = s THEN r ELSE session[x]
    BY <1>4 DEF Rotates, TypeOK
  <2>4. \A x \in Tokens : token'[x] # None =>
          \/ token[x] # None /\ token'[x].session = token[x].session
          \/ token'[x].session = s
    BY <1>4 DEF Rotates, TypeOK
  <2>5. \A x \in Tokens : token[x] # None => token[x].session \in Sessions
    BY DEF TypeOK, Entries
  <2>6. QED BY <2>1, <2>2, <2>3, <2>4, <2>5 DEF LifeInv
<1>5. ASSUME NEW a \in Attempts, NEW family \in SUBSET Sessions, Revokes(a, family)
      PROVE  LifeInv'
  <2>1. ASSUME NEW x \in family
        PROVE  /\ session'[x] # None /\ session'[x].lastSeenAt = session[x].lastSeenAt
               /\ session'[x].expiresAt = session[x].expiresAt /\ session[x] # None
    <3>1. session'[x] = [session[x] EXCEPT !.revokedAt = at[a],
                                            !.revision = session[x].revision + 1]
      BY <1>5 DEF Revokes
    <3>2. session[x] \in Records /\ session'[x] \in Records
      BY <1>5, <3>1, RecordUpdate DEF Revokes
    <3>3. QED BY <3>1, <3>2, SessionAssumption DEF Records
  <2>2. \A x \in Sessions \ family : session'[x] = session[x]
    BY <1>5 DEF Revokes
  <2>3. \A x \in Tokens : token[x] # None => token[x].session \in Sessions
    BY DEF TypeOK, Entries
  <2>4. QED BY <1>5, <2>1, <2>2, <2>3 DEF LifeInv, Revokes
<1>6. QED BY <1>1, <1>2, <1>3, <1>4, <1>5, StoreStep

LEMMA LifeInvInit == Init => LifeInv
BY DEF Init, LifeInv

-------------------------------------------------------------------------------
(* A use of a session is timely: see UsesAreTimely.                        *)
LEMMA TimelyStep ==
  ASSUME TypeOK, LifeInv, [Next]_vars, NEW s \in Sessions, session[s] # None
  PROVE  /\ session'[s] # None
         /\ Terms(session'[s]) = Terms(session[s])
         /\ session'[s].lastSeenAt >= session[s].lastSeenAt
         /\ session'[s].lastSeenAt < session[s].lastSeenAt + Idle
         /\ session'[s].lastSeenAt < session[s].expiresAt
         /\ session[s].revokedAt # None => session'[s] = session[s]
<1> DEFINE Goal == /\ session'[s] # None
                   /\ Terms(session'[s]) = Terms(session[s])
                   /\ session'[s].lastSeenAt >= session[s].lastSeenAt
                   /\ session'[s].lastSeenAt < session[s].lastSeenAt + Idle
                   /\ session'[s].lastSeenAt < session[s].expiresAt
                   /\ session[s].revokedAt # None => session'[s] = session[s]
<1>1. /\ session[s] \in Records /\ session[s].lastSeenAt \in Nat
      /\ session[s].lastSeenAt < session[s].expiresAt /\ Idle \in Nat /\ Idle > 0
  BY SessionAssumption DEF TypeOK, LifeInv, Records
<1>2. CASE session'[s] = session[s]
  BY <1>1, <1>2
<1>3. ASSUME NEW a \in Attempts, Sees(a, s), session'[s] \in Records,
             session'[s].lastSeenAt = at[a], Terms(session'[s]) = Terms(session[s])
      PROVE  Goal
  BY <1>1, <1>3, SessionAssumption DEF Sees, Alive
<1>4. ASSUME NEW a \in Attempts, NEW x \in Sessions, Touches(a, x) PROVE Goal
  <2>1. CASE x # s
    BY <1>2, <1>4, <2>1 DEF Touches, TypeOK
  <2>2. CASE x = s
    <3>1. Sees(a, s) /\ session'[s] = [session[s] EXCEPT !.lastSeenAt = at[a]]
      BY <1>4, <2>2 DEF Touches, TypeOK
    <3>2. session'[s] \in Records
      BY <3>1, RecordUpdate DEF Sees
    <3>3. session'[s].lastSeenAt = at[a]
      BY <1>1, <3>1 DEF Records
    <3>4. Terms(session'[s]) = Terms(session[s])
      BY <1>1, <3>1 DEF Records, Terms
    <3>5. QED BY <1>3, <3>1, <3>2, <3>3, <3>4
  <2>3. QED BY <2>1, <2>2
<1>5. ASSUME NEW a \in Attempts, NEW x \in Sessions, NEW t \in Tokens, NEW next \in Tokens,
             Rotates(a, x, t, next)
      PROVE  Goal
  <2>1. CASE x # s
    BY <1>2, <1>5, <2>1 DEF Rotates, TypeOK
  <2>2. CASE x = s
    <3>1. Sees(a, s) /\ session'[s] = [session[s] EXCEPT !.lastSeenAt = at[a],
                                                 !.revision = session[s].revision + 1]
      BY <1>5, <2>2 DEF Rotates, TypeOK
    <3>2. session'[s] \in Records
      BY <3>1, RecordUpdate DEF Sees
    <3>3. session'[s].lastSeenAt = at[a]
      BY <1>1, <3>1 DEF Records
    <3>4. Terms(session'[s]) = Terms(session[s])
      BY <1>1, <3>1 DEF Records, Terms
    <3>5. QED BY <1>3, <3>1, <3>2, <3>3, <3>4
  <2>3. QED BY <2>1, <2>2
<1>6. ASSUME NEW a \in Attempts, NEW x \in Sessions, NEW t \in Tokens, Opens(a, x, t)
      PROVE  Goal
  BY <1>2, <1>6 DEF Opens, TypeOK
<1>7. ASSUME NEW a \in Attempts, NEW family \in SUBSET Sessions, Revokes(a, family)
      PROVE  Goal
  <2>1. CASE s \notin family
    BY <1>2, <1>7, <2>1 DEF Revokes
  <2>2. CASE s \in family
    <3>1. session'[s] = [session[s] EXCEPT !.revokedAt = at[a],
                                            !.revision = session[s].revision + 1]
      BY <1>7, <2>2 DEF Revokes
    <3>2. session'[s] \in Records /\ session[s].revokedAt = None
      BY <1>1, <1>7, <2>2, <3>1, RecordUpdate DEF Revokes
    <3>3. session'[s].lastSeenAt = session[s].lastSeenAt
      BY <1>1, <3>1 DEF Records
    <3>4. Terms(session'[s]) = Terms(session[s])
      BY <1>1, <3>1 DEF Records, Terms
    <3>5. QED BY <1>1, <3>2, <3>3, <3>4, SessionAssumption
  <2>3. QED BY <2>1, <2>2
<1>8. CASE UNCHANGED <<session, token, events>>
  BY <1>2, <1>8
<1>9. Goal
  BY <1>4, <1>5, <1>6, <1>7, <1>8, StoreStep
<1>10. QED BY <1>9

(* However late a call's transaction runs after the call read the clock, a *)
(* use moves lastSeenAt forward, within the lifetimes, never touches a     *)
(* revoked session, and leaves its owner, transport, secret and expiry     *)
(* (UsesAreTimely).                                                        *)
THEOREM Timely == Spec => UsesAreTimely
<1>1. TypeOK /\ LifeInv /\ [Next]_vars => TypeOK' /\ LifeInv'
  BY NextType, LifeInvStep
<1>2. TypeOK /\ LifeInv /\ [Next]_vars =>
        [\A s \in Sessions : session[s] # None =>
           /\ session'[s] # None
           /\ Terms(session'[s]) = Terms(session[s])
           /\ session'[s].lastSeenAt >= session[s].lastSeenAt
           /\ session'[s].lastSeenAt < session[s].lastSeenAt + Idle
           /\ session'[s].lastSeenAt < session[s].expiresAt
           /\ session[s].revokedAt # None => session'[s] = session[s]]_vars
  BY TimelyStep
<1>3. QED
  BY <1>1, <1>2, InitType, LifeInvInit, PTL DEF Spec, UsesAreTimely

-------------------------------------------------------------------------------
(* The core implements the abstract lifecycle of a family.                 *)

LEMMA FamilyStep ==
  ASSUME TypeOK, LifeInv, [Next]_vars
  PROVE  [Family!Next]_(Family!vars)
<1> DEFINE status == [s \in Sessions |-> IF session[s] = None THEN "absent"
                                 ELSE IF session[s].revokedAt = None THEN "live" ELSE "revoked"]
           issued == [t \in Tokens |-> IF token[t] = None THEN None ELSE token[t].session]
           usable == {t \in Tokens : token[t] # None /\ token[t].state = "current"}
<1>1. CASE UNCHANGED <<session, token, events>>
  BY <1>1 DEF Family!vars
<1>2. ASSUME NEW a \in Attempts, NEW s \in Sessions, NEW t \in Tokens, Opens(a, s, t)
      PROVE  Family!Open(s, t)
  <2>1. /\ session'[s] # None /\ session'[s].revokedAt = None
        /\ \A x \in Sessions \ {s} : session'[x] = session[x]
    BY <1>2, SessionAssumption DEF Opens, NewSession, TypeOK
  <2>2. status[s] = "absent" /\ issued[t] = None
    BY <1>2 DEF Opens
  <2>3. status' = [status EXCEPT ![s] = "live"]
    BY <2>1
  <2>4. [session |-> s, state |-> "current"] # None
    BY SessionAssumption DEF Entries
  <2>5. issued' = [issued EXCEPT ![t] = s]
    BY <1>2, <2>4 DEF Opens, TypeOK
  <2>6. usable' = usable \cup {t}
    BY <1>2, <2>4 DEF Opens, TypeOK
  <2>7. QED BY <2>2, <2>3, <2>5, <2>6 DEF Family!Open
<1>3. ASSUME NEW a \in Attempts, NEW s \in Sessions, Touches(a, s)
      PROVE  UNCHANGED <<status, issued, usable>>
  <2>1. /\ session'[s] # None /\ session'[s].revokedAt = session[s].revokedAt /\ session[s] # None
        /\ \A x \in Sessions \ {s} : session'[x] = session[x]
    <3>1. session'[s] = [session[s] EXCEPT !.lastSeenAt = at[a]]
      BY <1>3 DEF Touches, TypeOK
    <3>2. session'[s] \in Records /\ session[s] \in Records
      BY <1>3, <3>1, RecordUpdate DEF Touches, Sees
    <3>3. QED BY <1>3, <3>1, <3>2, SessionAssumption DEF Touches, TypeOK, Records
  <2>2. status' = status
    BY <2>1
  <2>3. QED BY <1>3, <2>2 DEF Touches
<1>4. ASSUME NEW a \in Attempts, NEW s \in Sessions, NEW t \in Tokens, NEW next \in Tokens,
             Rotates(a, s, t, next)
      PROVE  Family!Rotate(s, t, next)
  <2>1. /\ session'[s] # None /\ session'[s].revokedAt = None
        /\ session[s] # None /\ session[s].revokedAt = None
        /\ \A x \in Sessions \ {s} : session'[x] = session[x]
    <3>1. session'[s] = [session[s] EXCEPT !.lastSeenAt = at[a],
                                            !.revision = session[s].revision + 1]
      BY <1>4 DEF Rotates, TypeOK
    <3>2. session'[s] \in Records /\ session[s] \in Records /\ session[s].revokedAt = None
      BY <1>4, <3>1, RecordUpdate DEF Rotates, Sees
    <3>3. QED BY <1>4, <3>1, <3>2, SessionAssumption DEF Rotates, TypeOK, Records
  <2>2. status' = status /\ status[s] = "live"
    BY <2>1
  <2>3. /\ [session |-> s, state |-> "current"] # None
        /\ [session |-> s, state |-> "rotated"] # None /\ t # next
    BY <1>4, SessionAssumption DEF Entries, Rotates
  <2>4. \A x \in Tokens : token'[x] = IF x = next THEN [session |-> s, state |-> "current"]
                                      ELSE IF x = t THEN [session |-> s, state |-> "rotated"]
                                      ELSE token[x]
    BY <1>4 DEF Rotates, TypeOK
  <2>5. /\ token[t] # None /\ token[t].session = s /\ token[t].state = "current"
        /\ token[next] = None
    BY <1>4 DEF Rotates
  <2>6. /\ token'[next] # None /\ token'[next].session = s /\ token'[next].state = "current"
        /\ token'[t] # None /\ token'[t].session = s /\ token'[t].state = "rotated"
        /\ \A x \in Tokens \ {t, next} : token'[x] = token[x]
    BY <2>3, <2>4
  <2>7. issued' = [issued EXCEPT ![next] = s]
    <3>1. \A x \in Tokens : (IF token'[x] = None THEN None ELSE token'[x].session)
             = IF x = next THEN s ELSE IF token[x] = None THEN None ELSE token[x].session
      BY <2>5, <2>6
    <3>2. QED BY <3>1
  <2>8. usable' = (usable \ {t}) \cup {next}
    BY <2>3, <2>5, <2>6
  <2>9. issued[t] = s /\ issued[next] = None /\ t \in usable
    BY <2>5
  <2>10. QED BY <2>2, <2>7, <2>8, <2>9 DEF Family!Rotate
<1>5. ASSUME NEW a \in Attempts, NEW family \in SUBSET Sessions, Revokes(a, family)
      PROVE  Family!Revoke(family)
  <2>1. ASSUME NEW x \in family
        PROVE  session[x] # None /\ session[x].revokedAt = None
               /\ session'[x] # None /\ session'[x].revokedAt # None
    <3>1. session'[x] = [session[x] EXCEPT !.revokedAt = at[a], !.revision = session[x].revision + 1]
      BY <1>5 DEF Revokes
    <3>2. session'[x] \in Records /\ session[x] \in Records /\ at[a] \in Nat
      BY <1>5, <3>1, RecordUpdate DEF Revokes
    <3>3. QED BY <1>5, <3>1, <3>2, SessionAssumption DEF Revokes, Records
  <2>2. \A x \in Sessions \ family : session'[x] = session[x]
    BY <1>5 DEF Revokes
  <2>3. status' = [x \in Sessions |-> IF x \in family THEN "revoked" ELSE status[x]]
    BY <2>1, <2>2
  <2>4. \A x \in family : status[x] = "live"
    BY <2>1
  <2>5. UNCHANGED <<issued, usable>>
    BY <1>5 DEF Revokes
  <2>6. QED BY <2>3, <2>4, <2>5 DEF Family!Revoke
<1>6. ASSUME NEW a \in Attempts, NEW s \in Sessions, NEW t \in Tokens, Opens(a, s, t)
      PROVE  Family!Next
  BY <1>2, <1>6 DEF Family!Next
<1>7. ASSUME NEW a \in Attempts, NEW s \in Sessions, NEW t \in Tokens, NEW next \in Tokens,
             Rotates(a, s, t, next)
      PROVE  Family!Next
  BY <1>4, <1>7 DEF Family!Next
<1>8. ASSUME NEW a \in Attempts, NEW family \in SUBSET Sessions, Revokes(a, family)
      PROVE  Family!Next
  BY <1>5, <1>8 DEF Family!Next
<1>9. ASSUME NEW a \in Attempts, NEW s \in Sessions, Touches(a, s)
      PROVE  UNCHANGED Family!vars
  BY <1>3, <1>9 DEF Family!vars
<1>10. QED
  BY <1>1, <1>6, <1>7, <1>8, <1>9, StoreStep

(* However calls race, a token is issued once, a replaced token is never   *)
(* usable again and a revoked session stays revoked (SessionFamily).       *)
THEOREM CoreRefines == Spec => ImplementsFamily
<1>1. Init => Family!Init
  BY DEF Init, Family!Init
<1>2. TypeOK /\ LifeInv /\ [Next]_vars => TypeOK' /\ LifeInv'
  BY NextType, LifeInvStep
<1>3. QED
  BY <1>1, <1>2, InitType, LifeInvInit, FamilyStep, PTL DEF Spec, ImplementsFamily, Family!Spec

-------------------------------------------------------------------------------
(* One branch.  A stored session's current tokens are a singleton; a       *)
(* rotation replaces its element and no other step changes it.             *)

BranchInv ==
  /\ LifeInv
  /\ \A s \in Sessions : session[s] # None => \E t \in Tokens : CurrentOf(s) = {t}

LEMMA BranchStep ==
  ASSUME TypeOK, BranchInv, [Next]_vars
  PROVE  BranchInv'
<1>1. LifeInv /\ LifeInv'
  BY LifeInvStep DEF BranchInv
<1> SUFFICES ASSUME NEW x \in Sessions, session'[x] # None
             PROVE  \E t \in Tokens : CurrentOf(x)' = {t}
  BY <1>1 DEF BranchInv
<1>2. CASE token' = token /\ session[x] # None
  <2>1. CurrentOf(x)' = CurrentOf(x)
    BY <1>2 DEF CurrentOf
  <2>2. QED BY <1>2, <2>1 DEF BranchInv
<1>3. ASSUME NEW a \in Attempts, NEW s \in Sessions, NEW t \in Tokens, Opens(a, s, t)
      PROVE  \E u \in Tokens : CurrentOf(x)' = {u}
  <2>1. /\ token'[t] = [session |-> s, state |-> "current"]
        /\ token'[t] # None /\ token'[t].session = s /\ token'[t].state = "current"
        /\ \A u \in Tokens \ {t} : token'[u] = token[u]
        /\ \A y \in Sessions \ {s} : session'[y] = session[y]
        /\ session[s] = None /\ token[t] = None
    BY <1>3, SessionAssumption DEF Opens, TypeOK, Entries
  <2>2. CASE x = s
    <3>1. CurrentOf(s) = {}
      BY <1>1, <2>1 DEF LifeInv, CurrentOf
    <3>2. CurrentOf(x)' = {t}
      BY <2>1, <2>2, <3>1 DEF CurrentOf
    <3>3. QED BY <3>2
  <2>3. CASE x # s
    <3>1. CurrentOf(x)' = CurrentOf(x)
      BY <2>1, <2>3 DEF CurrentOf
    <3>2. QED BY <2>1, <2>3, <3>1 DEF BranchInv
  <2>4. QED BY <2>2, <2>3
<1>4. ASSUME NEW a \in Attempts, NEW s \in Sessions, NEW t \in Tokens, NEW next \in Tokens,
             Rotates(a, s, t, next)
      PROVE  \E u \in Tokens : CurrentOf(x)' = {u}
  <2>1. /\ token[t] = [session |-> s, state |-> "current"] /\ token[t] # None
        /\ token[next] = None /\ session[s] # None
        /\ \A y \in Sessions \ {s} : session'[y] = session[y]
    BY <1>4, SessionAssumption DEF Rotates, Sees, TypeOK
  <2>2. /\ token'[next] = [session |-> s, state |-> "current"] /\ token'[next] # None
        /\ token'[t] = [session |-> s, state |-> "rotated"]
        /\ \A u \in Tokens \ {t, next} : token'[u] = token[u]
    BY <1>4, <2>1, SessionAssumption DEF Rotates, TypeOK, Entries
  <2>3. /\ token[t].session = s /\ token[t].state = "current"
        /\ token'[next].session = s /\ token'[next].state = "current"
        /\ token'[t].session = s /\ token'[t].state = "rotated"
    BY <2>1, <2>2
  <2>4. CASE x = s
    <3>1. CurrentOf(s) = {t}
      <4>1. t \in CurrentOf(s)
        BY <2>1, <2>3 DEF CurrentOf
      <4>2. QED BY <2>1, <4>1 DEF BranchInv
    <3>2. CurrentOf(s)' = {next}
      BY <2>1, <2>2, <2>3, <3>1 DEF CurrentOf
    <3>3. QED BY <2>4, <3>2
  <2>5. CASE x # s
    <3>1. CurrentOf(x)' = CurrentOf(x)
      BY <2>1, <2>2, <2>3, <2>5 DEF CurrentOf
    <3>2. QED BY <2>1, <2>5, <3>1 DEF BranchInv
  <2>6. QED BY <2>4, <2>5
<1>5. ASSUME NEW a \in Attempts, NEW s \in Sessions, Touches(a, s)
      PROVE  token' = token /\ session[x] # None
  BY <1>5, SessionAssumption DEF Touches, Sees, TypeOK
<1>6. ASSUME NEW a \in Attempts, NEW family \in SUBSET Sessions, Revokes(a, family)
      PROVE  token' = token /\ session[x] # None
  BY <1>6, SessionAssumption DEF Revokes
<1>7. CASE UNCHANGED <<session, token, events>>
  BY <1>2, <1>7
<1>8. QED BY <1>2, <1>3, <1>4, <1>5, <1>6, <1>7, StoreStep

(* However refreshes race, fail or lose their answers, a stored session    *)
(* has exactly one current token, and no token outlives its session        *)
(* (OneBranch).                                                            *)
THEOREM SingleBranch == Spec => []OneBranch
<1>1. Init => BranchInv
  BY LifeInvInit DEF Init, BranchInv
<1>2. TypeOK /\ BranchInv /\ [Next]_vars => TypeOK' /\ BranchInv'
  BY NextType, BranchStep
<1>3. BranchInv => OneBranch
  BY FS_Singleton DEF BranchInv, LifeInv, OneBranch
<1>4. QED BY <1>1, <1>2, <1>3, InitType, PTL DEF Spec

-------------------------------------------------------------------------------
(* The outbox.  Every step that gives a session a new revision adds one    *)
(* event that says so, and no other step adds one.                         *)

Own(s) == {e \in events : e.session = s}
Last(s) == IF session[s] = None THEN 0 ELSE session[s].revision

(* What a step does to one session and its events.                         *)
Quiet(s) ==
  /\ Own(s)' = Own(s) /\ Last(s)' = Last(s)
  /\ session'[s] # None => /\ session[s] # None
                           /\ session'[s].revokedAt # None <=> session[s].revokedAt # None

Tells(s) ==
  \E kind \in Kinds :
    /\ Own(s)' = Own(s) \cup {Event(s, Last(s) + 1, kind)} /\ Last(s)' = Last(s) + 1
    /\ session'[s] # None
    /\ session'[s].revokedAt # None <=> kind \in Endings

LEMMA EventStep ==
  ASSUME TypeOK, [Next]_vars, NEW x \in Sessions
  PROVE  Quiet(x) \/ Tells(x)
<1>0. None \notin Nat /\ None \notin Records
  BY SessionAssumption
<1>1. CASE session'[x] = session[x] /\ Own(x)' = Own(x)
  BY <1>1 DEF Quiet, Last
<1>2. ASSUME NEW s, s # x, NEW n, NEW kind, events' = events \cup {Event(s, n, kind)}
      PROVE  Own(x)' = Own(x)
  BY <1>2 DEF Own, Event
<1>3. ASSUME NEW n, NEW kind, events' = events \cup {Event(x, n, kind)}
      PROVE  Own(x)' = Own(x) \cup {Event(x, n, kind)}
  BY <1>3 DEF Own, Event
<1>4. ASSUME NEW a \in Attempts, NEW s \in Sessions, NEW t \in Tokens, Opens(a, s, t)
      PROVE  Quiet(x) \/ Tells(x)
  <2>1. CASE s # x
    BY <1>1, <1>2, <1>4, <2>1 DEF Opens, TypeOK
  <2>2. CASE s = x
    <3>1. /\ session[x] = None /\ session'[x] = NewSession(a, x) /\ session'[x] # None
          /\ session'[x].revision = 1 /\ session'[x].revokedAt = None
      BY <1>0, <1>4, <2>2 DEF Opens, TypeOK, NewSession
    <3>2. Last(x) = 0 /\ Last(x)' = 1
      BY <3>1 DEF Last
    <3>3. Own(x)' = Own(x) \cup {Event(x, Last(x) + 1, "session_created")}
      BY <1>3, <1>4, <2>2, <3>2 DEF Opens
    <3>4. QED BY <3>1, <3>2, <3>3 DEF Tells, Kinds, Endings
  <2>3. QED BY <2>1, <2>2
<1>5. ASSUME NEW a \in Attempts, NEW s \in Sessions, Touches(a, s)
      PROVE  Quiet(x) \/ Tells(x)
  <2>1. Own(x)' = Own(x)
    BY <1>5 DEF Touches, Own
  <2>2. CASE s # x
    <3>1. session'[x] = session[x]
      BY <1>5, <2>2 DEF Touches, TypeOK
    <3>2. QED BY <1>1, <2>1, <3>1
  <2>3. CASE s = x
    <3>1. session[x] \in Records /\ session'[x] = [session[x] EXCEPT !.lastSeenAt = at[a]]
      BY <1>5, <2>3 DEF Touches, Sees, TypeOK
    <3>2. session'[x] \in Records
      BY <1>5, <2>3, <3>1, RecordUpdate DEF Touches, Sees
    <3>3. /\ session'[x].revision = session[x].revision
          /\ session'[x].revokedAt = session[x].revokedAt
      BY <3>1 DEF Records
    <3>4. QED BY <1>0, <2>1, <3>1, <3>2, <3>3 DEF Quiet, Last
  <2>4. QED BY <2>2, <2>3
<1>6. ASSUME NEW a \in Attempts, NEW s \in Sessions, NEW t \in Tokens, NEW next \in Tokens,
             Rotates(a, s, t, next)
      PROVE  Quiet(x) \/ Tells(x)
  <2>1. CASE s # x
    BY <1>1, <1>2, <1>6, <2>1 DEF Rotates, TypeOK
  <2>2. CASE s = x
    <3>1. /\ session[x] \in Records /\ session[x].revokedAt = None
          /\ session'[x] = [session[x] EXCEPT !.lastSeenAt = at[a],
                                               !.revision = session[x].revision + 1]
      BY <1>6, <2>2 DEF Rotates, Sees, TypeOK
    <3>2. session'[x] \in Records
      BY <1>6, <2>2, <3>1, RecordUpdate DEF Rotates, Sees
    <3>3. /\ session'[x].revision = session[x].revision + 1
          /\ session'[x].revokedAt = None
      BY <3>1 DEF Records
    <3>4. Last(x) = session[x].revision /\ Last(x)' = Last(x) + 1
      BY <1>0, <3>1, <3>2, <3>3 DEF Last
    <3>5. Own(x)' = Own(x) \cup {Event(x, Last(x) + 1, "session_refreshed")}
      BY <1>3, <1>6, <2>2, <3>4 DEF Rotates
    <3>6. QED BY <1>0, <3>2, <3>3, <3>4, <3>5 DEF Tells, Kinds, Endings
  <2>3. QED BY <2>1, <2>2
<1>7. ASSUME NEW a \in Attempts, NEW family \in SUBSET Sessions, Revokes(a, family)
      PROVE  Quiet(x) \/ Tells(x)
  <2>1. PICK kind \in Endings :
          events' = events \cup {Event(s, session[s].revision + 1, kind) : s \in family}
    BY <1>7 DEF Revokes
  <2>2. CASE x \notin family
    <3>1. Own(x)' = Own(x)
      BY <2>1, <2>2 DEF Own, Event
    <3>2. QED BY <1>1, <1>7, <2>2, <3>1 DEF Revokes
  <2>3. CASE x \in family
    <3>1. Own(x)' = Own(x) \cup {Event(x, session[x].revision + 1, kind)}
      BY <2>1, <2>3 DEF Own, Event
    <3>2. /\ session[x] \in Records /\ at[a] \in Nat
          /\ session'[x] = [session[x] EXCEPT !.revokedAt = at[a],
                                               !.revision = session[x].revision + 1]
      BY <1>7, <2>3 DEF Revokes
    <3>3. session'[x] \in Records
      BY <3>2, RecordUpdate
    <3>4. /\ session'[x].revision = session[x].revision + 1
          /\ session'[x].revokedAt = at[a]
      BY <3>2 DEF Records
    <3>5. Last(x) = session[x].revision /\ Last(x)' = Last(x) + 1
      BY <1>0, <3>2, <3>3, <3>4 DEF Last
    <3>6. kind \in Kinds
      BY <2>1 DEF Kinds, Endings
    <3>7. QED BY <1>0, <2>1, <3>1, <3>2, <3>3, <3>4, <3>5, <3>6 DEF Tells
  <2>4. QED BY <2>2, <2>3
<1>8. CASE UNCHANGED <<session, token, events>>
  BY <1>1, <1>8 DEF Own
<1>9. QED BY <1>4, <1>5, <1>6, <1>7, <1>8, StoreStep

(* OutboxComplete for one session, whose events are finitely many: they    *)
(* are counted.                                                            *)
Complete(s) ==
  /\ {e.revision : e \in Own(s)} = 1 .. Last(s)
  /\ IsFiniteSet(Own(s)) /\ Cardinality(Own(s)) = Last(s)
  /\ session[s] # None =>
       (session[s].revokedAt # None <=>
          \E e \in Own(s) : e.revision = Last(s) /\ e.kind \in Endings)

LEMMA OutboxStep ==
  ASSUME TypeOK, [Next]_vars, NEW s \in Sessions, Complete(s)
  PROVE  Complete(s)'
<1>1. Last(s) \in Nat
  BY DEF Last, TypeOK, Records
<1>2. CASE Quiet(s)
  BY <1>2 DEF Quiet, Complete
<1>3. CASE Tells(s)
  <2>1. PICK kind \in Kinds :
          /\ Own(s)' = Own(s) \cup {Event(s, Last(s) + 1, kind)} /\ Last(s)' = Last(s) + 1
          /\ session'[s] # None
          /\ session'[s].revokedAt # None <=> kind \in Endings
    BY <1>3 DEF Tells
  <2> DEFINE e0 == Event(s, Last(s) + 1, kind)
  <2>2. e0.revision = Last(s) + 1 /\ e0.kind = kind
    BY DEF Event
  <2>3. \A e \in Own(s) : e.revision \in 1 .. Last(s)
    BY DEF Complete
  <2> HIDE DEF e0
  <2>4. e0 \notin Own(s)
    BY <1>1, <2>2, <2>3
  <2>5. IsFiniteSet(Own(s)') /\ Cardinality(Own(s)') = Last(s)'
    BY <1>1, <2>1, <2>4, FS_AddElement DEF Complete, e0
  <2>6. {e.revision : e \in Own(s)'} = 1 .. Last(s)'
    <3>1. {e.revision : e \in Own(s)'} = {e.revision : e \in Own(s)} \cup {Last(s) + 1}
      BY <2>1, <2>2 DEF e0
    <3>2. 1 .. (Last(s) + 1) = (1 .. Last(s)) \cup {Last(s) + 1}
      BY <1>1
    <3>3. QED BY <2>1, <3>1, <3>2 DEF Complete
  <2>7. session'[s].revokedAt # None <=>
          \E e \in Own(s)' : e.revision = Last(s)' /\ e.kind \in Endings
    BY <1>1, <2>1, <2>2, <2>3 DEF e0
  <2>8. QED BY <2>5, <2>6, <2>7 DEF Complete
<1>4. QED BY <1>2, <1>3, EventStep

(* The outbox tells every revision of every session, once, and its last    *)
(* event of a session tells whether it was revoked (OutboxComplete).       *)
THEOREM OutboxIsComplete == Spec => []OutboxComplete
<1> DEFINE Inv == \A s \in Sessions : Complete(s)
<1>1. Init => Inv
  <2>1. Init => \A s \in Sessions : Own(s) = {} /\ Last(s) = 0 /\ session[s] = None
    BY DEF Init, Own, Last
  <2>2. {} = 1 .. 0
    OBVIOUS
  <2>3. QED BY <2>1, <2>2, FS_EmptySet DEF Complete
<1>2. TypeOK /\ Inv /\ [Next]_vars => TypeOK' /\ Inv'
  BY NextType, OutboxStep
<1>3. Inv => OutboxComplete
  BY DEF Complete, OutboxComplete, Own, Last, Endings
<1> HIDE DEF Inv
<1>4. QED BY <1>1, <1>2, <1>3, InitType, PTL DEF Spec
===============================================================================
