------------------------------ MODULE RabbitProofs ------------------------------
(***************************************************************************)
(* Theorems about the RabbitMQ strategy, for every number of emits and     *)
(* sessions.  The inductive invariant says what each phase of a session    *)
(* implies for its socket and its promises, that a session that is being   *)
(* built is the initialization everybody shares, that a discarded session  *)
(* is still open only while somebody waits for its disposal, and what the  *)
(* teardown already knows in each of its phases.                           *)
(***************************************************************************)
EXTENDS RabbitPublisher, TLAPS

Building == {"waiting", "connecting", "channel", "asserting", "failing"}

(* What the phase of a session tells about it. *)
SessionOK(s) ==
  /\ phase[s] \in {"unused", "waiting", "connecting"} =>
       socket[s] = "none" /\ disposal[s] = "none"
  /\ phase[s] \in {"channel", "asserting"} =>
       socket[s] = "open" /\ disposal[s] = "none"
  /\ phase[s] = "ready" /\ disposal[s] \in {"none", "running"} => socket[s] = "open"
  /\ phase[s] = "ready" /\ disposal[s] = "none" => resource = s
  /\ phase[s] = "failing" => disposal[s] # "none"
  /\ phase[s] = "failed" => disposal[s] \in {"done", "failed"}
  /\ phase[s] \in Building \cup {"unused"} => outcome[s] = "pending"
  /\ disposal[s] \in {"done", "failed"} => socket[s] # "open"

SessionsOK == \A s \in Sessions : SessionOK(s)

(* There is one builder, everybody who is cold waits for it, and nothing   *)
(* is cached meanwhile.                                                    *)
OneBuilder ==
  /\ \A s \in Sessions : phase[s] \in Building => initialization = s /\ resource = None
  /\ \A e \in Emits : pc[e] = "initiate" => holds[e] = initialization
  /\ \A e, f \in Emits : pc[e] = "initiate" /\ pc[f] = "initiate" => e = f

(* A connection is only asked for when no other one is open. *)
ConnectsAlone ==
  \A s, t \in Sessions : phase[s] = "connecting" => socket[t] # "open"

(* Before the teardown takes over, the session that is being disposed is   *)
(* the one the next initialization waits for.                              *)
CleanupIsLast ==
  \A s \in Sessions : phase[s] = "ready" /\ disposal[s] = "running" =>
    cleanup = s \/ destruction \in {"dispose", "cleanup", "done", "failed"}

TeardownOK ==
  /\ stopped <=> destruction # "none"
  /\ stopped => \A s \in Sessions : phase[s] \in Building =>
                  destruction = "initialization" /\ awaited = s
  /\ destruction \in {"dispose", "cleanup", "done", "failed"} => resource = None
  /\ destruction = "dispose" => /\ taken \in Sessions /\ disposal[taken] # "none"
                                /\ \A s \in Sessions : socket[s] = "open" => s = taken
  /\ destruction = "cleanup" => \A s \in Sessions : socket[s] = "open" => s = cleanup
  /\ destruction \in {"done", "failed"} => \A s \in Sessions : socket[s] # "open"

PublisherInv ==
  /\ TypeOK /\ OneConnection /\ CachedIsUsable
  /\ SessionsOK /\ OneBuilder /\ ConnectsAlone /\ CleanupIsLast /\ TeardownOK
-------------------------------------------------------------------------------
LEMMA InitPublisher == Init => PublisherInv
<1> SUFFICES ASSUME Init PROVE PublisherInv
  OBVIOUS
<1>1. TypeOK /\ OneConnection /\ CachedIsUsable
  BY DEF Init, TypeOK, OneConnection, CachedIsUsable
<1>2. SessionsOK
  BY DEF Init, SessionsOK, SessionOK, Building
<1>3. OneBuilder /\ ConnectsAlone /\ CleanupIsLast /\ TeardownOK
  BY DEF Init, OneBuilder, ConnectsAlone, CleanupIsLast, TeardownOK, Building
<1>q. QED BY <1>1, <1>2, <1>3 DEF PublisherInv

(* The steps of the emits. *)
LEMMA EmitKeeps ==
  ASSUME RabbitAssumption, PublisherInv, NEW e \in Emits, Emit(e) PROVE PublisherInv'
<1> USE DEF PublisherInv, RabbitAssumption
<1>0. /\ pc[e] = "idle" /\ ~stopped
      /\ UNCHANGED <<stopped, resource, cleanup, destruction, socket, invalid, disposal,
                     outcome, awaited, taken>>
  BY DEF Emit
<1>1. CASE /\ UNCHANGED <<initialization, phase>>
           /\ \/ /\ holds' = [holds EXCEPT ![e] = initialization]
                 /\ pc' = [pc EXCEPT ![e] = "share"] /\ initialization # None
              \/ /\ holds' = [holds EXCEPT ![e] = resource]
                 /\ pc' = [pc EXCEPT ![e] = "publish"] /\ resource # None
  <2>1. TypeOK'
    BY <1>0, <1>1 DEF TypeOK
  <2>2. OneConnection' /\ CachedIsUsable' /\ SessionsOK' /\ ConnectsAlone' /\ CleanupIsLast'
        /\ TeardownOK'
    BY <1>0, <1>1 DEF OneConnection, CachedIsUsable, SessionsOK, SessionOK, ConnectsAlone,
                      CleanupIsLast, TeardownOK
  <2>3. OneBuilder'
    BY <1>0, <1>1 DEF OneBuilder, TypeOK
  <2>q. QED BY <2>1, <2>2, <2>3
<1>2. CASE /\ initialization = None /\ resource = None
           /\ \E s \in Sessions :
                /\ phase[s] = "unused"
                /\ initialization' = s
                /\ phase' = [phase EXCEPT ![s] = "waiting"]
                /\ holds' = [holds EXCEPT ![e] = s]
                /\ pc' = [pc EXCEPT ![e] = "initiate"]
  <2>1. PICK s \in Sessions :
                /\ phase[s] = "unused"
                /\ initialization' = s
                /\ phase' = [phase EXCEPT ![s] = "waiting"]
                /\ holds' = [holds EXCEPT ![e] = s]
                /\ pc' = [pc EXCEPT ![e] = "initiate"]
    BY <1>2
  <2>2. TypeOK'
    BY <1>0, <2>1 DEF TypeOK
  <2>3. phase'[s] = "waiting" /\ \A t \in Sessions : t # s => phase'[t] = phase[t]
    BY <2>1 DEF TypeOK
  <2>4. \A t \in Sessions : phase[t] \notin Building
    BY <1>2 DEF OneBuilder
  <2>5. outcome[s] = "pending"
    BY <2>1 DEF SessionsOK, SessionOK
  <2>6. OneConnection' /\ CachedIsUsable' /\ ConnectsAlone' /\ CleanupIsLast' /\ TeardownOK'
    BY <1>0, <2>1, <2>3 DEF OneConnection, CachedIsUsable, ConnectsAlone, CleanupIsLast,
                            TeardownOK, TypeOK
  <2>7. SessionsOK'
    BY <1>0, <2>1, <2>3, <2>5 DEF SessionsOK, SessionOK, Building
  <2>8. OneBuilder'
    <3>1. \A f \in Emits : pc[f] # "initiate"
      BY <1>2, RabbitAssumption DEF OneBuilder, TypeOK
    <3>2. \A f \in Emits : pc'[f] = "initiate" => f = e
      BY <2>1, <3>1 DEF TypeOK
    <3>3. holds'[e] = s
      BY <2>1 DEF TypeOK
    <3>4. \A t \in Sessions : phase'[t] \in Building => t = s
      BY <2>3, <2>4
    <3>q. QED BY <1>0, <1>2, <2>1, <3>2, <3>3, <3>4 DEF OneBuilder
  <2>q. QED BY <2>2, <2>6, <2>7, <2>8
<1>q. QED BY <1>0, <1>1, <1>2 DEF Emit

LEMMA ContinueKeeps ==
  ASSUME RabbitAssumption, PublisherInv, NEW e \in Emits, Continue(e) PROVE PublisherInv'
<1> USE DEF PublisherInv, RabbitAssumption
<1>1. /\ UNCHANGED <<stopped, resource, cleanup, destruction, sessions, awaited, taken>>
      /\ \/ initialization' = initialization
         \/ initialization' = None /\ pc[e] = "initiate" /\ outcome[holds[e]] # "pending"
      /\ \E p \in {"idle", "publish", "published"} : pc' = [pc EXCEPT ![e] = p]
      /\ holds' = holds \/ (holds' = [holds EXCEPT ![e] = None] /\ pc'[e] = "idle")
      /\ pc[e] # "idle"
  <2>1. CASE Settled(e)
    <3>1. pc[e] \in {"initiate", "share"} /\ outcome[holds[e]] # "pending"
          /\ UNCHANGED <<stopped, resource, cleanup, destruction, sessions, awaited, taken>>
      BY <2>1 DEF Settled
    <3>2. initialization' = IF pc[e] = "initiate" THEN None ELSE initialization
      BY <2>1 DEF Settled
    <3>3. \/ pc' = [pc EXCEPT ![e] = "publish"] /\ holds' = holds
          \/ pc' = [pc EXCEPT ![e] = "idle"] /\ holds' = [holds EXCEPT ![e] = None]
      BY <2>1 DEF Settled
    <3>4. \E p \in {"idle", "publish", "published"} : pc' = [pc EXCEPT ![e] = p]
      BY <3>3
    <3>5. holds' = holds \/ (holds' = [holds EXCEPT ![e] = None] /\ pc'[e] = "idle")
      BY <3>3 DEF TypeOK
    <3>q. QED BY <3>1, <3>2, <3>4, <3>5
  <2>2. CASE Publish(e)
    <3>1. \/ pc' = [pc EXCEPT ![e] = "published"] /\ holds' = [holds EXCEPT ![e] = holds[e]]
          \/ pc' = [pc EXCEPT ![e] = "idle"] /\ holds' = [holds EXCEPT ![e] = None]
      BY <2>2 DEF Publish
    <3>2. [holds EXCEPT ![e] = holds[e]] = holds
      BY DEF TypeOK
    <3>3. \E p \in {"idle", "publish", "published"} : pc' = [pc EXCEPT ![e] = p]
      BY <3>1
    <3>4. holds' = holds \/ (holds' = [holds EXCEPT ![e] = None] /\ pc'[e] = "idle")
      BY <3>1, <3>2 DEF TypeOK
    <3>5. pc[e] = "publish" /\ UNCHANGED <<strategy, sessions, awaited, taken>>
      BY <2>2 DEF Publish
    <3>q. QED BY <3>3, <3>4, <3>5 DEF strategy
  <2>3. CASE Answer(e)
    BY <2>3 DEF Answer, strategy, TypeOK
  <2>q. QED BY <2>1, <2>2, <2>3 DEF Continue
<1>2. TypeOK'
  BY <1>1 DEF TypeOK, sessions
<1>3. OneConnection' /\ CachedIsUsable' /\ SessionsOK' /\ ConnectsAlone' /\ CleanupIsLast'
      /\ TeardownOK'
  BY <1>1 DEF OneConnection, CachedIsUsable, SessionsOK, SessionOK, ConnectsAlone,
              CleanupIsLast, TeardownOK, sessions
<1>4. OneBuilder'
  <2>1. \A f \in Emits : pc'[f] = "initiate" =>
          f # e /\ pc[f] = "initiate" /\ holds'[f] = holds[f]
    BY <1>1 DEF TypeOK
  <2>2. CASE initialization' = initialization
    BY <1>1, <2>1, <2>2 DEF OneBuilder, sessions
  <2>3. CASE initialization' = None /\ pc[e] = "initiate" /\ outcome[holds[e]] # "pending"
    <3>1. \A s \in Sessions : phase[s] \notin Building
      BY <2>3 DEF OneBuilder, SessionsOK, SessionOK
    <3>2. \A f \in Emits : pc'[f] # "initiate"
      BY <2>1, <2>3 DEF OneBuilder
    <3>q. QED BY <1>1, <3>1, <3>2 DEF OneBuilder, sessions
  <2>q. QED BY <1>1, <2>2, <2>3
<1>q. QED BY <1>2, <1>3, <1>4

(* A session that is being built gives up and is disposed. *)
LEMMA FailKeeps ==
  ASSUME RabbitAssumption, PublisherInv, NEW s \in Sessions, Fail(s),
         phase[s] \in {"waiting", "connecting", "channel", "asserting"}
  PROVE  PublisherInv'
<1> USE DEF PublisherInv, RabbitAssumption
<1>1. /\ UNCHANGED <<strategy, socket, outcome, pc, holds, awaited, taken>>
      /\ phase'[s] = "failing" /\ \A t \in Sessions : t # s => phase'[t] = phase[t]
      /\ disposal'[s] = "running" /\ \A t \in Sessions : t # s => disposal'[t] = disposal[t]
      /\ \A t \in Sessions : t # s => invalid'[t] = invalid[t]
      /\ disposal[s] = "none"
  BY DEF Fail, Dispose, TypeOK, SessionsOK, SessionOK
<1>2. TypeOK'
  BY DEF Fail, Dispose, TypeOK, strategy
<1>3. OneConnection' /\ ConnectsAlone' /\ CleanupIsLast'
  BY <1>1 DEF OneConnection, ConnectsAlone, CleanupIsLast, strategy
<1>4. resource # s
  BY DEF OneBuilder, Building
<1>5. CachedIsUsable'
  BY <1>1, <1>4 DEF CachedIsUsable, strategy, TypeOK
<1>6. SessionsOK'
  BY <1>1 DEF SessionsOK, SessionOK, strategy, Building, TypeOK
<1>7. OneBuilder'
  BY <1>1 DEF OneBuilder, strategy, Building
<1>8. TeardownOK'
  BY <1>1 DEF TeardownOK, strategy, Building
<1>q. QED BY <1>2, <1>3, <1>5, <1>6, <1>7, <1>8

(* A session that is being built takes its next step. *)
LEMMA InitializeKeeps ==
  ASSUME RabbitAssumption, PublisherInv, NEW s \in Sessions, Initialize(s)
  PROVE  PublisherInv'
<1> USE DEF PublisherInv, RabbitAssumption
<1>1. CASE Fail(s) /\ phase[s] \in {"waiting", "connecting", "channel", "asserting"}
  BY <1>1, FailKeeps
<1>2. CASE /\ phase[s] = "waiting" /\ CleanedUp /\ ~stopped
           /\ phase' = [phase EXCEPT ![s] = "connecting"]
           /\ UNCHANGED <<strategy, socket, invalid, disposal, outcome, pc, holds, awaited,
                          taken>>
  <2>1. phase'[s] = "connecting" /\ \A t \in Sessions : t # s => phase'[t] = phase[t]
    BY <1>2 DEF TypeOK
  <2>2. TypeOK' /\ OneConnection' /\ CachedIsUsable' /\ CleanupIsLast'
    BY <1>2, <2>1 DEF TypeOK, OneConnection, CachedIsUsable, CleanupIsLast, strategy
  <2>3. SessionsOK' /\ OneBuilder' /\ TeardownOK'
    BY <1>2, <2>1 DEF SessionsOK, SessionOK, OneBuilder, TeardownOK, strategy, Building
  <2>4. ASSUME NEW t \in Sessions PROVE socket[t] # "open"
    <3>1. initialization = s /\ resource = None /\ destruction = "none"
      BY <1>2 DEF OneBuilder, TeardownOK, Building
    <3>2. t # s /\ phase[t] \in Building => FALSE
      BY <3>1 DEF OneBuilder
    <3>3. CASE t = s
      BY <1>2, <3>3 DEF SessionsOK, SessionOK
    <3>4. CASE phase[t] = "ready"
      <4>1. disposal[t] # "none"
        BY <3>1, <3>4 DEF SessionsOK, SessionOK
      <4>2. CASE disposal[t] = "running"
        <5>1. cleanup = t
          BY <3>1, <3>4, <4>2 DEF CleanupIsLast
        <5>q. QED BY <1>2, <4>2, <5>1 DEF CleanedUp
      <4>3. CASE disposal[t] \in {"done", "failed"}
        BY <4>3 DEF SessionsOK, SessionOK
      <4>q. QED BY <4>1, <4>2, <4>3 DEF TypeOK
    <3>5. CASE phase[t] \in {"unused", "failed"}
      BY <3>5 DEF SessionsOK, SessionOK
    <3>q. QED BY <3>2, <3>3, <3>4, <3>5 DEF TypeOK, Building
  <2>5. ConnectsAlone'
    BY <1>2, <2>4 DEF ConnectsAlone
  <2>q. QED BY <2>2, <2>3, <2>5
<1>3. CASE /\ phase[s] = "connecting"
           /\ socket' = [socket EXCEPT ![s] = "open"]
           /\ phase' = [phase EXCEPT ![s] = "channel"]
           /\ UNCHANGED <<strategy, invalid, disposal, outcome, pc, holds, awaited, taken>>
  <2>1. /\ phase'[s] = "channel" /\ \A t \in Sessions : t # s => phase'[t] = phase[t]
        /\ socket'[s] = "open" /\ \A t \in Sessions : t # s => socket'[t] = socket[t]
    BY <1>3 DEF TypeOK
  <2>2. TypeOK' /\ OneConnection' /\ CachedIsUsable' /\ CleanupIsLast'
    BY <1>3, <2>1 DEF TypeOK, OneConnection, CachedIsUsable, CleanupIsLast, strategy,
                      ConnectsAlone
  <2>3. SessionsOK' /\ OneBuilder'
    BY <1>3, <2>1 DEF SessionsOK, SessionOK, OneBuilder, strategy, Building
  <2>4. ConnectsAlone'
    <3>1. \A t \in Sessions : phase'[t] # "connecting"
      BY <1>3, <2>1 DEF OneBuilder, Building
    <3>q. QED BY <3>1 DEF ConnectsAlone
  <2>5. TeardownOK'
    BY <1>3, <2>1 DEF TeardownOK, strategy, Building
  <2>q. QED BY <2>2, <2>3, <2>4, <2>5
<1>4. CASE /\ phase[s] = "channel"
           /\ phase' = [phase EXCEPT ![s] = "asserting"]
           /\ UNCHANGED <<strategy, socket, invalid, disposal, outcome, pc, holds, awaited,
                          taken>>
  <2>1. phase'[s] = "asserting" /\ \A t \in Sessions : t # s => phase'[t] = phase[t]
    BY <1>4 DEF TypeOK
  <2>2. TypeOK' /\ OneConnection' /\ CachedIsUsable' /\ CleanupIsLast' /\ ConnectsAlone'
    BY <1>4, <2>1 DEF TypeOK, OneConnection, CachedIsUsable, CleanupIsLast, strategy,
                      ConnectsAlone
  <2>3. SessionsOK' /\ OneBuilder' /\ TeardownOK'
    BY <1>4, <2>1 DEF SessionsOK, SessionOK, OneBuilder, TeardownOK, strategy, Building
  <2>q. QED BY <2>2, <2>3
<1>5. CASE /\ phase[s] = "asserting" /\ ~Interrupted(s)
           /\ phase' = [phase EXCEPT ![s] = "ready"]
           /\ resource' = s
           /\ outcome' = [outcome EXCEPT ![s] = "resolved"]
           /\ UNCHANGED <<stopped, initialization, cleanup, destruction, socket, invalid,
                          disposal, pc, holds, awaited, taken>>
  <2>1. /\ phase'[s] = "ready" /\ \A t \in Sessions : t # s => phase'[t] = phase[t]
        /\ \A t \in Sessions : t # s => outcome'[t] = outcome[t]
        /\ ~stopped /\ ~invalid[s] /\ destruction = "none"
    BY <1>5 DEF TypeOK, Interrupted, TeardownOK
  <2>2. /\ socket[s] = "open" /\ disposal[s] = "none" /\ resource = None
        /\ initialization = s
        /\ \A t \in Sessions : t # s => phase[t] \notin Building
    BY <1>5 DEF SessionsOK, SessionOK, OneBuilder, Building, TypeOK
  <2>3. TypeOK' /\ OneConnection' /\ CachedIsUsable' /\ CleanupIsLast' /\ ConnectsAlone'
    BY <1>5, <2>1, <2>2 DEF TypeOK, OneConnection, CachedIsUsable, CleanupIsLast,
                            ConnectsAlone
  <2>4. SessionsOK'
    <3>1. SessionOK(s)'
      BY <1>5, <2>1, <2>2 DEF SessionOK, Building
    <3>2. ASSUME NEW t \in Sessions, t # s PROVE SessionOK(t)'
      BY <1>5, <2>1, <2>2, <3>2 DEF SessionsOK, SessionOK
    <3>q. QED BY <3>1, <3>2 DEF SessionsOK
  <2>5. OneBuilder'
    <3>1. \A t \in Sessions : phase'[t] \notin Building
      BY <2>1, <2>2 DEF Building
    <3>q. QED BY <1>5, <3>1 DEF OneBuilder
  <2>6. TeardownOK'
    BY <1>5, <2>1 DEF TeardownOK
  <2>q. QED BY <2>3, <2>4, <2>5, <2>6
<1>6. CASE Rejected(s)
  <2>1. /\ phase[s] = "failing" /\ disposal[s] \in {"done", "failed"}
        /\ phase'[s] = "failed" /\ \A t \in Sessions : t # s => phase'[t] = phase[t]
        /\ \A t \in Sessions : t # s => outcome'[t] = outcome[t]
        /\ UNCHANGED <<strategy, socket, invalid, disposal, pc, holds, awaited, taken>>
    BY <1>6 DEF Rejected, TypeOK
  <2>2. TypeOK'
    BY <1>6 DEF Rejected, TypeOK, strategy
  <2>3. OneConnection' /\ CachedIsUsable' /\ CleanupIsLast' /\ ConnectsAlone'
    BY <2>1 DEF OneConnection, CachedIsUsable, CleanupIsLast, strategy, ConnectsAlone,
                OneBuilder, Building
  <2>4. SessionsOK' /\ OneBuilder' /\ TeardownOK'
    BY <2>1 DEF SessionsOK, SessionOK, OneBuilder, TeardownOK, strategy, Building
  <2>q. QED BY <2>2, <2>3, <2>4
<1>q. QED
  BY <1>1, <1>2, <1>3, <1>4, <1>5, <1>6
  DEF Initialize, Connect, Connected, ChannelCreated, ExchangeAsserted

(* The sockets of a discarded session are closed. *)
LEMMA ClosedKeeps ==
  ASSUME RabbitAssumption, PublisherInv, NEW s \in Sessions, Closed(s) PROVE PublisherInv'
<1> USE DEF PublisherInv, RabbitAssumption
<1>1. /\ disposal[s] = "running" /\ disposal'[s] \in {"done", "failed"}
      /\ \A t \in Sessions : t # s => disposal'[t] = disposal[t] /\ socket'[t] = socket[t]
      /\ socket'[s] \in {"none", "closed"}
      /\ socket[s] # "open" => socket'[s] = socket[s]
      /\ UNCHANGED <<strategy, phase, invalid, outcome, pc, holds, awaited, taken>>
  BY DEF Closed, TypeOK
<1>2. TypeOK'
  BY DEF Closed, TypeOK, strategy
<1>3. resource # s
  BY <1>1 DEF CachedIsUsable
<1>4. phase[s] \in {"ready", "failing", "failed"}
  BY <1>1 DEF SessionsOK, SessionOK, TypeOK
<1>5. OneConnection' /\ CachedIsUsable' /\ ConnectsAlone' /\ CleanupIsLast' /\ OneBuilder'
  BY <1>1, <1>3 DEF OneConnection, CachedIsUsable, ConnectsAlone, CleanupIsLast, OneBuilder,
                    strategy, TypeOK
<1>6. SessionsOK'
  BY <1>1, <1>4 DEF SessionsOK, SessionOK, strategy, Building
<1>7. TeardownOK'
  BY <1>1 DEF TeardownOK, strategy
<1>q. QED BY <1>2, <1>5, <1>6, <1>7

(* A broker event discards the cached session, or comes too late. *)
LEMMA InvalidateKeeps ==
  ASSUME RabbitAssumption, PublisherInv, NEW s \in Sessions, Invalidate(s)
  PROVE  PublisherInv'
<1> USE DEF PublisherInv, RabbitAssumption
<1>1. /\ UNCHANGED <<stopped, initialization, destruction, phase, socket, outcome, pc, holds,
                     awaited, taken>>
      /\ \A t \in Sessions : t # s => invalid'[t] = invalid[t]
      /\ invalid' \in [Sessions -> BOOLEAN]
  BY DEF Invalidate, Dispose, TypeOK
<1>2. CASE resource # s /\ UNCHANGED <<resource, cleanup, disposal>>
  <2>1. TypeOK'
    BY <1>1, <1>2 DEF TypeOK
  <2>2. OneConnection' /\ CachedIsUsable' /\ ConnectsAlone' /\ CleanupIsLast' /\ OneBuilder'
    BY <1>1, <1>2 DEF OneConnection, CachedIsUsable, ConnectsAlone, CleanupIsLast,
                      OneBuilder, TypeOK
  <2>3. SessionsOK' /\ TeardownOK'
    BY <1>1, <1>2 DEF SessionsOK, SessionOK, TeardownOK
  <2>q. QED BY <2>1, <2>2, <2>3
<1>3. CASE resource = s /\ resource' = None /\ cleanup' = s /\ Dispose(s)
  <2>1. /\ phase[s] = "ready" /\ socket[s] = "open" /\ disposal[s] = "none"
        /\ \A t \in Sessions : t # s => socket[t] # "open"
        /\ destruction \in {"none", "initialization"}
    BY <1>3 DEF CachedIsUsable, OneConnection, TeardownOK, TypeOK
  <2>2. /\ disposal'[s] = "running" /\ disposal' \in [Sessions -> {"none", "running", "done", "failed"}]
        /\ \A t \in Sessions : t # s => disposal'[t] = disposal[t]
    BY <1>3, <2>1 DEF Dispose, TypeOK
  <2>3. TypeOK'
    BY <1>1, <1>3, <2>2 DEF TypeOK
  <2>4. OneConnection' /\ CachedIsUsable' /\ ConnectsAlone' /\ OneBuilder'
    BY <1>1, <1>3 DEF OneConnection, CachedIsUsable, ConnectsAlone, OneBuilder
  <2>5. SessionsOK'
    BY <1>1, <1>3, <2>1, <2>2 DEF SessionsOK, SessionOK, Building
  <2>6. CleanupIsLast'
    <3>1. ASSUME NEW t \in Sessions, t # s, phase[t] = "ready", disposal[t] = "running"
          PROVE  FALSE
      BY <2>1, <3>1 DEF SessionsOK, SessionOK
    <3>q. QED BY <1>1, <1>3, <2>2, <3>1 DEF CleanupIsLast
  <2>7. TeardownOK'
    BY <1>1, <1>3, <2>1 DEF TeardownOK
  <2>q. QED BY <2>3, <2>4, <2>5, <2>6, <2>7
<1>q. QED BY <1>2, <1>3 DEF Invalidate

LEMMA DestroyKeeps ==
  ASSUME RabbitAssumption, PublisherInv, Destroy PROVE PublisherInv'
<1> USE DEF PublisherInv, RabbitAssumption
<1>1. /\ destruction = "none" /\ destruction' = "initialization" /\ stopped'
      /\ awaited' = initialization /\ stopped' \in BOOLEAN
      /\ UNCHANGED <<resource, initialization, cleanup, sessions, pc, holds, taken>>
  BY DEF Destroy
<1>2. TypeOK'
  BY <1>1 DEF TypeOK, sessions
<1>3. OneConnection' /\ CachedIsUsable' /\ ConnectsAlone' /\ CleanupIsLast' /\ OneBuilder'
      /\ SessionsOK'
  BY <1>1 DEF OneConnection, CachedIsUsable, ConnectsAlone, CleanupIsLast, OneBuilder,
              SessionsOK, SessionOK, sessions
<1>4. TeardownOK'
  BY <1>1 DEF TeardownOK, OneBuilder, sessions
<1>q. QED BY <1>2, <1>3, <1>4

LEMMA TeardownKeeps ==
  ASSUME RabbitAssumption, PublisherInv, Teardown PROVE PublisherInv'
<1> USE DEF PublisherInv, RabbitAssumption
<1>1. CASE TakeResource
  <2>1. /\ destruction = "initialization" /\ taken' = resource /\ resource' = None
        /\ awaited # None => outcome[awaited] # "pending"
        /\ UNCHANGED <<stopped, initialization, cleanup, phase, socket, outcome, pc, holds,
                       awaited>>
    BY <1>1 DEF TakeResource
  <2>2. stopped /\ \A s \in Sessions : phase[s] \notin Building
    <3>1. stopped
      BY <2>1 DEF TeardownOK
    <3>2. ASSUME NEW s \in Sessions, phase[s] \in Building PROVE FALSE
      <4>1. awaited = s /\ outcome[s] = "pending"
        BY <3>1, <3>2 DEF TeardownOK, SessionsOK, SessionOK
      <4>q. QED BY <2>1, <4>1
    <3>q. QED BY <3>1, <3>2
  <2>3. CASE resource = None /\ destruction' = "cleanup" /\ UNCHANGED <<invalid, disposal>>
    <3>1. TypeOK'
      BY <2>1, <2>3 DEF TypeOK
    <3>2. OneConnection' /\ CachedIsUsable' /\ ConnectsAlone' /\ CleanupIsLast' /\ OneBuilder'
          /\ SessionsOK'
      BY <2>1, <2>3 DEF OneConnection, CachedIsUsable, ConnectsAlone, CleanupIsLast,
                        OneBuilder, SessionsOK, SessionOK
    <3>3. ASSUME NEW s \in Sessions, socket[s] = "open" PROVE s = cleanup
      <4>1. phase[s] = "ready"
        BY <2>2, <3>3 DEF SessionsOK, SessionOK, TypeOK, Building
      <4>2. disposal[s] = "running"
        BY <2>3, <3>3, <4>1 DEF SessionsOK, SessionOK, TypeOK
      <4>q. QED BY <2>1, <4>1, <4>2 DEF CleanupIsLast
    <3>4. TeardownOK'
      BY <2>1, <2>2, <2>3, <3>3 DEF TeardownOK
    <3>q. QED BY <3>1, <3>2, <3>4
  <2>4. CASE resource # None /\ destruction' = "dispose" /\ Dispose(resource)
    <3>1. /\ resource \in Sessions /\ phase[resource] = "ready"
          /\ socket[resource] = "open" /\ disposal[resource] = "none"
          /\ \A t \in Sessions : socket[t] = "open" => t = resource
      BY <2>4 DEF CachedIsUsable, OneConnection, TypeOK
    <3>2. /\ disposal'[resource] = "running"
          /\ disposal' \in [Sessions -> {"none", "running", "done", "failed"}]
          /\ \A t \in Sessions : t # resource => disposal'[t] = disposal[t]
          /\ invalid' \in [Sessions -> BOOLEAN]
      BY <2>4, <3>1 DEF Dispose, TypeOK
    <3>3. TypeOK'
      BY <2>1, <2>4, <3>2 DEF TypeOK
    <3>4. OneConnection' /\ CachedIsUsable' /\ ConnectsAlone' /\ CleanupIsLast' /\ OneBuilder'
      BY <2>1, <2>4 DEF OneConnection, CachedIsUsable, ConnectsAlone, CleanupIsLast, OneBuilder
    <3>5. SessionsOK'
      BY <2>1, <3>1, <3>2 DEF SessionsOK, SessionOK, Building
    <3>6. TeardownOK'
      BY <2>1, <2>2, <2>4, <3>1, <3>2 DEF TeardownOK
    <3>q. QED BY <3>3, <3>4, <3>5, <3>6
  <2>q. QED BY <1>1, <2>3, <2>4 DEF TakeResource
<1>2. CASE Disposed
  <2>1. /\ destruction = "dispose"
        /\ \/ disposal[taken] = "done" /\ destruction' = "cleanup"
           \/ disposal[taken] = "failed" /\ destruction' = "failed"
        /\ UNCHANGED <<stopped, resource, initialization, cleanup, sessions, pc, holds,
                       awaited, taken>>
    BY <1>2 DEF Disposed
  <2>2. TypeOK'
    BY <2>1 DEF TypeOK, sessions
  <2>3. OneConnection' /\ CachedIsUsable' /\ ConnectsAlone' /\ CleanupIsLast' /\ OneBuilder'
        /\ SessionsOK'
    BY <2>1 DEF OneConnection, CachedIsUsable, ConnectsAlone, CleanupIsLast, OneBuilder,
                SessionsOK, SessionOK, sessions, TeardownOK
  <2>4. \A s \in Sessions : socket[s] # "open"
    BY <2>1 DEF TeardownOK, SessionsOK, SessionOK
  <2>5. TeardownOK'
    BY <2>1, <2>4 DEF TeardownOK, sessions
  <2>q. QED BY <2>2, <2>3, <2>5
<1>3. CASE Destroyed
  <2>1. /\ destruction = "cleanup" /\ CleanedUp /\ destruction' = "done"
        /\ UNCHANGED <<stopped, resource, initialization, cleanup, sessions, pc, holds,
                       awaited, taken>>
    BY <1>3 DEF Destroyed
  <2>2. TypeOK'
    BY <2>1 DEF TypeOK, sessions
  <2>3. OneConnection' /\ CachedIsUsable' /\ ConnectsAlone' /\ CleanupIsLast' /\ OneBuilder'
        /\ SessionsOK'
    BY <2>1 DEF OneConnection, CachedIsUsable, ConnectsAlone, CleanupIsLast, OneBuilder,
                SessionsOK, SessionOK, sessions, TeardownOK
  <2>4. \A s \in Sessions : socket[s] # "open"
    BY <2>1 DEF TeardownOK, SessionsOK, SessionOK, CleanedUp
  <2>5. TeardownOK'
    BY <2>1, <2>4 DEF TeardownOK, sessions
  <2>q. QED BY <2>2, <2>3, <2>5
<1>q. QED BY <1>1, <1>2, <1>3 DEF Teardown

LEMMA PublisherInvariant == Spec => []PublisherInv
<1>1. Init => PublisherInv
  BY InitPublisher
<1>2. PublisherInv /\ [Next]_vars => PublisherInv'
  <2> SUFFICES ASSUME PublisherInv, [Next]_vars PROVE PublisherInv'
    OBVIOUS
  <2>1. CASE UNCHANGED vars
    BY <2>1 DEF vars, PublisherInv, TypeOK, OneConnection, CachedIsUsable, SessionsOK,
                SessionOK, OneBuilder, ConnectsAlone, CleanupIsLast, TeardownOK
  <2>2. ASSUME NEW e \in Emits, Emit(e) \/ Continue(e) PROVE PublisherInv'
    BY <2>2, EmitKeeps, ContinueKeeps, RabbitAssumption
  <2>3. ASSUME NEW s \in Sessions, Initialize(s) \/ Closed(s) \/ Invalidate(s)
        PROVE  PublisherInv'
    BY <2>3, InitializeKeeps, ClosedKeeps, InvalidateKeeps, RabbitAssumption
  <2>4. CASE Destroy \/ Teardown
    BY <2>4, DestroyKeeps, TeardownKeeps, RabbitAssumption
  <2>q. QED BY <2>1, <2>2, <2>3, <2>4 DEF Next
<1>q. QED BY <1>1, <1>2, PTL DEF Spec
-------------------------------------------------------------------------------
(* Every variable keeps its type. *)
THEOREM TypeCorrect == Spec => []TypeOK
<1>1. PublisherInv => TypeOK
  BY DEF PublisherInv
<1>q. QED BY <1>1, PublisherInvariant, PTL

(* However emits, broker events and shutdown interleave, initialize()      *)
(* never opens a connection while another one is open.                     *)
THEOREM ConnectionsUnique == Spec => []OneConnection
<1>1. PublisherInv => OneConnection
  BY DEF PublisherInv
<1>q. QED BY <1>1, PublisherInvariant, PTL

(* The channel the strategy caches is set up, open and valid. *)
THEOREM CacheUsable == Spec => []CachedIsUsable
<1>1. PublisherInv => CachedIsUsable
  BY DEF PublisherInv
<1>q. QED BY <1>1, PublisherInvariant, PTL

(* After onModuleDestroy() settled there is no connection and no setup.    *)
THEOREM ShutdownFinal == Spec => []ShutdownIsFinal
<1>1. PublisherInv => ShutdownIsFinal
  <2> SUFFICES ASSUME PublisherInv, destruction \in {"done", "failed"}, NEW s \in Sessions
               PROVE  /\ resource = None /\ socket[s] # "open"
                      /\ phase[s] \in {"unused", "ready", "failed"}
    BY DEF ShutdownIsFinal, PublisherInv, TeardownOK
  <2>1. resource = None /\ socket[s] # "open" /\ stopped
    BY DEF PublisherInv, TeardownOK
  <2>2. phase[s] \notin Building
    BY <2>1 DEF PublisherInv, TeardownOK
  <2>q. QED BY <2>1, <2>2 DEF PublisherInv, TypeOK, Building
<1>q. QED BY <1>1, PublisherInvariant, PTL

(* publish() only ever writes to the channel that is cached, open and      *)
(* valid at that moment.                                                   *)
THEOREM PublishesCurrent == Spec => PublishesAreCurrent
<1>1. PublisherInv /\ [Next]_vars =>
        [\A e \in Emits : pc[e] # "published" /\ pc'[e] = "published" =>
           /\ ~stopped /\ resource = holds[e]
           /\ socket[holds[e]] = "open" /\ ~invalid[holds[e]]]_vars
  <2> SUFFICES ASSUME PublisherInv, Next, NEW e \in Emits,
                      pc[e] # "published", pc'[e] = "published"
               PROVE  /\ ~stopped /\ resource = holds[e]
                      /\ socket[holds[e]] = "open" /\ ~invalid[holds[e]]
    OBVIOUS
  <2>1. Publish(e) /\ Publishable(e)
    <3>1. ASSUME NEW f \in Emits, Emit(f) PROVE FALSE
      BY <3>1 DEF Emit, PublisherInv, TypeOK
    <3>2. ASSUME NEW f \in Emits, Settled(f) \/ Answer(f) PROVE FALSE
      BY <3>2 DEF Settled, Answer, PublisherInv, TypeOK
    <3>3. ASSUME NEW f \in Emits, Publish(f) PROVE f = e /\ Publishable(e)
      BY <3>3 DEF Publish, PublisherInv, TypeOK
    <3>4. ASSUME NEW s \in Sessions, Initialize(s) PROVE FALSE
      BY <3>4 DEF Initialize, Connect, Connected, ChannelCreated, ExchangeAsserted, Rejected,
                  Fail
    <3>5. ASSUME NEW s \in Sessions, Closed(s) \/ Invalidate(s) PROVE FALSE
      BY <3>5 DEF Closed, Invalidate
    <3>6. ASSUME Destroy \/ Teardown PROVE FALSE
      BY <3>6 DEF Destroy, Teardown, TakeResource, Disposed, Destroyed
    <3>q. QED BY <3>1, <3>2, <3>3, <3>4, <3>5, <3>6 DEF Next, Continue
  <2>2. holds[e] # None
    BY <2>1 DEF Publish, PublisherInv, TypeOK
  <2>q. QED BY <2>1, <2>2 DEF Publishable, PublisherInv, CachedIsUsable
<1>q. QED BY <1>1, PublisherInvariant, PTL DEF Spec, PublishesAreCurrent
===============================================================================
