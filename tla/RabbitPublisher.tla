---------------------------- MODULE RabbitPublisher ----------------------------
(***************************************************************************)
(* RabbitMqEventStrategy of packages/api-strategy: concurrent emits share  *)
(* one lazily built connection and channel, broker events invalidate it at *)
(* any moment, and one shutdown takes it down.  The promises of the code   *)
(* are values here: an initialization, its connection and its disposal all *)
(* belong to one session object, so the session names each of them.        *)
(*                                                                         *)
(* Everything between two awaits is one step.  A continuation that could   *)
(* run may be delayed for as long as one likes.  Payloads, options and the *)
(* diagnostics callback are left out.                                      *)
(***************************************************************************)
EXTENDS Naturals

CONSTANTS
  Emits,      \* calls of emit and emitAsync that may be in flight at once
  Sessions,   \* session objects that can be built
  None        \* no session

ASSUME RabbitAssumption == None \notin Sessions

VARIABLES
  \* the fields of the strategy
  stopped, resource, initialization, cleanup, destruction,
  \* each session: where initialize() is, the socket, its two promises
  phase, socket, invalid, disposal, outcome,
  \* each emit, and the locals of destroy()
  pc, holds, awaited, taken

strategy == <<stopped, resource, initialization, cleanup, destruction>>
sessions == <<phase, socket, invalid, disposal, outcome>>
vars == <<stopped, resource, initialization, cleanup, destruction, phase, socket, invalid,
          disposal, outcome, pc, holds, awaited, taken>>

Init ==
  /\ stopped = FALSE
  /\ resource = None /\ initialization = None /\ cleanup = None
  /\ destruction = "none"
  /\ phase = [s \in Sessions |-> "unused"]
  /\ socket = [s \in Sessions |-> "none"]
  /\ invalid = [s \in Sessions |-> FALSE]
  /\ disposal = [s \in Sessions |-> "none"]
  /\ outcome = [s \in Sessions |-> "pending"]
  /\ pc = [e \in Emits |-> "idle"]
  /\ holds = [e \in Emits |-> None]
  /\ awaited = None /\ taken = None
-------------------------------------------------------------------------------
(* Mutant: a cleanup that failed is never over. *)
CleanedUpWell == cleanup # None => disposal[cleanup] = "done"

(* await this.cleanup, which swallows the errors of the disposal. *)
CleanedUp == cleanup # None => disposal[cleanup] \in {"done", "failed"}

(* dispose(): the first call starts to close, later ones share it. *)
Dispose(s) ==
  /\ invalid' = [invalid EXCEPT ![s] = TRUE]
  /\ disposal' = [disposal EXCEPT ![s] = IF disposal[s] = "none" THEN "running"
                                         ELSE disposal[s]]

(* Channel and connection are closed, or forced after a second; an error   *)
(* is reported once both attempts have ended.                              *)
Closed(s) ==
  /\ disposal[s] = "running"
  /\ socket' = [socket EXCEPT ![s] = IF socket[s] = "open" THEN "closed" ELSE socket[s]]
  /\ \E end \in {"done", "failed"} : disposal' = [disposal EXCEPT ![s] = end]
  /\ UNCHANGED <<strategy, phase, invalid, outcome, pc, holds, awaited, taken>>
-------------------------------------------------------------------------------
(* publish() and getChannel(). *)

(* Mutant: the initialization in progress is not shared. *)
EmitUnshared(e) ==
  /\ pc[e] = "idle" /\ ~stopped
  /\ \/ /\ resource # None
        /\ holds' = [holds EXCEPT ![e] = resource]
        /\ pc' = [pc EXCEPT ![e] = "publish"]
        /\ UNCHANGED <<initialization, phase>>
     \/ /\ resource = None
        /\ \E s \in Sessions :
             /\ phase[s] = "unused"
             /\ initialization' = s
             /\ phase' = [phase EXCEPT ![s] = "waiting"]
             /\ holds' = [holds EXCEPT ![e] = s]
             /\ pc' = [pc EXCEPT ![e] = "initiate"]
  /\ UNCHANGED <<stopped, resource, cleanup, destruction, socket, invalid, disposal,
                 outcome, awaited, taken>>

(* A call shares the initialization in progress, takes the channel there   *)
(* is, or initializes a session of its own.                                *)
Emit(e) ==
  /\ pc[e] = "idle" /\ ~stopped
  /\ \/ /\ initialization # None
        /\ holds' = [holds EXCEPT ![e] = initialization]
        /\ pc' = [pc EXCEPT ![e] = "share"]
        /\ UNCHANGED <<initialization, phase>>
     \/ /\ initialization = None /\ resource # None
        /\ holds' = [holds EXCEPT ![e] = resource]
        /\ pc' = [pc EXCEPT ![e] = "publish"]
        /\ UNCHANGED <<initialization, phase>>
     \/ /\ initialization = None /\ resource = None
        /\ \E s \in Sessions :
             /\ phase[s] = "unused"
             /\ initialization' = s
             /\ phase' = [phase EXCEPT ![s] = "waiting"]
             /\ holds' = [holds EXCEPT ![e] = s]
             /\ pc' = [pc EXCEPT ![e] = "initiate"]
  /\ UNCHANGED <<stopped, resource, cleanup, destruction, socket, invalid, disposal,
                 outcome, awaited, taken>>

(* The initialization a call waits for has settled; the call that started  *)
(* it also forgets it.                                                     *)
Settled(e) ==
  /\ pc[e] \in {"initiate", "share"}
  /\ outcome[holds[e]] # "pending"
  /\ initialization' = IF pc[e] = "initiate" THEN None ELSE initialization
  /\ IF outcome[holds[e]] = "resolved"
     THEN pc' = [pc EXCEPT ![e] = "publish"] /\ UNCHANGED holds
     ELSE pc' = [pc EXCEPT ![e] = "idle"] /\ holds' = [holds EXCEPT ![e] = None]
  /\ UNCHANGED <<stopped, resource, cleanup, destruction, sessions, awaited, taken>>

(* Mutant: the channel is used without another look at it. *)
PublishableAtOnce(e) == ~stopped

Publishable(e) == ~stopped /\ resource = holds[e]

(* channel.publish(), or the error that the channel is gone. *)
Publish(e) ==
  /\ pc[e] = "publish"
  /\ pc' = [pc EXCEPT ![e] = IF Publishable(e) THEN "published" ELSE "idle"]
  /\ holds' = [holds EXCEPT ![e] = IF Publishable(e) THEN holds[e] ELSE None]
  /\ UNCHANGED <<strategy, sessions, awaited, taken>>

(* The caller gets its answer. *)
Answer(e) ==
  /\ pc[e] = "published"
  /\ pc' = [pc EXCEPT ![e] = "idle"]
  /\ holds' = [holds EXCEPT ![e] = None]
  /\ UNCHANGED <<strategy, sessions, awaited, taken>>
-------------------------------------------------------------------------------
(* initialize(), between its awaits. *)

Fail(s) ==
  /\ phase' = [phase EXCEPT ![s] = "failing"]
  /\ Dispose(s)
  /\ UNCHANGED <<strategy, socket, outcome, pc, holds, awaited, taken>>

Connect(s) ==
  /\ phase[s] = "waiting"
  /\ CleanedUp
  /\ \/ /\ ~stopped
        /\ phase' = [phase EXCEPT ![s] = "connecting"]
        /\ UNCHANGED <<strategy, socket, invalid, disposal, outcome, pc, holds, awaited,
                       taken>>
     \/ stopped /\ Fail(s)

Connected(s) ==
  /\ phase[s] = "connecting"
  /\ \/ /\ socket' = [socket EXCEPT ![s] = "open"]
        /\ phase' = [phase EXCEPT ![s] = "channel"]
        /\ UNCHANGED <<strategy, invalid, disposal, outcome, pc, holds, awaited, taken>>
     \/ Fail(s)

ChannelCreated(s) ==
  /\ phase[s] = "channel"
  /\ \/ /\ phase' = [phase EXCEPT ![s] = "asserting"]
        /\ UNCHANGED <<strategy, socket, invalid, disposal, outcome, pc, holds, awaited,
                       taken>>
     \/ Fail(s)

Interrupted(s) == invalid[s] \/ stopped

ExchangeAsserted(s) ==
  /\ phase[s] = "asserting"
  /\ \/ /\ ~Interrupted(s)
        /\ phase' = [phase EXCEPT ![s] = "ready"]
        /\ resource' = s
        /\ outcome' = [outcome EXCEPT ![s] = "resolved"]
        /\ UNCHANGED <<stopped, initialization, cleanup, destruction, socket, invalid,
                       disposal, pc, holds, awaited, taken>>
     \/ Fail(s)

(* The failure is only reported once the partial resources are closed. *)
Rejected(s) ==
  /\ phase[s] = "failing"
  /\ disposal[s] \in {"done", "failed"}
  /\ phase' = [phase EXCEPT ![s] = "failed"]
  /\ outcome' = [outcome EXCEPT ![s] = "rejected"]
  /\ UNCHANGED <<strategy, socket, invalid, disposal, pc, holds, awaited, taken>>

(* invalidate(): an error or close event of the connection or the channel, *)
(* at any time after the connection; late events are harmless.             *)
Invalidate(s) ==
  /\ socket[s] # "none"
  /\ \/ /\ resource = s
        /\ resource' = None
        /\ cleanup' = s
        /\ Dispose(s)
     \/ /\ resource # s
        /\ invalid' = [invalid EXCEPT ![s] = TRUE]
        /\ UNCHANGED <<resource, cleanup, disposal>>
  /\ UNCHANGED <<stopped, initialization, destruction, phase, socket, outcome, pc, holds,
                 awaited, taken>>
-------------------------------------------------------------------------------
(* onModuleDestroy(): one teardown however often it is called. *)

Destroy ==
  /\ destruction = "none"
  /\ destruction' = "initialization"
  /\ stopped' = TRUE
  /\ awaited' = initialization
  /\ UNCHANGED <<resource, initialization, cleanup, sessions, pc, holds, taken>>

(* Mutant: shutdown does not wait for the initialization in progress. *)
TakeResourceAtOnce ==
  /\ destruction = "initialization"
  /\ taken' = resource
  /\ resource' = None
  /\ IF resource = None
     THEN destruction' = "cleanup" /\ UNCHANGED <<invalid, disposal>>
     ELSE destruction' = "dispose" /\ Dispose(resource)
  /\ UNCHANGED <<stopped, initialization, cleanup, phase, socket, outcome, pc, holds,
                 awaited>>

TakeResource ==
  /\ destruction = "initialization"
  /\ awaited # None => outcome[awaited] # "pending"
  /\ taken' = resource
  /\ resource' = None
  /\ IF resource = None
     THEN destruction' = "cleanup" /\ UNCHANGED <<invalid, disposal>>
     ELSE destruction' = "dispose" /\ Dispose(resource)
  /\ UNCHANGED <<stopped, initialization, cleanup, phase, socket, outcome, pc, holds,
                 awaited>>

(* A close that failed ends the teardown with its error. *)
Disposed ==
  /\ destruction = "dispose"
  /\ \/ disposal[taken] = "done" /\ destruction' = "cleanup"
     \/ disposal[taken] = "failed" /\ destruction' = "failed"
  /\ UNCHANGED <<stopped, resource, initialization, cleanup, sessions, pc, holds, awaited,
                 taken>>

Destroyed ==
  /\ destruction = "cleanup"
  /\ CleanedUp
  /\ destruction' = "done"
  /\ UNCHANGED <<stopped, resource, initialization, cleanup, sessions, pc, holds, awaited,
                 taken>>
-------------------------------------------------------------------------------
Initialize(s) == Connect(s) \/ Connected(s) \/ ChannelCreated(s) \/ ExchangeAsserted(s)
                 \/ Rejected(s)

Continue(e) == Settled(e) \/ Publish(e) \/ Answer(e)

Teardown == TakeResource \/ Disposed \/ Destroyed

Next ==
  \/ \E e \in Emits : Emit(e) \/ Continue(e)
  \/ \E s \in Sessions : Initialize(s) \/ Closed(s) \/ Invalidate(s)
  \/ Destroy \/ Teardown

Spec == Init /\ [][Next]_vars

(* Continuations run, the network answers or fails every setup call, and a *)
(* close ends by its one second timer.  Nobody has to emit or shut down.   *)
FairSpec ==
  /\ Spec
  /\ \A e \in Emits : WF_vars(Continue(e))
  /\ \A s \in Sessions : WF_vars(Initialize(s)) /\ WF_vars(Closed(s))
  /\ WF_vars(Teardown)
-------------------------------------------------------------------------------
(* Properties. *)

TypeOK ==
  /\ stopped \in BOOLEAN
  /\ {resource, initialization, cleanup, awaited, taken} \subseteq Sessions \cup {None}
  /\ destruction \in {"none", "initialization", "dispose", "cleanup", "done", "failed"}
  /\ phase \in [Sessions -> {"unused", "waiting", "connecting", "channel", "asserting",
                             "ready", "failing", "failed"}]
  /\ socket \in [Sessions -> {"none", "open", "closed"}]
  /\ invalid \in [Sessions -> BOOLEAN]
  /\ disposal \in [Sessions -> {"none", "running", "done", "failed"}]
  /\ outcome \in [Sessions -> {"pending", "resolved", "rejected"}]
  /\ pc \in [Emits -> {"idle", "initiate", "share", "publish", "published"}]
  /\ holds \in [Emits -> Sessions \cup {None}]
  /\ \A e \in Emits : pc[e] # "idle" => holds[e] # None

(* Cold callers share one setup and cleanup comes before the next: there   *)
(* is never more than one open connection to the broker.                   *)
OneConnection ==
  \A s, t \in Sessions : socket[s] = "open" /\ socket[t] = "open" => s = t

(* The cached channel is fully set up, open, and was not invalidated.      *)
CachedIsUsable ==
  resource # None => /\ phase[resource] = "ready"
                     /\ socket[resource] = "open"
                     /\ ~invalid[resource] /\ disposal[resource] = "none"
                     /\ ~stopped \/ destruction = "initialization"

(* Once the teardown ended, well or badly, no connection is open and none  *)
(* will be: no setup in flight can resurrect the strategy.                 *)
ShutdownIsFinal ==
  destruction \in {"done", "failed"} =>
    /\ resource = None
    /\ \A s \in Sessions : /\ socket[s] # "open"
                           /\ phase[s] \in {"unused", "ready", "failed"}

(* A message is only handed to the channel that is cached at that moment,  *)
(* on an open connection, and never after the shutdown began.              *)
PublishesAreCurrent ==
  [][\A e \in Emits : pc[e] # "published" /\ pc'[e] = "published" =>
       /\ ~stopped /\ resource = holds[e]
       /\ socket[holds[e]] = "open" /\ ~invalid[holds[e]]]_vars

(* Every emit is answered and every shutdown ends, whatever setup, cleanup *)
(* or other shutdown they wait for.                                        *)
EverythingEnds ==
  /\ \A e \in Emits : pc[e] # "idle" ~> pc[e] = "idle"
  /\ stopped ~> destruction \in {"done", "failed"}
===============================================================================
