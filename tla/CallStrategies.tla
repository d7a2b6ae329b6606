--------------------------- MODULE CallStrategies ---------------------------
(***************************************************************************)
(* api-strategy: one call, or one event, through strategies put together.  *)
(* A leg is a transport (Nest in process, HTTP, an event strategy) behind  *)
(* a condition; a wrapper selects one leg, falls back from leg to leg,     *)
(* sends the call to shadows as well, or emits through all.  The caller    *)
(* may abort at any time; what was dispatched goes on at the service.      *)
(***************************************************************************)
EXTENDS Naturals, Sequences

CONSTANTS
    Setups,         \* [wrap, mode, entry, signal, policy, legs]
    Statuses,       \* what a service answers
    None

VARIABLES
    setup,
    aborted,        \* the AbortSignal of the call
    legs,           \* per leg: "idle", "queued", "sent", or how it ended
    status,         \* per leg: the status it answered
    reached,        \* legs whose request was dispatched
    caller          \* [pc, leg]: where the wrapper is, and whose answer it returns

vars == <<setup, aborted, legs, status, reached, caller>>

Legs == 1 .. Len(setup.legs)
Leg(i) == setup.legs[i]

InFlight == {"queued", "sent"}
Well     == {"ok", "spare"}                 \* spare: the response of a disabled leg
Badly    == {"failed", "refused"}           \* refused: the error of a disabled leg
Ended(i) == legs[i] \in Well \cup Badly

-----------------------------------------------------------------------------
(* Strategy selection, when the application starts.                        *)

Registered(key) == \E i \in Legs : Leg(i).key = key
IndexOf(key)    == CHOOSE i \in Legs : Leg(i).key = key

\* A blank configuration means the default; an unknown key is an error, or the
\* default.
Selects(e) ==
    LET key == IF e.configured = None THEN e.default ELSE e.configured
    IN  IF Registered(key) THEN IndexOf(key)
        ELSE IF e.unknown = "fallback" THEN IndexOf(e.default) ELSE None

Starts == setup.wrap = "selected" => Registered(setup.entry.default) /\ Selects(setup.entry) # None

First == IF setup.wrap = "selected" THEN Selects(setup.entry) ELSE 1

-----------------------------------------------------------------------------
(* Transports.                                                             *)

\* The policy of the call, or else of the strategy.
Policy(i) == IF setup.policy # None THEN setup.policy ELSE Leg(i).policy

\* applyStatusPolicy(); without a policy the HTTP client refuses what is not 2xx.
Accepts(i, s) ==
    IF Policy(i) # None THEN s \in Policy(i) ELSE Leg(i).via = "http" => s \in 200 .. 299

\* What a leg does when it is called.  A local call with a signal dispatches
\* in a later turn.
Begun(i) ==
    CASE Leg(i).gate = "spare"  -> "spare"
      [] Leg(i).gate = "refuse" -> "refused"
      [] OTHER -> IF setup.signal /\ aborted THEN "failed"
                  ELSE IF Leg(i).via = "local" /\ setup.signal THEN "queued" ELSE "sent"

\* The legs of a set are called, in one turn.
Begin(is) ==
    /\ legs' = [i \in Legs |-> IF i \in is THEN Begun(i) ELSE legs[i]]
    /\ reached' = reached \cup {i \in is : Begun(i) = "sent"}

Init ==
    /\ setup \in Setups
    /\ aborted = FALSE
    /\ legs = [i \in Legs |-> "idle"]
    /\ status = [i \in Legs |-> None]
    /\ reached = {}
    /\ caller = [pc |-> IF Starts THEN "ready" ELSE "no start", leg |-> None]

\* Mutant: the queued dispatch does not look at the signal again.
DispatchUnchecked(i) ==
    /\ legs[i] = "queued" \/ (legs[i] = "failed" /\ i \notin reached /\ Leg(i).via = "local")
    /\ legs' = [legs EXCEPT ![i] = IF aborted THEN @ ELSE "sent"]
    /\ reached' = reached \cup {i}
    /\ UNCHANGED <<setup, aborted, status, caller>>

Dispatch(i) ==
    /\ legs[i] = "queued"
    /\ legs' = [legs EXCEPT ![i] = "sent"]
    /\ reached' = reached \cup {i}
    /\ UNCHANGED <<setup, aborted, status, caller>>

Reply(i) ==
    /\ legs[i] = "sent"
    /\ \/ /\ legs' = [legs EXCEPT ![i] = "failed"]
          /\ UNCHANGED status
       \/ \E s \in IF Leg(i).via = "event" THEN {200} ELSE Statuses :
            /\ legs' = [legs EXCEPT ![i] = IF Accepts(i, s) THEN "ok" ELSE "failed"]
            /\ status' = [status EXCEPT ![i] = s]
    /\ UNCHANGED <<setup, aborted, reached, caller>>

\* A leg that waits for its dispatch or its answer stops waiting.
Abort ==
    /\ setup.signal /\ ~aborted
    /\ aborted' = TRUE
    /\ legs' = [i \in Legs |-> IF legs[i] \in InFlight THEN "failed" ELSE legs[i]]
    /\ UNCHANGED <<setup, status, reached, caller>>

-----------------------------------------------------------------------------
(* Wrappers.                                                               *)

Goto(pc, i) == caller' = [pc |-> pc, leg |-> i]

\* emit() of a composite calls its strategies one by one, until one throws.
EmitAll ==
    /\ caller.pc = "ready" /\ setup.wrap = "emit"
    /\ \E throws \in SUBSET Legs :
         LET stop == {i \in Legs : setup.mode = "throw" /\ \E j \in throws : j < i}
             ran  == {i \in Legs \ stop : Leg(i).gate = "open"}
         IN  /\ throws \cap Legs = throws \cap ran
             /\ legs' = [i \in Legs |-> IF i \in stop THEN "idle" ELSE IF i \in throws THEN "failed"
                                        ELSE IF i \in ran THEN "ok" ELSE "spare"]
             /\ reached' = ran
             /\ Goto(IF setup.mode = "throw" /\ throws # {} THEN "failed" ELSE "ok", None)
    /\ UNCHANGED <<setup, aborted, status>>

Call ==
    /\ caller.pc = "ready" /\ setup.wrap # "emit"
    /\ Begin(IF setup.wrap = "emitAsync" THEN Legs ELSE {First})
    /\ Goto("waits", IF setup.wrap = "emitAsync" THEN None ELSE First)
    /\ UNCHANGED <<setup, aborted, status>>

\* The one leg of a selected strategy, and the last one of a fallback.
Return ==
    /\ caller.pc = "waits" /\ setup.wrap \in {"selected", "fallback"}
    /\ \/ legs[caller.leg] \in Well /\ Goto("ok", caller.leg)
       \/ /\ legs[caller.leg] \in Badly
          /\ setup.wrap = "fallback" => caller.leg = Len(setup.legs) \/ setup.mode = "once"
          /\ Goto("failed", caller.leg)
    /\ UNCHANGED <<setup, aborted, legs, status, reached>>

\* Any failure, an abort too, sends the call on, unless the predicate refuses.
FallBack ==
    /\ caller.pc = "waits" /\ setup.wrap = "fallback" /\ setup.mode # "once"
    /\ legs[caller.leg] \in Badly /\ caller.leg < Len(setup.legs)
    /\ Begin({caller.leg + 1})
    /\ Goto("waits", caller.leg + 1)
    /\ UNCHANGED <<setup, aborted, status>>

Shadows == Legs \ {1}
AwaitsShadows == setup.mode \in {"await", "throw"}

\* Shadows start when the primary has answered well.
Primary ==
    /\ caller.pc = "waits" /\ setup.wrap = "shadow"
    /\ \/ /\ legs[1] \in Badly
          /\ Goto("failed", 1)
          /\ UNCHANGED <<legs, reached>>
       \/ /\ legs[1] \in Well
          /\ Begin(Shadows)
          /\ Goto(IF AwaitsShadows THEN "shadows" ELSE "ok", 1)
    /\ UNCHANGED <<setup, aborted, status>>

\* Promise.all: the first failure ends the wait.
Shadowed ==
    /\ caller.pc = "shadows"
    /\ \/ (\A i \in Shadows : legs[i] \in Well) /\ Goto("ok", 1)
       \/ (\E i \in Shadows : legs[i] \in Badly) /\ Goto(IF setup.mode = "throw" THEN "failed" ELSE "ok", 1)
    /\ UNCHANGED <<setup, aborted, legs, status, reached>>

\* Mutant: Promise.all in place of Promise.allSettled.
SettledAtFirst == (\A i \in Legs : Ended(i)) \/ (\E i \in Legs : legs[i] \in Badly)

\* Promise.allSettled.
Settled == \A i \in Legs : Ended(i)

EmitEnds ==
    /\ caller.pc = "waits" /\ setup.wrap = "emitAsync"
    /\ Settled
    /\ Goto(IF setup.mode = "throw" /\ \E i \in Legs : legs[i] \in Badly THEN "failed" ELSE "ok", None)
    /\ UNCHANGED <<setup, aborted, legs, status, reached>>

Next ==
    \/ EmitAll \/ Call \/ Return \/ FallBack \/ Primary \/ Shadowed \/ EmitEnds \/ Abort
    \/ \E i \in Legs : Dispatch(i) \/ Reply(i)

Spec == Init /\ [][Next]_vars

-----------------------------------------------------------------------------
(* Correctness.                                                            *)

Returned == caller.pc \in {"ok", "failed"}

\* A wrapper that has returned leaves nothing in flight behind it, except the
\* shadows it does not wait for, or did not wait for after one of them failed.
NothingBehind ==
    Returned /\ (\E i \in Legs : legs[i] \in InFlight) =>
        /\ setup.wrap = "shadow"
        /\ ~AwaitsShadows \/ \E i \in Shadows : legs[i] \in Badly

\* With a policy the caller never gets a response that the policy refuses,
\* from whichever transport it comes; and a fallback sends a request to one
\* more service only when every service before it failed.
AnswersAccepted ==
    /\ caller.pc = "ok" /\ caller.leg # None =>
         LET s == status[caller.leg]
         IN  s # None /\ Policy(caller.leg) # None => s \in Policy(caller.leg)
    /\ setup.wrap = "fallback" =>
         \A i \in reached : \A j \in Legs : j < i => legs[j] \in Badly

CallsSettle == NothingBehind /\ AnswersAccepted

States == {"idle"} \cup InFlight \cup Well \cup Badly
Before == {"no start", "ready"}

TypeOK ==
    /\ setup \in Setups /\ aborted \in BOOLEAN
    /\ legs \in [Legs -> States]
    /\ status \in [Legs -> Statuses \cup {200, None}]
    /\ reached \in SUBSET Legs
    /\ caller \in [pc : Before \cup {"waits", "shadows", "ok", "failed"}, leg : Legs \cup {None}]

\* Where the wrapper is tells which legs it has called, and how those ended
\* that it called before.
InTurn ==
    /\ caller.pc = "ready" => Starts
    /\ caller.pc \in Before => reached = {} /\ \A i \in Legs : legs[i] = "idle"
    /\ setup.wrap = "emit" => \A i \in Legs : legs[i] \notin InFlight
    /\ setup.wrap \in {"selected", "fallback"} /\ caller.pc \notin Before =>
         /\ caller.leg \in Legs
         /\ \A i \in Legs : i > caller.leg => legs[i] = "idle" /\ i \notin reached
         /\ \A i \in Legs : i < caller.leg => legs[i] \in IF setup.wrap = "fallback" THEN Badly ELSE {"idle"}
    /\ setup.wrap = "shadow" /\ caller.pc = "waits" => caller.leg = 1 /\ \A i \in Shadows : legs[i] = "idle"
    /\ caller.pc = "shadows" => setup.wrap = "shadow" /\ legs[1] \in Well

\* A status is what a leg that was sent answered, and the policy accepted it.
Answered ==
    /\ \A i \in Legs :
         /\ status[i] # None => legs[i] \in {"ok", "failed"}
         /\ legs[i] = "ok" /\ status[i] # None /\ Policy(i) # None => status[i] \in Policy(i)
    /\ caller.pc = "ok" /\ caller.leg # None => legs[caller.leg] \in Well

\* Only a call with a signal is aborted, and then no local call is queued.
AbortHolds == aborted => setup.signal /\ \A i \in Legs : legs[i] # "queued"

\* After an abort nothing more is dispatched, by a queued local call, by the
\* next leg of a fallback, or by shadows.
AbortStops == aborted => reached' = reached

AbortStopsDispatch == [][AbortStops]_vars
=============================================================================
