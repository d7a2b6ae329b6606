----------------------------- MODULE SessionFamily -----------------------------
(***************************************************************************)
(* What the session core promises about credentials, with no clock, no     *)
(* requests and no storage: a token is issued once, to one session; a      *)
(* session has one usable token, replaced by each rotation; a replaced     *)
(* token is never usable again and a revoked session never lives again.    *)
(* SessionCore.tla is shown to implement this specification.               *)
(***************************************************************************)
EXTENDS Naturals

CONSTANTS Sessions, Tokens, None

VARIABLES
  status,   \* [Sessions -> {"absent", "live", "revoked"}]
  issued,   \* [Tokens -> Sessions \cup {None}]: the session a token belongs to
  usable    \* the tokens that were not replaced

vars == <<status, issued, usable>>

Init ==
  /\ status = [s \in Sessions |-> "absent"]
  /\ issued = [t \in Tokens |-> None]
  /\ usable = {}

Open(s, t) ==
  /\ status[s] = "absent" /\ issued[t] = None
  /\ status' = [status EXCEPT ![s] = "live"]
  /\ issued' = [issued EXCEPT ![t] = s]
  /\ usable' = usable \cup {t}

Rotate(s, t, next) ==
  /\ status[s] = "live" /\ issued[t] = s /\ t \in usable /\ issued[next] = None
  /\ issued' = [issued EXCEPT ![next] = s]
  /\ usable' = (usable \ {t}) \cup {next}
  /\ UNCHANGED status

Revoke(family) ==
  /\ \A s \in family : status[s] = "live"
  /\ status' = [s \in Sessions |-> IF s \in family THEN "revoked" ELSE status[s]]
  /\ UNCHANGED <<issued, usable>>

Next ==
  \/ \E s \in Sessions, t \in Tokens : Open(s, t)
  \/ \E s \in Sessions, t, next \in Tokens : Rotate(s, t, next)
  \/ \E family \in SUBSET Sessions : Revoke(family)

Spec == Init /\ [][Next]_vars
===============================================================================
