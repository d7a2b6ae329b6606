------------------------------ MODULE LinkLedger ------------------------------
(***************************************************************************)
(* What the identity directory promises its host, with no calls, no        *)
(* snapshots, no reservations and no faults: every command is applied in   *)
(* one indivisible step, at most once, to one identity of one account, and *)
(* an account that ever had a login method never loses its last one.       *)
(* Directory.tla is shown to implement this specification.                 *)
(***************************************************************************)
EXTENDS Naturals

CONSTANTS
  Commands,    \* command identifiers
  Identities,  \* (issuer, subject) pairs; each owns one linkId
  Accounts,    \* host accounts
  Intents,     \* what a caller may ask: see DirectoryAssumption in Directory
  None         \* an absent row

VARIABLES
  row,   \* identity row: None, or [account, status, gen]
  rev,   \* account revision, 0 when the account has no revision row
  done   \* the commands that were applied

vars == <<row, rev, done>>

(* The rows an account owns and the ones it can still log in with. *)
ActiveIn(rows, acc) ==
  {i \in Identities : /\ rows[i] # None
                      /\ rows[i].account = acc
                      /\ rows[i].status = "active"}

Init ==
  /\ row = [i \in Identities |-> None]
  /\ rev = [acc \in Accounts |-> 0]
  /\ done = {}

(* A new identity enters at generation 1. *)
Admit(i) ==
  /\ i.action \in {"provision", "link"}
  /\ row[i.target] = None
  /\ row' = [row EXCEPT ![i.target] =
               [account |-> i.account, status |-> "active", gen |-> 1]]

(* The account takes one of its own tombstones back. *)
Relink(i) ==
  /\ i.action = "link"
  /\ row[i.target] # None
  /\ row[i.target].account = i.account
  /\ row[i.target].status = "unlinked"
  /\ row' = [row EXCEPT ![i.target] =
               [account |-> i.account, status |-> "active",
                gen |-> row[i.target].gen + 1]]

(* A link becomes a tombstone while another login method remains. *)
Unlink(i) ==
  /\ i.action = "unlink"
  /\ i.target \in ActiveIn(row, i.account)
  /\ ActiveIn(row, i.account) \ {i.target} # {}
  /\ row' = [row EXCEPT ![i.target] =
               [account |-> i.account, status |-> "unlinked",
                gen |-> row[i.target].gen + 1]]

Apply(i) ==
  /\ i.cmd \notin done
  /\ Admit(i) \/ Relink(i) \/ Unlink(i)
  /\ rev' = [rev EXCEPT ![i.account] = rev[i.account] + 1]
  /\ done' = done \cup {i.cmd}

Next == \E i \in Intents : Apply(i)

Spec == Init /\ [][Next]_vars
===============================================================================
