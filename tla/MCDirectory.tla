----------------------------- MODULE MCDirectory -----------------------------
(* A small directory for TLC: one account, two identities, four commands.  *)
EXTENDS Directory, TLC

CONSTANTS a1, a2, h1, h2, p1, p2, s1, s2, id1, id2, acc1, acc2

Ask(c, action, acc, id, s) ==
  [cmd |-> c, action |-> action, account |-> acc, target |-> id, session |-> s,
   consent |-> c]

(* Provision, link a second method, then unlink each of the two.  The      *)
(* sessions may be bound to either link.                                   *)
CoreIntents ==
  {Ask("p", "provision", acc1, id1, s1),
   Ask("l", "link", acc1, id2, s1),
   Ask("u", "unlink", acc1, id1, s1),
   Ask("v", "unlink", acc1, id2, s2),
   Ask("r", "link", acc1, id1, s2)}

(* Two accounts race to provision one identity. *)
RaceIntents ==
  {Ask("p", "provision", acc1, id1, s1),
   Ask("q", "provision", acc2, id1, s1)}

RaceCommands == {i.cmd : i \in RaceIntents}
RaceIssuedAt == [c \in RaceCommands |-> 0]

(* Calls and handles are interchangeable.                                  *)
RaceSymmetry == Permutations(Attempts) \cup Permutations(Handles)

CoreCommands == {i.cmd : i \in CoreIntents}
CoreProviderOf == id1 :> p1 @@ id2 :> p2
RaceProviderOf == id1 :> p1
CoreIssuedAt == [c \in CoreCommands |-> 0]
===============================================================================
