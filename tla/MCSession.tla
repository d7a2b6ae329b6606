------------------------------- MODULE MCSession -------------------------------
(* Two calls over one session and its tokens for TLC. *)
EXTENDS SessionCore, TLC

CONSTANTS a1, a2, s1, t1, t2, t3, acc1

Bearer == [transport |-> "bearer", safe |-> FALSE, origin |-> FALSE, csrf |-> None]
Cookie(k) == [transport |-> "cookie", safe |-> FALSE, origin |-> TRUE, csrf |-> k]

Safe == [transport |-> "cookie", safe |-> TRUE, origin |-> FALSE, csrf |-> None]

Use(op, t, c) == [op |-> op, token |-> t, account |-> None, context |-> c]
Admin(op, acc, c) == [op |-> op, token |-> None, account |-> acc, context |-> c]

(* Logins of both transports; uses of any token, each tied to a transport. *)
MixedRequests ==
  {Admin("login", acc1, Cookie(None)), Admin("login", acc1, Bearer),
   Admin("revokeAll", acc1, Bearer)}
  \cup {Use("authenticate", t, Safe) : t \in Tokens}
  \cup {Use("refresh", t, Cookie(s1)) : t \in Tokens}
  \cup {Use("logout", t, Bearer) : t \in Tokens}

(* One bearer session and refreshes of its first token. *)
RefreshRequests ==
  {Admin("login", acc1, Bearer), Use("refresh", t1, Bearer)}

(* Calls and tokens are interchangeable. *)
CallSymmetry == Permutations(Attempts) \cup Permutations(Tokens)
===============================================================================
