------------------------------- MODULE Access -------------------------------
(***************************************************************************)
(* What the sessions of the management API promise: a request is let in    *)
(* only while its session is open, a session opens once, and what is       *)
(* closed never opens again.  Requests that were let in may go on after    *)
(* their session has been closed.  Iam implements this specification.      *)
(***************************************************************************)
CONSTANTS Caller,   \* requests in progress
          SessionId,
          None      \* not let in

VARIABLES status,  \* of each session: "unused", "open" or "closed"
          inside   \* the session that each request was let in with

accessVars == <<status, inside>>

Init ==
  /\ status = [s \in SessionId |-> "unused"]
  /\ inside = [c \in Caller |-> None]

Open(s) ==
  /\ status[s] = "unused"
  /\ status' = [status EXCEPT ![s] = "open"]
  /\ UNCHANGED inside

\* Sessions expire, also before they were ever used.
Expire(S) ==
  /\ status' = [s \in SessionId |-> IF s \in S THEN "closed" ELSE status[s]]
  /\ UNCHANGED inside

Enter(c, s) ==
  /\ inside[c] = None
  /\ status[s] = "open"
  /\ inside' = [inside EXCEPT ![c] = s]
  /\ UNCHANGED status

\* Requests end, all of them when the process dies.
Leave(C) ==
  /\ inside' = [c \in Caller |-> IF c \in C THEN None ELSE inside[c]]
  /\ UNCHANGED status

\* A request closes its own session and is answered.
LogOut(c) ==
  /\ inside[c] # None
  /\ status' = [status EXCEPT ![inside[c]] = "closed"]
  /\ inside' = [inside EXCEPT ![c] = None]

Next ==
  \/ \E s \in SessionId : Open(s)
  \/ \E S \in SUBSET SessionId : Expire(S)
  \/ \E c \in Caller, s \in SessionId : Enter(c, s)
  \/ \E C \in SUBSET Caller : Leave(C)
  \/ \E c \in Caller : LogOut(c)

Spec == Init /\ [][Next]_accessVars
=============================================================================
