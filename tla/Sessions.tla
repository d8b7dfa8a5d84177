------------------------------ MODULE Sessions ------------------------------
(***************************************************************************)
(* What the server promises all of its clients together.  Each client has  *)
(* a session of its own: a reply it receives answers one of its own        *)
(* requests that was run, each request that is owed a reply gets at most   *)
(* one, and its session ends only when the client left or said goodbye.    *)
(***************************************************************************)
EXTENDS Naturals

CONSTANT Clients

VARIABLES
  phase,    \* "new", "backlog" (asked for), "accepted" or "closed"
  left,     \* the client is no longer there
  bye,      \* it ran a request that ends the session, or its end was noticed
  due,      \* replies its requests are owed
  got       \* replies it received

vars == <<phase, left, bye, due, got>>

Init ==
  /\ phase = [c \in Clients |-> "new"]
  /\ left  = [c \in Clients |-> FALSE]
  /\ bye   = [c \in Clients |-> FALSE]
  /\ due   = [c \in Clients |-> 0]
  /\ got   = [c \in Clients |-> 0]

Connect(c) ==
  /\ phase[c] = "new"
  /\ phase' = [phase EXCEPT ![c] = "backlog"]
  /\ UNCHANGED <<left, bye, due, got>>

Accept(c) ==
  /\ phase[c] = "backlog"
  /\ phase' = [phase EXCEPT ![c] = "accepted"]
  /\ UNCHANGED <<left, bye, due, got>>

Leave(c) ==
  /\ left' = [left EXCEPT ![c] = TRUE]
  /\ UNCHANGED <<phase, bye, due, got>>

\* A request may be owed no reply; one that says goodbye may end the session
\* at once.
Run(c) ==
  /\ phase[c] = "accepted"
  /\ \E owed \in {0, 1} : due' = [due EXCEPT ![c] = @ + owed]
  /\ \E over \in BOOLEAN : bye' = [bye EXCEPT ![c] = @ \/ over]
  /\ \/ UNCHANGED phase
     \/ bye'[c] /\ phase' = [phase EXCEPT ![c] = "closed"]
  /\ UNCHANGED <<left, got>>

Deliver(c) ==
  /\ got[c] < due[c]
  /\ got' = [got EXCEPT ![c] = @ + 1]
  /\ UNCHANGED <<phase, left, bye, due>>

End(c) ==
  /\ phase[c] = "accepted"
  /\ left[c]
  /\ bye' = [bye EXCEPT ![c] = TRUE]
  /\ phase' = [phase EXCEPT ![c] = "closed"]
  /\ UNCHANGED <<left, due, got>>

Next ==
  \E c \in Clients :
    Connect(c) \/ Accept(c) \/ Leave(c) \/ Run(c) \/ Deliver(c) \/ End(c)

Spec == Init /\ [][Next]_vars
=============================================================================
