------------------------------ MODULE Dispatch ------------------------------
(***************************************************************************)
(* What a pool of worker threads promises its clients: connections are     *)
(* numbered as they are accepted; each is served by one worker, in that    *)
(* order, and closed once; and no more than Backlog connections wait for a *)
(* worker, next to the one that was accepted last.                         *)
(***************************************************************************)
EXTENDS Naturals

CONSTANTS Workers, Backlog

VARIABLES
  accepted,   \* number of connections accepted
  serving,    \* the connection each worker serves, or 0
  closed      \* the connections that were served and closed

vars == <<accepted, serving, closed>>

Started == closed \cup {serving[w] : w \in Workers}
Waiting(n) == {c \in 1..n : c \notin Started}

Init ==
  /\ accepted = 0
  /\ serving = [w \in Workers |-> 0]
  /\ closed = {}

Accept ==
  /\ accepted' = accepted + 1
  /\ \A c \in Waiting(accepted) : c + Backlog > accepted
  /\ UNCHANGED <<serving, closed>>

\* The connection that has waited longest.
Take(w) ==
  /\ serving[w] = 0
  /\ \E c \in Waiting(accepted) :
       /\ \A d \in Waiting(accepted) : c <= d
       /\ serving' = [serving EXCEPT ![w] = c]
  /\ UNCHANGED <<accepted, closed>>

Finish(w) ==
  /\ serving[w] # 0
  /\ closed' = closed \cup {serving[w]}
  /\ serving' = [serving EXCEPT ![w] = 0]
  /\ UNCHANGED accepted

Next == Accept \/ \E w \in Workers : Take(w) \/ Finish(w)

Spec == Init /\ [][Next]_vars
=============================================================================
