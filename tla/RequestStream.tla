---------------------------- MODULE RequestStream ----------------------------
(***************************************************************************)
(* What a connection promises its client: the requests of the byte stream  *)
(* are executed one by one, each exactly once, complete and in the order   *)
(* in which they were sent, and the replies follow, none before its        *)
(* request ran.  A request or the client may end the connection; the rest  *)
(* is not served.                                                          *)
(***************************************************************************)
EXTENDS Naturals, Sequences

CONSTANTS
  Scripts,       \* the request sequences a client may send
  Ends(_)        \* does this request end the connection?

VARIABLES
  script,        \* what this client sends
  executed,      \* the requests executed so far
  replied,       \* how many of them the client has an answer to
  left,          \* the client is no longer there
  open

vars == <<script, executed, replied, left, open>>

Init ==
  /\ script \in Scripts
  /\ executed = <<>>
  /\ replied = 0
  /\ left = FALSE
  /\ open = TRUE

Ended(requests) == \E i \in DOMAIN requests : Ends(requests[i])

Execute ==
  /\ open
  /\ Len(executed) < Len(script)
  /\ executed' = Append(executed, script[Len(executed) + 1])
  /\ open' \in {TRUE, ~Ended(executed')}
  /\ UNCHANGED <<script, replied, left>>

Reply ==
  /\ open
  /\ \E n \in (replied + 1)..Len(executed) : replied' = n
  /\ UNCHANGED <<script, executed, left, open>>

Hangup ==
  /\ open
  /\ Ended(executed) \/ replied = Len(script) \/ left
  /\ open' = FALSE
  /\ UNCHANGED <<script, executed, replied, left>>

Leave ==
  /\ left' = TRUE
  /\ UNCHANGED <<script, executed, replied, open>>

Next == Execute \/ Reply \/ Hangup \/ Leave

Spec == Init /\ [][Next]_vars
=============================================================================
