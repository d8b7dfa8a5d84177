-------------------------------- MODULE MCConn --------------------------------
(***************************************************************************)
(* Clients of one connection for TLC.  A command name is one letter: S, G  *)
(* reply, k is a command without a reply (KEYS with a pattern), e is exit, *)
(* s is shutdown.                                                          *)
(***************************************************************************)
EXTENDS Conn

MCEffect(request) ==
  CASE request[1] = <<101>> -> "exit"
    [] request[1] = <<115>> -> "shutdown"
    [] request[1] = <<107>> -> "silent"
    [] OTHER -> "reply"

S == <<83>>
G == <<71>>
Get == <<G, <<97>>>>
Long == [i \in 1..26 |-> 96 + i]

\* Requests with a payload that looks like the protocol, with a payload longer
\* than the buffer and a two-digit length, and with 10 arguments.
MCScripts ==
  { <<Get, <<S, <<42, 49, 36>>>>, Get>>,
    <<<<S, Long, <<98>>>>, Get>>,
    <<[i \in 1..10 |-> G]>> }

\* exit and shutdown with requests before and after them.
MCEndingScripts == { <<Get, <<<<101>>>>, Get>>, <<Get, <<<<115>>>>, Get>> }

MCAllScripts == MCScripts \cup MCEndingScripts

MCTwoRequests == { <<Get, Get>> }

\* 4 + 5 + 26 + 2 bytes: the '$' of the second line meets index 36.
MC37Script == { <<<<Long>>>> }

MCEmptyArgument == { <<<<S, <<97>>, <<>>>>>> }
MCNulArgument == { <<<<S, <<97, 0>>>>>> }
MCSilent == { <<<<<<107>>>>, Get>> }
MCUninit == {-1, 0, 7}
=============================================================================
