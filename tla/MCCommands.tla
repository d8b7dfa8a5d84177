------------------------------ MODULE MCCommands ------------------------------
(***************************************************************************)
(* Small instances of module Commands.                                     *)
(***************************************************************************)
EXTENDS Commands

CONSTANTS k1, k2, v1, v2

\* Requests of every command, and some that lookupCommand turns into "error".
\* DELETE without a key is left out, which ArgvInBounds does not survive (see
\* ShortRequests).
SomeRequests ==
  { <<"set", k1, v1>>, <<"set", k1, v2>>,
    <<"mset", k1, v1, k2, v2>>, <<"mset", k2, v1, k2, v2>>, <<"mset">>,
    <<"get", k1>>, <<"mget", k1, k2, k1>>, <<"delete", k1>>,
    <<"keys", "*">>, <<"keys", "x">>, <<"client", "x">>, <<"client", "list">>, <<"dbsize">>,
    <<"infor">>, <<"command">>, <<"exit">>, <<"shutdown">>, <<"flushall">>,
    <<"error">>, <<"set", k1>>, <<"get">>, <<"unknown">> }

ShortRequests == { <<"set", k1>>, <<"get">>, <<"delete">>, <<"dbsize">> }
=============================================================================
