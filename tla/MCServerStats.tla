---------------------------- MODULE MCServerStats ----------------------------
(***************************************************************************)
(* A small instance of module ServerStats: ints of three bits, minutes of  *)
(* three seconds.                                                          *)
(***************************************************************************)
EXTENDS ServerStats
=============================================================================
