-------------------------------- MODULE MCSBuf --------------------------------
(***************************************************************************)
(* A small instance of module SBuf: the names of its threads.              *)
(***************************************************************************)
EXTENDS SBuf

CONSTANTS main, w1, w2
=============================================================================
