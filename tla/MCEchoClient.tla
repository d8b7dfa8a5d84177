----------------------------- MODULE MCEchoClient -----------------------------
(***************************************************************************)
(* A small instance of module EchoClient: its parameters are in the        *)
(* configuration.                                                          *)
(***************************************************************************)
EXTENDS EchoClient
=============================================================================
