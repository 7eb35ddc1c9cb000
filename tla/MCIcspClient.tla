---------------------------- MODULE MCIcspClient ----------------------------
(***************************************************************************)
(* Finite instances of IcspClient: the constants are given in Client*.cfg. *)
(***************************************************************************)
EXTENDS IcspClient
=============================================================================
