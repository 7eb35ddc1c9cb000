---------------------------- MODULE MCIcspManager ----------------------------
(***************************************************************************)
(* Finite instances of IcspManager: the constants are given in Manager*.cfg*)
(***************************************************************************)
EXTENDS IcspManager
==============================================================================
