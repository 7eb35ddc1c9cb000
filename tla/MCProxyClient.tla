--------------------------- MODULE MCProxyClient ---------------------------
(***************************************************************************)
(* Two browsers on one configured connection with two devices; the second  *)
(* names its device in the query string.                                   *)
(***************************************************************************)
EXTENDS ProxyClient

CONSTANTS p1, p2, d1, d2

TwoDevices == <<d1, d2>>
OneQuery == [p \in Panels |-> IF p = p2 THEN d2 ELSE None]
=============================================================================
