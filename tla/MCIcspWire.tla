----------------------------- MODULE MCIcspWire -----------------------------
(***************************************************************************)
(* Finite instances of IcspWire.                                           *)
(***************************************************************************)
EXTENDS IcspWire

OneKey == <<3, 6>>
TwoSalts == {<<5>>, <<1>>}
EmptyAndOne == {<<>>, <<4>>}
AllThreads == Senders \cup {Reader}

\* The sessions in which calls of TransformBlock cannot overlap.
Safe == {<<TRUE, TRUE>>, <<TRUE, FALSE>>, <<FALSE, FALSE>>}
Pool == {<<FALSE, TRUE>>}
=============================================================================
