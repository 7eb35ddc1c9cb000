--------------------------- MODULE MessageChannel ---------------------------
(***************************************************************************)
(* What a connection promises to the device at its end: it is handed the   *)
(* messages its peer sent, each once, whole and in the order of sending.   *)
(***************************************************************************)
EXTENDS Naturals, Sequences

VARIABLES sent, received

Init == sent = <<>> /\ received = <<>>

Send ==
    /\ Len(sent') = Len(sent) + 1
    /\ sent' = Append(sent, sent'[Len(sent) + 1])
    /\ UNCHANGED received

Receive ==
    /\ Len(received) < Len(sent)
    /\ received' = Append(received, sent[Len(received) + 1])
    /\ UNCHANGED sent

Spec == Init /\ [][Send \/ Receive]_<<sent, received>>

Delivered == []<>(received = sent)
=============================================================================
