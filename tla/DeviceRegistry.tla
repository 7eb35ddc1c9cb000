--------------------------- MODULE DeviceRegistry ---------------------------
(***************************************************************************)
(* What an ICSPManager promises to its users, a web panel for one: devices *)
(* that somebody asked for are accepted by the master, only accepted       *)
(* devices count as registered, and nothing but the loss of the connection *)
(* takes a registration back; that takes back all of them.                 *)
(* This is what OnClientOnlineStatusChanged does (mDevices.Clear()).  The  *)
(* comment beside it says the contrary, "Do not remove devices!":          *)
(* PingFindsDevice of IcspManager states that, and the code does not keep  *)
(* it.                                                                     *)
(***************************************************************************)
CONSTANT Devices

VARIABLES asked, acknowledged, registered

Init == asked = {} /\ acknowledged = {} /\ registered = {}

Ask(d) ==
    /\ asked' = asked \cup {d}
    /\ UNCHANGED <<acknowledged, registered>>

Acknowledge(d) ==
    /\ d \in asked
    /\ acknowledged' = acknowledged \cup {d}
    /\ UNCHANGED <<asked, registered>>

Register(d) ==
    /\ d \in acknowledged
    /\ registered' = registered \cup {d}
    /\ UNCHANGED <<asked, acknowledged>>

Lose ==
    /\ acknowledged' = {} /\ registered' = {}
    /\ UNCHANGED asked

Next == (\E d \in Devices : Ask(d) \/ Acknowledge(d) \/ Register(d)) \/ Lose

Spec == Init /\ [][Next]_<<asked, acknowledged, registered>>
=============================================================================
