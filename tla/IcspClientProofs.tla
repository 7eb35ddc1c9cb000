-------------------------- MODULE IcspClientProofs --------------------------
(***************************************************************************)
(* For every set of sockets and callers, on the thread pool as in the      *)
(* window: a connection that ICSPClient reports as Connected is read.      *)
(* In the window of ICSP.Control there is moreover never a second open     *)
(* connection, never a second loop on a stream, and RC4 is on exactly in   *)
(* the session that switched it on.                                        *)
(***************************************************************************)
EXTENDS IcspClient, SequenceTheorems, FiniteSetTheorems, TLAPS

\* A loop stays a loop when it moves on, with or without a packet.
LEMMA LoopMoves ==
  ASSUME NEW l \in Loop, NEW pc \in LoopState
  PROVE  /\ [l EXCEPT !.pc = pc] \in Loop
         /\ \A p \in Packet : [l EXCEPT !.pc = pc, !.got = p] \in Loop
  BY DEF Loop

\* The initial state satisfies the inductive invariant.
LEMMA InitIInv == Init => IInv
  <1> SUFFICES ASSUME Init PROVE IInv
    OBVIOUS
  <1>1. TypeOK
    <2>1. Ended("none") \in Loop
      BY DEF Ended, Loop, LoopState
    <2>2. <<>> \in Seq(Packet)
      OBVIOUS
    <2>3. reader \in [Sockets -> Loop] /\ inbox \in [Sockets -> Seq(Packet)]
      BY <2>1, <2>2, Zenon DEF Init
    <2>4. QED
      BY <2>3 DEF Init, TypeOK, SocketState, CallerState
  <1>2. OneConnector /\ FreshSockets /\ LoopOfCurrent
    BY ClientConstants DEF Init, OneConnector, FreshSockets, LoopOfCurrent, Ended
  <1>3. QED
    BY <1>1, <1>2 DEF IInv

\* Every step keeps the types (the queues of packets included).
LEMMA StepTypeOK == IInv /\ [Next]_vars => TypeOK'
  <1> SUFFICES ASSUME IInv, [Next]_vars PROVE TypeOK'
    OBVIOUS
  <1> USE ClientConstants DEF IInv, TypeOK, SocketState, CallerState
  <1>h. host' \in Hosts
    BY DEF Next, vars
  <1> USE <1>h
  <1>1. CASE \E c \in Callers : Connecting(c)
    <2> PICK c \in Callers : Connecting(c)
      BY <1>1
    <2>1. CASE Dial(c)
      BY <2>1 DEF Dial, CloseIfAny
    <2>2. CASE DnsFails(c)
      BY <2>2 DEF DnsFails, Leave
    <2>3. CASE Established(c)
      BY <2>3 DEF Established, OneConnector
    <2>4. CASE Refused(c)
      BY <2>4 DEF Refused, Leave
    <2>5. CASE TimedOut(c)
      BY <2>5 DEF TimedOut, Leave, CloseIfAny
    <2>6. CASE Attach(c)
      BY <2>6 DEF Attach, Connected, Loop, LoopState
    <2>7. CASE AttachFails(c)
      BY <2>7 DEF AttachFails, Leave
    <2>8. CASE Announce(c)
      BY <2>8 DEF Announce, Leave
    <2>9. CASE Resolved(c)
      BY <2>9 DEF Resolved
    <2>10. QED
      BY <2>1, <2>2, <2>3, <2>4, <2>5, <2>6, <2>7, <2>8, <2>9 DEF Connecting
  <1>2. CASE \E s \in Sockets : Reading(s)
    <2> PICK r \in Sockets : Reading(r)
      BY <1>2
    <2>1. CASE ReadPacket(r)
      <3> DEFINE s == reader[r].on
      <3>1. s \in Sockets /\ inbox[s] \in Seq(Packet) /\ inbox[s] # <<>>
        BY <2>1 DEF ReadPacket, FreshSockets
      <3>2. Head(inbox[s]) \in Packet /\ Tail(inbox[s]) \in Seq(Packet)
        BY <3>1, HeadTailProperties
      <3>3. inbox' \in [Sockets -> Seq(Packet)]
        BY <2>1, <3>1, <3>2 DEF ReadPacket
      <3>4. reader' \in [Sockets -> Loop]
        <4> DEFINE l == [reader[r] EXCEPT !.pc = "handling", !.got = Head(inbox[s])]
        <4>1. l \in Loop
          BY <3>2, LoopMoves DEF LoopState
        <4>2. reader' = [reader EXCEPT ![r] = l]
          BY <2>1 DEF ReadPacket
        <4>3. QED
          BY <4>1, <4>2
      <3>5. QED
        BY <2>1, <3>3, <3>4 DEF ReadPacket
    <2>2. CASE ReadEnds(r)
      <3>1. reader' \in [Sockets -> Loop]
        <4> DEFINE l == [reader[r] EXCEPT !.pc = "ending"]
        <4>1. l \in Loop
          BY LoopMoves DEF LoopState
        <4>2. reader' = [reader EXCEPT ![r] = l]
          BY <2>2 DEF ReadEnds
        <4>3. QED
          BY <4>1, <4>2
      <3>2. socket' = socket \/ socket' = [socket EXCEPT ![reader[r].on] = "failed"]
        BY <2>2, Zenon DEF ReadEnds
      <3>3. socket' \in [Sockets -> SocketState]
        BY <3>2
      <3>4. QED
        BY <2>2, <3>1, <3>3 DEF ReadEnds
    <2>3. CASE ForgetSocket(r)
      BY <2>3 DEF ForgetSocket, Ended, Loop, LoopState
    <2>4. CASE HandlePacket(r)
      <3>1. NextRead \in Loop /\ Ended("threw") \in Loop
        BY DEF NextRead, Ended, Loop, LoopState
      <3>2. reader' \in [Sockets -> Loop]
        BY <2>4, <3>1 DEF HandlePacket
      <3>3. authenticated' \subseteq Sockets
        BY <2>4 DEF HandlePacket, FreshSockets
      <3>4. EncryptionMode' \in BOOLEAN
        BY <2>4 DEF HandlePacket
      <3>5. QED
        BY <2>4, <3>2, <3>3, <3>4 DEF HandlePacket
    <2>5. QED
      BY <2>1, <2>2, <2>3, <2>4 DEF Reading
  <1>3. CASE \E s \in Sockets : Peer(s)
    <2> PICK s \in Sockets : Peer(s)
      BY <1>3
    <2>1. CASE PeerCloses(s)
      BY <2>1 DEF PeerCloses
    <2>2. CASE OrphanConnects(s)
      BY <2>2 DEF OrphanConnects
    <2>3. CASE \E p \in Packets : PeerSends(s, p)
      <3> PICK p \in Packets : PeerSends(s, p)
        BY <2>3
      <3>1. Append(inbox[s], p) \in Seq(Packet)
        <4>1. inbox[s] \in Seq(Packet) /\ p \in Packet
          BY DEF Packet
        <4>2. QED
          BY <4>1, AppendProperties
      <3>2. QED
        BY <3>1 DEF PeerSends
    <2>4. QED
      BY <2>1, <2>2, <2>3 DEF Peer
  <1>4. CASE Disconnect
    BY <1>4 DEF Disconnect, Connected
  <1>5. CASE SendFails
    BY <1>5 DEF SendFails
  <1>6. CASE Dispose
    BY <1>6 DEF Dispose, CloseIfAny
  <1>7. CASE UNCHANGED vars
    BY <1>7 DEF vars
  <1>8. QED
    BY <1>1, <1>2, <1>3, <1>4, <1>5, <1>6, <1>7 DEF Next, Step

\* Every step keeps the ConnectAsync code to one thread.
LEMMA StepOneConnector == IInv /\ [Next]_vars => OneConnector'
  <1> SUFFICES ASSUME IInv, [Next]_vars PROVE OneConnector'
    OBVIOUS
  <1> USE ClientConstants DEF IInv, TypeOK, OneConnector, FreshSockets, LoopOfCurrent
  <1>1. CASE \E c \in Callers : Connecting(c)
    <2> PICK c \in Callers : Connecting(c)
      BY <1>1
    <2>1. CASE Dial(c)
      BY <2>1 DEF Dial, MayDial, CloseIfAny
    <2>2. CASE DnsFails(c)
      BY <2>2 DEF DnsFails, Leave
    <2>3. CASE Established(c)
      BY <2>3 DEF Established
    <2>4. CASE Refused(c)
      BY <2>4 DEF Refused, Leave
    <2>5. CASE TimedOut(c)
      BY <2>5 DEF TimedOut, Leave, CloseIfAny
    <2>6. CASE Attach(c)
      BY <2>6 DEF Attach, Connected
    <2>7. CASE AttachFails(c)
      BY <2>7 DEF AttachFails, Leave, Connected
    <2>8. CASE Announce(c)
      BY <2>8 DEF Announce, Leave
    <2>9. CASE Resolved(c)
      BY <2>9 DEF Resolved
    <2>10. QED
      BY <2>1, <2>2, <2>3, <2>4, <2>5, <2>6, <2>7, <2>8, <2>9 DEF Connecting
  <1>2. CASE \E s \in Sockets : Reading(s)
    <2> PICK r \in Sockets : Reading(r)
      BY <1>2
    <2>1. CASE ReadPacket(r)
      <3>1. UNCHANGED <<socket, mSocket, caller, own, mTaskConnectAsyncRunning>>
        BY <2>1 DEF ReadPacket
      <3>2. \A s \in Sockets : reader[s].pc = "none" => reader'[s].pc = "none"
        BY <2>1 DEF ReadPacket
      <3>3. OneConnector
        OBVIOUS
      <3> HIDE DEF IInv
      <3>4. QED
        BY <3>1, <3>2, <3>3
    <2>2. CASE ReadEnds(r)
      BY <2>2 DEF ReadEnds
    <2>3. CASE ForgetSocket(r)
      BY <2>3 DEF ForgetSocket, Ended
    <2>4. CASE HandlePacket(r)
      BY <2>4 DEF HandlePacket, NextRead, Ended
    <2>5. QED
      BY <2>1, <2>2, <2>3, <2>4 DEF Reading
  <1>3. CASE \E s \in Sockets : Peer(s)
    <2> PICK s \in Sockets : Peer(s)
      BY <1>3
    <2>1. CASE PeerCloses(s)
      BY <2>1 DEF PeerCloses
    <2>2. CASE OrphanConnects(s)
      BY <2>2 DEF OrphanConnects
    <2>3. CASE \E p \in Packets : PeerSends(s, p)
      BY <2>3 DEF PeerSends
    <2>4. QED
      BY <2>1, <2>2, <2>3 DEF Peer
  <1>4. CASE Disconnect
    BY <1>4 DEF Disconnect, Connected
  <1>5. CASE SendFails
    BY <1>5 DEF SendFails
  <1>6. CASE Dispose
    BY <1>6 DEF Dispose, CloseIfAny
  <1>7. CASE UNCHANGED vars
    BY <1>7 DEF vars
  <1>8. QED
    BY <1>1, <1>2, <1>3, <1>4, <1>5, <1>6, <1>7 DEF Next, Step

\* No step names a socket that was not made.
LEMMA StepFreshSockets == IInv /\ [Next]_vars => FreshSockets'
  <1> SUFFICES ASSUME IInv, [Next]_vars PROVE FreshSockets'
    OBVIOUS
  <1> USE ClientConstants DEF IInv, TypeOK, OneConnector, FreshSockets, LoopOfCurrent
  <1>1. CASE \E c \in Callers : Connecting(c)
    <2> PICK c \in Callers : Connecting(c)
      BY <1>1
    <2>1. CASE Dial(c)
      BY <2>1 DEF Dial, MayDial, CloseIfAny
    <2>2. CASE DnsFails(c)
      BY <2>2 DEF DnsFails, Leave
    <2>3. CASE Established(c)
      BY <2>3 DEF Established
    <2>4. CASE Refused(c)
      BY <2>4 DEF Refused, Leave
    <2>5. CASE TimedOut(c)
      BY <2>5 DEF TimedOut, Leave, CloseIfAny
    <2>6. CASE Attach(c)
      BY <2>6 DEF Attach, Connected
    <2>7. CASE AttachFails(c)
      BY <2>7 DEF AttachFails, Leave, Connected
    <2>8. CASE Announce(c)
      BY <2>8 DEF Announce, Leave
    <2>9. CASE Resolved(c)
      BY <2>9 DEF Resolved
    <2>10. QED
      BY <2>1, <2>2, <2>3, <2>4, <2>5, <2>6, <2>7, <2>8, <2>9 DEF Connecting
  <1>2. CASE \E s \in Sockets : Reading(s)
    <2> PICK r \in Sockets : Reading(r)
      BY <1>2
    <2>1. CASE ReadPacket(r)
      BY <2>1 DEF ReadPacket
    <2>2. CASE ReadEnds(r)
      BY <2>2 DEF ReadEnds
    <2>3. CASE ForgetSocket(r)
      BY <2>3 DEF ForgetSocket, Ended
    <2>4. CASE HandlePacket(r)
      BY <2>4 DEF HandlePacket, NextRead, Ended
    <2>5. QED
      BY <2>1, <2>2, <2>3, <2>4 DEF Reading
  <1>3. CASE \E s \in Sockets : Peer(s)
    <2> PICK s \in Sockets : Peer(s)
      BY <1>3
    <2>1. CASE PeerCloses(s)
      BY <2>1 DEF PeerCloses
    <2>2. CASE OrphanConnects(s)
      BY <2>2 DEF OrphanConnects
    <2>3. CASE \E p \in Packets : PeerSends(s, p)
      BY <2>3 DEF PeerSends
    <2>4. QED
      BY <2>1, <2>2, <2>3 DEF Peer
  <1>4. CASE Disconnect
    BY <1>4 DEF Disconnect, Connected
  <1>5. CASE SendFails
    BY <1>5 DEF SendFails
  <1>6. CASE Dispose
    BY <1>6 DEF Dispose, CloseIfAny
  <1>7. CASE UNCHANGED vars
    BY <1>7 DEF vars
  <1>8. QED
    BY <1>1, <1>2, <1>3, <1>4, <1>5, <1>6, <1>7 DEF Next, Step

\* No step parts the current socket from its loop.
LEMMA StepLoopOfCurrent == IInv /\ [Next]_vars => LoopOfCurrent'
  <1> SUFFICES ASSUME IInv, [Next]_vars PROVE LoopOfCurrent'
    OBVIOUS
  <1> USE ClientConstants DEF IInv, TypeOK, OneConnector, FreshSockets, LoopOfCurrent
  <1>1. CASE \E c \in Callers : Connecting(c)
    <2> PICK c \in Callers : Connecting(c)
      BY <1>1
    <2>1. CASE Dial(c)
      BY <2>1 DEF Dial, MayDial, CloseIfAny
    <2>2. CASE DnsFails(c)
      BY <2>2 DEF DnsFails, Leave
    <2>3. CASE Established(c)
      BY <2>3 DEF Established
    <2>4. CASE Refused(c)
      BY <2>4 DEF Refused, Leave
    <2>5. CASE TimedOut(c)
      BY <2>5 DEF TimedOut, Leave, CloseIfAny
    <2>6. CASE Attach(c)
      BY <2>6 DEF Attach, Connected
    <2>7. CASE AttachFails(c)
      BY <2>7 DEF AttachFails, Leave, Connected
    <2>8. CASE Announce(c)
      BY <2>8 DEF Announce, Leave
    <2>9. CASE Resolved(c)
      BY <2>9 DEF Resolved
    <2>10. QED
      BY <2>1, <2>2, <2>3, <2>4, <2>5, <2>6, <2>7, <2>8, <2>9 DEF Connecting
  <1>2. CASE \E s \in Sockets : Reading(s)
    <2> PICK r \in Sockets : Reading(r)
      BY <1>2
    <2>1. CASE ReadPacket(r)
      BY <2>1 DEF ReadPacket
    <2>2. CASE ReadEnds(r)
      BY <2>2 DEF ReadEnds
    <2>3. CASE ForgetSocket(r)
      BY <2>3 DEF ForgetSocket, Ended
    <2>4. CASE HandlePacket(r)
      BY <2>4 DEF HandlePacket, NextRead, Ended
    <2>5. QED
      BY <2>1, <2>2, <2>3, <2>4 DEF Reading
  <1>3. CASE \E s \in Sockets : Peer(s)
    <2> PICK s \in Sockets : Peer(s)
      BY <1>3
    <2>1. CASE PeerCloses(s)
      BY <2>1 DEF PeerCloses
    <2>2. CASE OrphanConnects(s)
      BY <2>2 DEF OrphanConnects
    <2>3. CASE \E p \in Packets : PeerSends(s, p)
      BY <2>3 DEF PeerSends
    <2>4. QED
      BY <2>1, <2>2, <2>3 DEF Peer
  <1>4. CASE Disconnect
    BY <1>4 DEF Disconnect, Connected
  <1>5. CASE SendFails
    BY <1>5 DEF SendFails
  <1>6. CASE Dispose
    BY <1>6 DEF Dispose, CloseIfAny
  <1>7. CASE UNCHANGED vars
    BY <1>7 DEF vars
  <1>8. QED
    BY <1>1, <1>2, <1>3, <1>4, <1>5, <1>6, <1>7 DEF Next, Step

\* The invariant holds of every behaviour.
THEOREM Invariance == Spec => []IInv
  <1>1. IInv /\ [Next]_vars => IInv'
    BY StepTypeOK, StepOneConnector, StepFreshSockets, StepLoopOfCurrent DEF IInv
  <1>2. QED
    BY InitIInv, <1>1, PTL DEF Spec

\* ICSPClient's fields keep their types, whatever the interleaving of
\* ConnectAsync, Disconnect, Dispose and the read loops.
THEOREM TypeCorrect == Spec => []TypeOK
  <1>1. IInv => TypeOK
    BY DEF IInv
  <1>2. QED
    BY Invariance, <1>1, PTL

\* A connection ICSPClient.Connected reports, outside ConnectAsync, has its own
\* read loop on it (or that loop was ended by a packet it could not parse), for
\* any number of callers, connections and loops of earlier connections.
THEOREM CurrentConnectionIsRead == Spec => []ConnectedIsRead
  <1>1. IInv => ConnectedIsRead
    <2> SUFFICES ASSUME IInv, Connected, ~mTaskConnectAsyncRunning
                 PROVE  LET l == reader[mSocket] IN
                        l.pc = "threw" \/ (l.pc \in {"reading", "handling", "ending"}
                                           /\ l.on = mSocket)
      BY DEF ConnectedIsRead
    <2>1. reader[mSocket].pc # "none"
      BY DEF IInv, TypeOK, Connected, OneConnector, LoopOfCurrent
    <2>2. reader[mSocket].pc \in LoopState
      BY DEF IInv, TypeOK, Connected, Loop
    <2>3. QED
      BY <2>1, <2>2 DEF IInv, Connected, LoopOfCurrent, LoopState
  <1>2. QED
    BY Invariance, <1>1, PTL

-----------------------------------------------------------------------------
(***************************************************************************)
(* The window.                                                             *)
(***************************************************************************)
Running(s) == reader[s].pc \in {"reading", "handling", "ending"}

\* While ConnectAsync blocks the window there is no loop; the one it starts may run
\* inside it; and a loop outside it means that DlgMain has seen "online", so that
\* its Connect button is disabled.
OneThread ==
    /\ \A c \in Callers : caller[c] \in {"waiting", "established"} => mSocket = own[c]
    /\ \A c \in Callers : caller[c] \in {"resolving", "waiting", "established"} =>
          /\ lastEvent # "online"
          /\ \A s \in Sockets : ~Running(s)
    /\ \A c \in Callers, s \in Sockets :
          caller[c] = "attached" /\ Running(s) => s = own[c]
    /\ \A s \in Sockets : reader[s].pc \in {"reading", "handling"} =>
          lastEvent = "online" \/ \E c \in Callers : caller[c] = "attached"

\* The one loop is that of the current connection, or of the one Dispose closed.
OneLoop ==
    /\ \A r, t \in Sockets : Running(r) /\ Running(t) => r = t
    /\ \A s \in Sockets : Running(s) =>
          /\ reader[s].on = s /\ mStream = s
          /\ mSocket = s \/ (mSocket = Null /\ mIsDisposed)
    /\ \A s \in Sockets :
          reader[s].pc = "reading" /\ reader[s].buffer = "empty" => mSocket = Null

\* A socket connecting or connected is the one in mSocket: what is replaced,
\* disposed of, given up or found at its end is open no more.
OnlyCurrentOpen ==
    /\ \A s \in Sockets \ peerClosed : socket[s] \in {"connecting", "open"} => s = mSocket
    /\ \A s \in Sockets : socket[s] = "connecting" =>
          \E c \in Callers : caller[c] = "waiting" /\ own[c] = s
    /\ \A s \in Sockets \ peerClosed : reader[s].pc = "ending" => socket[s] # "open"

\* RC4 is switched on by a loop of the current connection, and switched off by the
\* same loop before DlgMain lets the next connection be made.
EncryptionFollows ==
    /\ EncryptionMode =>
          /\ mSocket \in authenticated \/ mIsDisposed
          /\ lastEvent = "online" \/ \E c \in Callers : caller[c] = "attached"
    /\ \A s \in Sockets :
          /\ reader[s].pc = "ending" => ~EncryptionMode
          /\ s \in authenticated => reader[s].pc # "none"
          /\ s = mSocket /\ s \in authenticated /\ socket[s] = "open" =>
                EncryptionMode \/ reader[s].pc = "ending"

WInv == IInv /\ OneThread /\ OneLoop /\ OnlyCurrentOpen /\ EncryptionFollows

-----------------------------------------------------------------------------
\* Nothing runs yet, nothing is open.
LEMMA InitWindow == Init => OneThread /\ OneLoop /\ OnlyCurrentOpen /\ EncryptionFollows
  BY ClientConstants
     DEF Init, Ended, Running, OneThread, OneLoop, OnlyCurrentOpen, EncryptionFollows

\* In the window every step keeps the four parts.
LEMMA StepWindow ==
    ASSUME UiThread, WInv, [Next]_vars
    PROVE  OneThread' /\ OneLoop' /\ OnlyCurrentOpen' /\ EncryptionFollows'
  <1> USE ClientConstants DEF WInv, IInv, TypeOK, Running
  <1>1. ASSUME NEW c \in Callers, Dial(c)
        PROVE  OneThread' /\ OneLoop' /\ OnlyCurrentOpen' /\ EncryptionFollows'
    <2>1. OneThread'
      BY <1>1 DEF Dial, MayDial, MayRun, CallerBusy, LoopBusy, OneThread
    <2>2. OneLoop'
      BY <1>1 DEF Dial, OneLoop
    <2>3. OnlyCurrentOpen'
      BY <1>1 DEF Dial, MayDial, MayRun, CallerBusy, CloseIfAny, OnlyCurrentOpen
    <2>4. EncryptionFollows'
      BY <1>1 DEF Dial, MayDial, MayRun, CallerBusy, CloseIfAny, EncryptionFollows
    <2>5. QED
      BY <2>1, <2>2, <2>3, <2>4
  <1>2. ASSUME NEW c \in Callers, DnsFails(c)
        PROVE  OneThread' /\ OneLoop' /\ OnlyCurrentOpen' /\ EncryptionFollows'
    <2>1. OneThread'
      BY <1>2 DEF DnsFails, Leave, OneThread
    <2>2. OneLoop'
      BY <1>2 DEF DnsFails, OneLoop
    <2>3. OnlyCurrentOpen'
      BY <1>2 DEF DnsFails, Leave, OnlyCurrentOpen
    <2>4. EncryptionFollows'
      BY <1>2 DEF DnsFails, Leave, EncryptionFollows
    <2>5. QED
      BY <2>1, <2>2, <2>3, <2>4
  <1>3. ASSUME NEW c \in Callers, Established(c)
        PROVE  OneThread' /\ OneLoop' /\ OnlyCurrentOpen' /\ EncryptionFollows'
    <2>1. OneThread'
      BY <1>3 DEF Established, OneThread
    <2>2. OneLoop'
      BY <1>3 DEF Established, OneLoop
    <2>3. OnlyCurrentOpen'
      BY <1>3 DEF Established, OneThread, OnlyCurrentOpen
    <2>4. EncryptionFollows'
      BY <1>3 DEF Established, EncryptionFollows, OneConnector
    <2>5. QED
      BY <2>1, <2>2, <2>3, <2>4
  <1>4. ASSUME NEW c \in Callers, Refused(c)
        PROVE  OneThread' /\ OneLoop' /\ OnlyCurrentOpen' /\ EncryptionFollows'
    <2>1. OneThread'
      BY <1>4 DEF Refused, Leave, OneThread
    <2>2. OneLoop'
      BY <1>4 DEF Refused, OneLoop
    <2>3. OnlyCurrentOpen'
      BY <1>4 DEF Refused, Leave, OnlyCurrentOpen
    <2>4. EncryptionFollows'
      BY <1>4 DEF Refused, Leave, EncryptionFollows
    <2>5. QED
      BY <2>1, <2>2, <2>3, <2>4
  <1>5. ASSUME NEW c \in Callers, TimedOut(c)
        PROVE  OneThread' /\ OneLoop' /\ OnlyCurrentOpen' /\ EncryptionFollows'
    <2>1. OneThread'
      BY <1>5 DEF TimedOut, Leave, OneThread
    <2>2. OneLoop'
      BY <1>5 DEF TimedOut, OneLoop
    <2>3. OnlyCurrentOpen'
      BY <1>5 DEF TimedOut, CloseIfAny, OneThread, OnlyCurrentOpen
    <2>4. EncryptionFollows'
      BY <1>5 DEF TimedOut, Leave, CloseIfAny, EncryptionFollows
    <2>5. QED
      BY <2>1, <2>2, <2>3, <2>4
  <1>6. ASSUME NEW c \in Callers, Attach(c)
        PROVE  OneThread' /\ OneLoop' /\ OnlyCurrentOpen' /\ EncryptionFollows'
    <2>1. OneThread'
      <3>1. /\ caller[c] = "established" /\ mSocket = own[c] /\ mSocket \in Sockets
            /\ caller' = [caller EXCEPT ![c] = "attached"]
            /\ UNCHANGED <<mSocket, own, lastEvent>>
            /\ \A e \in Callers : e # c => caller[e] = "idle"
        BY <1>6 DEF Attach, Connected, OneThread, OneConnector
      <3>2. \A s \in Sockets : s # mSocket => reader'[s] = reader[s] /\ ~Running(s)
        BY <1>6, <3>1 DEF Attach, OneThread
      <3>3. caller \in [Callers -> CallerState]
        OBVIOUS
      <3> HIDE DEF WInv, IInv
      <3>4. QED
        BY <3>1, <3>2, <3>3 DEF OneThread, CallerState
    <2>2. OneLoop'
      BY <1>6 DEF Attach, Connected, OneLoop
    <2>3. OnlyCurrentOpen'
      BY <1>6 DEF Attach, OnlyCurrentOpen
    <2>4. EncryptionFollows'
      BY <1>6 DEF Attach, OneThread, EncryptionFollows
    <2>5. QED
      BY <2>1, <2>2, <2>3, <2>4
  <1>7. ASSUME NEW c \in Callers, AttachFails(c)
        PROVE  OneThread' /\ OneLoop' /\ OnlyCurrentOpen' /\ EncryptionFollows'
    <2>1. OneThread'
      BY <1>7 DEF AttachFails, Leave, OneThread
    <2>2. OneLoop'
      BY <1>7 DEF AttachFails, OneLoop
    <2>3. OnlyCurrentOpen'
      BY <1>7 DEF AttachFails, Leave, OnlyCurrentOpen
    <2>4. EncryptionFollows'
      BY <1>7 DEF AttachFails, Leave, EncryptionFollows
    <2>5. QED
      BY <2>1, <2>2, <2>3, <2>4
  <1>8. ASSUME NEW c \in Callers, Announce(c)
        PROVE  OneThread' /\ OneLoop' /\ OnlyCurrentOpen' /\ EncryptionFollows'
    <2>1. OneThread'
      BY <1>8 DEF Announce, Leave, OneThread, OneConnector
    <2>2. OneLoop'
      BY <1>8 DEF Announce, OneLoop
    <2>3. OnlyCurrentOpen'
      BY <1>8 DEF Announce, Leave, OnlyCurrentOpen
    <2>4. EncryptionFollows'
      BY <1>8 DEF Announce, EncryptionFollows
    <2>5. QED
      BY <2>1, <2>2, <2>3, <2>4
  <1>9. ASSUME NEW r \in Sockets, ReadPacket(r)
        PROVE  OneThread' /\ OneLoop' /\ OnlyCurrentOpen' /\ EncryptionFollows'
    BY <1>9 DEF ReadPacket, OneThread, OneLoop, OnlyCurrentOpen, EncryptionFollows
  <1>10. ASSUME NEW r \in Sockets, ReadEnds(r)
        PROVE  OneThread' /\ OneLoop' /\ OnlyCurrentOpen' /\ EncryptionFollows'
    <2>1. OneThread'
      BY <1>10 DEF ReadEnds, OneThread, OneLoop
    <2>2. OneLoop'
      BY <1>10 DEF ReadEnds, OneLoop
    <2>3. OnlyCurrentOpen'
      <3>1. r \in peerClosed \/ socket[r] # "open"
        BY <1>10 DEF ReadEnds, ReadIsOver, OneLoop, OnlyCurrentOpen
      <3>2. \A s \in Sockets : socket'[s] = socket[s] \/ socket'[s] = "failed"
        BY <1>10 DEF ReadEnds
      <3>3. \A s \in Sockets : reader'[s].pc = "ending" => s = r \/ reader[s].pc = "ending"
        BY <1>10 DEF ReadEnds
      <3>4. UNCHANGED <<peerClosed, mSocket, caller, own>>
        BY <1>10 DEF ReadEnds
      <3>5. OnlyCurrentOpen
        OBVIOUS
      <3> HIDE DEF WInv, IInv
      <3>6. QED
        BY <3>1, <3>2, <3>3, <3>4, <3>5 DEF OnlyCurrentOpen
    <2>4. EncryptionFollows'
      BY <1>10 DEF ReadEnds, OneLoop, EncryptionFollows
    <2>5. QED
      BY <2>1, <2>2, <2>3, <2>4
  <1>11. ASSUME NEW r \in Sockets, ForgetSocket(r)
        PROVE  OneThread' /\ OneLoop' /\ OnlyCurrentOpen' /\ EncryptionFollows'
    <2>1. OneThread'
      BY <1>11 DEF ForgetSocket, Ended, OneThread
    <2>2. OneLoop'
      BY <1>11 DEF ForgetSocket, Ended, OneLoop
    <2>3. OnlyCurrentOpen'
      BY <1>11 DEF ForgetSocket, OneThread, OneLoop, OnlyCurrentOpen
    <2>4. EncryptionFollows'
      BY <1>11 DEF ForgetSocket, Ended, EncryptionFollows
    <2>5. QED
      BY <2>1, <2>2, <2>3, <2>4
  <1>12. ASSUME NEW r \in Sockets, HandlePacket(r)
        PROVE  OneThread' /\ OneLoop' /\ OnlyCurrentOpen' /\ EncryptionFollows'
    <2>1. OneThread'
      BY <1>12 DEF HandlePacket, OneThread
    <2>2. OneLoop'
      BY <1>12 DEF HandlePacket, NextRead, Ended, OneLoop
    <2>3. OnlyCurrentOpen'
      BY <1>12 DEF HandlePacket, NextRead, Ended, OnlyCurrentOpen
    <2>4. EncryptionFollows'
      <3>1. /\ reader[r].pc = "handling" /\ reader[r].on = r
            /\ mSocket = r \/ mIsDisposed
            /\ lastEvent = "online" \/ \E c \in Callers : caller[c] = "attached"
        BY <1>12 DEF HandlePacket, OneLoop, OneThread
      <3>2. /\ reader'[r].pc \in {"reading", "threw"}
            /\ \A s \in Sockets : s # r => reader'[s] = reader[s]
            /\ \A s \in Sockets : reader[s].pc = "ending" => s = r
        BY <1>12, <3>1 DEF HandlePacket, NextRead, Ended, OneLoop
      <3>3. \/ UNCHANGED <<EncryptionMode, authenticated>>
            \/ EncryptionMode' = TRUE /\ authenticated' = authenticated \cup {r}
        BY <1>12, <3>1 DEF HandlePacket
      <3>4. UNCHANGED <<socket, mSocket, caller, lastEvent, mIsDisposed>>
        BY <1>12 DEF HandlePacket
      <3>5. EncryptionFollows
        OBVIOUS
      <3> HIDE DEF WInv, IInv
      <3>6. QED
        BY <3>1, <3>2, <3>3, <3>4, <3>5 DEF EncryptionFollows
    <2>5. QED
      BY <2>1, <2>2, <2>3, <2>4
  <1>13. ASSUME NEW s \in Sockets, PeerCloses(s)
        PROVE  OneThread' /\ OneLoop' /\ OnlyCurrentOpen' /\ EncryptionFollows'
    BY <1>13 DEF PeerCloses, OneThread, OneLoop, OnlyCurrentOpen, EncryptionFollows
  <1>14. ASSUME NEW s \in Sockets, OrphanConnects(s)
        PROVE  OneThread' /\ OneLoop' /\ OnlyCurrentOpen' /\ EncryptionFollows'
    <2>1. OneThread'
      BY <1>14 DEF OrphanConnects, OneThread
    <2>2. OneLoop'
      BY <1>14 DEF OrphanConnects, OneLoop
    <2>3. OnlyCurrentOpen'
      BY <1>14 DEF OrphanConnects, OnlyCurrentOpen
    <2>4. EncryptionFollows'
      BY <1>14 DEF OrphanConnects, OnlyCurrentOpen, EncryptionFollows
    <2>5. QED
      BY <2>1, <2>2, <2>3, <2>4
  <1>15. ASSUME NEW s \in Sockets, NEW p \in Packets, PeerSends(s, p)
        PROVE  OneThread' /\ OneLoop' /\ OnlyCurrentOpen' /\ EncryptionFollows'
    BY <1>15 DEF PeerSends, OneThread, OneLoop, OnlyCurrentOpen, EncryptionFollows
  <1>16. ASSUME Disconnect
        PROVE  OneThread' /\ OneLoop' /\ OnlyCurrentOpen' /\ EncryptionFollows'
    BY <1>16 DEF Disconnect, OneThread, OneLoop, OnlyCurrentOpen, EncryptionFollows
  <1>17. ASSUME SendFails
        PROVE  OneThread' /\ OneLoop' /\ OnlyCurrentOpen' /\ EncryptionFollows'
    BY <1>17 DEF SendFails, OneThread, OneLoop, OnlyCurrentOpen, EncryptionFollows
  <1>18. ASSUME Dispose
        PROVE  OneThread' /\ OneLoop' /\ OnlyCurrentOpen' /\ EncryptionFollows'
    <2>1. OneThread'
      BY <1>18 DEF Dispose, MayRun, CallerBusy, OneThread
    <2>2. OneLoop'
      BY <1>18 DEF Dispose, OneLoop
    <2>3. OnlyCurrentOpen'
      BY <1>18 DEF Dispose, CloseIfAny, OnlyCurrentOpen
    <2>4. EncryptionFollows'
      BY <1>18 DEF Dispose, EncryptionFollows
    <2>5. QED
      BY <2>1, <2>2, <2>3, <2>4
  <1>19. ASSUME UNCHANGED vars
        PROVE  OneThread' /\ OneLoop' /\ OnlyCurrentOpen' /\ EncryptionFollows'
    BY <1>19 DEF vars, OneThread, OneLoop, OnlyCurrentOpen, EncryptionFollows
  <1>20. ASSUME NEW c \in Callers, Resolved(c)
        PROVE  OneThread' /\ OneLoop' /\ OnlyCurrentOpen' /\ EncryptionFollows'
    <2>1. OneThread'
      BY <1>20 DEF Resolved, OneThread, OneConnector
    <2>2. OneLoop'
      BY <1>20 DEF Resolved, OneThread, OneLoop
    <2>3. OnlyCurrentOpen'
      BY <1>20 DEF Resolved, OneThread, OneConnector, OnlyCurrentOpen
    <2>4. EncryptionFollows'
      BY <1>20 DEF Resolved, OneThread, OneConnector, EncryptionFollows
    <2>5. QED
      BY <2>1, <2>2, <2>3, <2>4
  <1>21. QED
    BY <1>1, <1>2, <1>3, <1>4, <1>5, <1>6, <1>7, <1>8, <1>9, <1>10,
       <1>11, <1>12, <1>13, <1>14, <1>15, <1>16, <1>17, <1>18, <1>19, <1>20
       DEF Next, Step, Connecting, Reading, Peer

-----------------------------------------------------------------------------
\* In the window the invariant holds of every behaviour.
THEOREM WindowInvariance == Spec => [](UiThread => WInv)
  <1> DEFINE Parts == UiThread => OneThread /\ OneLoop /\ OnlyCurrentOpen /\ EncryptionFollows
  <1>1. Init => Parts
    BY InitWindow
  <1>2. ASSUME IInv, Parts, [Next]_vars PROVE Parts'
    <2> SUFFICES ASSUME UiThread'
                 PROVE  OneThread' /\ OneLoop' /\ OnlyCurrentOpen' /\ EncryptionFollows'
      OBVIOUS
    <2>1. UiThread
      BY <1>2 DEF Next, vars, UiThread
    <2>2. QED
      BY <1>2, <2>1, StepWindow DEF WInv
  <1>3. IInv /\ Parts => (UiThread => WInv)
    BY DEF WInv
  <1>4. QED
    BY Invariance, <1>1, <1>2, <1>3, PTL DEF Spec

\* ConnectAsync in the window closes what it replaces: at most one socket is
\* connecting or connected, however many connections were made, refused, timed
\* out, dropped by the master or closed by the user before.
THEOREM WindowHasOneConnection == Spec => []WindowHasOneOpen
  <1>1. (UiThread => WInv) => WindowHasOneOpen
    <2> SUFFICES ASSUME WInv PROVE AtMostOneOpen
      BY DEF WindowHasOneOpen
    <2> DEFINE Open == {s \in Sockets \ peerClosed : socket[s] \in {"connecting", "open"}}
    <2>1. Open = {} \/ Open = {mSocket}
      BY DEF WInv, OnlyCurrentOpen
    <2>2. Cardinality(Open) \in {0, 1}
      BY <2>1, FS_EmptySet, FS_Singleton, Zenon
    <2>3. QED
      BY <2>2 DEF AtMostOneOpen
  <1>2. QED
    BY WindowInvariance, <1>1, PTL

\* No two read loops ever await the same stream in the window.
THEOREM WindowHasOneLoop == Spec => []OneLoopPerStream
  <1>1. (UiThread => WInv) => OneLoopPerStream
    BY DEF WInv, OneLoop, OneLoopPerStream, Running
  <1>2. QED
    BY WindowInvariance, <1>1, PTL

\* EncryptionMode, a field of the client and not of the connection, follows the
\* connection in the window: a ChallengeAck of one session never leaves the next
\* one encrypted, and no end of an old loop switches it off under a live session.
THEOREM WindowEncryptionFollows == Spec => []EncryptionMatchesSession
  <1>1. (UiThread => WInv) => EncryptionMatchesSession
    BY DEF WInv, IInv, TypeOK, EncryptionFollows, EncryptionMatchesSession, Connected,
           LoopBusy
  <1>2. QED
    BY WindowInvariance, <1>1, PTL
=============================================================================
