----------------------------- MODULE IcspClient -----------------------------
(***************************************************************************)
(* The TCP connection of ICSP.Core (Client/ICSPClient.cs): ConnectAsync,   *)
(* Disconnect, Dispose and the read loop that every successful             *)
(* ConnectAsync starts.  mSocket and mStream are plain fields shared by    *)
(* all of them, read again after every await; a socket is known by its     *)
(* identity and a read loop by the socket it was started for.              *)
(*                                                                         *)
(* The host is the program the client runs in.  "pool" is the thread pool  *)
(* of ICSP.WebProxy: any two pieces of code interleave.  "window" is       *)
(* ICSP.Control: the continuations of all awaits run on the one thread of  *)
(* the window, ConnectAsync blocks it (Task.Wait), and DlgMain enables its *)
(* Connect and Disconnect buttons only by the last                         *)
(* ClientOnlineStatusChanged event.                                        *)
(***************************************************************************)
EXTENDS Naturals, Sequences, FiniteSets

CONSTANTS Sockets,     \* the TcpClient objects a run may create
          Callers,     \* the threads that may call ConnectAsync
          Null,        \* the null reference
          Hosts,       \* the programs considered, see above
          Packets,     \* the kinds of packet the peer sends
          MaxInbox     \* bound: packets a connection holds unread

ASSUME ClientConstants ==
    /\ Null \notin Sockets
    /\ Null \notin {"data", "auth", "bad"}
    /\ Packets \subseteq {"data", "auth", "bad"}
    /\ Hosts \subseteq {"pool", "window"}
    /\ MaxInbox \in Nat

VARIABLES
    host,           \* the program, the same all the time
    socket,         \* state of each TcpClient, as its Connected property sees it
    peerClosed,     \* the sockets whose remote end has closed
    inbox,          \* per socket: the packets received and not yet read
    mSocket,
    mStream,        \* the socket the current NetworkStream belongs to
    mTaskConnectAsyncRunning,
    caller,         \* per thread: where it is in ConnectAsync
    own,            \* per thread: the socket its lTask is connecting
    reader,         \* per read loop: pc, the socket it awaits, the size of its
                    \* lBuffer, the packet it holds
    EncryptionMode, \* TRUE once a ChallengeAck has switched RC4 on
    authenticated,  \* the sockets that carried such a ChallengeAck (history)
    lastEvent,      \* the last ClientOnlineStatusChanged subscribers saw
    mIsDisposed

vars == <<host, socket, peerClosed, inbox, mSocket, mStream,
          mTaskConnectAsyncRunning, caller, own, reader, EncryptionMode,
          authenticated, lastEvent, mIsDisposed>>

SocketState == {"unused", "connecting", "open", "shutdown", "failed", "closed"}
CallerState == {"idle", "resolving", "waiting", "established", "attached"}
LoopState   == {"none", "reading", "handling", "ending", "dead", "threw"}

\* A packet is an ordinary message, a ChallengeAck that turns encryption on,
\* or one whose parsing throws (Factory.FromData, ICSPEncryptedMsg).
Packet == {"data", "auth", "bad"}

Loop == [pc : LoopState, on : Sockets \cup {Null},
         buffer : {"empty", "sized"}, got : Packet \cup {Null}]

TypeOK ==
    /\ host \in Hosts
    /\ socket \in [Sockets -> SocketState]
    /\ peerClosed \subseteq Sockets
    /\ inbox \in [Sockets -> Seq(Packet)]
    /\ mSocket \in Sockets \cup {Null}
    /\ mStream \in Sockets \cup {Null}
    /\ mTaskConnectAsyncRunning \in BOOLEAN
    /\ caller \in [Callers -> CallerState]
    /\ own \in [Callers -> Sockets \cup {Null}]
    /\ reader \in [Sockets -> Loop]
    /\ EncryptionMode \in BOOLEAN
    /\ authenticated \subseteq Sockets
    /\ lastEvent \in {"none", "online", "offline"}
    /\ mIsDisposed \in BOOLEAN

\* A loop that runs no more; why tells whether it returned or threw.
Ended(why) == [pc |-> why, on |-> Null, buffer |-> "empty", got |-> Null]

Init ==
    /\ host \in Hosts
    /\ socket = [s \in Sockets |-> "unused"]
    /\ peerClosed = {}
    /\ inbox = [s \in Sockets |-> <<>>]
    /\ mSocket = Null
    /\ mStream = Null
    /\ mTaskConnectAsyncRunning = FALSE
    /\ caller = [c \in Callers |-> "idle"]
    /\ own = [c \in Callers |-> Null]
    /\ reader = [s \in Sockets |-> Ended("none")]
    /\ EncryptionMode = FALSE
    /\ authenticated = {}
    /\ lastEvent = "none"
    /\ mIsDisposed = FALSE

-----------------------------------------------------------------------------
UiThread == host = "window"

Connected == mSocket # Null /\ socket[mSocket] = "open"

\* Code between two awaits that is under way.
CallerBusy == \E c \in Callers : caller[c] # "idle"
LoopBusy   == \E s \in Sockets : reader[s].pc \in {"handling", "ending"}

\* May a piece of code start now?  On the window's thread only when no other
\* one is under way.
MayRun == UiThread => ~CallerBusy /\ ~LoopBusy

\* A read loop also runs inside the ConnectAsync that has just started it, as
\* long as its reads complete at once.
MayResume(r) ==
    UiThread => /\ ~LoopBusy
                /\ \A c \in Callers :
                      caller[c] # "idle" => caller[c] = "attached" /\ own[c] = r

CloseIfAny(sk, s) == IF s = Null THEN sk ELSE [sk EXCEPT ![s] = "closed"]

\* The finally block of ConnectAsync, and its caller's return.
Leave(c) ==
    /\ caller' = [caller EXCEPT ![c] = "idle"]
    /\ own' = [own EXCEPT ![c] = Null]
    /\ mTaskConnectAsyncRunning' = FALSE

(***************************************************************************)
(* ConnectAsync.                                                           *)
(***************************************************************************)

\* What lets a ConnectAsync past its first two tests: it is the only one
\* running, and there is no connection.  A disposed ICSPManager does not
\* call it at all.
MayDial(c) ==
    /\ caller[c] = "idle"
    /\ MayRun
    /\ ~mIsDisposed
    /\ UiThread => lastEvent # "online"
    /\ ~mTaskConnectAsyncRunning
    /\ ~Connected

\* Close the socket mSocket still names, then look the host up, which blocks
\* this thread and no other.
Dial(c) ==
    /\ MayDial(c)
    /\ socket' = CloseIfAny(socket, mSocket)
    /\ mTaskConnectAsyncRunning' = TRUE
    /\ caller' = [caller EXCEPT ![c] = "resolving"]
    /\ UNCHANGED <<peerClosed, inbox, mSocket, mStream, own, reader, EncryptionMode,
                   authenticated, lastEvent, mIsDisposed>>

\* Replace the socket, whoever has meanwhile disposed of the client, and start
\* connecting.
Resolved(c) ==
    /\ caller[c] = "resolving"
    /\ \E s \in Sockets :
          /\ socket[s] = "unused"
          /\ socket' = [socket EXCEPT ![s] = "connecting"]
          /\ mSocket' = s
          /\ own' = [own EXCEPT ![c] = s]
    /\ caller' = [caller EXCEPT ![c] = "waiting"]
    /\ UNCHANGED <<peerClosed, inbox, mStream, mTaskConnectAsyncRunning, reader,
                   EncryptionMode, authenticated, lastEvent, mIsDisposed>>

\* Dns.GetHostAddresses throws: the old socket is closed already.
DnsFails(c) ==
    /\ caller[c] = "resolving"
    /\ Leave(c)
    /\ UNCHANGED <<socket, peerClosed, inbox, mSocket, mStream, reader,
                   EncryptionMode, authenticated, lastEvent, mIsDisposed>>

\* The TCP handshake of the socket being waited for completes in time.
Established(c) ==
    /\ caller[c] = "waiting"
    /\ socket[own[c]] = "connecting"
    /\ socket' = [socket EXCEPT ![own[c]] = "open"]
    /\ caller' = [caller EXCEPT ![c] = "established"]
    /\ UNCHANGED <<peerClosed, inbox, mSocket, mStream, mTaskConnectAsyncRunning,
                   own, reader, EncryptionMode, authenticated, lastEvent,
                   mIsDisposed>>

\* lTask faults: the host refuses, or the socket was closed under it.
Refused(c) ==
    /\ caller[c] = "waiting"
    /\ socket' = [socket EXCEPT ![own[c]] = IF @ = "closed" THEN @ ELSE "failed"]
    /\ Leave(c)
    /\ UNCHANGED <<peerClosed, inbox, mSocket, mStream, reader,
                   EncryptionMode, authenticated, lastEvent, mIsDisposed>>

TimedOutForgets(c) ==
    /\ caller[c] = "waiting"
    /\ mSocket' = Null
    /\ Leave(c)
    /\ UNCHANGED <<socket, peerClosed, inbox, mStream, reader,
                   EncryptionMode, authenticated, lastEvent, mIsDisposed>>

\* lTask.Wait gives up.  mSocket.Close() goes through the field: if a read
\* loop has set it to null meanwhile, it throws and nothing is closed.
TimedOut(c) ==
    /\ caller[c] = "waiting"
    /\ socket' = CloseIfAny(socket, mSocket)
    /\ Leave(c)
    /\ UNCHANGED <<peerClosed, inbox, mSocket, mStream, reader,
                   EncryptionMode, authenticated, lastEvent, mIsDisposed>>

\* A handshake nobody waits for any more completes.
OrphanConnects(s) ==
    /\ socket[s] = "connecting"
    /\ \A c \in Callers : ~(caller[c] = "waiting" /\ own[c] = s)
    /\ socket' = [socket EXCEPT ![s] = "open"]
    /\ UNCHANGED <<peerClosed, inbox, mSocket, mStream, mTaskConnectAsyncRunning,
                   caller, own, reader, EncryptionMode, authenticated,
                   lastEvent, mIsDisposed>>

\* mSocket.Connected holds: make the stream and start the read loop, which
\* runs up to its first await.
Attach(c) ==
    /\ caller[c] = "established"
    /\ Connected
    /\ mStream' = mSocket
    /\ reader' = [reader EXCEPT ![mSocket] =
                     [pc |-> "reading", on |-> mSocket, buffer |-> "sized",
                      got |-> Null]]
    /\ caller' = [caller EXCEPT ![c] = "attached"]
    /\ UNCHANGED <<socket, peerClosed, inbox, mSocket, mTaskConnectAsyncRunning,
                   own, EncryptionMode, authenticated, lastEvent, mIsDisposed>>

\* mSocket is null (the test throws) or no longer connected (only logged).
AttachFails(c) ==
    /\ caller[c] = "established"
    /\ ~Connected
    /\ Leave(c)
    /\ UNCHANGED <<socket, peerClosed, inbox, mSocket, mStream, reader,
                   EncryptionMode, authenticated, lastEvent, mIsDisposed>>

\* ClientOnlineStatusChanged(true), after the read loop was let go.
Announce(c) ==
    /\ caller[c] = "attached"
    /\ UiThread => ~LoopBusy
    /\ lastEvent' = "online"
    /\ Leave(c)
    /\ UNCHANGED <<socket, peerClosed, inbox, mSocket, mStream, reader,
                   EncryptionMode, authenticated, mIsDisposed>>

-----------------------------------------------------------------------------
(***************************************************************************)
(* Disconnect, SendAsync and Dispose.                                      *)
(***************************************************************************)

\* Shutdown(Both): the socket is no longer Connected, but still in mSocket
\* and not closed.  On a socket that is not connected it throws; caught.
Disconnect ==
    /\ MayRun
    /\ ~mIsDisposed
    /\ UiThread => lastEvent = "online"
    /\ Connected
    /\ socket' = [socket EXCEPT ![mSocket] = "shutdown"]
    /\ UNCHANGED <<peerClosed, inbox, mSocket, mStream, mTaskConnectAsyncRunning,
                   caller, own, reader, EncryptionMode, authenticated,
                   lastEvent, mIsDisposed>>

\* SendAsync writes to a connection whose remote end is gone: the exception is
\* swallowed, the socket is no longer Connected, the read loop still waits.
SendFails ==
    /\ mSocket # Null /\ mStream # Null
    /\ socket[mStream] = "open"
    /\ mStream \in peerClosed
    /\ socket' = [socket EXCEPT ![mStream] = "failed"]
    /\ UNCHANGED <<peerClosed, inbox, mSocket, mStream, mTaskConnectAsyncRunning,
                   caller, own, reader, EncryptionMode, authenticated,
                   lastEvent, mIsDisposed>>

Dispose ==
    /\ MayRun
    /\ ~mIsDisposed
    /\ mIsDisposed' = TRUE
    /\ socket' = CloseIfAny(socket, mSocket)
    /\ mSocket' = Null
    /\ UNCHANGED <<peerClosed, inbox, mStream, mTaskConnectAsyncRunning, caller,
                   own, reader, EncryptionMode, authenticated, lastEvent>>

-----------------------------------------------------------------------------
(***************************************************************************)
(* The peer.                                                               *)
(***************************************************************************)
PeerSends(s, p) ==
    /\ socket[s] = "open"
    /\ s \notin peerClosed
    /\ Len(inbox[s]) < MaxInbox
    /\ inbox' = [inbox EXCEPT ![s] = Append(@, p)]
    /\ UNCHANGED <<socket, peerClosed, mSocket, mStream,
                   mTaskConnectAsyncRunning, caller, own, reader,
                   EncryptionMode, authenticated, lastEvent, mIsDisposed>>

PeerCloses(s) ==
    /\ socket[s] \in {"open", "shutdown"}
    /\ s \notin peerClosed
    /\ peerClosed' = peerClosed \cup {s}
    /\ UNCHANGED <<socket, inbox, mSocket, mStream, mTaskConnectAsyncRunning,
                   caller, own, reader, EncryptionMode, authenticated,
                   lastEvent, mIsDisposed>>

-----------------------------------------------------------------------------
(***************************************************************************)
(* The read loop.                                                          *)
(***************************************************************************)

\* A read with room in lBuffer returns a packet; it may have completed before
\* the socket was shut down or closed.
ReadPacket(r) ==
    LET s == reader[r].on IN
    /\ reader[r].pc = "reading"
    /\ MayResume(r)
    /\ reader[r].buffer = "sized"
    /\ inbox[s] # <<>>
    /\ inbox' = [inbox EXCEPT ![s] = Tail(@)]
    /\ reader' = [reader EXCEPT ![r].pc = "handling", ![r].got = Head(inbox[s])]
    /\ UNCHANGED <<socket, peerClosed, mSocket, mStream,
                   mTaskConnectAsyncRunning, caller, own, EncryptionMode,
                   authenticated, lastEvent, mIsDisposed>>

\* The read returns 0 or throws an IOException: the stream's socket is not
\* connected any more, its remote end has closed, or lBuffer has no room
\* (mSocket was null when it was allocated) and data arrives.
ReadIsOver(r) ==
    LET s == reader[r].on IN
    \/ socket[s] \in {"shutdown", "failed", "closed"}
    \/ s \in peerClosed
    \/ reader[r].buffer = "empty" /\ inbox[s] # <<>>

\* The loop goes round again instead of returning.
ReadEndsAndGoesOn(r) ==
    /\ reader[r].pc = "reading"
    /\ MayResume(r)
    /\ ReadIsOver(r)
    /\ EncryptionMode' = FALSE
    /\ lastEvent' = "offline"
    /\ mSocket' = Null
    /\ reader' = [reader EXCEPT ![r].on = mStream]
    /\ UNCHANGED <<socket, peerClosed, inbox, mStream, mTaskConnectAsyncRunning,
                   caller, own, authenticated, mIsDisposed>>

ReadEndsEncrypted(r) ==
    /\ reader[r].pc = "reading"
    /\ MayResume(r)
    /\ ReadIsOver(r)
    /\ lastEvent' = "offline"
    /\ reader' = [reader EXCEPT ![r].pc = "ending"]
    /\ UNCHANGED <<socket, peerClosed, inbox, mSocket, mStream,
                   mTaskConnectAsyncRunning, caller, own, EncryptionMode,
                   authenticated, mIsDisposed>>

\* OnClientDisconnected up to and including the offline event.  A reset
\* connection is no longer Connected; one that was closed in order still is.
ReadEnds(r) ==
    LET s == reader[r].on IN
    /\ reader[r].pc = "reading"
    /\ MayResume(r)
    /\ ReadIsOver(r)
    /\ \/ socket' = socket
       \/ /\ socket[s] = "open" /\ s \in peerClosed
          /\ socket' = [socket EXCEPT ![s] = "failed"]
    /\ EncryptionMode' = FALSE
    /\ lastEvent' = "offline"
    /\ reader' = [reader EXCEPT ![r].pc = "ending"]
    /\ UNCHANGED <<peerClosed, inbox, mSocket, mStream, mTaskConnectAsyncRunning,
                   caller, own, authenticated, mIsDisposed>>

KeepSocket(r) ==
    /\ reader[r].pc = "ending"
    /\ reader' = [reader EXCEPT ![r] = Ended("dead")]
    /\ UNCHANGED <<socket, peerClosed, inbox, mSocket, mStream,
                   mTaskConnectAsyncRunning, caller, own, EncryptionMode,
                   authenticated, lastEvent, mIsDisposed>>

\* The last statement of OnClientDisconnected, whatever mSocket is by now.
ForgetSocket(r) ==
    /\ reader[r].pc = "ending"
    /\ mSocket' = Null
    /\ reader' = [reader EXCEPT ![r] = Ended("dead")]
    /\ UNCHANGED <<socket, peerClosed, inbox, mStream, mTaskConnectAsyncRunning,
                   caller, own, EncryptionMode, authenticated, lastEvent,
                   mIsDisposed>>

NextReadUnsized ==
    [pc |-> "reading", on |-> mStream,
     buffer |-> IF mSocket = Null THEN Null ELSE "sized", got |-> Null]

\* The head of the loop: size lBuffer by mSocket, await mStream.  The property
\* of a closed TcpClient throws, and the loop ends without an event.
NextRead ==
    IF mSocket # Null /\ socket[mSocket] = "closed"
      THEN Ended("threw")
      ELSE [pc |-> "reading", on |-> mStream,
            buffer |-> IF mSocket = Null THEN "empty" ELSE "sized", got |-> Null]

\* The packet is parsed and handed to DataReceived, or its parsing throws.
HandlePacket(r) ==
    /\ reader[r].pc = "handling"
    /\ reader' = [reader EXCEPT ![r] =
                     IF @.got = "bad" THEN Ended("threw") ELSE NextRead]
    /\ EncryptionMode' = (EncryptionMode \/ reader[r].got = "auth")
    /\ authenticated' = IF reader[r].got = "auth"
                          THEN authenticated \cup {reader[r].on} ELSE authenticated
    /\ UNCHANGED <<socket, peerClosed, inbox, mSocket, mStream,
                   mTaskConnectAsyncRunning, caller, own, lastEvent, mIsDisposed>>

-----------------------------------------------------------------------------
Connecting(c) ==
    \/ Dial(c) \/ Resolved(c) \/ DnsFails(c) \/ Established(c) \/ Refused(c)
    \/ TimedOut(c) \/ Attach(c) \/ AttachFails(c) \/ Announce(c)

Reading(r) == ReadPacket(r) \/ ReadEnds(r) \/ ForgetSocket(r) \/ HandlePacket(r)

Peer(s) == PeerCloses(s) \/ OrphanConnects(s) \/ \E p \in Packets : PeerSends(s, p)

Step ==
    \/ \E c \in Callers : Connecting(c)
    \/ \E s \in Sockets : Reading(s) \/ Peer(s)
    \/ Disconnect
    \/ SendFails
    \/ Dispose

Next == Step /\ UNCHANGED host

Spec == Init /\ [][Next]_vars

\* The scheduler runs a continuation that is ready, and ConnectAsync, once
\* begun, is carried on; nothing obliges the users or the peer to act.
Proceed(c) == Resolved(c) \/ DnsFails(c) \/ Refused(c) \/ TimedOut(c) \/ Established(c)
              \/ Attach(c) \/ AttachFails(c) \/ Announce(c)

FairSpec ==
    /\ Spec
    /\ \A c \in Callers : WF_vars(Proceed(c) /\ UNCHANGED host)
    /\ \A s \in Sockets : WF_vars(Reading(s) /\ UNCHANGED host)

-----------------------------------------------------------------------------
(***************************************************************************)
(* Properties.                                                             *)
(***************************************************************************)

\* A connection that Connected reports, once ConnectAsync is done, has a read
\* loop waiting on it or handling what it read from it, whatever loops of
\* earlier connections did meanwhile; only a packet that made the loop throw
\* breaks this (ICSPClient.cs ReadAsync, catch(Exception)).
ConnectedIsRead ==
    Connected /\ ~mTaskConnectAsyncRunning =>
        LET l == reader[mSocket] IN
        l.pc = "threw" \/ (l.pc \in {"reading", "handling", "ending"} /\ l.on = mSocket)

\* A connection the peer has closed does not stay in mSocket, where it would
\* block every later ConnectAsync ("Client already connected"), unless its
\* loop threw.
PeerCloseNoticed ==
    \A s \in Sockets :
        (mSocket = s /\ s \in peerClosed /\ reader[s].pc # "none")
            ~> (mSocket # s \/ reader[s].pc = "threw")

\* ConnectAsync closes what it replaces ("Disposing all Clients that's pending
\* or connected"): never two sockets connecting or connected at once.  (One the
\* peer has closed may still wait for the garbage collector.)
AtMostOneOpen ==
    Cardinality({s \in Sockets \ peerClosed :
                    socket[s] \in {"connecting", "open"}}) <= 1

\* In the window this holds: its one thread and its buttons let no read loop end
\* between the steps of a ConnectAsync.
WindowHasOneOpen == UiThread => AtMostOneOpen

\* In the window two read loops never wait on the same stream, where each would
\* take packets from the other's reassembly buffer.
OneLoopPerStream ==
    UiThread => \A r, t \in Sockets :
        r # t /\ reader[r].pc = "reading" /\ reader[t].pc = "reading"
            => reader[r].on # reader[t].on

\* In the window RC4 is on exactly while the current connection is one whose ChallengeAck
\* switched it on: it never leaks into the next connection, and is never lost
\* under a connection that still uses it.
EncryptionMatchesSession ==
    UiThread =>
    /\ EncryptionMode => mSocket \in authenticated \/ mIsDisposed
    /\ Connected /\ mSocket \in authenticated /\ ~LoopBusy => EncryptionMode

\* "Shutdown generate a IOException in ReadAsync": after Disconnect the read
\* loop ends through OnClientDisconnected, and subscribers see the connection
\* go offline.
DisconnectIsNoticed ==
    \A s \in Sockets :
        socket[s] = "shutdown" /\ lastEvent = "online"
            ~> lastEvent = "offline" \/ mIsDisposed

-----------------------------------------------------------------------------
(***************************************************************************)
(* The inductive invariant behind ConnectedIsRead.                         *)
(***************************************************************************)

\* The code past the Interlocked guard runs in one thread at a time, and only
\* that thread ever puts a socket into mSocket; others can only null it.
OneConnector ==
    /\ \A c \in Callers : caller[c] # "idle" => mTaskConnectAsyncRunning
    /\ \A c \in Callers : caller[c] = "resolving" =>
          mSocket = Null \/ socket[mSocket] = "closed"
    /\ \A c \in Callers : caller[c] \notin {"idle", "resolving"} =>
          /\ own[c] \in Sockets /\ socket[own[c]] # "unused"
          /\ mSocket \in {own[c], Null}
    /\ \A c, e \in Callers : caller[c] # "idle" /\ caller[e] # "idle" => c = e
    /\ \A c \in Callers :
          /\ caller[c] \in {"waiting", "established"} => reader[own[c]].pc = "none"
          /\ caller[c] = "established" => socket[own[c]] # "connecting"

\* A socket not yet made is named nowhere, and a loop that runs has a stream.
FreshSockets ==
    \A s \in Sockets :
        /\ socket[s] = "unused" => reader[s].pc = "none" /\ mSocket # s
        /\ reader[s].pc \in {"reading", "handling"} => reader[s].on \in Sockets
        /\ reader[s].pc # "none" => mStream # Null

\* The loop of the socket in mSocket stays on it, since mStream is that socket
\* as well; a socket in mSocket without a loop is still being connected.
LoopOfCurrent ==
    mSocket # Null =>
        /\ reader[mSocket].pc # "none" =>
              /\ mStream = mSocket
              /\ reader[mSocket].pc # "dead"
              /\ reader[mSocket].pc # "threw" => reader[mSocket].on = mSocket
        /\ socket[mSocket] \in {"connecting", "open"} /\ reader[mSocket].pc = "none" =>
              \E c \in Callers : caller[c] \in {"waiting", "established"}
                                /\ own[c] = mSocket

IInv == TypeOK /\ OneConnector /\ FreshSockets /\ LoopOfCurrent
=============================================================================
