----------------------------- MODULE IcspManager -----------------------------
(***************************************************************************)
(* ICSPManager (ICSP.Core/ICSPManager.cs): registration of devices with    *)
(* the NetLinx master over one connection.  CreateDeviceInfoAsync sends a  *)
(* DeviceInfo message and files the request under the message's ID; the    *)
(* master's Ack, or the MD5 challenge it may interpose, is matched to the  *)
(* request by that ID.  Message IDs come from one 16-bit counter           *)
(* (ICSPMsg.MsgId) that every message built anywhere draws from; it is a   *)
(* static field incremented without a lock.                                *)
(*                                                                         *)
(* UiThread = TRUE is the window of ICSP.Control: all code between two     *)
(* awaits runs on its one thread.  UiThread = FALSE is the thread pool of  *)
(* ICSP.WebProxy, where panels share a manager and managers the counter.   *)
(*                                                                         *)
(* OnDataReceived is async void: its code up to the first await is one     *)
(* step, what follows (UpdateDeviceInfoAsync, the DeviceOnline event) is a *)
(* continuation that runs later, after other messages or a disconnect.     *)
(* The master is external, modelled by how the manager uses it; the        *)
(* connection is an ordered channel each way that a disconnect empties.    *)
(***************************************************************************)
EXTENDS Naturals, Sequences, FiniteSets

CONSTANTS Devices,
          IdMod,          \* number of message IDs (2^16 in the code)
          UiThread,       \* see above
          PortCount, ChannelCount, LevelCount, \* of every device
          MaxRequests,    \* bound: calls of CreateDeviceInfoAsync by users
          MaxOps,         \* bound: other operations users, master and network begin
          MasterMayRefuse \* may the master ignore a device or reject its login?

ASSUME ManagerConstants ==
    /\ IdMod \in Nat \ {0}
    /\ UiThread \in BOOLEAN
    /\ PortCount \in Nat /\ ChannelCount \in Nat /\ LevelCount \in Nat
    /\ MaxRequests \in Nat
    /\ MaxOps \in Nat
    /\ MasterMayRefuse \in BOOLEAN

VARIABLES
    MsgId,          \* ICSPMsg.MsgId, counted on where its 16 bits wrap
    reached,        \* the highest value MsgId has had
    request,        \* the CreateDeviceInfoRequest objects made so far
    pending,        \* mPendingDevicesRequests: ID -> index in request, or 0
    cached,         \* the requests MemoryCache watches (30 s)
    pinged,         \* the devices with a "Device:n" entry in MemoryCache (25 s)
    mDevices,
    CurrentSystem,
    connected,
    cryptoProvider, \* the connection mClient.CryptoProvider has its key from
    encryption,     \* is mClient.EncryptionMode RC4?
    IsDisposed,
    updating,       \* continuations of Ack handlers: request, messages left
    online,         \* devices whose DeviceOnline event was raised
    toMaster, toClient,
    accepted,       \* master: devices it acknowledged on this connection
    challenged,     \* master: has it authenticated this connection?
    known,          \* master: devices it has ever acknowledged
    refused,        \* master: devices it ignored or whose login it rejected
    ops             \* operations begun (bound)

masterVars  == <<accepted, challenged, known, refused>>
channels    == <<toMaster, toClient>>
clientVars  == <<connected, cryptoProvider, encryption, IsDisposed>>
requestVars == <<MsgId, reached, request, pending, cached>>
deviceVars  == <<mDevices, pinged, CurrentSystem, updating, online>>
vars == <<requestVars, deviceVars, clientVars, channels, masterVars, ops>>

Ids   == 0 .. IdMod - 1
State == {"Uninitialized", "Unverified", "Connected", "Disconnected"}

Request == [device : Devices, msgId : Ids, state : State]

\* To the master: a registration, the answer to its challenge, or any other
\* message (a ping response, a string, a port's sizes, ...).
ToMaster == [device : Devices, type : {"DeviceInfo"}, id : Ids]
            \cup [type : {"ChallengeResponse", "Other"}, id : Ids]

\* From the master.  "Request" stands for the messages that are answered from
\* no state (RequestEthernetIp, RequestDeviceInfo, RequestStatus), "Event" for
\* the ones only handed to subscribers.
ToClient == [type : {"Ack", "ChallengeRequest"}, id : Ids]
            \cup [type : {"ChallengeAck"}, id : Ids, ok : BOOLEAN]
            \cup [device : Devices, type : {"Ping"}]
            \cup [type : {"DeviceInfo", "Request", "Event"}]

\* What UpdateDeviceInfoAsync sends: the number of ports, channels and levels
\* where it exceeds the default, then StringSize and CommandSize for each port.
UpdateMessages == 2 * PortCount + (IF PortCount > 1 THEN 1 ELSE 0)
                                + (IF ChannelCount > 256 THEN 1 ELSE 0)
                                + (IF LevelCount > 8 THEN 1 ELSE 0)

TypeOK ==
    /\ MsgId \in Nat /\ reached \in Nat
    /\ request \in Seq(Request)
    /\ pending \in [Ids -> 0 .. Len(request)]
    /\ cached \subseteq 1 .. Len(request)
    /\ pinged \subseteq Devices
    /\ mDevices \subseteq Devices
    /\ CurrentSystem \in {0, 1}
    /\ connected \in BOOLEAN /\ cryptoProvider \in {"none", "past", "current"}
    /\ encryption \in BOOLEAN /\ IsDisposed \in BOOLEAN
    /\ updating \subseteq [req : 1 .. Len(request), left : 0 .. UpdateMessages]
    /\ online \subseteq Devices
    /\ toMaster \in Seq(ToMaster)
    /\ toClient \in Seq(ToClient)
    /\ accepted \subseteq Devices
    /\ challenged \in BOOLEAN
    /\ known \subseteq Devices /\ refused \subseteq Devices
    /\ ops \in [requests : 0 .. MaxRequests, others : 0 .. MaxOps]

Init ==
    /\ MsgId = 0 /\ reached = 0
    /\ request = <<>> /\ pending = [id \in Ids |-> 0] /\ cached = {}
    /\ mDevices = {} /\ pinged = {} /\ CurrentSystem = 0
    /\ updating = {} /\ online = {}
    /\ connected = TRUE /\ cryptoProvider = "none"
    /\ encryption = FALSE /\ IsDisposed = FALSE
    /\ toMaster = <<>> /\ toClient = <<>>
    /\ accepted = {} /\ challenged = FALSE /\ known = {} /\ refused = {}
    /\ ops = [requests |-> 0, others |-> 0]

-----------------------------------------------------------------------------
(***************************************************************************)
(* Messages and requests.                                                  *)
(***************************************************************************)

\* The values of MsgId that the thread about to store its ++MsgId may have
\* loaded.  On the pool others may have gone on since its load: any value that
\* the counter has had is possible.
Loaded == IF UiThread THEN {MsgId} ELSE 0 .. reached

\* ID = ++MsgId, a ushort, by a thread that has loaded v ...
NextId(v) == (v + 1) % IdMod

\* ... and the store, over whatever is there by now.
Increment(v) ==
    /\ MsgId' = v + 1
    /\ reached' = IF v < reached THEN reached ELSE v + 1

\* SendAsync: offline, the message is logged and dropped.
Sent(m) == IF connected THEN Append(toMaster, m) ELSE toMaster

\* ConcurrentDictionary.TryAdd: an entry already there stays.
TryAdd(p, id, t) == IF p[id] = 0 THEN [p EXCEPT ![id] = t] ELSE p

\* Build and send a message that no request waits for.
SendOther(v) ==
    /\ Increment(v)
    /\ toMaster' = Sent([type |-> "Other", id |-> NextId(v)])

\* CreateDeviceInfoAsync, on top of what the caller has done to the requests
\* (rq), the pending table (pd) and the cache (ca).
FileRequest(v, d, rq, pd, ca) ==
    /\ Increment(v)
    /\ request' = Append(rq, [device |-> d, msgId |-> NextId(v),
                              state |-> "Uninitialized"])
    /\ pending' = TryAdd(pd, NextId(v), Len(rq) + 1)
    /\ cached' = ca \cup {Len(rq) + 1}
    /\ toMaster' = Sent([device |-> d, type |-> "DeviceInfo", id |-> NextId(v)])

BeginRequest == ops.requests < MaxRequests /\ ops' = [ops EXCEPT !.requests = @ + 1]
Begin == ops.others < MaxOps /\ ops' = [ops EXCEPT !.others = @ + 1]

-----------------------------------------------------------------------------
(***************************************************************************)
(* Operations of the users of the manager.                                 *)
(***************************************************************************)
CreateDeviceInfo(v, d) ==
    /\ BeginRequest
    /\ ~IsDisposed
    /\ FileRequest(v, d, request, pending, cached)
    /\ UNCHANGED <<deviceVars, clientVars, toClient, masterVars>>

\* SendStringAsync, SendCommandAsync, SetInputChannelAsync, SendLevelAsync,
\* RequestDevicesOnlineAsync, ...: one message.
SendMessage(v) ==
    /\ Begin
    /\ ~IsDisposed
    /\ SendOther(v)
    /\ UNCHANGED <<request, pending, cached, deviceVars, clientVars, toClient,
                   masterVars>>

\* Dispose: the handlers are removed before the socket is closed, so the
\* disconnect is not seen.
Dispose ==
    /\ ~IsDisposed
    /\ IsDisposed' = TRUE
    /\ connected' = FALSE
    /\ toMaster' = <<>> /\ toClient' = <<>>
    /\ UNCHANGED <<requestVars, deviceVars, cryptoProvider, encryption,
                   masterVars, ops>>

-----------------------------------------------------------------------------
(***************************************************************************)
(* OnDataReceived, one action per kind of message.                         *)
(***************************************************************************)
Receive(type) ==
    /\ toClient # <<>> /\ ~IsDisposed
    /\ Head(toClient).type = type
    /\ toClient' = Tail(toClient)

\* The request a message's ID is filed under, or 0.
Asked == pending[Head(toClient).id]

\* The Ack of a request: the device is registered; the rest of the handler is
\* left to a continuation.
AckOfRequest ==
    /\ Receive("Ack")
    /\ Asked # 0
    /\ CurrentSystem' = 1
    /\ pending' = [pending EXCEPT ![Head(toClient).id] = 0]
    /\ cached' = cached \ {Asked}
    /\ request' = [request EXCEPT ![Asked].state = "Connected"]
    /\ mDevices' = mDevices \cup {request[Asked].device}
    /\ updating' = updating \cup {[req |-> Asked, left |-> UpdateMessages]}
    /\ UNCHANGED <<MsgId, reached, pinged, online, clientVars, toMaster, masterVars, ops>>

\* An Ack whose ID nobody waits for.
AckUnknown ==
    /\ Receive("Ack")
    /\ Asked = 0
    /\ CurrentSystem' = 1
    /\ UNCHANGED <<requestVars, mDevices, pinged, updating, online, clientVars,
                   toMaster, masterVars, ops>>

UpdateDeviceInfoPastLast(v, u) ==
    /\ u \in updating /\ u.left >= 0 /\ ~IsDisposed
    /\ SendOther(v)
    /\ updating' = (updating \ {u}) \cup {[u EXCEPT !.left = @ - 1]}
    /\ UNCHANGED <<request, pending, cached, mDevices, pinged, CurrentSystem,
                   online, clientVars, toClient, masterVars, ops>>

\* UpdateDeviceInfoAsync, one SendAsync at a time ...
UpdateDeviceInfo(v, u) ==
    /\ u \in updating /\ u.left > 0 /\ ~IsDisposed
    /\ SendOther(v)
    /\ updating' = (updating \ {u}) \cup {[u EXCEPT !.left = @ - 1]}
    /\ UNCHANGED <<request, pending, cached, mDevices, pinged, CurrentSystem,
                   online, clientVars, toClient, masterVars, ops>>

\* ... then the DeviceOnline event.
DeviceOnline(u) ==
    /\ u \in updating /\ u.left = 0
    /\ updating' = updating \ {u}
    /\ online' = online \cup {request[u.req].device}
    /\ UNCHANGED <<requestVars, mDevices, pinged, CurrentSystem, clientVars,
                   channels, masterVars, ops>>

\* SendAsync of a disposed manager throws: no event.
UpdateThrows(u) ==
    /\ u \in updating /\ u.left > 0 /\ IsDisposed
    /\ updating' = updating \ {u}
    /\ UNCHANGED <<requestVars, mDevices, pinged, CurrentSystem, online,
                   clientVars, channels, masterVars, ops>>

RefileLosing(p, from, to) == [p EXCEPT ![from] = 0]

RefileKeeping(p, from, to) ==
    IF p[from] = 0 THEN p ELSE TryAdd(p, to, p[from])

\* The response's ID replaces the ID the request is filed under.
Refile(p, from, to) ==
    IF p[from] = 0 THEN p ELSE TryAdd([p EXCEPT ![from] = 0], to, p[from])

ChallengeKeepsKey(v) ==
    /\ Receive("ChallengeRequest")
    /\ cryptoProvider' = IF cryptoProvider = "none" THEN "current" ELSE cryptoProvider
    /\ Increment(v)
    /\ pending' = Refile(pending, Head(toClient).id, NextId(v))
    /\ request' = IF Asked = 0 THEN request
                   ELSE [request EXCEPT ![Asked].state = "Unverified",
                                        ![Asked].msgId = NextId(v)]
    /\ toMaster' = Sent([type |-> "ChallengeResponse", id |-> NextId(v)])
    /\ UNCHANGED <<cached, deviceVars, connected, encryption, IsDisposed,
                   masterVars, ops>>

\* MsgCmdChallengeRequestMD5: the key is set and the response sent whether or
\* not a request is filed under the ID.
ChallengeRequest(v) ==
    /\ Receive("ChallengeRequest")
    /\ cryptoProvider' = "current"
    /\ Increment(v)
    /\ pending' = Refile(pending, Head(toClient).id, NextId(v))
    /\ request' = IF Asked = 0 THEN request
                   ELSE [request EXCEPT ![Asked].state = "Unverified",
                                        ![Asked].msgId = NextId(v)]
    /\ toMaster' = Sent([type |-> "ChallengeResponse", id |-> NextId(v)])
    /\ UNCHANGED <<cached, deviceVars, connected, encryption, IsDisposed,
                   masterVars, ops>>

ChallengeAckRegisters(v) ==
    LET rq == [request EXCEPT ![Asked].state = "Connected"]
        pd == [pending EXCEPT ![Head(toClient).id] = 0]
        ca == cached \ {Asked}
    IN
    /\ Receive("ChallengeAck")
    /\ Asked # 0
    /\ \/ /\ Head(toClient).ok
          /\ encryption' \in BOOLEAN
          /\ mDevices' = mDevices \cup {request[Asked].device}
          /\ FileRequest(v, request[Asked].device, rq, pd, ca)
       \/ /\ ~Head(toClient).ok
          /\ request' = rq /\ pending' = pd /\ cached' = ca
          /\ UNCHANGED <<encryption, mDevices, MsgId, reached, toMaster>>
    /\ UNCHANGED <<pinged, CurrentSystem, updating, online, connected,
                   cryptoProvider, IsDisposed, masterVars, ops>>

\* MsgCmdChallengeAckMD5 of a request: the request is done; if the login was
\* good, encryption is on if the status says so and the device is requested again.
ChallengeAck(v) ==
    LET rq == [request EXCEPT ![Asked].state = "Connected"]
        pd == [pending EXCEPT ![Head(toClient).id] = 0]
        ca == cached \ {Asked}
    IN
    /\ Receive("ChallengeAck")
    /\ Asked # 0
    /\ \/ /\ Head(toClient).ok
          /\ encryption' \in BOOLEAN
          /\ FileRequest(v, request[Asked].device, rq, pd, ca)
       \/ /\ ~Head(toClient).ok
          /\ request' = rq /\ pending' = pd /\ cached' = ca
          /\ UNCHANGED <<encryption, MsgId, reached, toMaster>>
    /\ UNCHANGED <<deviceVars, connected, cryptoProvider, IsDisposed, masterVars,
                   ops>>

ChallengeAckUnknown ==
    /\ Receive("ChallengeAck")
    /\ Asked = 0
    /\ UNCHANGED <<requestVars, deviceVars, clientVars, toMaster, masterVars, ops>>

\* A ping is answered for a registered device only.
Ping(v) ==
    /\ Receive("Ping")
    /\ \/ /\ Head(toClient).device \in mDevices
          /\ pinged' = pinged \cup {Head(toClient).device}
          /\ SendOther(v)
       \/ /\ Head(toClient).device \notin mDevices
          /\ UNCHANGED <<pinged, MsgId, reached, toMaster>>
    /\ UNCHANGED <<request, pending, cached, mDevices, CurrentSystem, updating,
                   online, clientVars, masterVars, ops>>

DeviceInfo ==
    /\ Receive("DeviceInfo")
    /\ CurrentSystem' = 1
    /\ UNCHANGED <<requestVars, mDevices, pinged, updating, online, clientVars,
                   toMaster, masterVars, ops>>

Answer(v) ==
    /\ Receive("Request")
    /\ SendOther(v)
    /\ UNCHANGED <<request, pending, cached, deviceVars, clientVars, masterVars,
                   ops>>

Event ==
    /\ Receive("Event")
    /\ UNCHANGED <<requestVars, deviceVars, clientVars, toMaster, masterVars, ops>>

-----------------------------------------------------------------------------
(***************************************************************************)
(* MemoryCache.                                                            *)
(***************************************************************************)
RequestExpiresDropping(t) ==
    /\ t \in cached
    /\ cached' = cached \ {t}
    /\ pending' = [pending EXCEPT ![request[t].msgId] = 0]
    /\ UNCHANGED <<MsgId, reached, request, deviceVars, clientVars, channels, masterVars, ops>>

RequestExpiresRemoving(t) ==
    /\ t \in cached
    /\ cached' = cached \ {t}
    /\ mDevices' = mDevices \ {request[t].device}
    /\ UNCHANGED <<MsgId, reached, request, pending, pinged, CurrentSystem, updating,
                   online, clientVars, channels, masterVars, ops>>

\* OnCacheEntryRemovedCallback for a request: logged only, unless its state is
\* Disconnected, which nothing ever makes it.
RequestExpires(t) ==
    /\ t \in cached
    /\ cached' = cached \ {t}
    /\ mDevices' = IF request[t].state = "Disconnected"
                     THEN mDevices \ {request[t].device} ELSE mDevices
    /\ UNCHANGED <<MsgId, reached, request, pending, pinged, CurrentSystem, updating,
                   online, clientVars, channels, masterVars, ops>>

\* The entry of a pinged device holds no request: the callback ignores it.
PingExpires(d) ==
    /\ d \in pinged
    /\ pinged' = pinged \ {d}
    /\ UNCHANGED <<requestVars, mDevices, CurrentSystem, updating, online,
                   clientVars, channels, masterVars, ops>>

\* Another manager of the process goes offline: it empties MemoryCache.Default,
\* entries of this one included; removals are not reported.
CacheEmptied ==
    /\ cached \cup pinged # {}
    /\ cached' = {} /\ pinged' = {}
    /\ UNCHANGED <<MsgId, reached, request, pending, mDevices, CurrentSystem, updating,
                   online, clientVars, channels, masterVars, ops>>

-----------------------------------------------------------------------------
(***************************************************************************)
(* The connection, and the master.                                         *)
(***************************************************************************)

\* OnClientDisconnected and OnClientOnlineStatusChanged(offline).  The pending
\* requests, the continuations and the key of the connection stay.
GoOffline ==
    /\ Begin
    /\ connected /\ ~IsDisposed
    /\ connected' = FALSE
    /\ encryption' = FALSE
    /\ CurrentSystem' = 0
    /\ mDevices' = {} /\ cached' = {} /\ pinged' = {} /\ online' = {}
    /\ toMaster' = <<>> /\ toClient' = <<>>
    /\ cryptoProvider' = IF cryptoProvider = "none" THEN "none" ELSE "past"
    /\ accepted' = {} /\ challenged' = FALSE /\ refused' = {}
    /\ UNCHANGED <<MsgId, reached, request, pending, updating, IsDisposed, known>>

GoOnline ==
    /\ ~connected /\ ~IsDisposed
    /\ connected' = TRUE
    /\ UNCHANGED <<requestVars, deviceVars, cryptoProvider, encryption,
                   IsDisposed, channels, masterVars, ops>>

MasterTakes(type) ==
    /\ toMaster # <<>>
    /\ Head(toMaster).type = type
    /\ toMaster' = Tail(toMaster)

MasterAccepts ==
    /\ MasterTakes("DeviceInfo")
    /\ toClient' = Append(toClient, [type |-> "Ack", id |-> Head(toMaster).id])
    /\ accepted' = accepted \cup {Head(toMaster).device}
    /\ known' = known \cup {Head(toMaster).device}
    /\ UNCHANGED <<requestVars, deviceVars, clientVars, challenged, refused, ops>>

MasterChallenges ==
    /\ MasterTakes("DeviceInfo")
    /\ ~challenged
    /\ toClient' = Append(toClient, [type |-> "ChallengeRequest",
                                     id |-> Head(toMaster).id])
    /\ UNCHANGED <<requestVars, deviceVars, clientVars, masterVars, ops>>

\* A controller that is starting up does not answer.
MasterIgnores ==
    /\ MasterMayRefuse
    /\ MasterTakes("DeviceInfo")
    /\ refused' = refused \cup {Head(toMaster).device}
    /\ UNCHANGED <<requestVars, deviceVars, clientVars, toClient, accepted,
                   challenged, known, ops>>

MasterAuthenticates ==
    /\ MasterTakes("ChallengeResponse")
    /\ \E ok \in BOOLEAN :
          /\ ok \/ MasterMayRefuse
          /\ toClient' = Append(toClient, [type |-> "ChallengeAck",
                                           id |-> Head(toMaster).id, ok |-> ok])
          /\ challenged' = (challenged \/ ok)
          /\ refused' = IF ok THEN refused ELSE Devices
    /\ UNCHANGED <<requestVars, deviceVars, clientVars, accepted, known, ops>>

MasterTakesOther ==
    /\ MasterTakes("Other")
    /\ \/ toClient' = toClient
       \/ toClient' = Append(toClient, [type |-> "Ack", id |-> Head(toMaster).id])
    /\ UNCHANGED <<requestVars, deviceVars, clientVars, masterVars, ops>>

\* Until the connection is authenticated any message may be challenged, also one
\* that no request waits for.
MasterChallengesOther ==
    /\ Begin
    /\ MasterTakes("Other")
    /\ ~challenged
    /\ toClient' = Append(toClient, [type |-> "ChallengeRequest",
                                     id |-> Head(toMaster).id])
    /\ UNCHANGED <<requestVars, deviceVars, clientVars, masterVars>>

\* The master pings a device it knows, also after it was restarted.
MasterPings(d) ==
    /\ Begin
    /\ connected
    /\ d \in known
    /\ toClient' = Append(toClient, [device |-> d, type |-> "Ping"])
    /\ UNCHANGED <<requestVars, deviceVars, clientVars, toMaster, masterVars>>

MasterTells(type) ==
    /\ Begin
    /\ connected
    /\ toClient' = Append(toClient, [type |-> type])
    /\ UNCHANGED <<requestVars, deviceVars, clientVars, toMaster, masterVars>>

-----------------------------------------------------------------------------
OnDataReceived ==
    \/ AckOfRequest \/ AckUnknown \/ ChallengeAckUnknown \/ DeviceInfo \/ Event
    \/ \E v \in Loaded : ChallengeRequest(v) \/ ChallengeAck(v) \/ Ping(v) \/ Answer(v)

Continuation ==
    \E u \in updating : \/ \E v \in Loaded : UpdateDeviceInfo(v, u)
                        \/ DeviceOnline(u)
                        \/ UpdateThrows(u)

MasterReplies ==
    \/ MasterAccepts \/ MasterChallenges \/ MasterIgnores
    \/ MasterAuthenticates \/ MasterTakesOther

Cache == (\E t \in cached : RequestExpires(t)) \/ (\E d \in pinged : PingExpires(d))
         \/ CacheEmptied

Users == (\E v \in Loaded, d \in Devices : CreateDeviceInfo(v, d))
         \/ (\E v \in Loaded : SendMessage(v)) \/ Dispose

Network == GoOffline \/ GoOnline

MasterSpeaks == (\E d \in Devices : MasterPings(d)) \/ MasterChallengesOther
                \/ (\E t \in {"DeviceInfo", "Request", "Event"} : MasterTells(t))

Next ==
    \/ OnDataReceived \/ Continuation \/ Cache \/ Users \/ Network
    \/ MasterReplies \/ MasterSpeaks

Spec == Init /\ [][Next]_vars

\* The read loop goes on reading, continuations are run, the master answers.
FairSpec ==
    /\ Spec
    /\ WF_vars(OnDataReceived)
    /\ WF_vars(Continuation)
    /\ WF_vars(MasterReplies)

-----------------------------------------------------------------------------
(***************************************************************************)
(* Properties.                                                             *)
(***************************************************************************)

\* A request waits under one ID only, the one of the last message sent for it,
\* also while the challenge handshake moves it from ID to ID, and also when two
\* threads give two messages one ID: no answer can complete it twice.
PendingUnderLastId ==
    \A id \in Ids : pending[id] # 0 => request[pending[id]].msgId = id

\* "Add this request to identify the Ack-Message": the manager counts a device as
\* registered only if the master acknowledged that device on this connection.
\* Holds as long as no ID is used twice: on the window's thread, before MsgId wraps.
OnlyAcknowledged == ~IsDisposed => mDevices \subseteq accepted

\* The Acks under way that will register device d.
AckUnderWay(d) ==
    \E i \in DOMAIN toClient :
        /\ toClient[i].type = "Ack"
        /\ pending[toClient[i].id] # 0
        /\ request[pending[toClient[i].id]].device = d

\* What the master has accepted is registered or its Ack is on the way, however
\* late it is: the expiry of the 30 s watch forgets nothing.  This is what the ID
\* is for, "to correlate in the original message with its acknowledge", and it
\* needs what ICSPMsg calls a "unique identification number".
NoAcceptedLost ==
    ~IsDisposed => \A d \in accepted \ mDevices : AckUnderWay(d)

\* Messages are encrypted only with the key of this connection, and only when the
\* master has authenticated it: the key of an earlier one is never used.
EncryptionHasKey ==
    encryption => cryptoProvider = "current" /\ (challenged \/ IsDisposed)

Asks == {request[i].device : i \in DOMAIN request}

Registry == INSTANCE DeviceRegistry
              WITH asked <- Asks, acknowledged <- accepted, registered <- mDevices

\* The manager implements the registry its users rely on: challenges, late Acks,
\* expiries, repeated requests and pings neither register a device the master has
\* not accepted nor take a registration back; only a disconnect does.
IsRegistry == Registry!Spec

\* "Do not remove devices!  After restart Master controller, master does ping":
\* a ping that the manager is about to handle finds its device registered if it
\* ever was, also after a disconnect.
PingFindsDevice ==
    LET ping == Head(toClient) IN
    toClient # <<>> /\ ~IsDisposed /\ ping.type = "Ping"
    /\ (\E i \in DOMAIN request : /\ request[i].device = ping.device
                                   /\ request[i].state = "Connected")
        => ping.device \in mDevices

\* A device asked for comes online, unless the master refuses it, the connection
\* is lost or the manager disposed first.
RegistrationCompletes ==
    \A d \in Devices :
        (\E i \in DOMAIN toMaster : toMaster[i].type = "DeviceInfo"
                                     /\ toMaster[i].device = d)
            ~> (d \in online \/ d \in refused \/ ~connected)
=============================================================================
