---------------------- MODULE IcspManagerIsRegistry ----------------------
(***************************************************************************)
(* On the window's thread, as long as message IDs have not wrapped,        *)
(* IcspManager implements DeviceRegistry, for any devices, ID space,       *)
(* number of ports and operations, and no registration that the master     *)
(* accepted is lost: the device is registered, or its Ack is on the way    *)
(* and will find its request.  Both hypotheses are needed: they are what   *)
(* makes every ID given out a new one.  After a wrap an Ack may find an    *)
(* older request, and on the pool two threads may draw the same ID.        *)
(***************************************************************************)
EXTENDS IcspManagerProofs

\* The 16 bits of the counter have not wrapped.
NoWrap == MsgId < IdMod

\* A message to the master, given the counter, the requests and the pending table:
\* its ID has been drawn; a registration names a device asked for, and the request
\* filed under its ID, if any, is for that device; nobody waits for the ID of a
\* message of the kind "Other".
MasterMsgOK(m, b, rq, pd) ==
    /\ m.id <= b
    /\ m.type = "DeviceInfo" =>
          /\ \E k \in 1 .. Len(rq) : rq[k].device = m.device
          /\ pd[m.id] # 0 => rq[pd[m.id]].device = m.device
    /\ m.type = "Other" => pd[m.id] = 0

\* A message from the master, given also what it has accepted: an Ack that finds a
\* request finds one for an accepted device.
ClientMsgOK(m, b, rq, pd, acc) ==
    /\ m.type \in {"Ack", "ChallengeRequest", "ChallengeAck"} => m.id <= b
    /\ m.type = "Ack" => (pd[m.id] # 0 => rq[pd[m.id]].device \in acc)

\* Every message under way is so.
MasterChannel ==
    \A i \in 1 .. Len(toMaster) : MasterMsgOK(toMaster[i], MsgId, request, pending)

ClientChannel ==
    \A i \in 1 .. Len(toClient) : ClientMsgOK(toClient[i], MsgId, request, pending, accepted)

\* Requests are filed under IDs already drawn.
FiledLow == \A id \in Ids : pending[id] # 0 => id <= MsgId

\* The state that nothing ever gives a request.
NeverDisconnected == \A k \in 1 .. Len(request) : request[k].state # "Disconnected"

\* The inductive invariant.
RegInv ==
    /\ FiledLow /\ NeverDisconnected
    /\ MasterChannel /\ ClientChannel
    /\ mDevices \subseteq accepted

-----------------------------------------------------------------------------
\* While IDs have not wrapped, the next one is the counter itself.
LEMMA FreshId ==
    ASSUME MsgId \in Nat, MsgId + 1 < IdMod
    PROVE  NextId(MsgId) = MsgId + 1 /\ NextId(MsgId) \in Ids
  BY ManagerConstants DEF NextId, Ids

\* On the window's thread nobody can come between the load and the store.
LEMMA WindowLoads ==
    ASSUME UiThread
    PROVE  Loaded = {MsgId}
  BY DEF Loaded

LEMMA WindowId ==
    ASSUME MsgId \in Nat
    PROVE  NextId(MsgId) \in Ids
  BY ManagerConstants DEF NextId, Ids

\* A step draws at most one ID.
LEMMA CounterStep ==
    ASSUME TypeOK, UiThread, [Next]_vars
    PROVE  MsgId' = MsgId \/ MsgId' = MsgId + 1
  <1> USE DEF requestVars
  <1>1. CASE AckOfRequest
    BY <1>1 DEF AckOfRequest
  <1>2. CASE AckUnknown
    BY <1>2 DEF AckUnknown
  <1>3. CASE ChallengeRequest(MsgId)
    BY <1>3 DEF ChallengeRequest, Increment
  <1>4. CASE ChallengeAck(MsgId)
    BY <1>4 DEF ChallengeAck, FileRequest, Increment
  <1>5. CASE ChallengeAckUnknown
    BY <1>5 DEF ChallengeAckUnknown
  <1>6. CASE Ping(MsgId)
    BY <1>6 DEF Ping, SendOther, Increment
  <1>7. CASE DeviceInfo
    BY <1>7 DEF DeviceInfo
  <1>8. CASE Answer(MsgId)
    BY <1>8 DEF Answer, SendOther, Increment
  <1>9. CASE Event
    BY <1>9 DEF Event
  <1>10. ASSUME NEW u \in updating, UpdateDeviceInfo(MsgId, u) PROVE MsgId' = MsgId \/ MsgId' = MsgId + 1
    BY <1>10 DEF UpdateDeviceInfo, SendOther, Increment
  <1>11. ASSUME NEW u \in updating, DeviceOnline(u) PROVE MsgId' = MsgId \/ MsgId' = MsgId + 1
    BY <1>11 DEF DeviceOnline
  <1>12. ASSUME NEW u \in updating, UpdateThrows(u) PROVE MsgId' = MsgId \/ MsgId' = MsgId + 1
    BY <1>12 DEF UpdateThrows
  <1>13. ASSUME NEW t \in cached, RequestExpires(t) PROVE MsgId' = MsgId \/ MsgId' = MsgId + 1
    BY <1>13 DEF RequestExpires
  <1>14. ASSUME NEW d \in pinged, PingExpires(d) PROVE MsgId' = MsgId \/ MsgId' = MsgId + 1
    BY <1>14 DEF PingExpires
  <1>15. CASE CacheEmptied
    BY <1>15 DEF CacheEmptied
  <1>16. ASSUME NEW d \in Devices, CreateDeviceInfo(MsgId, d) PROVE MsgId' = MsgId \/ MsgId' = MsgId + 1
    BY <1>16 DEF CreateDeviceInfo, FileRequest, Increment
  <1>17. CASE SendMessage(MsgId)
    BY <1>17 DEF SendMessage, SendOther, Increment
  <1>18. CASE Dispose
    BY <1>18 DEF Dispose
  <1>19. CASE GoOffline
    BY <1>19 DEF GoOffline
  <1>20. CASE GoOnline
    BY <1>20 DEF GoOnline
  <1>21. CASE MasterAccepts
    BY <1>21 DEF MasterAccepts
  <1>22. CASE MasterChallenges
    BY <1>22 DEF MasterChallenges
  <1>23. CASE MasterIgnores
    BY <1>23 DEF MasterIgnores
  <1>24. CASE MasterAuthenticates
    BY <1>24 DEF MasterAuthenticates
  <1>25. CASE MasterTakesOther
    BY <1>25 DEF MasterTakesOther
  <1>26. ASSUME NEW d \in Devices, MasterPings(d) PROVE MsgId' = MsgId \/ MsgId' = MsgId + 1
    BY <1>26 DEF MasterPings
  <1>27. CASE MasterChallengesOther
    BY <1>27 DEF MasterChallengesOther
  <1>28. ASSUME NEW t \in {"DeviceInfo", "Request", "Event"}, MasterTells(t) PROVE MsgId' = MsgId \/ MsgId' = MsgId + 1
    BY <1>28 DEF MasterTells
  <1>29. CASE UNCHANGED vars
    BY <1>29 DEF vars
  <1>30. QED
    BY <1>1, <1>2, <1>3, <1>4, <1>5, <1>6, <1>7, <1>8, <1>9, <1>10, <1>11, <1>12,
       <1>13, <1>14, <1>15, <1>16, <1>17, <1>18, <1>19, <1>20, <1>21, <1>22, <1>23,
       <1>24, <1>25, <1>26, <1>27, <1>28, <1>29, WindowLoads
       DEF Next, OnDataReceived, Continuation, Cache, Users, Network, MasterReplies,
       MasterSpeaks

-----------------------------------------------------------------------------
(***************************************************************************)
(* What the counter, the requests and the pending table may do in a step:  *)
(* requests keep their devices, and an ID already drawn gets no request.   *)
(***************************************************************************)
Later(b, rq, pd, b2, rq2, pd2) ==
    /\ b <= b2
    /\ Len(rq) <= Len(rq2)
    /\ \A k \in 1 .. Len(rq) : rq2[k].device = rq[k].device
    /\ \A id \in Ids : id <= b => pd2[id] = 0 \/ pd2[id] = pd[id]

\* A handler that changes the state or the ID of a request keeps its device.
LEMMA DeviceKept ==
    ASSUME NEW rq \in Seq(Request), NEW i \in 1 .. Len(rq), NEW st, NEW id
    PROVE  /\ \A k \in 1 .. Len(rq) :
                 /\ [rq EXCEPT ![i].state = st][k].device = rq[k].device
                 /\ [rq EXCEPT ![i].state = st, ![i].msgId = id][k].device = rq[k].device
           /\ \A k \in 1 .. Len(rq) :
                 /\ [rq EXCEPT ![i].state = st][k].state \in {st, rq[k].state}
                 /\ [rq EXCEPT ![i].state = st, ![i].msgId = id][k].state \in {st, rq[k].state}
  <1>1. \A k \in 1 .. Len(rq) : rq[k] \in Request
    OBVIOUS
  <1>2. QED
    BY <1>1 DEF Request

\* Filing a request, on top of what the caller did.
LEMMA FileRequestLater ==
    ASSUME MsgId \in Nat, MsgId + 1 < IdMod, NEW d \in Devices, NEW rq \in Seq(Request),
           NEW pd \in [Ids -> 0 .. Len(rq)], NEW ca,
           FileRequest(MsgId, d, rq, pd, ca),
           \A id \in Ids : pd[id] # 0 => id <= MsgId
    PROVE  /\ Len(request') = Len(rq) + 1
           /\ \A k \in 1 .. Len(rq) : request'[k] = rq[k]
           /\ request'[Len(rq) + 1].device = d
           /\ request'[Len(rq) + 1].state = "Uninitialized"
           /\ pending' = [pd EXCEPT ![NextId(MsgId)] = Len(rq) + 1]
           /\ MsgId' = MsgId + 1
  <1>1. NextId(MsgId) = MsgId + 1 /\ NextId(MsgId) \in Ids
    BY FreshId
  <1>2. pd[NextId(MsgId)] = 0
    BY <1>1
  <1>3. [device |-> d, msgId |-> NextId(MsgId), state |-> "Uninitialized"] \in Request
    BY <1>1 DEF Request, State
  <1>4. QED
    BY <1>2, <1>3 DEF FileRequest, Increment, TryAdd

\* Every step is one to a later counter, requests and table, files requests under
\* drawn IDs only and disconnects none.
LEMMA LaterStep ==
    ASSUME TypeOK, FiledLow, NeverDisconnected, UiThread, [Next]_vars, MsgId' < IdMod
    PROVE  /\ Later(MsgId, request, pending, MsgId', request', pending')
           /\ FiledLow' /\ NeverDisconnected'
  <1>a. /\ MsgId \in Nat /\ request \in Seq(Request)
        /\ pending \in [Ids -> 0 .. Len(request)]
    BY TypeParts DEF RequestType
  <1>b. MsgId' = MsgId \/ MsgId' = MsgId + 1
    BY CounterStep
  <1>1. CASE AckOfRequest
    <2>1. Asked \in 1 .. Len(request) /\ Head(toClient).id \in Ids
      BY <1>1, AskedType DEF AckOfRequest
    <2>2. /\ request' = [request EXCEPT ![Asked].state = "Connected"]
          /\ pending' = [pending EXCEPT ![Head(toClient).id] = 0] /\ MsgId' = MsgId
      BY <1>1 DEF AckOfRequest
    <2>3. /\ Len(request') = Len(request)
          /\ \A k \in 1 .. Len(request) : request'[k].device = request[k].device
          /\ \A k \in 1 .. Len(request) : request'[k].state \in {"Connected", request[k].state}
      BY <1>a, <2>1, <2>2, DeviceKept, RequestUpdate DEF State
    <2>4. \A id \in Ids : pending'[id] = 0 \/ pending'[id] = pending[id]
      BY <1>a, <2>1, <2>2
    <2>5. Later(MsgId, request, pending, MsgId', request', pending')
      BY <1>a, <2>2, <2>3, <2>4 DEF Later
    <2>6. FiledLow'
      BY <2>2, <2>4 DEF FiledLow
    <2>7. NeverDisconnected'
      BY <2>3 DEF NeverDisconnected
    <2>8. QED
      BY <2>5, <2>6, <2>7
  <1>2. CASE ChallengeRequest(MsgId)
    <2> DEFINE from == Head(toClient).id
    <2>1. MsgId' = MsgId + 1 /\ pending' = Refile(pending, from, NextId(MsgId)) /\ Asked = pending[from]
      BY <1>2 DEF ChallengeRequest, Increment, Asked
    <2>2. NextId(MsgId) = MsgId + 1 /\ NextId(MsgId) \in Ids
      BY <1>a, <2>1, FreshId
    <2>3. Asked \in 0 .. Len(request) /\ from \in Ids
      BY <1>2, AskedType DEF ChallengeRequest
    <2>4. \A id \in Ids : id # NextId(MsgId) => pending'[id] = 0 \/ pending'[id] = pending[id]
      BY <1>a, <2>1, <2>2, <2>3 DEF Refile, TryAdd
    <2>5. /\ Len(request') = Len(request)
          /\ \A k \in 1 .. Len(request) : request'[k].device = request[k].device
          /\ \A k \in 1 .. Len(request) : request'[k].state \in {"Unverified", request[k].state}
      <3>1. CASE Asked = 0
        BY <1>2, <3>1 DEF ChallengeRequest
      <3>2. CASE Asked # 0
        <4>1. request' = [request EXCEPT ![Asked].state = "Unverified",
                                         ![Asked].msgId = NextId(MsgId)]
          BY <1>2, <3>2 DEF ChallengeRequest
        <4>2. Asked \in 1 .. Len(request)
          BY <2>3, <3>2
        <4>3. "Unverified" \in State
          BY DEF State
        <4>4. Len(request') = Len(request)
          BY <1>a, <2>2, <4>1, <4>2, <4>3, RequestUpdate
        <4>5. \A k \in 1 .. Len(request) :
                 /\ request'[k].device = request[k].device
                 /\ request'[k].state \in {"Unverified", request[k].state}
          BY <1>a, <4>1, <4>2, DeviceKept
        <4>6. QED
          BY <4>4, <4>5
      <3>3. QED
        BY <3>1, <3>2
    <2>6. Later(MsgId, request, pending, MsgId', request', pending')
      BY <1>a, <2>1, <2>2, <2>4, <2>5 DEF Later
    <2>7. FiledLow'
      <3> SUFFICES ASSUME NEW id \in Ids, pending'[id] # 0 PROVE id <= MsgId'
        BY DEF FiledLow
      <3>1. id \in Nat
        BY DEF Ids
      <3>2. CASE id = NextId(MsgId)
        BY <1>a, <2>1, <2>2, <3>2
      <3>3. CASE id # NextId(MsgId)
        BY <1>a, <2>1, <2>4, <3>1, <3>3 DEF FiledLow
      <3>4. QED
        BY <3>2, <3>3
    <2>8. NeverDisconnected'
      BY <2>5 DEF NeverDisconnected
    <2>9. QED
      BY <2>6, <2>7, <2>8
  <1>3. ASSUME NEW d \in Devices, NEW rq \in Seq(Request), NEW pd \in [Ids -> 0 .. Len(rq)],
               NEW ca, FileRequest(MsgId, d, rq, pd, ca), Len(rq) = Len(request),
               \A k \in 1 .. Len(rq) : rq[k].device = request[k].device
                                       /\ rq[k].state # "Disconnected",
               \A id \in Ids : pd[id] = 0 \/ pd[id] = pending[id]
        PROVE  /\ Later(MsgId, request, pending, MsgId', request', pending')
               /\ FiledLow' /\ NeverDisconnected'
    <2>1. MsgId' = MsgId + 1
      BY <1>3 DEF FileRequest, Increment
    <2>2. NextId(MsgId) = MsgId + 1 /\ NextId(MsgId) \in Ids
      BY <1>a, <2>1, FreshId
    <2>3. \A id \in Ids : pd[id] # 0 => id <= MsgId
      BY <1>3 DEF FiledLow
    <2>4. /\ Len(request') = Len(rq) + 1
          /\ \A k \in 1 .. Len(rq) : request'[k] = rq[k]
          /\ request'[Len(rq) + 1].state = "Uninitialized"
          /\ pending' = [pd EXCEPT ![NextId(MsgId)] = Len(rq) + 1]
      <3>1. MsgId \in Nat /\ MsgId + 1 < IdMod
        BY <1>a, <2>1
      <3>2. FileRequest(MsgId, d, rq, pd, ca)
        BY <1>3
      <3>3. QED
        BY <2>3, <3>1, <3>2, FileRequestLater
    <2>5. PICK n \in Nat : n = Len(rq)
      BY <1>3
    <2>6. \A id \in Ids : id # NextId(MsgId) => pending'[id] = pd[id]
      BY <1>3, <2>2, <2>4
    <2>7. \A id \in Ids : id <= MsgId => id # NextId(MsgId)
      BY <1>a, <2>2 DEF Ids
    <2>8. Later(MsgId, request, pending, MsgId', request', pending')
      BY <1>a, <1>3, <2>1, <2>4, <2>5, <2>6, <2>7 DEF Later
    <2>9. FiledLow'
      <3> SUFFICES ASSUME NEW id \in Ids, pending'[id] # 0 PROVE id <= MsgId'
        BY DEF FiledLow
      <3>1. id \in Nat
        BY DEF Ids
      <3>2. CASE id = NextId(MsgId)
        BY <1>a, <2>1, <2>2, <3>2
      <3>3. CASE id # NextId(MsgId)
        BY <1>a, <2>1, <2>3, <2>6, <3>1, <3>3
      <3>4. QED
        BY <3>2, <3>3
    <2>10. NeverDisconnected'
      BY <1>3, <2>4, <2>5 DEF NeverDisconnected
    <2>11. QED
      BY <2>8, <2>9, <2>10
  <1>4. CASE ChallengeAck(MsgId)
    <2> DEFINE rq == [request EXCEPT ![Asked].state = "Connected"]
               pd == [pending EXCEPT ![Head(toClient).id] = 0]
               ca == cached \ {Asked}
    <2>1. Asked \in 1 .. Len(request) /\ Head(toClient).id \in Ids
          /\ request[Asked].device \in Devices
      BY <1>4, AskedType DEF ChallengeAck
    <2>2. rq \in Seq(Request) /\ Len(rq) = Len(request)
      BY <1>a, <2>1, RequestUpdate DEF State
    <2>3. pd \in [Ids -> 0 .. Len(rq)] /\ \A id \in Ids : pd[id] = 0 \/ pd[id] = pending[id]
      BY <1>a, <2>1, <2>2
    <2>4. \A k \in 1 .. Len(request) : rq[k].device = request[k].device
                                       /\ rq[k].state \in {"Connected", request[k].state}
      BY <1>a, <2>1, DeviceKept
    <2>5. \A k \in 1 .. Len(rq) : rq[k].state # "Disconnected"
      <3> HIDE DEF rq
      <3>1. QED
        BY <2>2, <2>4 DEF NeverDisconnected
    <2>6. FileRequest(MsgId, request[Asked].device, rq, pd, ca)
          \/ (request' = rq /\ pending' = pd /\ MsgId' = MsgId)
      BY <1>4 DEF ChallengeAck
    <2> HIDE DEF rq, pd, ca
    <2>7. CASE FileRequest(MsgId, request[Asked].device, rq, pd, ca)
      BY <1>3, <2>1, <2>2, <2>3, <2>4, <2>5, <2>7
    <2>8. CASE request' = rq /\ pending' = pd /\ MsgId' = MsgId
      <3>1. Later(MsgId, request, pending, MsgId', request', pending')
        BY <1>a, <2>2, <2>3, <2>4, <2>8 DEF Later
      <3>2. FiledLow' /\ NeverDisconnected'
        BY <2>3, <2>5, <2>8 DEF FiledLow, NeverDisconnected
      <3>3. QED
        BY <3>1, <3>2
    <2>9. QED
      BY <2>6, <2>7, <2>8
  <1>5. ASSUME NEW d \in Devices, CreateDeviceInfo(MsgId, d)
        PROVE  /\ Later(MsgId, request, pending, MsgId', request', pending')
               /\ FiledLow' /\ NeverDisconnected'
    <2>1. FileRequest(MsgId, d, request, pending, cached)
      BY <1>5 DEF CreateDeviceInfo
    <2>2. QED
      BY <1>a, <1>3, <2>1 DEF NeverDisconnected
  <1>6. CASE UNCHANGED <<request, pending>>
    <2>1. FiledLow'
      BY <1>a, <1>b, <1>6 DEF FiledLow, Ids
    <2>2. Later(MsgId, request, pending, MsgId', request', pending')
      BY <1>a, <1>b, <1>6 DEF Later
    <2>3. QED
      BY <1>6, <2>1, <2>2 DEF NeverDisconnected
  <1>7. QED
    BY <1>1, <1>2, <1>4, <1>5, <1>6, WindowLoads, RequestsKept

\* What holds of a message stays true as long as it is under way.
LEMMA MasterMsgKept ==
    ASSUME NEW m \in ToMaster, NEW b \in Nat, NEW b2 \in Nat,
           NEW rq \in Seq(Request), NEW rq2 \in Seq(Request),
           NEW pd \in [Ids -> 0 .. Len(rq)], NEW pd2,
           Later(b, rq, pd, b2, rq2, pd2), MasterMsgOK(m, b, rq, pd)
    PROVE  MasterMsgOK(m, b2, rq2, pd2)
  <1>1. m.id \in Ids /\ m.id \in Nat
    BY DEF ToMaster, Ids
  <1>2. m.id <= b /\ b <= b2 /\ (pd2[m.id] = 0 \/ pd2[m.id] = pd[m.id])
    BY <1>1 DEF MasterMsgOK, Later
  <1>3. m.id <= b2
    BY <1>1, <1>2
  <1>4. m.type = "Other" => pd2[m.id] = 0
    BY <1>2 DEF MasterMsgOK
  <1>5. ASSUME m.type = "DeviceInfo"
        PROVE  /\ \E k \in 1 .. Len(rq2) : rq2[k].device = m.device
               /\ pd2[m.id] # 0 => rq2[pd2[m.id]].device = m.device
    <2>1. PICK k \in 1 .. Len(rq) : rq[k].device = m.device
      BY <1>5 DEF MasterMsgOK
    <2>2. k \in 1 .. Len(rq2) /\ rq2[k].device = m.device
      BY <2>1 DEF Later
    <2>3. pd2[m.id] # 0 => rq2[pd2[m.id]].device = m.device
      <3>1. pd[m.id] \in 0 .. Len(rq)
        BY <1>1
      <3>2. pd[m.id] # 0 => rq[pd[m.id]].device = m.device
        BY <1>5 DEF MasterMsgOK
      <3>3. pd[m.id] # 0 => rq2[pd[m.id]].device = rq[pd[m.id]].device
        BY <3>1 DEF Later
      <3>4. QED
        BY <1>2, <3>2, <3>3
    <2>4. QED
      BY <2>2, <2>3
  <1>6. QED
    BY <1>3, <1>4, <1>5 DEF MasterMsgOK

\* The same of a message from the master, as long as what it accepted stays accepted.
LEMMA ClientMsgKept ==
    ASSUME NEW m \in ToClient, NEW b \in Nat, NEW b2 \in Nat,
           NEW rq \in Seq(Request), NEW rq2 \in Seq(Request),
           NEW pd \in [Ids -> 0 .. Len(rq)], NEW pd2, NEW acc, NEW acc2,
           acc \subseteq acc2,
           Later(b, rq, pd, b2, rq2, pd2), ClientMsgOK(m, b, rq, pd, acc)
    PROVE  ClientMsgOK(m, b2, rq2, pd2, acc2)
  <1>1. CASE m.type \notin {"Ack", "ChallengeRequest", "ChallengeAck"}
    BY <1>1 DEF ClientMsgOK
  <1>2. CASE m.type \in {"Ack", "ChallengeRequest", "ChallengeAck"}
    <2>1. m.id \in Ids /\ m.id \in Nat
      BY <1>2 DEF ToClient, Ids
    <2>2. m.id <= b /\ b <= b2 /\ (pd2[m.id] = 0 \/ pd2[m.id] = pd[m.id])
      BY <1>2, <2>1 DEF ClientMsgOK, Later
    <2>3. m.id <= b2
      BY <2>1, <2>2
    <2>4. ASSUME m.type = "Ack", pd2[m.id] # 0 PROVE rq2[pd2[m.id]].device \in acc2
      <3>1. pd[m.id] # 0 /\ pd2[m.id] = pd[m.id]
        BY <2>2, <2>4
      <3>2. rq[pd[m.id]].device \in acc
        BY <2>4, <3>1 DEF ClientMsgOK
      <3>3. pd[m.id] \in 1 .. Len(rq)
        BY <2>1, <3>1
      <3>4. QED
        BY <3>1, <3>2, <3>3 DEF Later
    <2>5. QED
      BY <2>3, <2>4 DEF ClientMsgOK
  <1>3. QED
    BY <1>1, <1>2

-----------------------------------------------------------------------------
(***************************************************************************)
(* The messages to the master.                                             *)
(***************************************************************************)

\* After a step each message to the master was there before, or is as it should be.
MasterAdds ==
    \A j \in 1 .. Len(toMaster') :
        \/ \E i \in 1 .. Len(toMaster) : toMaster'[j] = toMaster[i]
        \/ MasterMsgOK(toMaster'[j], MsgId', request', pending')

\* Nobody waits for the ID of a message that is not a registration.
LEMMA OtherAdds ==
    ASSUME TypeOK, FiledLow, SendOther(MsgId), UNCHANGED pending, MsgId' < IdMod
    PROVE  MasterAdds
  <1> DEFINE m == [type |-> "Other", id |-> NextId(MsgId)]
  <1>1. MsgId' = MsgId + 1 /\ toMaster' = Sent(m) /\ MsgId \in Nat
    BY TypeParts DEF SendOther, Increment, RequestType
  <1>2. NextId(MsgId) = MsgId + 1 /\ NextId(MsgId) \in Ids
    BY <1>1, FreshId
  <1>3. pending'[NextId(MsgId)] = 0
    BY <1>1, <1>2 DEF FiledLow
  <1>4. MasterMsgOK(m, MsgId', request', pending')
    BY <1>1, <1>2, <1>3 DEF MasterMsgOK
  <1> HIDE DEF m
  <1>5. QED
    BY <1>1, <1>4, SentKeeps DEF MasterAdds

\* A registration is filed under its own ID.
LEMMA RequestAdds ==
    ASSUME TypeOK, MsgId' < IdMod, NEW d \in Devices, NEW rq \in Seq(Request),
           NEW pd \in [Ids -> 0 .. Len(rq)], NEW ca,
           FileRequest(MsgId, d, rq, pd, ca),
           \A id \in Ids : pd[id] # 0 => id <= MsgId
    PROVE  MasterAdds
  <1> DEFINE m == [device |-> d, type |-> "DeviceInfo", id |-> NextId(MsgId)]
  <1>1. MsgId' = MsgId + 1 /\ toMaster' = Sent(m) /\ MsgId \in Nat
    BY TypeParts DEF FileRequest, Increment, RequestType
  <1>2. NextId(MsgId) = MsgId + 1 /\ NextId(MsgId) \in Ids
    BY <1>1, FreshId
  <1>3. MsgId + 1 < IdMod
    BY <1>1
  <1>4. /\ Len(request') = Len(rq) + 1
        /\ request'[Len(rq) + 1].device = d
        /\ pending' = [pd EXCEPT ![NextId(MsgId)] = Len(rq) + 1]
    BY <1>1, <1>3, FileRequestLater
  <1>5. PICK n \in Nat : n = Len(rq)
    OBVIOUS
  <1>6. pending'[NextId(MsgId)] = n + 1
    BY <1>2, <1>4, <1>5
  <1>7. n + 1 \in 1 .. Len(request') /\ request'[n + 1].device = d
    BY <1>4, <1>5
  <1>8. MasterMsgOK(m, MsgId', request', pending')
    BY <1>1, <1>2, <1>6, <1>7 DEF MasterMsgOK
  <1> HIDE DEF m
  <1>9. QED
    BY <1>1, <1>8, SentKeeps DEF MasterAdds

\* Every step adds only such messages.
LEMMA MasterAddsStep ==
    ASSUME TypeOK, FiledLow, UiThread, [Next]_vars, MsgId' < IdMod
    PROVE  MasterAdds
  <1> USE DEF channels
  <1>a. /\ MsgId \in Nat /\ request \in Seq(Request)
        /\ pending \in [Ids -> 0 .. Len(request)]
    BY TypeParts DEF RequestType
  <1>1. CASE AckOfRequest
    <2>1. toMaster' = toMaster
      BY <1>1 DEF AckOfRequest
    <2>2. QED
      BY <2>1 DEF MasterAdds
  <1>2. CASE AckUnknown
    <2>1. toMaster' = toMaster
      BY <1>2 DEF AckUnknown
    <2>2. QED
      BY <2>1 DEF MasterAdds
  <1>3. CASE ChallengeRequest(MsgId)
    <2> DEFINE m == [type |-> "ChallengeResponse", id |-> NextId(MsgId)]
    <2>1. MsgId' = MsgId + 1 /\ toMaster' = Sent(m)
      BY <1>3 DEF ChallengeRequest, Increment
    <2>2. NextId(MsgId) = MsgId + 1
      BY <1>a, <2>1, FreshId
    <2>3. MasterMsgOK(m, MsgId', request', pending')
      BY <1>a, <2>1, <2>2 DEF MasterMsgOK
    <2> HIDE DEF m
    <2>4. QED
      BY <2>1, <2>3, SentKeeps DEF MasterAdds
  <1>4. CASE ChallengeAck(MsgId)
    <2> DEFINE rq == [request EXCEPT ![Asked].state = "Connected"]
               pd == [pending EXCEPT ![Head(toClient).id] = 0]
               ca == cached \ {Asked}
    <2>1. Asked \in 1 .. Len(request) /\ Head(toClient).id \in Ids
          /\ request[Asked].device \in Devices
      BY <1>4, AskedType DEF ChallengeAck
    <2>2. rq \in Seq(Request) /\ Len(rq) = Len(request)
      BY <1>a, <2>1, RequestUpdate DEF State
    <2>3. pd \in [Ids -> 0 .. Len(rq)] /\ \A id \in Ids : pd[id] # 0 => id <= MsgId
      BY <1>a, <2>1, <2>2 DEF FiledLow
    <2>4. FileRequest(MsgId, request[Asked].device, rq, pd, ca) \/ toMaster' = toMaster
      BY <1>4 DEF ChallengeAck
    <2> HIDE DEF rq, pd, ca
    <2>5. CASE FileRequest(MsgId, request[Asked].device, rq, pd, ca)
      BY <2>1, <2>2, <2>3, <2>5, RequestAdds
    <2>6. CASE toMaster' = toMaster
      BY <2>6 DEF MasterAdds
    <2>7. QED
      BY <2>4, <2>5, <2>6
  <1>5. CASE ChallengeAckUnknown
    <2>1. toMaster' = toMaster
      BY <1>5 DEF ChallengeAckUnknown
    <2>2. QED
      BY <2>1 DEF MasterAdds
  <1>6. CASE Ping(MsgId)
    <2>1. UNCHANGED pending /\ (SendOther(MsgId) \/ toMaster' = toMaster)
      BY <1>6 DEF Ping
    <2>2. CASE SendOther(MsgId)
      BY <2>1, <2>2, OtherAdds
    <2>3. CASE toMaster' = toMaster
      BY <2>3 DEF MasterAdds
    <2>4. QED
      BY <2>1, <2>2, <2>3
  <1>7. CASE DeviceInfo
    <2>1. toMaster' = toMaster
      BY <1>7 DEF DeviceInfo
    <2>2. QED
      BY <2>1 DEF MasterAdds
  <1>8. CASE Answer(MsgId)
    <2>1. SendOther(MsgId) /\ UNCHANGED pending
      BY <1>8 DEF Answer
    <2>2. QED
      BY <2>1, OtherAdds
  <1>9. CASE Event
    <2>1. toMaster' = toMaster
      BY <1>9 DEF Event
    <2>2. QED
      BY <2>1 DEF MasterAdds
  <1>10. ASSUME NEW u \in updating, UpdateDeviceInfo(MsgId, u) PROVE MasterAdds
    <2>1. SendOther(MsgId) /\ UNCHANGED pending
      BY <1>10 DEF UpdateDeviceInfo
    <2>2. QED
      BY <2>1, OtherAdds
  <1>11. ASSUME NEW u \in updating, DeviceOnline(u) PROVE MasterAdds
    <2>1. toMaster' = toMaster
      BY <1>11 DEF DeviceOnline
    <2>2. QED
      BY <2>1 DEF MasterAdds
  <1>12. ASSUME NEW u \in updating, UpdateThrows(u) PROVE MasterAdds
    <2>1. toMaster' = toMaster
      BY <1>12 DEF UpdateThrows
    <2>2. QED
      BY <2>1 DEF MasterAdds
  <1>13. ASSUME NEW t \in cached, RequestExpires(t) PROVE MasterAdds
    <2>1. toMaster' = toMaster
      BY <1>13 DEF RequestExpires
    <2>2. QED
      BY <2>1 DEF MasterAdds
  <1>14. ASSUME NEW d \in pinged, PingExpires(d) PROVE MasterAdds
    <2>1. toMaster' = toMaster
      BY <1>14 DEF PingExpires
    <2>2. QED
      BY <2>1 DEF MasterAdds
  <1>15. CASE CacheEmptied
    <2>1. toMaster' = toMaster
      BY <1>15 DEF CacheEmptied
    <2>2. QED
      BY <2>1 DEF MasterAdds
  <1>16. ASSUME NEW d \in Devices, CreateDeviceInfo(MsgId, d) PROVE MasterAdds
    <2>1. FileRequest(MsgId, d, request, pending, cached)
      BY <1>16 DEF CreateDeviceInfo
    <2>2. QED
      BY <1>a, <2>1, RequestAdds DEF FiledLow
  <1>17. CASE SendMessage(MsgId)
    <2>1. SendOther(MsgId) /\ UNCHANGED pending
      BY <1>17 DEF SendMessage
    <2>2. QED
      BY <2>1, OtherAdds
  <1>18. CASE Dispose
    <2>1. toMaster' = <<>>
      BY <1>18 DEF Dispose
    <2>2. QED
      BY <2>1 DEF MasterAdds
  <1>19. CASE GoOffline
    <2>1. toMaster' = <<>>
      BY <1>19 DEF GoOffline
    <2>2. QED
      BY <2>1 DEF MasterAdds
  <1>20. CASE GoOnline
    <2>1. toMaster' = toMaster
      BY <1>20 DEF GoOnline
    <2>2. QED
      BY <2>1 DEF MasterAdds
  <1>21. CASE MasterAccepts
    <2>1. toMaster # <<>> /\ toMaster' = Tail(toMaster)
      BY <1>21 DEF MasterAccepts, MasterTakes
    <2>2. QED
      BY <2>1, TailKeepsMaster DEF MasterAdds
  <1>22. CASE MasterChallenges
    <2>1. toMaster # <<>> /\ toMaster' = Tail(toMaster)
      BY <1>22 DEF MasterChallenges, MasterTakes
    <2>2. QED
      BY <2>1, TailKeepsMaster DEF MasterAdds
  <1>23. CASE MasterIgnores
    <2>1. toMaster # <<>> /\ toMaster' = Tail(toMaster)
      BY <1>23 DEF MasterIgnores, MasterTakes
    <2>2. QED
      BY <2>1, TailKeepsMaster DEF MasterAdds
  <1>24. CASE MasterAuthenticates
    <2>1. toMaster # <<>> /\ toMaster' = Tail(toMaster)
      BY <1>24 DEF MasterAuthenticates, MasterTakes
    <2>2. QED
      BY <2>1, TailKeepsMaster DEF MasterAdds
  <1>25. CASE MasterTakesOther
    <2>1. toMaster # <<>> /\ toMaster' = Tail(toMaster)
      BY <1>25 DEF MasterTakesOther, MasterTakes
    <2>2. QED
      BY <2>1, TailKeepsMaster DEF MasterAdds
  <1>26. ASSUME NEW d \in Devices, MasterPings(d) PROVE MasterAdds
    <2>1. toMaster' = toMaster
      BY <1>26 DEF MasterPings
    <2>2. QED
      BY <2>1 DEF MasterAdds
  <1>27. CASE MasterChallengesOther
    <2>1. toMaster # <<>> /\ toMaster' = Tail(toMaster)
      BY <1>27 DEF MasterChallengesOther, MasterTakes
    <2>2. QED
      BY <2>1, TailKeepsMaster DEF MasterAdds
  <1>28. ASSUME NEW t \in {"DeviceInfo", "Request", "Event"}, MasterTells(t) PROVE MasterAdds
    <2>1. toMaster' = toMaster
      BY <1>28 DEF MasterTells
    <2>2. QED
      BY <2>1 DEF MasterAdds
  <1>29. CASE UNCHANGED vars
    <2>1. toMaster' = toMaster
      BY <1>29 DEF vars
    <2>2. QED
      BY <2>1 DEF MasterAdds
  <1>30. QED
    BY <1>1, <1>2, <1>3, <1>4, <1>5, <1>6, <1>7, <1>8, <1>9, <1>10, <1>11, <1>12,
       <1>13, <1>14, <1>15, <1>16, <1>17, <1>18, <1>19, <1>20, <1>21, <1>22, <1>23,
       <1>24, <1>25, <1>26, <1>27, <1>28, <1>29, WindowLoads
       DEF Next, OnDataReceived, Continuation, Cache, Users, Network, MasterReplies,
       MasterSpeaks

-----------------------------------------------------------------------------
(***************************************************************************)
(* The messages from the master.                                           *)
(***************************************************************************)

\* After a step each message from the master was there before, and nothing accepted
\* was taken back, or is as it should be.
ClientAdds ==
    \A j \in 1 .. Len(toClient') :
        \/ /\ accepted \subseteq accepted'
           /\ \E i \in 1 .. Len(toClient) : toClient'[j] = toClient[i]
        \/ ClientMsgOK(toClient'[j], MsgId', request', pending', accepted')

\* The message the master takes.
LEMMA TakenOK ==
    ASSUME TypeOK, MasterChannel, NEW type, MasterTakes(type)
    PROVE  /\ Head(toMaster) \in ToMaster /\ Head(toMaster).type = type
           /\ MasterMsgOK(Head(toMaster), MsgId, request, pending)
  <1>1. toMaster # <<>> /\ toMaster \in Seq(ToMaster) /\ Head(toMaster).type = type
    BY TypeParts DEF MasterTakes, ChannelType
  <1>2. 1 \in 1 .. Len(toMaster) /\ Head(toMaster) = toMaster[1]
    BY <1>1
  <1>3. QED
    BY <1>1, <1>2 DEF MasterChannel

\* The master says m.
LEMMA SaysAdds ==
    ASSUME TypeOK, NEW m, toClient' = Append(toClient, m), accepted \subseteq accepted',
           ClientMsgOK(m, MsgId', request', pending', accepted')
    PROVE  ClientAdds
  BY AppendKeepsClient DEF ClientAdds

\* Every step adds only such messages.
LEMMA ClientAddsStep ==
    ASSUME TypeOK, MasterChannel, UiThread, [Next]_vars
    PROVE  ClientAdds
  <1> USE DEF channels, masterVars
  <1>1. CASE AckOfRequest
    <2>1. toClient # <<>> /\ toClient' = Tail(toClient) /\ accepted' = accepted
      BY <1>1 DEF AckOfRequest, Receive
    <2>2. QED
      BY <2>1, TailKeepsClient DEF ClientAdds
  <1>2. CASE AckUnknown
    <2>1. toClient # <<>> /\ toClient' = Tail(toClient) /\ accepted' = accepted
      BY <1>2 DEF AckUnknown, Receive
    <2>2. QED
      BY <2>1, TailKeepsClient DEF ClientAdds
  <1>3. CASE ChallengeRequest(MsgId)
    <2>1. toClient # <<>> /\ toClient' = Tail(toClient) /\ accepted' = accepted
      BY <1>3 DEF ChallengeRequest, Receive
    <2>2. QED
      BY <2>1, TailKeepsClient DEF ClientAdds
  <1>4. CASE ChallengeAck(MsgId)
    <2>1. toClient # <<>> /\ toClient' = Tail(toClient) /\ accepted' = accepted
      BY <1>4 DEF ChallengeAck, Receive
    <2>2. QED
      BY <2>1, TailKeepsClient DEF ClientAdds
  <1>5. CASE ChallengeAckUnknown
    <2>1. toClient # <<>> /\ toClient' = Tail(toClient) /\ accepted' = accepted
      BY <1>5 DEF ChallengeAckUnknown, Receive
    <2>2. QED
      BY <2>1, TailKeepsClient DEF ClientAdds
  <1>6. CASE Ping(MsgId)
    <2>1. toClient # <<>> /\ toClient' = Tail(toClient) /\ accepted' = accepted
      BY <1>6 DEF Ping, Receive
    <2>2. QED
      BY <2>1, TailKeepsClient DEF ClientAdds
  <1>7. CASE DeviceInfo
    <2>1. toClient # <<>> /\ toClient' = Tail(toClient) /\ accepted' = accepted
      BY <1>7 DEF DeviceInfo, Receive
    <2>2. QED
      BY <2>1, TailKeepsClient DEF ClientAdds
  <1>8. CASE Answer(MsgId)
    <2>1. toClient # <<>> /\ toClient' = Tail(toClient) /\ accepted' = accepted
      BY <1>8 DEF Answer, Receive
    <2>2. QED
      BY <2>1, TailKeepsClient DEF ClientAdds
  <1>9. CASE Event
    <2>1. toClient # <<>> /\ toClient' = Tail(toClient) /\ accepted' = accepted
      BY <1>9 DEF Event, Receive
    <2>2. QED
      BY <2>1, TailKeepsClient DEF ClientAdds
  <1>10. ASSUME NEW u \in updating, UpdateDeviceInfo(MsgId, u) PROVE ClientAdds
    <2>1. toClient' = toClient /\ accepted' = accepted
      BY <1>10 DEF UpdateDeviceInfo
    <2>2. QED
      BY <2>1 DEF ClientAdds
  <1>11. ASSUME NEW u \in updating, DeviceOnline(u) PROVE ClientAdds
    <2>1. toClient' = toClient /\ accepted' = accepted
      BY <1>11 DEF DeviceOnline
    <2>2. QED
      BY <2>1 DEF ClientAdds
  <1>12. ASSUME NEW u \in updating, UpdateThrows(u) PROVE ClientAdds
    <2>1. toClient' = toClient /\ accepted' = accepted
      BY <1>12 DEF UpdateThrows
    <2>2. QED
      BY <2>1 DEF ClientAdds
  <1>13. ASSUME NEW t \in cached, RequestExpires(t) PROVE ClientAdds
    <2>1. toClient' = toClient /\ accepted' = accepted
      BY <1>13 DEF RequestExpires
    <2>2. QED
      BY <2>1 DEF ClientAdds
  <1>14. ASSUME NEW d \in pinged, PingExpires(d) PROVE ClientAdds
    <2>1. toClient' = toClient /\ accepted' = accepted
      BY <1>14 DEF PingExpires
    <2>2. QED
      BY <2>1 DEF ClientAdds
  <1>15. CASE CacheEmptied
    <2>1. toClient' = toClient /\ accepted' = accepted
      BY <1>15 DEF CacheEmptied
    <2>2. QED
      BY <2>1 DEF ClientAdds
  <1>16. ASSUME NEW d \in Devices, CreateDeviceInfo(MsgId, d) PROVE ClientAdds
    <2>1. toClient' = toClient /\ accepted' = accepted
      BY <1>16 DEF CreateDeviceInfo
    <2>2. QED
      BY <2>1 DEF ClientAdds
  <1>17. CASE SendMessage(MsgId)
    <2>1. toClient' = toClient /\ accepted' = accepted
      BY <1>17 DEF SendMessage
    <2>2. QED
      BY <2>1 DEF ClientAdds
  <1>18. CASE Dispose
    <2>1. toClient' = <<>>
      BY <1>18 DEF Dispose
    <2>2. QED
      BY <2>1 DEF ClientAdds
  <1>19. CASE GoOffline
    <2>1. toClient' = <<>>
      BY <1>19 DEF GoOffline
    <2>2. QED
      BY <2>1 DEF ClientAdds
  <1>20. CASE GoOnline
    <2>1. toClient' = toClient /\ accepted' = accepted
      BY <1>20 DEF GoOnline
    <2>2. QED
      BY <2>1 DEF ClientAdds
  <1>21. CASE MasterAccepts
    <2> DEFINE m == [type |-> "Ack", id |-> Head(toMaster).id]
    <2>1. toClient' = Append(toClient, m) /\ UNCHANGED <<MsgId, request, pending>>
          /\ accepted' = accepted \cup {Head(toMaster).device}
      BY <1>21 DEF MasterAccepts, requestVars
    <2>2. MasterMsgOK(Head(toMaster), MsgId, request, pending)
          /\ Head(toMaster).type = "DeviceInfo"
      BY <1>21, TakenOK DEF MasterAccepts
    <2>3. pending[m.id] # 0 => request[pending[m.id]].device = Head(toMaster).device
      BY <2>2 DEF MasterMsgOK
    <2>4. m.id <= MsgId
      BY <2>2 DEF MasterMsgOK
    <2>5. ClientMsgOK(m, MsgId', request', pending', accepted')
      BY <2>1, <2>3, <2>4 DEF ClientMsgOK
    <2> HIDE DEF m
    <2>6. QED
      BY <2>1, <2>5, SaysAdds
  <1>22. CASE MasterChallenges
    <2> DEFINE m == [type |-> "ChallengeRequest", id |-> Head(toMaster).id]
    <2>1. toClient' = Append(toClient, m) /\ accepted' = accepted
          /\ UNCHANGED <<MsgId, request, pending>>
      BY <1>22 DEF MasterChallenges, requestVars
    <2>2. MasterMsgOK(Head(toMaster), MsgId, request, pending)
      BY <1>22, TakenOK DEF MasterChallenges
    <2>3. ClientMsgOK(m, MsgId', request', pending', accepted')
      BY <2>1, <2>2 DEF MasterMsgOK, ClientMsgOK
    <2> HIDE DEF m
    <2>4. QED
      BY <2>1, <2>3, SaysAdds
  <1>23. CASE MasterIgnores
    <2>1. toClient' = toClient /\ accepted' = accepted
      BY <1>23 DEF MasterIgnores
    <2>2. QED
      BY <2>1 DEF ClientAdds
  <1>24. CASE MasterAuthenticates
    <2>1. PICK ok \in BOOLEAN : toClient' = Append(toClient,
             [type |-> "ChallengeAck", id |-> Head(toMaster).id, ok |-> ok])
      BY <1>24 DEF MasterAuthenticates
    <2> DEFINE m == [type |-> "ChallengeAck", id |-> Head(toMaster).id, ok |-> ok]
    <2>2. accepted' = accepted /\ UNCHANGED <<MsgId, request, pending>>
      BY <1>24 DEF MasterAuthenticates, requestVars
    <2>3. MasterMsgOK(Head(toMaster), MsgId, request, pending)
      BY <1>24, TakenOK DEF MasterAuthenticates
    <2>4. ClientMsgOK(m, MsgId', request', pending', accepted')
      BY <2>2, <2>3 DEF MasterMsgOK, ClientMsgOK
    <2> HIDE DEF m
    <2>5. toClient' = Append(toClient, m)
      BY <2>1 DEF m
    <2>6. QED
      BY <2>2, <2>4, <2>5, SaysAdds
  <1>25. CASE MasterTakesOther
    <2> DEFINE m == [type |-> "Ack", id |-> Head(toMaster).id]
    <2>1. accepted' = accepted /\ UNCHANGED <<MsgId, request, pending>>
      BY <1>25 DEF MasterTakesOther, requestVars
    <2>2. MasterMsgOK(Head(toMaster), MsgId, request, pending)
          /\ Head(toMaster).type = "Other"
      BY <1>25, TakenOK DEF MasterTakesOther
    <2>3. ClientMsgOK(m, MsgId', request', pending', accepted')
      BY <2>1, <2>2 DEF MasterMsgOK, ClientMsgOK
    <2>4. toClient' = toClient \/ toClient' = Append(toClient, m)
      BY <1>25 DEF MasterTakesOther
    <2> HIDE DEF m
    <2>5. CASE toClient' = toClient
      BY <2>1, <2>5 DEF ClientAdds
    <2>6. CASE toClient' = Append(toClient, m)
      BY <2>1, <2>3, <2>6, SaysAdds
    <2>7. QED
      BY <2>4, <2>5, <2>6
  <1>26. ASSUME NEW d \in Devices, MasterPings(d) PROVE ClientAdds
    <2> DEFINE m == [device |-> d, type |-> "Ping"]
    <2>1. toClient' = Append(toClient, m) /\ accepted' = accepted
      BY <1>26 DEF MasterPings
    <2>2. ClientMsgOK(m, MsgId', request', pending', accepted')
      BY DEF ClientMsgOK
    <2> HIDE DEF m
    <2>3. QED
      BY <2>1, <2>2, SaysAdds
  <1>27. CASE MasterChallengesOther
    <2> DEFINE m == [type |-> "ChallengeRequest", id |-> Head(toMaster).id]
    <2>1. toClient' = Append(toClient, m) /\ accepted' = accepted
          /\ UNCHANGED <<MsgId, request, pending>>
      BY <1>27 DEF MasterChallengesOther, requestVars
    <2>2. MasterMsgOK(Head(toMaster), MsgId, request, pending)
      BY <1>27, TakenOK DEF MasterChallengesOther
    <2>3. ClientMsgOK(m, MsgId', request', pending', accepted')
      BY <2>1, <2>2 DEF MasterMsgOK, ClientMsgOK
    <2> HIDE DEF m
    <2>4. QED
      BY <2>1, <2>3, SaysAdds
  <1>28. ASSUME NEW t \in {"DeviceInfo", "Request", "Event"}, MasterTells(t) PROVE ClientAdds
    <2> DEFINE m == [type |-> t]
    <2>1. toClient' = Append(toClient, m) /\ accepted' = accepted
      BY <1>28 DEF MasterTells
    <2>2. ClientMsgOK(m, MsgId', request', pending', accepted')
      BY DEF ClientMsgOK
    <2> HIDE DEF m
    <2>3. QED
      BY <2>1, <2>2, SaysAdds
  <1>29. CASE UNCHANGED vars
    <2>1. toClient' = toClient /\ accepted' = accepted
      BY <1>29 DEF vars
    <2>2. QED
      BY <2>1 DEF ClientAdds
  <1>30. QED
    BY <1>1, <1>2, <1>3, <1>4, <1>5, <1>6, <1>7, <1>8, <1>9, <1>10, <1>11, <1>12,
       <1>13, <1>14, <1>15, <1>16, <1>17, <1>18, <1>19, <1>20, <1>21, <1>22, <1>23,
       <1>24, <1>25, <1>26, <1>27, <1>28, <1>29, WindowLoads
       DEF Next, OnDataReceived, Continuation, Cache, Users, Network, MasterReplies,
       MasterSpeaks

-----------------------------------------------------------------------------
(***************************************************************************)
(* The registry.                                                           *)
(***************************************************************************)

\* The request that an Ack finds is for an accepted device.
LEMMA AckedIsAccepted ==
    ASSUME TypeOK, ClientChannel, AckOfRequest
    PROVE  request[Asked].device \in accepted /\ request[Asked].device \in Devices
  <1>1. toClient # <<>> /\ toClient \in Seq(ToClient) /\ Head(toClient).type = "Ack"
        /\ Asked # 0 /\ Asked = pending[Head(toClient).id]
    BY TypeParts DEF AckOfRequest, Receive, ChannelType, Asked
  <1>2. 1 \in 1 .. Len(toClient) /\ Head(toClient) = toClient[1]
    BY <1>1
  <1>3. ClientMsgOK(Head(toClient), MsgId, request, pending, accepted)
    BY <1>2 DEF ClientChannel
  <1>4. request[Asked].device \in accepted
    BY <1>1, <1>3 DEF ClientMsgOK
  <1>5. request[Asked].device \in Devices
    BY AskedType DEF AckOfRequest
  <1>6. QED
    BY <1>4, <1>5

\* What a step does to the sets of accepted and of registered devices.
LEMMA SetsStep ==
    ASSUME TypeOK, RegInv, UiThread, [Next]_vars
    PROVE  \/ UNCHANGED <<accepted, mDevices>>
           \/ AckOfRequest
           \/ MasterAccepts
           \/ GoOffline
  <1> USE DEF masterVars, deviceVars
  <1>1. CASE AckOfRequest
    BY <1>1
  <1>2. CASE AckUnknown
    BY <1>2 DEF AckUnknown
  <1>3. CASE ChallengeRequest(MsgId)
    BY <1>3 DEF ChallengeRequest
  <1>4. CASE ChallengeAck(MsgId)
    BY <1>4 DEF ChallengeAck
  <1>5. CASE ChallengeAckUnknown
    BY <1>5 DEF ChallengeAckUnknown
  <1>6. CASE Ping(MsgId)
    BY <1>6 DEF Ping
  <1>7. CASE DeviceInfo
    BY <1>7 DEF DeviceInfo
  <1>8. CASE Answer(MsgId)
    BY <1>8 DEF Answer
  <1>9. CASE Event
    BY <1>9 DEF Event
  <1>10. ASSUME NEW u \in updating, UpdateDeviceInfo(MsgId, u) PROVE UNCHANGED <<accepted, mDevices>>
    BY <1>10 DEF UpdateDeviceInfo
  <1>11. ASSUME NEW u \in updating, DeviceOnline(u) PROVE UNCHANGED <<accepted, mDevices>>
    BY <1>11 DEF DeviceOnline
  <1>12. ASSUME NEW u \in updating, UpdateThrows(u) PROVE UNCHANGED <<accepted, mDevices>>
    BY <1>12 DEF UpdateThrows
  <1>13. ASSUME NEW t \in cached, RequestExpires(t) PROVE UNCHANGED <<accepted, mDevices>>
    <2>1. request[t].state # "Disconnected"
      BY <1>13, TypeParts DEF RequestType, RegInv, NeverDisconnected
    <2>2. QED
      BY <1>13, <2>1 DEF RequestExpires
  <1>14. ASSUME NEW d \in pinged, PingExpires(d) PROVE UNCHANGED <<accepted, mDevices>>
    BY <1>14 DEF PingExpires
  <1>15. CASE CacheEmptied
    BY <1>15 DEF CacheEmptied
  <1>16. ASSUME NEW d \in Devices, CreateDeviceInfo(MsgId, d) PROVE UNCHANGED <<accepted, mDevices>>
    BY <1>16 DEF CreateDeviceInfo
  <1>17. CASE SendMessage(MsgId)
    BY <1>17 DEF SendMessage
  <1>18. CASE Dispose
    BY <1>18 DEF Dispose
  <1>19. CASE GoOffline
    BY <1>19
  <1>20. CASE GoOnline
    BY <1>20 DEF GoOnline
  <1>21. CASE MasterAccepts
    BY <1>21
  <1>22. CASE MasterChallenges
    BY <1>22 DEF MasterChallenges
  <1>23. CASE MasterIgnores
    BY <1>23 DEF MasterIgnores
  <1>24. CASE MasterAuthenticates
    BY <1>24 DEF MasterAuthenticates
  <1>25. CASE MasterTakesOther
    BY <1>25 DEF MasterTakesOther
  <1>26. ASSUME NEW d \in Devices, MasterPings(d) PROVE UNCHANGED <<accepted, mDevices>>
    BY <1>26 DEF MasterPings
  <1>27. CASE MasterChallengesOther
    BY <1>27 DEF MasterChallengesOther
  <1>28. ASSUME NEW t \in {"DeviceInfo", "Request", "Event"}, MasterTells(t) PROVE UNCHANGED <<accepted, mDevices>>
    BY <1>28 DEF MasterTells
  <1>29. CASE UNCHANGED vars
    BY <1>29 DEF vars
  <1>30. QED
    BY <1>1, <1>2, <1>3, <1>4, <1>5, <1>6, <1>7, <1>8, <1>9, <1>10, <1>11, <1>12,
       <1>13, <1>14, <1>15, <1>16, <1>17, <1>18, <1>19, <1>20, <1>21, <1>22, <1>23,
       <1>24, <1>25, <1>26, <1>27, <1>28, <1>29, WindowLoads
       DEF Next, OnDataReceived, Continuation, Cache, Users, Network, MasterReplies,
       MasterSpeaks

\* RegInv is inductive while IDs have not wrapped.
LEMMA RegStep ==
    ASSUME TypeOK, TypeOK', RegInv, UiThread, [Next]_vars, MsgId' < IdMod
    PROVE  RegInv'
  <1>a. /\ FiledLow /\ NeverDisconnected /\ MasterChannel /\ ClientChannel
        /\ mDevices \subseteq accepted
    BY DEF RegInv
  <1>b. /\ MsgId \in Nat /\ request \in Seq(Request)
        /\ pending \in [Ids -> 0 .. Len(request)]
        /\ toMaster \in Seq(ToMaster) /\ toClient \in Seq(ToClient)
        /\ MsgId' \in Nat /\ request' \in Seq(Request)
    BY DEF TypeOK
  <1>1. /\ Later(MsgId, request, pending, MsgId', request', pending')
        /\ FiledLow' /\ NeverDisconnected'
    BY <1>a, LaterStep
  <1>2. MasterChannel'
    <2>1. MasterAdds
      BY <1>a, MasterAddsStep
    <2>2. ASSUME NEW j \in 1 .. Len(toMaster')
          PROVE  MasterMsgOK(toMaster'[j], MsgId', request', pending')
      <3>1. CASE \E i \in 1 .. Len(toMaster) : toMaster'[j] = toMaster[i]
        <4>1. PICK i \in 1 .. Len(toMaster) : toMaster'[j] = toMaster[i]
          BY <3>1
        <4>2. toMaster[i] \in ToMaster /\ MasterMsgOK(toMaster[i], MsgId, request, pending)
          BY <1>a, <1>b DEF MasterChannel
        <4>3. MasterMsgOK(toMaster[i], MsgId', request', pending')
          BY <1>b, <1>1, <4>2, MasterMsgKept
        <4>4. QED
          BY <4>1, <4>3
      <3>2. QED
        BY <2>1, <3>1 DEF MasterAdds
    <2>3. QED
      BY <2>2 DEF MasterChannel
  <1>3. ClientChannel'
    <2>1. ClientAdds
      BY <1>a, ClientAddsStep
    <2>2. ASSUME NEW j \in 1 .. Len(toClient')
          PROVE  ClientMsgOK(toClient'[j], MsgId', request', pending', accepted')
      <3>1. CASE accepted \subseteq accepted'
                 /\ \E i \in 1 .. Len(toClient) : toClient'[j] = toClient[i]
        <4>1. PICK i \in 1 .. Len(toClient) : toClient'[j] = toClient[i]
          BY <3>1
        <4>2. toClient[i] \in ToClient
              /\ ClientMsgOK(toClient[i], MsgId, request, pending, accepted)
          BY <1>a, <1>b DEF ClientChannel
        <4>3. ClientMsgOK(toClient[i], MsgId', request', pending', accepted')
          BY <1>b, <1>1, <3>1, <4>2, ClientMsgKept
        <4>4. QED
          BY <4>1, <4>3
      <3>2. QED
        BY <2>1, <3>1 DEF ClientAdds
    <2>3. QED
      BY <2>2 DEF ClientChannel
  <1>4. mDevices' \subseteq accepted'
    <2>1. CASE UNCHANGED <<accepted, mDevices>>
      BY <1>a, <2>1
    <2>2. CASE AckOfRequest
      <3>1. accepted' = accepted /\ mDevices' = mDevices \cup {request[Asked].device}
        BY <2>2 DEF AckOfRequest, masterVars
      <3>2. QED
        BY <1>a, <2>2, <3>1, AckedIsAccepted
    <2>3. CASE MasterAccepts
      BY <1>a, <2>3 DEF MasterAccepts, deviceVars
    <2>4. CASE GoOffline
      BY <2>4 DEF GoOffline
    <2>5. QED
      BY <2>1, <2>2, <2>3, <2>4, SetsStep
  <1>5. QED
    BY <1>1, <1>2, <1>3, <1>4 DEF RegInv

\* At the start nothing is filed, under way or registered.
LEMMA RegInit == Init => RegInv
  BY DEF Init, RegInv, FiledLow, NeverDisconnected, MasterChannel, ClientChannel

\* As long as IDs have not wrapped, a device is registered only if the master
\* acknowledged it on this connection, through challenges, repeated requests, late
\* and unasked Acks, expiries and disconnects.
THEOREM RegisteredWereAcknowledged == UiThread /\ Spec /\ []NoWrap => []OnlyAcknowledged
  <1> SUFFICES ASSUME UiThread PROVE Spec /\ []NoWrap => []OnlyAcknowledged
    OBVIOUS
  <1>1. TypeOK /\ TypeOK' /\ RegInv /\ [Next]_vars /\ NoWrap' => RegInv'
    BY RegStep DEF NoWrap
  <1>2. RegInv => OnlyAcknowledged
    BY DEF RegInv, OnlyAcknowledged
  <1>3. QED
    BY <1>1, <1>2, RegInit, TypeCorrect, PTL DEF Spec


\* Handlers that only change the state or the ID of a request ask for nothing new.
LEMMA AsksKept ==
    ASSUME request \in Seq(Request), request' \in Seq(Request),
           Len(request') = Len(request),
           \A k \in 1 .. Len(request) : request'[k].device = request[k].device
    PROVE  Asks' = Asks
  <1>1. Asks = {request[k].device : k \in 1 .. Len(request)}
    BY DEF Asks
  <1>2. Asks' = {request'[k].device : k \in 1 .. Len(request')}
    BY DEF Asks
  <1>3. QED
    BY <1>1, <1>2

\* Filing a request asks for its device.
LEMMA AsksMore ==
    ASSUME request \in Seq(Request), request' \in Seq(Request), NEW d,
           Len(request') = Len(request) + 1,
           \A k \in 1 .. Len(request) : request'[k].device = request[k].device,
           request'[Len(request) + 1].device = d
    PROVE  Asks' = Asks \cup {d}
  <1>1. Asks = {request[k].device : k \in 1 .. Len(request)}
    BY DEF Asks
  <1>2. Asks' = {request'[k].device : k \in 1 .. Len(request')}
    BY DEF Asks
  <1>3. PICK n \in Nat : n = Len(request)
    OBVIOUS
  <1>4. 1 .. Len(request') = (1 .. n) \cup {n + 1}
    BY <1>3
  <1>5. QED
    BY <1>1, <1>2, <1>3, <1>4

\* What is registered, acknowledged and asked for, seen as the registry.
regVars == <<Asks, accepted, mDevices>>

\* Every step of the manager, its connection and the master is a step of the
\* registry, or none.
LEMMA StepRegisters ==
    ASSUME TypeOK, TypeOK', RegInv, UiThread, [Next]_vars, MsgId' < IdMod
    PROVE  Registry!Next \/ UNCHANGED regVars
  <1> USE DEF masterVars, deviceVars, requestVars
  <1>a. FiledLow /\ NeverDisconnected /\ MasterChannel /\ ClientChannel
    BY DEF RegInv
  <1>b. /\ MsgId \in Nat /\ request \in Seq(Request)
        /\ pending \in [Ids -> 0 .. Len(request)] /\ request' \in Seq(Request)
    BY DEF TypeOK
  <1>1. CASE AckOfRequest
    <2>1. Asked \in 1 .. Len(request)
      BY <1>1, AskedType DEF AckOfRequest
    <2>2. request' = [request EXCEPT ![Asked].state = "Connected"]
      BY <1>1 DEF AckOfRequest
    <2>3. Len(request') = Len(request)
      BY <1>b, <2>1, <2>2, RequestUpdate DEF State
    <2>4. \A k \in 1 .. Len(request) : request'[k].device = request[k].device
      BY <1>b, <2>1, <2>2, DeviceKept
    <2>5. Asks' = Asks
      BY <1>b, <2>3, <2>4, AsksKept
    <2>6. accepted' = accepted /\ mDevices' = mDevices \cup {request[Asked].device}
      BY <1>1 DEF AckOfRequest
    <2>7. Registry!Register(request[Asked].device) /\ request[Asked].device \in Devices
      BY <1>a, <1>1, <2>5, <2>6, AckedIsAccepted DEF Registry!Register
    <2>8. QED
      BY <2>7 DEF Registry!Next
  <1>2. CASE ChallengeRequest(MsgId)
    <2>1. Asked \in 0 .. Len(request)
      BY <1>2, AskedType DEF ChallengeRequest
    <2>2. NextId(MsgId) \in Ids
      BY <1>b, WindowId
    <2>3. /\ Len(request') = Len(request)
          /\ \A k \in 1 .. Len(request) : request'[k].device = request[k].device
      <3>1. CASE Asked = 0
        BY <1>2, <3>1 DEF ChallengeRequest
      <3>2. CASE Asked # 0
        <4>1. request' = [request EXCEPT ![Asked].state = "Unverified",
                                         ![Asked].msgId = NextId(MsgId)]
          BY <1>2, <3>2 DEF ChallengeRequest
        <4>2. Asked \in 1 .. Len(request) /\ "Unverified" \in State
          BY <2>1, <3>2 DEF State
        <4>3. Len(request') = Len(request)
          BY <1>b, <2>2, <4>1, <4>2, RequestUpdate
        <4>4. \A k \in 1 .. Len(request) : request'[k].device = request[k].device
          BY <1>b, <4>1, <4>2, DeviceKept
        <4>5. QED
          BY <4>3, <4>4
      <3>3. QED
        BY <3>1, <3>2
    <2>4. Asks' = Asks
      BY <1>b, <2>3, AsksKept
    <2>5. QED
      BY <1>2, <2>4 DEF ChallengeRequest, regVars
  <1>3. ASSUME NEW d \in Devices, NEW rq \in Seq(Request), NEW pd \in [Ids -> 0 .. Len(rq)],
               NEW ca, FileRequest(MsgId, d, rq, pd, ca), Len(rq) = Len(request),
               \A k \in 1 .. Len(rq) : rq[k].device = request[k].device,
               \A id \in Ids : pd[id] # 0 => id <= MsgId,
               UNCHANGED <<accepted, mDevices>>
        PROVE  Registry!Next
    <2>1. MsgId' = MsgId + 1 /\ FileRequest(MsgId, d, rq, pd, ca)
      BY <1>3 DEF FileRequest, Increment
    <2>2. MsgId + 1 < IdMod
      BY <2>1
    <2>3. \A id \in Ids : pd[id] # 0 => id <= MsgId
      BY <1>3
    <2>4. /\ Len(request') = Len(rq) + 1
          /\ \A k \in 1 .. Len(rq) : request'[k] = rq[k]
          /\ request'[Len(rq) + 1].device = d
      BY <1>b, <2>1, <2>2, <2>3, FileRequestLater
    <2>5. /\ Len(request') = Len(request) + 1
          /\ \A k \in 1 .. Len(request) : request'[k].device = request[k].device
          /\ request'[Len(request) + 1].device = d
      BY <1>3, <2>4
    <2>6. Asks' = Asks \cup {d}
      BY <1>b, <2>5, AsksMore
    <2>7. Registry!Ask(d)
      BY <1>3, <2>6 DEF Registry!Ask
    <2>8. QED
      BY <2>7 DEF Registry!Next
  <1>4. CASE ChallengeAck(MsgId)
    <2> DEFINE rq == [request EXCEPT ![Asked].state = "Connected"]
               pd == [pending EXCEPT ![Head(toClient).id] = 0]
               ca == cached \ {Asked}
    <2>1. Asked \in 1 .. Len(request) /\ Head(toClient).id \in Ids
          /\ request[Asked].device \in Devices
      BY <1>4, AskedType DEF ChallengeAck
    <2>2. rq \in Seq(Request) /\ Len(rq) = Len(request)
      BY <1>b, <2>1, RequestUpdate DEF State
    <2>3. pd \in [Ids -> 0 .. Len(rq)] /\ \A id \in Ids : pd[id] # 0 => id <= MsgId
      BY <1>a, <1>b, <2>1, <2>2 DEF FiledLow
    <2>4. \A k \in 1 .. Len(request) : rq[k].device = request[k].device
      BY <1>b, <2>1, DeviceKept
    <2>5. FileRequest(MsgId, request[Asked].device, rq, pd, ca) \/ request' = rq
      BY <1>4 DEF ChallengeAck
    <2>6. UNCHANGED <<accepted, mDevices>>
      BY <1>4 DEF ChallengeAck
    <2> HIDE DEF rq, pd, ca
    <2>7. CASE FileRequest(MsgId, request[Asked].device, rq, pd, ca)
      BY <1>3, <2>1, <2>2, <2>3, <2>4, <2>6, <2>7
    <2>8. CASE request' = rq
      <3>1. Asks' = Asks
        BY <1>b, <2>2, <2>4, <2>8, AsksKept
      <3>2. QED
        BY <2>6, <3>1 DEF regVars
    <2>9. QED
      BY <2>5, <2>7, <2>8
  <1>5. ASSUME NEW d \in Devices, CreateDeviceInfo(MsgId, d)
        PROVE  Registry!Next
    <2>1. FileRequest(MsgId, d, request, pending, cached) /\ UNCHANGED <<accepted, mDevices>>
      BY <1>5 DEF CreateDeviceInfo
    <2>2. QED
      BY <1>a, <1>b, <1>3, <2>1 DEF FiledLow
  <1>6. CASE UNCHANGED <<request, pending>>
    <2>1. Asks' = Asks
      BY <1>6 DEF Asks
    <2>2. CASE UNCHANGED <<accepted, mDevices>>
      BY <2>1, <2>2 DEF regVars
    <2>3. CASE MasterAccepts
      <3> DEFINE m == Head(toMaster)
      <3>1. m \in ToMaster /\ m.type = "DeviceInfo" /\ MasterMsgOK(m, MsgId, request, pending)
        BY <1>a, <2>3, TakenOK DEF MasterAccepts
      <3>2. PICK k \in 1 .. Len(request) : request[k].device = m.device
        BY <3>1 DEF MasterMsgOK
      <3>3. m.device \in Asks /\ m.device \in Devices
        <4>1. k \in DOMAIN request /\ request[k] \in Request
          BY <1>b
        <4>2. QED
          BY <3>2, <4>1 DEF Asks, Request
      <3>4. accepted' = accepted \cup {m.device} /\ mDevices' = mDevices
        BY <2>3 DEF MasterAccepts
      <3>5. Registry!Acknowledge(m.device)
        BY <2>1, <3>3, <3>4 DEF Registry!Acknowledge
      <3>6. QED
        BY <3>3, <3>5 DEF Registry!Next
    <2>4. CASE GoOffline
      <3>1. accepted' = {} /\ mDevices' = {}
        BY <2>4 DEF GoOffline
      <3>2. QED
        BY <2>1, <3>1 DEF Registry!Next, Registry!Lose
    <2>5. QED
      BY <1>1, <2>2, <2>3, <2>4, SetsStep
  <1>7. QED
    BY <1>1, <1>2, <1>4, <1>5, <1>6, WindowLoads, RequestsKept

\* As long as IDs have not wrapped the manager implements the registry: the initial
\* states agree and every step is one of the registry or leaves it alone.
THEOREM ImplementsRegistry == UiThread /\ Spec /\ []NoWrap => IsRegistry
  <1> SUFFICES ASSUME UiThread PROVE Spec /\ []NoWrap => IsRegistry
    OBVIOUS
  <1>1. Init => Registry!Init
    BY DEF Init, Registry!Init, Asks
  <1>2. TypeOK /\ TypeOK' /\ RegInv /\ [Next]_vars /\ NoWrap' => RegInv'
    BY RegStep DEF NoWrap
  <1>3. TypeOK /\ TypeOK' /\ RegInv /\ [Next]_vars /\ NoWrap'
           => [Registry!Next]_regVars
    BY StepRegisters DEF NoWrap
  <1>4. QED
    BY <1>1, <1>2, <1>3, RegInit, TypeCorrect, PTL DEF Spec, IsRegistry, Registry!Spec, regVars

-----------------------------------------------------------------------------
(***************************************************************************)
(* No accepted registration is lost.                                       *)
(***************************************************************************)
\* The messages of the master that carry the ID of the one they answer.
HasId(m) == m.type \in {"Ack", "ChallengeRequest", "ChallengeAck"}

\* An ID is on one message under way: the one of the client that drew it, or the
\* answer to that.
OneBearer(tm, tc) ==
    /\ \A i, j \in 1 .. Len(tm) : i # j => tm[i].id # tm[j].id
    /\ \A i, j \in 1 .. Len(tc) :
          i # j /\ HasId(tc[i]) /\ HasId(tc[j]) => tc[i].id # tc[j].id
    /\ \A i \in 1 .. Len(tm), j \in 1 .. Len(tc) :
          HasId(tc[j]) => tm[i].id # tc[j].id

\* A registration under way to the master has its request filed.
RegistrationFiled ==
    \A i \in 1 .. Len(toMaster) :
        toMaster[i].type = "DeviceInfo" => pending[toMaster[i].id] # 0

\* The inductive invariant.
KeepInv ==
    /\ RegInv /\ OneBearer(toMaster, toClient)
    /\ RegistrationFiled /\ NoAcceptedLost

-----------------------------------------------------------------------------
(***************************************************************************)
(* What a step may do to the two channels.                                 *)
(***************************************************************************)

\* The manager reads no message or the next one; an Ack that finds its request is
\* handled by AckOfRequest.
ClientTakes ==
    \/ toClient' = toClient
    \/ /\ toClient # <<>> /\ toClient' = Tail(toClient)
       /\ Head(toClient).type = "Ack" /\ Asked # 0 => AckOfRequest

Quiet == toMaster' = toMaster /\ ClientTakes

\* A message goes to the master under a fresh ID; a registration is filed under it.
Sends ==
    /\ MsgId' = MsgId + 1 /\ ClientTakes
    /\ \E m \in ToMaster :
          /\ m.id = NextId(MsgId) /\ toMaster' = Append(toMaster, m)
          /\ m.type = "DeviceInfo" => pending'[m.id] # 0

\* The master takes a message and may answer it.
Replies ==
    /\ toMaster # <<>> /\ toMaster' = Tail(toMaster)
    /\ \/ toClient' = toClient
       \/ \E m \in ToClient : /\ HasId(m) => m.id = Head(toMaster).id
                              /\ toClient' = Append(toClient, m)

Tells ==
    /\ toMaster' = toMaster
    /\ \E m \in ToClient : ~HasId(m) /\ toClient' = Append(toClient, m)

Cut == toMaster' = <<>> /\ toClient' = <<>> /\ (accepted' = {} \/ IsDisposed')

ChannelShape ==
    /\ IsDisposed => IsDisposed'
    /\ Quiet \/ Sends \/ Replies \/ Tells \/ Cut

\* A message that is no registration is sent under a fresh ID, or dropped offline.
LEMMA OtherSends ==
    ASSUME TypeOK, MsgId' = MsgId + 1, ClientTakes,
           NEW type \in {"ChallengeResponse", "Other"},
           toMaster' = Sent([type |-> type, id |-> NextId(MsgId)])
    PROVE  Quiet \/ Sends
  <1> DEFINE m == [type |-> type, id |-> NextId(MsgId)]
  <1>1. NextId(MsgId) \in Ids
    BY TypeParts, WindowId DEF RequestType
  <1>2. m \in ToMaster /\ m.id = NextId(MsgId) /\ m.type # "DeviceInfo"
    BY <1>1 DEF ToMaster
  <1>3. toMaster' = Append(toMaster, m) \/ toMaster' = toMaster
    BY DEF Sent
  <1> HIDE DEF m
  <1>4. QED
    BY <1>2, <1>3 DEF Quiet, Sends

\* So is a registration, and its request is filed.
LEMMA RequestSends ==
    ASSUME TypeOK, MsgId' < IdMod, ClientTakes,
           NEW d \in Devices, NEW rq \in Seq(Request),
           NEW pd \in [Ids -> 0 .. Len(rq)], NEW ca,
           FileRequest(MsgId, d, rq, pd, ca),
           \A id \in Ids : pd[id] # 0 => id <= MsgId
    PROVE  Quiet \/ Sends
  <1> DEFINE m == [device |-> d, type |-> "DeviceInfo", id |-> NextId(MsgId)]
  <1>1. MsgId' = MsgId + 1 /\ toMaster' = Sent(m) /\ MsgId \in Nat
    BY TypeParts DEF FileRequest, Increment, RequestType
  <1>2. NextId(MsgId) = MsgId + 1 /\ NextId(MsgId) \in Ids
    BY <1>1, FreshId
  <1>3. MsgId + 1 < IdMod
    BY <1>1
  <1>4. pending' = [pd EXCEPT ![NextId(MsgId)] = Len(rq) + 1]
    BY <1>1, <1>3, FileRequestLater
  <1>5. PICK n \in Nat : n = Len(rq)
    OBVIOUS
  <1>6. pending'[NextId(MsgId)] # 0
    BY <1>2, <1>4, <1>5
  <1>7. m \in ToMaster /\ m.id = NextId(MsgId)
    BY <1>2 DEF ToMaster
  <1>8. toMaster' = Append(toMaster, m) \/ toMaster' = toMaster
    BY <1>1 DEF Sent
  <1> HIDE DEF m
  <1>9. QED
    BY <1>1, <1>6, <1>7, <1>8 DEF Quiet, Sends

\* Every step is one of these.
LEMMA ShapeStep ==
    ASSUME TypeOK, FiledLow, UiThread, [Next]_vars, MsgId' < IdMod
    PROVE  ChannelShape
  <1> USE DEF channels, clientVars
  <1>a. /\ MsgId \in Nat /\ request \in Seq(Request)
        /\ pending \in [Ids -> 0 .. Len(request)]
    BY TypeParts DEF RequestType
  <1>1. CASE AckOfRequest
    <2>1. ClientTakes /\ UNCHANGED <<toMaster, IsDisposed>>
      BY <1>1 DEF AckOfRequest, Receive, ClientTakes, Asked
    <2>2. QED
      BY <2>1 DEF ChannelShape, Quiet
  <1>2. CASE AckUnknown
    <2>1. ClientTakes /\ UNCHANGED <<toMaster, IsDisposed>>
      BY <1>2 DEF AckUnknown, Receive, ClientTakes, Asked
    <2>2. QED
      BY <2>1 DEF ChannelShape, Quiet
  <1>3. CASE ChallengeRequest(MsgId)
    <2>1. ClientTakes /\ UNCHANGED IsDisposed
      BY <1>3 DEF ChallengeRequest, Receive, ClientTakes
    <2>2. /\ MsgId' = MsgId + 1
          /\ toMaster' = Sent([type |-> "ChallengeResponse", id |-> NextId(MsgId)])
      BY <1>3 DEF ChallengeRequest, Increment
    <2>3. Quiet \/ Sends
      BY <2>1, <2>2, OtherSends
    <2>4. QED
      BY <2>1, <2>3 DEF ChannelShape
  <1>4. CASE ChallengeAck(MsgId)
    <2> DEFINE rq == [request EXCEPT ![Asked].state = "Connected"]
               pd == [pending EXCEPT ![Head(toClient).id] = 0]
               ca == cached \ {Asked}
    <2>1. ClientTakes /\ UNCHANGED IsDisposed
      BY <1>4 DEF ChallengeAck, Receive, ClientTakes
    <2>2. Asked \in 1 .. Len(request) /\ Head(toClient).id \in Ids
          /\ request[Asked].device \in Devices
      BY <1>4, AskedType DEF ChallengeAck
    <2>3. rq \in Seq(Request) /\ Len(rq) = Len(request)
      BY <1>a, <2>2, RequestUpdate DEF State
    <2>4. pd \in [Ids -> 0 .. Len(rq)] /\ \A id \in Ids : pd[id] # 0 => id <= MsgId
      BY <1>a, <2>2, <2>3 DEF FiledLow
    <2>5. FileRequest(MsgId, request[Asked].device, rq, pd, ca) \/ toMaster' = toMaster
      BY <1>4 DEF ChallengeAck
    <2> HIDE DEF rq, pd, ca
    <2>6. Quiet \/ Sends
      BY <2>1, <2>2, <2>3, <2>4, <2>5, RequestSends DEF Quiet
    <2>7. QED
      BY <2>1, <2>6 DEF ChannelShape
  <1>5. CASE ChallengeAckUnknown
    <2>1. ClientTakes /\ UNCHANGED <<toMaster, IsDisposed>>
      BY <1>5 DEF ChallengeAckUnknown, Receive, ClientTakes, Asked
    <2>2. QED
      BY <2>1 DEF ChannelShape, Quiet
  <1>6. CASE Ping(MsgId)
    <2>1. ClientTakes /\ UNCHANGED IsDisposed
      BY <1>6 DEF Ping, Receive, ClientTakes
    <2>2. SendOther(MsgId) \/ toMaster' = toMaster
      BY <1>6 DEF Ping
    <2>3. Quiet \/ Sends
      BY <2>1, <2>2, OtherSends DEF SendOther, Increment, Quiet
    <2>4. QED
      BY <2>1, <2>3 DEF ChannelShape
  <1>7. CASE DeviceInfo
    <2>1. ClientTakes /\ UNCHANGED <<toMaster, IsDisposed>>
      BY <1>7 DEF DeviceInfo, Receive, ClientTakes, Asked
    <2>2. QED
      BY <2>1 DEF ChannelShape, Quiet
  <1>8. CASE Answer(MsgId)
    <2>1. ClientTakes /\ UNCHANGED IsDisposed
      BY <1>8 DEF Answer, Receive, ClientTakes
    <2>2. SendOther(MsgId)
      BY <1>8 DEF Answer
    <2>3. Quiet \/ Sends
      BY <2>1, <2>2, OtherSends DEF SendOther, Increment
    <2>4. QED
      BY <2>1, <2>3 DEF ChannelShape
  <1>9. CASE Event
    <2>1. ClientTakes /\ UNCHANGED <<toMaster, IsDisposed>>
      BY <1>9 DEF Event, Receive, ClientTakes, Asked
    <2>2. QED
      BY <2>1 DEF ChannelShape, Quiet
  <1>10. ASSUME NEW u \in updating, UpdateDeviceInfo(MsgId, u) PROVE ChannelShape
    <2>1. ClientTakes /\ UNCHANGED IsDisposed
      BY <1>10 DEF UpdateDeviceInfo, ClientTakes
    <2>2. SendOther(MsgId)
      BY <1>10 DEF UpdateDeviceInfo
    <2>3. Quiet \/ Sends
      BY <2>1, <2>2, OtherSends DEF SendOther, Increment
    <2>4. QED
      BY <2>1, <2>3 DEF ChannelShape
  <1>11. ASSUME NEW u \in updating, DeviceOnline(u) PROVE ChannelShape
    <2>1. UNCHANGED <<toMaster, toClient, IsDisposed>>
      BY <1>11 DEF DeviceOnline
    <2>2. QED
      BY <2>1 DEF ChannelShape, Quiet, ClientTakes
  <1>12. ASSUME NEW u \in updating, UpdateThrows(u) PROVE ChannelShape
    <2>1. UNCHANGED <<toMaster, toClient, IsDisposed>>
      BY <1>12 DEF UpdateThrows
    <2>2. QED
      BY <2>1 DEF ChannelShape, Quiet, ClientTakes
  <1>13. ASSUME NEW t \in cached, RequestExpires(t) PROVE ChannelShape
    <2>1. UNCHANGED <<toMaster, toClient, IsDisposed>>
      BY <1>13 DEF RequestExpires
    <2>2. QED
      BY <2>1 DEF ChannelShape, Quiet, ClientTakes
  <1>14. ASSUME NEW d \in pinged, PingExpires(d) PROVE ChannelShape
    <2>1. UNCHANGED <<toMaster, toClient, IsDisposed>>
      BY <1>14 DEF PingExpires
    <2>2. QED
      BY <2>1 DEF ChannelShape, Quiet, ClientTakes
  <1>15. CASE CacheEmptied
    <2>1. UNCHANGED <<toMaster, toClient, IsDisposed>>
      BY <1>15 DEF CacheEmptied
    <2>2. QED
      BY <2>1 DEF ChannelShape, Quiet, ClientTakes
  <1>16. ASSUME NEW d \in Devices, CreateDeviceInfo(MsgId, d) PROVE ChannelShape
    <2>1. FileRequest(MsgId, d, request, pending, cached) /\ ClientTakes /\ UNCHANGED IsDisposed
      BY <1>16 DEF CreateDeviceInfo, ClientTakes
    <2>2. Quiet \/ Sends
      BY <1>a, <2>1, RequestSends DEF FiledLow
    <2>3. QED
      BY <2>1, <2>2 DEF ChannelShape
  <1>17. CASE SendMessage(MsgId)
    <2>1. ClientTakes /\ UNCHANGED IsDisposed
      BY <1>17 DEF SendMessage, ClientTakes
    <2>2. SendOther(MsgId)
      BY <1>17 DEF SendMessage
    <2>3. Quiet \/ Sends
      BY <2>1, <2>2, OtherSends DEF SendOther, Increment
    <2>4. QED
      BY <2>1, <2>3 DEF ChannelShape
  <1>18. CASE Dispose
    BY <1>18 DEF Dispose, ChannelShape, Cut
  <1>19. CASE GoOffline
    BY <1>19 DEF GoOffline, ChannelShape, Cut
  <1>20. CASE GoOnline
    <2>1. UNCHANGED <<toMaster, toClient, IsDisposed>>
      BY <1>20 DEF GoOnline
    <2>2. QED
      BY <2>1 DEF ChannelShape, Quiet, ClientTakes
  <1>21. CASE MasterAccepts
    <2> DEFINE m == [type |-> "Ack", id |-> Head(toMaster).id]
    <2>1. /\ toMaster # <<>> /\ toMaster' = Tail(toMaster) /\ UNCHANGED IsDisposed
          /\ toClient' = Append(toClient, m)
      BY <1>21 DEF MasterAccepts, MasterTakes
    <2>2. m \in ToClient /\ m.id = Head(toMaster).id
      BY <1>21, TakenType DEF MasterAccepts, ToClient
    <2> HIDE DEF m
    <2>3. QED
      BY <2>1, <2>2 DEF ChannelShape, Replies
  <1>22. CASE MasterChallenges
    <2> DEFINE m == [type |-> "ChallengeRequest", id |-> Head(toMaster).id]
    <2>1. /\ toMaster # <<>> /\ toMaster' = Tail(toMaster) /\ UNCHANGED IsDisposed
          /\ toClient' = Append(toClient, m)
      BY <1>22 DEF MasterChallenges, MasterTakes
    <2>2. m \in ToClient /\ m.id = Head(toMaster).id
      BY <1>22, TakenType DEF MasterChallenges, ToClient
    <2> HIDE DEF m
    <2>3. QED
      BY <2>1, <2>2 DEF ChannelShape, Replies
  <1>23. CASE MasterIgnores
    BY <1>23 DEF MasterIgnores, MasterTakes, ChannelShape, Replies
  <1>24. CASE MasterAuthenticates
    <2>1. PICK ok \in BOOLEAN :
             toClient' = Append(toClient, [type |-> "ChallengeAck",
                                           id |-> Head(toMaster).id, ok |-> ok])
      BY <1>24 DEF MasterAuthenticates
    <2> DEFINE m == [type |-> "ChallengeAck", id |-> Head(toMaster).id, ok |-> ok]
    <2>2. toMaster # <<>> /\ toMaster' = Tail(toMaster) /\ UNCHANGED IsDisposed
      BY <1>24 DEF MasterAuthenticates, MasterTakes
    <2>3. m \in ToClient /\ m.id = Head(toMaster).id
      BY <1>24, TakenType DEF MasterAuthenticates, ToClient
    <2>4. toClient' = Append(toClient, m)
      BY <2>1
    <2> HIDE DEF m
    <2>5. QED
      BY <2>2, <2>3, <2>4 DEF ChannelShape, Replies
  <1>25. CASE MasterTakesOther
    <2> DEFINE m == [type |-> "Ack", id |-> Head(toMaster).id]
    <2>1. /\ toMaster # <<>> /\ toMaster' = Tail(toMaster) /\ UNCHANGED IsDisposed
          /\ toClient' = toClient \/ toClient' = Append(toClient, m)
      BY <1>25 DEF MasterTakesOther, MasterTakes
    <2>2. m \in ToClient /\ m.id = Head(toMaster).id
      BY <1>25, TakenType DEF MasterTakesOther, ToClient
    <2> HIDE DEF m
    <2>3. QED
      BY <2>1, <2>2 DEF ChannelShape, Replies
  <1>26. ASSUME NEW d \in Devices, MasterPings(d) PROVE ChannelShape
    <2> DEFINE m == [device |-> d, type |-> "Ping"]
    <2>1. UNCHANGED <<toMaster, IsDisposed>> /\ toClient' = Append(toClient, m)
      BY <1>26 DEF MasterPings
    <2>2. m \in ToClient /\ ~HasId(m)
      BY DEF ToClient, HasId
    <2> HIDE DEF m
    <2>3. QED
      BY <2>1, <2>2 DEF ChannelShape, Tells
  <1>27. CASE MasterChallengesOther
    <2> DEFINE m == [type |-> "ChallengeRequest", id |-> Head(toMaster).id]
    <2>1. /\ toMaster # <<>> /\ toMaster' = Tail(toMaster) /\ UNCHANGED IsDisposed
          /\ toClient' = Append(toClient, m)
      BY <1>27 DEF MasterChallengesOther, MasterTakes
    <2>2. m \in ToClient /\ m.id = Head(toMaster).id
      BY <1>27, TakenType DEF MasterChallengesOther, ToClient
    <2> HIDE DEF m
    <2>3. QED
      BY <2>1, <2>2 DEF ChannelShape, Replies
  <1>28. ASSUME NEW t \in {"DeviceInfo", "Request", "Event"}, MasterTells(t) PROVE ChannelShape
    <2> DEFINE m == [type |-> t]
    <2>1. UNCHANGED <<toMaster, IsDisposed>> /\ toClient' = Append(toClient, m)
      BY <1>28 DEF MasterTells
    <2>2. m \in ToClient /\ ~HasId(m)
      BY <1>28 DEF ToClient, HasId
    <2> HIDE DEF m
    <2>3. QED
      BY <2>1, <2>2 DEF ChannelShape, Tells
  <1>29. CASE UNCHANGED vars
    BY <1>29 DEF vars, ChannelShape, Quiet, ClientTakes
  <1>30. QED
    BY <1>1, <1>2, <1>3, <1>4, <1>5, <1>6, <1>7, <1>8, <1>9, <1>10, <1>11, <1>12,
       <1>13, <1>14, <1>15, <1>16, <1>17, <1>18, <1>19, <1>20, <1>21, <1>22, <1>23,
       <1>24, <1>25, <1>26, <1>27, <1>28, <1>29, WindowLoads
       DEF Next, OnDataReceived, Continuation, Cache, Users, Network, MasterReplies,
       MasterSpeaks

-----------------------------------------------------------------------------
(***************************************************************************)
(* One message per ID.                                                     *)
(***************************************************************************)

\* Reading a message leaves one bearer fewer.
LEMMA BearersTake ==
    ASSUME NEW tm \in Seq(ToMaster), NEW tc \in Seq(ToClient), OneBearer(tm, tc),
           tc # <<>>
    PROVE  OneBearer(tm, Tail(tc))
  <1>1. /\ Len(Tail(tc)) = Len(tc) - 1 /\ Len(tc) \in Nat
        /\ \A i \in 1 .. Len(Tail(tc)) : Tail(tc)[i] = tc[i + 1] /\ i + 1 \in 1 .. Len(tc)
    OBVIOUS
  <1>2. QED
    BY <1>1, SMTT(30) DEF OneBearer

\* A message under an ID no other carries.
LEMMA BearersSend ==
    ASSUME NEW tm \in Seq(ToMaster), NEW tc \in Seq(ToClient), OneBearer(tm, tc),
           NEW m \in ToMaster,
           \A i \in 1 .. Len(tm) : tm[i].id # m.id,
           \A i \in 1 .. Len(tc) : HasId(tc[i]) => tc[i].id # m.id
    PROVE  OneBearer(Append(tm, m), tc)
  BY DEF OneBearer

\* A message the master drops, or answers under its ID.
LEMMA BearersReply ==
    ASSUME NEW tm \in Seq(ToMaster), NEW tc \in Seq(ToClient), OneBearer(tm, tc),
           tm # <<>>, NEW m \in ToClient, HasId(m) => m.id = Head(tm).id
    PROVE  OneBearer(Tail(tm), tc) /\ OneBearer(Tail(tm), Append(tc, m))
  BY DEF OneBearer

\* A message of the master that carries no ID.
LEMMA BearersTell ==
    ASSUME NEW tm \in Seq(ToMaster), NEW tc \in Seq(ToClient), OneBearer(tm, tc),
           NEW m \in ToClient, ~HasId(m)
    PROVE  OneBearer(tm, Append(tc, m))
  BY DEF OneBearer

\* So no step puts an ID on a second message.
LEMMA BearerStep ==
    ASSUME TypeOK, RegInv, OneBearer(toMaster, toClient), ChannelShape, MsgId' < IdMod
    PROVE  OneBearer(toMaster', toClient')
  <1>a. MsgId \in Nat /\ toMaster \in Seq(ToMaster) /\ toClient \in Seq(ToClient)
    BY DEF TypeOK
  <1>1. ASSUME ClientTakes PROVE OneBearer(toMaster, toClient')
    BY <1>a, <1>1, BearersTake DEF ClientTakes
  <1>2. CASE Quiet
    BY <1>1, <1>2 DEF Quiet
  <1>3. CASE Sends
    <2>1. PICK m \in ToMaster : m.id = NextId(MsgId) /\ toMaster' = Append(toMaster, m)
      BY <1>3 DEF Sends
    <2>2. NextId(MsgId) = MsgId + 1
      BY <1>a, <1>3, FreshId DEF Sends
    <2>3. ASSUME NEW i \in 1 .. Len(toMaster) PROVE toMaster[i].id # m.id
      <3>1. MasterMsgOK(toMaster[i], MsgId, request, pending) /\ toMaster[i] \in ToMaster
        BY <1>a DEF RegInv, MasterChannel
      <3>2. toMaster[i].id <= MsgId /\ toMaster[i].id \in Nat
        BY <3>1 DEF MasterMsgOK, ToMaster, Ids
      <3>3. QED
        BY <1>a, <2>1, <2>2, <3>2
    <2>4. ASSUME NEW i \in 1 .. Len(toClient), HasId(toClient[i]) PROVE toClient[i].id # m.id
      <3>1. /\ ClientMsgOK(toClient[i], MsgId, request, pending, accepted)
            /\ toClient[i] \in ToClient
        BY <1>a DEF RegInv, ClientChannel
      <3>2. toClient[i].id <= MsgId /\ toClient[i].id \in Nat
        BY <2>4, <3>1 DEF ClientMsgOK, ToClient, Ids, HasId
      <3>3. QED
        BY <1>a, <2>1, <2>2, <3>2
    <2>5. OneBearer(Append(toMaster, m), toClient)
      BY <1>a, <2>3, <2>4, BearersSend
    <2>6. Append(toMaster, m) \in Seq(ToMaster)
      BY <1>a
    <2>7. OneBearer(Append(toMaster, m), toClient')
      BY <1>a, <1>3, <2>5, <2>6, BearersTake DEF Sends, ClientTakes
    <2>8. QED
      BY <2>1, <2>7
  <1>4. CASE Replies
    <2>1. [type |-> "Event"] \in ToClient /\ ~HasId([type |-> "Event"])
      BY DEF ToClient, HasId
    <2>2. OneBearer(Tail(toMaster), toClient)
      BY <1>a, <1>4, <2>1, BearersReply DEF Replies
    <2>3. QED
      BY <1>a, <1>4, <2>2, BearersReply DEF Replies
  <1>5. CASE Tells
    BY <1>a, <1>5, BearersTell DEF Tells
  <1>6. CASE Cut
    BY <1>6 DEF Cut, OneBearer
  <1>7. QED
    BY <1>2, <1>3, <1>4, <1>5, <1>6 DEF ChannelShape

-----------------------------------------------------------------------------
(***************************************************************************)
(* The pending table.                                                      *)
(***************************************************************************)

\* A request leaves the ID it is filed under only when an answer with that ID is read.
LEMMA PendingKept ==
    ASSUME TypeOK, FiledLow, UiThread, [Next]_vars, MsgId' < IdMod,
           NEW id \in Ids, id <= MsgId, pending'[id] # pending[id]
    PROVE  /\ toClient # <<>> /\ toClient' = Tail(toClient)
           /\ HasId(Head(toClient)) /\ Head(toClient).id = id
  <1>a. /\ MsgId \in Nat /\ request \in Seq(Request)
        /\ pending \in [Ids -> 0 .. Len(request)] /\ id \in Nat
    BY DEF TypeOK, Ids
  <1>1. CASE AckOfRequest
    BY <1>1, <1>a DEF AckOfRequest, Receive, HasId
  <1>2. CASE ChallengeRequest(MsgId)
    <2>1. /\ toClient # <<>> /\ toClient' = Tail(toClient) /\ HasId(Head(toClient))
          /\ pending' = Refile(pending, Head(toClient).id, NextId(MsgId)) /\ MsgId' = MsgId + 1
      BY <1>2 DEF ChallengeRequest, Increment, Receive, HasId
    <2>2. NextId(MsgId) = MsgId + 1
      BY <1>a, <2>1, FreshId
    <2>3. id # NextId(MsgId) /\ Head(toClient).id \in Ids
      BY <1>a, <1>2, <2>2, AskedType DEF ChallengeRequest
    <2>4. QED
      BY <1>a, <2>1, <2>3 DEF Refile, TryAdd
  <1>3. CASE ChallengeAck(MsgId)
    <2> DEFINE rq == [request EXCEPT ![Asked].state = "Connected"]
               pd == [pending EXCEPT ![Head(toClient).id] = 0]
               ca == cached \ {Asked}
    <2>1. toClient # <<>> /\ toClient' = Tail(toClient) /\ HasId(Head(toClient))
      BY <1>3 DEF ChallengeAck, Receive, HasId
    <2>2. \/ MsgId' = MsgId + 1 /\ pending' = TryAdd(pd, NextId(MsgId), Len(rq) + 1)
          \/ pending' = pd
      BY <1>3 DEF ChallengeAck, FileRequest, Increment
    <2>3. MsgId' = MsgId + 1 => NextId(MsgId) = MsgId + 1
      BY <1>a, FreshId
    <2>4. pending'[id] = pd[id]
      BY <1>a, <2>2, <2>3 DEF TryAdd
    <2>5. QED
      BY <1>a, <2>1, <2>4
  <1>4. ASSUME NEW d \in Devices, CreateDeviceInfo(MsgId, d) PROVE FALSE
    <2>1. MsgId' = MsgId + 1 /\ pending' = TryAdd(pending, NextId(MsgId), Len(request) + 1)
      BY <1>4 DEF CreateDeviceInfo, FileRequest, Increment
    <2>2. NextId(MsgId) = MsgId + 1
      BY <1>a, <2>1, FreshId
    <2>3. QED
      BY <1>a, <2>1, <2>2 DEF TryAdd
  <1>5. QED
    BY <1>1, <1>2, <1>3, <1>4, WindowLoads, RequestsKept

\* A registration under way keeps its request: no answer with its ID exists yet.
LEMMA FiledStep ==
    ASSUME TypeOK, KeepInv, UiThread, [Next]_vars, MsgId' < IdMod
    PROVE  RegistrationFiled'
  <1>a. /\ MsgId \in Nat /\ toMaster \in Seq(ToMaster) /\ toClient \in Seq(ToClient)
        /\ FiledLow /\ MasterChannel
    BY DEF TypeOK, KeepInv, RegInv
  <1>1. ASSUME NEW i \in 1 .. Len(toMaster), toMaster[i].type = "DeviceInfo"
        PROVE  pending'[toMaster[i].id] # 0
    <2> DEFINE id == toMaster[i].id
    <2>1. MasterMsgOK(toMaster[i], MsgId, request, pending) /\ toMaster[i] \in ToMaster
      BY <1>a DEF MasterChannel
    <2>2. id \in Ids /\ id <= MsgId
      BY <2>1 DEF MasterMsgOK, ToMaster
    <2>3. pending[id] # 0
      BY <1>1 DEF KeepInv, RegistrationFiled
    <2>4. ASSUME toClient # <<>>, HasId(Head(toClient)) PROVE Head(toClient).id # id
      <3>1. 1 \in 1 .. Len(toClient) /\ Head(toClient) = toClient[1]
        BY <1>a, <2>4
      <3>2. QED
        BY <2>4, <3>1 DEF KeepInv, OneBearer
    <2> HIDE DEF id
    <2>5. pending'[id] = pending[id]
      BY <1>a, <2>2, <2>4, PendingKept
    <2>6. QED
      BY <2>3, <2>5 DEF id
  <1>2. ASSUME NEW j \in 1 .. Len(toMaster'), toMaster'[j].type = "DeviceInfo"
        PROVE  pending'[toMaster'[j].id] # 0
    <2>1. ChannelShape
      BY <1>a, ShapeStep
    <2>2. CASE toMaster' = toMaster
      BY <1>1, <1>2, <2>2
    <2>3. CASE Sends
      <3>1. PICK m \in ToMaster : /\ toMaster' = Append(toMaster, m)
                                  /\ m.type = "DeviceInfo" => pending'[m.id] # 0
        BY <2>3 DEF Sends
      <3>2. toMaster'[j] = m \/ \E i \in 1 .. Len(toMaster) : toMaster'[j] = toMaster[i]
        BY <1>a, <3>1
      <3>3. QED
        BY <1>1, <1>2, <3>1, <3>2
    <2>4. CASE Replies
      <3>1. \E i \in 1 .. Len(toMaster) : toMaster'[j] = toMaster[i]
        BY <2>4, TailKeepsMaster DEF Replies
      <3>2. QED
        BY <1>1, <1>2, <3>1
    <2>5. CASE Cut
      BY <2>5 DEF Cut
    <2>6. QED
      BY <2>1, <2>2, <2>3, <2>4, <2>5 DEF ChannelShape, Quiet, Tells
  <1>3. QED
    BY <1>2 DEF RegistrationFiled

-----------------------------------------------------------------------------
(***************************************************************************)
(* The Acks.                                                               *)
(***************************************************************************)

\* Message m is an Ack that finds a request for device d.
Finds(m, rq, pd, d) == m.type = "Ack" /\ pd[m.id] # 0 /\ rq[pd[m.id]].device = d

\* The Ack of a device that is neither registered nor forgotten by this step is still
\* under way and still finds its request.
LEMMA AckKept ==
    ASSUME TypeOK, KeepInv, UiThread, [Next]_vars, MsgId' < IdMod, ~IsDisposed',
           accepted' # {},
           NEW d, AckUnderWay(d), d \notin mDevices'
    PROVE  AckUnderWay(d)'
  <1>a. /\ MsgId \in Nat /\ toMaster \in Seq(ToMaster) /\ toClient \in Seq(ToClient)
        /\ request \in Seq(Request) /\ pending \in [Ids -> 0 .. Len(request)]
        /\ FiledLow /\ NeverDisconnected /\ ClientChannel
    BY DEF TypeOK, KeepInv, RegInv
  <1>1. PICK i \in 1 .. Len(toClient) : Finds(toClient[i], request, pending, d)
    BY <1>a, SMTT(30) DEF AckUnderWay, Finds
  <1> DEFINE id == toClient[i].id
             k  == pending[id]
  <1>2. /\ ClientMsgOK(toClient[i], MsgId, request, pending, accepted)
        /\ toClient[i] \in ToClient /\ toClient[i].type = "Ack" /\ HasId(toClient[i])
    BY <1>a, <1>1 DEF ClientChannel, Finds, HasId
  <1>3. id \in Ids /\ id <= MsgId
    BY <1>2 DEF ClientMsgOK, ToClient
  <1>4. k \in 1 .. Len(request) /\ request[k].device = d
    BY <1>a, <1>1, <1>3 DEF Finds
  <1>5. Later(MsgId, request, pending, MsgId', request', pending')
    BY <1>a, LaterStep
  <1>6. k \in 1 .. Len(request') /\ request'[k].device = d
    BY <1>4, <1>5 DEF Later
  \* It is not the message read now: that would register the device.
  <1>7. ASSUME toClient # <<>>, toClient' = Tail(toClient) PROVE i # 1
    <2> SUFFICES ASSUME i = 1 PROVE FALSE
      OBVIOUS
    <2>1. Head(toClient) = toClient[i]
      BY <1>a, <1>7
    <2>2. Asked = k /\ k # 0 /\ Head(toClient).type = "Ack"
      BY <1>2, <1>4, <2>1 DEF Asked
    <2>3. ChannelShape
      BY <1>a, ShapeStep
    <2>4. Len(toClient') = Len(toClient) - 1 /\ Len(toClient) \in Nat \ {0}
      BY <1>a, <1>7
    <2>5. ASSUME NEW m, toClient' = Append(toClient, m) PROVE FALSE
      <3>1. Len(toClient') = Len(toClient) + 1
        BY <1>a, <2>5
      <3>2. QED
        BY <2>4, <3>1
    <2>6. toClient' # toClient
      BY <2>4
    <2>7. AckOfRequest
      <3>1. CASE ClientTakes
        BY <2>2, <2>6, <3>1 DEF ClientTakes
      <3>2. CASE Replies
        BY <2>5, <2>6, <3>2 DEF Replies
      <3>3. CASE Tells
        BY <2>5, <3>3 DEF Tells
      <3>4. ~Cut
        BY DEF Cut
      <3>5. QED
        BY <2>3, <3>1, <3>2, <3>3, <3>4 DEF ChannelShape, Quiet, Sends
    <2>8. d \in mDevices'
      BY <1>4, <2>2, <2>7 DEF AckOfRequest
    <2>9. QED
      BY <2>8
  \* No other message read now carries its ID.
  <1>8. pending'[id] = k
    <2> SUFFICES ASSUME pending'[id] # pending[id] PROVE FALSE
      OBVIOUS
    <2>1. /\ toClient # <<>> /\ toClient' = Tail(toClient)
          /\ HasId(Head(toClient)) /\ Head(toClient).id = id
      BY <1>a, <1>3, PendingKept
    <2>2. 1 \in 1 .. Len(toClient) /\ Head(toClient) = toClient[1]
      BY <1>a, <2>1
    <2>3. i # 1
      BY <1>7, <2>1
    <2>4. QED
      BY <1>2, <2>1, <2>2, <2>3 DEF KeepInv, OneBearer
  <1>9. Finds(toClient[i], request', pending', d)
    BY <1>2, <1>4, <1>6, <1>8 DEF Finds
  <1>10. \E j \in 1 .. Len(toClient') : toClient'[j] = toClient[i]
    <2>1. ChannelShape
      BY <1>a, ShapeStep
    <2>2. CASE toClient' = toClient
      BY <2>2
    <2>3. CASE toClient # <<>> /\ toClient' = Tail(toClient)
      <3>1. i - 1 \in 1 .. Len(toClient') /\ toClient'[i - 1] = toClient[i]
        BY <1>a, <1>7, <2>3
      <3>2. QED
        BY <3>1
    <2>4. ASSUME NEW m \in ToClient, toClient' = Append(toClient, m)
          PROVE  i \in 1 .. Len(toClient') /\ toClient'[i] = toClient[i]
      BY <1>a, <2>4
    <2>5. ~Cut
      BY DEF Cut
    <2>6. QED
      BY <2>1, <2>2, <2>3, <2>4, <2>5 DEF ChannelShape, Quiet, Sends, Replies, Tells, ClientTakes
  <1>11. PICK j \in 1 .. Len(toClient') : Finds(toClient'[j], request', pending', d)
    BY <1>9, <1>10
  <1>12. toClient' \in Seq(ToClient)
    BY ChannelStep DEF ChannelType
  <1>13. QED
    BY <1>11, <1>12 DEF AckUnderWay, Finds

\* So nothing accepted is lost in a step.
LEMMA LostStep ==
    ASSUME TypeOK, KeepInv, UiThread, [Next]_vars, MsgId' < IdMod
    PROVE  NoAcceptedLost'
  <1> SUFFICES ASSUME ~IsDisposed', NEW d \in accepted', d \notin mDevices'
               PROVE  AckUnderWay(d)'
    BY DEF NoAcceptedLost
  <1>a. TypeOK /\ RegInv /\ FiledLow /\ MasterChannel
    BY DEF KeepInv, RegInv
  <1>1. ~IsDisposed
    BY <1>a, ShapeStep DEF ChannelShape
  <1>2. ASSUME d \in accepted, d \notin mDevices PROVE AckUnderWay(d)'
    <2>1. AckUnderWay(d)
      BY <1>1, <1>2 DEF KeepInv, NoAcceptedLost
    <2>2. QED
      BY <2>1, AckKept
  <1>3. CASE UNCHANGED <<accepted, mDevices>>
    BY <1>2, <1>3
  <1>4. CASE AckOfRequest
    BY <1>2, <1>4 DEF AckOfRequest, masterVars
  <1>5. CASE GoOffline
    BY <1>5 DEF GoOffline
  <1>6. CASE MasterAccepts
    <2> DEFINE h == Head(toMaster)
               m == [type |-> "Ack", id |-> h.id]
    <2>1. /\ toClient' = Append(toClient, m) /\ UNCHANGED <<request, pending, mDevices>>
          /\ accepted' = accepted \cup {h.device}
      BY <1>6 DEF MasterAccepts, requestVars, deviceVars
    <2>2. CASE d # h.device
      BY <1>2, <2>1, <2>2
    <2>3. CASE d = h.device
      <3>1. /\ h.type = "DeviceInfo" /\ MasterMsgOK(h, MsgId, request, pending)
            /\ toMaster # <<>> /\ toMaster \in Seq(ToMaster) /\ toClient \in Seq(ToClient)
        BY <1>a, <1>6, TakenOK DEF MasterAccepts, MasterTakes, TypeOK
      <3>2. 1 \in 1 .. Len(toMaster) /\ h = toMaster[1]
        BY <3>1
      <3>3. pending[h.id] # 0
        BY <3>1, <3>2 DEF KeepInv, RegistrationFiled
      <3>4. request[pending[h.id]].device = d
        BY <2>3, <3>1, <3>3 DEF MasterMsgOK
      <3>5. Finds(m, request', pending', d)
        BY <2>1, <3>3, <3>4 DEF Finds
      <3> HIDE DEF h, m
      <3>6. toClient' \in Seq(ToClient) /\ \E j \in 1 .. Len(toClient') : toClient'[j] = m
        <4>1. toClient' \in Seq(ToClient)
          BY ChannelStep DEF ChannelType
        <4>2. Len(toClient) + 1 \in 1 .. Len(toClient') /\ toClient'[Len(toClient) + 1] = m
          BY <2>1, <3>1
        <4>3. QED
          BY <4>1, <4>2
      <3>7. QED
        BY <3>5, <3>6 DEF AckUnderWay, Finds
    <2>4. QED
      BY <2>2, <2>3
  <1>7. QED
    BY <1>a, <1>3, <1>4, <1>5, <1>6, SetsStep

-----------------------------------------------------------------------------
\* At the start nothing is under way.
LEMMA KeepInit == Init => KeepInv
  <1> SUFFICES ASSUME Init PROVE KeepInv
    OBVIOUS
  <1>1. RegInv
    BY RegInit
  <1>2. OneBearer(toMaster, toClient) /\ RegistrationFiled /\ NoAcceptedLost
    BY DEF Init, OneBearer, RegistrationFiled, NoAcceptedLost
  <1>3. QED
    BY <1>1, <1>2 DEF KeepInv

\* The invariant is inductive while IDs have not wrapped.
LEMMA KeepStep ==
    ASSUME TypeOK, TypeOK', KeepInv, UiThread, [Next]_vars, MsgId' < IdMod
    PROVE  KeepInv'
  <1>1. RegInv'
    BY RegStep DEF KeepInv
  <1>2. OneBearer(toMaster', toClient')
    <2>1. RegInv /\ FiledLow /\ OneBearer(toMaster, toClient)
      BY DEF KeepInv, RegInv
    <2>2. ChannelShape
      BY <2>1, ShapeStep
    <2>3. QED
      BY <2>1, <2>2, BearerStep
  <1>3. RegistrationFiled' /\ NoAcceptedLost'
    BY FiledStep, LostStep
  <1>4. QED
    BY <1>1, <1>2, <1>3 DEF KeepInv

\* As long as IDs have not wrapped, a device the master has accepted is registered, or
\* its Ack is under way and finds a request for that device: neither the expiry of the
\* 30 s watch, nor an emptied cache, a challenge of another message, a repeated request
\* or a reordering of the two directions loses it.
THEOREM AcceptedAreKept == UiThread /\ Spec /\ []NoWrap => []NoAcceptedLost
  <1> SUFFICES ASSUME UiThread PROVE Spec /\ []NoWrap => []NoAcceptedLost
    OBVIOUS
  <1>1. TypeOK /\ TypeOK' /\ KeepInv /\ [Next]_vars /\ NoWrap' => KeepInv'
    BY KeepStep DEF NoWrap
  <1>2. KeepInv => NoAcceptedLost
    BY DEF KeepInv
  <1>3. QED
    BY <1>1, <1>2, KeepInit, TypeCorrect, PTL DEF Spec
=============================================================================
