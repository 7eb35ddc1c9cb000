-------------------------- MODULE IcspManagerProofs --------------------------
(***************************************************************************)
(* Proofs about IcspManager, for any devices, ID space, number of ports    *)
(* and number of operations.                                               *)
(***************************************************************************)
EXTENDS IcspManager, TLAPS

\* The parts of TypeOK that different actions disturb.
RequestType ==
    /\ MsgId \in Nat /\ reached \in Nat
    /\ request \in Seq(Request)
    /\ pending \in [Ids -> 0 .. Len(request)]
    /\ cached \subseteq 1 .. Len(request)
    /\ updating \subseteq [req : 1 .. Len(request), left : 0 .. UpdateMessages]

ChannelType == toMaster \in Seq(ToMaster) /\ toClient \in Seq(ToClient)

DeviceType ==
    /\ pinged \subseteq Devices /\ mDevices \subseteq Devices
    /\ CurrentSystem \in {0, 1}
    /\ online \subseteq Devices
    /\ accepted \subseteq Devices /\ known \subseteq Devices /\ refused \subseteq Devices

FlagType ==
    /\ connected \in BOOLEAN /\ cryptoProvider \in {"none", "past", "current"}
    /\ encryption \in BOOLEAN /\ IsDisposed \in BOOLEAN
    /\ challenged \in BOOLEAN
    /\ ops \in [requests : 0 .. MaxRequests, others : 0 .. MaxOps]

\* TypeOK is the conjunction of its parts.
LEMMA TypeParts == TypeOK <=> RequestType /\ ChannelType /\ DeviceType /\ FlagType
  BY DEF TypeOK, RequestType, ChannelType, DeviceType, FlagType

\* IDs stay in their range, whatever the counter.
LEMMA IdTypes ==
    ASSUME MsgId \in Nat, reached \in Nat, NEW v \in Loaded
    PROVE  v \in Nat /\ v + 1 \in Nat /\ NextId(v) \in Ids
  <1>1. v \in Nat
    BY DEF Loaded
  <1>2. QED
    BY <1>1, ManagerConstants DEF NextId, Ids

\* The counter stays a number, whichever thread stores it.
LEMMA IncrementType ==
    ASSUME MsgId \in Nat, reached \in Nat, NEW v \in Loaded, Increment(v)
    PROVE  MsgId' \in Nat /\ reached' \in Nat
  BY IdTypes DEF Increment

\* UpdateDeviceInfoAsync sends a number of messages.
LEMMA UpdateType == UpdateMessages \in Nat
  BY ManagerConstants DEF UpdateMessages

\* The request that an answer of the master is matched to.
LEMMA AskedType ==
    ASSUME TypeOK, NEW type \in {"Ack", "ChallengeRequest", "ChallengeAck"}, Receive(type)
    PROVE  /\ Head(toClient).id \in Ids
           /\ Asked \in 0 .. Len(request)
           /\ Asked # 0 => request[Asked] \in Request /\ request[Asked].device \in Devices
  <1>1. Head(toClient) \in ToClient /\ Head(toClient).type = type
    BY TypeParts DEF Receive, ChannelType
  <1>2. Head(toClient).id \in Ids
    BY <1>1 DEF ToClient
  <1>3. Asked \in 0 .. Len(request)
    BY <1>2, TypeParts DEF Asked, RequestType
  <1>4. Asked # 0 => request[Asked] \in Request
    BY <1>3, TypeParts DEF RequestType
  <1>5. QED
    BY <1>2, <1>3, <1>4 DEF Request

\* The flags and the count of operations keep their types.
LEMMA FlagStep ==
    ASSUME TypeOK, [Next]_vars
    PROVE  FlagType'
  <1> USE ManagerConstants, TypeParts DEF FlagType, Begin, BeginRequest, clientVars, masterVars
  <1>1. CASE AckOfRequest
    BY <1>1 DEF AckOfRequest
  <1>2. CASE AckUnknown
    BY <1>2 DEF AckUnknown
  <1>3. ASSUME NEW v \in Loaded, ChallengeRequest(v) PROVE FlagType'
    BY <1>3 DEF ChallengeRequest
  <1>4. ASSUME NEW v \in Loaded, ChallengeAck(v) PROVE FlagType'
    BY <1>4 DEF ChallengeAck
  <1>5. CASE ChallengeAckUnknown
    BY <1>5 DEF ChallengeAckUnknown
  <1>6. ASSUME NEW v \in Loaded, Ping(v) PROVE FlagType'
    BY <1>6 DEF Ping
  <1>7. CASE DeviceInfo
    BY <1>7 DEF DeviceInfo
  <1>8. ASSUME NEW v \in Loaded, Answer(v) PROVE FlagType'
    BY <1>8 DEF Answer
  <1>9. CASE Event
    BY <1>9 DEF Event
  <1>10. ASSUME NEW v \in Loaded, NEW u \in updating, UpdateDeviceInfo(v, u) PROVE FlagType'
    BY <1>10 DEF UpdateDeviceInfo
  <1>11. ASSUME NEW u \in updating, DeviceOnline(u) PROVE FlagType'
    BY <1>11 DEF DeviceOnline
  <1>12. ASSUME NEW u \in updating, UpdateThrows(u) PROVE FlagType'
    BY <1>12 DEF UpdateThrows
  <1>13. ASSUME NEW t \in cached, RequestExpires(t) PROVE FlagType'
    BY <1>13 DEF RequestExpires
  <1>14. ASSUME NEW d \in pinged, PingExpires(d) PROVE FlagType'
    BY <1>14 DEF PingExpires
  <1>15. CASE CacheEmptied
    BY <1>15 DEF CacheEmptied
  <1>16. ASSUME NEW v \in Loaded, NEW d \in Devices, CreateDeviceInfo(v, d) PROVE FlagType'
    BY <1>16 DEF CreateDeviceInfo
  <1>17. ASSUME NEW v \in Loaded, SendMessage(v) PROVE FlagType'
    BY <1>17 DEF SendMessage
  <1>18. CASE Dispose
    BY <1>18 DEF Dispose
  <1>19. CASE GoOffline
    <2>1. ops' \in [requests : 0 .. MaxRequests, others : 0 .. MaxOps]
      BY <1>19 DEF GoOffline
    <2>2. connected' = FALSE /\ encryption' = FALSE /\ challenged' = FALSE
          /\ IsDisposed' = IsDisposed
          /\ cryptoProvider' \in {"none", "past", "current"}
      BY <1>19 DEF GoOffline
    <2>3. QED
      BY <2>1, <2>2
  <1>20. CASE GoOnline
    BY <1>20 DEF GoOnline
  <1>21. CASE MasterAccepts
    BY <1>21 DEF MasterAccepts
  <1>22. CASE MasterChallenges
    BY <1>22 DEF MasterChallenges
  <1>23. CASE MasterIgnores
    BY <1>23 DEF MasterIgnores
  <1>24. CASE MasterAuthenticates
    <2>1. PICK ok \in BOOLEAN : challenged' = (challenged \/ ok)
      BY <1>24 DEF MasterAuthenticates
    <2>2. UNCHANGED <<connected, cryptoProvider, encryption, IsDisposed, ops>>
      BY <1>24 DEF MasterAuthenticates
    <2>3. QED
      BY <2>1, <2>2
  <1>25. CASE MasterTakesOther
    BY <1>25 DEF MasterTakesOther
  <1>26. ASSUME NEW d \in Devices, MasterPings(d) PROVE FlagType'
    BY <1>26 DEF MasterPings
  <1>27. CASE MasterChallengesOther
    BY <1>27 DEF MasterChallengesOther
  <1>28. ASSUME NEW t \in {"DeviceInfo", "Request", "Event"}, MasterTells(t) PROVE FlagType'
    BY <1>28 DEF MasterTells
  <1>29. CASE UNCHANGED vars
    BY <1>29 DEF vars
  <1>30. QED
    BY <1>1, <1>2, <1>3, <1>4, <1>5, <1>6, <1>7, <1>8, <1>9, <1>10, <1>11, <1>12,
       <1>13, <1>14, <1>15, <1>16, <1>17, <1>18, <1>19, <1>20, <1>21, <1>22, <1>23,
       <1>24, <1>25, <1>26, <1>27, <1>28, <1>29
       DEF Next, OnDataReceived, Continuation, Cache, Users, Network, MasterReplies,
       MasterSpeaks

\* So do the sets of devices.
LEMMA DeviceStep ==
    ASSUME TypeOK, [Next]_vars
    PROVE  DeviceType'
  <1> USE TypeParts DEF DeviceType, deviceVars, masterVars
  <1>1. CASE AckOfRequest
    <2>1. request[Asked].device \in Devices
      BY <1>1, AskedType DEF AckOfRequest
    <2>2. QED
      BY <1>1, <2>1 DEF AckOfRequest
  <1>2. CASE AckUnknown
    BY <1>2 DEF AckUnknown
  <1>3. ASSUME NEW v \in Loaded, ChallengeRequest(v) PROVE DeviceType'
    BY <1>3 DEF ChallengeRequest
  <1>4. ASSUME NEW v \in Loaded, ChallengeAck(v) PROVE DeviceType'
    BY <1>4 DEF ChallengeAck
  <1>5. CASE ChallengeAckUnknown
    BY <1>5 DEF ChallengeAckUnknown
  <1>6. ASSUME NEW v \in Loaded, Ping(v) PROVE DeviceType'
    BY <1>6 DEF Ping
  <1>7. CASE DeviceInfo
    BY <1>7 DEF DeviceInfo
  <1>8. ASSUME NEW v \in Loaded, Answer(v) PROVE DeviceType'
    BY <1>8 DEF Answer
  <1>9. CASE Event
    BY <1>9 DEF Event
  <1>10. ASSUME NEW v \in Loaded, NEW u \in updating, UpdateDeviceInfo(v, u) PROVE DeviceType'
    BY <1>10 DEF UpdateDeviceInfo
  <1>11. ASSUME NEW u \in updating, DeviceOnline(u) PROVE DeviceType'
    <2>1. request[u.req] \in Request
      BY <1>11 DEF DeviceOnline, RequestType
    <2>2. request[u.req].device \in Devices
      BY <2>1 DEF Request
    <2>3. QED
      BY <1>11, <2>2 DEF DeviceOnline
  <1>12. ASSUME NEW u \in updating, UpdateThrows(u) PROVE DeviceType'
    BY <1>12 DEF UpdateThrows
  <1>13. ASSUME NEW t \in cached, RequestExpires(t) PROVE DeviceType'
    BY <1>13 DEF RequestExpires
  <1>14. ASSUME NEW d \in pinged, PingExpires(d) PROVE DeviceType'
    BY <1>14 DEF PingExpires
  <1>15. CASE CacheEmptied
    BY <1>15 DEF CacheEmptied
  <1>16. ASSUME NEW v \in Loaded, NEW d \in Devices, CreateDeviceInfo(v, d) PROVE DeviceType'
    BY <1>16 DEF CreateDeviceInfo
  <1>17. ASSUME NEW v \in Loaded, SendMessage(v) PROVE DeviceType'
    BY <1>17 DEF SendMessage
  <1>18. CASE Dispose
    BY <1>18 DEF Dispose
  <1>19. CASE GoOffline
    BY <1>19 DEF GoOffline
  <1>20. CASE GoOnline
    BY <1>20 DEF GoOnline
  <1>21. CASE MasterAccepts
    <2>1. Head(toMaster) \in ToMaster /\ Head(toMaster).type = "DeviceInfo"
      BY <1>21 DEF MasterAccepts, MasterTakes, ChannelType
    <2>2. Head(toMaster).device \in Devices
      BY <2>1 DEF ToMaster
    <2>3. QED
      BY <1>21, <2>2 DEF MasterAccepts
  <1>22. CASE MasterChallenges
    BY <1>22 DEF MasterChallenges
  <1>23. CASE MasterIgnores
    <2>1. Head(toMaster) \in ToMaster /\ Head(toMaster).type = "DeviceInfo"
      BY <1>23 DEF MasterIgnores, MasterTakes, ChannelType
    <2>2. Head(toMaster).device \in Devices
      BY <2>1 DEF ToMaster
    <2>3. QED
      BY <1>23, <2>2 DEF MasterIgnores
  <1>24. CASE MasterAuthenticates
    BY <1>24 DEF MasterAuthenticates
  <1>25. CASE MasterTakesOther
    BY <1>25 DEF MasterTakesOther
  <1>26. ASSUME NEW d \in Devices, MasterPings(d) PROVE DeviceType'
    BY <1>26 DEF MasterPings
  <1>27. CASE MasterChallengesOther
    BY <1>27 DEF MasterChallengesOther
  <1>28. ASSUME NEW t \in {"DeviceInfo", "Request", "Event"}, MasterTells(t) PROVE DeviceType'
    BY <1>28 DEF MasterTells
  <1>29. CASE UNCHANGED vars
    BY <1>29 DEF vars
  <1>30. QED
    BY <1>1, <1>2, <1>3, <1>4, <1>5, <1>6, <1>7, <1>8, <1>9, <1>10, <1>11, <1>12,
       <1>13, <1>14, <1>15, <1>16, <1>17, <1>18, <1>19, <1>20, <1>21, <1>22, <1>23,
       <1>24, <1>25, <1>26, <1>27, <1>28, <1>29
       DEF Next, OnDataReceived, Continuation, Cache, Users, Network, MasterReplies,
       MasterSpeaks

\* A message of any kind that the manager builds is well typed when it is sent.
LEMMA OtherSent ==
    ASSUME TypeOK, NEW v \in Loaded, SendOther(v)
    PROVE  toMaster' \in Seq(ToMaster)
  BY IdTypes, TypeParts DEF SendOther, Sent, ToMaster, RequestType, ChannelType

\* So does filing a request.
LEMMA RequestSent ==
    ASSUME TypeOK, NEW v \in Loaded, NEW d \in Devices, NEW rq, NEW pd, NEW ca,
           FileRequest(v, d, rq, pd, ca)
    PROVE  toMaster' \in Seq(ToMaster)
  BY IdTypes, TypeParts DEF FileRequest, Sent, ToMaster, RequestType, ChannelType

\* What the master takes from its channel.
LEMMA TakenType ==
    ASSUME TypeOK, NEW type, MasterTakes(type)
    PROVE  /\ Head(toMaster) \in ToMaster /\ Head(toMaster).id \in Ids
           /\ toMaster' \in Seq(ToMaster)
           /\ type = "DeviceInfo" => Head(toMaster).device \in Devices
  <1>1. Head(toMaster) \in ToMaster /\ Head(toMaster).type = type
        /\ toMaster' \in Seq(ToMaster)
    BY TypeParts DEF MasterTakes, ChannelType
  <1>2. QED
    BY <1>1 DEF ToMaster

\* The channels carry well typed messages.
LEMMA ChannelStep ==
    ASSUME TypeOK, [Next]_vars
    PROVE  ChannelType'
  <1> USE TypeParts DEF ChannelType, channels
  <1>1. CASE AckOfRequest
    BY <1>1 DEF AckOfRequest, Receive
  <1>2. CASE AckUnknown
    BY <1>2 DEF AckUnknown, Receive
  <1>3. ASSUME NEW v \in Loaded, ChallengeRequest(v) PROVE ChannelType'
    BY <1>3, IdTypes DEF ChallengeRequest, Receive, Sent, ToMaster, RequestType
  <1>4. ASSUME NEW v \in Loaded, ChallengeAck(v) PROVE ChannelType'
    <2>1. toClient' \in Seq(ToClient) /\ request[Asked].device \in Devices
      BY <1>4, AskedType DEF ChallengeAck, Receive
    <2>2. CASE Head(toClient).ok
      BY <1>4, <2>1, <2>2, RequestSent DEF ChallengeAck
    <2>3. CASE ~Head(toClient).ok
      BY <1>4, <2>1, <2>3 DEF ChallengeAck
    <2>4. QED
      BY <2>2, <2>3
  <1>5. CASE ChallengeAckUnknown
    BY <1>5 DEF ChallengeAckUnknown, Receive
  <1>6. ASSUME NEW v \in Loaded, Ping(v) PROVE ChannelType'
    BY <1>6, OtherSent DEF Ping, Receive
  <1>7. CASE DeviceInfo
    BY <1>7 DEF DeviceInfo, Receive
  <1>8. ASSUME NEW v \in Loaded, Answer(v) PROVE ChannelType'
    BY <1>8, OtherSent DEF Answer, Receive
  <1>9. CASE Event
    BY <1>9 DEF Event, Receive
  <1>10. ASSUME NEW v \in Loaded, NEW u \in updating, UpdateDeviceInfo(v, u) PROVE ChannelType'
    BY <1>10, OtherSent DEF UpdateDeviceInfo
  <1>11. ASSUME NEW u \in updating, DeviceOnline(u) PROVE ChannelType'
    BY <1>11 DEF DeviceOnline
  <1>12. ASSUME NEW u \in updating, UpdateThrows(u) PROVE ChannelType'
    BY <1>12 DEF UpdateThrows
  <1>13. ASSUME NEW t \in cached, RequestExpires(t) PROVE ChannelType'
    BY <1>13 DEF RequestExpires
  <1>14. ASSUME NEW d \in pinged, PingExpires(d) PROVE ChannelType'
    BY <1>14 DEF PingExpires
  <1>15. CASE CacheEmptied
    BY <1>15 DEF CacheEmptied
  <1>16. ASSUME NEW v \in Loaded, NEW d \in Devices, CreateDeviceInfo(v, d) PROVE ChannelType'
    BY <1>16, RequestSent DEF CreateDeviceInfo
  <1>17. ASSUME NEW v \in Loaded, SendMessage(v) PROVE ChannelType'
    BY <1>17, OtherSent DEF SendMessage
  <1>18. CASE Dispose
    BY <1>18 DEF Dispose
  <1>19. CASE GoOffline
    BY <1>19 DEF GoOffline
  <1>20. CASE GoOnline
    BY <1>20 DEF GoOnline
  <1>21. CASE MasterAccepts
    <2>1. Head(toMaster).id \in Ids /\ toMaster' \in Seq(ToMaster)
      BY <1>21, TakenType DEF MasterAccepts
    <2>2. QED
      BY <1>21, <2>1 DEF MasterAccepts, ToClient
  <1>22. CASE MasterChallenges
    <2>1. Head(toMaster).id \in Ids /\ toMaster' \in Seq(ToMaster)
      BY <1>22, TakenType DEF MasterChallenges
    <2>2. QED
      BY <1>22, <2>1 DEF MasterChallenges, ToClient
  <1>23. CASE MasterIgnores
    BY <1>23, TakenType DEF MasterIgnores
  <1>24. CASE MasterAuthenticates
    <2>1. Head(toMaster).id \in Ids /\ toMaster' \in Seq(ToMaster)
      BY <1>24, TakenType DEF MasterAuthenticates
    <2>2. QED
      BY <1>24, <2>1 DEF MasterAuthenticates, ToClient
  <1>25. CASE MasterTakesOther
    <2>1. Head(toMaster).id \in Ids /\ toMaster' \in Seq(ToMaster)
      BY <1>25, TakenType DEF MasterTakesOther
    <2>2. QED
      BY <1>25, <2>1 DEF MasterTakesOther, ToClient
  <1>26. ASSUME NEW d \in Devices, MasterPings(d) PROVE ChannelType'
    BY <1>26 DEF MasterPings, ToClient
  <1>27. CASE MasterChallengesOther
    <2>1. Head(toMaster).id \in Ids /\ toMaster' \in Seq(ToMaster)
      BY <1>27, TakenType DEF MasterChallengesOther
    <2>2. QED
      BY <1>27, <2>1 DEF MasterChallengesOther, ToClient
  <1>28. ASSUME NEW t \in {"DeviceInfo", "Request", "Event"}, MasterTells(t) PROVE ChannelType'
    BY <1>28 DEF MasterTells, ToClient
  <1>29. CASE UNCHANGED vars
    BY <1>29 DEF vars
  <1>30. QED
    BY <1>1, <1>2, <1>3, <1>4, <1>5, <1>6, <1>7, <1>8, <1>9, <1>10, <1>11, <1>12,
       <1>13, <1>14, <1>15, <1>16, <1>17, <1>18, <1>19, <1>20, <1>21, <1>22, <1>23,
       <1>24, <1>25, <1>26, <1>27, <1>28, <1>29
       DEF Next, OnDataReceived, Continuation, Cache, Users, Network, MasterReplies,
       MasterSpeaks

\* TryAdd and Refile keep a table a table.
LEMMA TableType ==
    ASSUME NEW n \in Nat, NEW p \in [Ids -> 0 .. n], NEW id \in Ids, NEW r \in 0 .. n
    PROVE  TryAdd(p, id, r) \in [Ids -> 0 .. n]
  BY DEF TryAdd

\* Moving a request from one ID to another keeps a table a table.
LEMMA RefileType ==
    ASSUME NEW n \in Nat, NEW p \in [Ids -> 0 .. n], NEW from \in Ids, NEW to \in Ids
    PROVE  Refile(p, from, to) \in [Ids -> 0 .. n]
  <1>1. [p EXCEPT ![from] = 0] \in [Ids -> 0 .. n] /\ p[from] \in 0 .. n
    OBVIOUS
  <1>2. QED
    BY <1>1, TableType DEF Refile

\* A request object keeps its type when a handler changes it.
LEMMA RequestUpdate ==
    ASSUME NEW rq \in Seq(Request), NEW i \in 1 .. Len(rq), NEW st \in State, NEW id \in Ids
    PROVE  /\ [rq EXCEPT ![i].state = st] \in Seq(Request)
           /\ Len([rq EXCEPT ![i].state = st]) = Len(rq)
           /\ [rq EXCEPT ![i].state = st, ![i].msgId = id] \in Seq(Request)
           /\ Len([rq EXCEPT ![i].state = st, ![i].msgId = id]) = Len(rq)
  <1>1. rq[i] \in Request
    OBVIOUS
  <1>2. [rq[i] EXCEPT !.state = st] \in Request
        /\ [rq[i] EXCEPT !.state = st, !.msgId = id] \in Request
    BY <1>1 DEF Request
  <1>3. [rq EXCEPT ![i].state = st] = [rq EXCEPT ![i] = [rq[i] EXCEPT !.state = st]]
        /\ [rq EXCEPT ![i].state = st, ![i].msgId = id]
              = [rq EXCEPT ![i] = [rq[i] EXCEPT !.state = st, !.msgId = id]]
    OBVIOUS
  <1>4. QED
    BY <1>2, <1>3

\* Filing a request, on top of what the caller did.
LEMMA FileRequestType ==
    ASSUME MsgId \in Nat, reached \in Nat, NEW v \in Loaded, NEW d \in Devices, NEW rq \in Seq(Request),
           NEW pd \in [Ids -> 0 .. Len(rq)], NEW ca \in SUBSET (1 .. Len(rq)),
           FileRequest(v, d, rq, pd, ca)
    PROVE  /\ MsgId' \in Nat /\ reached' \in Nat /\ request' \in Seq(Request)
           /\ Len(request') = Len(rq) + 1
           /\ pending' \in [Ids -> 0 .. Len(request')]
           /\ cached' \subseteq 1 .. Len(request')
  <1>1. NextId(v) \in Ids /\ MsgId' \in Nat /\ reached' \in Nat
    BY IdTypes, IncrementType DEF FileRequest
  <1>2. [device |-> d, msgId |-> NextId(v), state |-> "Uninitialized"] \in Request
    BY <1>1 DEF Request, State
  <1>3. request' \in Seq(Request) /\ Len(request') = Len(rq) + 1
    BY <1>2 DEF FileRequest
  <1>4. PICK n \in Nat : n = Len(rq)
    OBVIOUS
  <1>5. TryAdd(pd, NextId(v), n + 1) \in [Ids -> 0 .. n + 1]
    <2>1. n + 1 \in Nat /\ n + 1 \in 0 .. n + 1 /\ pd \in [Ids -> 0 .. n + 1]
      BY <1>4
    <2>2. QED
      BY <1>1, <2>1, TableType
  <1>6. pending' = TryAdd(pd, NextId(v), Len(rq) + 1) /\ cached' = ca \cup {Len(rq) + 1}
    BY DEF FileRequest
  <1>7. cached' \subseteq 1 .. n + 1
    <2>1. \A x \in ca : x \in 1 .. n
      BY <1>4
    <2>2. (1 .. n) \subseteq 1 .. n + 1 /\ n + 1 \in 1 .. n + 1
      BY <1>4
    <2>3. cached' = ca \cup {n + 1}
      BY <1>4, <1>6
    <2>4. QED
      BY <2>1, <2>2, <2>3
  <1>8. QED
    BY <1>1, <1>3, <1>4, <1>5, <1>6, <1>7

\* The requests, the pending table, the cache and the continuations keep theirs.
LEMMA RequestStep ==
    ASSUME TypeOK, [Next]_vars
    PROVE  RequestType'
  <1> USE TypeParts DEF RequestType, requestVars, deviceVars
  <1>1. CASE AckOfRequest
    <2>1. Asked \in 1 .. Len(request) /\ Head(toClient).id \in Ids
      BY <1>1, AskedType DEF AckOfRequest
    <2>2. request' \in Seq(Request) /\ Len(request') = Len(request)
      BY <1>1, <2>1, RequestUpdate DEF AckOfRequest, State
    <2>3. pending' \in [Ids -> 0 .. Len(request)] /\ cached' \subseteq 1 .. Len(request)
      BY <1>1, <2>1 DEF AckOfRequest
    <2>4. updating' \subseteq [req : 1 .. Len(request), left : 0 .. UpdateMessages]
      BY <1>1, <2>1, UpdateType DEF AckOfRequest
    <2>5. QED
      BY <1>1, <2>2, <2>3, <2>4 DEF AckOfRequest
  <1>2. CASE AckUnknown
    BY <1>2 DEF AckUnknown
  <1>3. ASSUME NEW v \in Loaded, ChallengeRequest(v) PROVE RequestType'
    <2>1. NextId(v) \in Ids /\ MsgId' \in Nat /\ reached' \in Nat
      BY <1>3, IdTypes, IncrementType DEF ChallengeRequest
    <2>2. Asked \in 0 .. Len(request) /\ Head(toClient).id \in Ids
      BY <1>3, AskedType DEF ChallengeRequest
    <2>3. request' \in Seq(Request) /\ Len(request') = Len(request)
      <3>1. CASE Asked = 0
        BY <1>3, <3>1 DEF ChallengeRequest
      <3>2. CASE Asked # 0
        <4>1. request' = [request EXCEPT ![Asked].state = "Unverified",
                                         ![Asked].msgId = NextId(v)]
          BY <1>3, <3>2 DEF ChallengeRequest
        <4>2. Asked \in 1 .. Len(request) /\ "Unverified" \in State
          BY <2>2, <3>2 DEF State
        <4>3. PICK n \in Ids : n = NextId(v)
          BY <2>1
        <4>4. request \in Seq(Request) /\ request[Asked] \in Request
          BY <4>2
        <4>5. PICK q \in Request : q = [request[Asked] EXCEPT !.state = "Unverified",
                                                              !.msgId = n]
          BY <4>2, <4>4 DEF Request
        <4>6. request' = [request EXCEPT ![Asked] = q]
          BY <4>1, <4>3, <4>5
        <4>7. QED
          BY <4>2, <4>4, <4>6
      <3>3. QED
        BY <3>1, <3>2
    <2>4. pending' \in [Ids -> 0 .. Len(request)]
      <3>1. Refile(pending, Head(toClient).id, NextId(v)) \in [Ids -> 0 .. Len(request)]
        BY <2>1, <2>2, RefileType, Len(request) \in Nat
      <3>2. QED
        BY <1>3, <3>1 DEF ChallengeRequest
    <2>5. QED
      BY <1>3, <2>1, <2>3, <2>4 DEF ChallengeRequest
  <1>4. ASSUME NEW v \in Loaded, ChallengeAck(v) PROVE RequestType'
    <2> DEFINE rq == [request EXCEPT ![Asked].state = "Connected"]
               pd == [pending EXCEPT ![Head(toClient).id] = 0]
               ca == cached \ {Asked}
    <2>1. Asked \in 1 .. Len(request) /\ Head(toClient).id \in Ids
          /\ request[Asked].device \in Devices
      BY <1>4, AskedType DEF ChallengeAck
    <2>2. rq \in Seq(Request) /\ Len(rq) = Len(request)
      BY <2>1, RequestUpdate DEF State
    <2>3. pd \in [Ids -> 0 .. Len(rq)] /\ ca \in SUBSET (1 .. Len(rq))
      BY <2>1, <2>2
    <2>4. updating' = updating
      BY <1>4 DEF ChallengeAck
    <2>5. CASE FileRequest(v, request[Asked].device, rq, pd, ca)
      <3> HIDE DEF rq, pd, ca
      <3>1. /\ MsgId' \in Nat /\ reached' \in Nat /\ request' \in Seq(Request)
            /\ Len(request') = Len(rq) + 1
            /\ pending' \in [Ids -> 0 .. Len(request')]
            /\ cached' \subseteq 1 .. Len(request')
        BY <2>1, <2>2, <2>3, <2>5, FileRequestType
      <3>2. QED
        BY <2>2, <2>4, <3>1
    <2>6. CASE request' = rq /\ pending' = pd /\ cached' = ca
               /\ UNCHANGED <<MsgId, reached>>
      BY <2>2, <2>3, <2>4, <2>6
    <2>7. QED
      BY <1>4, <2>5, <2>6 DEF ChallengeAck
  <1>5. CASE ChallengeAckUnknown
    BY <1>5 DEF ChallengeAckUnknown
  <1>6. ASSUME NEW v \in Loaded, Ping(v) PROVE RequestType'
    <2>1. MsgId' \in Nat /\ reached' \in Nat /\ UNCHANGED <<request, pending, cached, updating>>
      BY <1>6, IncrementType DEF Ping, SendOther
    <2>2. QED
      BY <2>1
  <1>7. CASE DeviceInfo
    BY <1>7 DEF DeviceInfo
  <1>8. ASSUME NEW v \in Loaded, Answer(v) PROVE RequestType'
    BY <1>8, IncrementType DEF Answer, SendOther
  <1>9. CASE Event
    BY <1>9 DEF Event
  <1>10. ASSUME NEW v \in Loaded, NEW u \in updating, UpdateDeviceInfo(v, u) PROVE RequestType'
    <2>1. u.left \in 0 .. UpdateMessages /\ u.left > 0 /\ u.req \in 1 .. Len(request)
          /\ u \in [req : 1 .. Len(request), left : 0 .. UpdateMessages]
      BY <1>10 DEF UpdateDeviceInfo
    <2>2. [u EXCEPT !.left = @ - 1] \in [req : 1 .. Len(request), left : 0 .. UpdateMessages]
      BY <2>1, UpdateType
    <2>3. QED
      BY <1>10, <2>2, IncrementType DEF UpdateDeviceInfo, SendOther
  <1>11. ASSUME NEW u \in updating, DeviceOnline(u) PROVE RequestType'
    BY <1>11 DEF DeviceOnline
  <1>12. ASSUME NEW u \in updating, UpdateThrows(u) PROVE RequestType'
    BY <1>12 DEF UpdateThrows
  <1>13. ASSUME NEW t \in cached, RequestExpires(t) PROVE RequestType'
    BY <1>13 DEF RequestExpires
  <1>14. ASSUME NEW d \in pinged, PingExpires(d) PROVE RequestType'
    BY <1>14 DEF PingExpires
  <1>15. CASE CacheEmptied
    BY <1>15 DEF CacheEmptied
  <1>16. ASSUME NEW v \in Loaded, NEW d \in Devices, CreateDeviceInfo(v, d) PROVE RequestType'
    <2>1. /\ MsgId' \in Nat /\ reached' \in Nat /\ request' \in Seq(Request)
          /\ Len(request') = Len(request) + 1
          /\ pending' \in [Ids -> 0 .. Len(request')]
          /\ cached' \subseteq 1 .. Len(request')
      BY <1>16, FileRequestType DEF CreateDeviceInfo
    <2>2. updating' = updating
      BY <1>16 DEF CreateDeviceInfo
    <2>3. QED
      BY <2>1, <2>2
  <1>17. ASSUME NEW v \in Loaded, SendMessage(v) PROVE RequestType'
    BY <1>17, IncrementType DEF SendMessage, SendOther
  <1>18. CASE Dispose
    BY <1>18 DEF Dispose
  <1>19. CASE GoOffline
    BY <1>19 DEF GoOffline
  <1>20. CASE GoOnline
    BY <1>20 DEF GoOnline
  <1>21. CASE MasterAccepts
    BY <1>21 DEF MasterAccepts
  <1>22. CASE MasterChallenges
    BY <1>22 DEF MasterChallenges
  <1>23. CASE MasterIgnores
    BY <1>23 DEF MasterIgnores
  <1>24. CASE MasterAuthenticates
    BY <1>24 DEF MasterAuthenticates
  <1>25. CASE MasterTakesOther
    BY <1>25 DEF MasterTakesOther
  <1>26. ASSUME NEW d \in Devices, MasterPings(d) PROVE RequestType'
    BY <1>26 DEF MasterPings
  <1>27. CASE MasterChallengesOther
    BY <1>27 DEF MasterChallengesOther
  <1>28. ASSUME NEW t \in {"DeviceInfo", "Request", "Event"}, MasterTells(t) PROVE RequestType'
    BY <1>28 DEF MasterTells
  <1>29. CASE UNCHANGED vars
    BY <1>29 DEF vars
  <1>30. QED
    BY <1>1, <1>2, <1>3, <1>4, <1>5, <1>6, <1>7, <1>8, <1>9, <1>10, <1>11, <1>12,
       <1>13, <1>14, <1>15, <1>16, <1>17, <1>18, <1>19, <1>20, <1>21, <1>22, <1>23,
       <1>24, <1>25, <1>26, <1>27, <1>28, <1>29
       DEF Next, OnDataReceived, Continuation, Cache, Users, Network, MasterReplies,
       MasterSpeaks

\* The initial states are well typed.
LEMMA InitType == Init => TypeOK
  BY ManagerConstants, UpdateType DEF Init, TypeOK, Ids

\* Every reachable state is well typed.
THEOREM TypeCorrect == Spec => []TypeOK
  <1>1. TypeOK /\ [Next]_vars => TypeOK'
    <2> SUFFICES ASSUME TypeOK, [Next]_vars
                 PROVE  TypeOK'
      OBVIOUS
    <2>1. RequestType' /\ ChannelType' /\ DeviceType' /\ FlagType'
      BY FlagStep, DeviceStep, ChannelStep, RequestStep
    <2>2. QED
      BY <2>1 DEF TypeOK, RequestType, ChannelType, DeviceType, FlagType
  <1>2. QED
    BY <1>1, InitType, PTL DEF Spec

-----------------------------------------------------------------------------
(***************************************************************************)
(* A request waits under the ID of its last message only, for any ID       *)
(* space, also when IDs wrap.                                              *)
(***************************************************************************)

\* Only four actions touch the requests or the pending table.
LEMMA RequestsKept ==
    ASSUME [Next]_vars
    PROVE  \/ AckOfRequest
           \/ \E v \in Loaded : ChallengeRequest(v) \/ ChallengeAck(v)
           \/ \E v \in Loaded, d \in Devices : CreateDeviceInfo(v, d)
           \/ UNCHANGED <<request, pending>>
  <1> USE DEF requestVars
  <1>1. CASE AckOfRequest
    BY <1>1
  <1>2. CASE AckUnknown
    BY <1>2 DEF AckUnknown
  <1>3. ASSUME NEW v \in Loaded, ChallengeRequest(v) PROVE \E w \in Loaded : ChallengeRequest(w)
    BY <1>3
  <1>4. ASSUME NEW v \in Loaded, ChallengeAck(v) PROVE \E w \in Loaded : ChallengeAck(w)
    BY <1>4
  <1>5. CASE ChallengeAckUnknown
    BY <1>5 DEF ChallengeAckUnknown
  <1>6. ASSUME NEW v \in Loaded, Ping(v) PROVE UNCHANGED <<request, pending>>
    BY <1>6 DEF Ping
  <1>7. CASE DeviceInfo
    BY <1>7 DEF DeviceInfo
  <1>8. ASSUME NEW v \in Loaded, Answer(v) PROVE UNCHANGED <<request, pending>>
    BY <1>8 DEF Answer
  <1>9. CASE Event
    BY <1>9 DEF Event
  <1>10. ASSUME NEW v \in Loaded, NEW u \in updating, UpdateDeviceInfo(v, u) PROVE UNCHANGED <<request, pending>>
    BY <1>10 DEF UpdateDeviceInfo
  <1>11. ASSUME NEW u \in updating, DeviceOnline(u) PROVE UNCHANGED <<request, pending>>
    BY <1>11 DEF DeviceOnline
  <1>12. ASSUME NEW u \in updating, UpdateThrows(u) PROVE UNCHANGED <<request, pending>>
    BY <1>12 DEF UpdateThrows
  <1>13. ASSUME NEW t \in cached, RequestExpires(t) PROVE UNCHANGED <<request, pending>>
    BY <1>13 DEF RequestExpires
  <1>14. ASSUME NEW d \in pinged, PingExpires(d) PROVE UNCHANGED <<request, pending>>
    BY <1>14 DEF PingExpires
  <1>15. CASE CacheEmptied
    BY <1>15 DEF CacheEmptied
  <1>16. ASSUME NEW v \in Loaded, NEW d \in Devices, CreateDeviceInfo(v, d)
         PROVE \E w \in Loaded, e \in Devices : CreateDeviceInfo(w, e)
    BY <1>16
  <1>17. ASSUME NEW v \in Loaded, SendMessage(v) PROVE UNCHANGED <<request, pending>>
    BY <1>17 DEF SendMessage
  <1>18. CASE Dispose
    BY <1>18 DEF Dispose
  <1>19. CASE GoOffline
    BY <1>19 DEF GoOffline
  <1>20. CASE GoOnline
    BY <1>20 DEF GoOnline
  <1>21. CASE MasterAccepts
    BY <1>21 DEF MasterAccepts
  <1>22. CASE MasterChallenges
    BY <1>22 DEF MasterChallenges
  <1>23. CASE MasterIgnores
    BY <1>23 DEF MasterIgnores
  <1>24. CASE MasterAuthenticates
    BY <1>24 DEF MasterAuthenticates
  <1>25. CASE MasterTakesOther
    BY <1>25 DEF MasterTakesOther
  <1>26. ASSUME NEW d \in Devices, MasterPings(d) PROVE UNCHANGED <<request, pending>>
    BY <1>26 DEF MasterPings
  <1>27. CASE MasterChallengesOther
    BY <1>27 DEF MasterChallengesOther
  <1>28. ASSUME NEW t \in {"DeviceInfo", "Request", "Event"}, MasterTells(t) PROVE UNCHANGED <<request, pending>>
    BY <1>28 DEF MasterTells
  <1>29. CASE UNCHANGED vars
    BY <1>29 DEF vars
  <1>30. QED
    BY <1>1, <1>2, <1>3, <1>4, <1>5, <1>6, <1>7, <1>8, <1>9, <1>10, <1>11, <1>12,
       <1>13, <1>14, <1>15, <1>16, <1>17, <1>18, <1>19, <1>20, <1>21, <1>22, <1>23,
       <1>24, <1>25, <1>26, <1>27, <1>28, <1>29
       DEF Next, OnDataReceived, Continuation, Cache, Users, Network, MasterReplies,
       MasterSpeaks

\* What is filed with TryAdd is under its own ID; what is there already stays.
LEMMA FileRequestFiles ==
    ASSUME MsgId \in Nat, reached \in Nat, NEW v \in Loaded, NEW d \in Devices, NEW rq \in Seq(Request),
           NEW pd \in [Ids -> 0 .. Len(rq)], NEW ca,
           FileRequest(v, d, rq, pd, ca),
           \A id \in Ids : pd[id] # 0 => rq[pd[id]].msgId = id
    PROVE  PendingUnderLastId'
  <1>1. NextId(v) \in Ids
    BY IdTypes
  <1>2. PICK n \in Nat : n = Len(rq)
    OBVIOUS
  <1>3. [device |-> d, msgId |-> NextId(v), state |-> "Uninitialized"] \in Request
    BY <1>1 DEF Request, State
  <1>4. request'[n + 1].msgId = NextId(v) /\ \A r \in 1 .. n : request'[r] = rq[r]
    BY <1>2, <1>3 DEF FileRequest
  <1>5. pending' = IF pd[NextId(v)] = 0 THEN [pd EXCEPT ![NextId(v)] = n + 1] ELSE pd
    BY <1>2 DEF FileRequest, TryAdd
  <1>6. ASSUME NEW id \in Ids, pending'[id] # 0
        PROVE  request'[pending'[id]].msgId = id
    <2>1. CASE id = NextId(v) /\ pd[NextId(v)] = 0
      BY <1>1, <1>4, <1>5, <2>1
    <2>2. CASE id # NextId(v) \/ pd[NextId(v)] # 0
      <3>1. pending'[id] = pd[id] /\ pd[id] \in 1 .. n
        BY <1>1, <1>2, <1>5, <1>6, <2>2
      <3>2. QED
        BY <1>4, <3>1
    <2>3. QED
      BY <2>1, <2>2
  <1>7. QED
    BY <1>6 DEF PendingUnderLastId

\* Every step keeps the requests under their last IDs.
LEMMA PendingStep ==
    ASSUME TypeOK, PendingUnderLastId, [Next]_vars
    PROVE  PendingUnderLastId'
  <1> USE TypeParts DEF RequestType
  <1>1. CASE AckOfRequest
    <2>1. Asked \in 1 .. Len(request) /\ Head(toClient).id \in Ids
      BY <1>1, AskedType DEF AckOfRequest
    <2>2. \A r \in 1 .. Len(request) : request'[r].msgId = request[r].msgId
      BY <1>1, <2>1 DEF AckOfRequest, Request
    <2>3. \A id \in Ids : pending'[id] # 0 => pending'[id] = pending[id]
      BY <1>1, <2>1 DEF AckOfRequest
    <2>4. QED
      BY <2>2, <2>3 DEF PendingUnderLastId
  <1>2. ASSUME NEW v \in Loaded, ChallengeRequest(v) PROVE PendingUnderLastId'
    <2> DEFINE from == Head(toClient).id
    <2>1. NextId(v) \in Ids
      BY IdTypes
    <2>2. Asked \in 0 .. Len(request) /\ from \in Ids
      BY <1>2, AskedType DEF ChallengeRequest
    <2>3. Asked = pending[from] /\ pending' = Refile(pending, from, NextId(v))
      BY <1>2 DEF ChallengeRequest, Asked
    <2>4. CASE Asked = 0
      BY <1>2, <2>3, <2>4 DEF ChallengeRequest, Refile, PendingUnderLastId
    <2>5. CASE Asked # 0
      <3>1. request' = [request EXCEPT ![Asked].state = "Unverified",
                                       ![Asked].msgId = NextId(v)]
        BY <1>2, <2>5 DEF ChallengeRequest
      <3>2. request'[Asked].msgId = NextId(v)
            /\ \A r \in 1 .. Len(request) : r # Asked => request'[r] = request[r]
        BY <2>2, <2>5, <3>1 DEF Request
      <3>3. ASSUME NEW id \in Ids, id # NextId(v), pending'[id] # 0
            PROVE  id # from /\ pending'[id] = pending[id]
        BY <2>1, <2>2, <2>3, <2>5, <3>3 DEF Refile, TryAdd
      <3>4. ASSUME NEW id \in Ids, id # from, pending[id] # 0
            PROVE  pending[id] # Asked
        BY <2>2, <2>3, <2>5, <3>4 DEF PendingUnderLastId
      <3>5. pending'[NextId(v)] = Asked \/ (NextId(v) # from /\ pending[NextId(v)] # 0
                                          /\ pending'[NextId(v)] = pending[NextId(v)])
        BY <2>1, <2>2, <2>3, <2>5 DEF Refile, TryAdd
      <3>6. ASSUME NEW id \in Ids, pending'[id] # 0
            PROVE  request'[pending'[id]].msgId = id
        <4>1. CASE pending'[id] = Asked /\ id = NextId(v)
          BY <3>2, <4>1
        <4>2. CASE ~(pending'[id] = Asked /\ id = NextId(v))
          <5>1. id # from /\ pending'[id] = pending[id]
            BY <3>3, <3>5, <3>6, <4>2
          <5>2. pending[id] # Asked /\ pending[id] \in 1 .. Len(request)
            BY <3>4, <3>6, <5>1
          <5>3. QED
            BY <3>2, <3>6, <5>1, <5>2 DEF PendingUnderLastId
        <4>3. QED
          BY <4>1, <4>2
      <3>7. QED
        BY <3>6 DEF PendingUnderLastId
    <2>6. QED
      BY <2>4, <2>5
  <1>3. ASSUME NEW v \in Loaded, ChallengeAck(v) PROVE PendingUnderLastId'
    <2> DEFINE rq == [request EXCEPT ![Asked].state = "Connected"]
               pd == [pending EXCEPT ![Head(toClient).id] = 0]
               ca == cached \ {Asked}
    <2>1. Asked \in 1 .. Len(request) /\ Head(toClient).id \in Ids
          /\ request[Asked].device \in Devices
      BY <1>3, AskedType DEF ChallengeAck
    <2>2. rq \in Seq(Request) /\ Len(rq) = Len(request)
      BY <2>1, RequestUpdate DEF State
    <2>3. pd \in [Ids -> 0 .. Len(rq)]
      BY <2>1, <2>2
    <2>4. \A r \in 1 .. Len(request) : rq[r].msgId = request[r].msgId
      BY <2>1 DEF Request
    <2>5. \A id \in Ids : pd[id] # 0 => pd[id] = pending[id]
      BY <2>1
    <2>6. \A id \in Ids : pd[id] # 0 => rq[pd[id]].msgId = id
      <3> HIDE DEF rq, pd
      <3>1. QED
        BY <2>4, <2>5 DEF PendingUnderLastId
    <2>7. CASE FileRequest(v, request[Asked].device, rq, pd, ca)
      <3> HIDE DEF rq, pd, ca
      <3>1. QED
        BY <2>1, <2>2, <2>3, <2>6, <2>7, FileRequestFiles
    <2>8. CASE request' = rq /\ pending' = pd
      <3> HIDE DEF rq, pd
      <3>1. QED
        BY <2>6, <2>8 DEF PendingUnderLastId
    <2>9. QED
      BY <1>3, <2>7, <2>8 DEF ChallengeAck
  <1>4. ASSUME NEW v \in Loaded, NEW d \in Devices, CreateDeviceInfo(v, d) PROVE PendingUnderLastId'
    BY <1>4, FileRequestFiles DEF CreateDeviceInfo, PendingUnderLastId
  <1>5. CASE UNCHANGED <<request, pending>>
    BY <1>5 DEF PendingUnderLastId
  <1>6. QED
    BY <1>1, <1>2, <1>3, <1>4, <1>5, RequestsKept

\* No request waits under two IDs or under one that is not its last, whatever the
\* challenges and however the counter wraps.
THEOREM OneIdPerRequest == Spec => []PendingUnderLastId
  <1>1. Init => PendingUnderLastId
    BY DEF Init, PendingUnderLastId
  <1>2. TypeOK /\ PendingUnderLastId /\ [Next]_vars => PendingUnderLastId'
    BY PendingStep
  <1>3. QED
    BY <1>1, <1>2, TypeCorrect, PTL DEF Spec

\* A step that only takes a message from the client's channel.
LEMMA TailKeepsClient ==
    ASSUME TypeOK, toClient # <<>>, toClient' = Tail(toClient)
    PROVE  \A i \in 1 .. Len(toClient') : \E j \in 1 .. Len(toClient) : toClient'[i] = toClient[j]
  BY TypeParts DEF ChannelType

\* The same of the master's channel.
LEMMA TailKeepsMaster ==
    ASSUME TypeOK, toMaster # <<>>, toMaster' = Tail(toMaster)
    PROVE  \A i \in 1 .. Len(toMaster') : \E j \in 1 .. Len(toMaster) : toMaster'[i] = toMaster[j]
  BY TypeParts DEF ChannelType

\* A message more at the end of a channel.
LEMMA SentKeeps ==
    ASSUME TypeOK, NEW m, toMaster' = Sent(m)
    PROVE  \A i \in 1 .. Len(toMaster') :
              toMaster'[i] = m \/ \E j \in 1 .. Len(toMaster) : toMaster'[i] = toMaster[j]
  BY TypeParts DEF Sent, ChannelType

\* The same of the client's channel.
LEMMA AppendKeepsClient ==
    ASSUME TypeOK, NEW m, toClient' = Append(toClient, m)
    PROVE  \A i \in 1 .. Len(toClient') :
              toClient'[i] = m \/ \E j \in 1 .. Len(toClient) : toClient'[i] = toClient[j]
  BY TypeParts DEF ChannelType

-----------------------------------------------------------------------------
(***************************************************************************)
(* Encryption.  EncryptionHasKey says nothing of the handshake under way:  *)
(* a response is sent with the key of this connection set, and the         *)
(* master's good answer to it means that the connection is authenticated.  *)
(***************************************************************************)
ResponseKeyed ==
    \A i \in 1 .. Len(toMaster) : toMaster[i].type = "ChallengeResponse" => cryptoProvider = "current"

AckKeyed ==
    \A i \in 1 .. Len(toClient) :
        toClient[i].type = "ChallengeAck" =>
            cryptoProvider = "current" /\ (toClient[i].ok => challenged)

KeyInv == EncryptionHasKey /\ ResponseKeyed /\ AckKeyed

\* Taking a message from a channel keeps the key with the handshake: the key is
\* never taken away, and an authenticated connection stays so.
LEMMA TakenStaysKeyed ==
    ASSUME TypeOK, AckKeyed, cryptoProvider = "current" => cryptoProvider' = "current",
           challenged => challenged',
           \/ toClient' = toClient
           \/ toClient # <<>> /\ toClient' = Tail(toClient)
    PROVE  AckKeyed'
  BY TailKeepsClient DEF AckKeyed

\* A message that is not a response keeps it too ...
LEMMA OtherSendStaysKeyed ==
    ASSUME TypeOK, ResponseKeyed, UNCHANGED cryptoProvider, NEW m,
           m.type # "ChallengeResponse", toMaster' = Sent(m)
    PROVE  ResponseKeyed'
  BY SentKeeps DEF ResponseKeyed

\* ... and so does anything the master says that is not its verdict.
LEMMA MasterSaysKeyed ==
    ASSUME TypeOK, AckKeyed, UNCHANGED <<cryptoProvider, challenged>>, NEW m,
           m.type # "ChallengeAck", toClient' = Append(toClient, m)
    PROVE  AckKeyed'
  BY AppendKeepsClient DEF AckKeyed

\* The master takes a message.
LEMMA MasterTakesKeyed ==
    ASSUME TypeOK, ResponseKeyed, UNCHANGED cryptoProvider, NEW type, MasterTakes(type)
    PROVE  ResponseKeyed'
  BY TailKeepsMaster DEF ResponseKeyed, MasterTakes

\* Every step of the client, the cache, the network and the master keeps the key
\* with the handshake.
LEMMA KeyStep ==
    ASSUME TypeOK, KeyInv, [Next]_vars
    PROVE  KeyInv'
  <1> USE DEF clientVars, masterVars, channels
  <1>a. EncryptionHasKey /\ ResponseKeyed /\ AckKeyed
    BY DEF KeyInv
  <1>1. CASE AckOfRequest
    <2>1. UNCHANGED <<cryptoProvider, encryption, IsDisposed, challenged>> /\ toMaster' = toMaster
      BY <1>1 DEF AckOfRequest
    <2>2. toClient # <<>> /\ toClient' = Tail(toClient)
      BY <1>1 DEF AckOfRequest, Receive
    <2>3. QED
      BY <2>1, <2>2, <1>a, TakenStaysKeyed DEF KeyInv, EncryptionHasKey, ResponseKeyed
  <1>2. CASE AckUnknown
    <2>1. UNCHANGED <<cryptoProvider, encryption, IsDisposed, challenged>> /\ toMaster' = toMaster
      BY <1>2 DEF AckUnknown
    <2>2. toClient # <<>> /\ toClient' = Tail(toClient)
      BY <1>2 DEF AckUnknown, Receive
    <2>3. QED
      BY <2>1, <2>2, <1>a, TakenStaysKeyed DEF KeyInv, EncryptionHasKey, ResponseKeyed
  <1>3. ASSUME NEW v \in Loaded, ChallengeRequest(v) PROVE KeyInv'
    <2>1. cryptoProvider' = "current" /\ UNCHANGED <<encryption, IsDisposed, challenged>>
      BY <1>3 DEF ChallengeRequest
    <2>2. toClient # <<>> /\ toClient' = Tail(toClient)
      BY <1>3 DEF ChallengeRequest, Receive
    <2>3. AckKeyed'
      BY <1>a, <2>1, <2>2, TakenStaysKeyed
    <2>4. QED
      BY <1>a, <2>1, <2>3 DEF KeyInv, EncryptionHasKey, ResponseKeyed
  <1>4. ASSUME NEW v \in Loaded, ChallengeAck(v) PROVE KeyInv'
    <2>1. UNCHANGED <<cryptoProvider, IsDisposed, challenged>>
      BY <1>4 DEF ChallengeAck
    <2>2. toClient # <<>> /\ toClient' = Tail(toClient) /\ Head(toClient).type = "ChallengeAck"
      BY <1>4 DEF ChallengeAck, Receive
    <2>3. AckKeyed'
      BY <1>a, <2>1, <2>2, TakenStaysKeyed
    <2>4. cryptoProvider = "current" /\ (Head(toClient).ok => challenged)
      <3>1. 1 \in 1 .. Len(toClient) /\ Head(toClient) = toClient[1]
        BY <2>2, TypeParts DEF ChannelType
      <3>2. QED
        BY <1>a, <2>2, <3>1 DEF AckKeyed
    <2>5. CASE Head(toClient).ok
      <3>1. toMaster' = Sent([device |-> request[Asked].device, type |-> "DeviceInfo",
                              id |-> NextId(v)])
        BY <1>4, <2>5 DEF ChallengeAck, FileRequest
      <3>2. ResponseKeyed'
        BY <1>a, <2>1, <3>1, OtherSendStaysKeyed
      <3>3. QED
        BY <2>1, <2>3, <2>4, <2>5, <3>2 DEF KeyInv, EncryptionHasKey
    <2>6. CASE ~Head(toClient).ok
      <3>1. UNCHANGED <<encryption, toMaster>>
        BY <1>4, <2>6 DEF ChallengeAck
      <3>2. QED
        BY <1>a, <2>1, <2>3, <3>1 DEF KeyInv, EncryptionHasKey, ResponseKeyed
    <2>7. QED
      BY <2>5, <2>6
  <1>5. CASE ChallengeAckUnknown
    <2>1. UNCHANGED <<cryptoProvider, encryption, IsDisposed, challenged>> /\ toMaster' = toMaster
      BY <1>5 DEF ChallengeAckUnknown
    <2>2. toClient # <<>> /\ toClient' = Tail(toClient)
      BY <1>5 DEF ChallengeAckUnknown, Receive
    <2>3. QED
      BY <2>1, <2>2, <1>a, TakenStaysKeyed DEF KeyInv, EncryptionHasKey, ResponseKeyed
  <1>6. ASSUME NEW v \in Loaded, Ping(v) PROVE KeyInv'
    <2>1. UNCHANGED <<cryptoProvider, encryption, IsDisposed, challenged>>
      BY <1>6 DEF Ping
    <2>2. toClient # <<>> /\ toClient' = Tail(toClient)
      BY <1>6 DEF Ping, Receive
    <2>3. AckKeyed'
      BY <1>a, <2>1, <2>2, TakenStaysKeyed
    <2>4. toMaster' = toMaster \/ toMaster' = Sent([type |-> "Other", id |-> NextId(v)])
      BY <1>6 DEF Ping, SendOther
    <2>5. ResponseKeyed'
      <3>1. CASE toMaster' = toMaster
        BY <1>a, <2>1, <3>1 DEF ResponseKeyed
      <3>2. CASE toMaster' = Sent([type |-> "Other", id |-> NextId(v)])
        BY <1>a, <2>1, <3>2, OtherSendStaysKeyed
      <3>3. QED
        BY <2>4, <3>1, <3>2
    <2>6. QED
      BY <1>a, <2>1, <2>3, <2>5 DEF KeyInv, EncryptionHasKey
  <1>7. CASE DeviceInfo
    <2>1. UNCHANGED <<cryptoProvider, encryption, IsDisposed, challenged>> /\ toMaster' = toMaster
      BY <1>7 DEF DeviceInfo
    <2>2. toClient # <<>> /\ toClient' = Tail(toClient)
      BY <1>7 DEF DeviceInfo, Receive
    <2>3. QED
      BY <2>1, <2>2, <1>a, TakenStaysKeyed DEF KeyInv, EncryptionHasKey, ResponseKeyed
  <1>8. ASSUME NEW v \in Loaded, Answer(v) PROVE KeyInv'
    <2>1. UNCHANGED <<cryptoProvider, encryption, IsDisposed, challenged>>
      BY <1>8 DEF Answer
    <2>2. toClient # <<>> /\ toClient' = Tail(toClient)
      BY <1>8 DEF Answer, Receive
    <2>3. AckKeyed'
      BY <1>a, <2>1, <2>2, TakenStaysKeyed
    <2>4. toMaster' = Sent([type |-> "Other", id |-> NextId(v)])
      BY <1>8 DEF Answer, SendOther
    <2>5. ResponseKeyed'
      BY <1>a, <2>1, <2>4, OtherSendStaysKeyed
    <2>6. QED
      BY <1>a, <2>1, <2>3, <2>5 DEF KeyInv, EncryptionHasKey
  <1>9. CASE Event
    <2>1. UNCHANGED <<cryptoProvider, encryption, IsDisposed, challenged>> /\ toMaster' = toMaster
      BY <1>9 DEF Event
    <2>2. toClient # <<>> /\ toClient' = Tail(toClient)
      BY <1>9 DEF Event, Receive
    <2>3. QED
      BY <2>1, <2>2, <1>a, TakenStaysKeyed DEF KeyInv, EncryptionHasKey, ResponseKeyed
  <1>10. ASSUME NEW v \in Loaded, NEW u \in updating, UpdateDeviceInfo(v, u) PROVE KeyInv'
    <2>1. UNCHANGED <<cryptoProvider, encryption, IsDisposed, challenged>>
      BY <1>10 DEF UpdateDeviceInfo
    <2>2. toClient' = toClient
      BY <1>10 DEF UpdateDeviceInfo
    <2>3. AckKeyed'
      BY <1>a, <2>1, <2>2, TakenStaysKeyed
    <2>4. toMaster' = Sent([type |-> "Other", id |-> NextId(v)])
      BY <1>10 DEF UpdateDeviceInfo, SendOther
    <2>5. ResponseKeyed'
      BY <1>a, <2>1, <2>4, OtherSendStaysKeyed
    <2>6. QED
      BY <1>a, <2>1, <2>3, <2>5 DEF KeyInv, EncryptionHasKey
  <1>11. ASSUME NEW u \in updating, DeviceOnline(u) PROVE KeyInv'
    <2>1. UNCHANGED <<cryptoProvider, encryption, IsDisposed, challenged>> /\ UNCHANGED <<toMaster, toClient>>
      BY <1>11 DEF DeviceOnline
    <2>2. QED
      BY <2>1, <1>a DEF KeyInv, EncryptionHasKey, ResponseKeyed, AckKeyed
  <1>12. ASSUME NEW u \in updating, UpdateThrows(u) PROVE KeyInv'
    <2>1. UNCHANGED <<cryptoProvider, encryption, IsDisposed, challenged>> /\ UNCHANGED <<toMaster, toClient>>
      BY <1>12 DEF UpdateThrows
    <2>2. QED
      BY <2>1, <1>a DEF KeyInv, EncryptionHasKey, ResponseKeyed, AckKeyed
  <1>13. ASSUME NEW t \in cached, RequestExpires(t) PROVE KeyInv'
    <2>1. UNCHANGED <<cryptoProvider, encryption, IsDisposed, challenged>> /\ UNCHANGED <<toMaster, toClient>>
      BY <1>13 DEF RequestExpires
    <2>2. QED
      BY <2>1, <1>a DEF KeyInv, EncryptionHasKey, ResponseKeyed, AckKeyed
  <1>14. ASSUME NEW d \in pinged, PingExpires(d) PROVE KeyInv'
    <2>1. UNCHANGED <<cryptoProvider, encryption, IsDisposed, challenged>> /\ UNCHANGED <<toMaster, toClient>>
      BY <1>14 DEF PingExpires
    <2>2. QED
      BY <2>1, <1>a DEF KeyInv, EncryptionHasKey, ResponseKeyed, AckKeyed
  <1>15. CASE CacheEmptied
    <2>1. UNCHANGED <<cryptoProvider, encryption, IsDisposed, challenged>> /\ UNCHANGED <<toMaster, toClient>>
      BY <1>15 DEF CacheEmptied
    <2>2. QED
      BY <2>1, <1>a DEF KeyInv, EncryptionHasKey, ResponseKeyed, AckKeyed
  <1>16. ASSUME NEW v \in Loaded, NEW d \in Devices, CreateDeviceInfo(v, d) PROVE KeyInv'
    <2>1. UNCHANGED <<cryptoProvider, encryption, IsDisposed, challenged>>
      BY <1>16 DEF CreateDeviceInfo
    <2>2. toClient' = toClient
      BY <1>16 DEF CreateDeviceInfo
    <2>3. AckKeyed'
      BY <1>a, <2>1, <2>2, TakenStaysKeyed
    <2>4. toMaster' = Sent([device |-> d, type |-> "DeviceInfo", id |-> NextId(v)])
      BY <1>16 DEF CreateDeviceInfo, FileRequest
    <2>5. ResponseKeyed'
      BY <1>a, <2>1, <2>4, OtherSendStaysKeyed
    <2>6. QED
      BY <1>a, <2>1, <2>3, <2>5 DEF KeyInv, EncryptionHasKey
  <1>17. ASSUME NEW v \in Loaded, SendMessage(v) PROVE KeyInv'
    <2>1. UNCHANGED <<cryptoProvider, encryption, IsDisposed, challenged>>
      BY <1>17 DEF SendMessage
    <2>2. toClient' = toClient
      BY <1>17 DEF SendMessage
    <2>3. AckKeyed'
      BY <1>a, <2>1, <2>2, TakenStaysKeyed
    <2>4. toMaster' = Sent([type |-> "Other", id |-> NextId(v)])
      BY <1>17 DEF SendMessage, SendOther
    <2>5. ResponseKeyed'
      BY <1>a, <2>1, <2>4, OtherSendStaysKeyed
    <2>6. QED
      BY <1>a, <2>1, <2>3, <2>5 DEF KeyInv, EncryptionHasKey
  <1>18. CASE Dispose
    <2>1. toMaster' = <<>> /\ toClient' = <<>>
      BY <1>18 DEF Dispose
    <2>2. ResponseKeyed' /\ AckKeyed'
      BY <2>1 DEF ResponseKeyed, AckKeyed
    <2>3. EncryptionHasKey'
      BY <1>18, <1>a DEF Dispose, EncryptionHasKey
    <2>4. QED
      BY <2>2, <2>3 DEF KeyInv
  <1>19. CASE GoOffline
    <2>1. toMaster' = <<>> /\ toClient' = <<>>
      BY <1>19 DEF GoOffline
    <2>2. ResponseKeyed' /\ AckKeyed'
      BY <2>1 DEF ResponseKeyed, AckKeyed
    <2>3. EncryptionHasKey'
      BY <1>19, <1>a DEF GoOffline, EncryptionHasKey
    <2>4. QED
      BY <2>2, <2>3 DEF KeyInv
  <1>20. CASE GoOnline
    <2>1. UNCHANGED <<cryptoProvider, encryption, IsDisposed, challenged>> /\ UNCHANGED <<toMaster, toClient>>
      BY <1>20 DEF GoOnline
    <2>2. QED
      BY <2>1, <1>a DEF KeyInv, EncryptionHasKey, ResponseKeyed, AckKeyed
  <1>21. CASE MasterAccepts
    <2>1. UNCHANGED <<cryptoProvider, encryption, IsDisposed, challenged>>
      BY <1>21 DEF MasterAccepts
    <2>2. ResponseKeyed'
      BY <1>21, <1>a, <2>1, MasterTakesKeyed DEF MasterAccepts
    <2>3. AckKeyed'
      BY <1>21, <1>a, <2>1, MasterSaysKeyed DEF MasterAccepts
    <2>4. QED
      BY <1>a, <2>1, <2>2, <2>3 DEF KeyInv, EncryptionHasKey
  <1>22. CASE MasterChallenges
    <2>1. UNCHANGED <<cryptoProvider, encryption, IsDisposed, challenged>>
      BY <1>22 DEF MasterChallenges
    <2>2. ResponseKeyed'
      BY <1>22, <1>a, <2>1, MasterTakesKeyed DEF MasterChallenges
    <2>3. AckKeyed'
      BY <1>22, <1>a, <2>1, MasterSaysKeyed DEF MasterChallenges
    <2>4. QED
      BY <1>a, <2>1, <2>2, <2>3 DEF KeyInv, EncryptionHasKey
  <1>23. CASE MasterIgnores
    <2>1. UNCHANGED <<cryptoProvider, encryption, IsDisposed, challenged>> /\ toClient' = toClient
      BY <1>23 DEF MasterIgnores
    <2>2. ResponseKeyed'
      BY <1>23, <1>a, <2>1, MasterTakesKeyed DEF MasterIgnores
    <2>3. QED
      BY <1>a, <2>1, <2>2 DEF KeyInv, EncryptionHasKey, AckKeyed
  <1>24. CASE MasterAuthenticates
    <2>1. UNCHANGED <<cryptoProvider, encryption, IsDisposed>> /\ (challenged => challenged')
      BY <1>24 DEF MasterAuthenticates
    <2>2. ResponseKeyed'
      BY <1>24, <1>a, <2>1, MasterTakesKeyed DEF MasterAuthenticates
    <2>3. PICK ok \in BOOLEAN :
             /\ toClient' = Append(toClient, [type |-> "ChallengeAck",
                                              id |-> Head(toMaster).id, ok |-> ok])
             /\ ok => challenged'
      BY <1>24 DEF MasterAuthenticates
    <2>4. cryptoProvider = "current"
      <3>1. 1 \in 1 .. Len(toMaster) /\ Head(toMaster) = toMaster[1]
            /\ Head(toMaster).type = "ChallengeResponse"
        BY <1>24, TypeParts DEF MasterAuthenticates, MasterTakes, ChannelType
      <3>2. QED
        BY <1>a, <3>1 DEF ResponseKeyed
    <2>5. AckKeyed'
      BY <1>a, <2>1, <2>3, <2>4, AppendKeepsClient DEF AckKeyed
    <2>6. QED
      BY <1>a, <2>1, <2>2, <2>5 DEF KeyInv, EncryptionHasKey
  <1>25. CASE MasterTakesOther
    <2>1. UNCHANGED <<cryptoProvider, encryption, IsDisposed, challenged>>
      BY <1>25 DEF MasterTakesOther
    <2>2. ResponseKeyed'
      BY <1>25, <1>a, <2>1, MasterTakesKeyed DEF MasterTakesOther
    <2>3. CASE toClient' = toClient
      BY <1>a, <2>1, <2>2, <2>3 DEF KeyInv, EncryptionHasKey, AckKeyed
    <2>4. CASE toClient' = Append(toClient, [type |-> "Ack", id |-> Head(toMaster).id])
      <3>1. AckKeyed'
        BY <1>a, <2>1, <2>4, MasterSaysKeyed
      <3>2. QED
        BY <1>a, <2>1, <2>2, <3>1 DEF KeyInv, EncryptionHasKey
    <2>5. QED
      BY <1>25, <2>3, <2>4 DEF MasterTakesOther
  <1>26. ASSUME NEW d \in Devices, MasterPings(d) PROVE KeyInv'
    <2>1. UNCHANGED <<cryptoProvider, encryption, IsDisposed, challenged>> /\ toMaster' = toMaster
      BY <1>26 DEF MasterPings
    <2>2. AckKeyed'
      BY <1>26, <1>a, <2>1, MasterSaysKeyed DEF MasterPings
    <2>3. QED
      BY <1>a, <2>1, <2>2 DEF KeyInv, EncryptionHasKey, ResponseKeyed
  <1>27. CASE MasterChallengesOther
    <2>1. UNCHANGED <<cryptoProvider, encryption, IsDisposed, challenged>>
      BY <1>27 DEF MasterChallengesOther
    <2>2. ResponseKeyed'
      BY <1>27, <1>a, <2>1, MasterTakesKeyed DEF MasterChallengesOther
    <2>3. AckKeyed'
      BY <1>27, <1>a, <2>1, MasterSaysKeyed DEF MasterChallengesOther
    <2>4. QED
      BY <1>a, <2>1, <2>2, <2>3 DEF KeyInv, EncryptionHasKey
  <1>28. ASSUME NEW t \in {"DeviceInfo", "Request", "Event"}, MasterTells(t) PROVE KeyInv'
    <2>1. UNCHANGED <<cryptoProvider, encryption, IsDisposed, challenged>> /\ toMaster' = toMaster
      BY <1>28 DEF MasterTells
    <2>2. AckKeyed'
      BY <1>28, <1>a, <2>1, MasterSaysKeyed DEF MasterTells
    <2>3. QED
      BY <1>a, <2>1, <2>2 DEF KeyInv, EncryptionHasKey, ResponseKeyed
  <1>29. CASE UNCHANGED vars
    <2>1. UNCHANGED <<cryptoProvider, encryption, IsDisposed, challenged>> /\ UNCHANGED <<toMaster, toClient>>
      BY <1>29 DEF vars
    <2>2. QED
      BY <2>1, <1>a DEF KeyInv, EncryptionHasKey, ResponseKeyed, AckKeyed
  <1>30. QED
    BY <1>1, <1>2, <1>3, <1>4, <1>5, <1>6, <1>7, <1>8, <1>9, <1>10, <1>11, <1>12,
       <1>13, <1>14, <1>15, <1>16, <1>17, <1>18, <1>19, <1>20, <1>21, <1>22, <1>23,
       <1>24, <1>25, <1>26, <1>27, <1>28, <1>29
       DEF Next, OnDataReceived, Continuation, Cache, Users, Network, MasterReplies,
       MasterSpeaks

\* Nothing is encrypted before a key is set and the master has authenticated the
\* connection, whatever arrives in whatever order, late or repeated.
THEOREM EncryptedOnlyWithKey == Spec => []EncryptionHasKey
  <1>1. Init => KeyInv
    BY DEF Init, KeyInv, EncryptionHasKey, ResponseKeyed, AckKeyed
  <1>2. TypeOK /\ KeyInv /\ [Next]_vars => KeyInv'
    BY KeyStep
  <1>3. KeyInv => EncryptionHasKey
    BY DEF KeyInv
  <1>4. QED
    BY <1>1, <1>2, <1>3, TypeCorrect, PTL DEF Spec
==============================================================================
