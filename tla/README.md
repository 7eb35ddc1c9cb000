# ICSP-Control in TLA+

ICSP-Control connects touch panels (a Windows program, `ICSP.Control`, and web
panels through the proxy `ICSP.WebProxy`) to an AMX NetLinx controller, "the
master", over the ICSP protocol. The library both use is `ICSP.Core`. This
directory holds TLA+ models of the parts that keep protocol state, TLC runs on
small instances, and TLAPS proofs for instances of every size.

## Inventory

| Component | State | Operations | Talks to |
|---|---|---|---|
| `ICSPClient` (Core/Client) | `mSocket`, `mStream`, `mTaskConnectAsyncRunning`, `EncryptionMode`, `CryptoProvider`, one `ReadAsync` loop per connection | `ConnectAsync`, `Disconnect`, `SendAsync`, `Dispose`, the loop | the TCP peer; raises `DataReceived` and `ClientOnlineStatusChanged` to `ICSPManager` |
| packet reassembly (inside `ReadAsync`) | `lBytes`, the bytes left over | cut packets out of partial reads | `MsgFactory` |
| `ICSPMsg`, `MsgFactory`, `MsgCmd*`, `ICSPEncryptedMsg`, `RC4` | the static counter `MsgId`, the key state of the RC4 provider | `Serialize`, parse, encrypt, decrypt | everything that sends |
| `ICSPManager` | `mDevices`, `mPendingDevicesRequests`, `MemoryCache`, `CurrentSystem`, system and credentials | `CreateDeviceInfoAsync`, `OnDataReceived` (one case per command), cache expiry, online/offline, `Dispose` | `ICSPClient` below, panels above, `FileManager` |
| `FileManager` | names and buffers of the file being received and of the file being sent, sizes read from the manifest, the disk | one handler per file transfer function | `ICSPManager.SendAsync`, the disk |
| `ProxyClient` | an `ICSPManager` of its own, its device number, the devices the master listed, connection timer, `mIsDisposed` | `InvokeAsync`, timer, manager events, web messages, `Dispose` | its manager, the web socket, the configuration object all panels share |
| `ICSPConnectionManager` | managers by host and port, in fact always empty | `Remove`; `GetOrCreate` and `TryAdd` are never called | `ProxyClient` |
| `WebSocketHandler`, `ConnectionManager`, `WebSocketProxyClient` | open sockets, shared cancellation token | accept, receive loop, broadcast, close | browsers |
| `ModuleWebControlConverter` | none | text command to ICSP message and back | `ProxyClient` |
| `FileTransferPostProcessor` | lists built in one pass | panel files to JSON | the disk |
| `DlgMain` and dialogs | enabled buttons | connect, disconnect, traces | `ICSPManager` |

What is hard: `ICSPClient` keeps its socket, stream and encryption in plain
fields that every `await` lets others change; `OnDataReceived` is `async void`,
so what follows its awaits runs after later messages and after a disconnect;
replies are matched to requests by a 16-bit counter that wraps and that every thread
increments without a lock; entries of a
process-wide `MemoryCache` expire at any time; the devices that the window creates
share one `ICSPManager` and with it one `FileManager`; web panels, each with a
manager of its own, share the master's device numbers and one configuration object
that any query string overwrites; a panel's timer, delayed connect and `Dispose`
race; one RC4 provider without a lock encrypts what every thread sends and decrypts
what the read loop reads; reads cut the byte stream anywhere. What makes the parts correct: one live connection that is read and whose loss is noticed; a device is
registered exactly when the master acknowledged it; encryption belongs to the
session that negotiated it; messages arrive once, unchanged and in order; a file arrives as it was sent; a panel takes a free
device number or is closed, and leaves nothing running behind.

`PROJECT.json` lists every component with its status, and under `hazards` every
place in the code where such a thing can go wrong, with the property that would
show it.

## Modules

### `IcspClient`

State: the fields above; per `TcpClient` its state (`unused`, `connecting`,
`open`, `shutdown` after `Disconnect`, `failed`, `closed`), whether the peer has
closed it and the packets it holds unread; per thread where it is in
`ConnectAsync`; per read loop its program counter, the stream it awaits and the
packet it has. One action per piece of code between two awaits:

- `ConnectAsync`: `Dial` (up to the name lookup), `Resolved` or `DnsFails`, then
  `Established`, `Refused` or `TimedOut`, then `Attach` or `AttachFails`, then
  `Announce` (the online event);
- the loop: `ReadPacket`, `HandlePacket`, `ReadEnds` (`OnClientDisconnected` up to
  the event), `ForgetSocket` (its last statement, `mSocket = null`);
- `Disconnect`, `SendFails`, `Dispose`; the peer's `PeerSends`, `PeerCloses` and a
  handshake that completes late, `OrphanConnects`.

The constant `Hosts` says which of the two programs are considered, the variable
`host` which one it is: on the thread pool of the proxy (`"pool"`) all of
these interleave; in the window (`UiThread`) `MayRun` and `MayResume` state that one thread
runs them and that `DlgMain` enables its buttons by the last event. The
`TcpClient` semantics are those of .NET Core: `Connected` of a closed client is
false, other members throw. A read into a buffer without room (allocated while
`mSocket` was null) returns 0 when data arrives. The .NET Framework quirk that
`Connected` itself throws after `Close` is not modelled.

### `IcspManager`

State: message counter, request objects, the pending table (ID to request), the
two kinds of cache entries, `mDevices`, the continuations of Ack handlers, an
ordered channel each way, and what the master has accepted. One action per case
of `OnDataReceived` up to its first await; `UpdateDeviceInfo` and `DeviceOnline`
are the continuation, one message at a time. `RequestExpires`, `PingExpires` and
`CacheEmptied` are `MemoryCache`; `GoOffline` is `OnClientDisconnected` with
`OnClientOnlineStatusChanged`. The master is external: it accepts a device,
challenges it or another message (MD5), ignores it while starting up, accepts or
rejects a login, pings devices it knows.

`ID = ++MsgId` (ICSPMsg.cs:112) is a load and a store of a static field. On the
window's thread (`UiThread`) nothing comes between the two. On the pool a thread may
store the successor of any value that the counter has had (`Loaded`): two messages
then have one ID although nothing has wrapped. `MsgId` counts on where its 16 bits
wrap and `NextId` takes the remainder; `reached` is its highest value so far.

`DeviceRegistry` is what the users of a manager rely on, three sets: devices asked
for, acknowledged by the master, registered. `IcspManager` implements it
(`IsRegistry`) with `asked` the devices of its request objects, `acknowledged` what
the master accepted on this connection, `registered` `mDevices`. Its `Lose`, all
registrations go with the connection, is what the code does and not what the comment
in `OnClientOnlineStatusChanged` says ("Do not remove devices!"): `PingFindsDevice`
states the comment, and `manager_restart` shows that the code does not keep it.

### `IcspWire`, with `Rc4Box` and `Rc4`

One connection as bytes. `Rc4Box` holds the pure functions of `RC4.cs`: key
schedule, salting, keystream. `Rc4` is the provider object with its fields
`KeyValue`, `mI`, `mJ`; `TransformBlock` is `BeginBlock`, one `TransformByte` per
byte and `EndBlock`, so that calls of two threads interleave. (A race inside one
step of `PRGA` is not split further; the step per byte already mixes keystreams.)
`IcspWire` adds the threads: a sender goes through `LoadMsgId` and `Serialize` (the
two halves of `++MsgId`), then `SendPlain`, or `SendEncrypted`, `Transform` and
`WriteEncrypted`; the read loop through `ReadAsync` (any number of bytes),
`PlainPacket` or `EncryptedPacket`, `Transform` and `Decrypted`, and `AwaitMore`
when no whole packet is left. A salt shorter than four bytes, which leaves the
provider unsalted, and a first byte of no known protocol come from no master of the
model; the branch for the latter is in `AwaitMore`. On the window's thread the reader
and the senders take turns (`MayRun`); handlers that send between two packets, or
`Application.DoEvents` in the file dialog, only start a sender at a point where no
`TransformBlock` is under way, which `MayRun` allows as well. The session is plain or encrypted, on one UI thread
or on the pool. Packets are real sequences of bytes of `Width` bits with length
field and checksum, with scaled-down headers. What loops over bytes in the code
(key schedule, checksum, keystream, and exclusive or over the bits of a byte) is a
recursive function, which both TLC and the proofs can unfold.

Two abstract specifications: `MessageChannel`, a FIFO channel from the master to
`OnDataReceived`, which `IcspWire` implements (`DeliveredInOrder`, `AllDelivered`);
and `CipherPerCall`, a cipher that gives each call its own copy of the key, which
the shared provider implements as long as calls do not overlap (`ActsPerCall`).

### `FileManager`

State: the four buffer fields, the directory listings under way, the disk, and
per panel what the master is doing with it. Handlers keep their names from
`FunctionsAxcess2Tokens` and `FileTransferFunction`; a handler is one step with
its answer, a listing is `GetDirectoryInfo` (header), `ReadDirectory`, then one
`SendEntry` per await. Bytes are abstract, but what `TransferFileDataComplete`
does to XML files is kept: archives are unpacked, documents reformatted,
encrypted or damaged ones stored as they came, anything below two bytes ignored.
Writing into a directory that does not exist fails and is acknowledged all the
same. The entries of subdirectories in a listing, which differ from those of files in
a flag and the size only, are left out.

### `ProxyClient`

Per web panel: the web socket with its processing loop, the delayed task of
`InvokeAsync`, the timer and its callback, how far `Dispose` has got, the connection
attempt, and the way to a registered device (`stage`). Shared: the configured
`Devices` and the numbers online at the master.

- `InvokeAsync`, then `DelayOver` a second later, which starts the timer and calls
  `ConnectAsync`; `Resolved`, `ClientOnline` and `AttemptFails` are the attempt;
- `TimerFires`, `OnConnectionTimerElapsed` (up to its await), `StartConnectionTimer`
  (the conditions after it) and `NewTimer`: `Dispose` may come between any two;
- `ClientOnline` stops the timer and asks for a dynamic device;
  `OnDynamicDeviceCreated`, `MasterListsDevices`, one `OnDeviceInfo` per device and
  `CreateDeviceInfo` at the end of the list choose a number, `OnManagerDeviceOnline`
  ends the registration;
- `DisposeManager` and `DisposeRest` are `Dispose` before and from
  `mConnectionManager.Remove`, which throws without a host. The `using` declaration
  and the service scope each call it, hence the second round.

`ICSPManager` is reduced to what a panel sees: attempts, online and offline, disposed.
Left out: the messages of a running panel (`OnWebMessage` and the manager's channel,
level, string and command events, which only translate), the fields set for the
converter, port counts, an attempt that returns unconnected without an exception, and a
`Dispose` between the two event subscriptions of `ICSPManager.ConnectAsync`. Never taken by the code, hence not in the model: the branch
for a manager already connected after the delay and the one for a device the manager
already has (the manager is new), and `DeviceOffline`, which is never raised.

`MCIcspClient`, `MCIcspManager`, `MCIcspWire`, `MCFileManager` and `MCProxyClient` are
the finite instances; those of them that need it define values for TLC.

## Runs

| Run | Shows |
|---|---|
| `client` | Two callers, two sockets, on the pool and in the window: a connection reported as Connected has its own read loop (`ConnectedIsRead`), whatever late loops did; one the peer closed leaves `mSocket` (`PeerCloseNoticed`). In the window also: one live socket (`WindowHasOneOpen`), one loop per stream, encryption tied to the session. |
| `client_leak` (violation) | On the thread pool `AtMostOneOpen` fails: a late `OnClientDisconnected` forgets the socket of a newer `ConnectAsync`. |
| `client_threw` (violation) | After a packet that cannot be parsed, `Disconnect` is never noticed. |
| `manager` | In the window, IDs not wrapped: pending requests sit under their last ID; registered means acknowledged, in both directions; encryption is only on with the key of this connection; the manager implements `DeviceRegistry`; a device asked for comes online unless the master refuses it or the connection goes. |
| `manager_wrap` (violation) | Once IDs wrap onto a request never answered, the wrong device is registered. |
| `manager_race` (violation) | On the pool a registration and another message get one ID; the challenge of the other takes the request away and the accepted device's Ack finds nothing (`NoAcceptedLost`). |
| `manager_restart` (violation) | A ping after a disconnect finds the device gone, against "Do not remove devices! After restart Master controller, master does ping ...". |
| `files` | On one manager, one panel (registered device) written to, another read from: files arrive whole (`UploadStored`, `DownloadIsFile`); transfers and listings end. |
| `proxy` | Two web panels, one with a device in its query string: none takes a number the master listed as online (`ChosenWasFree`), every browser gets a device or is closed (`PanelServed`), the timer of a disposed panel stays off (`DisposedRests`). |
| `proxy_early` (violation) | A browser that leaves within the first second: `Dispose` throws half-way and the panel's timer runs for ever. |
| `wire` | Plain sessions on the pool and all sessions of the window: messages arrive once, unchanged and in order, whatever the reads cut (`DeliveredInOrder`, `AllDelivered`); the master can read what is sent (`SentReadable`); the shared provider acts as one per call (`ActsPerCall`). |
| `wire_race` (violation) | An encrypted session on the pool: a sender and the read loop use the provider at once and a message arrives garbled. |

Bounds. `Sockets` bounds the connections of a run: two are needed for an old loop
and the connection it disturbs, and a third in `client_leak` for the one opened
beside it; two callers
suffice because `mTaskConnectAsyncRunning` admits one at a time; `MaxInbox` = 1
makes each packet kind arrive in each state. In `IcspManager`, `MaxRequests` bounds
the registrations asked for and `MaxOps` the other operations begun
by users, master and network, not the steps they take: two and one cover two requests,
each with its challenge and the request that follows it, and a disconnect, a ping, a
challenge of another message or a message in between. `IdMod` is 64 where
IDs must not wrap (no run builds that many) and 4 where they must. `ChannelCount` and
`LevelCount` are the defaults, for which no message is sent; the port adds two. In
`IcspWire` a byte has `Width` = 3 bits, the least that holds the protocol values 2
and 4; a table of 8 entries and a salt of one byte keep what matters of RC4: the
salt changes the table in place and the keystream depends on all calls since. Two
payloads (none, one byte) give two packet sizes, two messages each way a packet and a
half in one read; `ReceiveBufferSize` = 12 is less than two encrypted packets;
`FirstIds` = {7} makes `MsgId` wrap. In
`FileManager`, `JunkSizeMax` = 2 with files of 0 to 3 bytes (the manifest may be empty) gives none, one whole
and one cut piece; `MaxOps` = 4 allows a broken-off transfer, a reconnect and two
more transfers. One device is written to and another read from: the send buffer and
the receive buffer are single fields, and with two `Downloaders` of two files TLC finds
`DownloadIsFile` violated, since `TransferGetFile` does not look at its token.
`BaseIsCurrent` is true; when it is false, the case of a configured `BaseDirectory`,
the sizes of the manifest are never used. `ProxyClient` needs no bound on operations: a panel lives once and its
state is finite. One timer callback per panel is under way at a time (a tick comes
only every 5 s). Two panels and two numbers give a free number, a collision and a full
range; `HostResolves` is true in both runs, so that `proxy_early` shows the missing
host alone. Deadlock is not checked: once the bounded operations are used up
the systems may rest.

Fairness. `IcspClient`: a continuation that can run is run and a `ConnectAsync`
that has begun goes on, which the thread pool and the bounded `Task.Wait`
justify; nothing is assumed of users or peer. `IcspManager` and `FileManager`:
received messages are handled, continuations run, and the master answers; the
last is an assumption about the peer, and the liveness properties say what
follows from it. `ProxyClient`: the pool runs callbacks and continuations, timers go
off, attempts end (`ICSPClient` waits for a bounded time), the master answers and a
browser answers a close frame; browsers need not come or leave, nor the master close.
`IcspWire`: a sender that has begun and a reader that can run go on; nobody has to send.

## Proofs

`IcspClientProofs` proves, for any sets of sockets and callers and for both
hosts, that `TypeOK` and `ConnectedIsRead` are invariants of `Spec`.
`ConnectedIsRead` is not inductive: it says nothing of a connection still being
made. The inductive invariant `IInv` adds

- `OneConnector`: past the `Interlocked` guard one thread at a time, and `mSocket`
  is then its own socket or null: others only null it;
- `FreshSockets`: a socket not yet made is named nowhere, a running loop has a stream;
- `LoopOfCurrent`: if the socket in `mSocket` has a loop then `mStream` is that
  socket too, so the loop that reads the field again stays on it.

Each part has a lemma with one step per action; `Invariance` combines them.

The same module proves the three properties of the
window, each conditioned on `UiThread`: `WindowHasOneConnection`, `WindowHasOneLoop`, `WindowEncryptionFollows`. They
rest on one argument, the invariant `WInv`, which adds to `IInv`

- `OneThread`: while `ConnectAsync` blocks the window there is no loop, and a loop
  outside it means that `DlgMain` has seen "online" and disabled Connect;
- `OneLoop`: at most one loop runs, on the stream of the current socket, or of the
  one that `Dispose` closed;
- `OnlyCurrentOpen`: a socket connecting or open is the one in `mSocket`;
- `EncryptionFollows`: RC4 is on only in the session of the current socket, and off
  before the button for the next connection is enabled.

None of the three properties is inductive: a second connection is kept away only
because the loop of the first has ended and told the window so. On the thread pool
`client_leak` shows the first of them violated. The only assumption is
`ClientConstants`.

`ProxyClientProofs` proves, for any panels, device numbers and query strings, that
`TypeOK` and `ChosenWasFree` are invariants of `Spec`. `ChosenWasFree` speaks of a
number once it is chosen; `TreeKnown` adds why it was free: while the master lists, a
panel has its dynamic device, so no entry is ignored, and each number that was online
is in `mDevices` or still to come; at the end of the list nothing is to come. A lost
connection ends the listing, a new one starts it from nothing. The only assumption is
`ProxyConstants`.

`IcspManagerProofs` proves, for any devices, size of the ID space (so also once IDs
have wrapped), ports and operations, in the window and on the pool (so also when IDs
are given twice):

- `TypeCorrect`: the four parts `RequestType`, `ChannelType`, `DeviceType` and
  `FlagType` are each kept by every action;
- `OneIdPerRequest`: `PendingUnderLastId` is inductive given the types;
  `RequestsKept` says what a step may do to the request objects, `FileRequestFiles`
  that a new request disturbs no filed one;
- `EncryptedOnlyWithKey`: `EncryptionHasKey` is strengthened by the handshake under
  way, `ResponseKeyed` (a response is sent with the key of its connection set) and
  `AckKeyed` (the
  master's good verdict is under way only on an authenticated connection).

`IcspManagerIsRegistry` proves, on one thread (`UiThread`) and as long as fewer
messages than IDs have been built (`NoWrap`), that registered devices were acknowledged (`RegisteredWereAcknowledged`)
and that `IcspManager` implements `DeviceRegistry` (`ImplementsRegistry`). Neither is
inductive: what an `Ack` registers depends on what was filed under its ID when it was
sent. `RegInv` says of every message under way that its ID has been drawn, that a
`DeviceInfo` names the device of the request filed under its ID, that nobody waits for
the ID of an `Other` message, and that an `Ack` which finds a request finds an accepted
device. `Later` is what a step may do to counter, requests and table: requests keep
their devices and an ID already drawn gets no request. So a message stays as it was
(`MasterMsgKept`, `ClientMsgKept`) and only the new ones have to be looked at
(`MasterAddsStep`, `ClientAddsStep`). Both hypotheses are needed: each excludes one way
in which two messages get one ID. `manager_wrap` shows what happens without `NoWrap`,
`manager_race` without `UiThread`.

The converse, `AcceptedAreKept`: under the same two hypotheses, a device the master accepted is
registered or the message that registers it is still under way (`NoAcceptedLost`).
An `Ack` under way is worth something only if its request is still filed when it
arrives, and an answer takes the request with its ID out of the table. So `KeepInv` adds
`OneBearer`, an ID is on one message under way in either direction, hence no other
answer can take the request away, and `RegistrationFiled`, a `DeviceInfo` on its
way to the master has its request filed.

The only assumption of both modules is `ManagerConstants`.

`IcspWireProofs` proves `SharedProviderIsSafe`: if no session is both encrypted and on
the thread pool (`NoOverlap`), `Spec` implements `CipherPerCall`, for any threads, key,
salts, payloads and bounds. The invariant says that an encrypted session is on one thread
(`SessionInv`), that on one thread only one call can be under way (`TurnInv`,
`CallInv`), and that with no call under way the table is the scheduled key
(`KeyInv`); then the call under way is the owner of the box and every
step maps to a step of `CipherPerCall`. `wire_race` shows what happens
without `NoOverlap`.

`FileManagerProofs` proves `TypeCorrect` for any panels, names, contents, piece size
and number of operations, and, with at most one panel written to and one read from
per manager (`OneUploader`, `OneDownloader`; a proxy panel has a manager of its own,
and the two may be the same panel), `UploadsAreStored` and `DownloadsAreTheFile`.
The properties speak of the end of a transfer; `TransferInv` says where every
transfer is. The master does one thing at a time with a panel, so one request or its
answer is under way per panel (`OneOut`); and for each kind of message it says how the
buffer of the manager, the bytes the message carries and what the master still has
together make the whole file (`RequestFits`, `AnswerFits`). Two panels touch different
buffers when one is written to and the other read from, which is all that
`RequestFramed` and `AnswerFramed` need to carry the rest of the channels over a step.
Without the two hypotheses the statement is false: the buffers are single fields of the
manager. The only assumption is `FileConstants`.

`Rc4Proofs` and `IcspWireDelivers` prove what a connection does to bytes, for any
width of a byte of at least 3 bits, any key, salts, threads, reads, and messages whose
size fits the length field (`PayloadsFit`; in the code the length is a cast to
`ushort`):

- `TypeCorrect`, in every session, overlapping calls included;
- `SentCanBeRead`: with `NoOverlap`, the master decodes each packet written to the
  message it was built from;
- `ArrivesInOrder`: with `NoOverlap`, `Spec` implements `MessageChannel`.

The argument has three layers.

1. *Functions.* The library's induction theorems take a predicate as parameter, which
   the provers cannot instantiate. `NatSetInduction` is induction for a set instead,
   from the well-foundedness of `<` on the naturals; `Recursion` and `RecursionType`
   give existence and type of a function defined step by step. With them:
   `XorUndoes` (exclusive or undoes itself), `SetKeyType`, `GeneratorType`,
   `ChecksumType`, `MasterBoxGoes`, and from these `CipherUndoes` (the same salt
   twice gives the data back), `RawShape` (parsing a serialised message gives the
   message) and `EncryptedShape` (salt and data are found where the reader looks).
2. *The stream.* The bytes collected in `lBytes` and those on the way are, together,
   the packets `q` of the messages after the first `n`, one after the other
   (`Flight(q, n)`; `Cut` says where each packet ends). A read moves bytes between the
   two and changes nothing (`ReadMoves`), so it does not matter where it cuts; a whole
   packet at the head is `q[1]` (`FlightHead`, `FlightTake`), the master appends
   (`FlightSend`). The loop therefore never sees an unknown protocol and never throws
   bytes away (`AwaitKeeps`). This holds in every session and gives the types.
3. *The calls.* `Halfway` says of a call of `TransformBlock` which bytes it has made
   and that the provider's box is where a box of its own would be. It survives other
   threads because there is one call at a time (`FreshKey`, `OneCall` of
   `IcspWireProofs`, hence `NoOverlap`). At its end the data are the master's cipher of
   what it began with, which `CipherUndoes` turns into the message. `OrderInv` counts:
   handed on, being decrypted, under way.

`DeliverInv` is the conjunction. The only assumption is `WireConstants`; `wire_race`
shows that `NoOverlap` is needed.

Before it was proved, each inductive invariant was checked by TLC on the instance of
the run it belongs to (`Flight` with the packets computed from the bytes).

Only model-checked: the liveness properties (`PeerCloseNoticed`,
`RegistrationCompletes`, `TransferEnds`, `ListingEnds`, `PanelServed`, `DisposedRests`,
`AllDelivered`), since the prover has no rules for fairness and `ENABLED`. Every
invariant and every safety refinement of a passing run is a theorem.

## Findings

Seven runs show the code doing other than its own text says: `client_leak`,
`client_threw`, `manager_wrap`, `manager_race`, `manager_restart`, `proxy_early` and
`wire_race`. `PROJECT.json` quotes the text and names the line for each. Three of
them, `client_leak`, `manager_race` and `wire_race`, need the thread pool: the theorems
show that the window is not exposed to them.

## Plan

Done: `IcspClient`, `IcspManager`, `IcspWire`, `FileManager` and `ProxyClient`, with
proofs of every safety property the runs check. Left, in this order:

1. The safety half of `DisposedRests`: once the timer's callbacks of a disposed panel
   are over, the timer stays off.
2. `ProxyClient` on top of `DeviceRegistry` in place of its own reduced manager.
3. The converter's command table with the web messages of a running panel; the
   registry of web sockets.

## Not modelled

`FileTransferPostProcessor` (one sequential pass over files), `StateManager`
(unused), controllers, views, configuration, logging, the drawing of buttons
(`TP.Design`, `TpButton`), dialogs other than the Connect and Disconnect buttons.
`DeviceConnectionState.Disconnected` is never assigned in the code, so the branch
of the cache callback that raises `DeviceOffline` is in the model but never taken.
`DeleteFile` acknowledges without deleting; the model does the same.

The program is the C# code. The JavaScript files of the repository hold none of its
logic: `DefaultProject.js` is a panel project as data, `config.js` a template of
settings, `jquery.validate.unobtrusive.js` a third-party library and `site.js` a
comment; they have no state to model.

The codec: flags, addresses, hops, command codes and the data layouts of the command
classes. Of RC4 the `ICryptoTransform` interface, which nothing calls.
