----------------------------- MODULE ProxyClient -----------------------------
(***************************************************************************)
(* ProxyClient (ICSP.WebProxy/Proxy/ProxyClient.cs): one object per web    *)
(* socket, with an ICSPManager of its own.  A panel waits a second, then   *)
(* connects; a timer retries; once online it asks the master which devices *)
(* are online, takes the first free one of the configuration and registers *)
(* it.  When the web socket ends, WebSocketProxyClient disposes the panel. *)
(*                                                                         *)
(* Panels run in parallel and share the master and the connection's entry  *)
(* in the configuration, which a query string overwrites for all of them.  *)
(* ICSPManager is reduced to what a panel sees of it; browsers and the     *)
(* master are external.                                                    *)
(***************************************************************************)
EXTENDS Naturals, Sequences

CONSTANTS Panels,
          DeviceNumbers,
          Configured,     \* ConnectionConfig.Devices as configured
          Query,          \* the device in a panel's query string, or None
          HostResolves,   \* does the host's name always resolve?
          None            \* no device

ASSUME ProxyConstants ==
    /\ Configured \in Seq(DeviceNumbers)
    /\ Query \in [Panels -> DeviceNumbers \cup {None}]
    /\ HostResolves \in BOOLEAN
    /\ None \notin DeviceNumbers

VARIABLES
    Devices,       \* ConnectionConfig.Devices, one object for all panels
    web,           \* the web socket and its processing loop
    task,          \* the Task.Run of InvokeAsync
    mConnectionTimer, \* is there a live timer?
    elapsed,       \* OnConnectionTimerElapsedAsync
    disposing,     \* where Dispose has got to
    Host,          \* has Manager.Host been set?
    attempt,       \* Manager.ConnectAsync under way
    connected,     \* is the TCP connection of its client up?
    stage,         \* the way to a registered device
    mDynamicDevice, \* has the master assigned it?
    mDevices,      \* devices the master has listed
    CurrentDevice,
    tree, toList   \* master: what was online when it answered; not yet sent

timerVars  == <<task, mConnectionTimer, elapsed>>
linkVars   == <<disposing, Host, attempt, connected>>
treeVars   == <<mDynamicDevice, mDevices, tree, toList>>
vars == <<Devices, web, timerVars, linkVars, stage, treeVars, CurrentDevice>>

TypeOK ==
    /\ Devices \in Seq(DeviceNumbers)
    /\ web \in [Panels -> {"none", "open", "closeSent", "over"}]
    /\ task \in [Panels -> {"none", "delay", "connecting", "done"}]
    /\ mConnectionTimer \in [Panels -> BOOLEAN]
    /\ elapsed \in [Panels -> {"idle", "fired", "connecting", "after", "arming"}]
    /\ disposing \in [Panels -> {"no", "begun", "threw", "again", "leaked", "done"}]
    /\ Host \in [Panels -> BOOLEAN]
    /\ attempt \in [Panels -> {"none", "dns", "tcp", "closed"}]
    /\ connected \in [Panels -> BOOLEAN]
    /\ stage \in [Panels -> {"idle", "dynamic", "tree", "listing", "asked", "online"}]
    /\ mDynamicDevice \in [Panels -> BOOLEAN]
    /\ mDevices \in [Panels -> SUBSET DeviceNumbers]
    /\ CurrentDevice \in [Panels -> DeviceNumbers \cup {None}]
    /\ tree \in [Panels -> SUBSET DeviceNumbers]
    /\ toList \in [Panels -> SUBSET DeviceNumbers]

Init ==
    /\ Devices = Configured
    /\ web = [p \in Panels |-> "none"]
    /\ task = [p \in Panels |-> "none"]
    /\ mConnectionTimer = [p \in Panels |-> FALSE]
    /\ elapsed = [p \in Panels |-> "idle"]
    /\ disposing = [p \in Panels |-> "no"] /\ Host = [p \in Panels |-> FALSE]
    /\ attempt = [p \in Panels |-> "none"]
    /\ connected = [p \in Panels |-> FALSE]
    /\ stage = [p \in Panels |-> "idle"]
    /\ mDynamicDevice = [p \in Panels |-> FALSE]
    /\ mDevices = [p \in Panels |-> {}]
    /\ tree = [p \in Panels |-> {}] /\ toList = [p \in Panels |-> {}]
    /\ CurrentDevice = [p \in Panels |-> None]

-----------------------------------------------------------------------------
(***************************************************************************)
(* What the code asks, and its helpers.                                    *)
(***************************************************************************)
mIsDisposed(p) == disposing[p] = "done"

\* Manager.IsDisposed: the manager goes first, whatever comes of the rest.
ManagerDisposed(p) == disposing[p] # "no"

IsConnected(p) == connected[p] /\ ~ManagerDisposed(p)

\* Socket?.CloseAsync, not awaited; of a socket no longer open it only fails.
CloseAsync(p) == web' = IF web[p] = "open" THEN [web EXCEPT ![p] = "closeSent"] ELSE web

Timer(p, live) == mConnectionTimer' = [mConnectionTimer EXCEPT ![p] = live]

Elapse(p, to) == elapsed' = [elapsed EXCEPT ![p] = to]

\* A connection is gone, and what was under way on it.
Unlink(p) ==
    /\ stage' = [stage EXCEPT ![p] = "idle"]
    /\ tree' = [tree EXCEPT ![p] = {}]
    /\ toList' = [toList EXCEPT ![p] = {}]

\* The devices registered with the master, over any connection.
Online == {CurrentDevice[p] : p \in {q \in Panels : stage[q] = "online"}}

-----------------------------------------------------------------------------
(***************************************************************************)
(* The web socket.                                                         *)
(***************************************************************************)

WithQueryUnchecked(ds, q) == <<q>>

\* A device in the query string replaces the configured ones.
WithQuery(ds, q) == IF q = None THEN ds ELSE <<q>>

\* The middleware accepts the socket and registers it; InvokeAsync runs to the
\* end of its own code.
InvokeAsync(p) ==
    /\ web[p] = "none"
    /\ web' = [web EXCEPT ![p] = "open"]
    /\ Devices' = WithQuery(Devices, Query[p])
    /\ task' = [task EXCEPT ![p] = "delay"]
    /\ UNCHANGED <<mConnectionTimer, elapsed, linkVars, stage, treeVars,
                   CurrentDevice>>

\* The browser closes, answers a close, or is gone: the processing loop ends.
LoopEnds(p) ==
    /\ web' = [web EXCEPT ![p] = "over"]
    /\ UNCHANGED <<Devices, timerVars, linkVars, stage, treeVars, CurrentDevice>>

BrowserCloses(p) == web[p] = "open" /\ LoopEnds(p)

BrowserAnswersClose(p) == web[p] = "closeSent" /\ LoopEnds(p)

-----------------------------------------------------------------------------
(***************************************************************************)
(* Connecting, and the connection timer.                                   *)
(***************************************************************************)

\* Manager.ConnectAsync by one of its two callers, who waits for it (Waiting),
\* or goes on (Done) if it throws or another attempt is under way.
ConnectAsync(p, Waiting, Done) ==
    \/ /\ ManagerDisposed(p)
       /\ CloseAsync(p) /\ Done
       /\ UNCHANGED <<Host, attempt>>
    \/ /\ ~ManagerDisposed(p) /\ attempt[p] # "none"
       /\ Done
       /\ UNCHANGED <<web, Host, attempt>>
    \/ /\ ~ManagerDisposed(p) /\ attempt[p] = "none"
       /\ Host' = [Host EXCEPT ![p] = TRUE]
       /\ attempt' = [attempt EXCEPT ![p] = "dns"]
       /\ Waiting
       /\ UNCHANGED web

\* A second later.  A manager is new, hence never connected at this point.
DelayOver(p) ==
    /\ task[p] = "delay"
    /\ Timer(p, ~mIsDisposed(p))
    /\ ConnectAsync(p, task' = [task EXCEPT ![p] = "connecting"],
                       task' = [task EXCEPT ![p] = "done"])
    /\ UNCHANGED <<Devices, elapsed, disposing, connected, stage, treeVars,
                   CurrentDevice>>

\* The caller of the attempt goes on.
Return(p) ==
    IF task[p] = "connecting"
    THEN task' = [task EXCEPT ![p] = "done"] /\ UNCHANGED elapsed
    ELSE Elapse(p, "after") /\ UNCHANGED task

Resolved(p) ==
    /\ attempt[p] = "dns"
    /\ attempt' = [attempt EXCEPT ![p] = "tcp"]
    /\ UNCHANGED <<Devices, web, timerVars, disposing, Host, connected, stage,
                   treeVars, CurrentDevice>>

\* ... the caller logs the exception and closes the web socket.  Left out: an
\* attempt that returns without an exception and unconnected, because its socket
\* closed again at once (the loss of a made connection is ClientOffline), and a
\* Dispose of the manager between its two event subscriptions.
AttemptFails(p) ==
    /\ attempt[p] # "none" /\ (attempt[p] = "dns" => ~HostResolves)
    /\ attempt' = [attempt EXCEPT ![p] = "none"]
    /\ CloseAsync(p)
    /\ Return(p)
    /\ UNCHANGED <<Devices, mConnectionTimer, disposing, Host, connected, stage,
                   treeVars, CurrentDevice>>

InitializeDeviceConnection(p) ==
    /\ mDynamicDevice' = [mDynamicDevice EXCEPT ![p] = FALSE]
    /\ mDevices' = [mDevices EXCEPT ![p] = {}]
    /\ stage' = [stage EXCEPT ![p] = "dynamic"]

\* The connection is up.  A disposed manager no longer hears of it.
ClientOnline(p) ==
    /\ attempt[p] = "tcp"
    /\ attempt' = [attempt EXCEPT ![p] = "none"]
    /\ connected' = [connected EXCEPT ![p] = TRUE]
    /\ \/ ManagerDisposed(p) /\ UNCHANGED <<mConnectionTimer, stage, treeVars>>
       \/ /\ ~ManagerDisposed(p)
          /\ Timer(p, FALSE)
          /\ InitializeDeviceConnection(p)
          /\ UNCHANGED <<tree, toList>>
    /\ Return(p)
    /\ UNCHANGED <<Devices, web, disposing, Host, CurrentDevice>>

\* The master closes the connection.
ClientOffline(p) ==
    /\ connected[p]
    /\ connected' = [connected EXCEPT ![p] = FALSE]
    /\ Unlink(p)
    /\ IF ManagerDisposed(p) THEN UNCHANGED web ELSE CloseAsync(p)
    /\ UNCHANGED <<Devices, timerVars, disposing, Host, attempt,
                   mDynamicDevice, mDevices, CurrentDevice>>

\* The pool runs the callback some time after the timer went off.
TimerFires(p) ==
    /\ mConnectionTimer[p] /\ elapsed[p] = "idle"
    /\ Elapse(p, "fired")
    /\ UNCHANGED <<Devices, web, task, mConnectionTimer, linkVars, stage,
                   treeVars, CurrentDevice>>

ElapsedUnstopped(p) ==
    /\ elapsed[p] = "fired"
    /\ \/ /\ mIsDisposed(p) \/ IsConnected(p)
          /\ Elapse(p, IF mIsDisposed(p) THEN "idle" ELSE "after")
          /\ UNCHANGED <<web, Host, attempt, mConnectionTimer>>
       \/ /\ ~mIsDisposed(p) /\ ~IsConnected(p)
          /\ Timer(p, FALSE)
          /\ ConnectAsync(p, Elapse(p, "connecting"), Elapse(p, "after"))
    /\ UNCHANGED <<Devices, task, disposing, connected, stage, treeVars, CurrentDevice>>

\* OnConnectionTimerElapsedAsync, up to its await ...
OnConnectionTimerElapsed(p) ==
    /\ elapsed[p] = "fired"
    /\ Timer(p, FALSE)
    /\ \/ /\ mIsDisposed(p) \/ IsConnected(p)
          /\ Elapse(p, IF mIsDisposed(p) THEN "idle" ELSE "after")
          /\ UNCHANGED <<web, Host, attempt>>
       \/ /\ ~mIsDisposed(p) /\ ~IsConnected(p)
          /\ ConnectAsync(p, Elapse(p, "connecting"), Elapse(p, "after"))
    /\ UNCHANGED <<Devices, task, disposing, connected, stage, treeVars,
                   CurrentDevice>>

\* ... and after it: the conditions, then the new timer.
StartConnectionTimer(p) ==
    /\ elapsed[p] = "after"
    /\ Elapse(p, IF mIsDisposed(p) \/ IsConnected(p) THEN "idle" ELSE "arming")
    /\ UNCHANGED <<Devices, web, task, mConnectionTimer, linkVars, stage,
                   treeVars, CurrentDevice>>

NewTimer(p) ==
    /\ elapsed[p] = "arming"
    /\ Elapse(p, "idle")
    /\ Timer(p, TRUE)
    /\ UNCHANGED <<Devices, web, task, linkVars, stage, treeVars, CurrentDevice>>

-----------------------------------------------------------------------------
(***************************************************************************)
(* Dispose, by the using of the processing loop and, unless that went      *)
(* through, a second time by its service scope.                            *)
(***************************************************************************)

\* StopConnectionTimer, the handlers, Manager.Disconnect and Manager.Dispose.
\* An attempt loses its socket, if it has one yet.
DisposeManager(p) ==
    /\ web[p] = "over" /\ disposing[p] \in {"no", "threw"}
    /\ disposing' = [disposing EXCEPT ![p] = IF @ = "no" THEN "begun" ELSE "again"]
    /\ Timer(p, FALSE)
    /\ connected' = [connected EXCEPT ![p] = @ /\ ManagerDisposed(p)]
    /\ attempt' = [attempt EXCEPT ![p] =
                     IF @ = "tcp" /\ ~ManagerDisposed(p) THEN "closed" ELSE @]
    /\ Unlink(p)
    /\ UNCHANGED <<Devices, web, task, elapsed, Host, mDynamicDevice,
                   mDevices, CurrentDevice>>

\* ICSPConnectionManager.Remove throws without a host, and when the host's name
\* does not resolve; else the rest of Dispose runs.
DisposeRest(p) ==
    /\ disposing[p] \in {"begun", "again"}
    /\ \E resolves \in {TRUE, HostResolves} :
          disposing' = [disposing EXCEPT ![p] =
                          IF Host[p] /\ resolves THEN "done"
                          ELSE IF @ = "begun" THEN "threw" ELSE "leaked"]
    /\ UNCHANGED <<Devices, web, timerVars, Host, attempt, connected, stage,
                   treeVars, CurrentDevice>>

-----------------------------------------------------------------------------
(***************************************************************************)
(* From the connection to a registered device.                             *)
(***************************************************************************)
DynamicDeviceForgotten(p) ==
    /\ stage[p] = "dynamic"
    /\ stage' = [stage EXCEPT ![p] = "tree"]
    /\ UNCHANGED <<Devices, web, timerVars, linkVars, treeVars, CurrentDevice>>

OnDynamicDeviceCreated(p) ==
    /\ stage[p] = "dynamic"
    /\ mDynamicDevice' = [mDynamicDevice EXCEPT ![p] = TRUE]
    /\ stage' = [stage EXCEPT ![p] = "tree"]
    /\ UNCHANGED <<Devices, web, timerVars, linkVars, mDevices, tree, toList,
                   CurrentDevice>>

\* The master answers RequestDevicesOnline.
MasterListsDevices(p) ==
    /\ stage[p] = "tree"
    /\ tree' = [tree EXCEPT ![p] = Online]
    /\ toList' = [toList EXCEPT ![p] = Online]
    /\ stage' = [stage EXCEPT ![p] = "listing"]
    /\ UNCHANGED <<Devices, web, timerVars, linkVars, mDynamicDevice, mDevices,
                   CurrentDevice>>

OnDeviceInfo(p, d) ==
    /\ stage[p] = "listing" /\ d \in toList[p]
    /\ toList' = [toList EXCEPT ![p] = @ \ {d}]
    /\ mDevices' = [mDevices EXCEPT ![p] = IF mDynamicDevice[p] THEN @ \cup {d} ELSE @]
    /\ UNCHANGED <<Devices, web, timerVars, linkVars, stage, mDynamicDevice, tree,
                   CurrentDevice>>

\* Devices.Except(mDevices).FirstOrDefault()
IsFirstFree(p, i) ==
    /\ Devices[i] \notin mDevices[p]
    /\ \A j \in 1 .. i - 1 : Devices[j] \in mDevices[p]

NoneFreeSilently(p) == UNCHANGED web

\* "No more device connections available on controller"
NoneFree(p) == CloseAsync(p)

\* OnManagerRequestDevicesOnlineEOT: CreateDeviceInfoAsync.  The manager of the
\* panel has no device yet.
CreateDeviceInfo(p) ==
    /\ stage[p] = "listing" /\ toList[p] = {}
    /\ \/ /\ \A i \in DOMAIN Devices : Devices[i] \in mDevices[p]
          /\ NoneFree(p)
          /\ stage' = [stage EXCEPT ![p] = "idle"]
          /\ UNCHANGED CurrentDevice
       \/ \E i \in DOMAIN Devices :
          /\ IsFirstFree(p, i)
          /\ CurrentDevice' = [CurrentDevice EXCEPT ![p] = Devices[i]]
          /\ stage' = [stage EXCEPT ![p] = "asked"]
          /\ UNCHANGED web
    /\ UNCHANGED <<Devices, timerVars, linkVars, treeVars>>

OnManagerDeviceOnline(p) ==
    /\ stage[p] = "asked"
    /\ stage' = [stage EXCEPT ![p] = "online"]
    /\ UNCHANGED <<Devices, web, timerVars, linkVars, treeVars, CurrentDevice>>

-----------------------------------------------------------------------------
Pool(p) ==
    \/ DelayOver(p) \/ OnConnectionTimerElapsed(p) \/ StartConnectionTimer(p)
    \/ NewTimer(p) \/ DisposeManager(p) \/ DisposeRest(p)

Attempt(p) == Resolved(p) \/ AttemptFails(p) \/ ClientOnline(p)

Master(p) ==
    \/ OnDynamicDeviceCreated(p) \/ MasterListsDevices(p)
    \/ (\E d \in DeviceNumbers : OnDeviceInfo(p, d))
    \/ CreateDeviceInfo(p) \/ OnManagerDeviceOnline(p)

Browser(p) ==
    \/ InvokeAsync(p) \/ BrowserCloses(p) \/ BrowserAnswersClose(p)

Next == \E p \in Panels :
    Pool(p) \/ Attempt(p) \/ TimerFires(p) \/ Master(p) \/ Browser(p) \/ ClientOffline(p)

Spec == Init /\ [][Next]_vars

\* The thread pool runs what it has, timers go off, attempts end (ICSPClient
\* waits for a second), the master answers and a browser answers a close.
FairSpec ==
    /\ Spec
    /\ \A p \in Panels :
          /\ WF_vars(Pool(p)) /\ WF_vars(Attempt(p)) /\ WF_vars(TimerFires(p))
          /\ WF_vars(Master(p)) /\ WF_vars(BrowserAnswersClose(p))

-----------------------------------------------------------------------------
(***************************************************************************)
(* Properties.                                                             *)
(***************************************************************************)

\* "Find free Device": a panel registers no device that was online when the
\* master answered its query.  Two panels whose queries were both answered before
\* either registered may still take one number.
ChosenWasFree ==
    \A p \in Panels : stage[p] \in {"asked", "online"} => CurrentDevice[p] \notin tree[p]

\* An open panel gets its device, or its browser is told that there is none.
PanelServed ==
    \A p \in Panels : web[p] = "open" ~> (web[p] # "open" \/ stage[p] = "online")

\* A disposed panel comes to rest: a tick of the timer that races with Dispose
\* does not revive it.
DisposedRests == \A p \in Panels : mIsDisposed(p) ~> []~mConnectionTimer[p]

\* "Verwalteten Zustand entsorgen": when the web socket is gone, the panel's
\* timer is too, for good.
ClosedPanelRests == \A p \in Panels : web[p] = "over" ~> []~mConnectionTimer[p]
=============================================================================
