--------------------------- MODULE ProxyClientProofs ---------------------------
(***************************************************************************)
(* For any number of panels and devices, whatever the query strings are:   *)
(* ProxyClient is well typed, and a panel registers no device that was     *)
(* online when the master answered it.                                     *)
(***************************************************************************)
EXTENDS ProxyClient, TLAPS

\* While the master lists the online devices a panel has each of them, or it is
\* still to come; hence what it chooses at the end of the list was not online.
TreeKnown ==
    \A p \in Panels :
        /\ stage[p] \in {"tree", "listing"} => mDynamicDevice[p]
        /\ stage[p] = "listing" => tree[p] \subseteq mDevices[p] \cup toList[p]
        /\ stage[p] \in {"asked", "online"} => /\ CurrentDevice[p] \in DeviceNumbers
                                               /\ CurrentDevice[p] \notin tree[p]

IInv == TypeOK /\ TreeKnown

-----------------------------------------------------------------------------
\* The initial states satisfy the invariant.
LEMMA InitIInv == Init => IInv
BY ProxyConstants DEF Init, IInv, TypeOK, TreeKnown

\* What the master lists are device numbers.
LEMMA OnlineAreDevices == ASSUME IInv PROVE Online \subseteq DeviceNumbers
BY DEF IInv, TreeKnown, Online

-----------------------------------------------------------------------------
\* The timer, the connection attempts and Dispose: a connection that goes takes
\* the listing with it, a new one starts from an empty list.
LEMMA LinkStep ==
    ASSUME IInv, NEW p \in Panels, Pool(p) \/ Attempt(p) \/ TimerFires(p) \/ ClientOffline(p)
    PROVE  IInv'
<1> USE DEF IInv, TypeOK, TreeKnown, timerVars, linkVars, treeVars
<1>1. CASE DelayOver(p)
  <2>1. mConnectionTimer' \in [Panels -> BOOLEAN]
    BY <1>1 DEF DelayOver, Timer
  <2>2. web' \in [Panels -> {"none", "open", "closeSent", "over"}]
    BY <1>1 DEF DelayOver, ConnectAsync, CloseAsync
  <2>3. task' \in [Panels -> {"none", "delay", "connecting", "done"}]
    BY <1>1 DEF DelayOver, ConnectAsync
  <2>4. Host' \in [Panels -> BOOLEAN]
    BY <1>1 DEF DelayOver, ConnectAsync
  <2>5. attempt' \in [Panels -> {"none", "dns", "tcp", "closed"}]
    BY <1>1 DEF DelayOver, ConnectAsync
  <2> QED
    BY <1>1, <2>1, <2>2, <2>3, <2>4, <2>5 DEF DelayOver
<1>2. CASE OnConnectionTimerElapsed(p)
  <2>1. mConnectionTimer' \in [Panels -> BOOLEAN]
    BY <1>2 DEF OnConnectionTimerElapsed, Timer
  <2>2. web' \in [Panels -> {"none", "open", "closeSent", "over"}]
    BY <1>2 DEF OnConnectionTimerElapsed, ConnectAsync, CloseAsync
  <2>3. elapsed' \in [Panels -> {"idle", "fired", "connecting", "after", "arming"}]
    BY <1>2 DEF OnConnectionTimerElapsed, ConnectAsync, Elapse
  <2>4. Host' \in [Panels -> BOOLEAN]
    BY <1>2 DEF OnConnectionTimerElapsed, ConnectAsync
  <2>5. attempt' \in [Panels -> {"none", "dns", "tcp", "closed"}]
    BY <1>2 DEF OnConnectionTimerElapsed, ConnectAsync
  <2> QED
    BY <1>2, <2>1, <2>2, <2>3, <2>4, <2>5 DEF OnConnectionTimerElapsed
<1>3. CASE StartConnectionTimer(p)
  BY <1>3 DEF StartConnectionTimer, Elapse
<1>4. CASE NewTimer(p)
  BY <1>4 DEF NewTimer, Elapse, Timer
<1>5. CASE DisposeManager(p)
  BY <1>5 DEF DisposeManager, Timer, Unlink, ManagerDisposed
<1>6. CASE DisposeRest(p)
  BY <1>6 DEF DisposeRest
<1>7. CASE Resolved(p)
  BY <1>7 DEF Resolved
<1>8. CASE AttemptFails(p)
  BY <1>8 DEF AttemptFails, CloseAsync, Return, Elapse
<1>9. CASE ClientOnline(p)
  <2>1. /\ task' \in [Panels -> {"none", "delay", "connecting", "done"}]
        /\ elapsed' \in [Panels -> {"idle", "fired", "connecting", "after", "arming"}]
    BY <1>9, SMTT(30) DEF ClientOnline, Return, Elapse
  <2>2. /\ attempt' \in [Panels -> {"none", "dns", "tcp", "closed"}]
        /\ connected' \in [Panels -> BOOLEAN]
        /\ UNCHANGED <<Devices, web, disposing, Host, CurrentDevice>>
    BY <1>9 DEF ClientOnline
  <2>3. CASE ManagerDisposed(p) /\ UNCHANGED <<mConnectionTimer, stage, treeVars>>
    BY <2>1, <2>2, <2>3
  <2>4. CASE Timer(p, FALSE) /\ InitializeDeviceConnection(p) /\ UNCHANGED <<tree, toList>>
    <3>1. TypeOK'
      BY <2>1, <2>2, <2>4 DEF Timer, InitializeDeviceConnection
    <3>2. TreeKnown'
      BY <2>2, <2>4 DEF InitializeDeviceConnection
    <3> QED
      BY <3>1, <3>2
  <2> QED
    BY <1>9, <2>3, <2>4 DEF ClientOnline
<1>10. CASE TimerFires(p)
  BY <1>10 DEF TimerFires, Elapse
<1>11. CASE ClientOffline(p)
  BY <1>11 DEF ClientOffline, Unlink, CloseAsync
<1> QED
  BY <1>1, <1>2, <1>3, <1>4, <1>5, <1>6, <1>7, <1>8, <1>9, <1>10, <1>11 DEF Pool, Attempt

\* From the connection to a registered device.
LEMMA MasterStep ==
    ASSUME IInv, NEW p \in Panels, Master(p)
    PROVE  IInv'
<1> USE DEF IInv, TypeOK, TreeKnown, timerVars, linkVars, treeVars
<1>1. CASE OnDynamicDeviceCreated(p)
  BY <1>1 DEF OnDynamicDeviceCreated
<1>2. CASE MasterListsDevices(p)
  BY <1>2, OnlineAreDevices DEF MasterListsDevices
<1>3. ASSUME NEW d \in DeviceNumbers, OnDeviceInfo(p, d) PROVE IInv'
  BY <1>3 DEF OnDeviceInfo
<1>4. CASE CreateDeviceInfo(p)
  <2>1. CASE NoneFree(p) /\ stage' = [stage EXCEPT ![p] = "idle"] /\ UNCHANGED CurrentDevice
    BY <1>4, <2>1 DEF CreateDeviceInfo, NoneFree, CloseAsync
  <2>2. ASSUME NEW i \in DOMAIN Devices, IsFirstFree(p, i),
               CurrentDevice' = [CurrentDevice EXCEPT ![p] = Devices[i]],
               stage' = [stage EXCEPT ![p] = "asked"], UNCHANGED web
        PROVE  IInv'
    <3>1. Devices[i] \in DeviceNumbers
      BY <2>2
    <3>2. Devices[i] \notin tree[p]
      BY <1>4, <2>2 DEF CreateDeviceInfo, IsFirstFree
    <3> QED
      BY <1>4, <2>2, <3>1, <3>2 DEF CreateDeviceInfo
  <2> QED
    BY <1>4, <2>1, <2>2 DEF CreateDeviceInfo
<1>5. CASE OnManagerDeviceOnline(p)
  BY <1>5 DEF OnManagerDeviceOnline
<1> QED
  BY <1>1, <1>2, <1>3, <1>4, <1>5 DEF Master

\* The web socket; a query string puts a device number into the configuration.
LEMMA BrowserStep ==
    ASSUME IInv, NEW p \in Panels, Browser(p)
    PROVE  IInv'
<1> USE DEF IInv, TypeOK, TreeKnown, timerVars, linkVars, treeVars
<1>1. CASE InvokeAsync(p)
  <2>1. Devices' \in Seq(DeviceNumbers)
    <3>1. CASE Query[p] = None
      BY <1>1, <3>1 DEF InvokeAsync, WithQuery
    <3>2. CASE Query[p] # None
      <4>1. Query[p] \in DeviceNumbers
        BY <3>2, ProxyConstants
      <4>2. Devices' = <<Query[p]>>
        BY <1>1, <3>2 DEF InvokeAsync, WithQuery
      <4> QED
        BY <4>1, <4>2
    <3> QED
      BY <3>1, <3>2
  <2> QED
    BY <1>1, <2>1 DEF InvokeAsync
<1>2. CASE BrowserCloses(p) \/ BrowserAnswersClose(p)
  BY <1>2 DEF BrowserCloses, BrowserAnswersClose, LoopEnds
<1> QED
  BY <1>1, <1>2 DEF Browser

\* IInv is an invariant of ProxyClient.
THEOREM Invariance == Spec => []IInv
<1>1. IInv /\ [Next]_vars => IInv'
  <2> SUFFICES ASSUME IInv, [Next]_vars PROVE IInv'
    OBVIOUS
  <2>1. CASE Next
    BY <2>1, LinkStep, MasterStep, BrowserStep DEF Next
  <2>2. CASE UNCHANGED vars
    BY <2>2 DEF vars, timerVars, linkVars, treeVars, IInv, TypeOK, TreeKnown
  <2> QED
    BY <2>1, <2>2
<1> QED
  BY <1>1, InitIInv, PTL DEF Spec

\* Every reachable state of the panels is well typed.
THEOREM TypeCorrect == Spec => []TypeOK
BY Invariance, PTL DEF IInv

\* "Find free Device": no panel registers a device that was online when the
\* master answered its query, for any number of panels and devices.
THEOREM NoDeviceIsTakenOver == Spec => []ChosenWasFree
<1>1. IInv => ChosenWasFree
  BY DEF IInv, TreeKnown, ChosenWasFree
<1> QED
  BY <1>1, Invariance, PTL
=============================================================================
