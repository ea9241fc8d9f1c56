---------------------------- MODULE Safety_proofs ----------------------------
(***************************************************************************)
(* Safety of the manager, for any number of lights, paths and services:    *)
(* its tables, its notes, its requests, and what it shows the user.        *)
(***************************************************************************)
EXTENDS TypeOK_proofs

-------------------------------------------------------------------------------
(* The tables lead to lights.                                              *)

\* The steps that neither touch a table nor add or remove a light.
LEMMA CalmSteps ==
  ASSUME TypeOK, Next, ~Environment, ~UsbEnumerated, ~UsbInfoReady,
         \A r \in DOMAIN http : ~InfoReply(r)
  PROVE  UNCHANGED indexVars /\ DOMAIN lights' = DOMAIN lights
<1>1. ASSUME NEW id, OnIoFail(id)
      PROVE  DOMAIN lights' = DOMAIN lights
  BY <1>1 DEF OnIoFail, TypeOK, ManagerTypeOK, IsTable
<1>2. CASE User
  <2>1. \A id : FlushPending(id) => UNCHANGED indexVars /\ DOMAIN lights' = DOMAIN lights
    BY DEF FlushPending, UserUnchanged
  <2>2. \A id, on : SetOn(id, on) => UNCHANGED indexVars /\ DOMAIN lights' = DOMAIN lights
    BY DEF SetOn, UserUnchanged
  <2>3. \A id, value : SetBrightness(id, value) \/ SetTemperature(id, value)
          => UNCHANGED indexVars /\ DOMAIN lights' = DOMAIN lights
    BY DEF SetBrightness, SetTemperature, Schedule, UserUnchanged
  <2>4. ToggleAll => UNCHANGED indexVars /\ DOMAIN lights' = DOMAIN lights
    BY DEF ToggleAll, UserUnchanged
  <2>5. RefreshAll => UNCHANGED indexVars /\ DOMAIN lights' = DOMAIN lights
    BY DEF RefreshAll, managerVars, indexVars
  <2> QED
    BY <1>2, <2>1, <2>2, <2>3, <2>4, <2>5
       DEF User, ClickOn, DragBrightness, DragTemperature, ReleaseSlider, ClickToggleAll,
           RefreshMenu
<1>3. CASE Timers
  <2>1. OnRefreshTick => UNCHANGED indexVars /\ DOMAIN lights' = DOMAIN lights
    BY DEF OnRefreshTick
  <2>2. \A id : FlushPending(id) => UNCHANGED indexVars /\ DOMAIN lights' = DOMAIN lights
    BY DEF FlushPending, UserUnchanged
  <2> QED
    BY <1>3, <2>1, <2>2 DEF Timers, RefreshTimer, DebounceTimer, DebounceFires
<1>4. ASSUME NEW id, NEW data, NEW pending, OnStateReceived(id, data, pending)
      PROVE  UNCHANGED indexVars /\ DOMAIN lights' = DOMAIN lights
  BY <1>4 DEF OnStateReceived, TypeOK, ManagerTypeOK, IsTable
<1>5. ASSUME NEW id, NEW pending, OnPutSucceeded(id, pending)
      PROVE  UNCHANGED indexVars /\ DOMAIN lights' = DOMAIN lights
  BY <1>5 DEF OnPutSucceeded
<1>6. ASSUME NEW id, NEW kind, NEW pending, OnRequestFailed(id, kind, pending)
      PROVE  UNCHANGED indexVars /\ DOMAIN lights' = DOMAIN lights
  BY <1>1, <1>6 DEF OnRequestFailed
<1>7. CASE Network
  <2>1. PICK r \in DOMAIN http :
          ServeHttp(r) \/ StateReply(r) \/ PutReply(r) \/ HttpFailure(r)
    BY <1>7 DEF Network
  <2>2. CASE ServeHttp(r)
    BY <2>2 DEF ServeHttp, managerVars, indexVars
  <2> QED
    BY <1>4, <1>5, <1>6, <2>1, <2>2 DEF StateReply, PutReply, HttpFailure
<1>8. CASE Usb
  <2>1. CASE WorkerStep
    BY <2>1 DEF WorkerStep, managerVars, indexVars
  <2>2. CASE UsbInfoFailed
    BY <2>2 DEF UsbInfoFailed, OnUsbInfoFailed
  <2>3. CASE UsbRequestDone
    BY <1>4, <1>5, <2>3 DEF UsbRequestDone
  <2>4. CASE UsbRequestFailed
    BY <1>6, <2>4 DEF UsbRequestFailed
  <2> QED
    BY <1>8, <2>1, <2>2, <2>3, <2>4 DEF Usb
<1> QED
  BY <1>2, <1>3, <1>7, <1>8 DEF Next

\* merge repoints every index that leads to the light it removes.
LEMMA IndexesAfterMerge ==
  ASSUME TypeOK, IndexesPointAtLights, NEW L, DOMAIN L = DOMAIN lights,
         NEW keepId, NEW dropId, Merge(L, keepId, dropId)
  PROVE  IndexesPointAtLights'
<1>1. CASE {keepId, dropId} \subseteq DOMAIN L /\ keepId # dropId
  <2>1. DOMAIN lights' = DOMAIN lights \ {dropId}
    BY <1>1 DEF Merge, Unbind
  <2>2. ASSUME NEW table, Values(table) \subseteq DOMAIN lights
        PROVE  Values(Repoint(table, dropId, keepId)) \subseteq DOMAIN lights \ {dropId}
    BY <1>1, <2>2 DEF Values, Repoint
  <2>3. /\ byService' = Repoint(byService, dropId, keepId)
        /\ bySerial' = Repoint(bySerial, dropId, keepId)
        /\ byUsbPath' = Repoint(byUsbPath, dropId, keepId)
    BY <1>1 DEF Merge
  <2>4. /\ Values(byService) \subseteq DOMAIN lights
        /\ Values(byUsbPath) \subseteq DOMAIN lights
        /\ Values(bySerial) \subseteq DOMAIN lights
    BY DEF IndexesPointAtLights
  <2>5. /\ Values(byService') \subseteq DOMAIN lights'
        /\ Values(byUsbPath') \subseteq DOMAIN lights'
        /\ Values(bySerial') \subseteq DOMAIN lights'
    BY <2>1, <2>2, <2>3, <2>4
  <2> QED
    BY <2>5 DEF IndexesPointAtLights, Values
<1>2. CASE ~({keepId, dropId} \subseteq DOMAIN L /\ keepId # dropId)
  BY <1>2 DEF Merge, IndexesPointAtLights, Values, indexVars
<1> QED
  BY <1>1, <1>2

\* The inductive step.
LEMMA IndexesStep == TypeOK /\ IndexesPointAtLights /\ [Next]_vars => IndexesPointAtLights'
<1> SUFFICES ASSUME TypeOK, IndexesPointAtLights, [Next]_vars
             PROVE  IndexesPointAtLights'
  OBVIOUS
<1>1. /\ Values(byService) \subseteq DOMAIN lights
      /\ Values(byUsbPath) \subseteq DOMAIN lights
      /\ Values(bySerial) \subseteq DOMAIN lights
  BY DEF IndexesPointAtLights
<1>2. ASSUME UNCHANGED indexVars, DOMAIN lights' = DOMAIN lights
      PROVE  IndexesPointAtLights'
  BY <1>2 DEF IndexesPointAtLights, Values, indexVars
<1>3. ASSUME NEW table, NEW key, NEW value, Values(table) \subseteq DOMAIN lights
      PROVE  Values(Bind(table, key, value)) \subseteq DOMAIN lights \cup {value}
  BY <1>3 DEF Values, Bind
<1>4. CASE UNCHANGED vars
  BY <1>2, <1>4 DEF vars, managerVars, indexVars
<1>5. ASSUME NEW s \in Services, Discover(s)
      PROVE  IndexesPointAtLights'
  <2>1. byService' = Bind(byService, s.serviceName, ServiceId(s))
        /\ UNCHANGED <<byUsbPath, bySerial>>
    BY <1>5 DEF Discover, OnDiscovered
  <2>2. DOMAIN lights' = DOMAIN lights \cup {ServiceId(s)}
    BY <1>5 DEF Discover, OnDiscovered, Bind
  <2> QED
    BY <1>1, <1>3, <2>1, <2>2 DEF IndexesPointAtLights, Values
<1>6. ASSUME NEW name \in ServiceNames, ServiceGone(name)
      PROVE  IndexesPointAtLights'
  <2>1. byService' = Unbind(byService, name) /\ UNCHANGED <<byUsbPath, bySerial>>
        /\ DOMAIN lights' = DOMAIN lights
    BY <1>6 DEF ServiceGone, OnServiceRemoved
  <2> QED
    BY <1>1, <2>1 DEF IndexesPointAtLights, Values, Unbind
<1>7. ASSUME NEW d, NEW p, PlugIn(d, p) \/ PullOut(p)
      PROVE  IndexesPointAtLights'
  BY <1>2, <1>7 DEF PlugIn, PullOut, managerVars, indexVars
<1>8. CASE UsbEnumerated
  <2>1. DOMAIN lights' = DOMAIN lights /\ UNCHANGED <<byService, bySerial>>
        /\ Values(byUsbPath') \subseteq Values(byUsbPath)
    BY <1>8 DEF UsbEnumerated, OnUsbEnumerated, Values
  <2> QED
    BY <1>1, <2>1 DEF IndexesPointAtLights, Values
<1>9. CASE UsbInfoReady
  <2> DEFINE path == Head(usbOut).call.path
             info == Head(usbOut).info
             id == KnownAs(UsbId(path, info), info.serial)
  <2>1. /\ byUsbPath' = Bind(byUsbPath, path, id)
        /\ bySerial' \in {bySerial, Bind(bySerial, info.serial, id)}
        /\ UNCHANGED byService
        /\ DOMAIN lights' = DOMAIN lights \cup {id}
    BY <1>9 DEF UsbInfoReady, OnUsbInfoReady, Bind
  <2> HIDE DEF id
  <2>2. /\ Values(byUsbPath') \subseteq DOMAIN lights'
        /\ Values(bySerial') \subseteq DOMAIN lights'
    BY <1>1, <1>3, <2>1
  <2> QED
    BY <1>1, <2>1, <2>2 DEF IndexesPointAtLights, Values
<1>10. ASSUME NEW r \in DOMAIN http, InfoReply(r)
       PROVE  IndexesPointAtLights'
  <2> DEFINE id == r.id
             info == InfoOf[Owner[r.address]]
             named == [lights EXCEPT ![id].serial = info.serial]
  <2>1. CASE UNCHANGED <<lights, indexVars>>
    BY <1>2, <2>1
  <2>2. CASE /\ id \in DOMAIN lights
             /\ lights' = named
             /\ bySerial' = Bind(bySerial, info.serial, id)
             /\ UNCHANGED <<byService, byUsbPath>>
    <3>1. DOMAIN lights' = DOMAIN lights /\ Values(bySerial') \subseteq DOMAIN lights
      BY <1>1, <1>3, <2>2
    <3> QED
      BY <1>1, <2>2, <3>1 DEF IndexesPointAtLights, Values
  <2>3. CASE Merge(named, Lookup(bySerial, info.serial), id)
    BY <2>3, IndexesAfterMerge
  <2> QED
    BY <1>10, <2>1, <2>2, <2>3 DEF InfoReply, OnInfoReceived
<1>11. ASSUME Next, ~Environment, ~UsbEnumerated, ~UsbInfoReady,
              \A r \in DOMAIN http : ~InfoReply(r)
       PROVE  IndexesPointAtLights'
  BY <1>2, <1>11, CalmSteps
<1>12. CASE Environment
  BY <1>5, <1>6, <1>7, <1>12 DEF Environment
<1> QED
  BY <1>4, <1>8, <1>9, <1>10, <1>11, <1>12

\* Whatever interleaving of discovery on the two transports, merging and
\* unplugging: no table of the manager ever leads to a light it has forgotten.
THEOREM IndexesCorrect == Spec => []IndexesPointAtLights
<1>1. Init => IndexesPointAtLights
  BY DEF Init, ManagerInit, EmptyTable, IndexesPointAtLights, Values
<1> QED
  BY <1>1, IndexesStep, TypeCorrect, PTL DEF Spec

-------------------------------------------------------------------------------
(* A change that waits has a reply to wait for.                            *)

\* flush marks a light for later only when it has a PUT in flight.
LEMMA FlushDirty ==
  ASSUME NEW L, NEW S, NEW running, NEW marked, NEW pending, marked \subseteq running,
         Flush(L, S, running, marked, pending)
  PROVE  DirtyOnlyWhileInflight'
BY DEF Flush, DirtyOnlyWhileInflight

\* The user's steps: they send a PUT, or leave both sets alone.
LEMMA UserDirty == DirtyOnlyWhileInflight /\ (User \/ Timers) => DirtyOnlyWhileInflight'
<1> SUFFICES ASSUME DirtyOnlyWhileInflight, User \/ Timers
             PROVE  DirtyOnlyWhileInflight'
  OBVIOUS
<1>1. dirty \subseteq inflight
  BY DEF DirtyOnlyWhileInflight
<1>2. ASSUME UNCHANGED putVars
      PROVE  DirtyOnlyWhileInflight'
  BY <1>1, <1>2 DEF putVars, DirtyOnlyWhileInflight
<1>3. ASSUME NEW id, NEW on, SetOn(id, on)
      PROVE  DirtyOnlyWhileInflight'
  BY <1>1, <1>3, FlushDirty DEF SetOn
<1>4. ASSUME NEW id, NEW value, SetBrightness(id, value) \/ SetTemperature(id, value)
      PROVE  DirtyOnlyWhileInflight'
  BY <1>2, <1>4 DEF SetBrightness, SetTemperature, Schedule
<1>5. ASSUME ToggleAll
      PROVE  DirtyOnlyWhileInflight'
  BY <1>1, <1>5, FlushDirty DEF ToggleAll
<1>6. ASSUME NEW id, FlushPending(id)
      PROVE  DirtyOnlyWhileInflight'
  BY <1>1, <1>6, FlushDirty DEF FlushPending
<1>7. ASSUME RefreshAll \/ OnRefreshTick
      PROVE  DirtyOnlyWhileInflight'
  BY <1>2, <1>7 DEF RefreshAll, OnRefreshTick, managerVars
<1>8. CASE User
  BY <1>3, <1>4, <1>5, <1>6, <1>7, <1>8
     DEF User, ClickOn, DragBrightness, DragTemperature, ReleaseSlider, ClickToggleAll,
         RefreshMenu
<1>9. CASE Timers
  BY <1>6, <1>7, <1>9 DEF Timers, RefreshTimer, DebounceTimer, DebounceFires
<1> QED
  BY <1>8, <1>9

\* The inductive step.
LEMMA DirtyStep == DirtyOnlyWhileInflight /\ [Next]_vars => DirtyOnlyWhileInflight'
<1> SUFFICES ASSUME DirtyOnlyWhileInflight, [Next]_vars
             PROVE  DirtyOnlyWhileInflight'
  OBVIOUS
<1>1. dirty \subseteq inflight
  BY DEF DirtyOnlyWhileInflight
<1>2. ASSUME UNCHANGED putVars
      PROVE  DirtyOnlyWhileInflight'
  BY <1>1, <1>2 DEF putVars, DirtyOnlyWhileInflight
<1>3. ASSUME NEW id, NEW pending, OnPutSucceeded(id, pending)
      PROVE  DirtyOnlyWhileInflight'
  <2>1. dirty \ {id} \subseteq inflight \ {id}
    BY <1>1
  <2> QED
    BY <1>3, <2>1, FlushDirty DEF OnPutSucceeded
<1>4. ASSUME NEW id, NEW kind, NEW pending, OnRequestFailed(id, kind, pending)
      PROVE  DirtyOnlyWhileInflight'
  BY <1>1, <1>2, <1>4 DEF OnRequestFailed, GiveUp, DirtyOnlyWhileInflight
<1>5. ASSUME NEW id, NEW data, NEW pending, OnStateReceived(id, data, pending)
      PROVE  DirtyOnlyWhileInflight'
  BY <1>2, <1>5 DEF OnStateReceived
<1>6. CASE UNCHANGED vars
  BY <1>2, <1>6 DEF vars, managerVars
<1>7. CASE Environment
  BY <1>2, <1>7 DEF Environment, Discover, OnDiscovered, ServiceGone, OnServiceRemoved,
                    PlugIn, PullOut, managerVars
<1>8. CASE Network
  <2>1. PICK r \in DOMAIN http :
          ServeHttp(r) \/ InfoReply(r) \/ StateReply(r) \/ PutReply(r) \/ HttpFailure(r)
    BY <1>8 DEF Network
  <2>2. CASE ServeHttp(r)
    BY <1>2, <2>2 DEF ServeHttp, managerVars
  <2>3. CASE InfoReply(r)
    BY <1>2, <2>3 DEF InfoReply, OnInfoReceived
  <2> QED
    BY <1>3, <1>4, <1>5, <2>1, <2>2, <2>3 DEF StateReply, PutReply, HttpFailure
<1>9. CASE Usb
  <2>1. CASE WorkerStep
    BY <1>2, <2>1 DEF WorkerStep, managerVars
  <2>2. CASE UsbEnumerated
    BY <1>2, <2>2 DEF UsbEnumerated, OnUsbEnumerated
  <2>3. CASE UsbInfoReady
    BY <1>2, <2>3 DEF UsbInfoReady, OnUsbInfoReady
  <2>4. CASE UsbInfoFailed
    BY <1>2, <2>4 DEF UsbInfoFailed, OnUsbInfoFailed
  <2>5. CASE UsbRequestDone
    BY <1>3, <1>5, <2>5 DEF UsbRequestDone
  <2>6. CASE UsbRequestFailed
    BY <1>4, <2>6 DEF UsbRequestFailed
  <2> QED
    BY <1>9, <2>1, <2>2, <2>3, <2>4, <2>5, <2>6 DEF Usb
<1> QED
  BY <1>6, <1>7, <1>8, <1>9, UserDirty DEF Next

\* flush, onPutSucceeded, onRequestFailed: a change is marked for later only
\* while a PUT of that light is in flight, so its reply comes to pick it up.
THEOREM DirtyCorrect == Spec => []DirtyOnlyWhileInflight
<1>1. Init => DirtyOnlyWhileInflight
  BY DEF Init, ManagerInit, DirtyOnlyWhileInflight
<1> QED
  BY <1>1, DirtyStep, PTL DEF Spec

-------------------------------------------------------------------------------
(* Every HTTP request has a host.                                          *)

HostedLights(L) == \A id \in DOMAIN L : L[id].transport = "Http" => L[id].address # None
Hosted(requests) == \A r \in requests : r.address # None

\* The property in two parts, over any cache and any set of requests.
LEMMA HostedParts == HttpHasHost <=> HostedLights(lights) /\ Hosted(DOMAIN http)
BY DEF HttpHasHost, HostedLights, Hosted

\* Requests with a host, added to requests with a host.
LEMMA TrackHosted ==
  ASSUME NEW pending, Hosted(DOMAIN pending), NEW requests, Hosted(requests)
  PROVE  Hosted(DOMAIN Track(pending, requests))
BY DEF Hosted, Track, (+), SetToBag

\* A reply leaves the others as they are.
LEMMA UntrackHosted ==
  ASSUME Hosted(DOMAIN http), NEW request
  PROVE  Hosted(DOMAIN Untrack(request))
BY DEF Hosted, Untrack, (-), SetToBag

\* Requests of lights with a host have one.
LEMMA RequestsHosted ==
  ASSUME NEW L, HostedLights(L), NEW S \in SUBSET DOMAIN L
  PROVE  Hosted(StateRequests(L, S)) /\ Hosted(PutRequests(L, S))
BY DEF Hosted, HostedLights, StateRequests, PutRequests, Over, GetLights, PutLights, Request

\* flush sends to lights that have a host.
LEMMA FlushHosted ==
  ASSUME NEW L, HostedLights(L), NEW S, NEW running, NEW marked,
         NEW pending, Hosted(DOMAIN pending), Flush(L, S, running, marked, pending)
  PROVE  Hosted(DOMAIN http')
<1>1. Flushable(L, S) \ running \in SUBSET DOMAIN L
  BY DEF Flushable
<1> QED
  BY <1>1, RequestsHosted, TrackHosted DEF Flush

\* A step that keeps every light's serial number, transport, address and path.
SameRoutes ==
  /\ DOMAIN lights' = DOMAIN lights
  /\ \A id \in DOMAIN lights' : /\ lights'[id].serial = lights[id].serial
                                /\ lights'[id].transport = lights[id].transport
                                /\ lights'[id].address = lights[id].address
                                /\ lights'[id].usbPath = lights[id].usbPath

\* Such a step keeps every host.
LEMMA RoutesKept == HostedLights(lights) /\ SameRoutes => HostedLights(lights')
BY DEF HostedLights, SameRoutes

\* No user intent and no timer touches any of them.
LEMMA UserRoutes == TypeOK /\ (User \/ Timers) => SameRoutes
<1> SUFFICES ASSUME TypeOK, User \/ Timers
             PROVE  SameRoutes
  OBVIOUS
<1>1. ASSUME NEW id, NEW on, SetOn(id, on)
      PROVE  SameRoutes
  BY <1>1, LightFields DEF SetOn, HasState, SameRoutes, TypeOK, ManagerTypeOK, IsTable, KeyLightRecord
<1>2. ASSUME NEW id, NEW value, SetBrightness(id, value)
      PROVE  SameRoutes
  BY <1>2, LightFields DEF SetBrightness, HasState, SameRoutes, TypeOK, ManagerTypeOK, IsTable, KeyLightRecord
<1>3. ASSUME NEW id, NEW value, SetTemperature(id, value)
      PROVE  SameRoutes
  BY <1>3, LightFields DEF SetTemperature, HasState, SameRoutes, TypeOK, ManagerTypeOK, IsTable, KeyLightRecord
<1>4. ASSUME ToggleAll
      PROVE  SameRoutes
  BY <1>4, LightFields DEF ToggleAll, SameRoutes, TypeOK, ManagerTypeOK, KeyLightRecord
<1>5. ASSUME UNCHANGED lights
      PROVE  SameRoutes
  BY <1>5 DEF SameRoutes
<1>6. ASSUME NEW id, FlushPending(id)
      PROVE  SameRoutes
  BY <1>5, <1>6 DEF FlushPending
<1>7. ASSUME RefreshAll \/ OnRefreshTick
      PROVE  SameRoutes
  BY <1>5, <1>7 DEF RefreshAll, OnRefreshTick, managerVars
<1>8. CASE User
  BY <1>1, <1>2, <1>3, <1>4, <1>6, <1>7, <1>8
     DEF User, ClickOn, DragBrightness, DragTemperature, ReleaseSlider, ClickToggleAll,
         RefreshMenu
<1>9. CASE Timers
  BY <1>6, <1>7, <1>9 DEF Timers, RefreshTimer, DebounceTimer, DebounceFires
<1> QED
  BY <1>8, <1>9

\* The user and the timers.
LEMMA UserHosted ==
  ASSUME TypeOK, HttpHasHost, User \/ Timers
  PROVE  HttpHasHost'
<1>1. HostedLights(lights')
  BY HostedParts, UserRoutes, RoutesKept
<1>2. Hosted(DOMAIN http)
  BY HostedParts
<1>3. ASSUME NEW S, Flush(lights', S, inflight, dirty, http)
      PROVE  Hosted(DOMAIN http')
  BY <1>1, <1>2, <1>3, FlushHosted
<1>4. ASSUME NEW id, FlushPending(id)
      PROVE  Hosted(DOMAIN http')
  <2>1. Flush(lights', {id}, inflight, dirty, http)
    BY <1>4 DEF FlushPending
  <2> QED
    BY <1>3, <2>1
<1>5. ASSUME RefreshAll
      PROVE  Hosted(DOMAIN http')
  BY <1>2, <1>5, HostedParts, RequestsHosted, TrackHosted DEF RefreshAll, FetchState
<1>6. ASSUME OnRefreshTick
      PROVE  Hosted(DOMAIN http')
  <2>1. Due(refreshTicks') \in SUBSET DOMAIN lights
    BY DEF Due
  <2> QED
    BY <1>2, <1>6, <2>1, HostedParts, RequestsHosted, TrackHosted DEF OnRefreshTick
<1>7. ASSUME UNCHANGED http
      PROVE  Hosted(DOMAIN http')
  BY <1>2, <1>7
<1>8. ASSUME User
      PROVE  Hosted(DOMAIN http')
  <2>1. ASSUME NEW id, NEW on, SetOn(id, on)
        PROVE  Hosted(DOMAIN http')
    BY <1>3, <2>1 DEF SetOn
  <2>2. ASSUME NEW id, NEW value, SetBrightness(id, value) \/ SetTemperature(id, value)
        PROVE  Hosted(DOMAIN http')
    BY <1>7, <2>2 DEF SetBrightness, SetTemperature, Schedule
  <2>3. ASSUME ToggleAll
        PROVE  Hosted(DOMAIN http')
    BY <1>3, <2>3 DEF ToggleAll
  <2> QED
    BY <1>4, <1>5, <1>8, <2>1, <2>2, <2>3
       DEF User, ClickOn, DragBrightness, DragTemperature, ReleaseSlider, ClickToggleAll,
           RefreshMenu
<1>9. ASSUME Timers
      PROVE  Hosted(DOMAIN http')
  BY <1>4, <1>6, <1>9 DEF Timers, RefreshTimer, DebounceTimer, DebounceFires
<1>10. Hosted(DOMAIN http')
  BY <1>8, <1>9
<1> QED
  BY <1>1, <1>10 DEF HttpHasHost, HostedLights, Hosted

\* Nor does an mDNS service that is gone.
LEMMA GoneRoutes ==
  ASSUME TypeOK, NEW name, ServiceGone(name)
  PROVE  SameRoutes
<1> DEFINE gone == {i \in DOMAIN lights : i = Lookup(byService, name) /\ lights[i].online}
           out(i) == [lights[i] EXCEPT !.online = @ /\ i \notin gone]
<1>1. ASSUME NEW i \in DOMAIN lights
      PROVE  /\ out(i).serial = lights[i].serial
             /\ out(i).transport = lights[i].transport
             /\ out(i).address = lights[i].address
             /\ out(i).usbPath = lights[i].usbPath
  <2>1. lights[i] \in KeyLightRecord
    BY LightFields DEF TypeOK, ManagerTypeOK
  <2> HIDE DEF gone
  <2> QED
    BY <2>1 DEF KeyLightRecord
<1>2. lights' = [i \in DOMAIN lights |-> out(i)]
  BY DEF ServiceGone, OnServiceRemoved
<1> HIDE DEF out
<1> QED
  BY <1>1, <1>2 DEF SameRoutes

\* Discovery gives a light the address of its service.
LEMMA EnvironmentHosted ==
  ASSUME TypeOK, HttpHasHost, Environment
  PROVE  HttpHasHost'
<1>1. HostedLights(lights) /\ Hosted(DOMAIN http)
  BY HostedParts
<1>2. ASSUME NEW s \in Services, Discover(s)
      PROVE  HostedLights(lights') /\ Hosted(DOMAIN http')
  <2> DEFINE id == ServiceId(s)
             base == IF id \in DOMAIN lights THEN lights[id] ELSE NewKeyLight
             light == [base EXCEPT !.address = s.address]
             info == IF id \in DOMAIN lights THEN {} ELSE {GetInfo(id, light)}
  <2>1. s.address # None
    BY HardwareAssumption, KeyLightAssumption DEF DiscoveredService
  <2>2. base \in KeyLightRecord
    BY NewKeyLightType, LightFields DEF TypeOK, ManagerTypeOK
  <2>3. light.address # None
    <3> HIDE DEF base
    <3> QED
      BY <2>1, <2>2 DEF KeyLightRecord
  <2>4. lights' = Bind(lights, id, light)
    BY <1>2 DEF Discover, OnDiscovered
  <2>5. HostedLights(lights') /\ {id} \in SUBSET DOMAIN lights'
    <3> HIDE DEF light, id
    <3> QED
      BY <1>1, <2>3, <2>4 DEF HostedLights, Bind
  <2>6. Hosted(info)
    BY <2>3 DEF Hosted, GetInfo, Request
  <2>7. Hosted(info \cup StateRequests(lights', {id}))
    <3>1. Hosted(StateRequests(lights', {id}))
      BY <2>5, RequestsHosted
    <3> QED
      BY <2>6, <3>1 DEF Hosted
  <2>8. http' = Track(http, info \cup StateRequests(lights', {id}))
    BY <1>2 DEF Discover, OnDiscovered
  <2> QED
    BY <1>1, <2>5, <2>7, <2>8, TrackHosted
<1>3. ASSUME NEW name, ServiceGone(name)
      PROVE  HostedLights(lights') /\ Hosted(DOMAIN http')
  BY <1>1, <1>3, GoneRoutes, RoutesKept DEF ServiceGone, OnServiceRemoved
<1>4. ASSUME NEW d, NEW p, PlugIn(d, p) \/ PullOut(p)
      PROVE  HostedLights(lights') /\ Hosted(DOMAIN http')
  BY <1>1, <1>4 DEF PlugIn, PullOut, managerVars
<1>5. HostedLights(lights') /\ Hosted(DOMAIN http')
  BY <1>2, <1>3, <1>4 DEF Environment
<1> QED
  BY <1>5 DEF HttpHasHost, HostedLights, Hosted

\* merge keeps the route of the light it keeps, or gives it the dropped one's USB path.
LEMMA MergeHosted ==
  ASSUME NEW L, IsTable(L, Ids, KeyLightRecord), HostedLights(L), NEW keepId, NEW dropId,
         Merge(L, keepId, dropId)
  PROVE  HostedLights(lights')
<1>1. CASE {keepId, dropId} \subseteq DOMAIN L /\ keepId # dropId
  <2> DEFINE keep == Merged(L[keepId], L[dropId])
  <2>1. L[keepId] \in KeyLightRecord /\ L[dropId] \in KeyLightRecord
    BY <1>1, LightFields
  <2>2. L[keepId].transport = "Http" => L[keepId].address # None
    BY <1>1 DEF HostedLights
  <2>3. keep.transport = "Http" => keep.address # None
    BY <2>1, <2>2 DEF Merged, KeyLightRecord
  <2>4. lights' = Unbind([L EXCEPT ![keepId] = keep], dropId)
    BY <1>1 DEF Merge
  <2> HIDE DEF keep
  <2> QED
    BY <1>1, <2>3, <2>4 DEF HostedLights, Unbind, IsTable
<1>2. CASE ~({keepId, dropId} \subseteq DOMAIN L /\ keepId # dropId)
  BY <1>2 DEF Merge
<1> QED
  BY <1>1, <1>2

\* A failed request changes no route, whatever its kind.
LEMMA FailedRoutes ==
  ASSUME TypeOK, NEW id, NEW kind, NEW pending, OnRequestFailed(id, kind, pending)
  PROVE  SameRoutes
<1>1. ASSUME UNCHANGED lights
      PROVE  SameRoutes
  BY <1>1 DEF SameRoutes
<1>2. ASSUME id \in DOMAIN lights, lights' = [lights EXCEPT ![id] = Failed(@)]
      PROVE  SameRoutes
  <2>1. lights[id] \in KeyLightRecord
    BY <1>2, LightFields DEF TypeOK, ManagerTypeOK
  <2>2. ASSUME NEW light \in KeyLightRecord
        PROVE  /\ Failed(light).serial = light.serial
               /\ Failed(light).transport = light.transport
               /\ Failed(light).address = light.address
               /\ Failed(light).usbPath = light.usbPath
    BY <2>2 DEF Failed, KeyLightRecord
  <2> QED
    BY <1>2, <2>1, <2>2 DEF SameRoutes, TypeOK, ManagerTypeOK, IsTable
<1>3. ASSUME OnIoFail(id)
      PROVE  SameRoutes
  BY <1>1, <1>2, <1>3 DEF OnIoFail
<1> QED
  BY <1>1, <1>3 DEF OnRequestFailed

\* Nor does a state answer.
LEMMA AnsweredRoutes ==
  ASSUME TypeOK, NEW id, NEW data, NEW pending, OnStateReceived(id, data, pending)
  PROVE  SameRoutes
<1>1. CASE id \notin DOMAIN lights
  BY <1>1 DEF OnStateReceived, SameRoutes
<1>2. CASE id \in DOMAIN lights
  <2>1. lights[id] \in KeyLightRecord
    BY <1>2, LightFields DEF TypeOK, ManagerTypeOK
  <2> DEFINE answered(state) == [lights[id] EXCEPT !.failCount = 0, !.online = TRUE, !.state = state]
             state == IF data = None THEN lights[id].state ELSE data
  <2>2. ASSUME NEW any
        PROVE  /\ answered(any).serial = lights[id].serial
               /\ answered(any).transport = lights[id].transport
               /\ answered(any).address = lights[id].address
               /\ answered(any).usbPath = lights[id].usbPath
    BY <2>1 DEF KeyLightRecord
  <2>3. lights' = [lights EXCEPT ![id] = answered(state)]
    BY <1>2, <2>1 DEF OnStateReceived, TypeOK, ManagerTypeOK, IsTable, KeyLightRecord
  <2> HIDE DEF answered, state
  <2> QED
    BY <1>2, <2>2, <2>3 DEF SameRoutes, TypeOK, ManagerTypeOK, IsTable
<1> QED
  BY <1>1, <1>2

\* Nor does a PUT that succeeded.
LEMMA PutRoutes ==
  ASSUME TypeOK, NEW id, NEW pending, OnPutSucceeded(id, pending)
  PROVE  SameRoutes
<1>1. ASSUME NEW i \in DOMAIN lights
      PROVE  /\ lights'[i].serial = lights[i].serial
             /\ lights'[i].transport = lights[i].transport
             /\ lights'[i].address = lights[i].address
             /\ lights'[i].usbPath = lights[i].usbPath
  <2>1. lights[i] \in KeyLightRecord
    BY LightFields DEF TypeOK, ManagerTypeOK
  <2>2. lights'[i] \in {lights[i], [lights[i] EXCEPT !.failCount = 0, !.online = TRUE]}
    BY DEF OnPutSucceeded
  <2> QED
    BY <2>1, <2>2 DEF KeyLightRecord
<1>2. DOMAIN lights' = DOMAIN lights
  BY DEF OnPutSucceeded
<1> QED
  BY <1>1, <1>2 DEF SameRoutes

\* The handlers that answer a request, over either transport.
LEMMA ResultHosted ==
  ASSUME TypeOK, HttpHasHost, NEW id, NEW pending, Hosted(DOMAIN pending),
         \/ \E data : OnStateReceived(id, data, pending)
         \/ OnPutSucceeded(id, pending)
         \/ \E kind : OnRequestFailed(id, kind, pending)
  PROVE  HttpHasHost'
<1>1. SameRoutes
  BY AnsweredRoutes, PutRoutes, FailedRoutes
<1>2. HostedLights(lights')
  BY <1>1, HostedParts, RoutesKept
<1>3. Hosted(DOMAIN http')
  <2>1. CASE OnPutSucceeded(id, pending)
    <3>1. Flush(lights', {id} \cap dirty, inflight \ {id}, dirty \ {id}, pending)
      BY <2>1 DEF OnPutSucceeded
    <3> QED
      BY <1>2, <3>1, FlushHosted
  <2>2. CASE ~OnPutSucceeded(id, pending)
    BY <2>2 DEF OnStateReceived, OnRequestFailed
  <2> QED
    BY <2>1, <2>2
<1> QED
  BY <1>2, <1>3 DEF HttpHasHost, HostedLights, Hosted

\* HTTP requests served, answered and lost.
LEMMA NetworkHosted ==
  ASSUME TypeOK, HttpHasHost, Network
  PROVE  HttpHasHost'
<1>1. PICK r \in DOMAIN http :
        ServeHttp(r) \/ InfoReply(r) \/ StateReply(r) \/ PutReply(r) \/ HttpFailure(r)
  BY DEF Network
<1>2. HostedLights(lights) /\ Hosted(DOMAIN http) /\ Hosted(DOMAIN Untrack(r))
  BY HostedParts, UntrackHosted
<1>3. CASE ServeHttp(r)
  <2>1. r \in HttpRequest /\ r.address # None
    BY <1>2 DEF TypeOK, HttpTypeOK, Hosted
  <2>2. ASSUME NEW payload
        PROVE  [r EXCEPT !.served = TRUE, !.payload = payload].address = r.address
    BY <2>1 DEF HttpRequest, Requests
  <2>3. PICK payload :
          http' = Track(Untrack(r), {[r EXCEPT !.served = TRUE, !.payload = payload]})
    BY <1>3 DEF ServeHttp, DeviceServes
  <2>4. Hosted({[r EXCEPT !.served = TRUE, !.payload = payload]})
    BY <2>1, <2>2 DEF Hosted
  <2>5. Hosted(DOMAIN http') /\ UNCHANGED lights
    BY <1>2, <1>3, <2>3, <2>4, TrackHosted DEF ServeHttp, managerVars
  <2> QED
    BY <1>2, <2>5 DEF HttpHasHost, HostedLights, Hosted
<1>4. CASE InfoReply(r)
  <2> DEFINE id == r.id
             info == InfoOf[Owner[r.address]]
             named == [lights EXCEPT ![id].serial = info.serial]
  <2>1. http' = Untrack(r)
    BY <1>4 DEF InfoReply, OnInfoReceived
  <2>2. ASSUME id \in DOMAIN lights
        PROVE  HostedLights(named) /\ IsTable(named, Ids, KeyLightRecord)
    <3>1. lights[id] \in KeyLightRecord
      BY <2>2, LightFields DEF TypeOK, ManagerTypeOK
    <3>2. info.serial \in Serials \cup {None}
      <4>1. r.address \in Addresses
        BY <1>2, RequestFields DEF TypeOK, HttpTypeOK, Hosted
      <4> QED
        BY <4>1, HardwareAssumption DEF Info
    <3>3. ASSUME NEW serial \in Serials \cup {None}
          PROVE  /\ [lights[id] EXCEPT !.serial = serial].transport = lights[id].transport
                 /\ [lights[id] EXCEPT !.serial = serial].address = lights[id].address
                 /\ [lights[id] EXCEPT !.serial = serial] \in KeyLightRecord
      BY <3>1, <3>3 DEF KeyLightRecord
    <3> QED
      BY <1>2, <2>2, <3>2, <3>3 DEF HostedLights, TypeOK, ManagerTypeOK, IsTable
  <2> HIDE DEF named
  <2>3. \/ UNCHANGED lights
        \/ id \in DOMAIN lights /\ lights' = named
        \/ id \in DOMAIN lights /\ Merge(named, Lookup(bySerial, info.serial), id)
    BY <1>4 DEF InfoReply, OnInfoReceived, named
  <2>4. HostedLights(lights')
    BY <1>2, <2>2, <2>3, MergeHosted
  <2> QED
    BY <1>2, <2>1, <2>4 DEF HttpHasHost, HostedLights, Hosted
<1> QED
  BY <1>1, <1>2, <1>3, <1>4, ResultHosted DEF StateReply, PutReply, HttpFailure

\* Falling back to HTTP needs an address; USB information makes it needless.
LEMMA UsbHosted ==
  ASSUME TypeOK, HttpHasHost, Usb
  PROVE  HttpHasHost'
<1>1. HostedLights(lights) /\ Hosted(DOMAIN http)
  BY HostedParts
<1>2. ASSUME HostedLights(lights'), Hosted(DOMAIN http')
      PROVE  HttpHasHost'
  BY <1>2 DEF HttpHasHost, HostedLights, Hosted
<1>3. CASE WorkerStep
  BY <1>1, <1>2, <1>3 DEF WorkerStep, managerVars
<1>4. CASE UsbEnumerated
  <2>1. ASSUME NEW light \in KeyLightRecord
        PROVE  Unplugged(light).transport = "Http" =>
                 \/ Unplugged(light).address # None
                 \/ light.transport = "Http" /\ light.address = None
    BY DEF Unplugged, KeyLightRecord
  <2>2. \A id \in DOMAIN lights : lights[id] \in KeyLightRecord
    BY LightFields DEF TypeOK, ManagerTypeOK
  <2>3. UNCHANGED http /\ DOMAIN lights' = DOMAIN lights
        /\ \A id \in DOMAIN lights : lights'[id] \in {lights[id], Unplugged(lights[id])}
    BY <1>4 DEF UsbEnumerated, OnUsbEnumerated
  <2> QED
    BY <1>1, <1>2, <2>1, <2>2, <2>3 DEF HostedLights
<1>5. CASE UsbInfoReady
  <2> DEFINE path == Head(usbOut).call.path
             info == Head(usbOut).info
             id == KnownAs(UsbId(path, info), info.serial)
             base == IF {id} \cap DOMAIN lights = {} THEN NewKeyLight ELSE lights[id]
             light == [base EXCEPT !.usbPath = path, !.transport = "Usb",
                         !.serial = IF info.serial = None THEN @ ELSE info.serial]
  <2>1. base \in KeyLightRecord
    BY NewKeyLightType, LightFields DEF TypeOK, ManagerTypeOK
  <2>2. light.transport = "Usb"
    <3> HIDE DEF base, path, info
    <3> QED
      BY <2>1 DEF KeyLightRecord
  <2>3. lights' = Bind(lights, id, light) /\ FetchState(lights', {id})
    BY <1>5 DEF UsbInfoReady, OnUsbInfoReady
  <2> HIDE DEF light, id
  <2>4. HostedLights(lights') /\ {id} \in SUBSET DOMAIN lights'
    BY <1>1, <2>2, <2>3 DEF HostedLights, Bind
  <2>5. http' = Track(http, StateRequests(lights', {id}))
    BY <2>3 DEF FetchState
  <2> QED
    BY <1>1, <1>2, <2>4, <2>5, RequestsHosted, TrackHosted
<1>6. CASE UsbInfoFailed
  BY <1>1, <1>2, <1>6 DEF UsbInfoFailed, OnUsbInfoFailed
<1>7. CASE UsbRequestDone
  BY <1>1, <1>7, ResultHosted DEF UsbRequestDone
<1>8. CASE UsbRequestFailed
  BY <1>1, <1>8, ResultHosted DEF UsbRequestFailed
<1> QED
  BY <1>3, <1>4, <1>5, <1>6, <1>7, <1>8 DEF Usb

\* onDiscovered, onUsbRemoved, merge: a light driven over HTTP has an address,
\* and no request was ever sent to an empty host.
THEOREM HostCorrect == Spec => []HttpHasHost
<1>1. Init => HttpHasHost
  BY DEF Init, ManagerInit, HttpInit, EmptyBag, SetToBag, EmptyTable, HttpHasHost
<1>2. TypeOK /\ HttpHasHost /\ [Next]_vars => HttpHasHost'
  <2>1. CASE UNCHANGED vars
    BY <2>1 DEF vars, managerVars, HttpHasHost
  <2> QED
    BY <2>1, UserHosted, EnvironmentHosted, NetworkHosted, UsbHosted DEF Next
<1> QED
  BY <1>1, <1>2, TypeCorrect, PTL DEF Spec

-------------------------------------------------------------------------------
(* What the user sees: the cards and the icon follow the cache, although   *)
(* they are told of some of its changes only.                              *)

\* The lights that can be used, as counts() and LightCard::sync see them.
Reachable(L) == {id \in DOMAIN L : Enabled(L[id])}

Displayed == CardsMirrorCache /\ IconCountsReachable

-------------------------------------------------------------------------------
(* One step of the cache, announced or not.                                *)

\* The three signals bring cards and icon up to date, if every light whose
\* reachability changed is named by one of them.
LEMMA EmitDisplays ==
  ASSUME Displayed, NEW added, NEW updated, NEW removed,
         Emit(lights', added, updated, removed),
         added \subseteq DOMAIN lights',
         removed \cap DOMAIN lights' = {},
         DOMAIN lights \subseteq DOMAIN lights' \cup removed,
         \A id : id \notin added \cup updated \cup removed
                   => (id \in Reachable(lights') <=> id \in Reachable(lights)),
         removed # {} => added \cup updated # {}
  PROVE  Displayed'
<1>1. CardsMirrorCache'
  <2> SUFFICES ASSUME NEW id \in DOMAIN cards'
               PROVE  id \in DOMAIN lights' /\ cards'[id] = Enabled(lights'[id])
    BY DEF CardsMirrorCache
  <2>1. cards' = [i \in (DOMAIN cards \ removed) \cup added |->
                    IF i \in (added \cup updated) \cap DOMAIN lights'
                    THEN Enabled(lights'[i]) ELSE cards[i]]
    BY DEF Emit, SyncCards
  <2>2. id \in DOMAIN lights'
    BY <2>1 DEF Displayed, CardsMirrorCache
  <2>3. CASE id \in added \cup updated
    BY <2>1, <2>2, <2>3
  <2>4. CASE id \notin added \cup updated
    <3>1. id \in DOMAIN cards /\ id \notin removed /\ cards'[id] = cards[id]
      BY <2>1, <2>4
    <3>2. id \in DOMAIN lights /\ cards[id] = Enabled(lights[id])
      BY <3>1 DEF Displayed, CardsMirrorCache
    <3>3. Enabled(lights'[id]) <=> Enabled(lights[id])
      BY <2>2, <2>4, <3>1, <3>2 DEF Reachable
    <3> QED
      BY <2>2, <3>1, <3>2, <3>3 DEF Enabled
  <2> QED
    BY <2>3, <2>4
<1>2. IconCountsReachable'
  <2>1. CASE added \cup updated # {}
    BY <2>1 DEF Emit, UpdateIcon, Counted, IconCountsReachable
  <2>2. CASE added \cup updated = {}
    <3>1. shown' = shown /\ Reachable(lights') = Reachable(lights)
      BY <2>2 DEF Emit, UpdateIcon
    <3> QED
      BY <3>1 DEF Displayed, IconCountsReachable, Reachable
  <2> QED
    BY <2>1, <2>2
<1> QED
  BY <1>1, <1>2 DEF Displayed

\* A step that signals nothing must change nothing that is displayed.
LEMMA QuietDisplays ==
  ASSUME Displayed, UNCHANGED uiVars, DOMAIN lights \subseteq DOMAIN lights',
         Reachable(lights') = Reachable(lights)
  PROVE  Displayed'
<1>1. cards' = cards /\ shown' = shown
  BY DEF uiVars
<1>2. ASSUME NEW id \in DOMAIN cards
      PROVE  id \in DOMAIN lights' /\ cards[id] = Enabled(lights'[id])
  <2>1. id \in DOMAIN lights /\ cards[id] = Enabled(lights[id])
    BY DEF Displayed, CardsMirrorCache
  <2>2. Enabled(lights'[id]) <=> Enabled(lights[id])
    BY <2>1 DEF Reachable
  <2> QED
    BY <2>1, <2>2 DEF Enabled
<1> QED
  BY <1>1, <1>2 DEF Displayed, CardsMirrorCache, IconCountsReachable, Reachable

\* One light changes: only its own reachability can.
LEMMA OtherReach ==
  ASSUME TypeOK, NEW id, NEW light, lights' = [lights EXCEPT ![id] = light]
  PROVE  /\ DOMAIN lights' = DOMAIN lights
         /\ \A i : i # id => (i \in Reachable(lights') <=> i \in Reachable(lights))
         /\ (id \in DOMAIN lights /\ (Enabled(light) <=> Enabled(lights[id])))
              => Reachable(lights') = Reachable(lights)
BY DEF Reachable, TypeOK, ManagerTypeOK, IsTable

\* A handler that neither adds nor removes a light.
LEMMA UpdatedDisplays ==
  ASSUME Displayed, NEW updated, Emit(lights', {}, updated, {}),
         DOMAIN lights' = DOMAIN lights,
         \A i : i \notin updated => (i \in Reachable(lights') <=> i \in Reachable(lights))
  PROVE  Displayed'
<1> DEFINE none == {}
<1>1. /\ Emit(lights', none, updated, none)
      /\ none \subseteq DOMAIN lights'
      /\ none \cap DOMAIN lights' = {}
      /\ DOMAIN lights \subseteq DOMAIN lights' \cup none
      /\ \A i : i \notin none \cup updated \cup none
                  => (i \in Reachable(lights') <=> i \in Reachable(lights))
      /\ none # {} => none \cup updated # {}
  OBVIOUS
<1> HIDE DEF none
<1> QED
  BY <1>1, EmitDisplays

\* A handler that answers for one light, and says so.
LEMMA UpdateDisplays ==
  ASSUME TypeOK, Displayed, NEW id, NEW light, lights' = [lights EXCEPT ![id] = light],
         Emit(lights', {}, {id}, {})
  PROVE  Displayed'
<1>1. /\ DOMAIN lights' = DOMAIN lights
      /\ \A i : i \notin {id} => (i \in Reachable(lights') <=> i \in Reachable(lights))
  BY OtherReach
<1> QED
  BY <1>1, UpdatedDisplays

-------------------------------------------------------------------------------
(* Discovery and merging.                                                  *)

\* onDiscovered: an address changes, or an offline light is added.
LEMMA DiscoveredDisplays ==
  ASSUME TypeOK, Displayed, NEW service, OnDiscovered(service)
  PROVE  Displayed'
<1> DEFINE id == ServiceId(service)
           base == IF id \in DOMAIN lights THEN lights[id] ELSE NewKeyLight
           light == [base EXCEPT !.address = service.address]
<1>1. lights' = Bind(lights, id, light) /\ UNCHANGED uiVars
  BY DEF OnDiscovered
<1>2. base \in KeyLightRecord
  BY NewKeyLightType, LightFields DEF TypeOK, ManagerTypeOK
<1>3. Enabled(light) <=> Enabled(base)
  <2> HIDE DEF base
  <2> QED
    BY <1>2 DEF Enabled, KeyLightRecord
<1>4. ~Enabled(NewKeyLight)
  BY DEF Enabled, NewKeyLight
<1>5. Reachable(lights') = Reachable(lights)
  <2> HIDE DEF light, id
  <2>1. id \in DOMAIN lights => base = lights[id]
    OBVIOUS
  <2>2. id \notin DOMAIN lights => base = NewKeyLight
    OBVIOUS
  <2> HIDE DEF base
  <2> QED
    BY <1>1, <1>3, <1>4, <2>1, <2>2 DEF Reachable, Bind
<1>6. DOMAIN lights \subseteq DOMAIN lights'
  BY <1>1 DEF Bind
<1> QED
  BY <1>1, <1>5, <1>6, QuietDisplays

\* onServiceRemoved: the light that goes offline is signalled.
LEMMA ServiceRemovedDisplays ==
  ASSUME TypeOK, Displayed, NEW name, OnServiceRemoved(name)
  PROVE  Displayed'
<1> DEFINE gone == {id \in DOMAIN lights : id = Lookup(byService, name) /\ lights[id].online}
<1>1. lights' = [id \in DOMAIN lights |-> [lights[id] EXCEPT !.online = @ /\ id \notin gone]]
      /\ Emit(lights', {}, gone, {})
  BY DEF OnServiceRemoved
<1>2. \A id \in DOMAIN lights : lights[id] \in KeyLightRecord
  BY LightFields DEF TypeOK, ManagerTypeOK
<1> HIDE DEF gone
<1>3. ASSUME NEW id \in DOMAIN lights, id \notin gone
      PROVE  Enabled(lights'[id]) <=> Enabled(lights[id])
  <2>1. lights[id] \in KeyLightRecord
    BY <1>2
  <2>2. lights'[id] = [lights[id] EXCEPT !.online = @ /\ id \notin gone]
    BY <1>1
  <2> QED
    BY <1>3, <2>1, <2>2 DEF Enabled, KeyLightRecord
<1>4. \A id : id \notin gone => (id \in Reachable(lights') <=> id \in Reachable(lights))
  BY <1>1, <1>3 DEF Reachable
<1> QED
  BY <1>1, <1>4, EmitDisplays

\* merge: the card of the light that is dropped goes, the other is brought up to date.
LEMMA MergeDisplays ==
  ASSUME TypeOK, Displayed, NEW keepId, NEW dropId, NEW serial, dropId \in DOMAIN lights,
         Merge([lights EXCEPT ![dropId].serial = serial], keepId, dropId)
  PROVE  Displayed'
<1> DEFINE named == [lights EXCEPT ![dropId].serial = serial]
<1>1. lights[dropId] \in KeyLightRecord
  BY LightFields DEF TypeOK, ManagerTypeOK
<1>2. CASE {keepId, dropId} \subseteq DOMAIN named /\ keepId # dropId
  <2>1. /\ lights' = Unbind([named EXCEPT ![keepId] = Merged(@, named[dropId])], dropId)
        /\ Emit(lights', {}, {keepId}, {dropId})
    BY <1>2 DEF Merge
  <2>2. /\ DOMAIN lights' = DOMAIN lights \ {dropId}
        /\ \A id : id \notin {keepId, dropId}
             => (id \in Reachable(lights') <=> id \in Reachable(lights))
    BY <2>1 DEF Unbind, Reachable
  <2> DEFINE none == {}
             kept == {keepId}
             gone == {dropId}
  <2>3. /\ Emit(lights', none, kept, gone)
        /\ none \subseteq DOMAIN lights'
        /\ gone \cap DOMAIN lights' = {}
        /\ DOMAIN lights \subseteq DOMAIN lights' \cup gone
        /\ \A id : id \notin none \cup kept \cup gone
             => (id \in Reachable(lights') <=> id \in Reachable(lights))
        /\ gone # {} => none \cup kept # {}
    BY <2>1, <2>2
  <2> HIDE DEF none, kept, gone
  <2> QED
    BY <2>3, EmitDisplays
<1>3. CASE ~({keepId, dropId} \subseteq DOMAIN named /\ keepId # dropId)
  <2>1. lights' = named /\ UNCHANGED uiVars
    BY <1>3 DEF Merge
  <2>2. Enabled([lights[dropId] EXCEPT !.serial = serial]) <=> Enabled(lights[dropId])
    BY <1>1 DEF Enabled, KeyLightRecord
  <2>3. Reachable(lights') = Reachable(lights) /\ DOMAIN lights' = DOMAIN lights
    BY <2>1, <2>2, OtherReach
  <2> QED
    BY <2>1, <2>3, QuietDisplays
<1> QED
  BY <1>2, <1>3

\* onInfoReceived: whatever its outcome.
LEMMA InfoDisplays ==
  ASSUME TypeOK, Displayed, NEW id, NEW info, NEW pending, OnInfoReceived(id, info, pending)
  PROVE  Displayed'
<1> DEFINE other == Lookup(bySerial, info.serial)
           named == [lights EXCEPT ![id].serial = info.serial]
<1>1. CASE UNCHANGED <<lights, uiVars>>
  BY <1>1, QuietDisplays
<1>2. CASE UNCHANGED lights /\ Emit(lights, {}, {id}, {})
  BY <1>2, EmitDisplays
<1>3. CASE lights' = named /\ Emit(named, {}, {id}, {})
  BY <1>3, UpdateDisplays
<1>4. CASE id \in DOMAIN lights /\ Merge(named, other, id)
  BY <1>4, MergeDisplays
<1> QED
  BY <1>1, <1>2, <1>3, <1>4 DEF OnInfoReceived

-------------------------------------------------------------------------------
(* Answers and failures.                                                   *)

\* onStateReceived: the light is added or updated.
LEMMA StateDisplays ==
  ASSUME TypeOK, Displayed, NEW id, NEW data, NEW pending, OnStateReceived(id, data, pending)
  PROVE  Displayed'
<1>1. CASE id \notin DOMAIN lights
  BY <1>1, QuietDisplays DEF OnStateReceived
<1>2. CASE id \in DOMAIN lights
  <2> DEFINE announced == {i \in {id} \cap announcePending : ~lights[i].online}
             light == [lights[id] EXCEPT !.failCount = 0, !.online = TRUE,
                                         !.state = IF data = None THEN @ ELSE data]
  <2>1. lights[id] \in KeyLightRecord
    BY <1>2, LightFields DEF TypeOK, ManagerTypeOK
  <2>2. lights' = [lights EXCEPT ![id] = light]
    BY <1>2, <2>1 DEF OnStateReceived, TypeOK, ManagerTypeOK, IsTable, KeyLightRecord
  <2>3. Emit(lights', announced, {id} \ announced, {})
    BY <1>2 DEF OnStateReceived
  <2>4. announced \subseteq {id}
    OBVIOUS
  <2> HIDE DEF announced, light
  <2>5. announced \subseteq DOMAIN lights' /\ DOMAIN lights' = DOMAIN lights
        /\ \A i : i # id => (i \in Reachable(lights') <=> i \in Reachable(lights))
    BY <1>2, <2>2, <2>4, OtherReach
  <2> QED
    BY <2>3, <2>4, <2>5, EmitDisplays
<1> QED
  BY <1>1, <1>2

\* onIoFail signals when the light goes offline, and only then.
LEMMA IoFailDisplays ==
  ASSUME TypeOK, Displayed, NEW id, OnIoFail(id)
  PROVE  Displayed'
<1>1. CASE id \notin DOMAIN lights
  BY <1>1, QuietDisplays DEF OnIoFail
<1>2. CASE id \in DOMAIN lights
  <2> DEFINE down == {i \in {id} : lights[i].online /\ ~lights'[i].online}
  <2>1. lights[id] \in KeyLightRecord
    BY <1>2, LightFields DEF TypeOK, ManagerTypeOK
  <2>2. lights' = [lights EXCEPT ![id] = Failed(lights[id])] /\ Emit(lights', {}, down, {})
    BY <1>2 DEF OnIoFail
  <2>3. /\ Failed(lights[id]).state = lights[id].state
        /\ Failed(lights[id]).online => lights[id].online
        /\ Failed(lights[id]).online \in BOOLEAN /\ lights[id].online \in BOOLEAN
    BY <2>1 DEF Failed, KeyLightRecord
  <2>4. lights'[id] = Failed(lights[id])
    BY <1>2, <2>2 DEF TypeOK, ManagerTypeOK, IsTable
  <2>5. CASE id \in down
    <3>1. Emit(lights', {}, {id}, {})
      BY <2>2, <2>5
    <3> QED
      BY <2>2, <3>1, UpdateDisplays
  <2>6. CASE id \notin down
    <3>1. Enabled(Failed(lights[id])) <=> Enabled(lights[id])
      BY <2>3, <2>4, <2>6 DEF Enabled
    <3>2. Reachable(lights') = Reachable(lights) /\ DOMAIN lights' = DOMAIN lights
      BY <1>2, <2>2, <3>1, OtherReach
    <3> HIDE DEF down
    <3> QED
      BY <2>2, <3>2, UpdatedDisplays
  <2> QED
    BY <2>5, <2>6
<1> QED
  BY <1>1, <1>2

\* onPutSucceeded.
LEMMA PutDisplays ==
  ASSUME TypeOK, Displayed, NEW id, NEW pending, OnPutSucceeded(id, pending)
  PROVE  Displayed'
<1>1. /\ DOMAIN lights' = DOMAIN lights
      /\ \A i \in DOMAIN lights : i # id => lights'[i] = lights[i]
      /\ Emit(lights', {}, {id}, {})
  BY DEF OnPutSucceeded
<1>2. \A i : i # id => (i \in Reachable(lights') <=> i \in Reachable(lights))
  BY <1>1 DEF Reachable
<1> QED
  BY <1>1, <1>2, EmitDisplays

\* onRequestFailed, whatever failed.
LEMMA FailureDisplays ==
  ASSUME TypeOK, Displayed, NEW id, NEW kind, NEW pending, OnRequestFailed(id, kind, pending)
  PROVE  Displayed'
<1>1. CASE OnIoFail(id)
  BY <1>1, IoFailDisplays
<1>2. CASE UNCHANGED <<lights, uiVars>>
  BY <1>2, QuietDisplays
<1> QED
  BY <1>1, <1>2 DEF OnRequestFailed

-------------------------------------------------------------------------------
(* The cable.                                                              *)

\* onUsbRemoved: a light without an address goes offline, and is signalled if it was
\* online; one that falls back to HTTP stays as reachable as it was.
LEMMA EnumeratedDisplays ==
  ASSUME TypeOK, Displayed, NEW paths, OnUsbEnumerated(paths)
  PROVE  Displayed'
<1> DEFINE gone == DOMAIN byUsbPath \ paths
           orphaned == {id \in DOMAIN lights : \E p \in gone : byUsbPath[p] = id}
           changed == {id \in orphaned : lights[id].address # None \/ lights[id].online}
<1>1. /\ lights' = [id \in DOMAIN lights |->
                      IF id \in orphaned THEN Unplugged(lights[id]) ELSE lights[id]]
      /\ Emit(lights', {}, changed, {})
  BY DEF OnUsbEnumerated
<1>2. ASSUME NEW id \in DOMAIN lights, id \notin changed
      PROVE  Enabled(lights'[id]) <=> Enabled(lights[id])
  <2>1. lights[id] \in KeyLightRecord
    BY LightFields DEF TypeOK, ManagerTypeOK
  <2>2. CASE id \in orphaned
    <3>1. lights[id].address = None /\ ~lights[id].online
      BY <1>2, <2>2
    <3>2. lights'[id] = [lights[id] EXCEPT !.usbPath = None, !.online = FALSE]
      BY <1>1, <2>2, <3>1 DEF Unplugged
    <3> HIDE DEF orphaned, changed
    <3> QED
      BY <2>1, <3>1, <3>2 DEF Enabled, KeyLightRecord
  <2>3. CASE id \notin orphaned
    BY <1>1, <2>3
  <2> QED
    BY <2>2, <2>3
<1>3. changed \subseteq DOMAIN lights
  OBVIOUS
<1> HIDE DEF changed, orphaned
<1>4. \A id : id \notin changed => (id \in Reachable(lights') <=> id \in Reachable(lights))
  BY <1>1, <1>2 DEF Reachable
<1> QED
  BY <1>1, <1>4, EmitDisplays

\* applyUsbInfo: path, transport and serial change, or an offline light is added.
LEMMA InfoReadyDisplays ==
  ASSUME TypeOK, Displayed, NEW path, NEW info, OnUsbInfoReady(path, info)
  PROVE  Displayed'
<1> DEFINE id == KnownAs(UsbId(path, info), info.serial)
           existing == {id} \cap DOMAIN lights
           base == IF existing = {} THEN NewKeyLight ELSE lights[id]
           serial == IF info.serial = None THEN base.serial ELSE info.serial
           light == [base EXCEPT !.usbPath = path, !.transport = "Usb", !.serial = serial]
<1>1. base \in KeyLightRecord
  BY NewKeyLightType, LightFields DEF TypeOK, ManagerTypeOK
<1>2. lights' = Bind(lights, id, light) /\ Emit(lights', {}, existing, {})
  <2>1. /\ lights' = Bind(lights, id, [base EXCEPT !.usbPath = path, !.transport = "Usb",
                            !.serial = IF info.serial = None THEN @ ELSE info.serial])
        /\ Emit(lights', {}, existing, {})
    BY DEF OnUsbInfoReady
  <2> HIDE DEF base, id
  <2> QED
    BY <1>1, <2>1 DEF KeyLightRecord
<1>3. Enabled(light) <=> Enabled(base)
  <2> HIDE DEF base, serial
  <2> QED
    BY <1>1 DEF Enabled, KeyLightRecord
<1>4. ~Enabled(NewKeyLight)
  BY DEF Enabled, NewKeyLight
<1> HIDE DEF light, id
<1>5. /\ id \in DOMAIN lights => base = lights[id]
      /\ id \notin DOMAIN lights => base = NewKeyLight
  OBVIOUS
<1> HIDE DEF base
<1>6. /\ DOMAIN lights \subseteq DOMAIN lights'
      /\ Reachable(lights') = Reachable(lights)
  BY <1>2, <1>3, <1>4, <1>5 DEF Bind, Reachable
<1> QED
  BY <1>2, <1>6, EmitDisplays

-------------------------------------------------------------------------------
(* The user and the timers.                                                *)

\* A light whose state is known stays so when the user changes it.
LEMMA EditReach ==
  ASSUME NEW light \in KeyLightRecord, light.state # None, NEW state \in LightState
  PROVE  Enabled([light EXCEPT !.state = state]) <=> Enabled(light)
BY KeyLightAssumption DEF Enabled, KeyLightRecord

\* What the user changes, and what a timer sends, is not signalled and need not be.
LEMMA UserDisplays ==
  ASSUME TypeOK, Displayed, User \/ Timers
  PROVE  Displayed'
<1>1. ASSUME UNCHANGED <<lights, uiVars>>
      PROVE  Displayed'
  BY <1>1, QuietDisplays
<1>2. ASSUME NEW id, HasState(id), NEW state \in LightState, UNCHANGED uiVars,
             lights' = [lights EXCEPT ![id] = [lights[id] EXCEPT !.state = state]]
      PROVE  Displayed'
  <2>1. id \in DOMAIN lights /\ lights[id] \in KeyLightRecord /\ lights[id].state # None
    BY <1>2, LightFields DEF HasState, TypeOK, ManagerTypeOK
  <2>2. DOMAIN lights' = DOMAIN lights /\ Reachable(lights') = Reachable(lights)
    BY <1>2, <2>1, EditReach, OtherReach
  <2> QED
    BY <1>2, <2>2, QuietDisplays
<1>3. ASSUME NEW id, HasState(id)
      PROVE  lights[id].state \in LightState
  BY <1>3, LightFields DEF HasState, TypeOK, ManagerTypeOK
<1>4. ASSUME NEW id, NEW on \in BOOLEAN, SetOn(id, on)
      PROVE  Displayed'
  <2> DEFINE state == [lights[id].state EXCEPT !.on = on]
  <2>1. HasState(id) /\ UNCHANGED uiVars
        /\ lights' = [lights EXCEPT ![id] = [lights[id] EXCEPT !.state = state]]
    BY <1>4 DEF SetOn, UserUnchanged
  <2>2. state \in LightState
    BY <1>3, <2>1 DEF LightState
  <2> QED
    BY <1>2, <2>1, <2>2
<1>5. ASSUME NEW id, NEW value \in Brightnesses, SetBrightness(id, value)
      PROVE  Displayed'
  <2> DEFINE state == [lights[id].state EXCEPT !.brightness = ClampInt(value, 0, 100)]
  <2>1. HasState(id) /\ UNCHANGED uiVars
        /\ lights' = [lights EXCEPT ![id] = [lights[id] EXCEPT !.state = state]]
    BY <1>5 DEF SetBrightness, Schedule, UserUnchanged
  <2>2. state \in LightState
    BY <1>3, <2>1, KeyLightAssumption DEF LightState
  <2> QED
    BY <1>2, <2>1, <2>2
<1>6. ASSUME NEW id, NEW mireds \in Temperatures, SetTemperature(id, mireds)
      PROVE  Displayed'
  <2> DEFINE state == [lights[id].state EXCEPT
                         !.temperature = ClampInt(mireds, kMiredMin, kMiredMax)]
  <2>1. HasState(id) /\ UNCHANGED uiVars
        /\ lights' = [lights EXCEPT ![id] = [lights[id] EXCEPT !.state = state]]
    BY <1>6 DEF SetTemperature, Schedule, UserUnchanged
  <2>2. state \in LightState
    BY <1>3, <2>1, KeyLightAssumption DEF LightState
  <2> QED
    BY <1>2, <2>1, <2>2
<1>7. CASE ToggleAll
  <2> DEFINE toggled(light) == [light EXCEPT !.state.on = ~AnyOn]
  <2>1. /\ lights' = [id \in DOMAIN lights |->
                        IF id \in Reachable(lights) THEN toggled(lights[id]) ELSE lights[id]]
        /\ UNCHANGED uiVars
    BY <1>7 DEF ToggleAll, UserUnchanged, Reachable
  <2>2. ASSUME NEW id \in DOMAIN lights, id \in Reachable(lights)
        PROVE  Enabled(toggled(lights[id]))
    <3> DEFINE state == [lights[id].state EXCEPT !.on = ~AnyOn]
    <3>1. lights[id] \in KeyLightRecord /\ lights[id].state \in LightState
      BY <2>2, LightFields DEF Reachable, Enabled, TypeOK, ManagerTypeOK
    <3>2. state \in LightState
      BY <3>1 DEF LightState, AnyOn
    <3>3. toggled(lights[id]) = [lights[id] EXCEPT !.state = state]
      OBVIOUS
    <3> HIDE DEF state, toggled
    <3>4. Enabled(lights[id]) /\ lights[id].state # None
      BY <2>2 DEF Reachable, Enabled
    <3> QED
      BY <3>1, <3>2, <3>3, <3>4, EditReach
  <2> HIDE DEF toggled
  <2>3. DOMAIN lights' = DOMAIN lights /\ Reachable(lights') = Reachable(lights)
    BY <2>1, <2>2 DEF Reachable
  <2> QED
    BY <2>1, <2>3, QuietDisplays
<1>8. ASSUME NEW id, FlushPending(id)
      PROVE  Displayed'
  BY <1>1, <1>8 DEF FlushPending, UserUnchanged
<1>9. ASSUME RefreshAll \/ OnRefreshTick
      PROVE  Displayed'
  BY <1>1, <1>9 DEF RefreshAll, OnRefreshTick, managerVars
<1>10. CASE User
  BY <1>4, <1>5, <1>6, <1>7, <1>8, <1>9, <1>10
     DEF User, ClickOn, DragBrightness, DragTemperature, ReleaseSlider, ClickToggleAll,
         RefreshMenu
<1>11. CASE Timers
  BY <1>8, <1>9, <1>11 DEF Timers, RefreshTimer, DebounceTimer, DebounceFires
<1> QED
  BY <1>10, <1>11

-------------------------------------------------------------------------------
(* The system.                                                             *)

\* The inductive step.
LEMMA DisplayStep == TypeOK /\ Displayed /\ [Next]_vars => Displayed'
<1> SUFFICES ASSUME TypeOK, Displayed, [Next]_vars
             PROVE  Displayed'
  OBVIOUS
<1>1. ASSUME UNCHANGED <<lights, uiVars>>
      PROVE  Displayed'
  BY <1>1, QuietDisplays
<1>2. CASE UNCHANGED vars
  BY <1>1, <1>2 DEF vars, managerVars
<1>3. CASE Environment
  <2>1. ASSUME NEW d, NEW p, PlugIn(d, p) \/ PullOut(p)
        PROVE  Displayed'
    BY <1>1, <2>1 DEF PlugIn, PullOut, managerVars
  <2> QED
    BY <1>3, <2>1, DiscoveredDisplays, ServiceRemovedDisplays
       DEF Environment, Discover, ServiceGone
<1>4. CASE Network
  <2>1. PICK r \in DOMAIN http :
          ServeHttp(r) \/ InfoReply(r) \/ StateReply(r) \/ PutReply(r) \/ HttpFailure(r)
    BY <1>4 DEF Network
  <2>2. CASE ServeHttp(r)
    BY <1>1, <2>2 DEF ServeHttp, managerVars
  <2> QED
    BY <2>1, <2>2, InfoDisplays, StateDisplays, PutDisplays, FailureDisplays
       DEF InfoReply, StateReply, PutReply, HttpFailure
<1>5. CASE Usb
  <2>1. CASE WorkerStep
    BY <1>1, <2>1 DEF WorkerStep, managerVars
  <2>2. CASE UsbInfoFailed
    BY <1>1, <2>2 DEF UsbInfoFailed, OnUsbInfoFailed
  <2>3. CASE UsbEnumerated
    BY <2>3, EnumeratedDisplays DEF UsbEnumerated
  <2>4. CASE UsbInfoReady
    BY <2>4, InfoReadyDisplays DEF UsbInfoReady
  <2>5. CASE UsbRequestDone
    BY <2>5, PutDisplays, StateDisplays DEF UsbRequestDone
  <2>6. CASE UsbRequestFailed
    BY <2>6, FailureDisplays DEF UsbRequestFailed
  <2> QED
    BY <1>5, <2>1, <2>2, <2>3, <2>4, <2>5, <2>6 DEF Usb
<1> QED
  BY <1>2, <1>3, <1>4, <1>5, UserDisplays DEF Next

\* Both properties hold at first, and no step breaks them.
LEMMA DisplayCorrect == Spec => []Displayed
<1>1. Init => Displayed
  BY DEF Init, ManagerInit, UiInit, CardsInit, EmptyTable, Counted, Displayed,
         CardsMirrorCache, IconCountsReachable
<1> QED
  BY <1>1, DisplayStep, TypeCorrect, PTL DEF Spec

\* onLightAdded, onLightUpdated, onLightRemoved, LightCard::sync: whatever became of a
\* light, its card allows the user what the cache allows, and no card outlives its light.
THEOREM CardsCorrect == Spec => []CardsMirrorCache
BY DisplayCorrect, PTL DEF Displayed

\* updateIcon, counts(): the icon counts the lights that can be used now.
THEOREM IconCorrect == Spec => []IconCountsReachable
BY DisplayCorrect, PTL DEF Displayed

===============================================================================
