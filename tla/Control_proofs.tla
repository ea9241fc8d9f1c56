----------------------------- MODULE Control_proofs -----------------------------
(***************************************************************************)
(* The user's last change reaches the light: through the cache, the timer, *)
(* the PUT in flight and the device that obeys it.                         *)
(***************************************************************************)
EXTENDS Outbox_proofs

-------------------------------------------------------------------------------
(* Where requests come from.                                               *)

\* Each is an old one, or one that is not yet served, to a light as it is cached now.
From(requests) ==
  \A r \in requests :
    \/ r \in DOMAIN http
    \/ ~r.served /\ r.id \in DOMAIN lights' /\ r.address = lights'[r.id].address

LEMMA TrackFrom ==
  ASSUME NEW pending, From(DOMAIN pending), NEW requests, From(requests)
  PROVE  From(DOMAIN Track(pending, requests))
BY DEF From, Track, (+), SetToBag

LEMMA UntrackFrom ==
  ASSUME NEW request
  PROVE  From(DOMAIN http) /\ From(DOMAIN Untrack(request))
BY DEF From, Untrack, (-), SetToBag

LEMMA RequestsFrom ==
  ASSUME NEW S \in SUBSET DOMAIN lights'
  PROVE  From(StateRequests(lights', S)) /\ From(PutRequests(lights', S))
BY DEF From, StateRequests, PutRequests, Over, GetLights, PutLights, Request

LEMMA FlushFrom ==
  ASSUME NEW S, NEW running, NEW marked, NEW pending, From(DOMAIN pending),
         Flush(lights', S, running, marked, pending)
  PROVE  From(DOMAIN http')
<1>1. Flushable(lights', S) \ running \in SUBSET DOMAIN lights'
  BY DEF Flushable
<1> QED
  BY <1>1, RequestsFrom, TrackFrom DEF Flush

\* The handlers of results.
LEMMA ResultFrom ==
  ASSUME NEW id, NEW pending, From(DOMAIN pending),
         \/ \E info : OnInfoReceived(id, info, pending)
         \/ \E data : OnStateReceived(id, data, pending)
         \/ OnPutSucceeded(id, pending)
         \/ \E kind : OnRequestFailed(id, kind, pending)
  PROVE  From(DOMAIN http')
<1>1. CASE OnPutSucceeded(id, pending)
  <2>1. Flush(lights', {id} \cap dirty, inflight \ {id}, dirty \ {id}, pending)
    BY <1>1 DEF OnPutSucceeded
  <2> QED
    BY <2>1, FlushFrom
<1>2. CASE ~OnPutSucceeded(id, pending)
  BY <1>2 DEF OnInfoReceived, OnStateReceived, OnRequestFailed
<1> QED
  BY <1>1, <1>2

\* All steps but that of a device.
LEMMA RequestOrigin ==
  ASSUME [Next]_vars, \A r \in DOMAIN http : ~ServeHttp(r)
  PROVE  From(DOMAIN http')
<1>1. From(DOMAIN http)
  BY UntrackFrom
<1>2. ASSUME UNCHANGED http
      PROVE  From(DOMAIN http')
  BY <1>1, <1>2
<1>3. ASSUME NEW S \in SUBSET DOMAIN lights, UNCHANGED lights,
             http' = Track(http, StateRequests(lights, S))
      PROVE  From(DOMAIN http')
  BY <1>1, <1>3, RequestsFrom, TrackFrom
<1>4. ASSUME NEW S, Flush(lights', S, inflight, dirty, http)
      PROVE  From(DOMAIN http')
  BY <1>1, <1>4, FlushFrom
<1>5. ASSUME NEW id, FlushPending(id)
      PROVE  From(DOMAIN http')
  <2>1. Flush(lights', {id}, inflight, dirty, http)
    BY <1>5 DEF FlushPending
  <2> QED
    BY <1>4, <2>1
<1>6. ASSUME RefreshAll \/ OnRefreshTick
      PROVE  From(DOMAIN http')
  <2>1. CASE RefreshAll
    BY <1>3, <2>1 DEF RefreshAll, FetchState, managerVars
  <2>2. CASE OnRefreshTick
    <3>1. Due(refreshTicks') \in SUBSET DOMAIN lights
      BY DEF Due
    <3> QED
      BY <1>3, <2>2, <3>1 DEF OnRefreshTick
  <2> QED
    BY <1>6, <2>1, <2>2
<1>7. CASE UNCHANGED vars
  BY <1>2, <1>7 DEF vars
<1>8. CASE Environment
  <2>1. ASSUME NEW s \in Services, Discover(s)
        PROVE  From(DOMAIN http')
    <3> DEFINE id == ServiceId(s)
               light == [(IF id \in DOMAIN lights THEN lights[id] ELSE NewKeyLight) EXCEPT
                           !.address = s.address]
               info == IF id \in DOMAIN lights THEN {} ELSE {GetInfo(id, light)}
    <3>1. /\ http' = Track(http, info \cup StateRequests(lights', {id}))
          /\ lights' = Bind(lights, id, light)
      BY <2>1 DEF Discover, OnDiscovered
    <3> HIDE DEF light, id
    <3>2. From(info) /\ {id} \in SUBSET DOMAIN lights'
      BY <3>1 DEF From, GetInfo, Request, Bind
    <3> HIDE DEF info
    <3>3. From(info \cup StateRequests(lights', {id}))
      BY <3>2, RequestsFrom DEF From
    <3> QED
      BY <1>1, <3>1, <3>3, TrackFrom
  <2> QED
    BY <1>2, <1>8, <2>1
       DEF Environment, ServiceGone, OnServiceRemoved, PlugIn, PullOut
<1>9. CASE User
  BY <1>2, <1>4, <1>5, <1>6, <1>9
     DEF User, ClickOn, SetOn, DragBrightness, SetBrightness, DragTemperature,
         SetTemperature, Schedule, ReleaseSlider, ClickToggleAll, ToggleAll, RefreshMenu
<1>10. CASE Timers
  BY <1>5, <1>6, <1>10 DEF Timers, RefreshTimer, DebounceTimer, DebounceFires
<1>11. CASE Network
  BY <1>11, UntrackFrom, ResultFrom DEF Network, InfoReply, StateReply, PutReply, HttpFailure
<1>12. CASE Usb
  <2>1. CASE UsbInfoReady
    <3> DEFINE id == KnownAs(UsbId(Head(usbOut).call.path, Head(usbOut).info),
                             Head(usbOut).info.serial)
    <3>1. http' = Track(http, StateRequests(lights', {id})) /\ {id} \in SUBSET DOMAIN lights'
      BY <2>1 DEF UsbInfoReady, OnUsbInfoReady, FetchState, Bind
    <3> HIDE DEF id
    <3> QED
      BY <1>1, <3>1, RequestsFrom, TrackFrom
  <2>2. CASE UsbRequestDone
    BY <1>1, <2>2, ResultFrom DEF UsbRequestDone
  <2>3. CASE UsbRequestFailed
    BY <1>1, <2>3, ResultFrom DEF UsbRequestFailed
  <2> QED
    BY <1>2, <1>12, <2>1, <2>2, <2>3
       DEF Usb, WorkerStep, UsbEnumerated, OnUsbEnumerated, UsbInfoFailed, OnUsbInfoFailed
<1> QED
  BY <1>7, <1>8, <1>9, <1>10, <1>11, <1>12 DEF Next
-------------------------------------------------------------------------------
(* Where the calls about lights come from.                                 *)

\* Each is an old one, or one to a light by the path that is cached now.
Calling(calls) ==
  \A call \in calls : call.op = "request" =>
    \/ call \in ToSet(usbIn)
    \/ call.id \in DOMAIN lights' /\ call.path = lights'[call.id].usbPath

LEMMA AppendCalling ==
  ASSUME UsbTypeOK, NEW order \in Seq(UsbCall), Calling(ToSet(order)), usbIn' = usbIn \o order
  PROVE  Calling(ToSet(usbIn'))
<1> DEFINE before == usbIn
<1>1. before \in Seq(UsbCall) /\ usbIn' = before \o order
  BY DEF UsbTypeOK
<1> HIDE DEF before
<1>2. ASSUME NEW i \in DOMAIN usbIn'
      PROVE  \/ \E j \in DOMAIN before : usbIn'[i] = before[j]
             \/ \E j \in DOMAIN order : usbIn'[i] = order[j]
  <2>1. CASE i <= Len(before)
    BY <1>1, <1>2, <2>1
  <2>2. CASE i > Len(before)
    <3>1. i - Len(before) \in DOMAIN order /\ usbIn'[i] = order[i - Len(before)]
      BY <1>1, <1>2, <2>2
    <3> QED
      BY <3>1
  <2> QED
    BY <1>1, <1>2, <2>1, <2>2
<1>3. \A call \in ToSet(usbIn') : call \in ToSet(usbIn) \/ call \in ToSet(order)
  BY <1>2 DEF ToSet, before
<1> QED
  BY <1>3 DEF Calling

LEMMA OrderCalling ==
  ASSUME NEW calls \in SUBSET UsbCall, IsFiniteSet(calls), Calling(calls),
         NEW order \in SetToSeqs(calls)
  PROVE  order \in Seq(UsbCall) /\ Calling(ToSet(order))
<1>1. Cardinality(calls) \in Nat
  BY FS_CardinalityType
<1>2. ToSet(order) \subseteq calls
  BY <1>1 DEF SetToSeqs, ToSet
<1> QED
  BY <1>2, OrderType DEF Calling

LEMMA QueueCalling ==
  ASSUME UsbTypeOK, NEW calls \in SUBSET UsbCall, IsFiniteSet(calls), Calling(calls), Queue(calls)
  PROVE  Calling(ToSet(usbIn'))
BY OrderCalling, AppendCalling DEF Queue

\* fetchState and flush.
LEMMA LightsCalling ==
  ASSUME UsbTypeOK, IsTable(lights', Ids, KeyLightRecord),
         \/ \E S \in SUBSET DOMAIN lights' : Queue(StateCalls(lights', S))
         \/ \E S, running, marked, pending : Flush(lights', S, running, marked, pending)
  PROVE  Calling(ToSet(usbIn'))
<1>1. ASSUME NEW S \in SUBSET DOMAIN lights', Queue(StateCalls(lights', S))
      PROVE  Calling(ToSet(usbIn'))
  <2>1. StateCalls(lights', S) \in SUBSET UsbCall /\ IsFiniteSet(StateCalls(lights', S))
    BY StateCallsType
  <2>2. Calling(StateCalls(lights', S))
    BY DEF Calling, StateCalls, Over, RequestCall
  <2> QED
    BY <1>1, <2>1, <2>2, QueueCalling
<1>2. ASSUME NEW S, NEW running, NEW marked, NEW pending,
             Flush(lights', S, running, marked, pending)
      PROVE  Calling(ToSet(usbIn'))
  <2> DEFINE sent == Flushable(lights', S) \ running
  <2>1. sent \in SUBSET DOMAIN lights' /\ \A id \in sent : lights'[id].state # None
    BY DEF Flushable
  <2>2. Queue(PutCalls(lights', sent))
    BY <1>2 DEF Flush
  <2> HIDE DEF sent
  <2>3. PutCalls(lights', sent) \in SUBSET UsbCall /\ IsFiniteSet(PutCalls(lights', sent))
    BY <2>1, PutCallsType
  <2>4. Calling(PutCalls(lights', sent))
    BY <2>1 DEF Calling, PutCalls, Over, RequestCall
  <2> QED
    BY <2>2, <2>3, <2>4, QueueCalling
<1> QED
  BY <1>1, <1>2

LEMMA CallOrigin ==
  ASSUME TypeOK, TypeOK', [Next]_vars
  PROVE  Calling(ToSet(usbIn'))
<1>1. UsbTypeOK /\ IsTable(lights', Ids, KeyLightRecord)
  BY DEF TypeOK, ManagerTypeOK
<1>2. ASSUME UNCHANGED usbIn
      PROVE  Calling(ToSet(usbIn'))
  BY <1>2 DEF Calling
<1>3. ASSUME NEW S \in SUBSET DOMAIN lights', Queue(StateCalls(lights', S))
      PROVE  Calling(ToSet(usbIn'))
  BY <1>1, <1>3, LightsCalling
<1>4. ASSUME NEW S, NEW running, NEW marked, NEW pending,
             Flush(lights', S, running, marked, pending)
      PROVE  Calling(ToSet(usbIn'))
  BY <1>1, <1>4, LightsCalling
<1>5. ASSUME NEW id, FlushPending(id)
      PROVE  Calling(ToSet(usbIn'))
  <2>1. Flush(lights', {id}, inflight, dirty, http)
    BY <1>5 DEF FlushPending
  <2> QED
    BY <1>4, <2>1
<1>6. CASE UNCHANGED vars
  BY <1>2, <1>6 DEF vars, usbVars
<1>7. CASE Environment
  <2>1. ASSUME NEW s \in Services, Discover(s)
        PROVE  Calling(ToSet(usbIn'))
    <3>1. {ServiceId(s)} \in SUBSET DOMAIN lights' /\ Queue(StateCalls(lights', {ServiceId(s)}))
      BY <2>1 DEF Discover, OnDiscovered, Bind
    <3> QED
      BY <1>3, <3>1
  <2> QED
    BY <1>2, <1>7, <2>1
       DEF Environment, ServiceGone, OnServiceRemoved, PlugIn, PullOut, usbVars
<1>8. CASE User
  <2>1. ASSUME RefreshAll
        PROVE  Calling(ToSet(usbIn'))
    <3>1. UNCHANGED lights /\ Queue(StateCalls(lights', DOMAIN lights' \ inflight))
      BY <2>1 DEF RefreshAll, FetchState, managerVars
    <3> QED
      BY <1>3, <3>1
  <2>2. ASSUME NEW id, NEW value, SetBrightness(id, value) \/ SetTemperature(id, value)
        PROVE  Calling(ToSet(usbIn'))
    BY <1>2, <2>2 DEF SetBrightness, SetTemperature, Schedule
  <2>3. ASSUME NEW id, NEW on, SetOn(id, on)
        PROVE  Calling(ToSet(usbIn'))
    BY <1>4, <2>3 DEF SetOn
  <2>4. ASSUME ToggleAll
        PROVE  Calling(ToSet(usbIn'))
    BY <1>4, <2>4 DEF ToggleAll
  <2> QED
    BY <1>5, <1>8, <2>1, <2>2, <2>3, <2>4
       DEF User, ClickOn, DragBrightness, DragTemperature, ReleaseSlider, ClickToggleAll,
           RefreshMenu
<1>9. CASE Timers
  <2>1. ASSUME OnRefreshTick
        PROVE  Calling(ToSet(usbIn'))
    <3> DEFINE calls == StateCalls(lights', Due(refreshTicks'))
    <3>1. UNCHANGED lights /\ Due(refreshTicks') \in SUBSET DOMAIN lights'
      BY <2>1 DEF OnRefreshTick, Due
    <3>2. calls \in SUBSET UsbCall /\ IsFiniteSet(calls)
      BY <1>1, <3>1, StateCallsType
    <3>3. Calling(calls)
      BY <3>1 DEF Calling, StateCalls, Over, RequestCall
    <3>4. PICK order \in SetToSeqs(calls) : usbIn' = usbIn \o <<EnumerateCall>> \o order
      BY <2>1, <3>1 DEF OnRefreshTick
    <3> HIDE DEF calls
    <3>5. order \in Seq(UsbCall) /\ Calling(ToSet(order))
      BY <3>2, <3>3, OrderCalling
    <3> DEFINE first == EnumerateCall
               new == <<first>> \o order
    <3>6. first \in UsbCall /\ first.op # "request"
      BY DEF UsbCall, EnumerateCall
    <3>7. usbIn' = usbIn \o <<first>> \o order
      BY <3>4
    <3> HIDE DEF first
    <3>8. new \in Seq(UsbCall) /\ usbIn' = usbIn \o new
      BY <1>1, <3>5, <3>6, <3>7 DEF UsbTypeOK
    <3>9. \A i \in DOMAIN new : new[i] = first \/ \E j \in DOMAIN order : new[i] = order[j]
      <4>1. ASSUME NEW i \in DOMAIN new, i # 1
            PROVE  i - 1 \in DOMAIN order /\ new[i] = order[i - 1]
        BY <3>5, <3>6, <4>1
      <4>2. new[1] = first
        BY <3>5, <3>6
      <4> QED
        BY <4>1, <4>2
    <3> HIDE DEF new
    <3>10. Calling(ToSet(new))
      BY <3>5, <3>6, <3>9 DEF Calling, ToSet
    <3> QED
      BY <1>1, <3>8, <3>10, AppendCalling
  <2> QED
    BY <1>5, <1>9, <2>1 DEF Timers, RefreshTimer, DebounceTimer, DebounceFires
<1>10. CASE Network
  BY <1>2, <1>4, <1>10
     DEF Network, ServeHttp, InfoReply, OnInfoReceived, StateReply, OnStateReceived, PutReply,
         OnPutSucceeded, HttpFailure, OnRequestFailed, usbVars
<1>11. CASE Usb
  <2>1. CASE WorkerStep
    <3>1. usbIn # <<>> /\ usbIn \in Seq(UsbCall) /\ usbIn' = Tail(usbIn)
      BY <1>1, <2>1 DEF WorkerStep, Enumerate, ProbeInfo, ServeRequest, FailExchange, Finish,
                        UsbTypeOK
    <3>2. \A i \in DOMAIN usbIn' : i + 1 \in DOMAIN usbIn /\ usbIn'[i] = usbIn[i + 1]
      BY <3>1
    <3>3. \A call \in ToSet(usbIn') : call \in ToSet(usbIn)
      BY <3>2 DEF ToSet
    <3> QED
      BY <3>3 DEF Calling
  <2>2. CASE UsbEnumerated
    <3> DEFINE calls == {ProbeCall(p) : p \in Fresh(Head(usbOut).paths)}
    <3>1. Queue(calls)
      BY <2>2 DEF UsbEnumerated, OnUsbEnumerated
    <3>2. Head(usbOut).paths \subseteq UsbPaths
      <4>1. Head(usbOut) \in UsbResult /\ Head(usbOut).signal = "enumerated"
        BY <1>1, <2>2 DEF UsbEnumerated, Delivered, UsbTypeOK
      <4> QED
        BY <4>1, ResultFields
    <3>3. calls \in SUBSET UsbCall /\ IsFiniteSet(calls)
      <4> DEFINE probe == [p \in Fresh(Head(usbOut).paths) |-> ProbeCall(p)]
      <4>1. Fresh(Head(usbOut).paths) \subseteq UsbPaths /\ IsFiniteSet(Fresh(Head(usbOut).paths))
        BY <3>2, KeyLightAssumption, FS_Subset DEF Fresh
      <4>2. calls = {probe[p] : p \in Fresh(Head(usbOut).paths)}
        OBVIOUS
      <4>3. \A p \in UsbPaths : ProbeCall(p) \in UsbCall
        BY DEF ProbeCall, EnumerateCall, UsbCall, Probe
      <4>4. IsFiniteSet({probe[p] : p \in Fresh(Head(usbOut).paths)})
        <5>1. DOMAIN probe = Fresh(Head(usbOut).paths)
          OBVIOUS
        <5> HIDE DEF probe
        <5> QED
          BY <4>1, <5>1, ImageFinite
      <4>5. \A p \in Fresh(Head(usbOut).paths) : ProbeCall(p) \in UsbCall
        BY <4>1, <4>3
      <4> QED
        BY <4>2, <4>4, <4>5
    <3>4. Calling(calls)
      BY ProbeCalls DEF Calling
    <3> QED
      BY <1>1, <3>1, <3>3, <3>4, QueueCalling
  <2>3. CASE UsbInfoReady
    <3> DEFINE id == KnownAs(UsbId(Head(usbOut).call.path, Head(usbOut).info),
                             Head(usbOut).info.serial)
    <3>1. {id} \in SUBSET DOMAIN lights' /\ Queue(StateCalls(lights', {id}))
      BY <2>3 DEF UsbInfoReady, OnUsbInfoReady, FetchState, Bind
    <3> HIDE DEF id
    <3> QED
      BY <1>3, <3>1
  <2> QED
    BY <1>2, <1>4, <1>11, <2>1, <2>2, <2>3
       DEF Usb, UsbInfoFailed, OnUsbInfoFailed, UsbRequestDone, OnPutSucceeded, OnStateReceived,
           UsbRequestFailed, OnRequestFailed
<1> QED
  BY <1>6, <1>7, <1>8, <1>9, <1>10, <1>11 DEF Next
-------------------------------------------------------------------------------
(* Where results come from.                                                *)

\* The worker adds one.
LEMMA FinishAdds ==
  ASSUME UsbTypeOK, NEW result, Finish(result), NEW i \in DOMAIN usbOut', usbOut'[i] # result
  PROVE  \E j \in DOMAIN usbOut : usbOut[j] = usbOut'[i]
<1>1. usbOut' = Append(usbOut, result) /\ usbOut \in Seq(UsbResult)
  BY DEF Finish, UsbTypeOK
<1>2. i \in 1 .. Len(usbOut) + 1 /\ i # Len(usbOut) + 1
  BY <1>1
<1> QED
  BY <1>1, <1>2

\* Only a device changes a device, and the main thread takes the oldest result.
LEMMA HeardOnly ==
  ASSUME UsbTypeOK, [Next]_vars, ~WorkerStep, \A r \in DOMAIN http : ~ServeHttp(r)
  PROVE  /\ UNCHANGED device
         /\ \A i \in DOMAIN usbOut' : \E j \in DOMAIN usbOut : usbOut[j] = usbOut'[i]
<1>1. CASE UNCHANGED vars
  BY <1>1 DEF vars, hardwareVars, usbVars
<1>2. CASE Environment
  BY <1>2 DEF Environment, Discover, OnDiscovered, ServiceGone, OnServiceRemoved, PlugIn, Plug,
              PullOut, Unplug, hardwareVars, usbVars
<1>3. CASE User
  BY <1>3 DEF User, ClickOn, SetOn, DragBrightness, SetBrightness, DragTemperature,
              SetTemperature, Schedule, ReleaseSlider, FlushPending, ClickToggleAll, ToggleAll,
              RefreshMenu, RefreshAll, UserUnchanged, hardwareVars
<1>4. CASE Timers
  BY <1>4 DEF Timers, RefreshTimer, OnRefreshTick, DebounceTimer, DebounceFires, FlushPending,
              UserUnchanged, hardwareVars
<1>5. CASE Network
  BY <1>5 DEF Network, InfoReply, OnInfoReceived, StateReply, PutReply, HttpFailure,
              hardwareVars, usbVars
<1>6. ASSUME NEW signal, Delivered(signal)
      PROVE  /\ UNCHANGED device
             /\ \A i \in DOMAIN usbOut' : \E j \in DOMAIN usbOut : usbOut[j] = usbOut'[i]
  <2>1. usbOut \in Seq(UsbResult) /\ usbOut # <<>> /\ usbOut' = Tail(usbOut)
    BY <1>6 DEF Delivered, UsbTypeOK
  <2>2. ASSUME NEW i \in DOMAIN usbOut'
        PROVE  i + 1 \in DOMAIN usbOut /\ usbOut[i + 1] = usbOut'[i]
    BY <2>1
  <2> QED
    BY <1>6, <2>2 DEF Delivered, hardwareVars
<1>7. CASE Usb
  BY <1>6, <1>7 DEF Usb, UsbEnumerated, UsbInfoReady, UsbInfoFailed, UsbRequestDone,
                    UsbRequestFailed
<1> QED
  BY <1>1, <1>2, <1>3, <1>4, <1>5, <1>7 DEF Next
-------------------------------------------------------------------------------
(* At home: every light leads to a device of its own, by the network and   *)
(* by the cable, and so does everything that is under way about it.        *)

\* What has no address was found by a cable.
Found(id, address, port) ==
  IF address = None THEN \E p \in UsbPaths : port[p] \in Homes(id, port)
                    ELSE Owner[address] \in Homes(id, port)

Cabled(id, path, port) == path # None => port[path] \in Homes(id, port)

LightsAtHome(L, port) ==
  \A id \in DOMAIN L : Found(id, L[id].address, port) /\ Cabled(id, L[id].usbPath, port)

\* m_bySerial leads to a light whose device has that serial number.
SerialsAtHome(table, port) ==
  \A serial \in DOMAIN table :
    \E d \in Homes(table[serial], port) : InfoOf[d].serial = serial

\* What a probe was told is told by the device that the path belongs to.
Told(port) ==
  \A i \in DOMAIN usbOut : usbOut[i].signal = "infoReady" =>
    usbOut[i].info = InfoOf[port[usbOut[i].call.path]]

AtHome(port) ==
  /\ LightsAtHome(lights, port) /\ SerialsAtHome(bySerial, port) /\ Told(port)
  /\ \A r \in DOMAIN http : Found(r.id, r.address, port)
  /\ \A call \in ToSet(usbIn) : call.op = "request" => Cabled(call.id, call.path, port)

\* merge: two devices with one serial number have no cable, so that the light that is kept
\* keeps its address, and gets no path.
LEMMA MergeAtHome ==
  ASSUME NEW port, OneLightEach(port), IsTable(bySerial, Serials, Ids),
         SerialsAtHome(bySerial, port), NEW L, IsTable(L, Ids, KeyLightRecord),
         LightsAtHome(L, port), NEW dropId \in DOMAIN L, NEW d \in Homes(dropId, port) \cap Devices,
         InfoOf[d].serial # None, NEW keepId \in Ids,
         keepId = Lookup(bySerial, InfoOf[d].serial), Merge(L, keepId, dropId),
         Homes(keepId, port) \subseteq Devices
  PROVE  LightsAtHome(lights', port) /\ SerialsAtHome(bySerial', port)
<1>1. CASE {keepId, dropId} \subseteq DOMAIN L /\ keepId # dropId
  <2> DEFINE serial == InfoOf[d].serial
             keep == Merged(L[keepId], L[dropId])
  <2>1. dropId \in Ids /\ keepId # None
    BY LightFields, KeyLightAssumption
  <2>2. serial \in DOMAIN bySerial /\ bySerial[serial] = keepId
    BY <2>1 DEF Lookup
  <2>3. PICK e \in Homes(keepId, port) : InfoOf[e].serial = serial
    BY <2>2 DEF SerialsAtHome
  <2>4. /\ \A x \in Homes(keepId, port) : x = e
        /\ \A x \in Homes(dropId, port) : x = d
        /\ e # d
    BY <1>1, <2>1 DEF OneLightEach
  <2>5. \A p \in UsbPaths : port[p] \notin Homes(keepId, port) \cup Homes(dropId, port)
    <3>1. ASSUME NEW p \in UsbPaths, port[p] \in {d, e}
          PROVE  FALSE
      BY <2>3, <2>4, <3>1 DEF OneLightEach
    <3> QED
      BY <2>4, <3>1
  <2>6. /\ L[keepId] \in KeyLightRecord /\ L[keepId].address # None
        /\ L[keepId].usbPath = None /\ L[dropId].usbPath = None
    BY <1>1, <2>5, LightFields DEF LightsAtHome, Found, Cabled
  <2>7. keep.address = L[keepId].address /\ keep.usbPath = None
    BY <2>6 DEF Merged, KeyLightRecord
  <2>8. lights' = Unbind([L EXCEPT ![keepId] = keep], dropId)
    BY <1>1 DEF Merge
  <2> HIDE DEF keep, serial
  <2>9. DOMAIN lights' = DOMAIN L \ {dropId} /\ lights'[keepId] = keep
        /\ \A id \in DOMAIN lights' : id # keepId => lights'[id] = L[id]
    BY <1>1, <2>8 DEF Unbind, IsTable
  <2>10. LightsAtHome(lights', port)
    BY <1>1, <2>6, <2>7, <2>9 DEF LightsAtHome
  <2>11. \A sn \in DOMAIN bySerial : bySerial[sn] # dropId
    BY <1>1, <2>2, <2>4 DEF SerialsAtHome, serial
  <2>12. DOMAIN bySerial' = DOMAIN bySerial /\ \A sn \in DOMAIN bySerial : bySerial'[sn] = bySerial[sn]
    BY <1>1, <2>11 DEF Merge, Repoint
  <2> QED
    BY <2>10, <2>12 DEF SerialsAtHome
<1>2. CASE ~({keepId, dropId} \subseteq DOMAIN L /\ keepId # dropId)
  BY <1>2 DEF Merge, indexVars
<1> QED
  BY <1>1, <1>2

\* An identity leads to devices.
LEMMA HomesType ==
  ASSUME NEW port \in [UsbPaths -> Devices], NEW id
  PROVE  Homes(id, port) \subseteq Devices
BY HardwareAssumption DEF Homes, DiscoveredService

\* onDiscovered gives a light the address of a service of that identity.
LEMMA DiscoverAtHome ==
  ASSUME TypeOK, NEW port, AtHome(port), NEW s \in Services, Discover(s)
  PROVE  LightsAtHome(lights', port) /\ SerialsAtHome(bySerial', port)
<1> DEFINE id == ServiceId(s)
           base == IF id \in DOMAIN lights THEN lights[id] ELSE NewKeyLight
           light == [base EXCEPT !.address = s.address]
<1>1. lights' = Bind(lights, id, light) /\ UNCHANGED bySerial
  BY DEF Discover, OnDiscovered
<1>2. base \in KeyLightRecord
  BY NewKeyLightType, LightFields DEF TypeOK, ManagerTypeOK
<1>3. light.address = s.address /\ light.usbPath = base.usbPath
  <2> HIDE DEF base
  <2> QED
    BY <1>2 DEF KeyLightRecord
<1>4. Found(id, s.address, port)
  BY HardwareAssumption, KeyLightAssumption DEF Found, Homes, DiscoveredService
<1>5. Cabled(id, base.usbPath, port)
  BY DEF AtHome, LightsAtHome, NewKeyLight, Cabled
<1> HIDE DEF light, id, base
<1> QED
  BY <1>1, <1>3, <1>4, <1>5 DEF Bind, AtHome, LightsAtHome

\* onInfoReceived: the serial number is that of the device the light leads to.
LEMMA InfoAtHome ==
  ASSUME TypeOK, NEW port \in [UsbPaths -> Devices], OneLightEach(port), AtHome(port),
         NEW r \in DOMAIN http, InfoReply(r)
  PROVE  LightsAtHome(lights', port) /\ SerialsAtHome(bySerial', port)
<1> DEFINE id == r.id
           d == Owner[r.address]
           serial == InfoOf[d].serial
           other == Lookup(bySerial, serial)
           named == [lights EXCEPT ![id].serial = serial]
<1>1. /\ OnInfoReceived(id, InfoOf[d], Untrack(r))
      /\ r \in HttpRequest /\ r.address # None
  BY DEF InfoReply, Answered, TypeOK, HttpTypeOK
<1>2. d \in Homes(id, port) \cap Devices
  BY <1>1, HomesType DEF AtHome, Found
<1>3. serial \in Serials \cup {None}
  BY <1>2, HardwareAssumption DEF Info
<1>4. LightsAtHome(lights, port) /\ SerialsAtHome(bySerial, port)
  BY DEF AtHome
<1>5. ASSUME id \in DOMAIN lights
      PROVE  IsTable(named, Ids, KeyLightRecord) /\ LightsAtHome(named, port)
             /\ DOMAIN named = DOMAIN lights
  <2>1. lights[id] \in KeyLightRecord
    BY <1>5, LightFields DEF TypeOK, ManagerTypeOK
  <2>2. ASSUME NEW sn \in Serials \cup {None}
        PROVE  /\ [lights[id] EXCEPT !.serial = sn] \in KeyLightRecord
               /\ [lights[id] EXCEPT !.serial = sn].address = lights[id].address
               /\ [lights[id] EXCEPT !.serial = sn].usbPath = lights[id].usbPath
    BY <2>1 DEF KeyLightRecord
  <2> QED
    BY <1>3, <1>4, <1>5, <2>2 DEF LightsAtHome, TypeOK, ManagerTypeOK, IsTable
<1>6. CASE UNCHANGED <<lights, bySerial>>
  BY <1>4, <1>6
<1>7. CASE id \in DOMAIN lights /\ lights' = named /\ bySerial' = Bind(bySerial, serial, id)
  <2> HIDE DEF named, d, id
  <2> QED
    BY <1>2, <1>4, <1>5, <1>7 DEF SerialsAtHome, Bind
<1>8. CASE id \in DOMAIN lights /\ serial # None /\ other \notin {None, id} /\ Merge(named, other, id)
  <2>1. IsTable(bySerial, Serials, Ids) /\ other \in Ids
    BY <1>8 DEF TypeOK, ManagerTypeOK, IsTable, Lookup
  <2>2. Homes(other, port) \subseteq Devices
    BY HomesType
  <2> HIDE DEF named, d, id
  <2> QED
    BY <1>2, <1>4, <1>5, <1>8, <2>1, <2>2, MergeAtHome
<1> QED
  BY <1>1, <1>6, <1>7, <1>8 DEF OnInfoReceived, indexVars

\* applyUsbInfo: the light that the serial number or the identity leads to is the light of
\* the device the path belongs to.
LEMMA UsbInfoAtHome ==
  ASSUME TypeOK, NEW port \in [UsbPaths -> Devices], OneLightEach(port), AtHome(port),
         UsbInfoReady
  PROVE  LightsAtHome(lights', port) /\ SerialsAtHome(bySerial', port)
<1> DEFINE result == Head(usbOut)
           path == result.call.path
           d == port[path]
           serial == InfoOf[d].serial
           own == UsbId(path, InfoOf[d])
           id == KnownAs(own, serial)
           base == IF {id} \cap DOMAIN lights = {} THEN NewKeyLight ELSE lights[id]
           light == [base EXCEPT !.usbPath = path, !.transport = "Usb",
                       !.serial = IF serial = None THEN @ ELSE serial]
<1>1. 1 \in DOMAIN usbOut /\ usbOut[1] = result /\ result \in UsbResult
      /\ result.signal = "infoReady"
  BY DEF UsbInfoReady, Delivered, TypeOK, UsbTypeOK
<1>2. path \in UsbPaths /\ result.info = InfoOf[d]
  BY <1>1, ResultFields DEF AtHome, Told
<1>3. OnUsbInfoReady(path, InfoOf[d])
  BY <1>2 DEF UsbInfoReady
<1> HIDE DEF result, path
<1>4. /\ lights' = Bind(lights, id, light)
      /\ bySerial' = IF serial = None THEN bySerial ELSE Bind(bySerial, serial, id)
  BY <1>3 DEF OnUsbInfoReady
<1>5. LightsAtHome(lights, port) /\ SerialsAtHome(bySerial, port)
  BY DEF AtHome
<1>6. d \in Homes(own, port)
  BY <1>2 DEF Homes
<1>7. d \in Homes(id, port)
  <2>1. CASE id = own
    BY <1>6, <2>1
  <2>2. CASE id # own
    <3>1. Lookup(bySerial, serial) \in DOMAIN lights /\ id = bySerial[serial]
      BY <2>2 DEF KnownAs
    <3>2. serial \in DOMAIN bySerial /\ serial # None
      <4>1. None \notin DOMAIN lights /\ None \notin DOMAIN bySerial
        BY KeyLightAssumption DEF TypeOK, ManagerTypeOK, IsTable
      <4> QED
        BY <3>1, <4>1 DEF Lookup
    <3>3. PICK e \in Homes(id, port) : InfoOf[e].serial = serial
      BY <1>5, <3>1, <3>2 DEF SerialsAtHome
    <3>4. e \in Devices
      BY HomesType
    <3>5. e = d
      BY <1>2, <3>2, <3>3, <3>4 DEF OneLightEach
    <3> QED
      BY <3>3, <3>5
  <2> QED
    BY <2>1, <2>2
<1>8. base \in KeyLightRecord
  BY NewKeyLightType, LightFields DEF TypeOK, ManagerTypeOK
<1>9. light.address = base.address /\ light.usbPath = path
  <2> HIDE DEF base, serial
  <2> QED
    BY <1>8 DEF KeyLightRecord
<1>10. Found(id, base.address, port) /\ Cabled(id, path, port)
  <2>1. CASE id \in DOMAIN lights
    BY <1>5, <1>7, <2>1 DEF LightsAtHome, Cabled
  <2>2. CASE id \notin DOMAIN lights
    <3>1. base.address = None
      BY <2>2 DEF NewKeyLight
    <3> QED
      BY <1>2, <1>7, <3>1 DEF Found, Cabled
  <2> QED
    BY <2>1, <2>2
<1> HIDE DEF light, id, base, own
<1>11. LightsAtHome(lights', port)
  BY <1>4, <1>5, <1>9, <1>10 DEF LightsAtHome, Bind
<1>12. SerialsAtHome(bySerial', port)
  BY <1>4, <1>5, <1>7 DEF SerialsAtHome, Bind
<1> QED
  BY <1>11, <1>12

\* No other step changes where a light leads, but to take a path from it.
LEMMA LightsHomeStep ==
  ASSUME TypeOK, NEW port \in [UsbPaths -> Devices], OneLightEach(port), AtHome(port), Next
  PROVE  LightsAtHome(lights', port) /\ SerialsAtHome(bySerial', port)
<1> DEFINE Goal == LightsAtHome(lights', port) /\ SerialsAtHome(bySerial', port)
<1>1. ASSUME SameRoutes, UNCHANGED bySerial
      PROVE  Goal
  BY <1>1 DEF SameRoutes, AtHome, LightsAtHome
<1>2. ASSUME UNCHANGED <<lights, bySerial>>
      PROVE  Goal
  BY <1>2 DEF AtHome
<1>3. CASE UsbEnumerated
  <2>1. ASSUME NEW light \in KeyLightRecord
        PROVE  Unplugged(light).address = light.address /\ Unplugged(light).usbPath = None
    BY DEF Unplugged, KeyLightRecord
  <2>2. \A i \in DOMAIN lights : lights[i] \in KeyLightRecord
    BY LightFields DEF TypeOK, ManagerTypeOK
  <2>3. DOMAIN lights' = DOMAIN lights /\ UNCHANGED bySerial
        /\ \A i \in DOMAIN lights : lights'[i] \in {lights[i], Unplugged(lights[i])}
    BY <1>3 DEF UsbEnumerated, OnUsbEnumerated
  <2> QED
    BY <2>1, <2>2, <2>3 DEF AtHome, LightsAtHome, Cabled
<1>4. CASE Environment
  <2>1. ASSUME NEW name, ServiceGone(name)
        PROVE  Goal
    BY <1>1, <2>1, GoneRoutes DEF ServiceGone, OnServiceRemoved
  <2> QED
    BY <1>2, <1>4, <2>1, DiscoverAtHome DEF Environment, PlugIn, PullOut, managerVars, indexVars
<1>5. CASE ~Environment /\ ~UsbEnumerated /\ ~UsbInfoReady /\ \A r \in DOMAIN http : ~InfoReply(r)
  <2>1. UNCHANGED bySerial
    BY <1>5, CalmSteps DEF indexVars
  <2>2. CASE User \/ Timers
    BY <1>1, <2>1, <2>2, UserRoutes
  <2>3. CASE Network
    <3>1. PICK r \in DOMAIN http : ServeHttp(r) \/ StateReply(r) \/ PutReply(r) \/ HttpFailure(r)
      BY <1>5, <2>3 DEF Network
    <3>2. CASE ServeHttp(r)
      BY <1>2, <2>1, <3>2 DEF ServeHttp, managerVars
    <3> QED
      BY <1>1, <2>1, <3>1, <3>2, AnsweredRoutes, PutRoutes, FailedRoutes
         DEF StateReply, PutReply, HttpFailure
  <2>4. CASE Usb
    <3>1. CASE WorkerStep \/ UsbInfoFailed
      BY <1>2, <2>1, <3>1 DEF WorkerStep, managerVars, UsbInfoFailed, OnUsbInfoFailed
    <3>2. CASE UsbRequestDone
      BY <1>1, <2>1, <3>2, AnsweredRoutes, PutRoutes DEF UsbRequestDone
    <3>3. CASE UsbRequestFailed
      BY <1>1, <2>1, <3>3, FailedRoutes DEF UsbRequestFailed
    <3> QED
      BY <1>5, <2>4, <3>1, <3>2, <3>3 DEF Usb
  <2> QED
    BY <1>5, <2>2, <2>3, <2>4 DEF Next
<1> QED
  BY <1>3, <1>4, <1>5, InfoAtHome, UsbInfoAtHome

\* A probe asks the device behind its path.
LEMMA ToldStep ==
  ASSUME TypeOK, NEW port, OwnPaths(port), Told(port), [Next]_vars
  PROVE  Told(port)'
<1>1. UsbTypeOK
  BY DEF TypeOK
<1>2. ASSUME NEW result, Finish(result),
             result.signal = "infoReady" => result.info = InfoOf[port[result.call.path]]
      PROVE  Told(port)'
  <2>1. \A i \in DOMAIN usbOut' :
          usbOut'[i] = result \/ \E j \in DOMAIN usbOut : usbOut[j] = usbOut'[i]
    BY <1>1, <1>2, FinishAdds
  <2> QED
    BY <1>2, <2>1 DEF Told
<1>3. CASE WorkerStep
  <2> DEFINE call == Head(usbIn)
  <2>1. CASE Enumerate
    <3>1. ASSUME NEW paths
          PROVE  [Result("enumerated", call) EXCEPT !.paths = paths].signal # "infoReady"
      BY DEF Result
    <3> QED
      BY <1>2, <2>1, <3>1 DEF Enumerate
  <2>2. CASE ProbeInfo
    <3> DEFINE info == InfoOf[plugged[call.path]]
               answer == [Result("infoReady", call) EXCEPT !.info = info]
    <3>1. answer.info = info /\ answer.call = call
      BY DEF Result
    <3>2. plugged[call.path] = port[call.path]
      BY <2>2 DEF ProbeInfo, Present, OwnPaths
    <3>3. Finish(answer)
      BY <2>2 DEF ProbeInfo
    <3> HIDE DEF answer, call
    <3> QED
      BY <1>2, <3>1, <3>2, <3>3
  <2>3. CASE ServeRequest
    <3>1. \A data : [Result("requestDone", call) EXCEPT !.data = data].signal # "infoReady"
      BY DEF Result
    <3>2. Result("requestDone", call).signal # "infoReady"
      BY DEF Result
    <3> QED
      BY <1>2, <2>3, <3>1, <3>2 DEF ServeRequest
  <2>4. CASE FailExchange
    <3>1. \A signal \in {"infoFailed", "requestFailed"} : Result(signal, call).signal # "infoReady"
      BY DEF Result
    <3> QED
      BY <1>2, <2>4, <3>1 DEF FailExchange
  <2> QED
    BY <1>3, <2>1, <2>2, <2>3, <2>4 DEF WorkerStep
<1>4. ASSUME NEW r \in DOMAIN http, ServeHttp(r)
      PROVE  Told(port)'
  BY <1>4 DEF ServeHttp, usbVars, Told
<1>5. CASE ~WorkerStep /\ \A r \in DOMAIN http : ~ServeHttp(r)
  <2>1. \A i \in DOMAIN usbOut' : \E j \in DOMAIN usbOut : usbOut[j] = usbOut'[i]
    BY <1>1, <1>5, HeardOnly
  <2> QED
    BY <2>1 DEF Told
<1> QED
  BY <1>3, <1>4, <1>5

\* And requests and calls go where their light does.
LEMMA HomeStep ==
  ASSUME TypeOK, TypeOK', NEW port \in [UsbPaths -> Devices], OneLightEach(port),
         OwnPaths(port), AtHome(port), [Next]_vars
  PROVE  AtHome(port)'
<1>1. LightsAtHome(lights', port) /\ SerialsAtHome(bySerial', port)
  <2>1. CASE UNCHANGED vars
    BY <2>1 DEF vars, managerVars, indexVars, AtHome
  <2> QED
    BY <2>1, LightsHomeStep
<1>2. Told(port)'
  BY ToldStep DEF AtHome
<1>3. ASSUME NEW call \in ToSet(usbIn'), call.op = "request"
      PROVE  Cabled(call.id, call.path, port)
  <2>1. Calling(ToSet(usbIn'))
    BY CallOrigin
  <2> QED
    BY <1>1, <1>3, <2>1 DEF Calling, AtHome, LightsAtHome
<1>4. ASSUME \A r \in DOMAIN http : ~ServeHttp(r), NEW r \in DOMAIN http'
      PROVE  Found(r.id, r.address, port)
  BY <1>1, <1>4, RequestOrigin DEF From, AtHome, LightsAtHome
<1>5. ASSUME NEW q \in DOMAIN http, ServeHttp(q), NEW r \in DOMAIN http'
      PROVE  Found(r.id, r.address, port)
  <2> DEFINE served(payload) == [q EXCEPT !.served = TRUE, !.payload = payload]
  <2>1. q \in HttpRequest
    BY DEF TypeOK, HttpTypeOK
  <2>2. \A payload : served(payload).id = q.id /\ served(payload).address = q.address
    BY <2>1 DEF HttpRequest, Requests
  <2>3. PICK payload : http' = Track(Untrack(q), {served(payload)})
    BY <1>5 DEF ServeHttp, DeviceServes
  <2> HIDE DEF served
  <2>4. r \in DOMAIN http \/ r = served(payload)
    BY <2>3 DEF Track, Untrack, (+), (-), SetToBag
  <2> QED
    BY <2>2, <2>4 DEF AtHome
<1> QED
  BY <1>1, <1>2, <1>3, <1>4, <1>5 DEF AtHome
-------------------------------------------------------------------------------
(* What becomes of the user's last change to a light.                      *)

\* Every device the light can lead to (there is one) is in this state.
Reads(id, state, port) == \A d \in Homes(id, port) : device[d] = state

\* A device obeyed the PUT in flight, and the answer that says so is on its way.
Obeyed(id) ==
  \/ \E r \in Posts(http, id) : r.served
  \/ \E i \in DOMAIN usbOut :
       usbOut[i].signal = "requestDone" /\ usbOut[i].call \in PutOf(id)

\* The change is in the cache; it is in the PUT in flight, unless a timer or a note in
\* m_dirty remembers it; and it is on the device once that PUT is obeyed or over.
Meant(id) == want[id] # None => id \in DOMAIN lights /\ lights[id].state = want[id]

Promised(id, port) ==
  want[id] # None =>
    /\ id \in inflight \ (dirty \cup debounce) =>
         /\ Carries(http, UsbCalls, id, want[id])
         /\ Obeyed(id) => Reads(id, want[id], port)
    /\ id \notin inflight \cup debounce => Reads(id, want[id], port)

\* What a step does to the user's change, to the device, and to the PUT in flight.
Pushed(id) == id \in inflight' /\ (id \in inflight => id \in dirty')

Asks(id) ==
  want'[id] # None =>
    /\ id \in DOMAIN lights' /\ lights'[id].state = want'[id]
    /\ \/ want'[id] = want[id] /\ (id \in debounce => id \in debounce')
       \/ id \in debounce'
       \/ Pushed(id)

Still(id, port) == \A d \in Homes(id, port) : device'[d] = device[d]

Obeys(id, port) ==
  \/ Still(id, port) /\ (Obeyed(id)' => Obeyed(id))
  \/ \E body : Carries(http, UsbCalls, id, body) /\ Reads(id, body, port)'

Concludes(id, port) ==
  /\ Sent(id) /\ id \in inflight => ~Obeyed(id)'
  /\ Finished(id) /\ want'[id] # None => id \notin dirty /\ Obeyed(id) /\ Still(id, port)

\* A light carries one body.
LEMMA OneBody ==
  ASSUME NEW id, NEW bag, NEW seq, NEW body, Carries(bag, seq, id, body),
         NEW other, Carries(bag, seq, id, other)
  PROVE  body = other
<1>1. ASSUME OnePost(bag, id, body), OnePost(bag, id, other)
      PROVE  body = other
  BY <1>1 DEF OnePost
<1>2. ASSUME OneCall(seq, id, body), OneCall(seq, id, other)
      PROVE  body = other
  BY <1>2 DEF OneCall, ExactlyOne, Occurrences, PutBody
<1>3. ~(NoPost(bag, id) /\ OnePost(bag, id, body)) /\ ~(NoPost(bag, id) /\ OnePost(bag, id, other))
  BY DEF NoPost, OnePost
<1> QED
  BY <1>1, <1>2, <1>3 DEF Carries

\* The calls whose results are on their way are among those not yet heard of.
LEMMA SilentCalls ==
  ASSUME UsbTypeOK, NEW id, NoCall(UsbCalls, id), NEW i \in DOMAIN usbOut
  PROVE  usbOut[i].call \notin PutOf(id)
<1> DEFINE answered == [j \in DOMAIN usbOut |-> usbOut[j].call]
           queue == usbIn
<1>1. answered \in Seq(UsbCall) /\ queue \in Seq(UsbCall)
  BY CallParts
<1>2. i \in DOMAIN answered /\ answered[i] = usbOut[i].call
  OBVIOUS
<1>3. UsbCalls = answered \o queue
  BY DEF UsbCalls
<1> HIDE DEF answered, queue
<1>4. i \in DOMAIN UsbCalls /\ UsbCalls[i] = usbOut[i].call
  BY <1>1, <1>2, <1>3
<1> QED
  BY <1>4 DEF NoCall, Occurrences

\* Where nothing is in flight, nothing was obeyed.
LEMMA SilentObeys ==
  ASSUME UsbTypeOK, NEW id, Silent(http, UsbCalls, id)
  PROVE  ~Obeyed(id) /\ \A body : ~Carries(http, UsbCalls, id, body)
<1>1. \A body : ~Carries(http, UsbCalls, id, body)
  BY DEF Carries, Silent, NoPost, OnePost, NoCall, OneCall, ExactlyOne
<1>2. Posts(http, id) = {}
  BY DEF Silent, NoPost
<1>3. \A i \in DOMAIN usbOut : usbOut[i].call \notin PutOf(id)
  BY SilentCalls DEF Silent
<1> QED
  BY <1>1, <1>2, <1>3 DEF Obeyed

\* These three keep the promise.
LEMMA PromiseKept ==
  ASSUME TypeOK, TypeOK', Settable, OutboxInv, NEW port, NEW id \in Ids,
         Untouched(id) \/ Postponed(id) \/ Sent(id) \/ Finished(id),
         Asks(id), Obeys(id, port), Concludes(id, port), Promised(id, port)
  PROVE  Promised(id, port)' /\ Meant(id)'
<1>1. Meant(id)'
  BY DEF Asks, Meant
<1> SUFFICES ASSUME want'[id] # None
             PROVE  Promised(id, port)'
  BY <1>1 DEF Promised
<1>2. UsbTypeOK
  BY DEF TypeOK
<1>3. \/ want'[id] = want[id] /\ (id \in debounce => id \in debounce')
      \/ id \in debounce'
      \/ Pushed(id)
  BY DEF Asks
<1>4. CASE id \in debounce'
  BY <1>4 DEF Promised
<1>5. CASE Sent(id)
  <2>1. id \in DOMAIN lights' /\ lights'[id].state = want'[id]
    BY DEF Asks
  <2>2. want'[id] \in LightState
    BY DEF TypeOK
  <2>3. Carries(http', UsbCalls', id, want'[id])
    BY <1>5, <2>1, <2>2 DEF Sent, Settable
  <2>4. Obeyed(id)' => Reads(id, want[id], port)'
    <3>1. CASE id \in inflight
      BY <1>5, <3>1 DEF Concludes
    <3>2. CASE id \notin inflight
      <4>1. Silent(http, UsbCalls, id)
        BY <3>2 DEF OutboxInv
      <4> QED
        BY <1>2, <4>1, SilentObeys DEF Obeys
    <3> QED
      BY <3>1, <3>2
  <2> QED
    BY <1>5, <2>3, <2>4 DEF Promised, Sent
<1>6. CASE Postponed(id)
  BY <1>6 DEF Postponed, Kept, Promised
<1>7. CASE Untouched(id) /\ id \notin debounce'
  <2>1. /\ id \in inflight' <=> id \in inflight
        /\ id \in dirty' <=> id \in dirty
    BY <1>7 DEF Untouched, Kept
  <2>2. CASE id \in inflight /\ id \in dirty
    BY <2>1, <2>2 DEF Promised
  <2>3. CASE id \in inflight /\ id \notin dirty
    <3>1. want'[id] = want[id] /\ id \notin debounce
      BY <1>3, <1>7, <2>1, <2>3 DEF Pushed
    <3>2. Carries(http, UsbCalls, id, want[id]) /\ (Obeyed(id) => Reads(id, want[id], port))
      BY <2>3, <3>1 DEF Promised
    <3>3. Carries(http', UsbCalls', id, want'[id])
      BY <1>7, <3>1, <3>2 DEF Untouched, Kept, Alike
    <3>4. Obeyed(id)' => Reads(id, want[id], port)'
      <4>1. CASE Still(id, port) /\ (Obeyed(id)' => Obeyed(id))
        BY <3>1, <3>2, <4>1 DEF Still, Reads, Homes
      <4>2. ASSUME NEW body, Carries(http, UsbCalls, id, body), Reads(id, body, port)'
            PROVE  Reads(id, want[id], port)'
        BY <3>1, <3>2, <4>2, OneBody
      <4> QED
        BY <4>1, <4>2 DEF Obeys
    <3> QED
      BY <2>1, <2>3, <3>3, <3>4 DEF Promised
  <2>4. CASE id \notin inflight
    <3>1. want'[id] = want[id] /\ id \notin debounce
      BY <1>3, <1>7, <2>1, <2>4 DEF Pushed
    <3>2. Reads(id, want[id], port)
      BY <2>4, <3>1 DEF Promised
    <3>3. Silent(http, UsbCalls, id)
      BY <2>4 DEF OutboxInv
    <3>4. Still(id, port)
      BY <1>2, <3>3, SilentObeys DEF Obeys
    <3> QED
      BY <2>1, <2>4, <3>1, <3>2, <3>4 DEF Promised, Still, Reads, Homes
  <2> QED
    BY <2>2, <2>3, <2>4
<1>8. CASE Finished(id) /\ id \notin debounce'
  <2>1. id \in inflight /\ id \notin inflight'
    BY <1>8 DEF Finished
  <2>2. want'[id] = want[id] /\ id \notin debounce
    BY <1>3, <1>8, <2>1 DEF Pushed
  <2>3. id \notin dirty /\ Obeyed(id) /\ Still(id, port)
    BY <1>8 DEF Concludes
  <2>4. Reads(id, want[id], port)
    BY <2>1, <2>2, <2>3 DEF Promised
  <2> QED
    BY <2>1, <2>2, <2>3, <2>4 DEF Promised, Still, Reads, Homes
<1> QED
  BY <1>4, <1>5, <1>6, <1>7, <1>8
-------------------------------------------------------------------------------
(* What the steps do to the user's change.                                 *)

\* A step that is none of this light's business.
Spared(id) ==
  /\ want'[id] = want[id] /\ (id \in debounce => id \in debounce')
  /\ id \in DOMAIN lights => id \in DOMAIN lights' /\ lights'[id].state = lights[id].state

LEMMA SparedAsks ==
  ASSUME NEW id, Meant(id), Spared(id)
  PROVE  Asks(id)
BY DEF Meant, Spared, Asks

\* flush leaves a light with a PUT in flight, and with a note if there was one already.
LEMMA FlushPushes ==
  ASSUME NEW S, Flush(lights', S, inflight, dirty, http), NEW id \in S, HasState(id)'
  PROVE  Pushed(id)
BY DEF Flush, Flushable, HasState, Pushed

\* The user's own changes.
LEMMA UserAsks ==
  ASSUME TypeOK, TypeOK', User \/ Timers, NEW id \in Ids, Meant(id)
  PROVE  Asks(id)
<1>1. want \in [Ids -> LightState \cup {None}] /\ want' \in [Ids -> LightState \cup {None}]
  BY DEF TypeOK
<1>2. None \notin LightState
  BY KeyLightAssumption
<1>3. ASSUME UNCHANGED <<want, lights, debounce>>
      PROVE  Asks(id)
  BY <1>3, SparedAsks DEF Spared
<1>4. ASSUME NEW i, FlushPending(i), UNCHANGED want
      PROVE  Asks(id)
  <2>1. UNCHANGED lights /\ debounce' = debounce \ {i}
        /\ Flush(lights', {i}, inflight, dirty, http)
    BY <1>4 DEF FlushPending
  <2>2. CASE id # i \/ want[id] = None
    BY <1>4, <2>1, <2>2, SparedAsks DEF Spared, Asks
  <2>3. CASE id = i /\ want[id] # None
    <3>1. HasState(id)'
      BY <1>1, <1>2, <2>1, <2>3 DEF Meant, HasState
    <3>2. Pushed(id)
      BY <2>1, <2>3, <3>1, FlushPushes
    <3> QED
      BY <1>4, <2>1, <3>2 DEF Asks, Meant
  <2> QED
    BY <2>2, <2>3
<1>5. ASSUME NEW on, ClickOn(id, on)
      PROVE  Asks(id)
  <2>1. /\ want'[id] = lights'[id].state /\ id \in DOMAIN lights'
        /\ Flush(lights', {id}, inflight, dirty, http)
    BY <1>5 DEF ClickOn, Wanted, SetOn, HasState
  <2>2. want'[id] # None => Pushed(id)
    BY <2>1, FlushPushes DEF HasState
  <2> QED
    BY <2>1, <2>2 DEF Asks
<1>6. ASSUME NEW value, DragBrightness(id, value) \/ DragTemperature(id, value)
      PROVE  Asks(id)
  <2>1. want'[id] = lights'[id].state /\ id \in DOMAIN lights' /\ id \in debounce'
    BY <1>6 DEF DragBrightness, DragTemperature, SetBrightness, SetTemperature, Schedule,
                Wanted, HasState
  <2> QED
    BY <2>1 DEF Asks
<1>7. ASSUME NEW i, i # id,
             \/ \E on : ClickOn(i, on)
             \/ \E value : DragBrightness(i, value) \/ DragTemperature(i, value)
      PROVE  Asks(id)
  <2>1. /\ want'[id] = want[id] /\ debounce \subseteq debounce'
        /\ DOMAIN lights' = DOMAIN lights /\ \A j \in DOMAIN lights : j # i => lights'[j] = lights[j]
    BY <1>7 DEF ClickOn, SetOn, DragBrightness, SetBrightness, DragTemperature,
                SetTemperature, Schedule, Wanted, TypeOK, ManagerTypeOK, IsTable
  <2> QED
    BY <1>7, <2>1, SparedAsks DEF Spared
<1>8. ASSUME ClickToggleAll
      PROVE  Asks(id)
  <2> DEFINE S == {i \in DOMAIN lights : Enabled(lights[i])}
             on == ~AnyOn
             toggled(i) == [lights[i] EXCEPT !.state.on = on]
  <2>1. /\ want' = [i \in Ids |-> IF i \in S THEN lights'[i].state ELSE want[i]]
        /\ lights' = [i \in DOMAIN lights |-> IF i \in S THEN toggled(i) ELSE lights[i]]
        /\ Flush(lights', S, inflight, dirty, http)
        /\ UNCHANGED debounce /\ S \subseteq DOMAIN lights
    BY <1>8 DEF ClickToggleAll, ToggleAll, Wanted
  <2> HIDE DEF S, toggled
  <2>2. CASE id \in S
    <3>1. id \in DOMAIN lights' /\ lights'[id].state = want'[id]
      BY <2>1, <2>2
    <3>2. want'[id] # None => Pushed(id)
      BY <2>1, <2>2, <3>1, FlushPushes DEF HasState
    <3> QED
      BY <3>1, <3>2 DEF Asks
  <2>3. CASE id \notin S
    BY <2>1, <2>3, SparedAsks DEF Spared
  <2> QED
    BY <2>2, <2>3
<1>9. CASE User
  BY <1>3, <1>4, <1>5, <1>6, <1>7, <1>8, <1>9
     DEF User, ReleaseSlider, RefreshMenu, RefreshAll, managerVars
<1>10. CASE Timers
  BY <1>3, <1>4, <1>10 DEF Timers, RefreshTimer, OnRefreshTick, DebounceTimer, DebounceFires
<1> QED
  BY <1>9, <1>10
\* A step that keeps every light and its state.
SameStates ==
  \A id \in DOMAIN lights : id \in DOMAIN lights' /\ lights'[id].state = lights[id].state

\* Discovery, removal, failures, PUTs that succeed and scans keep every state.
LEMMA DiscoverStates ==
  ASSUME TypeOK, NEW s, OnDiscovered(s)
  PROVE  SameStates
<1> DEFINE id == ServiceId(s)
           base == IF id \in DOMAIN lights THEN lights[id] ELSE NewKeyLight
           light == [base EXCEPT !.address = s.address]
<1>1. lights' = Bind(lights, id, light)
  BY DEF OnDiscovered
<1>2. base \in KeyLightRecord
  BY NewKeyLightType, LightFields DEF TypeOK, ManagerTypeOK
<1>3. light.state = base.state
  <2> HIDE DEF base
  <2> QED
    BY <1>2 DEF KeyLightRecord
<1> HIDE DEF light, id
<1> QED
  BY <1>1, <1>3 DEF Bind, SameStates

LEMMA UsbInfoStates ==
  ASSUME TypeOK, NEW path, NEW info, OnUsbInfoReady(path, info)
  PROVE  SameStates
<1> DEFINE id == KnownAs(UsbId(path, info), info.serial)
           base == IF {id} \cap DOMAIN lights = {} THEN NewKeyLight ELSE lights[id]
           light == [base EXCEPT !.usbPath = path, !.transport = "Usb",
                                 !.serial = IF info.serial = None THEN @ ELSE info.serial]
<1>1. lights' = Bind(lights, id, light)
  BY DEF OnUsbInfoReady
<1>2. base \in KeyLightRecord
  BY NewKeyLightType, LightFields DEF TypeOK, ManagerTypeOK
<1>3. light.state = base.state
  <2> HIDE DEF base
  <2> QED
    BY <1>2 DEF KeyLightRecord
<1> HIDE DEF light, id
<1> QED
  BY <1>1, <1>3 DEF Bind, SameStates

LEMMA OtherStates ==
  ASSUME TypeOK,
         \/ \E name : OnServiceRemoved(name)
         \/ \E paths : OnUsbEnumerated(paths)
         \/ \E id, pending : OnPutSucceeded(id, pending)
         \/ \E id, kind, pending : OnRequestFailed(id, kind, pending)
  PROVE  SameStates
<1>1. \A i \in DOMAIN lights : lights[i] \in KeyLightRecord
  BY LightFields DEF TypeOK, ManagerTypeOK
<1>2. ASSUME NEW light \in KeyLightRecord
      PROVE  /\ Failed(light).state = light.state
             /\ Unplugged(light).state = light.state
             /\ [light EXCEPT !.failCount = 0, !.online = TRUE].state = light.state
             /\ \A on : [light EXCEPT !.online = on].state = light.state
  BY <1>2 DEF Failed, Unplugged, KeyLightRecord
<1>3. ASSUME NEW name, OnServiceRemoved(name)
      PROVE  SameStates
  <2> DEFINE gone == {i \in DOMAIN lights : i = Lookup(byService, name) /\ lights[i].online}
             on(i) == lights[i].online /\ i \notin gone
  <2>1. lights' = [i \in DOMAIN lights |-> [lights[i] EXCEPT !.online = on(i)]]
    BY <1>1, <1>3 DEF OnServiceRemoved, KeyLightRecord
  <2> HIDE DEF gone, on
  <2> QED
    BY <1>1, <1>2, <2>1 DEF SameStates
<1>4. ASSUME NEW paths, OnUsbEnumerated(paths)
      PROVE  SameStates
  <2>1. DOMAIN lights' = DOMAIN lights
        /\ \A i \in DOMAIN lights : lights'[i] \in {lights[i], Unplugged(lights[i])}
    BY <1>4 DEF OnUsbEnumerated
  <2> QED
    BY <1>1, <1>2, <2>1 DEF SameStates
<1>5. ASSUME NEW id, NEW pending, OnPutSucceeded(id, pending)
      PROVE  SameStates
  <2>1. DOMAIN lights' = DOMAIN lights
        /\ \A i \in DOMAIN lights :
             lights'[i] \in {lights[i], [lights[i] EXCEPT !.failCount = 0, !.online = TRUE]}
    BY <1>5 DEF OnPutSucceeded
  <2> QED
    BY <1>1, <1>2, <2>1 DEF SameStates
<1>6. ASSUME NEW id, NEW kind, NEW pending, OnRequestFailed(id, kind, pending)
      PROVE  SameStates
  <2>1. \/ UNCHANGED lights
        \/ id \in DOMAIN lights /\ lights' = [lights EXCEPT ![id] = Failed(@)]
    BY <1>6 DEF OnRequestFailed, OnIoFail
  <2> QED
    BY <1>1, <1>2, <2>1 DEF SameStates, TypeOK, ManagerTypeOK, IsTable
<1> QED
  BY <1>3, <1>4, <1>5, <1>6

\* An answer without "lights" leaves the state alone.
LEMMA AnswerStates ==
  ASSUME TypeOK, NEW i, NEW data, NEW pending, OnStateReceived(i, data, pending),
         NEW id \in DOMAIN lights, id # i \/ data = None
  PROVE  id \in DOMAIN lights' /\ lights'[id].state = lights[id].state
<1>1. lights[id] \in KeyLightRecord /\ IsTable(lights, Ids, KeyLightRecord)
  BY LightFields DEF TypeOK, ManagerTypeOK
<1>2. CASE i \notin DOMAIN lights
  BY <1>2 DEF OnStateReceived
<1>3. CASE i \in DOMAIN lights
  <2> DEFINE state == IF data = None THEN lights[i].state ELSE data
             answered == [lights[i] EXCEPT !.failCount = 0, !.online = TRUE, !.state = state]
  <2>1. lights[i] \in KeyLightRecord
    BY <1>3, LightFields DEF TypeOK, ManagerTypeOK
  <2>2. lights' = [lights EXCEPT ![i] = answered]
    BY <1>3, <2>1 DEF OnStateReceived, TypeOK, ManagerTypeOK, IsTable, KeyLightRecord
  <2>3. data = None => answered.state = lights[i].state
    BY <2>1 DEF KeyLightRecord
  <2> HIDE DEF answered, state
  <2> QED
    BY <1>1, <1>3, <2>2, <2>3 DEF IsTable
<1> QED
  BY <1>2, <1>3

\* merge: the light that is kept keeps its state.
LEMMA InfoStates ==
  ASSUME TypeOK, NEW i, NEW info, NEW pending, OnInfoReceived(i, info, pending),
         NEW id \in DOMAIN lights \cap DOMAIN lights'
  PROVE  lights'[id].state = lights[id].state
<1> DEFINE other == Lookup(bySerial, info.serial)
           named == [lights EXCEPT ![i].serial = info.serial]
<1>1. IsTable(lights, Ids, KeyLightRecord) /\ lights[id] \in KeyLightRecord
  BY LightFields DEF TypeOK, ManagerTypeOK
<1>2. ASSUME i \in DOMAIN lights
      PROVE  /\ DOMAIN named = DOMAIN lights
             /\ \A j \in DOMAIN lights : /\ named[j].state = lights[j].state
                                         /\ DOMAIN named[j] = DOMAIN lights[j]
  <2>1. \A j \in DOMAIN lights : lights[j] \in KeyLightRecord
    BY LightFields DEF TypeOK, ManagerTypeOK
  <2>2. ASSUME NEW j \in DOMAIN lights
        PROVE  named[j] \in {lights[j], [lights[j] EXCEPT !.serial = info.serial]}
    BY <1>1, <1>2, <2>2 DEF IsTable
  <2> QED
    BY <1>1, <1>2, <2>1, <2>2 DEF IsTable, KeyLightRecord
<1>3. CASE i \in DOMAIN lights /\ Merge(named, other, i)
  <2> HIDE DEF named, other
  <2>1. CASE {other, i} \subseteq DOMAIN named /\ other # i
    <3> DEFINE keep == Merged(named[other], named[i])
    <3>1. DOMAIN named[other] = DOMAIN lights[other] /\ lights[other] \in KeyLightRecord
      BY <1>2, <1>3, <2>1, LightFields DEF TypeOK, ManagerTypeOK
    <3>2. keep.state = named[other].state
      BY <3>1 DEF Merged, KeyLightRecord
    <3>3. lights' = Unbind([named EXCEPT ![other] = keep], i)
      BY <1>3, <2>1 DEF Merge
    <3> HIDE DEF keep
    <3> QED
      BY <1>2, <1>3, <2>1, <3>2, <3>3 DEF Unbind
  <2>2. CASE ~({other, i} \subseteq DOMAIN named /\ other # i)
    BY <1>2, <1>3, <2>2 DEF Merge
  <2> QED
    BY <2>1, <2>2
<1>4. CASE ~(i \in DOMAIN lights /\ Merge(named, other, i))
  <2>1. lights' = lights \/ (i \in DOMAIN lights /\ lights' = named)
    BY <1>4 DEF OnInfoReceived
  <2> HIDE DEF named
  <2> QED
    BY <1>2, <2>1
<1> QED
  BY <1>3, <1>4
\* Every step leaves the user's change in the cache, and with a timer or a PUT.
LEMMA AskStep ==
  ASSUME TypeOK, TypeOK', [Next]_vars, NEW id \in Ids, Meant(id)
  PROVE  Asks(id)
<1>1. ASSUME SameStates, UNCHANGED debounce, want'[id] \in {want[id], None}
      PROVE  Asks(id)
  BY <1>1, SparedAsks DEF Spared, SameStates, Asks
<1>2. ASSUME UNCHANGED <<lights, debounce>>, want'[id] \in {want[id], None}
      PROVE  Asks(id)
  BY <1>1, <1>2 DEF SameStates
<1>3. \A S : Dropped(S) => want'[id] \in {want[id], None}
  BY DEF Dropped
<1>4. CASE UNCHANGED vars
  BY <1>2, <1>4 DEF vars, managerVars
<1>5. CASE Environment
  <2>1. ASSUME NEW s, Discover(s)
        PROVE  Asks(id)
    BY <1>1, <2>1, DiscoverStates DEF Discover, OnDiscovered
  <2>2. ASSUME NEW name, ServiceGone(name)
        PROVE  Asks(id)
    BY <1>1, <2>2, OtherStates DEF ServiceGone, OnServiceRemoved
  <2> QED
    BY <1>2, <1>5, <2>1, <2>2 DEF Environment, PlugIn, PullOut, managerVars
<1>6. CASE User \/ Timers
  BY <1>6, UserAsks
<1>7. ASSUME NEW i, NEW data, NEW pending, OnStateReceived(i, data, pending),
             Dropped(IF data = None THEN {} ELSE {i})
      PROVE  Asks(id)
  <2>1. CASE id = i /\ data # None
    BY <1>7, <2>1 DEF Dropped, Asks
  <2>2. CASE id # i \/ data = None
    <3>1. Spared(id)
      BY <1>7, <2>2, AnswerStates DEF Spared, Dropped, OnStateReceived
    <3> QED
      BY <3>1, SparedAsks
  <2> QED
    BY <2>1, <2>2
<1>8. ASSUME NEW i, NEW pending, OnPutSucceeded(i, pending), UNCHANGED want
      PROVE  Asks(id)
  BY <1>1, <1>8, OtherStates DEF OnPutSucceeded
<1>9. ASSUME NEW i, NEW kind, NEW pending, OnRequestFailed(i, kind, pending),
             NEW S, Dropped(S)
      PROVE  Asks(id)
  BY <1>1, <1>3, <1>9, OtherStates DEF OnRequestFailed
<1>10. CASE Network
  <2>1. PICK r \in DOMAIN http :
          ServeHttp(r) \/ InfoReply(r) \/ StateReply(r) \/ PutReply(r) \/ HttpFailure(r)
    BY <1>10 DEF Network
  <2>2. CASE InfoReply(r)
    <3>1. /\ OnInfoReceived(r.id, InfoOf[Owner[r.address]], Untrack(r))
          /\ Dropped(DOMAIN lights \ DOMAIN lights') /\ UNCHANGED debounce
      BY <2>2 DEF InfoReply, OnInfoReceived
    <3>2. CASE id \in DOMAIN lights \ DOMAIN lights'
      BY <3>1, <3>2 DEF Dropped, Asks
    <3>3. CASE id \notin DOMAIN lights \ DOMAIN lights'
      BY <3>1, <3>3, InfoStates, SparedAsks DEF Spared, Dropped
    <3> QED
      BY <3>2, <3>3
  <2> QED
    BY <1>2, <1>7, <1>8, <1>9, <2>1, <2>2
       DEF ServeHttp, managerVars, StateReply, PutReply, HttpFailure
<1>11. CASE Usb
  <2>1. CASE UsbEnumerated
    BY <1>1, <2>1, OtherStates DEF UsbEnumerated, OnUsbEnumerated
  <2>2. CASE UsbInfoReady
    BY <1>1, <2>2, UsbInfoStates DEF UsbInfoReady, OnUsbInfoReady
  <2> QED
    BY <1>2, <1>7, <1>8, <1>9, <1>11, <2>1, <2>2
       DEF Usb, WorkerStep, managerVars, UsbInfoFailed, OnUsbInfoFailed, UsbRequestDone,
           UsbRequestFailed
<1> QED
  BY <1>4, <1>5, <1>6, <1>10, <1>11 DEF Next

-------------------------------------------------------------------------------
(* What the steps do to the devices.                                       *)

\* A request or a call that is a PUT of this light is what the light carries.
LEMMA PutCarried ==
  ASSUME TypeOK, OutboxInv, NEW id \in Ids
  PROVE  /\ \A r \in Posts(http, id) : Carries(http, UsbCalls, id, r.payload)
         /\ usbIn # <<>> /\ Head(usbIn) \in PutOf(id)
              => Carries(http, UsbCalls, id, Head(usbIn).body)
<1>1. ASSUME NEW r \in Posts(http, id)
      PROVE  Carries(http, UsbCalls, id, r.payload)
  <2>1. ~NoPost(http, id)
    BY DEF NoPost
  <2>2. PICK body : Carries(http, UsbCalls, id, body)
    BY <2>1 DEF OutboxInv, Silent
  <2>3. r.payload = body
    BY <2>1, <2>2 DEF Carries, OnePost
  <2> QED
    BY <2>2, <2>3
<1>2. ASSUME usbIn # <<>>, Head(usbIn) \in PutOf(id)
      PROVE  Carries(http, UsbCalls, id, Head(usbIn).body)
  <2> DEFINE answered == [j \in DOMAIN usbOut |-> usbOut[j].call]
             n == Len(answered) + 1
  <2>1. answered \in Seq(UsbCall) /\ usbIn \in Seq(UsbCall)
    BY CallParts DEF TypeOK
  <2>2. UsbCalls = answered \o usbIn
    BY DEF UsbCalls
  <2> HIDE DEF answered
  <2>3. n \in DOMAIN UsbCalls /\ UsbCalls[n] = Head(usbIn)
    BY <1>2, <2>1, <2>2
  <2> HIDE DEF n
  <2>4. n \in Occurrences(UsbCalls, PutOf(id))
    BY <1>2, <2>3 DEF Occurrences
  <2>5. PICK body : Carries(http, UsbCalls, id, body)
    BY <2>4 DEF OutboxInv, Silent, NoCall
  <2>6. PICK m \in Occurrences(UsbCalls, PutBody(id, body)) :
          Occurrences(UsbCalls, PutOf(id)) = {m}
    BY <2>4, <2>5, BodyOccurrences DEF Carries, NoCall, OneCall, ExactlyOne
  <2>7. Head(usbIn).body = body
    BY <2>3, <2>4, <2>6 DEF Occurrences, PutBody
  <2> QED
    BY <2>5, <2>7
<1> QED
  BY <1>1, <1>2

\* A device changes by a PUT in flight of the one light that leads to it.
LEMMA ObeyStep ==
  ASSUME TypeOK, TypeOK', NEW port \in [UsbPaths -> Devices], OneLightEach(port), OwnPaths(port),
         AtHome(port), OutboxInv, [Next]_vars, NEW id \in Ids
  PROVE  Obeys(id, port)
<1>1. UsbTypeOK /\ DOMAIN http \subseteq HttpRequest /\ device \in [Devices -> LightState]
  BY DEF TypeOK, HttpTypeOK, HardwareTypeOK
<1>2. ASSUME Still(id, port), \A r \in Posts(http', id) : r.served => r \in Posts(http, id),
             \A i \in DOMAIN usbOut' :
               usbOut'[i].signal = "requestDone" /\ usbOut'[i].call \in PutOf(id)
                 => \E j \in DOMAIN usbOut : usbOut[j] = usbOut'[i]
      PROVE  Obeys(id, port)
  BY <1>2 DEF Obeys, Obeyed
<1>3. ASSUME NEW r \in DOMAIN http, ServeHttp(r)
      PROVE  Obeys(id, port)
  <2> DEFINE served(payload) == [r EXCEPT !.served = TRUE, !.payload = payload]
             d == Owner[r.address]
  <2>1. r \in HttpRequest /\ r.id \in Ids /\ r.address # None /\ d \in Homes(r.id, port)
    BY <1>1, <1>3, RequestFields DEF ServeHttp, DeviceServes, AtHome, Found
  <2>2. UNCHANGED usbOut
    BY <1>3 DEF ServeHttp, usbVars
  <2>3. PICK payload : http' = Track(Untrack(r), {served(payload)})
    BY <1>3 DEF ServeHttp, DeviceServes
  <2>4. served(payload).kind = r.kind /\ served(payload).id = r.id
    BY <2>1 DEF HttpRequest, Requests
  <2> HIDE DEF served
  <2>5. \A q \in DOMAIN http' : q \in DOMAIN http \/ q = served(payload)
    BY <2>3 DEF Track, Untrack, (+), (-), SetToBag
  <2>6. CASE r \in Posts(http, id)
    <3>1. Carries(http, UsbCalls, id, r.payload)
      BY <2>6, PutCarried
    <3>2. device' = [device EXCEPT ![d] = r.payload] /\ r.id = id
      BY <1>3, <2>6 DEF ServeHttp, DeviceServes, Posts
    <3>3. \A e \in Homes(id, port) : e = d
      BY <2>1, <3>2 DEF OneLightEach
    <3>4. d \in Devices
      BY <1>1, <2>1, RequestFields, HardwareAssumption
    <3>5. Reads(id, r.payload, port)'
      BY <1>1, <3>2, <3>3, <3>4 DEF Reads, Homes
    <3> QED
      BY <3>1, <3>5 DEF Obeys
  <2>7. CASE r \notin Posts(http, id)
    <3>1. Still(id, port)
      <4>1. CASE r.kind = "Put"
        <5>1. device' = [device EXCEPT ![d] = r.payload] /\ r.id # id
          BY <1>3, <2>7, <4>1 DEF ServeHttp, DeviceServes, Posts
        <5>2. \A e \in Homes(id, port) : e # d
          BY <2>1, <5>1 DEF OneLightEach
        <5> QED
          BY <1>1, <5>1, <5>2 DEF Still
      <4>2. CASE r.kind # "Put"
        BY <1>3, <4>2 DEF ServeHttp, DeviceServes, Still
      <4> QED
        BY <4>1, <4>2
    <3>2. \A q \in Posts(http', id) : q \in Posts(http, id)
      BY <2>4, <2>5, <2>7 DEF Posts
    <3> QED
      BY <1>2, <2>2, <3>1, <3>2
  <2> QED
    BY <2>6, <2>7
<1>4. CASE WorkerStep
  <2> DEFINE call == Head(usbIn)
  <2>1. UNCHANGED http
    BY <1>4 DEF WorkerStep
  <2>2. ASSUME NEW result, Finish(result), Still(id, port),
               result.signal = "requestDone" => result.call \notin PutOf(id)
        PROVE  Obeys(id, port)
    <3>1. \A i \in DOMAIN usbOut' :
            usbOut'[i] = result \/ \E j \in DOMAIN usbOut : usbOut[j] = usbOut'[i]
      BY <1>1, <2>2, FinishAdds
    <3> QED
      BY <1>2, <2>1, <2>2, <3>1
  <2>3. ASSUME usbIn # <<>>, call.kind = "Put", call.op = "request", call.path \in Present,
               device' = [device EXCEPT ![plugged[call.path]] = call.body],
               NEW result, Finish(result), result.call = call
        PROVE  Obeys(id, port)
    <3>1. call \in LightCall /\ call.id \in Ids
      <4>1. call \in UsbCall
        BY <1>1, <2>3 DEF UsbTypeOK
      <4> QED
        BY <2>3, <4>1 DEF UsbCall, EnumerateCall, Probe, LightCall
    <3>2. plugged[call.path] \in Devices /\ plugged[call.path] = port[call.path]
      BY <2>3 DEF Present, OwnPaths, TypeOK, HardwareTypeOK
    <3>3. plugged[call.path] \in Homes(call.id, port)
      <4>1. call \in ToSet(usbIn) /\ call.path # None
        BY <1>1, <2>3, KeyLightAssumption DEF UsbTypeOK, ToSet, Present
      <4> QED
        BY <2>3, <3>2, <4>1 DEF AtHome, Cabled
    <3>4. CASE call.id = id
      <4>1. Carries(http, UsbCalls, id, call.body)
        BY <2>3, <3>1, <3>4, PutCarried DEF PutOf
      <4>2. PICK body : body = call.body
        OBVIOUS
      <4>3. \A e \in Homes(id, port) : e = plugged[call.path]
        BY <3>3, <3>4 DEF OneLightEach
      <4>4. Reads(id, body, port)'
        BY <1>1, <2>3, <3>2, <4>2, <4>3 DEF Reads, Homes
      <4> QED
        BY <4>1, <4>2, <4>4 DEF Obeys
    <3>5. CASE call.id # id
      <4>1. \A e \in Homes(id, port) : e # plugged[call.path]
        BY <3>1, <3>3, <3>5 DEF OneLightEach
      <4>2. Still(id, port)
        BY <1>1, <2>3, <4>1 DEF Still
      <4>3. call \notin PutOf(id)
        BY <3>5 DEF PutOf
      <4> QED
        BY <2>2, <2>3, <4>2, <4>3
    <3> QED
      BY <3>4, <3>5
  <2>4. CASE Enumerate
    <3>1. PICK paths : Finish([Result("enumerated", call) EXCEPT !.paths = paths])
      BY <2>4 DEF Enumerate
    <3>2. [Result("enumerated", call) EXCEPT !.paths = paths].signal # "requestDone"
          /\ Still(id, port)
      BY <2>4 DEF Enumerate, Result, Still
    <3> QED
      BY <2>2, <3>1, <3>2
  <2>5. CASE ProbeInfo
    <3> DEFINE answer == [Result("infoReady", call) EXCEPT !.info = InfoOf[plugged[call.path]]]
    <3>1. Finish(answer) /\ answer.signal # "requestDone" /\ Still(id, port)
      BY <2>5 DEF ProbeInfo, Result, Still
    <3> QED
      BY <2>2, <3>1
  <2>6. CASE ServeRequest
    <3> DEFINE answer == [Result("requestDone", call) EXCEPT !.data = device[plugged[call.path]]]
    <3>1. CASE call.kind = "State" /\ Finish(answer) /\ UNCHANGED device
      <4>1. answer.call \notin PutOf(id) /\ Still(id, port)
        BY <3>1 DEF Result, PutOf, Still
      <4> QED
        BY <2>2, <3>1, <4>1
    <3>2. Result("requestDone", call).call = call
      BY DEF Result
    <3> QED
      BY <2>3, <2>6, <3>1, <3>2 DEF ServeRequest
  <2>7. CASE FailExchange
    <3> DEFINE answer == Result(IF call.op = "probe" THEN "infoFailed" ELSE "requestFailed", call)
    <3>1. Finish(answer) /\ answer.signal # "requestDone" /\ answer.call = call
      BY <2>7 DEF FailExchange, Result
    <3>2. CASE UNCHANGED device
      BY <2>2, <3>1, <3>2 DEF Still
    <3>3. CASE ~UNCHANGED device
      <4>1. /\ usbIn # <<>> /\ call.kind = "Put" /\ call.path \in Present
            /\ device' = [device EXCEPT ![plugged[call.path]] = call.body]
        BY <2>7, <3>3 DEF FailExchange
      <4>2. call.op = "request"
        <5>1. call \in UsbCall
          BY <1>1, <4>1 DEF UsbTypeOK
        <5> QED
          BY <4>1, <5>1 DEF UsbCall, EnumerateCall, Probe, LightCall
      <4> QED
        BY <2>3, <3>1, <4>1, <4>2
    <3> QED
      BY <3>2, <3>3
  <2> QED
    BY <1>4, <2>4, <2>5, <2>6, <2>7 DEF WorkerStep
<1>5. CASE ~WorkerStep /\ \A r \in DOMAIN http : ~ServeHttp(r)
  <2>1. \A r \in Posts(http', id) : r.served => r \in Posts(http, id)
    BY <1>5, RequestOrigin DEF From, Posts
  <2>2. /\ UNCHANGED device
        /\ \A i \in DOMAIN usbOut' : \E j \in DOMAIN usbOut : usbOut[j] = usbOut'[i]
    BY <1>1, <1>5, HeardOnly
  <2> QED
    BY <1>2, <2>1, <2>2 DEF Still
<1> QED
  BY <1>3, <1>4, <1>5
-------------------------------------------------------------------------------
(* What ends a PUT.                                                        *)

\* A PUT that succeeds was obeyed; what it leaves is nothing, or the next, not yet obeyed.
LEMMA SucceededConcludes ==
  ASSUME TypeOK', NEW port, NEW id \in Ids, Meant(id)', NEW i, NEW bag, OnPutSucceeded(i, bag),
         UNCHANGED device,
         id = i => /\ Obeyed(id) /\ NoPost(bag, id)
                   /\ \A j \in DOMAIN usbOut' : usbOut'[j].call \notin PutOf(id)
  PROVE  Concludes(id, port)
<1> DEFINE sent == Flushable(lights', {i} \cap dirty) \ (inflight \ {i})
<1>1. /\ dirty \ {i} \subseteq dirty' /\ inflight' = (inflight \ {i}) \cup sent
      /\ http' = Track(bag, PutRequests(lights', sent))
  BY DEF OnPutSucceeded, Flush
<1>2. CASE id # i
  BY <1>1, <1>2 DEF Concludes, Sent, Finished
<1>3. CASE id = i
  <2>1. \A r \in PutRequests(lights', sent) : ~r.served
    BY DEF PutRequests, PutLights, Request
  <2>2. HasState(id)' /\ id \in dirty => id \in sent
    BY <1>3 DEF Flushable, HasState
  <2> HIDE DEF sent
  <2>3. ~Obeyed(id)'
    <3>1. \A r \in DOMAIN http' : r \in DOMAIN bag \/ r \in PutRequests(lights', sent)
      BY <1>1 DEF Track, (+), SetToBag
    <3> QED
      BY <1>3, <2>1, <3>1 DEF Obeyed, NoPost, Posts
  <2>4. ASSUME Finished(id), want'[id] # None
        PROVE  id \notin dirty
    <3>1. want'[id] \in LightState /\ None \notin LightState
      BY <2>4, KeyLightAssumption DEF TypeOK
    <3>2. HasState(id)'
      BY <2>4, <3>1 DEF Meant, HasState
    <3> QED
      BY <1>1, <2>2, <2>4, <3>2 DEF Finished
  <2> QED
    BY <1>3, <2>3, <2>4 DEF Concludes, Still
<1> QED
  BY <1>2, <1>3

\* A PUT that fails takes the user's change along.
LEMMA FailedConcludes ==
  ASSUME NEW port, NEW id \in Ids, NEW i, GiveUp(i), Dropped({i})
  PROVE  Concludes(id, port)
BY DEF GiveUp, Dropped, Concludes, Sent, Finished

\* Nothing else ends one.
LEMMA ConcludesLess ==
  ASSUME NEW port, NEW id, dirty \subseteq dirty', inflight \subseteq inflight'
  PROVE  Concludes(id, port)
BY DEF Concludes, Sent, Finished

\* The result of a PUT over USB.
LEMMA LastCall ==
  ASSUME TypeOK, OutboxInv, NEW signal, Delivered(signal),
         Head(usbOut).call \in LightCall, Head(usbOut).call.kind = "Put"
  PROVE  LET id == Head(usbOut).call.id
         IN  /\ NoPost(http, id)
             /\ signal = "requestDone" => Obeyed(id)
             /\ \A j \in DOMAIN usbOut' : usbOut'[j].call \notin PutOf(id)
<1> DEFINE id == Head(usbOut).call.id
<1>1. Silent(http, Tail(UsbCalls), id)
  BY CallEnds DEF Ended
<1>2. usbOut \in Seq(UsbResult) /\ usbOut # <<>> /\ usbOut' = Tail(usbOut)
  BY DEF Delivered, TypeOK, UsbTypeOK
<1>3. signal = "requestDone" => Obeyed(id)
  <2>1. 1 \in DOMAIN usbOut /\ usbOut[1] = Head(usbOut) /\ Head(usbOut).call \in PutOf(id)
    BY <1>2 DEF PutOf
  <2> QED
    BY <2>1 DEF Obeyed, Delivered
<1>4. ASSUME NEW j \in DOMAIN usbOut', usbOut'[j].call \in PutOf(id)
      PROVE  FALSE
  <2> DEFINE answered == [k \in DOMAIN usbOut |-> usbOut[k].call]
             queue == usbIn
  <2>1. answered \in Seq(UsbCall) /\ queue \in Seq(UsbCall)
    BY CallParts DEF TypeOK
  <2>2. j \in 1 .. Len(usbOut) - 1 /\ usbOut'[j] = usbOut[j + 1]
    BY <1>2
  <2>3. DOMAIN answered = 1 .. Len(usbOut)
    BY <1>2
  <2>4. answered[j + 1] = usbOut'[j].call
    BY <2>2, <2>3
  <2>5. UsbCalls = answered \o queue
    BY DEF UsbCalls
  <2> HIDE DEF answered, queue
  <2>6. j \in DOMAIN Tail(UsbCalls) /\ Tail(UsbCalls)[j] = answered[j + 1]
    <3>1. Len(answered) = Len(usbOut) /\ Len(usbOut) \in Nat
      BY <1>2, <2>1, <2>3
    <3>2. UsbCalls \in Seq(UsbCall) /\ j \in 1 .. Len(UsbCalls) - 1
      BY <2>1, <2>2, <2>5, <3>1
    <3>3. UsbCalls[j + 1] = answered[j + 1]
      BY <2>1, <2>2, <2>5, <3>1
    <3> QED
      BY <3>2, <3>3
  <2> QED
    BY <1>1, <1>4, <2>4, <2>6 DEF Silent, NoCall, Occurrences
<1> QED
  BY <1>1, <1>3, <1>4 DEF Silent

LEMMA ConcludeStep ==
  ASSUME TypeOK, TypeOK', OutboxInv, [Next]_vars, NEW port, NEW id \in Ids, Meant(id)'
  PROVE  Concludes(id, port)
<1>1. ASSUME UNCHANGED putVars
      PROVE  Concludes(id, port)
  BY <1>1, ConcludesLess DEF putVars
<1>2. ASSUME NEW S, Flush(lights', S, inflight, dirty, http)
      PROVE  Concludes(id, port)
  BY <1>2, ConcludesLess DEF Flush
<1>3. ASSUME NEW i, FlushPending(i)
      PROVE  Concludes(id, port)
  <2>1. Flush(lights', {i}, inflight, dirty, http)
    BY <1>3 DEF FlushPending
  <2> QED
    BY <1>2, <2>1
<1>4. CASE UNCHANGED vars
  BY <1>1, <1>4 DEF vars, managerVars
<1>5. CASE Environment
  BY <1>1, <1>5 DEF Environment, Discover, OnDiscovered, ServiceGone, OnServiceRemoved, PlugIn,
                    PullOut, managerVars
<1>6. CASE User
  BY <1>1, <1>2, <1>3, <1>6
     DEF User, ClickOn, SetOn, DragBrightness, SetBrightness, DragTemperature, SetTemperature,
         Schedule, ReleaseSlider, ClickToggleAll, ToggleAll, RefreshMenu, RefreshAll, managerVars
<1>7. CASE Timers
  BY <1>1, <1>3, <1>7 DEF Timers, RefreshTimer, OnRefreshTick, DebounceTimer, DebounceFires
<1>8. CASE Network
  <2>1. PICK r \in DOMAIN http :
          ServeHttp(r) \/ InfoReply(r) \/ StateReply(r) \/ PutReply(r) \/ HttpFailure(r)
    BY <1>8 DEF Network
  <2>2. CASE PutReply(r)
    <3>1. /\ r \in Posts(http, r.id) /\ r.served /\ UNCHANGED <<device, usbOut>>
          /\ OnPutSucceeded(r.id, Untrack(r))
      BY <2>2 DEF PutReply, Answered, Posts, hardwareVars
    <3>2. Obeyed(r.id)
      BY <3>1 DEF Obeyed
    <3>3. Silent(Untrack(r), UsbCalls, r.id)
      BY <3>1, PostEnds DEF Posts, Ended
    <3>4. NoPost(Untrack(r), r.id) /\ \A j \in DOMAIN usbOut' : usbOut'[j].call \notin PutOf(r.id)
      <4>1. ASSUME NEW j \in DOMAIN usbOut, usbOut[j].call \in PutOf(r.id)
            PROVE  FALSE
        BY <3>3, <4>1, SilentCalls DEF TypeOK, Silent
      <4> QED
        BY <3>1, <3>3, <4>1 DEF Silent
    <3> QED
      BY <3>1, <3>2, <3>4, SucceededConcludes
  <2>3. CASE HttpFailure(r)
    BY <1>1, <2>3, FailedConcludes DEF HttpFailure, OnRequestFailed
  <2> QED
    BY <1>1, <2>1, <2>2, <2>3
       DEF ServeHttp, managerVars, InfoReply, OnInfoReceived, StateReply, OnStateReceived
<1>9. CASE Usb
  <2> DEFINE call == Head(usbOut).call
  <2>1. ASSUME NEW signal \in {"requestDone", "requestFailed"}, Delivered(signal)
        PROVE  call \in LightCall /\ UNCHANGED device
    <3>1. Head(usbOut) \in UsbResult /\ Head(usbOut).signal = signal
      BY <2>1 DEF Delivered, TypeOK, UsbTypeOK
    <3> QED
      BY <2>1, <3>1 DEF UsbResult, Delivered, hardwareVars
  <2>2. CASE UsbRequestDone
    <3>1. Delivered("requestDone") /\ call \in LightCall /\ UNCHANGED device
      BY <2>1, <2>2 DEF UsbRequestDone
    <3>2. CASE call.kind = "Put" /\ OnPutSucceeded(call.id, http)
      <4>1. /\ NoPost(http, call.id) /\ Obeyed(call.id)
            /\ \A j \in DOMAIN usbOut' : usbOut'[j].call \notin PutOf(call.id)
        BY <3>1, <3>2, LastCall
      <4> HIDE DEF call
      <4> QED
        BY <3>1, <3>2, <4>1, SucceededConcludes
    <3> QED
      BY <1>1, <2>2, <3>2 DEF UsbRequestDone, OnStateReceived
  <2>3. CASE UsbRequestFailed
    BY <1>1, <2>3, FailedConcludes DEF UsbRequestFailed, OnRequestFailed
  <2> QED
    BY <1>1, <1>9, <2>2, <2>3
       DEF Usb, WorkerStep, managerVars, UsbEnumerated, OnUsbEnumerated, UsbInfoReady,
           OnUsbInfoReady, UsbInfoFailed, OnUsbInfoFailed
<1> QED
  BY <1>4, <1>5, <1>6, <1>7, <1>8, <1>9 DEF Next

-------------------------------------------------------------------------------
(* The user's last change.                                                 *)

\* The inductive invariant, with its hypotheses.
PromiseInv(port) ==
  /\ OneLightEach(port) /\ Settable /\ AtHome(port)
  /\ \A id \in Ids : Meant(id) /\ Promised(id, port)

LEMMA PromiseStep ==
  ASSUME TypeOK, TypeOK', DirtyOnlyWhileInflight, OutboxInv,
         NEW port \in [UsbPaths -> Devices], OwnPaths(port), PromiseInv(port), [Next]_vars
  PROVE  PromiseInv(port)'
<1>1. OneLightEach(port) /\ Settable /\ AtHome(port)
  BY DEF PromiseInv
<1>2. AtHome(port)'
  BY <1>1, HomeStep
<1>3. ASSUME NEW id \in Ids
      PROVE  Meant(id)' /\ Promised(id, port)'
  <2>1. Meant(id) /\ Promised(id, port)
    BY DEF PromiseInv
  <2>2. Untouched(id) \/ Postponed(id) \/ Sent(id) \/ Finished(id)
    BY StepBoxed DEF Boxed
  <2>3. Asks(id) /\ Obeys(id, port)
    BY <1>1, <2>1, AskStep, ObeyStep
  <2>4. Meant(id)'
    BY <2>3 DEF Asks, Meant
  <2>5. Concludes(id, port)
    BY <2>4, ConcludeStep
  <2> QED
    BY <1>1, <2>1, <2>2, <2>3, <2>5, PromiseKept
<1>4. OneLightEach(port)' /\ Settable'
  BY <1>1 DEF OneLightEach, Homes, Settable
<1> QED
  BY <1>2, <1>3, <1>4 DEF PromiseInv

LEMMA InitPromise ==
  ASSUME NEW port, OneLightEach(port), Settable, Init
  PROVE  PromiseInv(port)
<1>1. ToSet(usbIn) = {EnumerateCall} /\ EnumerateCall.op # "request"
  BY DEF Init, ManagerInit, ToSet, EnumerateCall
<1>2. AtHome(port)
  BY <1>1 DEF Init, ManagerInit, EmptyTable, HttpInit, EmptyBag, SetToBag, AtHome, LightsAtHome,
              SerialsAtHome, Told
<1> QED
  BY <1>2 DEF Init, PromiseInv, Meant, Promised

\* The device that a light reaches is one that it can lead to.
LEMMA PromiseApplied ==
  ASSUME TypeOK, HttpHasHost, NEW port, OwnPaths(port), PromiseInv(port)
  PROVE  LastChangeApplied
<1> SUFFICES ASSUME NEW id \in DOMAIN lights \ (inflight \cup debounce), want[id] # None,
                    Reached(lights[id]) # None
             PROVE  device[Reached(lights[id])] = want[id]
  BY DEF LastChangeApplied
<1>1. id \in Ids /\ lights[id] \in KeyLightRecord
  BY LightFields DEF TypeOK, ManagerTypeOK
<1>2. Reads(id, want[id], port) /\ LightsAtHome(lights, port)
  BY <1>1 DEF PromiseInv, Promised, AtHome
<1>3. Reached(lights[id]) \in Homes(id, port)
  <2>1. CASE lights[id].transport = "Http"
    BY <1>2, <2>1 DEF HttpHasHost, LightsAtHome, Found, Reached
  <2>2. CASE lights[id].transport # "Http"
    <3>1. lights[id].usbPath \in UsbPaths /\ lights[id].usbPath # None
      BY <1>1, <2>2 DEF Reached, KeyLightRecord
    <3>2. plugged[lights[id].usbPath] = port[lights[id].usbPath]
      BY <2>2, <3>1 DEF Reached, OwnPaths
    <3> QED
      BY <1>2, <2>2, <3>1, <3>2 DEF Reached, LightsAtHome, Cabled
  <2> QED
    BY <2>1, <2>2
<1> QED
  BY <1>2, <1>3 DEF Reads

\* flush, onPutSucceeded, scheduleFlush: where each cable belongs to one device, identities
\* and devices go together one to one, and the lights report only states that they can be
\* set to, the state that the user asked for last is on the device as soon as the light has
\* no PUT in flight and no timer running: whatever was lost, sent late, or coalesced on the
\* way, on either transport, and however often the light changed from one to the other.
THEOREM LastChangeCorrect ==
  ASSUME NEW port \in [UsbPaths -> Devices]
  PROVE  OneLightEach(port) /\ Settable /\ Spec /\ []OwnPaths(port) => []LastChangeApplied
<1>1. OneLightEach(port) /\ Settable /\ Init => PromiseInv(port)
  BY InitPromise
<1>2. TypeOK /\ TypeOK' /\ DirtyOnlyWhileInflight /\ OutboxInv /\ OwnPaths(port)
      /\ PromiseInv(port) /\ [Next]_vars => PromiseInv(port)'
  BY PromiseStep
<1>3. TypeOK /\ HttpHasHost /\ OwnPaths(port) /\ PromiseInv(port) => LastChangeApplied
  BY PromiseApplied
<1> QED
  BY <1>1, <1>2, <1>3, TypeCorrect, DirtyCorrect, OutboxCorrect, HostCorrect, PTL DEF Spec

-------------------------------------------------------------------------------
(* The change that waits.                                                  *)

\* What the user asked for is what the cache holds, until a step takes it back.
AllMeant == \A id \in Ids : Meant(id)

LEMMA MeantStep ==
  ASSUME TypeOK, TypeOK', AllMeant, [Next]_vars
  PROVE  AllMeant'
BY AskStep DEF AllMeant, Asks, Meant

\* No step but an answer that tells its state takes a waiting change out of the cache.
LEMMA SurvivesStep ==
  ASSUME TypeOK, TypeOK', AllMeant, [Next]_vars, HeardAtRest,
         NEW id \in dirty \cap DOMAIN lights', want[id] # None
  PROVE  lights'[id].state \in {want[id], want'[id]}
<1>1. /\ id \in Ids /\ Meant(id)
      /\ id \in DOMAIN lights /\ lights[id].state = want[id]
  BY DEF TypeOK, ManagerTypeOK, AllMeant, Meant
<1>2. want'[id] # None => lights'[id].state = want'[id]
  BY <1>1, AskStep DEF Asks
<1>3. ASSUME SameStates
      PROVE  lights'[id].state = want[id]
  BY <1>1, <1>3 DEF SameStates
<1>4. ASSUME UNCHANGED lights
      PROVE  lights'[id].state = want[id]
  BY <1>1, <1>4
<1>5. CASE UNCHANGED vars
  BY <1>4, <1>5 DEF vars, managerVars
<1>6. CASE Environment
  BY <1>2, <1>6 DEF Environment, Discover, ServiceGone, PlugIn, PullOut
<1>7. CASE User \/ Timers
  <2>1. want'[id] \in {want[id], lights'[id].state}
    BY <1>1, <1>7 DEF User, Timers, Wanted, ClickOn, DragBrightness, DragTemperature,
                      ReleaseSlider, ClickToggleAll, RefreshMenu, RefreshTimer, DebounceTimer
  <2> QED
    BY <1>2, <2>1
<1>8. CASE Network
  <2>1. PICK r \in DOMAIN http :
          ServeHttp(r) \/ InfoReply(r) \/ StateReply(r) \/ PutReply(r) \/ HttpFailure(r)
    BY <1>8 DEF Network
  <2>2. CASE ServeHttp(r)
    BY <1>4, <2>2 DEF ServeHttp, managerVars
  <2>3. CASE InfoReply(r)
    BY <1>1, <2>3, InfoStates DEF InfoReply
  <2>4. CASE StateReply(r)
    <3>1. r.id # id
      BY <2>1, <2>4 DEF HeardAtRest
    <3> QED
      BY <1>1, <2>4, <3>1, AnswerStates DEF StateReply
  <2>5. CASE PutReply(r) \/ HttpFailure(r)
    BY <1>3, <2>5, OtherStates DEF PutReply, HttpFailure
  <2> QED
    BY <2>1, <2>2, <2>3, <2>4, <2>5
<1>9. CASE Usb
  <2>1. CASE WorkerStep
    BY <1>4, <2>1 DEF WorkerStep, managerVars
  <2>2. CASE UsbEnumerated \/ UsbRequestFailed
    BY <1>3, <2>2, OtherStates DEF UsbEnumerated, UsbRequestFailed
  <2>3. CASE UsbInfoReady
    BY <1>3, <2>3, UsbInfoStates DEF UsbInfoReady
  <2>4. CASE UsbInfoFailed
    BY <1>4, <2>4 DEF UsbInfoFailed, OnUsbInfoFailed
  <2>5. CASE UsbRequestDone
    <3> DEFINE call == Head(usbOut).call
    <3>1. CASE call.kind = "Put" /\ OnPutSucceeded(call.id, http)
      BY <1>3, <3>1, OtherStates
    <3>2. ASSUME NEW data, call.kind = "State", OnStateReceived(call.id, data, http)
          PROVE  lights'[id].state = want[id]
      <4>1. call.id # id
        BY <2>5, <3>2 DEF HeardAtRest
      <4> QED
        BY <1>1, <3>2, <4>1, AnswerStates
    <3> QED
      BY <2>5, <3>1, <3>2 DEF UsbRequestDone
  <2> QED
    BY <1>9, <2>1, <2>2, <2>3, <2>4, <2>5 DEF Usb
<1> QED
  BY <1>5, <1>6, <1>7, <1>8, <1>9 DEF Next

\* flush, onPutSucceeded, applyState: a change that waits for the running PUT stays in the
\* cache until it is resent, or given up with that PUT, as long as no answer tells the
\* light's state meanwhile.  So such an answer is the only thing that replaces it there:
\* discovery, scans, failures, timers and other lights' answers do not, and merging does
\* not for a light that is kept.
THEOREM UnsentCorrect == Spec /\ [][HeardAtRest]_vars => UnsentChangeSurvives
<1> DEFINE Survives == \A id \in dirty \cap DOMAIN lights' :
                         want[id] # None => lights'[id].state \in {want[id], want'[id]}
<1>1. Init => AllMeant
  BY DEF Init, AllMeant, Meant
<1>2. TypeOK /\ TypeOK' /\ AllMeant /\ [Next]_vars => AllMeant'
  BY MeantStep
<1>3. TypeOK /\ TypeOK' /\ AllMeant /\ [Next]_vars /\ [HeardAtRest]_vars => [Survives]_vars
  BY SurvivesStep
<1>4. UnsentChangeSurvives <=> [][Survives]_vars
  BY DEF UnsentChangeSurvives
<1> HIDE DEF Survives
<1> QED
  BY <1>1, <1>2, <1>3, <1>4, TypeCorrect, PTL DEF Spec

===============================================================================
