---------------------------- MODULE Identity_proofs ----------------------------
(***************************************************************************)
(* One device is one light, and a light that is online has a card.         *)
(***************************************************************************)
EXTENDS Outbox_proofs

-------------------------------------------------------------------------------
(* What is known of the devices comes from the devices.                    *)

\* A request for accessory information goes to the service it was found by.
Asked(requests) ==
  \A r \in requests : r.kind = "Info" =>
    \E s \in Services : r.id = ServiceId(s) /\ r.address = s.address

\* Accessory information over USB is that of a device.
Informed == \A i \in DOMAIN usbOut :
  usbOut[i].signal = "infoReady" => \E d \in Devices : usbOut[i].info = InfoOf[d]

InfoInv == Asked(DOMAIN http) /\ Informed

LEMMA TrackAsked ==
  ASSUME NEW pending, Asked(DOMAIN pending), NEW requests, Asked(requests)
  PROVE  Asked(DOMAIN Track(pending, requests))
BY DEF Asked, Track, (+), SetToBag

LEMMA UntrackAsked ==
  ASSUME Asked(DOMAIN http), NEW request
  PROVE  Asked(DOMAIN Untrack(request))
BY DEF Asked, Untrack, (-), SetToBag

\* fetchState and flush ask for no accessory information.
LEMMA RequestsAsked ==
  ASSUME NEW L, NEW S
  PROVE  Asked(StateRequests(L, S)) /\ Asked(PutRequests(L, S))
BY DEF Asked, StateRequests, PutRequests, GetLights, PutLights, Request

LEMMA FlushAsked ==
  ASSUME NEW L, NEW S, NEW running, NEW marked, NEW pending, Asked(DOMAIN pending),
         Flush(L, S, running, marked, pending)
  PROVE  Asked(DOMAIN http')
BY RequestsAsked, TrackAsked DEF Flush

\* onDiscovered asks the service it has just heard of.
LEMMA DiscoverAsked ==
  ASSUME TypeOK, Asked(DOMAIN http), NEW s \in Services, Discover(s)
  PROVE  Asked(DOMAIN http')
<1> DEFINE id == ServiceId(s)
           base == IF id \in DOMAIN lights THEN lights[id] ELSE NewKeyLight
           light == [base EXCEPT !.address = s.address]
           info == IF id \in DOMAIN lights THEN {} ELSE {GetInfo(id, light)}
<1>1. base \in KeyLightRecord
  BY NewKeyLightType, LightFields DEF TypeOK, ManagerTypeOK
<1>2. light.address = s.address
  <2> HIDE DEF base
  <2> QED
    BY <1>1 DEF KeyLightRecord
<1>3. http' = Track(http, info \cup StateRequests(lights', {id}))
  BY DEF Discover, OnDiscovered
<1> HIDE DEF light
<1>4. Asked(info)
  BY <1>2 DEF Asked, GetInfo, Request
<1> HIDE DEF info
<1>5. Asked(info \cup StateRequests(lights', {id}))
  BY <1>4, RequestsAsked DEF Asked
<1> QED
  BY <1>3, <1>5, TrackAsked

\* The user and the timers.
LEMMA UserAsked ==
  ASSUME Asked(DOMAIN http), User \/ Timers
  PROVE  Asked(DOMAIN http')
<1>1. ASSUME NEW S, Flush(lights', S, inflight, dirty, http)
      PROVE  Asked(DOMAIN http')
  BY <1>1, FlushAsked
<1>2. ASSUME NEW id, FlushPending(id)
      PROVE  Asked(DOMAIN http')
  <2>1. Flush(lights', {id}, inflight, dirty, http)
    BY <1>2 DEF FlushPending
  <2> QED
    BY <1>1, <2>1
<1>3. ASSUME RefreshAll \/ OnRefreshTick
      PROVE  Asked(DOMAIN http')
  BY <1>3, RequestsAsked, TrackAsked DEF RefreshAll, FetchState, OnRefreshTick
<1>4. ASSUME NEW id, NEW on, SetOn(id, on)
      PROVE  Asked(DOMAIN http')
  BY <1>1, <1>4 DEF SetOn
<1>5. ASSUME NEW id, NEW value, SetBrightness(id, value) \/ SetTemperature(id, value)
      PROVE  Asked(DOMAIN http')
  BY <1>5 DEF SetBrightness, SetTemperature, Schedule
<1>6. ASSUME ToggleAll
      PROVE  Asked(DOMAIN http')
  BY <1>1, <1>6 DEF ToggleAll
<1> QED
  BY <1>2, <1>3, <1>4, <1>5, <1>6
     DEF User, ClickOn, DragBrightness, DragTemperature, ReleaseSlider, ClickToggleAll,
         RefreshMenu, Timers, RefreshTimer, DebounceTimer, DebounceFires

\* The handlers of results.
LEMMA ResultAsked ==
  ASSUME NEW id, NEW pending, Asked(DOMAIN pending),
         \/ \E info : OnInfoReceived(id, info, pending)
         \/ \E data : OnStateReceived(id, data, pending)
         \/ OnPutSucceeded(id, pending)
         \/ \E kind : OnRequestFailed(id, kind, pending)
  PROVE  Asked(DOMAIN http')
<1>1. CASE OnPutSucceeded(id, pending)
  <2>1. Flush(lights', {id} \cap dirty, inflight \ {id}, dirty \ {id}, pending)
    BY <1>1 DEF OnPutSucceeded
  <2> QED
    BY <2>1, FlushAsked
<1>2. CASE ~OnPutSucceeded(id, pending)
  BY <1>2 DEF OnInfoReceived, OnStateReceived, OnRequestFailed
<1> QED
  BY <1>1, <1>2

\* The network.
LEMMA NetworkAsked ==
  ASSUME TypeOK, Asked(DOMAIN http), Network
  PROVE  Asked(DOMAIN http')
<1>1. PICK r \in DOMAIN http :
        ServeHttp(r) \/ InfoReply(r) \/ StateReply(r) \/ PutReply(r) \/ HttpFailure(r)
  BY DEF Network
<1>2. Asked(DOMAIN Untrack(r))
  BY UntrackAsked
<1>3. CASE ServeHttp(r)
  <2>1. r \in HttpRequest /\ r.kind # "Info"
    BY <1>3 DEF TypeOK, HttpTypeOK, ServeHttp, DeviceServes
  <2>2. ASSUME NEW payload
        PROVE  [r EXCEPT !.served = TRUE, !.payload = payload].kind = r.kind
    BY <2>1 DEF HttpRequest, Requests
  <2>3. PICK payload :
          http' = Track(Untrack(r), {[r EXCEPT !.served = TRUE, !.payload = payload]})
    BY <1>3 DEF ServeHttp, DeviceServes
  <2>4. Asked({[r EXCEPT !.served = TRUE, !.payload = payload]})
    BY <2>1, <2>2 DEF Asked
  <2> QED
    BY <1>2, <2>3, <2>4, TrackAsked
<1> QED
  BY <1>1, <1>2, <1>3, ResultAsked DEF InfoReply, StateReply, PutReply, HttpFailure

\* The USB thread and its results.
LEMMA UsbAsked ==
  ASSUME Asked(DOMAIN http), Usb
  PROVE  Asked(DOMAIN http')
<1>1. CASE WorkerStep \/ UsbEnumerated \/ UsbInfoFailed
  BY <1>1 DEF WorkerStep, UsbEnumerated, OnUsbEnumerated, UsbInfoFailed, OnUsbInfoFailed
<1>2. CASE UsbInfoReady
  BY <1>2, RequestsAsked, TrackAsked DEF UsbInfoReady, OnUsbInfoReady, FetchState
<1>3. CASE UsbRequestDone
  BY <1>3, ResultAsked DEF UsbRequestDone
<1>4. CASE UsbRequestFailed
  BY <1>4, ResultAsked DEF UsbRequestFailed
<1> QED
  BY <1>1, <1>2, <1>3, <1>4 DEF Usb

LEMMA AskedStep == TypeOK /\ Asked(DOMAIN http) /\ [Next]_vars => Asked(DOMAIN http')
<1>1. Asked(DOMAIN http) /\ UNCHANGED vars => Asked(DOMAIN http')
  BY DEF vars
<1>2. Asked(DOMAIN http) /\ (\/ \E name \in ServiceNames : ServiceGone(name)
                             \/ \E d \in Devices, p \in UsbPaths : PlugIn(d, p)
                             \/ \E p \in UsbPaths : PullOut(p)) => Asked(DOMAIN http')
  BY DEF ServiceGone, OnServiceRemoved, PlugIn, PullOut
<1> QED
  BY <1>1, <1>2, DiscoverAsked, UserAsked, NetworkAsked, UsbAsked DEF Next, Environment

-------------------------------------------------------------------------------
\* The worker reports what the device it found behind the path has told it.
LEMMA WorkerHeard ==
  ASSUME TypeOK, Informed, WorkerStep
  PROVE  Informed'
<1>1. UsbTypeOK /\ plugged \in [UsbPaths -> Devices \cup {None}]
  BY DEF TypeOK, HardwareTypeOK
<1>2. usbIn # <<>>
  BY DEF WorkerStep, Enumerate, ProbeInfo, ServeRequest, FailExchange
<1> DEFINE call == Head(usbIn)
<1>3. call \in UsbCall
  BY <1>1, <1>2 DEF UsbTypeOK
<1>4. PICK result : /\ Finish(result)
                    /\ result.signal = "infoReady" =>
                         \E d \in Devices : result.info = InfoOf[d]
  <2>1. CASE Enumerate
    <3>1. ASSUME NEW paths
          PROVE  [Result("enumerated", call) EXCEPT !.paths = paths].signal # "infoReady"
      BY DEF Result
    <3> QED
      BY <2>1, <3>1 DEF Enumerate
  <2>2. CASE ProbeInfo
    <3> DEFINE info == InfoOf[plugged[call.path]]
    <3>1. [Result("infoReady", call) EXCEPT !.info = info].info = info
      BY DEF Result
    <3>2. plugged[call.path] \in Devices
      BY <1>1, <2>2 DEF ProbeInfo, Present
    <3>3. Finish([Result("infoReady", call) EXCEPT !.info = info])
      BY <2>2 DEF ProbeInfo
    <3> QED
      BY <3>1, <3>2, <3>3
  <2>3. CASE ServeRequest
    <3>1. ASSUME NEW data
          PROVE  [Result("requestDone", call) EXCEPT !.data = data].signal # "infoReady"
      BY DEF Result
    <3>2. Result("requestDone", call).signal # "infoReady"
      BY DEF Result
    <3> QED
      BY <2>3, <3>1, <3>2 DEF ServeRequest
  <2>4. CASE FailExchange
    <3>1. \A signal \in {"infoFailed", "requestFailed"} :
            Result(signal, call).signal # "infoReady"
      BY DEF Result
    <3> QED
      BY <2>4, <3>1 DEF FailExchange
  <2> QED
    BY <2>1, <2>2, <2>3, <2>4 DEF WorkerStep
<1> DEFINE before == usbOut
<1>5. usbOut' = Append(before, result) /\ before \in Seq(UsbResult)
  BY <1>1, <1>4 DEF Finish, UsbTypeOK
<1>6. \A i \in DOMAIN before :
        before[i].signal = "infoReady" => \E d \in Devices : before[i].info = InfoOf[d]
  BY DEF Informed
<1> HIDE DEF before
<1>7. ASSUME NEW i \in DOMAIN usbOut'
      PROVE  (i \in DOMAIN before /\ usbOut'[i] = before[i]) \/ usbOut'[i] = result
  BY <1>5, <1>7
<1> QED
  BY <1>4, <1>6, <1>7 DEF Informed

\* A delivered result is gone, and the others stay.
LEMMA DeliveredHeard ==
  ASSUME TypeOK, Informed, NEW signal, Delivered(signal)
  PROVE  Informed' /\ Head(usbOut) = usbOut[1] /\ 1 \in DOMAIN usbOut
<1> DEFINE before == usbOut
<1>1. before \in Seq(UsbResult) /\ before # <<>> /\ usbOut' = Tail(before)
  BY DEF Delivered, TypeOK, UsbTypeOK
<1>2. \A i \in DOMAIN before :
        before[i].signal = "infoReady" => \E d \in Devices : before[i].info = InfoOf[d]
  BY DEF Informed
<1>3. Head(before) = before[1] /\ 1 \in DOMAIN before
  BY <1>1
<1> HIDE DEF before
<1>4. ASSUME NEW i \in DOMAIN usbOut'
      PROVE  i + 1 \in DOMAIN before /\ usbOut'[i] = before[i + 1]
  BY <1>1, <1>4
<1>5. Informed'
  BY <1>2, <1>4 DEF Informed
<1> QED
  BY <1>3, <1>5 DEF before

LEMMA HeardStep == TypeOK /\ Informed /\ [Next]_vars => Informed'
<1> SUFFICES ASSUME TypeOK, Informed, [Next]_vars
             PROVE  Informed'
  OBVIOUS
<1>1. ASSUME UNCHANGED usbOut
      PROVE  Informed'
  BY <1>1 DEF Informed
<1>2. CASE UNCHANGED vars \/ Environment
  BY <1>1, <1>2 DEF vars, usbVars, Environment, Discover, OnDiscovered, ServiceGone,
                    OnServiceRemoved, PlugIn, PullOut
<1>3. CASE User \/ Timers
  <2>1. ASSUME NEW id, FlushPending(id)
        PROVE  UNCHANGED usbOut
    BY <2>1 DEF FlushPending, UserUnchanged
  <2>2. ASSUME NEW id, NEW on, SetOn(id, on)
        PROVE  UNCHANGED usbOut
    BY <2>2 DEF SetOn, UserUnchanged
  <2>3. ASSUME NEW id, NEW value, SetBrightness(id, value) \/ SetTemperature(id, value)
        PROVE  UNCHANGED usbOut
    BY <2>3 DEF SetBrightness, SetTemperature, Schedule, UserUnchanged
  <2>4. ASSUME ToggleAll \/ RefreshAll \/ OnRefreshTick
        PROVE  UNCHANGED usbOut
    BY <2>4 DEF ToggleAll, UserUnchanged, RefreshAll, OnRefreshTick
  <2> QED
    BY <1>1, <1>3, <2>1, <2>2, <2>3, <2>4
       DEF User, ClickOn, DragBrightness, DragTemperature, ReleaseSlider, ClickToggleAll,
           RefreshMenu, Timers, RefreshTimer, DebounceTimer, DebounceFires
<1>4. CASE Network
  <2>1. PICK r \in DOMAIN http :
          ServeHttp(r) \/ InfoReply(r) \/ StateReply(r) \/ PutReply(r) \/ HttpFailure(r)
    BY <1>4 DEF Network
  <2>2. UNCHANGED usbOut
    BY <2>1 DEF ServeHttp, InfoReply, OnInfoReceived, StateReply, PutReply, HttpFailure, usbVars
  <2> QED
    BY <1>1, <2>2
<1>5. CASE Usb
  BY <1>5, WorkerHeard, DeliveredHeard
     DEF Usb, UsbEnumerated, UsbInfoReady, UsbInfoFailed, UsbRequestDone, UsbRequestFailed
<1> QED
  BY <1>2, <1>3, <1>4, <1>5 DEF Next

LEMMA InfoCorrect == Spec => []InfoInv
<1>1. Init => InfoInv
  BY DEF Init, ManagerInit, HttpInit, EmptyBag, SetToBag, InfoInv, Asked, Informed
<1>2. TypeOK /\ InfoInv /\ [Next]_vars => InfoInv'
  BY AskedStep, HeardStep DEF InfoInv, Asked
<1> QED
  BY <1>1, <1>2, TypeCorrect, PTL DEF Spec

-------------------------------------------------------------------------------
(* One serial number, one light.                                           *)

\* The inductive invariant, in two parts: m_bySerial leads from a light's serial number
\* back to that light,
Located ==
  \A id \in DOMAIN lights :
    lights[id].serial # None => Lookup(bySerial, lights[id].serial) = id

\* and from a device's serial number to its identity over USB: at all times if mDNS
\* announces it under that identity, and as soon as there is such a light if it does not.
Homed(d) ==
  LET known == Lookup(bySerial, InfoOf[d].serial)
  IN  \/ /\ \A s \in Services : ServiceId(s) # UsbIdentity(d)
         /\ UsbIdentity(d) \in DOMAIN lights => known = UsbIdentity(d)
      \/ /\ \A s \in Services : ServiceId(s) = UsbIdentity(d) <=> Owner[s.address] = d
         /\ known \in {None, UsbIdentity(d)}

AllHomed == \A d \in Devices : InfoOf[d].serial # None => Homed(d)

IdentityInv == Located /\ AllHomed

LEMMA LocatedUnique == Located => SerialsAreUnique
BY DEF Located, SerialsAreUnique

\* A step that keeps lights, serial numbers and their table.
SameSerials ==
  /\ DOMAIN lights' = DOMAIN lights
  /\ \A id \in DOMAIN lights : lights'[id].serial = lights[id].serial
  /\ UNCHANGED bySerial

LEMMA SameIdentity == IdentityInv /\ SameSerials => IdentityInv'
BY DEF IdentityInv, Located, AllHomed, Homed, SameSerials
\* A light that mDNS discovers has no serial number yet, and no identity that a device
\* has over USB, unless it is that device.
LEMMA DiscoverIdentity ==
  ASSUME TypeOK, IdentityInv, NEW s \in Services, Discover(s)
  PROVE  IdentityInv'
<1> DEFINE id == ServiceId(s)
           base == IF id \in DOMAIN lights THEN lights[id] ELSE NewKeyLight
           light == [base EXCEPT !.address = s.address]
<1>1. base \in KeyLightRecord
  BY NewKeyLightType, LightFields DEF TypeOK, ManagerTypeOK
<1>2. light.serial = base.serial
  <2> HIDE DEF base
  <2> QED
    BY <1>1 DEF KeyLightRecord
<1>3. light.serial = IF id \in DOMAIN lights THEN lights[id].serial ELSE None
  BY <1>2 DEF NewKeyLight
<1>4. lights' = Bind(lights, id, light) /\ bySerial' = bySerial
  BY DEF Discover, OnDiscovered
<1> HIDE DEF light
<1>5. Located'
  BY <1>3, <1>4 DEF IdentityInv, Located, Bind
<1>6. ASSUME NEW d \in Devices, Homed(d)
      PROVE  Homed(d)'
  BY <1>4, <1>6 DEF Homed, Bind
<1> QED
  BY <1>5, <1>6 DEF IdentityInv, AllHomed

\* merge: the light that stays takes over the table's entries of the one it absorbs, and
\* its serial number, if it had none.
LEMMA MergeLocated ==
  ASSUME NEW L, IsTable(L, Ids, KeyLightRecord), NEW keepId, NEW dropId, keepId # dropId,
         {keepId, dropId} \subseteq DOMAIN L, Merge(L, keepId, dropId),
         \A id \in DOMAIN L \ {dropId} :
           L[id].serial # None => Lookup(bySerial, L[id].serial) = id,
         Lookup(bySerial, L[dropId].serial) = keepId, dropId # None
  PROVE  Located'
<1> DEFINE keep == Merged(L[keepId], L[dropId])
<1>1. L[keepId] \in KeyLightRecord /\ L[dropId] \in KeyLightRecord
  BY LightFields
<1>2. keep.serial = IF L[keepId].serial = None THEN L[dropId].serial ELSE L[keepId].serial
  BY <1>1 DEF Merged, KeyLightRecord
<1>3. /\ lights' = Unbind([L EXCEPT ![keepId] = keep], dropId)
      /\ bySerial' = Repoint(bySerial, dropId, keepId)
  BY DEF Merge
<1> HIDE DEF keep
<1>4. DOMAIN lights' = DOMAIN L \ {dropId}
      /\ \A id \in DOMAIN lights' : lights'[id] = IF id = keepId THEN keep ELSE L[id]
  BY <1>3 DEF Unbind
<1>5. ASSUME NEW serial, NEW id, Lookup(bySerial, serial) = id, id # dropId
      PROVE  Lookup(bySerial', serial) = id
  BY <1>3, <1>5 DEF Lookup, Repoint
<1>6. ASSUME NEW id \in DOMAIN lights', lights'[id].serial # None
      PROVE  Lookup(bySerial, lights'[id].serial) = id
  <2>1. CASE id # keepId \/ L[id].serial # None
    BY <1>2, <1>4, <1>6, <2>1
  <2>2. CASE id = keepId /\ L[id].serial = None
    BY <1>2, <1>4, <1>6, <2>2
  <2> QED
    BY <2>1, <2>2
<1> QED
  BY <1>4, <1>5, <1>6 DEF Located

\* onInfoReceived: a serial number that leads to another light folds this one into it.
LEMMA InfoIdentity ==
  ASSUME OneIdentity, TypeOK, IndexesPointAtLights, IdentityInv, Asked(DOMAIN http),
         NEW r \in DOMAIN http, InfoReply(r)
  PROVE  IdentityInv'
<1>1. PICK s \in Services : r.id = ServiceId(s) /\ r.address = s.address
  BY DEF InfoReply, Asked
<1> DEFINE d == Owner[s.address]
           id == ServiceId(s)
           info == InfoOf[d]
           serial == info.serial
           other == Lookup(bySerial, serial)
           named == [lights EXCEPT ![id].serial = serial]
<1>2. d \in Devices /\ serial \in Serials \cup {None}
  BY HardwareAssumption DEF DiscoveredService, Info
<1>3. OnInfoReceived(id, info, Untrack(r))
  BY <1>1 DEF InfoReply
<1>4. IsTable(lights, Ids, KeyLightRecord)
  BY DEF TypeOK, ManagerTypeOK
<1>5. id # None
  BY <1>1, RequestFields, KeyLightAssumption DEF TypeOK, HttpTypeOK
<1>6. ASSUME NEW e \in Devices, InfoOf[e].serial = serial, serial # None
      PROVE  e = d
  BY <1>2, <1>6 DEF OneIdentity
<1>7. /\ \A i \in DOMAIN lights :
           lights[i].serial # None => Lookup(bySerial, lights[i].serial) = i
      /\ \A e \in Devices : InfoOf[e].serial # None => Homed(e)
  BY DEF IdentityInv, Located, AllHomed
<1>8. CASE UNCHANGED <<lights, indexVars>>
  BY <1>8 DEF IdentityInv, Located, AllHomed, Homed, indexVars
<1>9. ASSUME id \in DOMAIN lights
      PROVE  /\ DOMAIN named = DOMAIN lights /\ IsTable(named, Ids, KeyLightRecord)
             /\ named[id].serial = serial
             /\ \A i \in DOMAIN lights \ {id} : named[i] = lights[i]
  <2>1. lights[id] \in KeyLightRecord
    BY <1>4, <1>9, LightFields
  <2>2. [lights[id] EXCEPT !.serial = serial] \in KeyLightRecord
        /\ [lights[id] EXCEPT !.serial = serial].serial = serial
    <3> HIDE DEF serial
    <3> QED
      BY <1>2, <2>1, SerialUpdate DEF KeyLightRecord
  <2> QED
    BY <1>4, <1>9, <2>2 DEF IsTable
<1> HIDE DEF named, other, serial, d, id
<1>10. CASE id \in DOMAIN lights /\ serial # None /\ other \in {None, id}
            /\ lights' = named /\ bySerial' = Bind(bySerial, serial, id)
  <2>1. Located'
    <3> SUFFICES ASSUME NEW i \in DOMAIN lights, named[i].serial # None
                 PROVE  Lookup(bySerial', named[i].serial) = i
      BY <1>9, <1>10 DEF Located
    <3>1. i # None
      BY <1>4, LightFields, KeyLightAssumption
    <3>2. \A t : Lookup(bySerial', t) = IF t = serial THEN id ELSE Lookup(bySerial, t)
      BY <1>10 DEF Bind, Lookup
    <3>3. i # id => lights[i].serial # None /\ Lookup(bySerial, lights[i].serial) = i
      BY <1>7, <1>9, <1>10
    <3> QED
      BY <1>9, <1>10, <3>1, <3>2, <3>3 DEF other
  <2>2. ASSUME NEW e \in Devices, InfoOf[e].serial # None, e # d
        PROVE  Homed(e)'
    BY <1>6, <1>7, <1>9, <1>10, <2>2 DEF Homed, Bind, Lookup
  <2>3. Homed(d)'
    <3>1. Homed(d) /\ Lookup(bySerial', InfoOf[d].serial) = id /\ DOMAIN lights' = DOMAIN lights
          /\ UsbIdentity(d) # None
      <4>1. UsbIdentity(d) # None
        BY <1>2, <1>10, KeyLightAssumption, HardwareAssumption
           DEF UsbIdentity, UsbId, NormalizeMac, Info, serial
      <4> QED
        BY <1>2, <1>7, <1>9, <1>10, <4>1 DEF Bind, Lookup, serial
    <3>2. \/ id # UsbIdentity(d) /\ other \in {None, id}
          \/ id = UsbIdentity(d)
      BY <1>10
    <3> QED
      BY <1>10, <3>1, <3>2 DEF Homed, Lookup, other, serial, id, d
  <2> QED
    BY <2>1, <2>2, <2>3 DEF IdentityInv, AllHomed
<1>11. CASE id \in DOMAIN lights /\ serial # None /\ other \notin {None, id}
            /\ Merge(named, other, id)
  <2>1. other \in DOMAIN lights
    BY <1>11 DEF IndexesPointAtLights, Values, Lookup, other
  <2>2. /\ DOMAIN lights' = DOMAIN lights \ {id}
        /\ bySerial' = Repoint(bySerial, id, other)
    BY <1>9, <1>11, <2>1 DEF Merge, Unbind
  <2>3. Located'
    BY <1>5, <1>7, <1>9, <1>11, <2>1, MergeLocated DEF other
  <2>4. ASSUME NEW e \in Devices, InfoOf[e].serial # None
        PROVE  Homed(e)'
    <3> DEFINE known == Lookup(bySerial, InfoOf[e].serial)
    <3>1. Lookup(bySerial', InfoOf[e].serial) = IF known = id THEN other ELSE known
      BY <1>5, <2>2 DEF Lookup, Repoint
    <3>2. Homed(e)
      BY <1>7, <2>4
    <3>3. ASSUME id = UsbIdentity(e),
                 \A s1 \in Services : ServiceId(s1) = UsbIdentity(e) <=> Owner[s1.address] = e
          PROVE  FALSE
      <4>1. d = e
        BY <3>3 DEF d, id
      <4> QED
        BY <1>11, <3>2, <3>3, <4>1 DEF Homed, other, serial, id
    <3> QED
      BY <1>5, <2>2, <3>1, <3>2, <3>3 DEF Homed, id
  <2> QED
    BY <2>3, <2>4 DEF IdentityInv, AllHomed
<1> QED
  BY <1>3, <1>8, <1>10, <1>11 DEF OnInfoReceived, serial, other, named
\* applyUsbInfo: the device is the light its serial number leads to, unless there is one
\* under its own identity; and then the serial number leads nowhere else.
LEMMA UsbInfoIdentity ==
  ASSUME OneIdentity, TypeOK, IndexesPointAtLights, IdentityInv, Informed, UsbInfoReady
  PROVE  IdentityInv'
<1> DEFINE result == Head(usbOut)
           path == result.call.path
<1>1. Delivered("infoReady") /\ OnUsbInfoReady(path, result.info)
  BY DEF UsbInfoReady
<1>2. result = usbOut[1] /\ 1 \in DOMAIN usbOut /\ result.signal = "infoReady"
  BY <1>1, DeliveredHeard DEF Delivered
<1>3. path \in UsbPaths
  <2>1. result \in UsbResult
    BY <1>2 DEF TypeOK, UsbTypeOK
  <2> QED
    BY <1>2, <2>1, ResultFields
<1>4. PICK d \in Devices : result.info = InfoOf[d]
  BY <1>2 DEF Informed
<1> HIDE DEF result, path
<1> DEFINE serial == InfoOf[d].serial
           own == UsbId(path, InfoOf[d])
           known == Lookup(bySerial, serial)
           id == KnownAs(own, serial)
           base == IF {id} \cap DOMAIN lights = {} THEN NewKeyLight ELSE lights[id]
           light == [base EXCEPT !.usbPath = path, !.transport = "Usb",
                       !.serial = IF serial = None THEN @ ELSE serial]
<1>5. serial \in Serials \cup {None}
  BY HardwareAssumption DEF Info
<1>6. \A i \in DOMAIN lights : i # None
  BY LightFields, KeyLightAssumption DEF TypeOK, ManagerTypeOK
<1>7. /\ \A i \in DOMAIN lights :
           lights[i].serial # None => Lookup(bySerial, lights[i].serial) = i
      /\ \A e \in Devices : InfoOf[e].serial # None => Homed(e)
  BY DEF IdentityInv, Located, AllHomed
<1>8. /\ lights' = Bind(lights, id, light)
      /\ bySerial' = IF serial = None THEN bySerial ELSE Bind(bySerial, serial, id)
  BY <1>1, <1>4 DEF OnUsbInfoReady
<1>9. light.serial = IF serial # None THEN serial
                     ELSE IF id \in DOMAIN lights THEN lights[id].serial ELSE None
  <2>1. base \in KeyLightRecord
    BY NewKeyLightType, LightFields DEF TypeOK, ManagerTypeOK
  <2>2. light.serial = IF serial # None THEN serial ELSE base.serial
    <3> HIDE DEF base, serial, id
    <3> QED
      BY <2>1 DEF KeyLightRecord
  <2> HIDE DEF id
  <2> QED
    BY <2>2 DEF NewKeyLight
<1>10. known \in DOMAIN lights \cup {None}
  BY DEF IndexesPointAtLights, Values, Lookup
<1>11. id = IF own \notin DOMAIN lights /\ known \in DOMAIN lights THEN known ELSE own
  BY <1>6 DEF KnownAs, Lookup
<1>12. serial # None => own = UsbIdentity(d)
  BY DEF UsbIdentity, UsbId
<1> HIDE DEF light, id, own, known
<1>13. serial # None => known \in {None, id}
  <2> SUFFICES ASSUME serial # None, own \in DOMAIN lights
               PROVE  known \in {None, own}
    BY <1>10, <1>11
  <2>1. Homed(d)
    BY <1>7
  <2> QED
    BY <1>12, <2>1 DEF Homed, known
<1>14. \A t : Lookup(bySerial', t) = IF serial # None /\ t = serial THEN id
                                     ELSE Lookup(bySerial, t)
  BY <1>8 DEF Bind, Lookup
<1>15. DOMAIN lights' = DOMAIN lights \cup {id}
       /\ \A i \in DOMAIN lights' : lights'[i] = IF i = id THEN light ELSE lights[i]
  BY <1>8 DEF Bind
<1>16. Located'
  <2> SUFFICES ASSUME NEW i \in DOMAIN lights', lights'[i].serial # None
               PROVE  Lookup(bySerial', lights'[i].serial) = i
    BY DEF Located
  <2>1. CASE i = id
    BY <1>7, <1>9, <1>14, <1>15, <2>1
  <2>2. CASE i # id
    BY <1>6, <1>7, <1>13, <1>14, <1>15, <2>2 DEF known
  <2> QED
    BY <2>1, <2>2
<1>17. ASSUME NEW e \in Devices, InfoOf[e].serial # None
       PROVE  Homed(e)'
  <2>1. Homed(e)
    BY <1>7, <1>17
  <2>2. CASE e # d
    <3>1. InfoOf[e].serial # serial /\ own # UsbIdentity(e)
      BY <1>3, <1>17, <2>2 DEF OneIdentity, own
    <3>2. UsbIdentity(e) \in DOMAIN lights' => UsbIdentity(e) \in DOMAIN lights
      BY <1>11, <1>15, <3>1
    <3> QED
      BY <1>14, <2>1, <3>1, <3>2 DEF Homed
  <2>3. CASE e = d
    <3>1. Lookup(bySerial', InfoOf[e].serial) = id /\ own = UsbIdentity(e)
      BY <1>12, <1>14, <1>17, <2>3
    <3> QED
      BY <1>6, <1>11, <1>15, <2>1, <2>3, <3>1 DEF Homed, known
  <2> QED
    BY <2>2, <2>3
<1> QED
  BY <1>16, <1>17 DEF IdentityInv, AllHomed

\* Every other step keeps lights, serial numbers and their table.
LEMMA OtherSerials ==
  ASSUME TypeOK, Next, \A s \in Services : ~Discover(s), ~UsbInfoReady,
         \A r \in DOMAIN http : ~InfoReply(r)
  PROVE  SameSerials
<1>1. SameRoutes /\ UNCHANGED bySerial => SameSerials
  BY DEF SameRoutes, SameSerials
<1>2. UNCHANGED <<lights, bySerial>> => SameSerials
  BY DEF SameSerials
<1>3. CASE Environment
  <2>1. ASSUME NEW name, ServiceGone(name)
        PROVE  SameSerials
    BY <1>1, <2>1, GoneRoutes DEF ServiceGone, OnServiceRemoved
  <2>2. ASSUME NEW e, NEW p, PlugIn(e, p) \/ PullOut(p)
        PROVE  SameSerials
    BY <1>2, <2>2 DEF PlugIn, PullOut, managerVars, indexVars
  <2> QED
    BY <1>3, <2>1, <2>2 DEF Environment
<1>4. CASE UsbEnumerated
  <2>1. ASSUME NEW light \in KeyLightRecord
        PROVE  Unplugged(light).serial = light.serial
    BY DEF Unplugged, KeyLightRecord
  <2>2. \A i \in DOMAIN lights : lights[i] \in KeyLightRecord
    BY LightFields DEF TypeOK, ManagerTypeOK
  <2>3. UNCHANGED bySerial /\ DOMAIN lights' = DOMAIN lights
        /\ \A i \in DOMAIN lights : lights'[i] \in {lights[i], Unplugged(lights[i])}
    BY <1>4 DEF UsbEnumerated, OnUsbEnumerated
  <2> QED
    BY <2>1, <2>2, <2>3 DEF SameSerials
<1>5. CASE ~Environment /\ ~UsbEnumerated
  <2>1. UNCHANGED bySerial
    BY <1>5, CalmSteps DEF indexVars
  <2>2. CASE User \/ Timers
    BY <1>1, <2>1, <2>2, UserRoutes
  <2>3. CASE Network
    <3>1. PICK r \in DOMAIN http :
            ServeHttp(r) \/ StateReply(r) \/ PutReply(r) \/ HttpFailure(r)
      BY <2>3 DEF Network
    <3>2. CASE ServeHttp(r)
      BY <1>2, <2>1, <3>2 DEF ServeHttp, managerVars
    <3> QED
      BY <1>1, <2>1, <3>1, <3>2, AnsweredRoutes, PutRoutes, FailedRoutes
         DEF StateReply, PutReply, HttpFailure
  <2>4. CASE Usb
    <3>1. CASE WorkerStep \/ UsbInfoFailed
      BY <1>2, <2>1, <3>1 DEF WorkerStep, managerVars, UsbInfoFailed, OnUsbInfoFailed
    <3>2. CASE UsbRequestDone
      BY <1>1, <2>1, <3>2, AnsweredRoutes, PutRoutes DEF UsbRequestDone
    <3>3. CASE UsbRequestFailed
      BY <1>1, <2>1, <3>3, FailedRoutes DEF UsbRequestFailed
    <3> QED
      BY <1>5, <2>4, <3>1, <3>2, <3>3 DEF Usb
  <2> QED
    BY <1>5, <2>2, <2>3, <2>4 DEF Next
<1> QED
  BY <1>3, <1>4, <1>5

LEMMA IdentityStep ==
  ASSUME OneIdentity
  PROVE  TypeOK /\ IndexesPointAtLights /\ InfoInv /\ IdentityInv /\ [Next]_vars => IdentityInv'
<1>1. IdentityInv /\ UNCHANGED vars => IdentityInv'
  BY SameIdentity DEF SameSerials, vars, managerVars, indexVars
<1> QED
  BY <1>1, DiscoverIdentity, InfoIdentity, UsbInfoIdentity, OtherSerials, SameIdentity
     DEF InfoInv

\* onInfoReceived, applyUsbInfo, merge: whatever the order in which mDNS, the accessory
\* information over HTTP and that over USB tell of the devices, and whatever is unplugged,
\* announced again or lost in between, one serial number is one light, if devices are
\* announced as OneIdentity says.
THEOREM SerialsCorrect == OneIdentity /\ Spec => []SerialsAreUnique
<1>1. OneIdentity /\ Init => OneIdentity /\ IdentityInv
  BY DEF OneIdentity, Init, ManagerInit, EmptyTable, IdentityInv, Located, AllHomed, Homed, Lookup
<1>2. TypeOK /\ IndexesPointAtLights /\ InfoInv /\ (OneIdentity /\ IdentityInv) /\ [Next]_vars
      => (OneIdentity /\ IdentityInv)'
  <2>1. OneIdentity => OneIdentity'
    BY DEF OneIdentity, UsbIdentity
  <2> QED
    BY <2>1, IdentityStep
<1>3. OneIdentity /\ IdentityInv /\ TypeOK => SerialsAreUnique
  BY LocatedUnique DEF IdentityInv
<1> QED
  BY <1>1, <1>2, <1>3, TypeCorrect, IndexesCorrect, InfoCorrect, PTL DEF Spec
-------------------------------------------------------------------------------
(* A light that is online has a card.                                      *)

\* A light without a card is offline and has no state, and the first answer it gives
\* announces it.
Announced ==
  \A id \in DOMAIN lights :
    \/ id \in DOMAIN cards
    \/ ~lights[id].online /\ lights[id].state = None /\ id \in announcePending

\* And every PUT that can be answered is one for a light with a card.
Carded == Announced /\ inflight \subseteq DOMAIN cards

\* It has not come online, nor learnt its state.
AsQuiet(after, before) ==
  (after.online => before.online) /\ (after.state # None => before.state # None)

\* A PUT that is answered is one of a light in m_inflight.
LEMMA PutInFlight ==
  ASSUME TypeOK, OutboxInv
  PROVE  /\ \A r \in DOMAIN http : r.kind = "Put" => r.id \in inflight
         /\ usbOut # <<>> /\ Head(usbOut).signal = "requestDone"
              /\ Head(usbOut).call.kind = "Put" => Head(usbOut).call.id \in inflight
<1>1. \A id \in Ids : id \in inflight \/ (NoPost(http, id) /\ NoCall(UsbCalls, id))
  BY DEF OutboxInv, Silent
<1>2. \A r \in DOMAIN http : r \in HttpRequest
  BY DEF TypeOK, HttpTypeOK
<1>3. \A r \in DOMAIN http : r.kind = "Put" => r.id \in inflight
  BY <1>1, <1>2, RequestFields DEF NoPost, Posts
<1>4. ASSUME usbOut # <<>>, Head(usbOut).signal = "requestDone",
             Head(usbOut).call.kind = "Put"
      PROVE  Head(usbOut).call.id \in inflight
  <2> DEFINE answered == [i \in DOMAIN usbOut |-> usbOut[i].call]
             queue == usbIn
             call == Head(usbOut).call
  <2>1. UsbTypeOK /\ Head(usbOut) \in UsbResult
    BY <1>4 DEF TypeOK, UsbTypeOK
  <2>2. call \in LightCall /\ call.id \in Ids
    BY <1>4, <2>1 DEF UsbResult, LightCall
  <2>3. answered \in Seq(UsbCall) /\ queue \in Seq(UsbCall)
    BY <2>1, CallParts
  <2>4. answered # <<>> /\ answered[1] = call
    BY <1>4, <2>1 DEF UsbTypeOK
  <2>5. UsbCalls = answered \o queue
    BY DEF UsbCalls
  <2>6. call \in PutOf(call.id)
    BY <1>4, <2>2 DEF PutOf
  <2> HIDE DEF answered, queue, call
  <2>7. 1 \in DOMAIN UsbCalls /\ UsbCalls[1] = call
    BY <2>3, <2>4, <2>5
  <2>8. Occurrences(UsbCalls, PutOf(call.id)) # {}
    BY <2>6, <2>7 DEF Occurrences
  <2>9. call.id \in inflight
    BY <1>1, <2>2, <2>8 DEF NoCall
  <2> QED
    BY <2>9 DEF call
<1> QED
  BY <1>3, <1>4

\* A handler that answers for no light.
LEMMA KeepsAnnounced ==
  ASSUME Announced, NEW added, NEW updated, NEW removed,
         Emit(lights', added, updated, removed) \/ (UNCHANGED uiVars /\ removed = {}),
         DOMAIN lights' \subseteq DOMAIN lights \ removed,
         \A id \in DOMAIN lights' : AsQuiet(lights'[id], lights[id]),
         announcePending \subseteq announcePending'
  PROVE  Announced'
<1>1. DOMAIN cards \ removed \subseteq DOMAIN cards'
  BY DEF Emit, SyncCards, uiVars
<1> QED
  BY <1>1 DEF Announced, AsQuiet

\* A handler that adds a light at most, offline, to be announced later.
LEMMA AddsAnnounced ==
  ASSUME Announced, NEW id, NEW light, lights' = Bind(lights, id, light),
         id \in DOMAIN lights => AsQuiet(light, lights[id]),
         id \notin DOMAIN lights => /\ ~light.online /\ light.state = None
                                   /\ id \in announcePending',
         announcePending \subseteq announcePending', DOMAIN cards \subseteq DOMAIN cards'
  PROVE  Announced'
BY DEF Announced, AsQuiet, Bind

\* onDiscovered.
LEMMA DiscoverAnnounced ==
  ASSUME TypeOK, Announced, NEW service, OnDiscovered(service)
  PROVE  Announced'
<1> DEFINE id == ServiceId(service)
           base == IF id \in DOMAIN lights THEN lights[id] ELSE NewKeyLight
           light == [base EXCEPT !.address = service.address]
<1>1. /\ lights' = Bind(lights, id, light) /\ UNCHANGED uiVars
      /\ announcePending' = IF light.online THEN announcePending
                                            ELSE announcePending \cup {id}
  BY DEF OnDiscovered
<1>2. base \in KeyLightRecord
  BY NewKeyLightType, LightFields DEF TypeOK, ManagerTypeOK
<1>3. light.online = base.online /\ light.state = base.state
  <2> HIDE DEF base
  <2> QED
    BY <1>2 DEF KeyLightRecord
<1>4. /\ id \in DOMAIN lights => base = lights[id]
      /\ id \notin DOMAIN lights => ~base.online /\ base.state = None
  BY DEF NewKeyLight
<1> HIDE DEF light, base, id
<1> QED
  BY <1>1, <1>3, <1>4, AddsAnnounced DEF AsQuiet, uiVars

\* onServiceRemoved.
LEMMA GoneAnnounced ==
  ASSUME TypeOK, Announced, NEW name, OnServiceRemoved(name)
  PROVE  Announced'
<1> DEFINE gone == {id \in DOMAIN lights : id = Lookup(byService, name) /\ lights[id].online}
           none == {}
<1>1. /\ lights' = [id \in DOMAIN lights |-> [lights[id] EXCEPT !.online = @ /\ id \notin gone]]
      /\ Emit(lights', none, gone, none) /\ UNCHANGED announcePending
  BY DEF OnServiceRemoved
<1>2. \A id \in DOMAIN lights : lights[id] \in KeyLightRecord
  BY LightFields DEF TypeOK, ManagerTypeOK
<1> HIDE DEF gone
<1>3. \A id \in DOMAIN lights' : AsQuiet(lights'[id], lights[id])
  BY <1>1, <1>2 DEF KeyLightRecord, AsQuiet
<1>4. DOMAIN lights' \subseteq DOMAIN lights \ none
  BY <1>1
<1> HIDE DEF none
<1> QED
  BY <1>1, <1>3, <1>4, KeepsAnnounced

\* onIoFail, onRequestFailed.
LEMMA FailureAnnounced ==
  ASSUME TypeOK, Announced, NEW id, NEW kind, NEW pending, OnRequestFailed(id, kind, pending)
  PROVE  Announced'
<1> DEFINE none == {}
<1>1. UNCHANGED announcePending
  BY DEF OnRequestFailed
<1>2. CASE UNCHANGED <<lights, uiVars>>
  BY <1>1, <1>2 DEF Announced, uiVars
<1>3. CASE id \in DOMAIN lights /\ OnIoFail(id)
  <2>1. lights' = [lights EXCEPT ![id] = Failed(lights[id])]
    BY <1>3 DEF OnIoFail
  <2>2. PICK updated : Emit(lights', none, updated, none)
    BY <1>3 DEF OnIoFail
  <2>3. AsQuiet(Failed(lights[id]), lights[id])
    <3>1. lights[id] \in KeyLightRecord
      BY <1>3, LightFields DEF TypeOK, ManagerTypeOK
    <3> QED
      BY <3>1 DEF Failed, KeyLightRecord, AsQuiet
  <2>4. DOMAIN lights' \subseteq DOMAIN lights \ none
        /\ \A i \in DOMAIN lights' : AsQuiet(lights'[i], lights[i])
    BY <2>1, <2>3 DEF AsQuiet
  <2> HIDE DEF none
  <2> QED
    BY <1>1, <2>2, <2>4, KeepsAnnounced
<1> QED
  BY <1>2, <1>3 DEF OnRequestFailed, OnIoFail
\* onInfoReceived, merge: the light that is folded into another takes its card along,
\* and the other is as reachable as it was.
LEMMA InfoAnnounced ==
  ASSUME TypeOK, Announced, NEW id, NEW info, NEW pending, OnInfoReceived(id, info, pending)
  PROVE  Announced'
<1> DEFINE named == [lights EXCEPT ![id].serial = info.serial]
           other == Lookup(bySerial, info.serial)
           none == {}
           self == {id}
<1>1. UNCHANGED announcePending
  BY DEF OnInfoReceived
<1>2. \A i \in DOMAIN lights : lights[i] \in KeyLightRecord
  BY LightFields DEF TypeOK, ManagerTypeOK
<1>3. CASE UNCHANGED <<lights, uiVars>>
  BY <1>1, <1>3 DEF Announced, uiVars
<1>4. CASE UNCHANGED lights /\ Emit(lights, none, self, none)
  <2>1. Emit(lights', none, self, none) /\ DOMAIN lights' \subseteq DOMAIN lights \ none
    BY <1>4
  <2> HIDE DEF none, self
  <2> QED
    BY <1>1, <1>4, <2>1, KeepsAnnounced DEF AsQuiet
<1>5. /\ DOMAIN named = DOMAIN lights
      /\ \A i \in DOMAIN named : AsQuiet(named[i], lights[i])
  BY <1>2 DEF KeyLightRecord, AsQuiet
<1>6. CASE lights' = named /\ Emit(named, none, self, none)
  <2>1. Emit(lights', none, self, none) /\ DOMAIN lights' \subseteq DOMAIN lights \ none
    BY <1>5, <1>6
  <2> HIDE DEF none, self, named
  <2> QED
    BY <1>1, <1>5, <1>6, <2>1, KeepsAnnounced
<1>7. CASE Merge(named, other, id)
  <2>1. CASE {other, id} \subseteq DOMAIN named /\ other # id
    <3> DEFINE gone == {id}
               kept == {other}
    <3>1. /\ lights' = Unbind([named EXCEPT ![other] = Merged(@, named[id])], id)
          /\ Emit(lights', none, kept, gone)
      BY <1>7, <2>1 DEF Merge
    <3>2. AsQuiet(Merged(named[other], named[id]), lights[other])
      <4>1. named[other] = lights[other] /\ lights[other] \in KeyLightRecord
        BY <1>2, <1>5, <2>1
      <4> HIDE DEF named
      <4>2. AsQuiet(Merged(lights[other], named[id]), lights[other])
        BY <4>1 DEF Merged, KeyLightRecord, AsQuiet
      <4> QED
        BY <4>1, <4>2
    <3> HIDE DEF named, other
    <3>3. DOMAIN lights' \subseteq DOMAIN lights \ gone
          /\ \A i \in DOMAIN lights' : AsQuiet(lights'[i], lights[i])
      BY <1>5, <3>1, <3>2 DEF Unbind
    <3> HIDE DEF none, kept, gone
    <3> QED
      BY <1>1, <3>1, <3>3, KeepsAnnounced
  <2>2. CASE ~({other, id} \subseteq DOMAIN named /\ other # id)
    <3>1. lights' = named /\ UNCHANGED uiVars
      BY <1>7, <2>2 DEF Merge
    <3>2. none = {} /\ DOMAIN lights' \subseteq DOMAIN lights \ none
      BY <1>5, <3>1
    <3> HIDE DEF none, named
    <3> QED
      BY <1>1, <1>5, <3>1, <3>2, KeepsAnnounced
  <2> QED
    BY <2>1, <2>2
<1> QED
  BY <1>3, <1>4, <1>6, <1>7 DEF OnInfoReceived

\* onStateReceived: a light that comes online and has no card is announced now.
LEMMA StateAnnounced ==
  ASSUME TypeOK, Announced, NEW id, NEW data, NEW pending, OnStateReceived(id, data, pending)
  PROVE  Announced'
<1>1. announcePending' = announcePending \ {id}
  BY DEF OnStateReceived
<1>2. CASE id \notin DOMAIN lights
  BY <1>1, <1>2 DEF OnStateReceived, Announced, uiVars
<1>3. CASE id \in DOMAIN lights
  <2> DEFINE announced == {i \in {id} \cap announcePending : ~lights[i].online}
             none == {}
  <2>1. /\ lights' = [lights EXCEPT ![id].failCount = 0, ![id].online = TRUE,
                                    ![id].state = IF data = None THEN @ ELSE data]
        /\ Emit(lights', announced, {id} \ announced, none)
    BY <1>3 DEF OnStateReceived
  <2>2. /\ DOMAIN lights' = DOMAIN lights
        /\ \A i \in DOMAIN lights : i # id => lights'[i] = lights[i]
    BY <2>1
  <2>3. DOMAIN cards' = DOMAIN cards \cup announced
    BY <2>1 DEF Emit, SyncCards
  <2>4. id \in DOMAIN cards'
    BY <1>3, <2>3 DEF Announced
  <2>5. \A i \in DOMAIN lights : i # id =>
          \/ i \in DOMAIN cards
          \/ ~lights'[i].online /\ lights'[i].state = None /\ i \in announcePending'
    BY <1>1, <2>2 DEF Announced
  <2> QED
    BY <2>2, <2>3, <2>4, <2>5 DEF Announced
<1> QED
  BY <1>2, <1>3

\* onUsbRemoved never brings a light online.
LEMMA EnumeratedAnnounced ==
  ASSUME TypeOK, Announced, NEW paths, OnUsbEnumerated(paths)
  PROVE  Announced'
<1> DEFINE orphaned == {id \in DOMAIN lights : \E p \in DOMAIN byUsbPath \ paths : byUsbPath[p] = id}
           none == {}
<1>1. /\ lights' = [id \in DOMAIN lights |->
                      IF id \in orphaned THEN Unplugged(lights[id]) ELSE lights[id]]
      /\ UNCHANGED announcePending
  BY DEF OnUsbEnumerated
<1>2. PICK updated : Emit(lights', none, updated, none)
  BY DEF OnUsbEnumerated
<1>3. ASSUME NEW light \in KeyLightRecord
      PROVE  AsQuiet(Unplugged(light), light)
  BY DEF Unplugged, KeyLightRecord, AsQuiet
<1>4. \A i \in DOMAIN lights : lights[i] \in KeyLightRecord
  BY LightFields DEF TypeOK, ManagerTypeOK
<1> HIDE DEF orphaned
<1>5. \A i \in DOMAIN lights' : AsQuiet(lights'[i], lights[i])
  BY <1>1, <1>3, <1>4 DEF AsQuiet
<1>6. DOMAIN lights' \subseteq DOMAIN lights \ none
  BY <1>1
<1> HIDE DEF none
<1> QED
  BY <1>1, <1>2, <1>5, <1>6, KeepsAnnounced

\* applyUsbInfo.
LEMMA UsbInfoAnnounced ==
  ASSUME TypeOK, Announced, NEW path, NEW info, OnUsbInfoReady(path, info)
  PROVE  Announced'
<1> DEFINE id == KnownAs(UsbId(path, info), info.serial)
           existing == {id} \cap DOMAIN lights
           base == IF existing = {} THEN NewKeyLight ELSE lights[id]
           light == [base EXCEPT !.usbPath = path, !.transport = "Usb",
                                 !.serial = IF info.serial = None THEN @ ELSE info.serial]
           none == {}
<1>1. /\ lights' = Bind(lights, id, light)
      /\ announcePending' = announcePending \cup ({id} \ existing)
      /\ Emit(lights', none, existing, none)
  BY DEF OnUsbInfoReady
<1>2. base \in KeyLightRecord
  BY NewKeyLightType, LightFields DEF TypeOK, ManagerTypeOK
<1>3. light.online = base.online /\ light.state = base.state
  <2> HIDE DEF base
  <2> QED
    BY <1>2 DEF KeyLightRecord
<1>4. /\ id \in DOMAIN lights => base = lights[id]
      /\ id \notin DOMAIN lights => /\ ~base.online /\ base.state = None
                                  /\ id \in announcePending'
  BY <1>1 DEF NewKeyLight
<1>5. DOMAIN cards \subseteq DOMAIN cards' /\ announcePending \subseteq announcePending'
  BY <1>1 DEF Emit, SyncCards
<1> HIDE DEF light, base, id
<1> QED
  BY <1>1, <1>3, <1>4, <1>5, AddsAnnounced DEF AsQuiet

\* setOn, setBrightness, setTemperature, toggleAll: they change lights that have a state.
LEMMA UserAnnounced ==
  ASSUME Announced, User \/ Timers
  PROVE  Announced'
<1>1. ASSUME UNCHANGED <<lights, uiVars, announcePending>>
      PROVE  Announced'
  BY <1>1 DEF Announced, uiVars
<1>2. ASSUME UNCHANGED <<uiVars, announcePending>>, DOMAIN lights' = DOMAIN lights,
             \A id \in DOMAIN lights : lights'[id] = lights[id] \/ lights[id].state # None
      PROVE  Announced'
  BY <1>2 DEF Announced, uiVars
<1>3. ASSUME NEW id \in Ids,
             \/ \E on \in BOOLEAN : ClickOn(id, on)
             \/ \E value \in Brightnesses : DragBrightness(id, value)
             \/ \E mireds \in Temperatures : DragTemperature(id, mireds)
      PROVE  Announced'
  <2>1. UNCHANGED <<uiVars, announcePending>>
    BY <1>3 DEF ClickOn, SetOn, DragBrightness, SetBrightness, DragTemperature, SetTemperature,
                Schedule, UserUnchanged
  <2>2. DOMAIN lights' = DOMAIN lights
        /\ \A i \in DOMAIN lights : lights'[i] = lights[i] \/ lights[i].state # None
    BY <1>3 DEF ClickOn, SetOn, DragBrightness, SetBrightness, DragTemperature, SetTemperature,
                HasState
  <2> QED
    BY <1>2, <2>1, <2>2
<1>4. CASE ClickToggleAll
  <2>1. UNCHANGED <<uiVars, announcePending>>
    BY <1>4 DEF ClickToggleAll, ToggleAll, UserUnchanged
  <2>2. DOMAIN lights' = DOMAIN lights
        /\ \A i \in DOMAIN lights : lights'[i] = lights[i] \/ lights[i].state # None
    BY <1>4 DEF ClickToggleAll, ToggleAll, Enabled
  <2> QED
    BY <1>2, <2>1, <2>2
<1>5. CASE RefreshMenu \/ RefreshTimer
  BY <1>1, <1>5 DEF RefreshMenu, RefreshAll, RefreshTimer, OnRefreshTick, managerVars
<1>6. ASSUME NEW id \in Ids, ReleaseSlider(id) \/ DebounceTimer(id)
      PROVE  Announced'
  BY <1>1, <1>6 DEF ReleaseSlider, DebounceTimer, DebounceFires, FlushPending, UserUnchanged
<1> QED
  BY <1>3, <1>4, <1>5, <1>6 DEF User, Timers

\* onPutSucceeded: the light has a card already.
LEMMA PutAnnounced ==
  ASSUME Announced, NEW id \in DOMAIN cards, NEW pending, OnPutSucceeded(id, pending)
  PROVE  Announced'
<1>1. DOMAIN lights' = DOMAIN lights /\ \A i \in DOMAIN lights : i # id => lights'[i] = lights[i]
  BY DEF OnPutSucceeded
<1>2. UNCHANGED announcePending /\ DOMAIN cards' = DOMAIN cards
  BY DEF OnPutSucceeded, Emit, SyncCards
<1> QED
  BY <1>1, <1>2 DEF Announced

\* No answer brings a light online that has not been announced.
LEMMA AnnouncedStep ==
  TypeOK /\ OutboxInv /\ Carded /\ [Next]_vars => Announced'
<1> SUFFICES ASSUME TypeOK, OutboxInv, Carded, [Next]_vars
             PROVE  Announced'
  OBVIOUS
<1>1. Announced /\ inflight \subseteq DOMAIN cards
  BY DEF Carded
<1>2. ASSUME UNCHANGED <<lights, uiVars, announcePending>>
      PROVE  Announced'
  BY <1>1, <1>2 DEF Announced, uiVars
<1>3. CASE UNCHANGED vars
  BY <1>2, <1>3 DEF vars, managerVars
<1>4. CASE Environment
  <2>1. ASSUME NEW d, NEW p, PlugIn(d, p) \/ PullOut(p)
        PROVE  Announced'
    BY <1>2, <2>1 DEF PlugIn, PullOut, managerVars
  <2> QED
    BY <1>1, <1>4, <2>1, DiscoverAnnounced, GoneAnnounced DEF Environment, Discover, ServiceGone
<1>5. CASE User \/ Timers
  BY <1>1, <1>5, UserAnnounced
<1>6. CASE Network
  <2>1. PICK r \in DOMAIN http :
          ServeHttp(r) \/ InfoReply(r) \/ StateReply(r) \/ PutReply(r) \/ HttpFailure(r)
    BY <1>6 DEF Network
  <2>2. CASE ServeHttp(r)
    BY <1>2, <2>2 DEF ServeHttp, managerVars
  <2>3. CASE PutReply(r)
    BY <1>1, <2>3, PutInFlight, PutAnnounced DEF PutReply
  <2> QED
    BY <1>1, <2>1, <2>2, <2>3, InfoAnnounced, StateAnnounced, FailureAnnounced
       DEF InfoReply, StateReply, HttpFailure
<1>7. CASE Usb
  <2>1. CASE WorkerStep
    BY <1>2, <2>1 DEF WorkerStep, managerVars
  <2>2. CASE UsbInfoFailed
    BY <1>2, <2>2 DEF UsbInfoFailed, OnUsbInfoFailed
  <2>3. CASE UsbEnumerated
    BY <1>1, <2>3, EnumeratedAnnounced DEF UsbEnumerated
  <2>4. CASE UsbInfoReady
    BY <1>1, <2>4, UsbInfoAnnounced DEF UsbInfoReady
  <2>5. CASE UsbRequestDone
    BY <1>1, <2>5, PutInFlight, PutAnnounced, StateAnnounced DEF UsbRequestDone, Delivered
  <2>6. CASE UsbRequestFailed
    BY <1>1, <2>6, FailureAnnounced DEF UsbRequestFailed
  <2> QED
    BY <1>7, <2>1, <2>2, <2>3, <2>4, <2>5, <2>6 DEF Usb
<1> QED
  BY <1>3, <1>4, <1>5, <1>6, <1>7 DEF Next

\* A PUT is sent for a light that has a state only.
SendsStated == \A id \in inflight' \ inflight : id \in DOMAIN lights' /\ lights'[id].state # None

LEMMA FlushStated ==
  ASSUME NEW S, NEW running, running \subseteq inflight, NEW marked, NEW pending,
         Flush(lights', S, running, marked, pending)
  PROVE  SendsStated
BY DEF Flush, Flushable, SendsStated

LEMMA StatedStep == [Next]_vars => SendsStated
<1> SUFFICES ASSUME [Next]_vars
             PROVE  SendsStated
  OBVIOUS
<1>1. ASSUME inflight' \subseteq inflight
      PROVE  SendsStated
  BY <1>1 DEF SendsStated
<1>2. ASSUME UNCHANGED putVars
      PROVE  SendsStated
  BY <1>1, <1>2 DEF putVars
<1>3. ASSUME NEW id, NEW pending, OnPutSucceeded(id, pending)
      PROVE  SendsStated
  <2>1. inflight \ {id} \subseteq inflight
    OBVIOUS
  <2> QED
    BY <1>3, <2>1, FlushStated DEF OnPutSucceeded
<1>4. ASSUME NEW id, NEW kind, NEW pending, OnRequestFailed(id, kind, pending)
      PROVE  SendsStated
  BY <1>1, <1>2, <1>4 DEF OnRequestFailed, GiveUp
<1>5. ASSUME NEW id, NEW data, NEW pending, OnStateReceived(id, data, pending)
      PROVE  SendsStated
  BY <1>2, <1>5 DEF OnStateReceived
<1>6. CASE UNCHANGED vars
  BY <1>2, <1>6 DEF vars, managerVars
<1>7. CASE Environment
  BY <1>2, <1>7 DEF Environment, Discover, OnDiscovered, ServiceGone, OnServiceRemoved,
                    PlugIn, PullOut, managerVars
<1>8. CASE User \/ Timers
  <2>1. ASSUME NEW id, NEW on, SetOn(id, on)
        PROVE  SendsStated
    BY <2>1, FlushStated DEF SetOn
  <2>2. ASSUME NEW id, NEW value, SetBrightness(id, value) \/ SetTemperature(id, value)
        PROVE  SendsStated
    BY <1>2, <2>2 DEF SetBrightness, SetTemperature, Schedule
  <2>3. ASSUME ToggleAll
        PROVE  SendsStated
    BY <2>3, FlushStated DEF ToggleAll
  <2>4. ASSUME NEW id, FlushPending(id)
        PROVE  SendsStated
    <3> DEFINE one == {id}
    <3>1. Flush(lights', one, inflight, dirty, http)
      BY <2>4 DEF FlushPending
    <3> HIDE DEF one
    <3> QED
      BY <3>1, FlushStated
  <2>5. ASSUME RefreshAll \/ OnRefreshTick
        PROVE  SendsStated
    BY <1>2, <2>5 DEF RefreshAll, OnRefreshTick, managerVars
  <2> QED
    BY <1>8, <2>1, <2>2, <2>3, <2>4, <2>5
       DEF User, Timers, ClickOn, DragBrightness, DragTemperature, ReleaseSlider, ClickToggleAll,
           RefreshMenu, RefreshTimer, DebounceTimer, DebounceFires
<1>9. CASE Network
  <2>1. PICK r \in DOMAIN http :
          ServeHttp(r) \/ InfoReply(r) \/ StateReply(r) \/ PutReply(r) \/ HttpFailure(r)
    BY <1>9 DEF Network
  <2>2. CASE ServeHttp(r)
    BY <1>2, <2>2 DEF ServeHttp, managerVars
  <2>3. CASE InfoReply(r)
    BY <1>2, <2>3 DEF InfoReply, OnInfoReceived
  <2> QED
    BY <1>3, <1>4, <1>5, <2>1, <2>2, <2>3 DEF StateReply, PutReply, HttpFailure
<1>10. CASE Usb
  <2>1. CASE WorkerStep
    BY <1>2, <2>1 DEF WorkerStep, managerVars
  <2>2. CASE UsbEnumerated \/ UsbInfoReady \/ UsbInfoFailed
    BY <1>2, <2>2 DEF UsbEnumerated, OnUsbEnumerated, UsbInfoReady, OnUsbInfoReady,
                      UsbInfoFailed, OnUsbInfoFailed
  <2>3. CASE UsbRequestDone \/ UsbRequestFailed
    BY <1>3, <1>4, <1>5, <2>3 DEF UsbRequestDone, UsbRequestFailed
  <2> QED
    BY <1>10, <2>1, <2>2, <2>3 DEF Usb
<1> QED
  BY <1>6, <1>7, <1>8, <1>9, <1>10 DEF Next

\* A card goes only with its light.
CardsStay == DOMAIN cards \ DOMAIN cards' \subseteq DOMAIN lights \ DOMAIN lights'

LEMMA EmitStays ==
  ASSUME NEW known, NEW added, NEW updated, Emit(known, added, updated, {})
  PROVE  CardsStay
BY DEF Emit, SyncCards, CardsStay

LEMMA InfoStays ==
  ASSUME NEW id, NEW info, NEW pending, OnInfoReceived(id, info, pending)
  PROVE  CardsStay
<1> DEFINE named == [lights EXCEPT ![id].serial = info.serial]
           other == Lookup(bySerial, info.serial)
<1>1. CASE UNCHANGED uiVars
  BY <1>1 DEF CardsStay, uiVars
<1>2. CASE Emit(lights, {}, {id}, {}) \/ Emit(named, {}, {id}, {})
  BY <1>2, EmitStays
<1>3. CASE Merge(named, other, id)
  <2>1. CASE {other, id} \subseteq DOMAIN named /\ other # id
    <3>1. /\ lights' = Unbind([named EXCEPT ![other] = Merged(@, named[id])], id)
          /\ Emit(lights', {}, {other}, {id})
      BY <1>3, <2>1 DEF Merge
    <3>2. DOMAIN lights' = DOMAIN lights \ {id} /\ id \in DOMAIN lights
      BY <2>1, <3>1 DEF Unbind
    <3>3. DOMAIN cards' = DOMAIN cards \ {id}
      BY <3>1 DEF Emit, SyncCards
    <3> QED
      BY <3>2, <3>3 DEF CardsStay
  <2>2. CASE ~({other, id} \subseteq DOMAIN named /\ other # id)
    BY <1>1, <1>3, <2>2 DEF Merge
  <2> QED
    BY <2>1, <2>2
<1> QED
  BY <1>1, <1>2, <1>3 DEF OnInfoReceived

LEMMA StayStep == [Next]_vars => CardsStay
<1> SUFFICES ASSUME [Next]_vars
             PROVE  CardsStay
  OBVIOUS
<1>1. ASSUME UNCHANGED uiVars
      PROVE  CardsStay
  BY <1>1 DEF CardsStay, uiVars
<1>2. ASSUME NEW id, NEW pending, OnPutSucceeded(id, pending)
      PROVE  CardsStay
  BY <1>2, EmitStays DEF OnPutSucceeded
<1>3. ASSUME NEW id, NEW kind, NEW pending, OnRequestFailed(id, kind, pending)
      PROVE  CardsStay
  BY <1>1, <1>3, EmitStays DEF OnRequestFailed, OnIoFail
<1>4. ASSUME NEW id, NEW data, NEW pending, OnStateReceived(id, data, pending)
      PROVE  CardsStay
  BY <1>1, <1>4, EmitStays DEF OnStateReceived
<1>5. CASE UNCHANGED vars
  BY <1>1, <1>5 DEF vars, managerVars
<1>6. CASE Environment
  <2>1. ASSUME NEW name, OnServiceRemoved(name)
        PROVE  CardsStay
    BY <2>1, EmitStays DEF OnServiceRemoved
  <2> QED
    BY <1>1, <1>6, <2>1 DEF Environment, Discover, OnDiscovered, ServiceGone, PlugIn, PullOut,
                            managerVars
<1>7. CASE User \/ Timers
  BY <1>1, <1>7
     DEF User, Timers, ClickOn, SetOn, DragBrightness, SetBrightness, DragTemperature,
         SetTemperature, Schedule, ReleaseSlider, ClickToggleAll, ToggleAll, RefreshMenu,
         RefreshAll, RefreshTimer, OnRefreshTick, DebounceTimer, DebounceFires, FlushPending,
         UserUnchanged, managerVars
<1>8. CASE Network
  <2>1. PICK r \in DOMAIN http :
          ServeHttp(r) \/ InfoReply(r) \/ StateReply(r) \/ PutReply(r) \/ HttpFailure(r)
    BY <1>8 DEF Network
  <2>2. CASE ServeHttp(r)
    BY <1>1, <2>2 DEF ServeHttp, managerVars
  <2> QED
    BY <1>2, <1>3, <1>4, <2>1, <2>2, InfoStays DEF InfoReply, StateReply, PutReply, HttpFailure
<1>9. CASE Usb
  <2>1. CASE WorkerStep
    BY <1>1, <2>1 DEF WorkerStep, managerVars
  <2>2. CASE UsbEnumerated \/ UsbInfoReady
    BY <2>2, EmitStays DEF UsbEnumerated, OnUsbEnumerated, UsbInfoReady, OnUsbInfoReady
  <2>3. CASE UsbInfoFailed
    BY <1>1, <2>3 DEF UsbInfoFailed, OnUsbInfoFailed
  <2>4. CASE UsbRequestDone \/ UsbRequestFailed
    BY <1>2, <1>3, <1>4, <2>4 DEF UsbRequestDone, UsbRequestFailed
  <2> QED
    BY <1>9, <2>1, <2>2, <2>3, <2>4 DEF Usb
<1> QED
  BY <1>5, <1>6, <1>7, <1>8, <1>9 DEF Next

\* A light that is folded away with nothing in flight takes along its card and nothing else.
LEMMA CardedStep ==
  TypeOK /\ OutboxInv /\ Carded /\ [Next]_vars /\ [FoldedAtRest]_vars => Carded'
<1> SUFFICES ASSUME TypeOK, OutboxInv, Carded, [Next]_vars, [FoldedAtRest]_vars
             PROVE  Carded'
  OBVIOUS
<1>1. Announced'
  BY AnnouncedStep
<1>2. SendsStated /\ CardsStay
  BY StatedStep, StayStep
<1>3. FoldedAtRest
  BY DEF FoldedAtRest, vars, managerVars
<1>4. ASSUME NEW id \in inflight
      PROVE  id \in DOMAIN cards'
  BY <1>2, <1>3 DEF Carded, CardsStay, FoldedAtRest
<1>5. ASSUME NEW id \in inflight' \ inflight
      PROVE  id \in DOMAIN cards'
  BY <1>1, <1>2 DEF SendsStated, Announced
<1> QED
  BY <1>1, <1>4, <1>5 DEF Carded

LEMMA InitCarded == Init => Carded
BY DEF Init, ManagerInit, EmptyTable, Carded, Announced

\* onStateReceived, onPutSucceeded, merge: a light that is online has a card, whoever acts,
\* as long as no light is folded into another with a PUT in flight.  So this is the only
\* way to a light that can be used and is not shown.
THEOREM CardedCorrect == Spec /\ [][FoldedAtRest]_vars => []OnlineLightHasCard
<1>1. Carded => OnlineLightHasCard
  BY DEF Carded, Announced, OnlineLightHasCard
<1> QED
  BY <1>1, InitCarded, CardedStep, TypeCorrect, OutboxCorrect, PTL DEF Spec

-------------------------------------------------------------------------------
(* While nobody touches the controls.                                      *)

\* No change is on its way, so that a light may be folded away at any time.
Calm == inflight = {} /\ dirty = {}

\* Without the user, no change waits and nothing is sent.
LEMMA CalmStep == Calm /\ [Unattended]_vars => Calm'
<1> SUFFICES ASSUME Calm, [Unattended]_vars
             PROVE  Calm'
  OBVIOUS
<1>1. ASSUME UNCHANGED putVars
      PROVE  Calm'
  BY <1>1 DEF Calm, putVars
<1>2. ASSUME NEW id, NEW pending, OnPutSucceeded(id, pending)
      PROVE  Calm'
  <2> DEFINE waiting == {id} \cap dirty
  <2>1. /\ inflight' = (inflight \ {id}) \cup (Flushable(lights', waiting) \ (inflight \ {id}))
        /\ dirty' = (dirty \ {id})
                      \cup (Flushable(lights', waiting) \cap (inflight \ {id}))
    BY <1>2 DEF OnPutSucceeded, Flush
  <2>2. Flushable(lights', waiting) = {}
    BY DEF Flushable, Calm
  <2> QED
    BY <2>1, <2>2 DEF Calm
<1>3. ASSUME NEW id, NEW kind, NEW pending, OnRequestFailed(id, kind, pending)
      PROVE  Calm'
  BY <1>1, <1>3 DEF OnRequestFailed, GiveUp, Calm
<1>4. CASE UNCHANGED vars
  BY <1>1, <1>4 DEF vars, managerVars
<1>5. CASE Environment
  BY <1>1, <1>5 DEF Environment, Discover, OnDiscovered, ServiceGone, OnServiceRemoved,
                    PlugIn, PullOut, managerVars
<1>6. CASE RefreshTimer
  BY <1>1, <1>6 DEF RefreshTimer, OnRefreshTick
<1>7. CASE Network
  <2>1. ASSUME NEW id, NEW info, NEW pending, OnInfoReceived(id, info, pending)
        PROVE  Calm'
    BY <1>1, <2>1 DEF OnInfoReceived
  <2>2. ASSUME NEW id, NEW data, NEW pending, OnStateReceived(id, data, pending)
        PROVE  Calm'
    BY <1>1, <2>2 DEF OnStateReceived
  <2> QED
    BY <1>1, <1>2, <1>3, <1>7, <2>1, <2>2
       DEF Network, ServeHttp, InfoReply, StateReply, PutReply, HttpFailure, managerVars
<1>8. CASE Usb
  <2>1. ASSUME NEW id, NEW data, NEW pending, OnStateReceived(id, data, pending)
        PROVE  Calm'
    BY <1>1, <2>1 DEF OnStateReceived
  <2>2. CASE WorkerStep \/ UsbEnumerated \/ UsbInfoReady \/ UsbInfoFailed
    BY <1>1, <2>2 DEF WorkerStep, UsbEnumerated, OnUsbEnumerated, UsbInfoReady,
                      OnUsbInfoReady, UsbInfoFailed, OnUsbInfoFailed, managerVars
  <2>3. CASE UsbRequestDone \/ UsbRequestFailed
    BY <1>2, <1>3, <2>1, <2>3 DEF UsbRequestDone, UsbRequestFailed
  <2> QED
    BY <1>8, <2>2, <2>3 DEF Usb
<1> QED
  BY <1>4, <1>5, <1>6, <1>7, <1>8 DEF Unattended

\* The application without the user is the application.
LEMMA UnattendedIsSpec == UnattendedSpec => Spec
<1>1. [Unattended]_vars => [Next]_vars
  BY DEF Unattended, Next, Timers
<1> QED
  BY <1>1, PTL DEF UnattendedSpec, Spec

\* onStateReceived, and every handler that takes a light offline or folds it into another:
\* while nobody touches the controls, a light that is online has a card.  A user breaks
\* it: onPutSucceeded brings a light online without announcing it.
THEOREM AnnouncedCorrect == UnattendedSpec => []OnlineLightHasCard
<1>1. Init => Calm
  BY DEF Init, ManagerInit, Calm
<1>2. Calm => FoldedAtRest
  BY DEF Calm, FoldedAtRest
<1> QED
  BY <1>1, <1>2, CalmStep, UnattendedIsSpec, CardedCorrect, PTL DEF UnattendedSpec

===============================================================================
