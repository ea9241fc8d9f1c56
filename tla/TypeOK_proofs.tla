---------------------------- MODULE TypeOK_proofs ----------------------------
(***************************************************************************)
(* Type correctness of the application, for any sets of lights, paths,     *)
(* services and devices: one lemma per handler, then one per group of      *)
(* steps.  That the bags and queues stay well-typed needs that a loop over *)
(* the cache queues finitely many calls.                                   *)
(***************************************************************************)
EXTENDS KeyLightSystem, FiniteSetTheorems, TLAPS

-------------------------------------------------------------------------------
(* Helpers.                                                                *)

\* A bag of pending requests stays one when requests are added to it.
LEMMA TrackType ==
  ASSUME NEW pending, IsABag(pending), DOMAIN pending \subseteq HttpRequest,
         NEW requests \in SUBSET HttpRequest
  PROVE  /\ IsABag(Track(pending, requests))
         /\ DOMAIN Track(pending, requests) \subseteq HttpRequest
BY DEF IsABag, Track, (+), SetToBag

\* A bag of pending requests stays one when a reply leaves it.
LEMMA UntrackType ==
  ASSUME HttpTypeOK, NEW request
  PROVE  IsABag(Untrack(request)) /\ DOMAIN Untrack(request) \subseteq HttpRequest
BY DEF HttpTypeOK, IsABag, Untrack, (-), SetToBag

\* The body of a PUT is itself a state.
LEMMA ClampType ==
  ASSUME NEW state \in LightState
  PROVE  BuildLightsBody(state) \in LightState
BY KeyLightAssumption DEF BuildLightsBody, LightState

\* insert keeps the type of a table.
LEMMA BindType ==
  ASSUME NEW S, NEW T, NEW table, IsTable(table, S, T), NEW key \in S, NEW value \in T
  PROVE  IsTable(Bind(table, key, value), S, T)
BY DEF IsTable, Bind

\* remove keeps the type of a table.
LEMMA UnbindType ==
  ASSUME NEW S, NEW T, NEW table, IsTable(table, S, T), NEW key
  PROVE  IsTable(Unbind(table, key), S, T)
BY DEF IsTable, Unbind

\* What merge does to an index keeps its type.
LEMMA RepointType ==
  ASSUME NEW S, NEW T, NEW table, IsTable(table, S, T), NEW from, NEW to \in T
  PROVE  IsTable(Repoint(table, from, to), S, T)
BY DEF IsTable, Repoint

\* The three signals keep cards and icon well-typed if only cached lights are added.
LEMMA EmitType ==
  ASSUME UiTypeOK, NEW known, NEW added, NEW updated, NEW removed,
         IsTable(known, Ids, KeyLightRecord), added \subseteq DOMAIN known,
         Emit(known, added, updated, removed)
  PROVE  UiTypeOK'
<1>1. \A id \in DOMAIN known : Enabled(known[id]) \in BOOLEAN
  BY DEF Enabled, IsTable, KeyLightRecord
<1>2. CardsTypeOK'
  BY <1>1 DEF UiTypeOK, CardsTypeOK, IsTable, Emit, SyncCards
<1>3. Counted(known) \in [online : SUBSET Ids, on : SUBSET Ids]
  BY DEF Counted, IsTable
<1> QED
  BY <1>2, <1>3 DEF UiTypeOK, Emit, UpdateIcon

\* Any order of a finite set of calls is a sequence of calls.
LEMMA OrderType ==
  ASSUME NEW calls \in SUBSET UsbCall, IsFiniteSet(calls),
         NEW order \in SetToSeqs(calls)
  PROVE  order \in Seq(UsbCall)
<1>1. Cardinality(calls) \in Nat
  BY FS_CardinalityType
<1> QED
  BY <1>1 DEF SetToSeqs

\* Queueing finitely many calls keeps the worker's queue well-typed.
LEMMA QueueType ==
  ASSUME UsbTypeOK, NEW calls \in SUBSET UsbCall, IsFiniteSet(calls), Queue(calls)
  PROVE  usbIn' \in Seq(UsbCall)
<1>1. PICK order \in SetToSeqs(calls) : usbIn' = usbIn \o order
  BY DEF Queue
<1>2. order \in Seq(UsbCall)
  BY OrderType
<1> QED
  BY <1>1, <1>2 DEF UsbTypeOK

\* The image of a finite set under a function is finite.
LEMMA ImageFinite ==
  ASSUME NEW S, IsFiniteSet(S), NEW f, DOMAIN f = S
  PROVE  IsFiniteSet({f[x] : x \in S})
<1> DEFINE T == {f[x] : x \in S}
           g == [x \in S |-> f[x]]
<1>1. g \in Surjection(S, T)
  BY DEF Surjection
<1> HIDE DEF T, g
<1>2. IsFiniteSet(T)
  BY <1>1, FS_Surjection
<1> QED
  BY <1>2 DEF T

-------------------------------------------------------------------------------
(* Requests.                                                               *)

\* What a cached light is made of.
LEMMA LightFields ==
  ASSUME NEW L, IsTable(L, Ids, KeyLightRecord), NEW id \in DOMAIN L
  PROVE  /\ id \in Ids /\ L[id] \in KeyLightRecord
         /\ L[id].address \in Addresses \cup {None}
         /\ L[id].usbPath \in UsbPaths \cup {None}
         /\ L[id].state \in LightState \cup {None}
BY DEF IsTable, KeyLightRecord

\* Updates of a light's fields.
LEMMA SerialUpdate ==
  ASSUME NEW light \in KeyLightRecord, NEW serial \in Serials \cup {None}
  PROVE  [light EXCEPT !.serial = serial] \in KeyLightRecord
BY DEF KeyLightRecord

\* A user's change sets the state.
LEMMA StateUpdate ==
  ASSUME NEW light \in KeyLightRecord, NEW state \in LightState \cup {None}
  PROVE  [light EXCEPT !.state = state] \in KeyLightRecord
BY DEF KeyLightRecord

\* onIoFail and onPutSucceeded set the failures.
LEMMA CountUpdate ==
  ASSUME NEW light \in KeyLightRecord, NEW count \in 0 .. kFailLimit, NEW online \in BOOLEAN
  PROVE  [light EXCEPT !.failCount = count, !.online = online] \in KeyLightRecord
BY DEF KeyLightRecord

\* onIoFail's update of a light.
LEMMA FailedUpdate ==
  ASSUME NEW light \in KeyLightRecord
  PROVE  Failed(light) \in KeyLightRecord
<1> DEFINE next(n) == [light EXCEPT !.failCount = n,
                                 !.online = light.online /\ n < kFailLimit]
<1>1. ASSUME NEW n \in 0 .. kFailLimit
      PROVE  next(n) \in KeyLightRecord
  BY DEF KeyLightRecord
<1>2. light.failCount \in 0 .. kFailLimit
  BY DEF KeyLightRecord
<1>3. (IF light.failCount < kFailLimit THEN light.failCount + 1 ELSE kFailLimit)
        \in 0 .. kFailLimit
  BY <1>2 DEF kFailLimit
<1>4. Failed(light)
        = next(IF light.failCount < kFailLimit THEN light.failCount + 1 ELSE kFailLimit)
  BY DEF Failed
<1> HIDE DEF next
<1> QED
  BY <1>1, <1>3, <1>4

\* applyState sets failures and state.
LEMMA AnswerUpdate ==
  ASSUME NEW light \in KeyLightRecord, NEW count \in 0 .. kFailLimit,
         NEW online \in BOOLEAN, NEW state \in LightState \cup {None}
  PROVE  [light EXCEPT !.failCount = count, !.online = online, !.state = state]
           \in KeyLightRecord
BY DEF KeyLightRecord

\* applyUsbInfo and onUsbRemoved set path and transport.
LEMMA UsbUpdate ==
  ASSUME NEW light \in KeyLightRecord, NEW path \in UsbPaths \cup {None},
         NEW transport \in {"Http", "Usb"}, NEW serial \in Serials \cup {None},
         NEW online \in BOOLEAN
  PROVE  /\ [light EXCEPT !.usbPath = path, !.transport = transport] \in KeyLightRecord
         /\ [light EXCEPT !.usbPath = path, !.online = online] \in KeyLightRecord
         /\ [light EXCEPT !.usbPath = path, !.transport = transport, !.serial = serial]
              \in KeyLightRecord
BY DEF KeyLightRecord

\* The GETs of a set of cached lights.
LEMMA StateRequestsType ==
  ASSUME NEW L, IsTable(L, Ids, KeyLightRecord), NEW S \in SUBSET DOMAIN L
  PROVE  StateRequests(L, S) \subseteq HttpRequest
<1> SUFFICES ASSUME NEW id \in S
             PROVE  GetLights(id, L[id]) \in HttpRequest
  BY DEF StateRequests, Over
<1>1. GetLights(id, L[id]) \in Requests("State", FALSE, {None})
  BY LightFields DEF GetLights, Request, Requests
<1> QED
  BY <1>1 DEF HttpRequest

\* The PUTs of a set of cached lights that have a state.
LEMMA PutRequestsType ==
  ASSUME NEW L, IsTable(L, Ids, KeyLightRecord), NEW S \in SUBSET DOMAIN L,
         \A id \in S : L[id].state # None
  PROVE  PutRequests(L, S) \subseteq HttpRequest
<1> SUFFICES ASSUME NEW id \in S
             PROVE  PutLights(id, L[id], L[id].state) \in HttpRequest
  BY DEF PutRequests, Over
<1>1. BuildLightsBody(L[id].state) \in LightState
  BY LightFields, ClampType
<1>2. PutLights(id, L[id], L[id].state) \in Requests("Put", FALSE, LightState)
  BY <1>1, LightFields DEF PutLights, Request, Requests
<1> QED
  BY <1>2 DEF HttpRequest

\* The State calls of a set of cached lights: finitely many.
LEMMA StateCallsType ==
  ASSUME NEW L, IsTable(L, Ids, KeyLightRecord), NEW S \in SUBSET DOMAIN L
  PROVE  StateCalls(L, S) \subseteq UsbCall /\ IsFiniteSet(StateCalls(L, S))
<1>1. StateCalls(L, S) \subseteq UsbCall
  BY LightFields DEF StateCalls, Over, RequestCall, UsbCall, LightCall
<1> DEFINE f == [id \in Over("Usb", L, S) |-> RequestCall(id, L[id].usbPath, "State", None)]
<1>2. IsFiniteSet(Over("Usb", L, S))
  BY KeyLightAssumption, FS_Subset DEF Over, IsTable
<1>3. IsFiniteSet({f[id] : id \in Over("Usb", L, S)})
  BY <1>2, ImageFinite
<1>4. StateCalls(L, S) = {f[id] : id \in Over("Usb", L, S)}
  BY DEF StateCalls
<1> QED
  BY <1>1, <1>3, <1>4

\* The Put calls of a set of cached lights that have a state: finitely many.
LEMMA PutCallsType ==
  ASSUME NEW L, IsTable(L, Ids, KeyLightRecord), NEW S \in SUBSET DOMAIN L,
         \A id \in S : L[id].state # None
  PROVE  PutCalls(L, S) \subseteq UsbCall /\ IsFiniteSet(PutCalls(L, S))
<1>1. PutCalls(L, S) \subseteq UsbCall
  BY LightFields, ClampType DEF PutCalls, Over, RequestCall, UsbCall, LightCall
<1> DEFINE f == [id \in Over("Usb", L, S) |->
                   RequestCall(id, L[id].usbPath, "Put", BuildLightsBody(L[id].state))]
<1>2. IsFiniteSet(Over("Usb", L, S))
  BY KeyLightAssumption, FS_Subset DEF Over, IsTable
<1>3. IsFiniteSet({f[id] : id \in Over("Usb", L, S)})
  BY <1>2, ImageFinite
<1>4. PutCalls(L, S) = {f[id] : id \in Over("Usb", L, S)}
  BY DEF PutCalls
<1> QED
  BY <1>1, <1>3, <1>4

\* fetchState keeps both transports well-typed.
LEMMA FetchType ==
  ASSUME TypeOK, NEW L, IsTable(L, Ids, KeyLightRecord), NEW S \in SUBSET DOMAIN L,
         FetchState(L, S)
  PROVE  HttpTypeOK' /\ usbIn' \in Seq(UsbCall)
<1>1. HttpTypeOK'
  BY StateRequestsType, TrackType DEF FetchState, TypeOK, HttpTypeOK
<1>2. usbIn' \in Seq(UsbCall)
  BY StateCallsType, QueueType DEF FetchState, TypeOK
<1> QED
  BY <1>1, <1>2

\* flush keeps the PUT marks and both transports well-typed.
LEMMA FlushType ==
  ASSUME TypeOK, NEW L, IsTable(L, Ids, KeyLightRecord), NEW S,
         NEW running \in SUBSET Ids, NEW marked \in SUBSET Ids,
         NEW pending, IsABag(pending), DOMAIN pending \subseteq HttpRequest,
         Flush(L, S, running, marked, pending)
  PROVE  /\ dirty' \subseteq Ids /\ inflight' \subseteq Ids
         /\ HttpTypeOK' /\ usbIn' \in Seq(UsbCall)
<1> DEFINE sent == Flushable(L, S) \ running
<1>1. sent \subseteq DOMAIN L /\ \A id \in sent : L[id].state # None
  BY DEF Flushable
<1>2. dirty' \subseteq Ids /\ inflight' \subseteq Ids
  BY DEF Flush, Flushable, IsTable
<1>3. HttpTypeOK'
  BY <1>1, PutRequestsType, TrackType DEF Flush, HttpTypeOK
<1>4. usbIn' \in Seq(UsbCall)
  BY <1>1, PutCallsType, QueueType DEF Flush, TypeOK
<1> QED
  BY <1>2, <1>3, <1>4

-------------------------------------------------------------------------------
(* Handlers.                                                               *)

\* What a handler changes: all but the hardware, usbOut and the ghost.
HandlerTypeOK == ManagerTypeOK /\ HttpTypeOK /\ usbIn \in Seq(UsbCall)

\* A default-constructed light is a light.
LEMMA NewKeyLightType == NewKeyLight \in KeyLightRecord
BY DEF NewKeyLight, KeyLightRecord, kFailLimit

\* onDiscovered keeps every type.
LEMMA OnDiscoveredType ==
  ASSUME TypeOK, NEW service \in Services, OnDiscovered(service)
  PROVE  HandlerTypeOK'
<1> DEFINE id == ServiceId(service)
           known == id \in DOMAIN lights
           base == IF known THEN lights[id] ELSE NewKeyLight
           light == [base EXCEPT !.address = service.address]
           info == IF known THEN {} ELSE {GetInfo(id, light)}
<1>1. id \in Ids /\ service.address \in Addresses /\ service.serviceName \in ServiceNames
  BY HardwareAssumption, KeyLightAssumption
     DEF DiscoveredService, ServiceId, NormalizeMac
<1>2. base \in KeyLightRecord
  BY NewKeyLightType, LightFields DEF TypeOK, ManagerTypeOK
<1>3. light \in KeyLightRecord
  <2> HIDE DEF base
  <2> QED
    BY <1>1, <1>2 DEF KeyLightRecord
<1>4. lights' = Bind(lights, id, light)
  BY DEF OnDiscovered
<1>5. IsTable(lights', Ids, KeyLightRecord) /\ {id} \subseteq DOMAIN lights'
  BY <1>1, <1>3, <1>4, BindType DEF TypeOK, ManagerTypeOK, Bind
<1>6. IsTable(byService', ServiceNames, Ids)
  BY <1>1, BindType DEF OnDiscovered, TypeOK, ManagerTypeOK
<1>7. ManagerTypeOK'
  BY <1>1, <1>5, <1>6
     DEF OnDiscovered, TypeOK, ManagerTypeOK, UiTypeOK, CardsTypeOK, uiVars, putVars
<1>8. info \subseteq HttpRequest
  <2>1. light.address \in Addresses \cup {None}
    BY <1>3 DEF KeyLightRecord
  <2>2. GetInfo(id, light) \in Requests("Info", FALSE, {None})
    BY <1>1, <2>1 DEF GetInfo, Request, Requests
  <2> QED
    BY <2>2 DEF HttpRequest
<1>9. HttpTypeOK'
  <2>1. info \cup StateRequests(lights', {id}) \in SUBSET HttpRequest
    BY <1>5, <1>8, StateRequestsType
  <2>2. http' = Track(http, info \cup StateRequests(lights', {id}))
    BY DEF OnDiscovered
  <2> QED
    BY <2>1, <2>2, TrackType DEF TypeOK, HttpTypeOK
<1>10. usbIn' \in Seq(UsbCall)
  BY <1>5, StateCallsType, QueueType DEF OnDiscovered, TypeOK
<1> QED
  BY <1>7, <1>9, <1>10 DEF HandlerTypeOK

\* onServiceRemoved keeps every type.
LEMMA OnServiceRemovedType ==
  ASSUME TypeOK, NEW name, OnServiceRemoved(name)
  PROVE  HandlerTypeOK'
<1>1. IsTable(lights', Ids, KeyLightRecord)
  <2>1. ASSUME NEW light \in KeyLightRecord, NEW b \in BOOLEAN
        PROVE  [light EXCEPT !.online = light.online /\ b] \in KeyLightRecord
    BY <2>1 DEF KeyLightRecord
  <2> QED
    BY <2>1, LightFields DEF OnServiceRemoved, TypeOK, ManagerTypeOK, IsTable
<1>2. IsTable(byService', ServiceNames, Ids)
  BY UnbindType DEF OnServiceRemoved, TypeOK, ManagerTypeOK
<1>3. UiTypeOK'
  BY <1>1, EmitType DEF OnServiceRemoved, TypeOK, ManagerTypeOK
<1> QED
  BY <1>1, <1>2, <1>3
     DEF HandlerTypeOK, OnServiceRemoved, TypeOK, ManagerTypeOK, HttpTypeOK, UsbTypeOK,
         putVars, usbVars

\* merge keeps every type.
LEMMA MergeType ==
  ASSUME TypeOK, NEW L, IsTable(L, Ids, KeyLightRecord), NEW keepId, NEW dropId,
         Merge(L, keepId, dropId)
  PROVE  /\ IsTable(lights', Ids, KeyLightRecord)
         /\ IsTable(byService', ServiceNames, Ids)
         /\ IsTable(byUsbPath', UsbPaths, Ids)
         /\ IsTable(bySerial', Serials, Ids)
         /\ UiTypeOK'
<1>1. CASE {keepId, dropId} \subseteq DOMAIN L /\ keepId # dropId
  <2>1. Merged(L[keepId], L[dropId]) \in KeyLightRecord
    BY <1>1 DEF Merged, IsTable, KeyLightRecord
  <2>2. IsTable([L EXCEPT ![keepId] = Merged(@, L[dropId])], Ids, KeyLightRecord)
    BY <2>1, <1>1 DEF IsTable
  <2>3. IsTable(lights', Ids, KeyLightRecord)
    BY <2>2, <1>1, UnbindType DEF Merge
  <2>4. keepId \in Ids
    BY <1>1 DEF IsTable
  <2>5. /\ IsTable(byService', ServiceNames, Ids)
        /\ IsTable(byUsbPath', UsbPaths, Ids)
        /\ IsTable(bySerial', Serials, Ids)
    BY <2>4, <1>1, RepointType DEF Merge, TypeOK, ManagerTypeOK
  <2>6. Emit(lights', {}, {keepId}, {dropId})
    BY <1>1 DEF Merge
  <2>7. UiTypeOK'
    BY <2>3, <2>6, EmitType DEF TypeOK, ManagerTypeOK
  <2> QED
    BY <2>3, <2>5, <2>7
<1>2. CASE ~({keepId, dropId} \subseteq DOMAIN L /\ keepId # dropId)
  BY <1>2 DEF Merge, TypeOK, ManagerTypeOK, UiTypeOK, CardsTypeOK, uiVars, indexVars
<1> QED
  BY <1>1, <1>2

\* onInfoReceived keeps every type.
LEMMA OnInfoReceivedType ==
  ASSUME TypeOK, NEW id, NEW info \in Info, NEW pending,
         IsABag(pending), DOMAIN pending \subseteq HttpRequest,
         OnInfoReceived(id, info, pending)
  PROVE  HandlerTypeOK'
<1> DEFINE other == Lookup(bySerial, info.serial)
           named == [lights EXCEPT ![id].serial = info.serial]
<1>1. info.serial \in Serials \cup {None}
  BY DEF Info
<1>2. ASSUME id \in DOMAIN lights
      PROVE  id \in Ids /\ IsTable(named, Ids, KeyLightRecord)
  <2>1. [lights[id] EXCEPT !.serial = info.serial] \in KeyLightRecord
    BY <1>1, <1>2, LightFields, SerialUpdate DEF TypeOK, ManagerTypeOK
  <2> QED
    BY <1>2, <2>1 DEF IsTable, TypeOK, ManagerTypeOK
<1> HIDE DEF other, named
<1>3. /\ IsTable(lights', Ids, KeyLightRecord)
      /\ IsTable(byService', ServiceNames, Ids)
      /\ IsTable(byUsbPath', UsbPaths, Ids)
      /\ IsTable(bySerial', Serials, Ids)
      /\ UiTypeOK'
  <2>1. CASE id \notin DOMAIN lights /\ UNCHANGED <<lights, indexVars, uiVars>>
    BY <2>1 DEF TypeOK, ManagerTypeOK, UiTypeOK, CardsTypeOK, uiVars, indexVars
  <2>2. CASE Emit(lights, {}, {id}, {}) /\ UNCHANGED <<lights, indexVars>>
    BY <2>2, EmitType DEF TypeOK, ManagerTypeOK, indexVars
  <2>3. CASE /\ id \in DOMAIN lights /\ info.serial # None
             /\ lights' = named
             /\ bySerial' = Bind(bySerial, info.serial, id)
             /\ Emit(named, {}, {id}, {})
             /\ UNCHANGED <<byService, byUsbPath>>
    BY <2>3, <1>1, <1>2, EmitType, BindType DEF TypeOK, ManagerTypeOK
  <2>4. CASE id \in DOMAIN lights /\ Merge(named, other, id)
    BY <2>4, <1>2, MergeType
  <2> QED
    BY <2>1, <2>2, <2>3, <2>4 DEF OnInfoReceived, other, named
<1> QED
  BY <1>3
     DEF HandlerTypeOK, OnInfoReceived, TypeOK, ManagerTypeOK, HttpTypeOK, UsbTypeOK,
         putVars, usbVars

\* onStateReceived keeps every type.
LEMMA OnStateReceivedType ==
  ASSUME TypeOK, NEW id, NEW data \in LightState \cup {None}, NEW pending,
         IsABag(pending), DOMAIN pending \subseteq HttpRequest,
         OnStateReceived(id, data, pending)
  PROVE  HandlerTypeOK'
<1>1. CASE id \notin DOMAIN lights
  BY <1>1
     DEF HandlerTypeOK, OnStateReceived, TypeOK, ManagerTypeOK, HttpTypeOK, UsbTypeOK,
         UiTypeOK, CardsTypeOK, uiVars, indexVars, putVars
<1>2. CASE id \in DOMAIN lights
  <2> DEFINE light == [lights[id] EXCEPT !.failCount = 0, !.online = TRUE,
                                         !.state = IF data = None THEN @ ELSE data]
             announced == {i \in {id} \cap announcePending : ~lights[i].online}
  <2>1. light \in KeyLightRecord
    <3>1. lights[id] \in KeyLightRecord /\ lights[id].state \in LightState \cup {None}
      BY <1>2, LightFields DEF TypeOK, ManagerTypeOK
    <3>2. (IF data = None THEN lights[id].state ELSE data) \in LightState \cup {None}
      BY <3>1
    <3> QED
      BY <3>1, <3>2, 0 \in 0 .. kFailLimit, AnswerUpdate DEF kFailLimit
  <2>2. lights' = [lights EXCEPT ![id] = light]
    BY <1>2 DEF OnStateReceived, TypeOK, ManagerTypeOK, IsTable
  <2>3. IsTable(lights', Ids, KeyLightRecord) /\ announced \subseteq DOMAIN lights'
    BY <1>2, <2>1, <2>2 DEF IsTable, TypeOK, ManagerTypeOK
  <2>4. Emit(lights', announced, {id} \ announced, {})
    BY <1>2 DEF OnStateReceived
  <2>5. UiTypeOK'
    BY <2>3, <2>4, EmitType DEF TypeOK, ManagerTypeOK
  <2> QED
    BY <2>3, <2>5
       DEF HandlerTypeOK, OnStateReceived, TypeOK, ManagerTypeOK, HttpTypeOK, UsbTypeOK,
           indexVars, putVars
<1> QED
  BY <1>1, <1>2

\* onIoFail keeps every type.
LEMMA OnIoFailType ==
  ASSUME TypeOK, NEW id, OnIoFail(id)
  PROVE  IsTable(lights', Ids, KeyLightRecord) /\ UiTypeOK'
<1>1. CASE id \notin DOMAIN lights
  BY <1>1 DEF OnIoFail, TypeOK, ManagerTypeOK, UiTypeOK, CardsTypeOK, uiVars
<1>2. CASE id \in DOMAIN lights
  <2>1. Failed(lights[id]) \in KeyLightRecord
    BY <1>2, LightFields, FailedUpdate DEF TypeOK, ManagerTypeOK
  <2>2. IsTable(lights', Ids, KeyLightRecord)
    BY <1>2, <2>1 DEF OnIoFail, IsTable, TypeOK, ManagerTypeOK
  <2>3. UiTypeOK'
    BY <1>2, <2>2, EmitType DEF OnIoFail, TypeOK, ManagerTypeOK
  <2> QED
    BY <2>2, <2>3
<1> QED
  BY <1>1, <1>2

\* onPutSucceeded keeps every type.
LEMMA OnPutSucceededType ==
  ASSUME TypeOK, NEW id, NEW pending,
         IsABag(pending), DOMAIN pending \subseteq HttpRequest,
         OnPutSucceeded(id, pending)
  PROVE  HandlerTypeOK'
<1>1. ASSUME NEW light \in KeyLightRecord
      PROVE  [light EXCEPT !.failCount = 0, !.online = TRUE] \in KeyLightRecord
  <2>1. 0 \in 0 .. kFailLimit
    BY DEF kFailLimit
  <2> QED
    BY <1>1, <2>1, CountUpdate
<1>2. IsTable(lights', Ids, KeyLightRecord)
  BY <1>1, LightFields DEF OnPutSucceeded, IsTable, TypeOK, ManagerTypeOK
<1>3. UiTypeOK'
  <2>1. Emit(lights', {}, {id}, {})
    BY DEF OnPutSucceeded
  <2> QED
    BY <1>2, <2>1, EmitType DEF TypeOK, ManagerTypeOK
<1>4. Flush(lights', {id} \cap dirty, inflight \ {id}, dirty \ {id}, pending)
  BY DEF OnPutSucceeded
<1>5. inflight \ {id} \subseteq Ids /\ dirty \ {id} \subseteq Ids
  BY DEF TypeOK, ManagerTypeOK
<1>6. /\ dirty' \subseteq Ids /\ inflight' \subseteq Ids
      /\ HttpTypeOK' /\ usbIn' \in Seq(UsbCall)
  BY <1>2, <1>4, <1>5, FlushType
<1> QED
  BY <1>2, <1>3, <1>6
     DEF HandlerTypeOK, OnPutSucceeded, TypeOK, ManagerTypeOK, indexVars

\* onRequestFailed keeps every type.
LEMMA OnRequestFailedType ==
  ASSUME TypeOK, NEW id, NEW kind, NEW pending,
         IsABag(pending), DOMAIN pending \subseteq HttpRequest,
         OnRequestFailed(id, kind, pending)
  PROVE  HandlerTypeOK'
<1>1. IsTable(lights', Ids, KeyLightRecord) /\ UiTypeOK'
  BY OnIoFailType DEF OnRequestFailed, TypeOK, ManagerTypeOK, UiTypeOK, CardsTypeOK, uiVars
<1>2. inflight' \subseteq Ids /\ dirty' \subseteq Ids
  BY DEF OnRequestFailed, GiveUp, putVars, TypeOK, ManagerTypeOK
<1> QED
  BY <1>1, <1>2
     DEF HandlerTypeOK, OnRequestFailed, TypeOK, ManagerTypeOK, HttpTypeOK, UsbTypeOK,
         indexVars

\* onUsbEnumerated keeps every type.
LEMMA OnUsbEnumeratedType ==
  ASSUME TypeOK, NEW paths \in SUBSET UsbPaths, OnUsbEnumerated(paths)
  PROVE  HandlerTypeOK'
<1> DEFINE gone == DOMAIN byUsbPath \ paths
           probes == {ProbeCall(p) : p \in Fresh(paths)}
<1>1. ASSUME NEW light \in KeyLightRecord
      PROVE  Unplugged(light) \in KeyLightRecord
  BY <1>1, UsbUpdate DEF Unplugged, KeyLightRecord
<1>2. IsTable(lights', Ids, KeyLightRecord)
  BY <1>1, LightFields DEF OnUsbEnumerated, IsTable, TypeOK, ManagerTypeOK
<1>3. UiTypeOK'
  BY <1>2, EmitType DEF OnUsbEnumerated, TypeOK, ManagerTypeOK
<1>4. IsTable(byUsbPath', UsbPaths, Ids)
  BY DEF OnUsbEnumerated, IsTable, TypeOK, ManagerTypeOK
<1>5. usbPending' \subseteq UsbPaths
  BY DEF OnUsbEnumerated, Fresh, TypeOK, ManagerTypeOK
<1>6. usbIn' \in Seq(UsbCall)
  <2> DEFINE f == [p \in Fresh(paths) |-> ProbeCall(p)]
  <2>1. probes \subseteq UsbCall
    BY DEF Fresh, ProbeCall, EnumerateCall, Probe, UsbCall
  <2>2. IsFiniteSet(Fresh(paths))
    BY KeyLightAssumption, FS_Subset DEF Fresh
  <2>3. IsFiniteSet({f[p] : p \in Fresh(paths)})
    BY <2>2, ImageFinite
  <2>4. probes = {f[p] : p \in Fresh(paths)}
    OBVIOUS
  <2>5. Queue(probes)
    BY DEF OnUsbEnumerated
  <2> HIDE DEF probes, f
  <2> QED
    BY <2>1, <2>3, <2>4, <2>5, QueueType DEF TypeOK
<1> QED
  BY <1>2, <1>3, <1>4, <1>5, <1>6
     DEF HandlerTypeOK, OnUsbEnumerated, TypeOK, ManagerTypeOK, HttpTypeOK, putVars

\* applyUsbInfo keeps every type.
LEMMA OnUsbInfoReadyType ==
  ASSUME TypeOK, NEW path \in UsbPaths, NEW info \in Info, OnUsbInfoReady(path, info)
  PROVE  HandlerTypeOK'
<1> DEFINE id == KnownAs(UsbId(path, info), info.serial)
           existing == {id} \cap DOMAIN lights
           base == IF existing = {} THEN NewKeyLight ELSE lights[id]
           serial == IF info.serial = None THEN base.serial ELSE info.serial
           light == [base EXCEPT !.usbPath = path, !.transport = "Usb", !.serial = serial]
<1>1. /\ info.serial \in Serials \cup {None}
      /\ info.mac \in Spellings \cup {None}
  BY DEF Info
<1>2. UsbId(path, info) \in Ids
  BY <1>1, KeyLightAssumption DEF UsbId, NormalizeMac
<1>3. id \in Ids
  BY <1>2, KeyLightAssumption
     DEF KnownAs, Lookup, IsTable, TypeOK, ManagerTypeOK
<1> HIDE DEF id
<1>4. base \in KeyLightRecord
  BY NewKeyLightType, LightFields DEF TypeOK, ManagerTypeOK
<1>5. serial \in Serials \cup {None}
  BY <1>1, <1>4 DEF KeyLightRecord
<1>6. light \in KeyLightRecord
  <2> HIDE DEF base, serial
  <2> QED
    BY <1>4, <1>5, UsbUpdate
<1>7. lights' = Bind(lights, id, light)
  BY DEF OnUsbInfoReady, id
<1> HIDE DEF light
<1>8. IsTable(lights', Ids, KeyLightRecord) /\ {id} \subseteq DOMAIN lights'
  BY <1>3, <1>6, <1>7, BindType DEF Bind, TypeOK, ManagerTypeOK
<1>9. Emit(lights', {}, existing, {})
  BY DEF OnUsbInfoReady, id
<1>10. UiTypeOK'
  BY <1>8, <1>9, EmitType DEF TypeOK, ManagerTypeOK
<1>11. FetchState(lights', {id})
  BY DEF OnUsbInfoReady, id
<1>12. HttpTypeOK' /\ usbIn' \in Seq(UsbCall)
  BY <1>8, <1>11, FetchType
<1>13. byUsbPath' = Bind(byUsbPath, path, id) /\ bySerial' \in {bySerial, Bind(bySerial, info.serial, id)}
       /\ (info.serial = None => bySerial' = bySerial)
  BY DEF OnUsbInfoReady, id
<1>14. IsTable(byUsbPath', UsbPaths, Ids) /\ IsTable(bySerial', Serials, Ids)
  BY <1>1, <1>3, <1>13, BindType DEF TypeOK, ManagerTypeOK
<1>15. announcePending' \subseteq Ids /\ usbPending' \subseteq UsbPaths
  BY <1>3 DEF OnUsbInfoReady, id, TypeOK, ManagerTypeOK
<1> QED
  BY <1>8, <1>10, <1>12, <1>14, <1>15
     DEF HandlerTypeOK, OnUsbInfoReady, TypeOK, ManagerTypeOK, putVars

\* onUsbInfoFailed keeps every type.
LEMMA OnUsbInfoFailedType ==
  ASSUME TypeOK, NEW path, OnUsbInfoFailed(path)
  PROVE  HandlerTypeOK'
BY DEF HandlerTypeOK, OnUsbInfoFailed, TypeOK, ManagerTypeOK, HttpTypeOK, UsbTypeOK,
       UiTypeOK, CardsTypeOK, uiVars, indexVars, putVars

\* refreshAll keeps every type.
LEMMA RefreshAllType ==
  ASSUME TypeOK, RefreshAll
  PROVE  HandlerTypeOK'
<1>1. FetchState(lights, DOMAIN lights \ inflight)
  BY DEF RefreshAll
<1>2. HttpTypeOK' /\ usbIn' \in Seq(UsbCall)
  BY <1>1, FetchType DEF TypeOK, ManagerTypeOK
<1> QED
  BY <1>2
     DEF HandlerTypeOK, RefreshAll, TypeOK, ManagerTypeOK, UiTypeOK, CardsTypeOK, uiVars,
         managerVars,
         indexVars, putVars

\* onRefreshTick keeps every type.
LEMMA OnRefreshTickType ==
  ASSUME TypeOK, OnRefreshTick
  PROVE  HandlerTypeOK'
<1> DEFINE S == Due(refreshTicks')
<1>1. S \subseteq DOMAIN lights /\ IsTable(lights, Ids, KeyLightRecord)
  BY DEF Due, TypeOK, ManagerTypeOK
<1>2. HttpTypeOK'
  <2>1. StateRequests(lights, S) \subseteq HttpRequest
    BY <1>1, StateRequestsType
  <2>2. http' = Track(http, StateRequests(lights, S))
    BY DEF OnRefreshTick
  <2> HIDE DEF S
  <2> QED
    BY <2>1, <2>2, TrackType DEF TypeOK, HttpTypeOK
<1>3. usbIn' \in Seq(UsbCall)
  <2>1. PICK order \in SetToSeqs(StateCalls(lights, S)) :
          usbIn' = usbIn \o <<EnumerateCall>> \o order
    BY DEF OnRefreshTick
  <2>2. order \in Seq(UsbCall)
    <3> HIDE DEF S
    <3> QED
      BY <1>1, <2>1, StateCallsType, OrderType
  <2>3. EnumerateCall \in UsbCall
    BY DEF UsbCall
  <2>4. usbIn \in Seq(UsbCall) /\ <<EnumerateCall>> \in Seq(UsbCall)
    BY <2>3 DEF TypeOK, UsbTypeOK
  <2> HIDE DEF S
  <2> QED
    BY <2>1, <2>2, <2>4
<1>4. refreshTicks' \in 0 .. kOfflineProbe - 1
  BY DEF OnRefreshTick, TypeOK, ManagerTypeOK, kOfflineProbe
<1> QED
  BY <1>2, <1>3, <1>4
     DEF HandlerTypeOK, OnRefreshTick, TypeOK, ManagerTypeOK, UiTypeOK, CardsTypeOK,
         uiVars, indexVars, putVars

-------------------------------------------------------------------------------
(* User intents.                                                           *)

\* What flushing the current cache leaves to show.
LEMMA UserFlushType ==
  ASSUME TypeOK, IsTable(lights', Ids, KeyLightRecord), NEW S,
         Flush(lights', S, inflight, dirty, http), UserUnchanged, debounce' \subseteq Ids
  PROVE  HandlerTypeOK'
<1>1. inflight \subseteq Ids /\ dirty \subseteq Ids /\ IsABag(http)
      /\ DOMAIN http \subseteq HttpRequest
  BY DEF TypeOK, ManagerTypeOK, HttpTypeOK
<1>2. /\ dirty' \subseteq Ids /\ inflight' \subseteq Ids
      /\ HttpTypeOK' /\ usbIn' \in Seq(UsbCall)
  BY <1>1, FlushType
<1> QED
  BY <1>2 DEF HandlerTypeOK, UserUnchanged, TypeOK, ManagerTypeOK, UiTypeOK, CardsTypeOK,
              uiVars, indexVars

\* Giving one light another state keeps the cache well-typed.
LEMMA StateEdit ==
  ASSUME NEW L, IsTable(L, Ids, KeyLightRecord), NEW id \in DOMAIN L,
         NEW state \in LightState
  PROVE  IsTable([L EXCEPT ![id] = [@ EXCEPT !.state = state]], Ids, KeyLightRecord)
<1>1. [L[id] EXCEPT !.state = state] \in KeyLightRecord
  BY LightFields, StateUpdate
<1> QED
  BY <1>1 DEF IsTable

\* setOn keeps every type.
LEMMA SetOnType ==
  ASSUME TypeOK, NEW id, NEW on \in BOOLEAN, SetOn(id, on)
  PROVE  HandlerTypeOK'
<1> DEFINE state == [lights[id].state EXCEPT !.on = on]
<1>1. id \in DOMAIN lights /\ lights[id].state \in LightState
  BY LightFields DEF SetOn, HasState, TypeOK, ManagerTypeOK
<1>2. state \in LightState
  BY <1>1 DEF LightState
<1>3. lights' = [lights EXCEPT ![id] = [@ EXCEPT !.state = state]]
  BY DEF SetOn
<1> HIDE DEF state
<1>4. IsTable(lights', Ids, KeyLightRecord)
  BY <1>1, <1>2, <1>3, StateEdit DEF TypeOK, ManagerTypeOK
<1>5. debounce' \subseteq Ids
  BY DEF SetOn, TypeOK, ManagerTypeOK
<1> QED
  BY <1>4, <1>5, UserFlushType DEF SetOn

\* A user intent that edits a light and starts its timer.
LEMMA ScheduleType ==
  ASSUME TypeOK, IsTable(lights', Ids, KeyLightRecord), NEW id \in Ids, Schedule(id)
  PROVE  HandlerTypeOK'
BY DEF HandlerTypeOK, Schedule, UserUnchanged, TypeOK, ManagerTypeOK, HttpTypeOK,
       UsbTypeOK, UiTypeOK, CardsTypeOK, uiVars, indexVars, putVars

\* setBrightness keeps every type.
LEMMA SetBrightnessType ==
  ASSUME TypeOK, NEW id, NEW value \in Brightnesses, SetBrightness(id, value)
  PROVE  HandlerTypeOK'
<1> DEFINE state == [lights[id].state EXCEPT !.brightness = ClampInt(value, 0, 100)]
<1>1. id \in DOMAIN lights /\ id \in Ids /\ lights[id].state \in LightState
  BY LightFields DEF SetBrightness, HasState, TypeOK, ManagerTypeOK
<1>2. ClampInt(value, 0, 100) \in Brightnesses
  BY KeyLightAssumption
<1>3. state \in LightState
  BY <1>1, <1>2 DEF LightState
<1>4. lights' = [lights EXCEPT ![id] = [@ EXCEPT !.state = state]]
  BY DEF SetBrightness
<1> HIDE DEF state
<1>5. IsTable(lights', Ids, KeyLightRecord)
  BY <1>1, <1>3, <1>4, StateEdit DEF TypeOK, ManagerTypeOK
<1> QED
  BY <1>1, <1>5, ScheduleType DEF SetBrightness

\* setTemperature keeps every type.
LEMMA SetTemperatureType ==
  ASSUME TypeOK, NEW id, NEW mireds \in Temperatures, SetTemperature(id, mireds)
  PROVE  HandlerTypeOK'
<1> DEFINE state == [lights[id].state EXCEPT
                       !.temperature = ClampInt(mireds, kMiredMin, kMiredMax)]
<1>1. id \in DOMAIN lights /\ id \in Ids /\ lights[id].state \in LightState
  BY LightFields DEF SetTemperature, HasState, TypeOK, ManagerTypeOK
<1>2. ClampInt(mireds, kMiredMin, kMiredMax) \in Temperatures
  BY KeyLightAssumption
<1>3. state \in LightState
  BY <1>1, <1>2 DEF LightState
<1>4. lights' = [lights EXCEPT ![id] = [@ EXCEPT !.state = state]]
  BY DEF SetTemperature
<1> HIDE DEF state
<1>5. IsTable(lights', Ids, KeyLightRecord)
  BY <1>1, <1>3, <1>4, StateEdit DEF TypeOK, ManagerTypeOK
<1> QED
  BY <1>1, <1>5, ScheduleType DEF SetTemperature

\* toggleAll keeps every type.
LEMMA ToggleAllType ==
  ASSUME TypeOK, ToggleAll
  PROVE  HandlerTypeOK'
<1> DEFINE toggled(light) == [light EXCEPT !.state.on = ~AnyOn]
           S == {id \in DOMAIN lights : Enabled(lights[id])}
<1>1. ASSUME NEW light \in KeyLightRecord, Enabled(light)
      PROVE  toggled(light) \in KeyLightRecord
  <2> DEFINE state == [light.state EXCEPT !.on = ~AnyOn]
  <2>1. light.state \in LightState
    BY <1>1 DEF Enabled, KeyLightRecord
  <2>2. (~AnyOn) \in BOOLEAN
    BY DEF AnyOn
  <2>3. state \in LightState
    BY <2>1, <2>2 DEF LightState
  <2>4. toggled(light) = [light EXCEPT !.state = state]
    OBVIOUS
  <2> HIDE DEF state, toggled
  <2> QED
    BY <1>1, <2>3, <2>4, StateUpdate
<1>2. lights' = [id \in DOMAIN lights |-> IF id \in S THEN toggled(lights[id]) ELSE lights[id]]
  BY DEF ToggleAll
<1> HIDE DEF toggled
<1>3. IsTable(lights', Ids, KeyLightRecord)
  BY <1>1, <1>2, LightFields DEF IsTable, TypeOK, ManagerTypeOK
<1>4. debounce' \subseteq Ids
  BY DEF ToggleAll, TypeOK, ManagerTypeOK
<1> QED
  BY <1>3, <1>4, UserFlushType DEF ToggleAll

\* flushPending keeps every type.
LEMMA FlushPendingType ==
  ASSUME TypeOK, NEW id, FlushPending(id)
  PROVE  HandlerTypeOK'
<1>1. lights' = lights /\ Flush(lights', {id}, inflight, dirty, http)
  BY DEF FlushPending
<1>2. IsTable(lights', Ids, KeyLightRecord) /\ debounce' \subseteq Ids
  BY <1>1 DEF FlushPending, TypeOK, ManagerTypeOK
<1> QED
  BY <1>1, <1>2, UserFlushType DEF FlushPending

-------------------------------------------------------------------------------
(* The system.                                                             *)

\* The ghost stays well-typed when a user asks for something.
LEMMA WantedType ==
  ASSUME TypeOK, HandlerTypeOK', NEW S \in SUBSET DOMAIN lights', Wanted(S)
  PROVE  want' \in [Ids -> LightState \cup {None}]
BY LightFields DEF Wanted, TypeOK, HandlerTypeOK, ManagerTypeOK

\* The ghost stays well-typed when the program gives a wish up.
LEMMA DroppedType ==
  ASSUME TypeOK, NEW S, Dropped(S)
  PROVE  want' \in [Ids -> LightState \cup {None}]
BY DEF Dropped, TypeOK

\* A step that runs one handler and leaves the hardware, the results and the
\* ghost well-typed.
LEMMA StepType ==
  ASSUME HandlerTypeOK', HardwareTypeOK', usbOut' \in Seq(UsbResult),
         want' \in [Ids -> LightState \cup {None}]
  PROVE  TypeOK'
BY DEF HandlerTypeOK, TypeOK, UsbTypeOK

\* What a request in flight is made of.
LEMMA RequestFields ==
  ASSUME NEW r \in HttpRequest
  PROVE  /\ r.id \in Ids
         /\ r.address \in Addresses \cup {None}
         /\ r.kind = "Put" => r.payload \in LightState
         /\ r.kind = "State" /\ r.served => r.payload \in LightState
         /\ r.kind = "State" /\ ~r.served => r.payload = None
BY DEF HttpRequest, Requests

\* What a result of the worker is made of.
LEMMA ResultFields ==
  ASSUME NEW r \in UsbResult
  PROVE  /\ r.signal = "enumerated" => r.paths \in SUBSET UsbPaths
         /\ r.signal \in {"infoReady", "infoFailed"} => r.call.path \in UsbPaths
         /\ r.signal = "infoReady" => r.info \in Info
         /\ r.signal \in {"requestDone", "requestFailed"}
              => r.call.id \in Ids /\ r.data \in LightState \cup {None}
BY DEF UsbResult, Probe, LightCall

\* The initial state.
LEMMA InitType == Init => TypeOK
<1> SUFFICES ASSUME Init PROVE TypeOK
  OBVIOUS
<1>1. HardwareTypeOK
  BY HardwareAssumption DEF Init, HardwareInit, HardwareTypeOK
<1>2. ManagerTypeOK
  BY DEF Init, ManagerInit, UiInit, CardsInit, Counted, ManagerTypeOK, UiTypeOK,
         CardsTypeOK, uiVars, IsTable, EmptyTable,
         kOfflineProbe
<1>3. HttpTypeOK
  BY DEF Init, ManagerInit, HttpInit, HttpTypeOK, EmptyBag, SetToBag, IsABag
<1>4. UsbTypeOK
  BY DEF Init, ManagerInit, UsbTypeOK, UsbCall
<1>5. want \in [Ids -> LightState \cup {None}]
  BY DEF Init
<1> QED
  BY <1>1, <1>2, <1>3, <1>4, <1>5 DEF TypeOK

\* Cables and mDNS.
LEMMA EnvironmentType == TypeOK /\ Environment => TypeOK'
<1> SUFFICES ASSUME TypeOK, Environment PROVE TypeOK'
  OBVIOUS
<1>1. ASSUME NEW s \in Services, Discover(s)
      PROVE  TypeOK'
  <2>1. HandlerTypeOK'
    BY <1>1, OnDiscoveredType DEF Discover
  <2>2. UNCHANGED <<hardwareVars, usbOut, want>>
    BY <1>1 DEF Discover, OnDiscovered
  <2> QED
    BY <2>1, <2>2, StepType DEF TypeOK, HardwareTypeOK, UsbTypeOK, hardwareVars
<1>2. ASSUME NEW name \in ServiceNames, ServiceGone(name)
      PROVE  TypeOK'
  <2>1. HandlerTypeOK'
    BY <1>2, OnServiceRemovedType DEF ServiceGone
  <2>2. UNCHANGED <<hardwareVars, usbOut, want>>
    BY <1>2 DEF ServiceGone, OnServiceRemoved, usbVars
  <2> QED
    BY <2>1, <2>2, StepType DEF TypeOK, HardwareTypeOK, UsbTypeOK, hardwareVars
<1>3. ASSUME NEW d \in Devices, NEW p \in UsbPaths, PlugIn(d, p) \/ PullOut(p)
      PROVE  TypeOK'
  <2>1. HardwareTypeOK'
    BY <1>3 DEF PlugIn, PullOut, Plug, Unplug, TypeOK, HardwareTypeOK
  <2>2. UNCHANGED <<http, usbVars, managerVars, want>>
    BY <1>3 DEF PlugIn, PullOut
  <2> QED
    BY <2>1, <2>2
       DEF TypeOK, HttpTypeOK, UsbTypeOK, ManagerTypeOK, UiTypeOK, CardsTypeOK, uiVars,
           usbVars,
           managerVars, indexVars, putVars
<1> QED
  <2>1. ASSUME NEW p \in UsbPaths, PullOut(p)
        PROVE  TypeOK'
    <3>1. HardwareTypeOK'
      BY <2>1 DEF PullOut, Unplug, TypeOK, HardwareTypeOK
    <3>2. UNCHANGED <<http, usbVars, managerVars, want>>
      BY <2>1 DEF PullOut
    <3> QED
      BY <3>1, <3>2
         DEF TypeOK, HttpTypeOK, UsbTypeOK, ManagerTypeOK, UiTypeOK, CardsTypeOK, uiVars,
             usbVars,
             managerVars, indexVars, putVars
  <2> QED
    BY <1>1, <1>2, <1>3, <2>1 DEF Environment

\* A step of the user or of a timer touches neither the hardware nor usbOut.
LEMMA QuietStepType ==
  ASSUME TypeOK, HandlerTypeOK', UNCHANGED <<hardwareVars, usbOut>>,
         want' \in [Ids -> LightState \cup {None}]
  PROVE  TypeOK'
BY StepType DEF TypeOK, HardwareTypeOK, UsbTypeOK, hardwareVars

\* The user.
LEMMA UserType == TypeOK /\ User => TypeOK'
<1> SUFFICES ASSUME TypeOK, User PROVE TypeOK'
  OBVIOUS
<1>1. want \in [Ids -> LightState \cup {None}]
  BY DEF TypeOK
<1>2. ASSUME NEW id \in Ids, NEW on \in BOOLEAN, ClickOn(id, on)
      PROVE  TypeOK'
  <2>1. HandlerTypeOK'
    BY <1>2, SetOnType DEF ClickOn
  <2>2. {id} \subseteq DOMAIN lights' /\ Wanted({id}) /\ UNCHANGED <<hardwareVars, usbOut>>
    BY <1>2 DEF ClickOn, SetOn, HasState, UserUnchanged, TypeOK, ManagerTypeOK, IsTable
  <2> QED
    BY <2>1, <2>2, WantedType, QuietStepType
<1>3. ASSUME NEW id \in Ids, NEW value \in Brightnesses, DragBrightness(id, value)
      PROVE  TypeOK'
  <2>1. HandlerTypeOK'
    BY <1>3, SetBrightnessType DEF DragBrightness
  <2>2. {id} \subseteq DOMAIN lights' /\ Wanted({id}) /\ UNCHANGED <<hardwareVars, usbOut>>
    BY <1>3 DEF DragBrightness, SetBrightness, HasState, Schedule, UserUnchanged, TypeOK,
                ManagerTypeOK, IsTable
  <2> QED
    BY <2>1, <2>2, WantedType, QuietStepType
<1>4. ASSUME NEW id \in Ids, NEW mireds \in Temperatures, DragTemperature(id, mireds)
      PROVE  TypeOK'
  <2>1. HandlerTypeOK'
    BY <1>4, SetTemperatureType DEF DragTemperature
  <2>2. {id} \subseteq DOMAIN lights' /\ Wanted({id}) /\ UNCHANGED <<hardwareVars, usbOut>>
    BY <1>4 DEF DragTemperature, SetTemperature, HasState, Schedule, UserUnchanged, TypeOK,
                ManagerTypeOK, IsTable
  <2> QED
    BY <2>1, <2>2, WantedType, QuietStepType
<1>5. ASSUME NEW id \in Ids, ReleaseSlider(id)
      PROVE  TypeOK'
  <2>1. HandlerTypeOK'
    BY <1>5, FlushPendingType DEF ReleaseSlider
  <2>2. UNCHANGED <<hardwareVars, usbOut, want>>
    BY <1>5 DEF ReleaseSlider, FlushPending, UserUnchanged
  <2> QED
    BY <1>1, <2>1, <2>2, QuietStepType
<1>6. ASSUME ClickToggleAll
      PROVE  TypeOK'
  <2>1. HandlerTypeOK'
    BY <1>6, ToggleAllType DEF ClickToggleAll
  <2>2. /\ {id \in DOMAIN lights : Enabled(lights[id])} \subseteq DOMAIN lights'
        /\ Wanted({id \in DOMAIN lights : Enabled(lights[id])})
        /\ UNCHANGED <<hardwareVars, usbOut>>
    BY <1>6 DEF ClickToggleAll, ToggleAll, UserUnchanged
  <2> QED
    BY <2>1, <2>2, WantedType, QuietStepType
<1>7. ASSUME RefreshMenu
      PROVE  TypeOK'
  <2>1. HandlerTypeOK'
    BY <1>7, RefreshAllType DEF RefreshMenu
  <2>2. UNCHANGED <<hardwareVars, usbOut, want>>
    BY <1>7 DEF RefreshMenu, RefreshAll
  <2> QED
    BY <1>1, <2>1, <2>2, QuietStepType
<1> QED
  BY <1>2, <1>3, <1>4, <1>5, <1>6, <1>7 DEF User

\* The timers.
LEMMA TimersType == TypeOK /\ Timers => TypeOK'
<1> SUFFICES ASSUME TypeOK, Timers PROVE TypeOK'
  OBVIOUS
<1>1. want \in [Ids -> LightState \cup {None}]
  BY DEF TypeOK
<1>2. ASSUME RefreshTimer
      PROVE  TypeOK'
  <2>1. HandlerTypeOK'
    BY <1>2, OnRefreshTickType DEF RefreshTimer
  <2>2. UNCHANGED <<hardwareVars, usbOut, want>>
    BY <1>2 DEF RefreshTimer, OnRefreshTick
  <2> QED
    BY <1>1, <2>1, <2>2, QuietStepType
<1>3. ASSUME NEW id \in Ids, DebounceTimer(id)
      PROVE  TypeOK'
  <2>1. HandlerTypeOK'
    BY <1>3, FlushPendingType DEF DebounceTimer, DebounceFires
  <2>2. UNCHANGED <<hardwareVars, usbOut, want>>
    BY <1>3 DEF DebounceTimer, DebounceFires, FlushPending, UserUnchanged
  <2> QED
    BY <1>1, <2>1, <2>2, QuietStepType
<1> QED
  BY <1>2, <1>3 DEF Timers

\* HTTP requests served, answered and lost.
LEMMA NetworkType == TypeOK /\ Network => TypeOK'
<1> SUFFICES ASSUME TypeOK, NEW r \in DOMAIN http,
                    ServeHttp(r) \/ InfoReply(r) \/ StateReply(r) \/ PutReply(r)
                      \/ HttpFailure(r)
             PROVE  TypeOK'
  BY DEF Network
<1>1. r \in HttpRequest
  BY DEF TypeOK, HttpTypeOK
<1>2. IsABag(Untrack(r)) /\ DOMAIN Untrack(r) \subseteq HttpRequest
  BY UntrackType DEF TypeOK
<1>3. want \in [Ids -> LightState \cup {None}]
  BY DEF TypeOK
<1>4. CASE ServeHttp(r)
  <2> DEFINE d == Owner[r.address]
             served(payload) == [r EXCEPT !.served = TRUE, !.payload = payload]
  <2>1. d \in Devices
    BY <1>1, <1>4, RequestFields, HardwareAssumption DEF ServeHttp, DeviceServes
  <2>2. device[d] \in LightState
    BY <2>1 DEF TypeOK, HardwareTypeOK
  <2>3. ASSUME NEW payload \in LightState, r.kind \in {"State", "Put"}
        PROVE  served(payload) \in HttpRequest
    BY <1>1, <2>3 DEF HttpRequest, Requests
  <2> HIDE DEF d, served
  <2>4. HttpTypeOK' /\ HardwareTypeOK'
    <3>1. CASE /\ r.kind = "State"
               /\ http' = Track(Untrack(r), {served(device[d])})
               /\ UNCHANGED device
      <4>1. HttpTypeOK'
        BY <1>2, <2>2, <2>3, <3>1, TrackType DEF HttpTypeOK
      <4> QED
        BY <1>4, <3>1, <4>1 DEF ServeHttp, DeviceServes, TypeOK, HardwareTypeOK
    <3>2. CASE /\ r.kind = "Put"
               /\ http' = Track(Untrack(r), {served(r.payload)})
               /\ device' = [device EXCEPT ![d] = r.payload]
      <4>1. r.payload \in LightState
        BY <1>1, <3>2, RequestFields
      <4>2. HttpTypeOK'
        BY <1>2, <2>3, <3>2, <4>1, TrackType DEF HttpTypeOK
      <4> QED
        BY <1>4, <3>2, <4>1, <4>2 DEF ServeHttp, DeviceServes, TypeOK, HardwareTypeOK
    <3> QED
      BY <1>4, <3>1, <3>2 DEF ServeHttp, DeviceServes, d, served
  <2> QED
    BY <1>3, <1>4, <2>4
       DEF ServeHttp, TypeOK, UsbTypeOK, ManagerTypeOK, UiTypeOK, CardsTypeOK, uiVars,
           usbVars, managerVars,
           indexVars, putVars
<1>5. CASE InfoReply(r)
  <2>1. InfoOf[Owner[r.address]] \in Info
    BY <1>1, <1>5, RequestFields, HardwareAssumption DEF InfoReply, Answered
  <2>2. HandlerTypeOK'
    BY <1>2, <1>5, <2>1, OnInfoReceivedType DEF InfoReply
  <2>3. UNCHANGED <<hardwareVars, usbOut>>
    BY <1>5 DEF InfoReply, OnInfoReceived, usbVars
  <2> QED
    BY <1>5, <2>2, <2>3, DroppedType, QuietStepType DEF InfoReply
<1>6. CASE StateReply(r)
  <2>1. PICK data \in StateAnswers(r.payload) :
          /\ OnStateReceived(r.id, data, Untrack(r))
          /\ Dropped(IF data = None THEN {} ELSE {r.id})
    BY <1>6 DEF StateReply
  <2>2. data \in LightState \cup {None}
    BY <1>1, <1>6, <2>1, RequestFields DEF StateReply, Answered, StateAnswers
  <2>3. HandlerTypeOK'
    BY <1>2, <2>1, <2>2, OnStateReceivedType
  <2> QED
    BY <1>6, <2>1, <2>3, DroppedType, QuietStepType DEF StateReply
<1>7. CASE PutReply(r)
  <2>1. HandlerTypeOK'
    BY <1>2, <1>7, OnPutSucceededType DEF PutReply
  <2> QED
    BY <1>3, <1>7, <2>1, QuietStepType DEF PutReply
<1>8. CASE HttpFailure(r)
  <2>1. HandlerTypeOK'
    BY <1>2, <1>8, OnRequestFailedType DEF HttpFailure
  <2> QED
    BY <1>8, <2>1, DroppedType, QuietStepType DEF HttpFailure
<1> QED
  BY <1>4, <1>5, <1>6, <1>7, <1>8

\* The worker turns the oldest call into a result.
LEMMA FinishType ==
  ASSUME TypeOK, usbIn # <<>>, NEW result \in UsbResult, Finish(result)
  PROVE  UsbTypeOK'
BY DEF Finish, TypeOK, UsbTypeOK

\* The worker's slots.
LEMMA WorkerType == TypeOK /\ WorkerStep => TypeOK'
<1> SUFFICES ASSUME TypeOK, WorkerStep PROVE TypeOK'
  OBVIOUS
<1> DEFINE call == Head(usbIn)
<1>1. usbIn # <<>> /\ UNCHANGED plugged
  BY DEF WorkerStep, Enumerate, ProbeInfo, ServeRequest, FailExchange, Finish
<1>2. call \in UsbCall
  BY <1>1 DEF TypeOK, UsbTypeOK
<1>3. ASSUME NEW d \in Devices, NEW state \in LightState
      PROVE  [device EXCEPT ![d] = state] \in [Devices -> LightState]
  BY DEF TypeOK, HardwareTypeOK
<1>4. device \in [Devices -> LightState] /\ plugged \in [UsbPaths -> Devices \cup {None}]
  BY DEF TypeOK, HardwareTypeOK
<1>5. ASSUME call.path \in Present
      PROVE  plugged[call.path] \in Devices
  BY <1>4, <1>5 DEF Present
<1>6. /\ call.op = "enumerate" => call = EnumerateCall
      /\ call.op = "probe" => call \in Probe
      /\ call.op = "request" => call \in LightCall
      /\ call.kind = "Put" => call.op = "request" /\ call.body \in LightState
      /\ call.op \in {"enumerate", "probe", "request"}
  BY <1>2 DEF UsbCall, EnumerateCall, Probe, LightCall
<1> HIDE DEF call
<1>7. UsbTypeOK' /\ device' \in [Devices -> LightState]
  <2>1. CASE Enumerate
    <3>1. ASSUME NEW paths \in {Present, {}}
          PROVE  [Result("enumerated", call) EXCEPT !.paths = paths] \in UsbResult
      BY <1>6, <2>1 DEF Enumerate, Result, UsbResult, Present, call
    <3> QED
      BY <1>1, <1>4, <2>1, <3>1, FinishType DEF Enumerate, call
  <2>2. CASE ProbeInfo
    <3>1. InfoOf[plugged[call.path]] \in Info
      BY <1>5, <2>2, HardwareAssumption DEF ProbeInfo, call
    <3>2. [Result("infoReady", call) EXCEPT !.info = InfoOf[plugged[call.path]]] \in UsbResult
      BY <1>6, <2>2, <3>1 DEF ProbeInfo, Result, UsbResult, call
    <3> QED
      BY <1>1, <1>4, <2>2, <3>2, FinishType DEF ProbeInfo, call
  <2>3. CASE ServeRequest
    <3>1. call \in LightCall /\ plugged[call.path] \in Devices
      BY <1>5, <1>6, <2>3 DEF ServeRequest, call
    <3>2. device[plugged[call.path]] \in LightState
      BY <1>4, <3>1
    <3>3. /\ [Result("requestDone", call) EXCEPT !.data = device[plugged[call.path]]] \in UsbResult
          /\ Result("requestDone", call) \in UsbResult
      BY <3>1, <3>2 DEF Result, UsbResult
    <3>4. UsbTypeOK'
      BY <1>1, <2>3, <3>3, FinishType DEF ServeRequest, call
    <3>5. device' \in [Devices -> LightState]
      BY <1>3, <1>4, <1>6, <2>3, <3>1 DEF ServeRequest, call
    <3> QED
      BY <3>4, <3>5
  <2>4. CASE FailExchange
    <3>1. Result(IF call.op = "probe" THEN "infoFailed" ELSE "requestFailed", call) \in UsbResult
      BY <1>6, <2>4 DEF FailExchange, Result, UsbResult, call
    <3>2. UsbTypeOK'
      BY <1>1, <2>4, <3>1, FinishType DEF FailExchange, call
    <3>3. device' \in [Devices -> LightState]
      BY <1>3, <1>4, <1>5, <1>6, <2>4 DEF FailExchange, call
    <3> QED
      BY <3>2, <3>3
  <2> QED
    BY <2>1, <2>2, <2>3, <2>4 DEF WorkerStep
<1>8. HardwareTypeOK'
  BY <1>1, <1>4, <1>7 DEF HardwareTypeOK
<1> QED
  BY <1>7, <1>8
     DEF WorkerStep, TypeOK, HttpTypeOK, ManagerTypeOK, UiTypeOK, CardsTypeOK, uiVars,
         managerVars, indexVars,
         putVars

\* The USB thread and its results.
LEMMA UsbType == TypeOK /\ Usb => TypeOK'
<1> SUFFICES ASSUME TypeOK, Usb PROVE TypeOK'
  OBVIOUS
<1> DEFINE result == Head(usbOut)
<1>1. CASE WorkerStep
  BY <1>1, WorkerType
<1>2. ASSUME NEW signal, Delivered(signal)
      PROVE  /\ result \in UsbResult /\ result.signal = signal
             /\ usbOut' \in Seq(UsbResult) /\ HardwareTypeOK'
  BY <1>2 DEF Delivered, TypeOK, UsbTypeOK, HardwareTypeOK, hardwareVars
<1>3. want \in [Ids -> LightState \cup {None}]
  BY DEF TypeOK
<1>4. IsABag(http) /\ DOMAIN http \subseteq HttpRequest
  BY DEF TypeOK, HttpTypeOK
<1>5. CASE UsbEnumerated
  <2>1. result.paths \in SUBSET UsbPaths
    BY <1>2, <1>5, ResultFields DEF UsbEnumerated
  <2>2. HandlerTypeOK'
    BY <1>5, <2>1, OnUsbEnumeratedType DEF UsbEnumerated
  <2> QED
    BY <1>2, <1>3, <1>5, <2>2, StepType DEF UsbEnumerated
<1>6. CASE UsbInfoReady
  <2>1. result.call.path \in UsbPaths /\ result.info \in Info
    BY <1>2, <1>6, ResultFields DEF UsbInfoReady
  <2>2. HandlerTypeOK'
    BY <1>6, <2>1, OnUsbInfoReadyType DEF UsbInfoReady
  <2> QED
    BY <1>2, <1>3, <1>6, <2>2, StepType DEF UsbInfoReady
<1>7. CASE UsbInfoFailed
  <2>1. HandlerTypeOK'
    BY <1>7, OnUsbInfoFailedType DEF UsbInfoFailed
  <2> QED
    BY <1>2, <1>3, <1>7, <2>1, StepType DEF UsbInfoFailed
<1>8. CASE UsbRequestDone
  <2>1. result.call.id \in Ids /\ result.data \in LightState \cup {None}
    BY <1>2, <1>8, ResultFields DEF UsbRequestDone
  <2>2. CASE OnPutSucceeded(result.call.id, http) /\ UNCHANGED want
    <3>1. HandlerTypeOK'
      BY <1>4, <2>2, OnPutSucceededType
    <3> QED
      BY <1>2, <1>3, <1>8, <2>2, <3>1, StepType DEF UsbRequestDone
  <2>3. ASSUME NEW data \in StateAnswers(result.data),
               OnStateReceived(result.call.id, data, http),
               Dropped(IF data = None THEN {} ELSE {result.call.id})
        PROVE  TypeOK'
    <3>1. data \in LightState \cup {None}
      BY <2>1 DEF StateAnswers
    <3>2. HandlerTypeOK'
      BY <1>4, <2>3, <3>1, OnStateReceivedType
    <3> QED
      BY <1>2, <1>8, <2>3, <3>2, DroppedType, StepType DEF UsbRequestDone
  <2> QED
    BY <1>8, <2>2, <2>3 DEF UsbRequestDone
<1>9. CASE UsbRequestFailed
  <2>1. HandlerTypeOK'
    BY <1>4, <1>9, OnRequestFailedType DEF UsbRequestFailed
  <2> QED
    BY <1>2, <1>9, <2>1, DroppedType, StepType DEF UsbRequestFailed
<1> QED
  BY <1>1, <1>5, <1>6, <1>7, <1>8, <1>9 DEF Usb

\* A stuttering step.
LEMMA StutterType == TypeOK /\ UNCHANGED vars => TypeOK'
BY DEF vars, TypeOK, HardwareTypeOK, HttpTypeOK, UsbTypeOK, ManagerTypeOK, UiTypeOK,
       CardsTypeOK, uiVars,
       hardwareVars, usbVars, managerVars, indexVars, putVars

\* Every variable keeps its type in every run of the application, for any
\* devices, paths, services and bounds: no table ever holds an empty identity,
\* no PUT is sent without a state, no probe without a path.
THEOREM TypeCorrect == Spec => []TypeOK
<1>1. TypeOK /\ [Next]_vars => TypeOK'
  BY EnvironmentType, UserType, TimersType, NetworkType, UsbType, StutterType DEF Next
<1> QED
  BY InitType, <1>1, PTL DEF Spec

===============================================================================
