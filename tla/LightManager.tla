----------------------------- MODULE LightManager -----------------------------
(***************************************************************************)
(* src/src/lightmanager.cpp: the cache of lights and the handlers that     *)
(* keep it, all on the main thread, so that a handler is one step.  HTTP   *)
(* replies, USB results, mDNS events, timers and user actions interleave   *)
(* between handlers.  One operator per handler; a handler of a result is   *)
(* given the HTTP requests that stay pending after it, and its caller      *)
(* takes the result from usbOut.                                           *)
(*                                                                         *)
(* The iteration order of a QHash is unknown: a loop over one is a set,    *)
(* and the calls it queues for the USB worker come in any order.           *)
(***************************************************************************)
EXTENDS HttpTransport, UsbNeoWorker, TrayApp, SequencesExt

VARIABLES
  lights,           \* id -> KeyLightRecord: the cache
  byService,        \* mDNS service name -> id
  byUsbPath,        \* hidapi path -> id
  bySerial,         \* serial number -> id
  usbPending,       \* paths awaiting accessory-info
  inflight,         \* ids with a PUT in flight
  dirty,            \* ids to resend when that PUT succeeds
  announcePending,  \* ids whose next state result should announce
  debounce,         \* ids whose debounce timer is active
  refreshTicks      \* m_refreshTicks % 3, all that is ever read of it

kOfflineProbe == 3

indexVars == <<byService, byUsbPath, bySerial>>
putVars == <<inflight, dirty>>
managerVars == <<lights, indexVars, usbPending, putVars, announcePending, debounce,
                 refreshTicks, uiVars>>

ManagerTypeOK ==
  /\ IsTable(lights, Ids, KeyLightRecord)
  /\ IsTable(byService, ServiceNames, Ids)
  /\ IsTable(byUsbPath, UsbPaths, Ids)
  /\ IsTable(bySerial, Serials, Ids)
  /\ usbPending \subseteq UsbPaths
  /\ inflight \subseteq Ids /\ dirty \subseteq Ids
  /\ announcePending \subseteq Ids /\ debounce \subseteq Ids
  /\ refreshTicks \in 0 .. kOfflineProbe - 1
  /\ UiTypeOK

\* start(): the first scan is queued before the event loop runs.
ManagerInit ==
  /\ lights = EmptyTable
  /\ byService = EmptyTable /\ byUsbPath = EmptyTable /\ bySerial = EmptyTable
  /\ usbPending = {} /\ inflight = {} /\ dirty = {}
  /\ announcePending = {} /\ debounce = {} /\ refreshTicks = 0
  /\ UiInit
  /\ HttpInit /\ usbIn = <<EnumerateCall>> /\ usbOut = <<>>

-------------------------------------------------------------------------------
(* Requests.  S is a set of identities cached in L.                        *)

Over(transport, L, S) == {id \in S : L[id].transport = transport}

\* Queue these calls for the USB worker, in whatever order the loop runs.
Queue(calls) == \E order \in SetToSeqs(calls) : usbIn' = usbIn \o order

StateCalls(L, S) ==
  {RequestCall(id, L[id].usbPath, "State", None) : id \in Over("Usb", L, S)}
\* Mutant: the body is taken from the cache before the user's change.
PutCallsOfCache(L, S) ==
  {RequestCall(id, L[id].usbPath, "Put", BuildLightsBody(lights[id].state)) :
     id \in Over("Usb", L, S)}
PutCalls(L, S) ==
  {RequestCall(id, L[id].usbPath, "Put", BuildLightsBody(L[id].state)) :
     id \in Over("Usb", L, S)}

StateRequests(L, S) == {GetLights(id, L[id]) : id \in Over("Http", L, S)}
PutRequests(L, S) == {PutLights(id, L[id], L[id].state) : id \in Over("Http", L, S)}

\* fetchState for each of S.
FetchState(L, S) ==
  /\ http' = Track(http, StateRequests(L, S))
  /\ Queue(StateCalls(L, S))

Flushable(L, S) == {id \in S \cap DOMAIN L : L[id].state # None}

\* Mutant: without the test of m_inflight.
FlushAlways(L, S, running, marked, pending) ==
  LET sent == Flushable(L, S)
  IN  /\ dirty' = marked
      /\ inflight' = running \cup sent
      /\ http' = Track(pending, PutRequests(L, sent))
      /\ Queue(PutCalls(L, sent))

\* Mutant: without m_dirty.insert.
FlushForgetting(L, S, running, marked, pending) ==
  LET sent == Flushable(L, S) \ running
  IN  /\ dirty' = marked
      /\ inflight' = running \cup sent
      /\ http' = Track(pending, PutRequests(L, sent))
      /\ Queue(PutCalls(L, sent))

(***************************************************************************)
(* flush for each of S: one PUT in flight per light, with a snapshot of    *)
(* the cached state; a light whose PUT is still running is marked dirty.   *)
(***************************************************************************)
Flush(L, S, running, marked, pending) ==
  LET waiting == Flushable(L, S) \cap running
      sent == Flushable(L, S) \ running
  IN  /\ dirty' = marked \cup waiting
      /\ inflight' = running \cup sent
      /\ http' = Track(pending, PutRequests(L, sent))
      /\ Queue(PutCalls(L, sent))

-------------------------------------------------------------------------------
(* Discovery.                                                              *)

\* Mutant: the TXT record as it is, without normalizeMac.
ServiceIdAsWritten(service) ==
  IF service.mac = None THEN service.displayName ELSE service.mac
ServiceId(service) ==
  IF service.mac = None THEN service.displayName ELSE NormalizeMac(service.mac)

OnDiscovered(service) ==
  LET id == ServiceId(service)
      known == id \in DOMAIN lights
      light == [(IF known THEN lights[id] ELSE NewKeyLight) EXCEPT
                  !.address = service.address]
      info == IF known THEN {} ELSE {GetInfo(id, light)}
  IN  /\ byService' = Bind(byService, service.serviceName, id)
      /\ lights' = Bind(lights, id, light)
      /\ announcePending' = IF light.online THEN announcePending
                                            ELSE announcePending \cup {id}
      /\ http' = Track(http, info \cup StateRequests(lights', {id}))
      /\ Queue(StateCalls(lights', {id}))
      /\ UNCHANGED <<byUsbPath, bySerial, usbPending, putVars, debounce,
                     refreshTicks, uiVars, usbOut>>

OnServiceRemoved(name) ==
  LET gone == {id \in DOMAIN lights : id = Lookup(byService, name) /\ lights[id].online}
  IN  /\ byService' = Unbind(byService, name)
      /\ lights' = [id \in DOMAIN lights |->
                      [lights[id] EXCEPT !.online = @ /\ id \notin gone]]
      /\ Emit(lights', {}, gone, {})
      /\ UNCHANGED <<byUsbPath, bySerial, usbPending, putVars, announcePending,
                     debounce, refreshTicks, http, usbVars>>

-------------------------------------------------------------------------------
(* Two entries for one device.                                             *)

Merged(keep, drop) ==
  LET gainsPath == keep.usbPath = None /\ drop.usbPath # None
  IN  [keep EXCEPT
         !.address = IF @ = None THEN drop.address ELSE @,
         !.serial = IF @ = None THEN drop.serial ELSE @,
         !.usbPath = IF gainsPath THEN drop.usbPath ELSE @,
         !.transport = IF gainsPath THEN "Usb" ELSE @]

\* Mutant: merge leaves the tables alone.
RepointNothing(table, from, to) == table
Repoint(table, from, to) ==
  [k \in DOMAIN table |-> IF table[k] = from THEN to ELSE table[k]]

\* What the code keeps under dropId elsewhere (a PUT in flight, a debounce
\* timer, a pending announcement) stays.
Merge(L, keepId, dropId) ==
  IF {keepId, dropId} \subseteq DOMAIN L /\ keepId # dropId
  THEN /\ lights' = Unbind([L EXCEPT ![keepId] = Merged(@, L[dropId])], dropId)
       /\ byService' = Repoint(byService, dropId, keepId)
       /\ bySerial' = Repoint(bySerial, dropId, keepId)
       /\ byUsbPath' = Repoint(byUsbPath, dropId, keepId)
       /\ Emit(lights', {}, {keepId}, {dropId})
  ELSE lights' = L /\ UNCHANGED <<indexVars, uiVars>>

OnInfoReceived(id, info, pending) ==
  LET other == Lookup(bySerial, info.serial)
      named == [lights EXCEPT ![id].serial = info.serial]
  IN  /\ \/ /\ id \notin DOMAIN lights
            /\ UNCHANGED <<lights, indexVars, uiVars>>
         \/ /\ id \in DOMAIN lights /\ info.serial = None
            /\ Emit(lights, {}, {id}, {})
            /\ UNCHANGED <<lights, indexVars>>
         \/ /\ id \in DOMAIN lights /\ info.serial # None /\ other \in {None, id}
            /\ lights' = named
            /\ bySerial' = Bind(bySerial, info.serial, id)
            /\ Emit(named, {}, {id}, {})
            /\ UNCHANGED <<byService, byUsbPath>>
         \/ /\ id \in DOMAIN lights /\ info.serial # None /\ other \notin {None, id}
            /\ Merge(named, other, id)
      /\ http' = pending
      /\ UNCHANGED <<usbPending, putVars, announcePending, debounce, refreshTicks, usbVars>>

-------------------------------------------------------------------------------
(* Results of requests.                                                    *)

\* data is None when the answer has no "lights" array: online all the same.
OnStateReceived(id, data, pending) ==
  /\ announcePending' = announcePending \ {id}
  /\ IF id \notin DOMAIN lights
     THEN UNCHANGED <<lights, uiVars>>
     ELSE LET announced == {i \in {id} \cap announcePending : ~lights[i].online}
          IN  /\ lights' = [lights EXCEPT ![id].failCount = 0, ![id].online = TRUE,
                                          ![id].state = IF data = None THEN @ ELSE data]
              /\ Emit(lights', announced, {id} \ announced, {})
  /\ http' = pending
  /\ UNCHANGED <<indexVars, usbPending, putVars, debounce, refreshTicks, usbIn>>

\* onIoFail.  failCount is only ever compared with the limit: it saturates.
Failed(light) ==
  LET count == IF light.failCount < kFailLimit THEN light.failCount + 1 ELSE kFailLimit
  IN  [light EXCEPT !.failCount = count, !.online = @ /\ count < kFailLimit]

OnIoFail(id) ==
  IF id \notin DOMAIN lights
  THEN UNCHANGED <<lights, uiVars>>
  ELSE /\ lights' = [lights EXCEPT ![id] = Failed(@)]
       /\ Emit(lights', {}, {i \in {id} : lights[i].online /\ ~lights'[i].online}, {})

OnPutSucceeded(id, pending) ==
  /\ lights' = [i \in DOMAIN lights |->
                  IF i = id THEN [lights[i] EXCEPT !.failCount = 0, !.online = TRUE]
                            ELSE lights[i]]
  /\ Emit(lights', {}, {id}, {})
  /\ Flush(lights', {id} \cap dirty, inflight \ {id}, dirty \ {id}, pending)
  /\ UNCHANGED <<indexVars, usbPending, announcePending, debounce, refreshTicks>>

\* Mutant: without m_dirty.remove.
GiveUpKeepingDirty(id) == inflight' = inflight \ {id} /\ UNCHANGED dirty
\* A failed PUT takes the change waiting behind it along.
GiveUp(id) == inflight' = inflight \ {id} /\ dirty' = dirty \ {id}

OnRequestFailed(id, kind, pending) ==
  /\ \/ /\ kind = "Put"
        /\ GiveUp(id)
        /\ OnIoFail(id)
     \/ /\ kind = "State"
        /\ OnIoFail(id)
        /\ UNCHANGED putVars
     \/ /\ kind = "Info"
        /\ UNCHANGED <<lights, uiVars, putVars>>
  /\ http' = pending
  /\ UNCHANGED <<indexVars, usbPending, announcePending, debounce, refreshTicks, usbIn>>

-------------------------------------------------------------------------------
(* USB reconciliation.                                                     *)

\* Mutant: without usbPath.clear.
UnpluggedKeepingPath(light) == [light EXCEPT !.online = FALSE]
\* Mutant: falls back to HTTP without an address.
UnpluggedToHttp(light) == [light EXCEPT !.usbPath = None, !.transport = "Http"]
\* onUsbRemoved, for the light the path led to.
Unplugged(light) ==
  IF light.address # None
  THEN [light EXCEPT !.usbPath = None, !.transport = "Http"]
  ELSE [light EXCEPT !.usbPath = None, !.online = FALSE]

\* Mutant: without the test of m_usbPending.
FreshIgnoringPending(paths) == paths \ DOMAIN byUsbPath
Fresh(paths) == paths \ (DOMAIN byUsbPath \cup usbPending)

OnUsbEnumerated(paths) ==
  LET fresh == Fresh(paths)
      gone == DOMAIN byUsbPath \ paths
      orphaned == {id \in DOMAIN lights : \E p \in gone : byUsbPath[p] = id}
      changed == {id \in orphaned : lights[id].address # None \/ lights[id].online}
  IN  /\ usbPending' = (usbPending \cup fresh) \ gone
      /\ Queue({ProbeCall(p) : p \in fresh})
      /\ byUsbPath' = [p \in DOMAIN byUsbPath \ gone |-> byUsbPath[p]]
      /\ lights' = [id \in DOMAIN lights |->
                      IF id \in orphaned THEN Unplugged(lights[id]) ELSE lights[id]]
      /\ Emit(lights', {}, changed, {})
      /\ UNCHANGED <<byService, bySerial, putVars, announcePending, debounce,
                     refreshTicks, http>>

UsbId(path, info) ==
  IF info.mac # None THEN NormalizeMac(info.mac)
  ELSE IF info.serial # None THEN info.serial
  ELSE UsbName[path]

\* Mutant: without the lookup in m_bySerial.
KnownAsItself(id, serial) == id
\* A device already known under another identity is found by its serial.
KnownAs(id, serial) ==
  IF id \notin DOMAIN lights /\ Lookup(bySerial, serial) \in DOMAIN lights
  THEN bySerial[serial] ELSE id

OnUsbInfoReady(path, info) ==
  LET id == KnownAs(UsbId(path, info), info.serial)
      existing == {id} \cap DOMAIN lights
      light == [(IF existing = {} THEN NewKeyLight ELSE lights[id]) EXCEPT
                  !.usbPath = path, !.transport = "Usb",
                  !.serial = IF info.serial = None THEN @ ELSE info.serial]
  IN  /\ usbPending' = usbPending \ {path}
      /\ byUsbPath' = Bind(byUsbPath, path, id)
      /\ bySerial' = IF info.serial = None THEN bySerial
                                           ELSE Bind(bySerial, info.serial, id)
      /\ lights' = Bind(lights, id, light)
      /\ announcePending' = announcePending \cup ({id} \ existing)
      /\ FetchState(lights', {id})
      /\ Emit(lights', {}, existing, {})
      /\ UNCHANGED <<byService, putVars, debounce, refreshTicks>>

\* Mutant: without m_usbPending.remove.
OnUsbInfoFailedKeepingPending(path) ==
  UNCHANGED <<managerVars, http, usbIn>>

\* The path stays out of the tables: the next scan retries it.
OnUsbInfoFailed(path) ==
  /\ usbPending' = usbPending \ {path}
  /\ UNCHANGED <<lights, indexVars, putVars, announcePending, debounce, refreshTicks,
                 uiVars, http, usbIn>>

-------------------------------------------------------------------------------
(* Refresh.                                                                *)

RefreshAll ==
  /\ FetchState(lights, DOMAIN lights \ inflight)
  /\ UNCHANGED <<managerVars, usbOut>>

\* Mutant: offline lights are never probed.
DueOnline(tick) == {id \in DOMAIN lights \ inflight : lights[id].online}
\* Mutant: online lights are never polled.
DueOffline(tick) == {id \in DOMAIN lights \ inflight : ~lights[id].online /\ tick = 0}
\* Offline lights are probed every third tick only.
Due(tick) == {id \in DOMAIN lights \ inflight : lights[id].online \/ tick = 0}

OnRefreshTick ==
  /\ refreshTicks' = (refreshTicks + 1) % kOfflineProbe
  /\ http' = Track(http, StateRequests(lights, Due(refreshTicks')))
  /\ \E order \in SetToSeqs(StateCalls(lights, Due(refreshTicks'))) :
       usbIn' = usbIn \o <<EnumerateCall>> \o order
  /\ UNCHANGED <<lights, indexVars, usbPending, putVars, announcePending, debounce,
                 uiVars, usbOut>>

-------------------------------------------------------------------------------
(* User intents.                                                           *)

HasState(id) == id \in DOMAIN lights /\ lights[id].state # None

UserUnchanged == UNCHANGED <<indexVars, usbPending, announcePending, refreshTicks,
                             uiVars, usbOut>>

SetOn(id, on) ==
  /\ HasState(id)
  /\ lights' = [lights EXCEPT ![id].state.on = on]
  /\ Flush(lights', {id}, inflight, dirty, http)
  /\ UserUnchanged /\ UNCHANGED debounce

\* schedule(): (re)start the trailing timer of the light.
Schedule(id) ==
  /\ debounce' = debounce \cup {id}
  /\ UserUnchanged /\ UNCHANGED <<putVars, http, usbIn>>

SetBrightness(id, value) ==
  /\ HasState(id)
  /\ lights' = [lights EXCEPT ![id].state.brightness = ClampInt(value, 0, 100)]
  /\ Schedule(id)

SetTemperature(id, mireds) ==
  /\ HasState(id)
  /\ lights' = [lights EXCEPT ![id].state.temperature =
                                ClampInt(mireds, kMiredMin, kMiredMax)]
  /\ Schedule(id)

AnyOn == \E id \in DOMAIN lights : Enabled(lights[id]) /\ lights[id].state.on

ToggleAll ==
  LET S == {id \in DOMAIN lights : Enabled(lights[id])}
  IN  /\ lights' = [id \in DOMAIN lights |->
                      IF id \in S THEN [lights[id] EXCEPT !.state.on = ~AnyOn]
                                  ELSE lights[id]]
      /\ Flush(lights', S, inflight, dirty, http)
      /\ UserUnchanged /\ UNCHANGED debounce

\* flushPending, on slider release: stop the timer and send now.
FlushPending(id) ==
  /\ debounce' = debounce \ {id}
  /\ Flush(lights, {id}, inflight, dirty, http)
  /\ UserUnchanged /\ UNCHANGED lights

DebounceFires(id) == id \in debounce /\ FlushPending(id)

===============================================================================
