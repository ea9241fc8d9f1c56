---------------------------- MODULE KeyLightSystem ----------------------------
(***************************************************************************)
(* The running application: the manager on the main thread, the requests   *)
(* on the network, the USB worker on its thread, the user at the cards,    *)
(* and an environment that plugs and unplugs cables, announces and removes *)
(* mDNS services, and loses requests.                                      *)
(***************************************************************************)
EXTENDS LightManager

CONSTANTS
  MaxHttp,      \* discovery and refresh wait while this many HTTP requests are pending,
  MaxUsb,       \* or while this many USB calls and results are queued
  OddAnswers    \* may a device answer a State request without "lights"?

VARIABLE want   \* ghost: the state the user last asked for, until the program
                \* gives it up (a failed PUT) or hears otherwise from the light

vars == <<hardwareVars, http, usbVars, managerVars, want>>

ASSUME SystemAssumption ==
  MaxHttp \in Nat /\ MaxUsb \in Nat /\ OddAnswers \in BOOLEAN

TypeOK ==
  /\ HardwareTypeOK
  /\ HttpTypeOK
  /\ UsbTypeOK
  /\ ManagerTypeOK
  /\ want \in [Ids -> LightState \cup {None}]

Init ==
  /\ HardwareInit
  /\ ManagerInit
  /\ want = [id \in Ids |-> None]

-------------------------------------------------------------------------------
(* The bounds hold back what could fill the queues: discovery and refresh. *)
(* The user is never held back, for a light has one PUT in flight, and     *)
(* work that has started runs to its end.                                  *)

Room == BagCardinality(http) < MaxHttp /\ Len(usbIn) + Len(usbOut) < MaxUsb

Wanted(S) == want' = [id \in Ids |-> IF id \in S THEN lights'[id].state ELSE want[id]]
Dropped(S) == want' = [id \in Ids |-> IF id \in S THEN None ELSE want[id]]

Discover(service) ==
  /\ Room
  /\ OnDiscovered(service)
  /\ UNCHANGED <<hardwareVars, want>>

ServiceGone(name) ==
  /\ name \in DOMAIN byService
  /\ OnServiceRemoved(name)
  /\ UNCHANGED <<hardwareVars, want>>

RefreshTimer ==
  /\ Room
  /\ OnRefreshTick
  /\ UNCHANGED <<hardwareVars, want>>

RefreshMenu ==
  /\ Room
  /\ RefreshAll
  /\ UNCHANGED <<hardwareVars, want>>

-------------------------------------------------------------------------------
(* The user acts through a card whose controls are enabled.                *)

Operable(id) == id \in DOMAIN cards /\ cards[id]

ClickOn(id, on) ==
  /\ Operable(id)
  /\ SetOn(id, on)
  /\ Wanted({id}) /\ UNCHANGED hardwareVars

DragBrightness(id, value) ==
  /\ Operable(id)
  /\ SetBrightness(id, value)
  /\ Wanted({id}) /\ UNCHANGED hardwareVars

DragTemperature(id, mireds) ==
  /\ Operable(id)
  /\ SetTemperature(id, mireds)
  /\ Wanted({id}) /\ UNCHANGED hardwareVars

\* A slider may be released after its card was disabled.
ReleaseSlider(id) ==
  /\ id \in DOMAIN cards
  /\ FlushPending(id)
  /\ UNCHANGED <<hardwareVars, want>>

\* From the header button, the tray menu, or a middle click on the icon.
ClickToggleAll ==
  /\ ToggleAll
  /\ Wanted({id \in DOMAIN lights : Enabled(lights[id])})
  /\ UNCHANGED hardwareVars

DebounceTimer(id) ==
  /\ DebounceFires(id)
  /\ UNCHANGED <<hardwareVars, want>>

-------------------------------------------------------------------------------
(* The network.                                                            *)

ServeHttp(request) ==
  /\ DeviceServes(request)
  /\ UNCHANGED <<usbVars, managerVars, want>>

\* merge forgets dropId, and with it what the user wanted there.
InfoReply(request) ==
  /\ Answered(request) /\ request.kind = "Info"
  /\ OnInfoReceived(request.id, InfoOf[Owner[request.address]], Untrack(request))
  /\ Dropped(DOMAIN lights \ DOMAIN lights')
  /\ UNCHANGED hardwareVars

StateAnswers(state) == {state} \cup IF OddAnswers THEN {None} ELSE {}

StateReply(request) ==
  /\ Answered(request) /\ request.kind = "State"
  /\ \E data \in StateAnswers(request.payload) :
       /\ OnStateReceived(request.id, data, Untrack(request))
       /\ Dropped(IF data = None THEN {} ELSE {request.id})
  /\ UNCHANGED <<hardwareVars, usbOut>>

PutReply(request) ==
  /\ Answered(request) /\ request.kind = "Put"
  /\ OnPutSucceeded(request.id, Untrack(request))
  /\ UNCHANGED <<hardwareVars, usbOut, want>>

\* A refused connection, the 2.5 s timeout, a status that is not 2xx, a body
\* that is not a JSON object.
HttpFailure(request) ==
  /\ OnRequestFailed(request.id, request.kind, Untrack(request))
  /\ Dropped(IF request.kind = "Put" THEN {request.id} ELSE {})
  /\ UNCHANGED <<hardwareVars, usbOut>>

-------------------------------------------------------------------------------
(* The USB cable and the USB thread.                                       *)

PlugIn(d, path) ==
  /\ Plug(d, path)
  /\ UNCHANGED <<http, usbVars, managerVars, want>>

PullOut(path) ==
  /\ Unplug(path)
  /\ UNCHANGED <<http, usbVars, managerVars, want>>

WorkerStep ==
  /\ Enumerate \/ ProbeInfo \/ ServeRequest \/ FailExchange
  /\ UNCHANGED <<http, managerVars, want>>

\* The oldest result, delivered to the main thread.
Delivered(signal) ==
  /\ usbOut # <<>> /\ Head(usbOut).signal = signal
  /\ usbOut' = Tail(usbOut)
  /\ UNCHANGED hardwareVars

UsbEnumerated ==
  /\ Delivered("enumerated")
  /\ OnUsbEnumerated(Head(usbOut).paths)
  /\ UNCHANGED want

UsbInfoReady ==
  /\ Delivered("infoReady")
  /\ OnUsbInfoReady(Head(usbOut).call.path, Head(usbOut).info)
  /\ UNCHANGED want

UsbInfoFailed ==
  /\ Delivered("infoFailed")
  /\ OnUsbInfoFailed(Head(usbOut).call.path)
  /\ UNCHANGED want

UsbRequestDone ==
  LET call == Head(usbOut).call
  IN  /\ Delivered("requestDone")
      /\ \/ /\ call.kind = "Put"
            /\ OnPutSucceeded(call.id, http)
            /\ UNCHANGED want
         \/ /\ call.kind = "State"
            /\ \E data \in StateAnswers(Head(usbOut).data) :
                 /\ OnStateReceived(call.id, data, http)
                 /\ Dropped(IF data = None THEN {} ELSE {call.id})

UsbRequestFailed ==
  LET call == Head(usbOut).call
  IN  /\ Delivered("requestFailed")
      /\ OnRequestFailed(call.id, call.kind, http)
      /\ Dropped(IF call.kind = "Put" THEN {call.id} ELSE {})

-------------------------------------------------------------------------------
Environment ==
  \/ \E s \in Services : Discover(s)
  \/ \E name \in ServiceNames : ServiceGone(name)
  \/ \E d \in Devices, p \in UsbPaths : PlugIn(d, p)
  \/ \E p \in UsbPaths : PullOut(p)

User ==
  \/ \E id \in Ids, on \in BOOLEAN : ClickOn(id, on)
  \/ \E id \in Ids, value \in Brightnesses : DragBrightness(id, value)
  \/ \E id \in Ids, mireds \in Temperatures : DragTemperature(id, mireds)
  \/ \E id \in Ids : ReleaseSlider(id)
  \/ ClickToggleAll
  \/ RefreshMenu

Timers ==
  \/ RefreshTimer
  \/ \E id \in Ids : DebounceTimer(id)

Network == \E r \in DOMAIN http :
  ServeHttp(r) \/ InfoReply(r) \/ StateReply(r) \/ PutReply(r) \/ HttpFailure(r)

Usb ==
  \/ WorkerStep
  \/ UsbEnumerated \/ UsbInfoReady \/ UsbInfoFailed
  \/ UsbRequestDone \/ UsbRequestFailed

Next == Environment \/ User \/ Timers \/ Network \/ Usb

Spec == Init /\ [][Next]_vars

\* The application while nobody touches its controls.
Unattended == Environment \/ RefreshTimer \/ Network \/ Usb

UnattendedSpec == Init /\ [][Unattended]_vars

\* The user has the power buttons only.
PowerButtons ==
  \/ Unattended
  \/ \E id \in Ids, on \in BOOLEAN : ClickOn(id, on)
  \/ ClickToggleAll

PowerSpec == Init /\ [][PowerButtons]_vars

(***************************************************************************)
(* Fairness.  The refresh timer never stops (the bounds that hold it back  *)
(* are the model's, hence SF).  A debounce timer fires: nobody drags       *)
(* forever.  Each HTTP request ends, by its 2.5 s timeout at the latest;   *)
(* the worker and the event loops go on.  A device that is there answers   *)
(* now and then: not every request to it fails.                            *)
(***************************************************************************)
Ends(r) ==
  r \in DOMAIN http /\ (InfoReply(r) \/ StateReply(r) \/ PutReply(r) \/ HttpFailure(r))

Served(id) == \E r \in DOMAIN http : r.id = id /\ r.kind = "State" /\ ServeHttp(r)
Heard(id) == \E r \in DOMAIN http : r.id = id /\ StateReply(r)

UsbServed(id) == WorkerStep /\ ServeRequest /\ Head(usbIn).id = id

UsbDelivery ==
  UsbEnumerated \/ UsbInfoReady \/ UsbInfoFailed \/ UsbRequestDone \/ UsbRequestFailed

Fairness ==
  /\ SF_vars(RefreshTimer)
  /\ \A id \in Ids : WF_vars(DebounceTimer(id))
  /\ \A r \in HttpRequest : WF_vars(Ends(r))
  /\ \A id \in Ids : SF_vars(Served(id)) /\ SF_vars(Heard(id)) /\ SF_vars(UsbServed(id))
  /\ WF_vars(WorkerStep) /\ WF_vars(UsbDelivery)
  /\ SF_vars(WorkerStep /\ ProbeInfo)

FairSpec == Spec /\ Fairness
FairUnattendedSpec == UnattendedSpec /\ Fairness

-------------------------------------------------------------------------------
(* Safety.                                                                 *)

\* Every table leads to a light in the cache: merge is the only place that
\* removes one, and three tables and two threads still know its identity.
IndexesPointAtLights ==
  Values(byService) \cup Values(byUsbPath) \cup Values(bySerial) \subseteq DOMAIN lights

\* The calls whose results the manager has yet to hear, the oldest first: the
\* worker answers them in order, and the answers are delivered in order.
UsbCalls == [i \in DOMAIN usbOut |-> usbOut[i].call] \o usbIn

Occurrences(seq, S) == {i \in DOMAIN seq : seq[i] \in S}

ExactlyOne(S) == \E x \in S : S = {x}

\* onUsbEnumerated and applyUsbInfo: a path is being probed exactly while it is
\* in usbPending, it is probed once, and never while it is already known.
ProbedOnce ==
  \A p \in UsbPaths :
    LET probes == Occurrences(UsbCalls, {ProbeCall(p)})
    IN  IF p \in usbPending THEN ExactlyOne(probes) /\ p \notin DOMAIN byUsbPath
                            ELSE probes = {}

\* applyUsbInfo, onUsbRemoved, merge: unplugging the path a light is driven
\* through finds that light again.
UsbPathsLeadBack ==
  \A id \in DOMAIN lights : lights[id].usbPath # None =>
    /\ Lookup(byUsbPath, lights[id].usbPath) = id
    /\ lights[id].transport = "Usb"

\* onUsbRemoved falls back to HTTP only when there is somewhere to fall back
\* to: no request ever goes to an empty host.
HttpHasHost ==
  /\ \A id \in DOMAIN lights : lights[id].transport = "Http" => lights[id].address # None
  /\ \A r \in DOMAIN http : r.address # None

\* onInfoReceived and applyUsbInfo: however discovery over the two transports
\* interleaves, one serial number is one light.
SerialsAreUnique ==
  \A i, j \in DOMAIN lights :
    lights[i].serial # None /\ lights[i].serial = lights[j].serial => i = j

\* What that takes of the devices: a serial number, and the identity its device has
\* over USB, belong to one device, and mDNS either never announces that identity, or
\* announces this device under it always.
UsbIdentity(d) == UsbId(None, InfoOf[d])

OneIdentity ==
  \A d \in Devices : InfoOf[d].serial # None =>
    /\ \A e \in Devices \ {d} : InfoOf[e].serial # InfoOf[d].serial
    /\ \A e \in Devices \ {d}, p \in UsbPaths : UsbId(p, InfoOf[e]) # UsbIdentity(d)
    /\ \/ \A s \in Services : ServiceId(s) # UsbIdentity(d)
       \/ \A s \in Services : ServiceId(s) = UsbIdentity(d) <=> Owner[s.address] = d

\* Every change of a light's reachability reaches its card, and a light that
\* is folded into another leaves no card behind.
CardsMirrorCache ==
  \A id \in DOMAIN cards : id \in DOMAIN lights /\ cards[id] = Enabled(lights[id])

\* README.md: "Discovered lights each get a card".  The announcement waits in
\* announcePending for the first answer, whichever request it answers.
OnlineLightHasCard ==
  \A id \in DOMAIN lights : lights[id].online => id \in DOMAIN cards

\* What that takes of merge when there is a user: a light is folded into another only
\* while it has no PUT in flight.
FoldedAtRest == \A id \in DOMAIN lights \ DOMAIN lights' : id \notin inflight

\* updateIcon and refreshHeader: they say how many lights can be used as the cache
\* has it now, although they are told only of some changes; each handler that changes
\* a light's reachability signals after it has.
IconCountsReachable ==
  shown.online = {id \in DOMAIN lights : Enabled(lights[id])}

-------------------------------------------------------------------------------
(* Control.                                                                *)

HttpPuts(id) == {r \in DOMAIN http : r.kind = "Put" /\ r.id = id}
UsbPuts(id) == Occurrences(UsbCalls, {call \in LightCall : call.kind = "Put" /\ call.id = id})

\* Each PUT of a light that has not ended, over both transports.
PutsInFlight(id) ==
  (UNION {{<<"http", r, copy>> : copy \in 1 .. http[r]} : r \in HttpPuts(id)})
    \cup {<<"usb", i>> : i \in UsbPuts(id)}

\* flush: a light never has two PUTs in flight, on whichever transport, and a
\* PUT that is over never blocks the next.
OnePutInFlight ==
  \A id \in Ids : IF id \in inflight THEN ExactlyOne(PutsInFlight(id))
                                      ELSE PutsInFlight(id) = {}

\* A change is left for later only when a reply will come to pick it up.
DirtyOnlyWhileInflight == dirty \subseteq inflight

\* The device a light's requests reach now.
Reached(light) ==
  IF light.transport = "Http" THEN Owner[light.address]
  ELSE IF light.usbPath = None THEN None ELSE plugged[light.usbPath]

\* Once a light has no PUT in flight and no timer running, the device it
\* reaches is in the state the user asked for last.
LastChangeApplied ==
  \A id \in DOMAIN lights \ (inflight \cup debounce) :
    want[id] # None /\ Reached(lights[id]) # None
      => device[Reached(lights[id])] = want[id]

\* What that takes of the home: each cable belongs to one device (port), identities and
\* devices go together, one to one, whichever way mDNS or a cable leads from the one to
\* the other, and no other device has the serial number of a device with a cable.
Homes(id, port) ==
  {Owner[s.address] : s \in {t \in Services : ServiceId(t) = id}}
    \cup {port[p] : p \in {q \in UsbPaths : UsbId(q, InfoOf[port[q]]) = id}}

OneLightEach(port) ==
  /\ \A i, j \in Ids : \A d \in Homes(i, port), e \in Homes(j, port) : i = j <=> d = e
  /\ \A p \in UsbPaths, d \in Devices :
       InfoOf[d].serial = InfoOf[port[p]].serial => d = port[p] \/ InfoOf[d].serial = None

OwnPaths(port) == \A p \in UsbPaths : plugged[p] \in {None, port[p]}

\* And of the lights: they report no state that they cannot be set to.
Settable == \A state \in LightState : BuildLightsBody(state) = state

-------------------------------------------------------------------------------
(* Refinement.                                                             *)

BodiesInFlight(id) ==
  {r.payload : r \in HttpPuts(id)} \cup {UsbCalls[i].body : i \in UsbPuts(id)}

LatestWins == INSTANCE Outbox WITH
  wish <- [id \in Ids |-> IF id \in DOMAIN lights THEN lights[id].state ELSE None],
  wire <- [id \in Ids |-> BodiesInFlight(id)],
  due <- dirty

\* flush, onPutSucceeded, onRequestFailed: whatever the transports, the user and
\* the timers do, each light's PUTs are those of an outbox that holds one message:
\* none is sent while another is on the wire, and every one carries the state that
\* is cached when it is sent.
ImplementsOutbox == LatestWins!Spec

-------------------------------------------------------------------------------
(* Liveness.                                                               *)

\* Once the user leaves the controls alone, the cache comes to agree with the
\* devices for good, whatever was lost, late or overtaken on the way: the
\* periodic refresh repairs it.
Acts == User \/ Environment

Agreed ==
  \A id \in DOMAIN lights :
    Enabled(lights[id]) /\ Reached(lights[id]) # None
      => lights[id].state = device[Reached(lights[id])]

CacheConverges == []<><<Acts>>_vars \/ <>[]Agreed

\* updateIcon: a user's change is not signalled before its PUT is answered, and not
\* at all when the PUT fails; but once the user leaves the controls alone, the icon and
\* the counts come to tell the truth about the lights that are on, for good.
IconConverges == []<><<Acts>>_vars \/ <>[](shown = Counted(lights))

\* A cable that stays plugged in, and that no scan misses, leads to a light that is
\* driven over it and online: a scan finds it, a probe that failed is retried, a
\* request that failed is repeated.  (A user who never leaves the controls alone can
\* keep a PUT in flight at every tick that would repeat it.)  With several paths a cable that moves often enough
\* defeats it: see "Known limits" in the README beside this module.
Missed(p) == \E i \in DOMAIN usbOut : usbOut[i].signal = "enumerated" /\ p \notin usbOut[i].paths

PluggedLightIsReached ==
  \A p \in UsbPaths :
    \/ []<><<User>>_vars
    \/ [](p \in Present
            => <>(p \notin Present \/ Missed(p)
                    \/ \E id \in DOMAIN lights : lights[id].usbPath = p /\ lights[id].online))

-------------------------------------------------------------------------------
(* What the documents say, and the code does not keep.                     *)

\* README.md: "Networked lights are discovered automatically over mDNS".  A
\* light that stays announced while no cable is plugged in comes online, at the latest
\* once the user leaves the controls alone.
OnNetworkOnly(name) ==
  /\ Lookup(byService, name) \in DOMAIN lights
  /\ Present = {}

NetworkedLightIsReached ==
  \A name \in ServiceNames :
    \/ []<><<User>>_vars
    \/ [](OnNetworkOnly(name)
            => <>(~OnNetworkOnly(name) \/ lights[byService[name]].online))

\* README.md: a light plugged in over USB "works even when it is not on the
\* network": it goes offline only after failed requests, or a scan that misses it.
PluggedLightStaysOnline ==
  [][\A id \in DOMAIN lights \cap DOMAIN lights' :
       /\ lights[id].online /\ ~lights'[id].online
       /\ lights[id].usbPath \in Present /\ ~Missed(lights[id].usbPath)
       => lights'[id].failCount = kFailLimit]_vars

\* lightmanager.cpp: "A PUT is already running; remember to resend the latest
\* state".  While a change waits for that resend, nothing but the user's next
\* change replaces it.
UnsentChangeSurvives ==
  [][\A id \in dirty \cap DOMAIN lights' :
       want[id] # None => lights'[id].state \in {want[id], want'[id]}]_vars

\* What that takes of applyState: no light is told its state while a change of it waits.
HeardAtRest ==
  /\ \A r \in DOMAIN http : StateReply(r) => r.id \notin dirty
  /\ UsbRequestDone /\ Head(usbOut).call.kind = "State" => Head(usbOut).call.id \notin dirty

===============================================================================
