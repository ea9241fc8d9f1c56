# Verification of keylights-tray

TLA+ models of `elgato-key-light-linux`, the system-tray application that
controls Elgato Key Lights over the network and over USB, with the TLC
configurations that check them and the TLAPS proofs about them.

All paths below are relative to the repository; the implementation is in
`src/src/`.

## 1. Inventory of the system

| Component | State it keeps | Operations | Talks to |
|---|---|---|---|
| Data (`keylight.h`) | `KeyLight` and `LightState` records | `normalizeMac`, `clampInt`, `buildLightsBody` | everybody |
| `LightManager` | the cache `m_lights`, the indexes `m_byService`, `m_byUsbPath`, `m_bySerial`, the sets `m_usbPending`, `m_inflight`, `m_dirty`, `m_announcePending`, the debounce timers, `m_refreshTicks` | slots for discovery, results and timers; user intents | calls `HttpTransport`; queued signals to and from the USB worker; direct signals to the window and the tray |
| `HttpTransport` | the replies pending | `getInfo`, `getLights`, `putLights`, `onFinished`, `abortAll` | the lights, over HTTP |
| `UsbNeoWorker` | none between calls | `enumerate`, `probeInfo`, `request`; frames and their reassembly | the lights, over USB HID, on a thread of its own |
| `AvahiBrowser` | client, browser, retry timer | client, browse and resolve callbacks | the Avahi daemon; signals to the manager |
| `ControlWindow` | one `LightCard` per announced light | `onLightAdded`, `onLightUpdated`, `onLightRemoved`, `sync` | shows the manager's cache; sends user intents |
| `TrayApp` | icon, tooltip, menu | `updateIcon`, `notifyOnline`, `onActivated`, `quit` | the same, and stops the manager |
| `main` | – | startup, `--probe` | – |

The manager, the window, the tray, the browser and the HTTP replies all live on
the main thread; handlers run to completion and interleave between events. Only
the USB worker runs on another thread, behind two queues of signals.

What is hard here:

* one device is found twice, over mDNS and over USB, possibly under different
  identities, in any order, and must become one light (`onInfoReceived`,
  `applyUsbInfo`, `merge`);
* a light changes transport while requests are queued for the old one
  (`applyUsbInfo`, `onUsbRemoved`);
* a user's changes are debounced and coalesced behind one PUT per light
  (`schedule`, `flush`, `onPutSucceeded`), and any PUT may be lost, or obeyed and
  reported lost;
* states read before a change are applied after it (`applyState`);
* scans and probes are queued faster than a slow device answers
  (`onUsbEnumerated`), and probes fail and must be retried;
* the window and the tray icon are told of changes by signals and never read the
  cache by themselves;
* a USB answer comes in frames, in any order, perhaps truncated, and perhaps after
  the worker has given up waiting for it (`readResponse`);
* the Avahi daemon may start later, restart or die, and a service may disappear
  while it is being resolved (`clientCallback`, `browseCallback`);
* `stop()` waits only so long for a worker with calls still queued.

What makes each component correct: the manager's indexes lead to lights it
knows, one device is one light, no light has two PUTs in flight and none is left
marked in flight, the user's last change wins, the cache converges to the devices
after losses; the worker's queues answer each call once; the cards show what the
cache says, and the icon comes to; a light that is there comes online; an answer is
put together from its own frames; discovery survives the daemon.

## 2. Modules

| Module | Models | State and actions |
|---|---|---|
| `KeyLight` | `keylight.h` | constants, records, `NormalizeMac`, `ClampInt`, `BuildLightsBody`; `QHash` tables as partial functions (`Bind`, `Unbind`, `Lookup`) |
| `Hardware` | external: devices and cables | `device`: each device's real state; `plugged`: what is behind each hidapi path |
| `HttpTransport` | `httptransport.cpp` | `http`: the bag of pending requests, unordered. A request is first served by the device, then answered or lost |
| `UsbNeoWorker` | `usbneo.cpp` | `usbIn`, `usbOut`: the two signal queues; one action per slot and outcome |
| `UsbExchange` | `usbneo.cpp` below the level of `UsbNeoWorker`, and `LightManager::stop` | calls queued for the worker, the phase and the frames of the exchange under way, those the device has yet to send, the read deadline and the wait in `stop()` |
| `AvahiBrowser` | `avahibrowser.cpp` | `client`, `browser`, `retry`, `resolvers` as in the class; `published`, `daemon`, `reported`: the network and the daemon; `known`: the keys of `m_byService` |
| `ControlWindow` | `controlwindow.cpp` | `cards`: for each light with a card, whether its controls are enabled |
| `TrayApp` | `trayapp.cpp` | `shown`: the lights counted when icon and tooltip were drawn last; `Emit` is the manager's three signals, to cards and icon |
| `LightManager` | `lightmanager.cpp` | one variable per member (`m_lights` is `lights`, and so on), one operator per slot or user intent, with everything the slot calls |
| `KeyLightSystem` | the composition | the actions, the bounds, fairness and all properties of the application |
| `Outbox` | abstract | what `flush` and the handlers of a PUT's end promise: one message per light on the wire, and the latest state wins |
| `MCIdentity`, `MCControl`, `MCExchange` | – | values of the constants for TLC |
| `TypeOK_proofs`, `Safety_proofs`, `Usb_proofs`, `Outbox_proofs`, each extending the one before | – | theorems: types; the manager's tables, window and icon; the worker's queues; the PUTs and their refinement |
| `Identity_proofs`, `Control_proofs`, both extending `Outbox_proofs` | – | theorems: one device, one light, one card; the user's last change |
| `Exchange_proofs`, `Discovery_proofs` | – | theorems about `UsbExchange` and `AvahiBrowser` |

A handler of the code is one step of the model: the operator (`OnDiscovered`,
`OnInfoReceived`, ...) takes the light and the arguments of the slot, and the
action in `KeyLightSystem` (`Discover`, `InfoReply`, ...) says when the event
loop may call it and where the arguments come from. A loop over a `QHash` is a
set, because its order is unknown; the calls it queues for the worker come in any
order. The `#if HAVE_USB` build is modelled.

Definitions commented as *mutants* are not part of the model: each is a variant
of the definition after it, as a plausible mistake would leave it, and a
property listed for it in `PROJECT.json` fails when it takes that definition's
place.

Abstractions:

* Strings are model values. The port travels with the address; names, products
  and `numLights` are left out. `failCount` saturates at `kFailLimit` and
  `m_refreshTicks` is kept modulo 3: the code reads nothing else of them.
* In `KeyLightSystem` a USB exchange is one step; a PUT that was obeyed although its
  exchange failed is modelled there. Frames, and answers that arrive after their
  exchange timed out and are read by the next one, are the subject of
  `UsbExchange`: its property `AnswersOwnCall` is what the one-step view relies on,
  and it holds of exchanges that began with nothing left over. In the same way a device obeys an HTTP PUT while the
  request is pending, not after the client gave up on it.
* In `KeyLightSystem` mDNS is an environment: any service of `Services` may be
  discovered at any time, any known one removed. `AvahiBrowser` allows less.
* In `AvahiBrowser` a service is a key on a link; its address and TXT record play no
  role there. `lost` and `lingering` are history: what nothing will resolve any more,
  and what nothing will remove any more.
* In `UsbExchange` a byte is the call it answers and its position. Whether frames of
  several answers decode as JSON is left open. The device may send what it owes at
  any time, in any order, or never. `hid_open_path` and `hid_write` take any time
  (`phase = "writing"`): the code bounds `readResponse` alone, whose last
  `hid_read_timeout` may end `kReadTimeout` after the deadline. The three times are
  constants, in whatever unit: 2000, 100 and 2500 ms are values that the theorems
  cover, and a run takes smaller ones of the same order. `unread` is history: how much of the
  wait in `stop()` a call was due and not being read.
* A `hid_enumerate` that fails reports no path at all (`Enumerate`), which the manager
  cannot tell from every cable being pulled.
* The counts of the header are those of the icon: both are drawn on the same signals
  (`lightRemoved`, which only the header hears, is always followed by
  `lightUpdated`).
* The user acts through enabled cards, as the disabled widgets enforce; a slider
  may be released on any card.
* `want`, a ghost variable, is the state the user last asked for. It is forgotten
  when a PUT fails, because the code then gives up the change, and when the light
  reports its state, because the code then believes the light.

## 3. Runs

Bounds. `MaxHttp` and `MaxUsb` hold back discovery and the refresh (timer and menu)
while that many requests are pending: these are the only steps that can fill the
queues, and nothing else is ever held back. Once let in, one discovery or refresh adds
all the requests it makes in the code, so several requests of one light, of different
kinds and on both transports, are pending together with `MaxHttp = MaxUsb = 1` as
well. Answers without a state are allowed in `Control` and `Switch` (`OddAnswers`),
and at most one path is used in each run: what holds of several paths, and of odd
answers elsewhere, is proved, and what does not is under *Known limits*. One device is
used in each run. With `MaxHttp = 1` a GET can be overtaken by a PUT and by
accessory-info, not by another GET of the same light; and a cable that is pulled is
plugged in again at the same path. Deadlock is checked in all but `Exchange` and `QuitWhileBusy`, where
the application quits and stops. `MaxResolvers = 2` holds back new announcements while
two resolvers run; `MaxCalls` bounds the calls of one run of the application.

| Run | Instance | Question | Distinct states |
|---|---|---|---|
| `Identity` | one device that mDNS knows by its MAC and USB by its serial number; nobody at the controls; scans while a probe or a scan is queued (`MaxUsb = 2`) | do indexes, cache, the worker's queues, cards and the icon's counts stay consistent through discovery, merging, unplugging and failures? (`TypeOK`, `IndexesPointAtLights`, `HttpHasHost`, `ProbedOnce`, `UsbPathsLeadBack`, `SerialsAreUnique`, `CardsMirrorCache`, `OnlineLightHasCard`, `IconCountsReachable`) | 970 000 |
| `Control` | one networked light, two brightness values, all user intents | does coalescing deliver the last change, with one PUT in flight, as the outbox says? (`OnePutInFlight`, `DirtyOnlyWhileInflight`, `LastChangeApplied`, `ImplementsOutbox`) | 509 000 |
| `Switch` | the same over both transports, at the power buttons (`PowerSpec`: a slider sends through the same `flush`), odd answers allowed | still so when the light changes transport with a PUT in flight? (`OnePutInFlight`, `LastChangeApplied`, `ImplementsOutbox`) | 261 000 |
| `Convergence` | one networked light, fairness | do cache and icon converge, and a networked light come online? (`CacheConverges`, `NetworkedLightIsReached`, `IconConverges`) | 71 000 |
| `UsbConvergence` | one USB light, one path, fairness | does the cache converge, and a plugged light that the scans see come online? (`CacheConverges`, `PluggedLightIsReached`) | 98 000 |
| `Discovery` | one service announced on two links, two resolvers, a daemon that comes and goes, fairness | does discovery survive the daemon, and is what the manager knows explained by what was reported? (`TypeOK`, `RetryOrRest`, `ReportedIsAccountedFor`, `KnownIsReported`, `ReconnectsToDaemon`, `AnnouncedIsKnown`) | 2 800 |
| `Exchange` | three calls, answered in two, three and two frames, fairness | is an answer that of its call and whole, does every call end, does `stop()` outlive one call that is opened and written to soon enough? (`TypeOK`, `AnswersOwnCall`, `AnswersAreComplete`, `OneCallOutlived`, `EveryCallEnds`) | 369 000 |
| `UsbTransportStuck` | one light over both transports | violated: see finding 1 | – |
| `PluggedGoesOffline` | as `Identity`, with `MaxUsb = 1` | violated: see finding 2 | – |
| `CardlessLight` | as `Identity` with `MaxHttp = 2`, `MaxUsb = 1` and the power buttons | violated: see finding 5 | – |
| `StaleState` | as `Control`, refresh while requests are pending | violated: see finding 3 | – |
| `QuitWhileBusy` | as `Exchange` | violated: see finding 4 | – |

The bounds are enough for the interesting cases: one device under two identities is
what merging is about, and the third that the code can give it, the path where USB tells
neither serial number nor MAC, and the display name where mDNS has no TXT record, are
covered by the theorems; a scan behind a queued probe finds the path
that is being probed; two brightness values distinguish a change
from the one it replaces. Answers of two, three and two frames let a late frame agree with the next answer's
count (calls 1 and 3) or contradict it; a deadline of two, an overrun of one and a wait
of five units leave two units beyond a read, and let two reads outlast the wait; two links let one key be reported twice.
`LastChangeApplied` is not vacuous: its mutants, a
`flush` that forgets to mark the light dirty and a snapshot taken too early,
violate it.

Fairness (`Fairness` in `KeyLightSystem`): the refresh timer is never stopped
while the application runs; debounce timers fire; each request ends, after 2.5 s
at the latest; the worker and both event loops go on. These are what Qt and the
code provide. The strong fairness of being *served*, *heard* and *probed* says that a
device that is there does not fail every request for ever: without it no
program could be live. Nothing is assumed of the user, of cables, of scans and of mDNS:
`PluggedLightIsReached` speaks of a cable that no scan misses (`Missed`), and like
`NetworkedLightIsReached` and the two properties of convergence, of a user who leaves the
controls alone at some time. One who does not can keep a PUT in flight at every tick that
would probe an offline light, if all these PUTs are lost.
The strong fairness of the refresh timer is due to the bounds alone, which
disable it now and then.

In `AvahiBrowser` the event loop delivers what the daemon says and the timer fires;
the strong fairness says that neither D-Bus nor the daemon fails for ever. Nothing is
assumed of the daemon's own comings and goings: `ReconnectsToDaemon` and
`AnnouncedIsKnown` speak of a daemon that keeps running. In `UsbExchange` time passes
and both threads run. Opening a device and writing to it end at some time, with success or
without: the code leaves that to the kernel, and `EveryCallEnds` rests on it. Nothing is
assumed of when, nor of what the device answers.

### Findings

1. **A light unplugged before mDNS announces it is never reached.** `onUsbRemoved`
   leaves a light without an address on the USB transport with an empty path;
   `onDiscovered` later fills in the address and does not reset the transport.
   README.md: "Networked lights are discovered automatically over mDNS".
2. **A plugged-in light goes offline with its mDNS service.**
   `onServiceRemoved` does not look at the transport. README.md: a Neo plugged in
   over USB "works even when it is not on the network".
3. **A late state answer replaces a change that waits to be resent.** `applyState`
   overwrites the state of a dirty light. `flush`: "A PUT is already running;
   remember to resend the latest state." `UnsentCorrect` proves that nothing else does.
4. **`stop()` deletes a worker that still runs.** The result of `wait(2500)` is
   ignored; with two calls queued the second may still be reading when it times out,
   however quickly both were opened and written to (`QuickCallsOutlived`).
   `lightmanager.cpp`: "with the thread now stopped it is safe to delete directly
   from the main thread". A single call is no problem only if it is opened and written to
   soon enough: `OneCallOutlived` leaves 0.4 s of the 2.5 s for all but reading, and
   nothing in the code keeps `hid_write` within them.
5. **A light that comes online by the answer to a PUT gets no card.** `onPutSucceeded`
   sets the light online and does not announce it; `applyState` announces only a light
   that was offline. When a light is merged away with its PUT in flight, and its
   service is discovered again before the answer comes, the answer finds the new,
   unannounced entry; the state answers that follow find it online already. (The answer
   to the new entry's own accessory-info, unless it fails, folds it away again.) README.md:
   "Discovered lights each get a card". `CardedCorrect` proves that merging a light away
   with its PUT in flight is the only way to this.

### Known limits

What the properties of `AvahiBrowser` and `UsbExchange` except is behaviour of the
code, which no document contradicts:

* a resolver that fails, or cannot be created, is not repeated, and a removal on one
  link forgets a light still announced on another (`lost`); the light is discovered
  again when its service is announced anew;
* a service resolved after its removal, or one that vanished while the daemon was
  down, stays in `m_byService` (`lingering`) until a removal of that key;
* a service browser that cannot be created is retried only when the client's state
  changes (the second disjunct of `GivenUp`);
* an exchange that begins while an earlier answer is still to come may end with that
  answer, or with frames of both when these agree in number. `AnswersAreComplete`
  says no more than that they do agree and that none is missing.

One limit is the runs' own. `PluggedLightIsReached` is checked with one path, and does not
hold with two. A cable that moves between two paths, more often than the busy worker gets to
scan and probe them, can be probed on both with no scan in between, so that both paths lead
to its light. The next scan misses the first; `onUsbRemoved` then clears the light's
`usbPath`, which is the second, and `m_byUsbPath` keeps the second, which is therefore never
probed again while the cable stays there (TLC reaches this in 20 states with `UsbPaths` of
two elements, `MaxUsb = 3` and no services). Nothing unsafe follows, and the safety theorems
hold of several paths.

## 4. Proofs

The theorems hold for every value of the constants that satisfies the assumptions of
the modules: `KeyLightAssumption`, `HardwareAssumption` and `SystemAssumption` for the
application, `BrowserAssumption`, and `ExchangeAssumption` with `SlackAssumption`, for the other two. They are
assumptions on types and on distinctness (`None` is no light, no path, no state), on
the functions that turn names into identities, and on the sizes of answers and the times
in `UsbExchange`. Four theorems have hypotheses of their own, stated as operators of
`KeyLightSystem`: `SerialsCorrect` and `LastChangeCorrect` about the devices of the home,
which TLC evaluates, as an `ASSUME` of the MC modules, on the instances that check the same
property; `CardedCorrect` and `UnsentCorrect` about the run. The latter two exclude the
steps on which findings 5 and 3 turn, and so show that these findings have no other cause.

Most invariants are not inductive by themselves. What each proof adds is given below.

### The manager's tables and what the user sees

* `TypeCorrect`: `Spec => []TypeOK`, cards and icon included (`EmitType`). One lemma per
  handler. What needs an argument is that a loop over the cache queues a finite set of
  well-formed calls, that a `PUT` is built only for a light with a state, and that no
  index ever gets an empty identity.
* `IndexesCorrect`: `Spec => []IndexesPointAtLights`. Inductive relative to `TypeOK`.
  `CalmSteps` collects the steps that touch no index and neither add nor remove a
  light; discovery, unplugging, USB information and merging remain, and merging is the
  one that removes a light (`IndexesAfterMerge`).
* `DirtyCorrect`: `Spec => []DirtyOnlyWhileInflight`. Inductive by itself: `flush` marks
  only lights in flight, and both ends of a PUT clear both marks.
* `HostCorrect`: `Spec => []HttpHasHost`. Inductive relative to `TypeOK`: most steps
  keep every light's transport and address (`SameRoutes`); discovery, unplugging,
  merging and USB information are the exceptions.
* `CardsCorrect` and `IconCorrect`: `CardsMirrorCache` and `IconCountsReachable`. Their
  conjunction `Displayed` is inductive relative to `TypeOK`. The argument is per
  handler: what it emits covers what it changes in `Enabled`, so that no change of a
  light's reachability goes untold.

### The worker's queues

* `ProbesCorrect`: `Spec => []ProbedOnce`, inductive relative to `TypeOK`. The property
  is about `UsbCalls`, the calls whose results have not been heard, the oldest first:
  lemmas say which positions of a sequence of calls satisfy a condition after one is
  appended, taken or answered.
* `PathsCorrect`: `Spec => []UsbPathsLeadBack`. It is inductive only with `ProbedOnce`:
  USB information may overwrite `m_byUsbPath` for its path, and does no harm because a
  path that is being probed is not in the table.
* `OnePutCorrect`: `Spec => []OnePutInFlight`. The invariant is `OutboxInv`: a light in
  `m_inflight` has one PUT in flight, over HTTP or in the worker's queues, with one
  body, and any other light has none. Every step is shown to do one of four things to
  each light: leave it alone (`Untouched`), postpone its change (`Postponed`), send
  (`Sent`) or take the answer (`Finished`).
* `OutboxImplemented`: `Spec => ImplementsOutbox`, the refinement. `Init` maps to
  `Init`; under `OutboxInv` each of the same four cases is a step of `Outbox` for that
  light, and together they are a step or a stutter of the whole outbox.

### One device, one light, one card

* `SerialsCorrect`: `OneIdentity /\ Spec => []SerialsAreUnique`. `InfoInv` says that
  what the manager is told of a device comes from that device; `IdentityInv` that
  `m_bySerial` finds the light that has a serial number, and where it can be. The
  hypothesis says that a serial number, and the identity a device has over USB, belong
  to one device, and that mDNS announces a device under that identity always or never.
  It is needed: a device announced both with and without the TXT record that names that
  identity can end up as two lights with one serial number, because `applyUsbInfo`
  looks for another light to merge with only when its own identity is not in the cache.
  No light is known to announce itself so.
* `CardedCorrect`: `Spec /\ [][FoldedAtRest]_vars => []OnlineLightHasCard`. The invariant
  is `Carded`. `Announced`: a light without a card is offline, has no state, and is in
  `m_announcePending`; and every light in `m_inflight` has a card. A PUT is sent only for
  a light that has a state (`SendsStated`), which so has a card; a card goes only with its
  light (`CardsStay`); and by `OutboxInv` a PUT that is answered is one of a light in
  `m_inflight` (`PutInFlight`). `FoldedAtRest` says that no light is merged away while it
  is in `m_inflight`; without it the theorem is false: finding 5.
* `AnnouncedCorrect`: `UnattendedSpec => []OnlineLightHasCard`, which follows. While nobody
  touches the controls nothing is in flight and nothing dirty (`Calm`), so `FoldedAtRest`
  holds of every step.

### The user's last change

* `LastChangeCorrect`: for every `port`, `OneLightEach(port) /\ Settable /\ Spec /\
  []OwnPaths(port) => []LastChangeApplied`. The inductive invariant has two parts.
  `AtHome(port)`: lights, pending requests, calls and results have addresses, paths and
  serial numbers of devices their identity can lead to (`CallOrigin` says where calls about
  lights come from, `HeardOnly` where results do). `Promised`, per light: while its PUT is
  in flight and nothing is dirty or waits for its timer, the PUT carries what the user
  asked for (and if it was obeyed, the device has it); while nothing is in flight or waits,
  the device has it. `Meant` adds that the cache holds it. Each step asks (`AskStep`),
  obeys (`ObeyStep`), or concludes (`ConcludeStep`), or spares the light.

  The hypotheses are about the home. `port` names the device whose cable is at each USB
  path, and `OwnPaths(port)` says that no other is ever plugged in there: devices come and
  go as often as they like. `OneLightEach(port)` says that identities and devices go
  together one to one, whether mDNS or a cable leads from the one to the other, and that no
  other device has the serial number of a device with a cable. Any number of lights, with
  and without cables, meet this, on either transport or both. All of it is needed: where
  two devices change places on a path, a PUT queued for one reaches the other (the hazard
  at `lightmanager.cpp:307`); where one device is two lights, each undoes the other's
  change; where two devices share a serial number, `applyUsbInfo` takes one for the other.
  `Settable` says that a light reports no state outside the range it can be set to;
  otherwise the clamping of `buildLightsBody` sends something else than the cache holds.
* `UnsentCorrect`: `Spec /\ [][HeardAtRest]_vars => UnsentChangeSurvives`, an action
  property, for any home. `Meant` is inductive by itself: what the user asked for is in the
  cache until an answer that tells the state, a failed PUT, or merging takes it back.
  `HeardAtRest` says that no light is told its state while it is in `m_dirty`; without it
  the theorem is false: finding 3.

### The USB exchange

`Exchange_proofs`, for any number of calls, lengths of answers, frame sizes and times
within `ExchangeAssumption` and `SlackAssumption`:

* `TypeCorrect` and `CallsInv`: types, and the worker is busy only while a call is queued. The
  lemmas before it say how many chunks an answer has and what its frames are.
* `AnswersCorrect`: `Spec => []AnswersAreComplete`, and `OwnFramesCorrect`: `Spec =>
  []FramesAreOwn`, both from `ExchangeInv`: frames are filed under their index, agree in
  number, and are this call's own as long as the exchange began with nothing left over.
* `OwnAnswersCorrect`: `Spec => []AnswersOwnCall`, from `OwnFramesCorrect` and what joining
  does: the lemma `AnswerJoined` says that a complete set of an answer's frames, joined in
  their order, is the answer. `Joined` is recursive, and the provers cannot instantiate the
  induction theorems; the argument goes by the least frame after which the joined bytes
  are wrong, which the well-foundedness of the naturals provides (`Least`, `JoinedIs`).
* `StopCorrect`: `Spec => []OneCallOutlived`: with one call under way, the worker is deleted
  inside it only if `unread` has used up `Slack`, what the wait leaves beyond the longest
  read. `StopInv` relates the wait in `stop()` to the call: as long as it has not ended,
  the wait has lasted no longer than `unread` and the time it has been read together, and
  the latter is at most the deadline and one timeout. `SlackAssumption` says that the wait
  is longer than that, as 2500 is than 2100; without it the theorem would say nothing.

### Discovery

`Discovery_proofs`, for any services, links and bounds:

* `BrowserTypeCorrect`: `Spec => []TypeOK`. The resolvers are a bag; `ResolverJoins` and
  `ResolverLeaves` say what adding and removing one does to it.
* `RetryCorrect`: `Spec => []RetryOrRest`. Inductive relative to `TypeOK`: a new client
  takes one of the daemon's states, and `TypeOK` says that "no client" is none of them.
* `KnownCorrect`: `Spec => []KnownIsReported`. Inductive by itself.
* `ReportedCorrect`: `Spec => []ReportedIsAccountedFor`. Inductive relative to `TypeOK`.
  For the last two, `ReportsStepwise` collects the steps about no particular
  service: they forget all reports or none.

### Only model-checked

* Liveness under fairness, which is out of the prover's reach: `CacheConverges`,
  `IconConverges`, `NetworkedLightIsReached`, `PluggedLightIsReached`,
  `ReconnectsToDaemon`, `AnnouncedIsKnown`, `EveryCallEnds`.
* The findings themselves, which are counterexamples.

## 5. Not modelled yet, and the plan

1. More instances: an address that changes by DHCP, two devices that swap paths between
   scans, a cable that moves between two paths, two lights at once. They exceed the time
   of a run with the present modules; the second and third call for a scan model of their
   own. Merging with a user at the controls is explored by `CardlessLight` as far as its
   finding; that it is the only one of its kind is proved.
2. Notifications, and the window's visibility.
3. Proofs: the causes of the other findings, such as that a plugged-in light goes offline
   only by failures, by finding 2, or by a scan that misses it.

Left out for good: `abortAll` (called once, when nothing runs afterwards), the Avahi poll bridge (an adapter between event loops), `main`
and its `--probe` mode, display formatting, window placement, packaging, and the
documentation of the older shell script under `src/docs`.
