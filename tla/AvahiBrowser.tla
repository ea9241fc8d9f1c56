----------------------------- MODULE AvahiBrowser -----------------------------
(***************************************************************************)
(* src/src/avahibrowser.cpp: mDNS discovery through the Avahi daemon.      *)
(* Every callback runs on the main thread, so each is one step.  The       *)
(* daemon comes and goes, a light may be announced on several network      *)
(* links, and what the daemon has to say may be overtaken by what happens  *)
(* on the network.  known is what becomes of it: the keys of the manager's *)
(* m_byService.                                                            *)
(***************************************************************************)
EXTENDS Naturals, FiniteSets, Bags

CONSTANTS
  Keys,          \* service keys, name.type.domain
  Links,         \* network interfaces the daemon listens on
  MaxResolvers   \* a bound: nothing new is announced while this many resolvers run

\* What the browser is told of: a service, on one interface.
Services == Keys \X Links
Key(service) == service[1]

VARIABLES
  \* external
  published,  \* the services the lights announce on the network
  daemon,     \* the daemon's state: "down", "registering" or "running"
  reported,   \* the services the daemon has told this browser of
  \* AvahiBrowser
  phase,      \* has start() been called, has stop()?
  client,     \* m_client: the state it was told of last; "gone" when its daemon died
  browser,    \* m_browser # nullptr
  retry,      \* m_retryTimer is active
  resolvers,  \* the bag of one-shot resolvers that have not called back
  \* LightManager
  known,      \* the keys of m_byService
  \* history
  lost,       \* reported services that nothing will resolve any more
  lingering   \* known keys whose removal this browser will never hear of

vars == <<published, daemon, reported, phase, client, browser, retry, resolvers,
          known, lost, lingering>>
worldVars == <<published, daemon>>

ASSUME BrowserAssumption == MaxResolvers \in Nat

TypeOK ==
  /\ published \subseteq Services /\ reported \subseteq Services
  /\ daemon \in {"down", "registering", "running"}
  /\ phase \in {"new", "started", "stopped"}
  /\ client \in {"none", "connecting", "registering", "running", "gone"}
  /\ browser \in BOOLEAN /\ retry \in BOOLEAN
  /\ IsABag(resolvers) /\ DOMAIN resolvers \subseteq Services
  /\ known \subseteq Keys /\ lingering \subseteq Keys
  /\ lost \subseteq Services

Init ==
  /\ published \in SUBSET Services
  /\ daemon \in {"down", "running"}
  /\ phase = "new" /\ client = "none" /\ browser = FALSE /\ retry = FALSE
  /\ reported = {} /\ resolvers = EmptyBag
  /\ known = {} /\ lost = {} /\ lingering = {}

Resolving(service) == BagIn(service, resolvers)

-------------------------------------------------------------------------------
(* The life of the client.                                                 *)

\* The client's resolvers and the browser's reports go with them.
TeardownClient ==
  /\ client' = "none" /\ browser' = FALSE
  /\ resolvers' = EmptyBag /\ reported' = {} /\ lost' = {}
  /\ lingering' = known

\* Mutant: the timer is not started.
ScheduleNothing == TeardownClient /\ UNCHANGED retry
ScheduleRetry == TeardownClient /\ retry' = TRUE

\* The callback in state S_RUNNING.  avahi_service_browser_new may fail.
OpenBrowser ==
  /\ browser' \in IF browser THEN {TRUE} ELSE BOOLEAN
  /\ UNCHANGED <<reported, resolvers, lost, lingering>>

KeepBrowser == UNCHANGED <<browser, reported, resolvers, lost, lingering>>

\* Mutant: the state of a daemon that is not there.
CreateClientOfAnyDaemon ==
  \/ /\ client # "none"
     /\ retry' = FALSE
     /\ UNCHANGED client /\ KeepBrowser
  \/ /\ client = "none"
     /\ client' = daemon
     /\ IF daemon = "running" THEN OpenBrowser ELSE KeepBrowser
     /\ retry' = FALSE
  \/ /\ client = "none"
     /\ ScheduleRetry

(***************************************************************************)
(* createClient, called by start() and by the expired timer.  A client     *)
(* made while the daemon is down waits for it; one made while it runs gets *)
(* its first callback from within avahi_client_new.  That fails when D-Bus *)
(* cannot be reached.                                                      *)
(***************************************************************************)
CreateClient ==
  \/ /\ client # "none"
     /\ retry' = FALSE
     /\ UNCHANGED client /\ KeepBrowser
  \/ /\ client = "none"
     /\ client' = IF daemon = "down" THEN "connecting" ELSE daemon
     /\ IF daemon = "running" THEN OpenBrowser ELSE KeepBrowser
     /\ retry' = FALSE
  \/ /\ client = "none"
     /\ ScheduleRetry

Start ==
  /\ phase = "new"
  /\ phase' = "started"
  /\ CreateClient
  /\ UNCHANGED <<worldVars, known>>

RetryTimer ==
  /\ retry
  /\ CreateClient
  /\ UNCHANGED <<worldVars, phase, known>>

\* Mutant: the timer goes on.
StopButTimer == phase' = "stopped" /\ TeardownClient /\ UNCHANGED retry
StopAll == phase' = "stopped" /\ TeardownClient /\ retry' = FALSE

Stop ==
  /\ phase # "stopped"
  /\ StopAll
  /\ UNCHANGED <<worldVars, known>>

\* The client is connected to the daemon that is there.
Attached == client \in {"registering", "running"}

ClientStateChanges ==
  /\ client \in {"connecting", "registering", "running"}
  /\ daemon \notin {"down", client}
  /\ client' = daemon
  /\ IF daemon = "running" THEN OpenBrowser ELSE KeepBrowser
  /\ UNCHANGED <<worldVars, phase, retry, known>>

ClientFailure ==
  /\ client = "gone"
  /\ ScheduleRetry
  /\ UNCHANGED <<worldVars, phase, known>>

-------------------------------------------------------------------------------
(* The browser.                                                            *)

\* Mutant: without resolving it.
ResolverLater(service) == UNCHANGED <<resolvers, lost>>
\* avahi_service_resolver_new, whose failure is ignored.
NewResolver(service) ==
  \/ /\ resolvers' = resolvers (+) SetToBag({service})
     /\ lost' = lost \ {service}
  \/ /\ lost' = lost \cup {service}
     /\ UNCHANGED resolvers

BrowserNew(service) ==
  /\ browser /\ Attached
  /\ service \in published \ reported
  /\ reported' = reported \cup {service}
  /\ NewResolver(service)
  /\ UNCHANGED <<worldVars, phase, client, browser, retry, known, lingering>>

\* Mutant: serviceRemoved is not emitted.
RemovedFrom(table, key) == table
\* onServiceRemoved: m_byService.take.  The key does not name the interface.
Removed(table, key) == table \ {key}

BrowserRemove(service) ==
  LET others == {s \in reported \ {service} : Key(s) = Key(service)}
  IN  /\ browser /\ Attached
      /\ service \in reported \ published
      /\ reported' = reported \ {service}
      /\ known' = Removed(known, Key(service))
      /\ lost' = (lost \cup {s \in others : ~Resolving(s)}) \ {service}
      /\ lingering' = lingering \ {Key(service)}
      /\ UNCHANGED <<worldVars, phase, client, browser, retry, resolvers>>

BrowserFailure ==
  /\ browser /\ Attached
  /\ ScheduleRetry
  /\ UNCHANGED <<worldVars, phase, known>>

-------------------------------------------------------------------------------
(* Resolvers.  The daemon may resolve from its cache a service that is     *)
(* gone already.                                                           *)

ResolverDone(service) ==
  /\ Attached /\ Resolving(service)
  /\ resolvers' = resolvers (-) SetToBag({service})
  /\ UNCHANGED <<worldVars, reported, phase, client, browser, retry>>

\* onDiscovered: m_byService.insert.
ResolverFound(service) ==
  /\ ResolverDone(service)
  /\ known' = known \cup {Key(service)}
  /\ lost' = {s \in lost : Key(s) # Key(service)}
  /\ lingering' = IF \E s \in reported : Key(s) = Key(service)
                  THEN lingering ELSE lingering \cup {Key(service)}

\* Freed without another try.
ResolverFailure(service) ==
  /\ ResolverDone(service)
  /\ lost' = IF Key(service) \in known THEN lost
             ELSE lost \cup ({service} \cap reported)
  /\ UNCHANGED <<known, lingering>>

-------------------------------------------------------------------------------
(* External: the network and the daemon.                                   *)

Unseen == UNCHANGED <<reported, phase, browser, retry, resolvers, known, lost, lingering>>

Publish(service) ==
  /\ service \notin published /\ BagCardinality(resolvers) < MaxResolvers
  /\ published' = published \cup {service}
  /\ Unseen /\ UNCHANGED <<daemon, client>>

Withdraw(service) ==
  /\ service \in published
  /\ published' = published \ {service}
  /\ Unseen /\ UNCHANGED <<daemon, client>>

\* It starts, has registered its host name, or finds the name taken.
DaemonChanges ==
  /\ daemon' = CASE daemon = "down" -> "registering"
                 [] daemon = "registering" -> "running"
                 [] daemon = "running" -> "registering"
  /\ Unseen /\ UNCHANGED <<published, client>>

DaemonDies ==
  /\ daemon # "down"
  /\ daemon' = "down"
  /\ client' = IF Attached THEN "gone" ELSE client
  /\ Unseen /\ UNCHANGED published

-------------------------------------------------------------------------------
World ==
  \/ \E s \in Services : Publish(s) \/ Withdraw(s)
  \/ DaemonChanges \/ DaemonDies

Callback ==
  \/ ClientStateChanges \/ ClientFailure \/ BrowserFailure
  \/ \E s \in Services :
       BrowserNew(s) \/ BrowserRemove(s) \/ ResolverFound(s) \/ ResolverFailure(s)

Next == World \/ Start \/ RetryTimer \/ Stop \/ Callback

(***************************************************************************)
(* Fairness.  The event loop runs: timers fire, and what the daemon says   *)
(* is heard.  D-Bus is not out of reach for ever, and neither are a        *)
(* daemon's browsers and resolvers interrupted for ever (SF).  Nothing is  *)
(* assumed of the network, of the daemon or of the user who quits.         *)
(***************************************************************************)
Fairness ==
  /\ WF_vars(Start) /\ WF_vars(ClientStateChanges) /\ WF_vars(ClientFailure)
  /\ SF_vars(RetryTimer /\ client' # "none")
  /\ \A s \in Services :
       /\ SF_vars(BrowserNew(s)) /\ SF_vars(BrowserRemove(s))
       /\ SF_vars(ResolverFound(s) \/ ResolverFailure(s))

Spec == Init /\ [][Next]_vars /\ Fairness

-------------------------------------------------------------------------------
(* Properties.                                                             *)

\* scheduleRetry, stop: until the application stops, a browser without a client
\* has its timer running; after that no timer, client or resolver is left whose
\* callback would reach a browser that is being destroyed.
RetryOrRest ==
  /\ phase = "started" /\ client = "none" => retry
  /\ phase = "stopped" => client = "none" /\ ~browser /\ ~retry /\ resolvers = EmptyBag

\* browseCallback, resolveCallback: a reported service is in the manager's table
\* or being resolved, unless its resolver failed or its key was taken away by a
\* removal on another interface.
ReportedIsAccountedFor ==
  \A s \in reported : Key(s) \in known \/ Resolving(s) \/ s \in lost

\* serviceKey, serviceRemoved: a key stays in the table only while a service of
\* that key is reported, except for what a late resolver or an earlier browser
\* left behind.
KnownIsReported ==
  \A k \in known \ lingering : \E s \in reported : Key(s) = k

\* clientCallback, createClient: whenever the daemon runs for long enough, the
\* client comes to run with it, however often either failed before.
Reachable == daemon = "running" /\ phase = "started"
ReconnectsToDaemon == []<>(Reachable => client = "running")

\* The whole chain, through restarts of the daemon and failures of the browser: a
\* service that stays on the network gets into the manager's table, unless its
\* resolver or its browser could not be had.
Announced(service) == service \in published /\ Reachable
GivenUp(service) == service \in lost \/ (client = "running" /\ ~browser)
AnnouncedIsKnown ==
  \A s \in Services : []<>(Announced(s) => Key(s) \in known \/ GivenUp(s))

===============================================================================
