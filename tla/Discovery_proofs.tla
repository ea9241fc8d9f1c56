--------------------------- MODULE Discovery_proofs ---------------------------
(***************************************************************************)
(* Safety of AvahiBrowser, for any services, links and bounds.             *)
(***************************************************************************)
EXTENDS AvahiBrowser, TLAPS

-------------------------------------------------------------------------------
(* The bag of resolvers.                                                   *)

\* A new resolver joins those that run.
LEMMA ResolverJoins ==
  ASSUME NEW bag, IsABag(bag), NEW service
  PROVE  /\ IsABag(bag (+) SetToBag({service}))
         /\ DOMAIN (bag (+) SetToBag({service})) = DOMAIN bag \cup {service}
BY DEF IsABag, (+), SetToBag

\* A resolver that is done leaves the others.
LEMMA ResolverLeaves ==
  ASSUME NEW bag, IsABag(bag), NEW service
  PROVE  /\ IsABag(bag (-) SetToBag({service}))
         /\ DOMAIN (bag (-) SetToBag({service})) \subseteq DOMAIN bag
         /\ DOMAIN bag \ {service} \subseteq DOMAIN (bag (-) SetToBag({service}))
BY DEF IsABag, (-), SetToBag

\* No resolver runs at first, and none after the client is gone.
LEMMA NoResolver == IsABag(EmptyBag) /\ DOMAIN EmptyBag = {}
BY DEF IsABag, EmptyBag, SetToBag

-------------------------------------------------------------------------------
(* Types.                                                                  *)

\* What createClient leaves, whoever calls it.
LEMMA CreateClientType ==
  ASSUME TypeOK, CreateClient
  PROVE  /\ client' \in {"none", "connecting", "registering", "running", "gone"}
         /\ browser' \in BOOLEAN /\ retry' \in BOOLEAN
         /\ IsABag(resolvers') /\ DOMAIN resolvers' \subseteq Services
         /\ reported' \subseteq Services /\ lost' \subseteq Services
         /\ lingering' \subseteq Keys
BY NoResolver
   DEF TypeOK, CreateClient, OpenBrowser, KeepBrowser, ScheduleRetry, TeardownClient

\* scheduleRetry keeps the types.
LEMMA ScheduleRetryType ==
  ASSUME TypeOK, ScheduleRetry, UNCHANGED <<worldVars, phase, known>>
  PROVE  TypeOK'
BY NoResolver DEF TypeOK, ScheduleRetry, TeardownClient, worldVars

\* The browser's and the resolvers' callbacks keep the types.
LEMMA ServiceType ==
  ASSUME TypeOK, NEW s \in Services,
         BrowserNew(s) \/ BrowserRemove(s) \/ ResolverFound(s) \/ ResolverFailure(s)
  PROVE  TypeOK'
<1>1. Key(s) \in Keys
  BY DEF Services, Key
<1>2. CASE BrowserNew(s)
  <2>1. IsABag(resolvers') /\ DOMAIN resolvers' \subseteq Services
    <3>1. CASE resolvers' = resolvers (+) SetToBag({s})
      <4>1. IsABag(resolvers)
        BY DEF TypeOK
      <4>2. IsABag(resolvers')
        BY <3>1, <4>1, ResolverJoins
      <4>3. DOMAIN resolvers' = DOMAIN resolvers \cup {s}
        BY <3>1, <4>1, ResolverJoins
      <4> QED
        BY <4>2, <4>3 DEF TypeOK
    <3>2. CASE UNCHANGED resolvers
      BY <3>2 DEF TypeOK
    <3> QED
      BY <1>2, <3>1, <3>2 DEF BrowserNew, NewResolver
  <2>2. lost' \subseteq Services /\ reported' \subseteq Services
    BY <1>2 DEF TypeOK, BrowserNew, NewResolver
  <2> QED
    BY <1>2, <2>1, <2>2 DEF TypeOK, BrowserNew, worldVars
<1>3. CASE BrowserRemove(s)
  BY <1>3 DEF TypeOK, BrowserRemove, Removed, worldVars
<1>4. CASE ResolverFound(s)
  BY <1>1, <1>4, ResolverLeaves DEF TypeOK, ResolverFound, ResolverDone, worldVars
<1>5. CASE ResolverFailure(s)
  BY <1>5, ResolverLeaves DEF TypeOK, ResolverFailure, ResolverDone, worldVars
<1> QED
  BY <1>2, <1>3, <1>4, <1>5

\* The network and the daemon keep the types.
LEMMA WorldType ==
  ASSUME TypeOK, World
  PROVE  TypeOK'
<1>1. ASSUME NEW s \in Services, Publish(s) \/ Withdraw(s)
      PROVE  TypeOK'
  BY <1>1 DEF TypeOK, Publish, Withdraw, Unseen
<1>2. CASE DaemonChanges
  BY <1>2 DEF TypeOK, DaemonChanges, Unseen
<1>3. CASE DaemonDies
  BY <1>3 DEF TypeOK, DaemonDies, Unseen
<1> QED
  BY <1>1, <1>2, <1>3 DEF World

\* AvahiBrowser: every variable keeps its type.
THEOREM BrowserTypeCorrect == Spec => []TypeOK
<1>1. Init => TypeOK
  BY NoResolver DEF Init, TypeOK
<1>2. TypeOK /\ [Next]_vars => TypeOK'
  <2> SUFFICES ASSUME TypeOK, [Next]_vars PROVE TypeOK'
    OBVIOUS
  <2>1. CASE World
    BY <2>1, WorldType
  <2>2. CASE Start
    BY <2>2, CreateClientType DEF TypeOK, Start, worldVars
  <2>3. CASE RetryTimer
    BY <2>3, CreateClientType DEF TypeOK, RetryTimer, worldVars
  <2>4. CASE Stop
    BY <2>4, NoResolver DEF TypeOK, Stop, StopAll, TeardownClient, worldVars
  <2>5. CASE ClientStateChanges
    BY <2>5 DEF TypeOK, ClientStateChanges, OpenBrowser, KeepBrowser, worldVars
  <2>6. CASE ClientFailure \/ BrowserFailure
    BY <2>6, ScheduleRetryType DEF ClientFailure, BrowserFailure
  <2>7. ASSUME NEW s \in Services,
               BrowserNew(s) \/ BrowserRemove(s) \/ ResolverFound(s) \/ ResolverFailure(s)
        PROVE  TypeOK'
    BY <2>7, ServiceType
  <2>8. CASE UNCHANGED vars
    BY <2>8 DEF TypeOK, vars
  <2> QED
    BY <2>1, <2>2, <2>3, <2>4, <2>5, <2>6, <2>7, <2>8 DEF Next, Callback
<1> QED
  BY <1>1, <1>2, PTL DEF Spec

-------------------------------------------------------------------------------
(* The retry timer.                                                        *)

\* scheduleRetry, stop: a started browser without a client has its timer running,
\* and a stopped one has nothing left that could call it back.
THEOREM RetryCorrect == Spec => []RetryOrRest
<1>1. Init => RetryOrRest
  BY DEF Init, RetryOrRest
<1>2. TypeOK /\ RetryOrRest /\ [Next]_vars => RetryOrRest'
  <2> SUFFICES ASSUME TypeOK, RetryOrRest, [Next]_vars PROVE RetryOrRest'
    OBVIOUS
  <2>1. ASSUME NEW s, Publish(s) \/ Withdraw(s)
        PROVE  RetryOrRest'
    BY <2>1 DEF RetryOrRest, Publish, Withdraw, Unseen
  <2>2. CASE DaemonChanges \/ DaemonDies
    BY <2>2 DEF RetryOrRest, DaemonChanges, DaemonDies, Unseen, Attached
  <2>3. ASSUME CreateClient
        PROVE  client' = "none" => retry'
    BY <2>3 DEF TypeOK, CreateClient, ScheduleRetry, TeardownClient
  <2>4. CASE Start \/ RetryTimer
    <3>1. phase' # "stopped"
      BY <2>4 DEF Start, RetryTimer, RetryOrRest
    <3> QED
      BY <2>3, <2>4, <3>1 DEF Start, RetryTimer, RetryOrRest
  <2>5. CASE Stop
    BY <2>5 DEF RetryOrRest, Stop, StopAll, TeardownClient
  <2>6. CASE ClientStateChanges
    BY <2>6 DEF RetryOrRest, TypeOK, ClientStateChanges, OpenBrowser, KeepBrowser
  <2>7. CASE ClientFailure \/ BrowserFailure
    BY <2>7
       DEF RetryOrRest, ClientFailure, BrowserFailure, Attached, ScheduleRetry, TeardownClient
  <2>8. ASSUME NEW s,
               BrowserNew(s) \/ BrowserRemove(s) \/ ResolverFound(s) \/ ResolverFailure(s)
        PROVE  RetryOrRest'
    <3>1. Attached /\ UNCHANGED <<phase, client, browser, retry>>
      BY <2>8 DEF BrowserNew, BrowserRemove, ResolverFound, ResolverFailure, ResolverDone
    <3> QED
      BY <3>1 DEF RetryOrRest, Attached
  <2>9. CASE UNCHANGED vars
    BY <2>9 DEF RetryOrRest, vars
  <2> QED
    BY <2>1, <2>2, <2>4, <2>5, <2>6, <2>7, <2>8, <2>9 DEF Next, World, Callback
<1> QED
  BY <1>1, <1>2, BrowserTypeCorrect, PTL DEF Spec

-------------------------------------------------------------------------------
(* What is known, and what is reported.                                    *)

\* The steps that concern no particular service leave the table of the manager
\* alone, and either forget all reports or none.
LEMMA ReportsStepwise ==
  ASSUME Next, \A s \in Services : ~BrowserNew(s) /\ ~BrowserRemove(s)
                                   /\ ~ResolverFound(s) /\ ~ResolverFailure(s)
  PROVE  /\ UNCHANGED known
         /\ \/ UNCHANGED <<reported, resolvers, lost, lingering>>
            \/ reported' = {} /\ lingering' = known
<1>1. CASE World
  BY <1>1 DEF World, Publish, Withdraw, DaemonChanges, DaemonDies, Unseen
<1>2. CASE Start \/ RetryTimer
  BY <1>2 DEF Start, RetryTimer, CreateClient, OpenBrowser, KeepBrowser, ScheduleRetry,
              TeardownClient
<1>3. CASE Stop \/ ClientFailure \/ BrowserFailure
  BY <1>3 DEF Stop, StopAll, ClientFailure, BrowserFailure, ScheduleRetry, TeardownClient
<1>4. CASE ClientStateChanges
  BY <1>4 DEF ClientStateChanges, OpenBrowser, KeepBrowser
<1> QED
  BY <1>1, <1>2, <1>3, <1>4 DEF Next, Callback

\* serviceKey, serviceRemoved: a key stays in the table only while a service of that
\* key is reported, but for what late resolvers and earlier browsers left behind.
THEOREM KnownCorrect == Spec => []KnownIsReported
<1>1. Init => KnownIsReported
  BY DEF Init, KnownIsReported
<1>2. KnownIsReported /\ [Next]_vars => KnownIsReported'
  <2> SUFFICES ASSUME KnownIsReported, [Next]_vars PROVE KnownIsReported'
    OBVIOUS
  <2>1. ASSUME NEW s \in Services, BrowserNew(s)
        PROVE  KnownIsReported'
    BY <2>1 DEF KnownIsReported, BrowserNew
  <2>2. ASSUME NEW s \in Services, BrowserRemove(s)
        PROVE  KnownIsReported'
    <3>1. \A k : k \in known' \ lingering' => k \in known \ lingering /\ k # Key(s)
      BY <2>2 DEF BrowserRemove, Removed
    <3>2. reported' = reported \ {s}
      BY <2>2 DEF BrowserRemove
    <3> QED
      BY <3>1, <3>2 DEF KnownIsReported
  <2>3. ASSUME NEW s \in Services, ResolverFound(s) \/ ResolverFailure(s)
        PROVE  KnownIsReported'
    BY <2>3 DEF KnownIsReported, ResolverFound, ResolverFailure, ResolverDone
  <2>4. ASSUME Next, \A s \in Services : ~BrowserNew(s) /\ ~BrowserRemove(s)
                                         /\ ~ResolverFound(s) /\ ~ResolverFailure(s)
        PROVE  KnownIsReported'
    BY <2>4, ReportsStepwise DEF KnownIsReported
  <2>5. CASE UNCHANGED vars
    BY <2>5 DEF KnownIsReported, vars
  <2> QED
    BY <2>1, <2>2, <2>3, <2>4, <2>5
<1> QED
  BY <1>1, <1>2, PTL DEF Spec

\* browseCallback, resolveCallback: a reported service is known, being resolved, or
\* lost for one of the two reasons that the code has.
THEOREM ReportedCorrect == Spec => []ReportedIsAccountedFor
<1>1. Init => ReportedIsAccountedFor
  BY DEF Init, ReportedIsAccountedFor
<1>2. TypeOK /\ ReportedIsAccountedFor /\ [Next]_vars => ReportedIsAccountedFor'
  <2> SUFFICES ASSUME TypeOK, ReportedIsAccountedFor, [Next]_vars
               PROVE  ReportedIsAccountedFor'
    OBVIOUS
  <2>1. ASSUME NEW s \in Services, BrowserNew(s)
        PROVE  ReportedIsAccountedFor'
    <3>1. CASE resolvers' = resolvers (+) SetToBag({s}) /\ lost' = lost \ {s}
      <4>1. DOMAIN resolvers' = DOMAIN resolvers \cup {s}
        BY <3>1, ResolverJoins DEF TypeOK
      <4> QED
        BY <2>1, <3>1, <4>1
           DEF ReportedIsAccountedFor, BrowserNew, Resolving, BagIn, BagToSet
    <3>2. CASE lost' = lost \cup {s} /\ UNCHANGED resolvers
      BY <2>1, <3>2 DEF ReportedIsAccountedFor, BrowserNew, Resolving
    <3> QED
      BY <2>1, <3>1, <3>2 DEF BrowserNew, NewResolver
  <2>2. ASSUME NEW s \in Services, BrowserRemove(s)
        PROVE  ReportedIsAccountedFor'
    BY <2>2 DEF ReportedIsAccountedFor, BrowserRemove, Removed, Resolving
  <2>3. ASSUME NEW s \in Services, ResolverFound(s) \/ ResolverFailure(s)
        PROVE  ReportedIsAccountedFor'
    <3>1. resolvers' = resolvers (-) SetToBag({s}) /\ UNCHANGED reported
      BY <2>3 DEF ResolverFound, ResolverFailure, ResolverDone
    <3>2. DOMAIN resolvers \ {s} \subseteq DOMAIN resolvers'
      BY <3>1, ResolverLeaves DEF TypeOK
    <3>3. \A t : Resolving(t) => t = s \/ Resolving(t)'
      BY <3>2 DEF Resolving, BagIn, BagToSet
    <3>4. CASE ResolverFound(s)
      BY <3>1, <3>3, <3>4 DEF ReportedIsAccountedFor, ResolverFound
    <3>5. CASE ResolverFailure(s)
      BY <3>1, <3>3, <3>5 DEF ReportedIsAccountedFor, ResolverFailure
    <3> QED
      BY <2>3, <3>4, <3>5
  <2>4. ASSUME Next, \A s \in Services : ~BrowserNew(s) /\ ~BrowserRemove(s)
                                         /\ ~ResolverFound(s) /\ ~ResolverFailure(s)
        PROVE  ReportedIsAccountedFor'
    BY <2>4, ReportsStepwise DEF ReportedIsAccountedFor, Resolving
  <2>5. CASE UNCHANGED vars
    BY <2>5 DEF ReportedIsAccountedFor, Resolving, vars
  <2> QED
    BY <2>1, <2>2, <2>3, <2>4, <2>5
<1> QED
  BY <1>1, <1>2, BrowserTypeCorrect, PTL DEF Spec

===============================================================================
