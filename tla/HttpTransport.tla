---------------------------- MODULE HttpTransport ----------------------------
(***************************************************************************)
(* src/src/httptransport.cpp: the requests QNetworkAccessManager has in    *)
(* flight.  Nothing orders them: a later request may overtake an earlier   *)
(* one, each may fail at any time, and the device may have obeyed a PUT    *)
(* whose reply is lost.  Two equal requests can be in flight, so m_pending *)
(* is a bag.                                                               *)
(***************************************************************************)
EXTENDS Hardware, Bags

VARIABLE http

Requests(kind, served, payload) ==
  [id : Ids, kind : {kind}, address : Addresses \cup {None},
   payload : payload, served : {served}]

\* payload is the body of a PUT, or what the device answered to a State
\* request once it has served it.
HttpRequest ==
  Requests("Info", FALSE, {None}) \cup
  Requests("State", FALSE, {None}) \cup Requests("State", TRUE, LightState) \cup
  Requests("Put", FALSE, LightState) \cup Requests("Put", TRUE, LightState)

Request(id, kind, light, body) ==
  [id |-> id, kind |-> kind, address |-> light.address,
   payload |-> body, served |-> FALSE]

GetInfo(id, light) == Request(id, "Info", light, None)
GetLights(id, light) == Request(id, "State", light, None)
PutLights(id, light, state) == Request(id, "Put", light, BuildLightsBody(state))

Track(pending, requests) == pending (+) SetToBag(requests)
Untrack(request) == http (-) SetToBag({request})

HttpTypeOK == IsABag(http) /\ DOMAIN http \subseteq HttpRequest

HttpInit == http = EmptyBag

(***************************************************************************)
(* The device reads its state for a GET, or obeys a PUT.  The identity of  *)
(* an accessory-info answer never changes, so it needs no such step.       *)
(***************************************************************************)
DeviceServes(request) ==
  /\ request.address # None
  /\ ~request.served
  /\ LET d == Owner[request.address]
         served(payload) == [request EXCEPT !.served = TRUE, !.payload = payload]
     IN  \/ /\ request.kind = "State"
            /\ http' = Track(Untrack(request), {served(device[d])})
            /\ UNCHANGED device
         \/ /\ request.kind = "Put"
            /\ http' = Track(Untrack(request), {served(request.payload)})
            /\ device' = [device EXCEPT ![d] = request.payload]
  /\ UNCHANGED plugged

\* onFinished with a 2xx reply: there is an answer to read.
Answered(request) ==
  request.address # None /\ (request.kind = "Info" \/ request.served)

==============================================================================
