----------------------------- MODULE Outbox_proofs -----------------------------
(***************************************************************************)
(* Every light's PUTs, over both transports, are those of an outbox that   *)
(* holds one message.                                                      *)
(***************************************************************************)
EXTENDS Usb_proofs

-------------------------------------------------------------------------------
(* What is in flight for a light: nothing, or one PUT with this body.  bag *)
(* is a bag of HTTP requests and seq a sequence of calls of the worker.    *)

PutOf(id) == {call \in LightCall : call.kind = "Put" /\ call.id = id}
PutBody(id, body) == {call \in PutOf(id) : call.body = body}

Posts(bag, id) == {r \in DOMAIN bag : r.kind = "Put" /\ r.id = id}

NoPost(bag, id) == Posts(bag, id) = {}
OnePost(bag, id, body) ==
  \E r : Posts(bag, id) = {r} /\ bag[r] = 1 /\ r.payload = body

NoCall(seq, id) == Occurrences(seq, PutOf(id)) = {}
OneCall(seq, id, body) ==
  ExactlyOne(Occurrences(seq, PutOf(id))) /\ Occurrences(seq, PutBody(id, body)) # {}

Silent(bag, seq, id) == NoPost(bag, id) /\ NoCall(seq, id)
Carries(bag, seq, id, body) ==
  \/ OnePost(bag, id, body) /\ NoCall(seq, id)
  \/ NoPost(bag, id) /\ OneCall(seq, id, body)

\* Both transports are as they were for this light.
Alike(bag, seq, next, after, id) ==
  /\ Silent(bag, seq, id) => Silent(next, after, id)
  /\ \A body : Carries(bag, seq, id, body) => Carries(next, after, id, body)

-------------------------------------------------------------------------------
(* Bags of requests.                                                       *)

\* Requests of other kinds, or for other lights, are sent.
LEMMA TrackOthers ==
  ASSUME NEW bag, IsABag(bag), NEW requests, NEW id,
         \A r \in requests : ~(r.kind = "Put" /\ r.id = id)
  PROVE  /\ NoPost(bag, id) => NoPost(Track(bag, requests), id)
         /\ \A body : OnePost(bag, id, body) => OnePost(Track(bag, requests), id, body)
<1> DEFINE next == Track(bag, requests)
<1>1. DOMAIN next = DOMAIN bag \cup requests
  BY DEF Track, (+), SetToBag
<1>2. \A r \in DOMAIN bag \ requests : next[r] = bag[r]
  BY DEF Track, (+), SetToBag, IsABag
<1> HIDE DEF next
<1>3. Posts(next, id) = Posts(bag, id)
  BY <1>1 DEF Posts
<1>4. \A r \in Posts(bag, id) : next[r] = bag[r]
  BY <1>2 DEF Posts
<1>5. NoPost(bag, id) => NoPost(next, id)
  BY <1>3 DEF NoPost
<1>6. ASSUME NEW body, OnePost(bag, id, body)
      PROVE  OnePost(next, id, body)
  BY <1>3, <1>4, <1>6 DEF OnePost
<1> QED
  BY <1>5, <1>6 DEF next

\* A PUT is sent where there was none.
LEMMA TrackPost ==
  ASSUME NEW bag, IsABag(bag), NEW requests, NEW id, NoPost(bag, id), NEW q \in requests,
         q.kind = "Put", q.id = id,
         \A r \in requests : r.kind = "Put" /\ r.id = id => r = q
  PROVE  OnePost(Track(bag, requests), id, q.payload)
<1> DEFINE next == Track(bag, requests)
<1>1. DOMAIN next = DOMAIN bag \cup requests
  BY DEF Track, (+), SetToBag
<1>2. q \notin DOMAIN bag
  BY DEF NoPost, Posts
<1>3. next[q] = 1
  BY <1>2 DEF Track, (+), SetToBag
<1> HIDE DEF next
<1>4. Posts(next, id) = {q}
  BY <1>1 DEF Posts, NoPost
<1> QED
  BY <1>3, <1>4 DEF OnePost, next

\* A request of another kind, or for another light, ends.
LEMMA UntrackOthers ==
  ASSUME IsABag(http), NEW request, NEW id, ~(request.kind = "Put" /\ request.id = id)
  PROVE  /\ NoPost(http, id) => NoPost(Untrack(request), id)
         /\ \A body : OnePost(http, id, body) => OnePost(Untrack(request), id, body)
<1> DEFINE next == Untrack(request)
<1>1. \A r \in DOMAIN http : r # request => r \in DOMAIN next /\ next[r] = http[r]
  BY DEF Untrack, (-), SetToBag, IsABag
<1>2. DOMAIN next \subseteq DOMAIN http
  BY DEF Untrack, (-), SetToBag
<1> HIDE DEF next
<1>3. Posts(next, id) = Posts(http, id)
  BY <1>1, <1>2 DEF Posts
<1>4. \A r \in Posts(http, id) : next[r] = http[r]
  BY <1>1 DEF Posts
<1>5. NoPost(http, id) => NoPost(next, id)
  BY <1>3 DEF NoPost
<1>6. ASSUME NEW body, OnePost(http, id, body)
      PROVE  OnePost(next, id, body)
  BY <1>3, <1>4, <1>6 DEF OnePost
<1> QED
  BY <1>5, <1>6 DEF next

\* The only PUT of a light ends.
LEMMA UntrackPost ==
  ASSUME IsABag(http), NEW request \in DOMAIN http, request.kind = "Put", NEW body,
         OnePost(http, request.id, body)
  PROVE  NoPost(Untrack(request), request.id) /\ request.payload = body
<1> DEFINE next == Untrack(request)
<1>1. Posts(http, request.id) = {request} /\ http[request] = 1 /\ request.payload = body
  BY DEF OnePost, Posts
<1>2. DOMAIN next \subseteq DOMAIN http /\ request \notin DOMAIN next
  BY <1>1 DEF Untrack, (-), SetToBag
<1> HIDE DEF next
<1> QED
  BY <1>1, <1>2 DEF NoPost, Posts, next

-------------------------------------------------------------------------------
(* Sequences of calls.                                                     *)

\* The calls with a body are among the light's.
LEMMA BodyOccurrences ==
  ASSUME NEW seq, NEW id, NEW body
  PROVE  Occurrences(seq, PutBody(id, body)) \subseteq Occurrences(seq, PutOf(id))
BY DEF Occurrences, PutBody

\* Calls of other kinds, or for other lights, are queued.
LEMMA QueueOthers ==
  ASSUME NEW seq \in Seq(UsbCall), NEW calls \in SUBSET UsbCall, IsFiniteSet(calls),
         NEW order \in SetToSeqs(calls), NEW id, calls \cap PutOf(id) = {}
  PROVE  /\ NoCall(seq, id) => NoCall(seq \o order, id)
         /\ \A body : OneCall(seq, id, body) => OneCall(seq \o order, id, body)
<1>1. order \in Seq(UsbCall)
  BY OrderType
<1>2. ASSUME NEW S, S \subseteq PutOf(id)
      PROVE  Occurrences(seq \o order, S) = Occurrences(seq, S)
  <2>1. calls \cap S = {}
    BY <1>2
  <2>2. Occurrences(order, S) = {}
    BY <2>1, OrderOnce
  <2> QED
    BY <1>1, <2>2, AppendNone
<1>3. Occurrences(seq \o order, PutOf(id)) = Occurrences(seq, PutOf(id))
  BY <1>2
<1>4. ASSUME NEW body
      PROVE  Occurrences(seq \o order, PutBody(id, body)) = Occurrences(seq, PutBody(id, body))
  BY <1>2 DEF PutBody
<1> QED
  BY <1>3, <1>4 DEF NoCall, OneCall

\* A PUT is queued where there was none.
LEMMA QueuePut ==
  ASSUME NEW seq \in Seq(UsbCall), NEW calls \in SUBSET UsbCall, IsFiniteSet(calls),
         NEW order \in SetToSeqs(calls), NEW id, NoCall(seq, id), NEW c,
         calls \cap PutOf(id) = {c}
  PROVE  OneCall(seq \o order, id, c.body)
<1>1. order \in Seq(UsbCall)
  BY OrderType
<1>2. calls \cap PutBody(id, c.body) = {c}
  BY DEF PutBody
<1>3. ExactlyOne(calls \cap PutOf(id)) /\ ExactlyOne(calls \cap PutBody(id, c.body))
  BY <1>2 DEF ExactlyOne
<1>4. /\ Occurrences(seq, PutOf(id)) = {}
      /\ Occurrences(seq, PutBody(id, c.body)) = {}
  BY BodyOccurrences DEF NoCall
<1>5. /\ ExactlyOne(Occurrences(order, PutOf(id)))
      /\ ExactlyOne(Occurrences(order, PutBody(id, c.body)))
  BY <1>3, OrderOnce
<1>6. ExactlyOne(Occurrences(seq \o order, PutOf(id)))
  BY <1>1, <1>4, <1>5, AppendOne
<1>7. ExactlyOne(Occurrences(seq \o order, PutBody(id, c.body)))
  BY <1>1, <1>4, <1>5, AppendOne
<1> QED
  BY <1>6, <1>7 DEF OneCall, ExactlyOne

\* The oldest call ends, and it is not a PUT of this light.
LEMMA HearOthers ==
  ASSUME NEW seq \in Seq(UsbCall), seq # <<>>, NEW id, Head(seq) \notin PutOf(id)
  PROVE  /\ NoCall(seq, id) => NoCall(Tail(seq), id)
         /\ \A body : OneCall(seq, id, body) => OneCall(Tail(seq), id, body)
<1>1. ASSUME NEW S, S \subseteq PutOf(id)
      PROVE  /\ Occurrences(seq, S) = {} <=> Occurrences(Tail(seq), S) = {}
             /\ ExactlyOne(Occurrences(seq, S)) => ExactlyOne(Occurrences(Tail(seq), S))
  <2>1. Head(seq) \notin S
    BY <1>1
  <2> QED
    BY <2>1, TailKeeps
<1>2. \A body : PutBody(id, body) \subseteq PutOf(id)
  BY DEF PutBody
<1> QED
  BY <1>1, <1>2 DEF NoCall, OneCall

\* The only PUT of a light ends.
LEMMA HearPut ==
  ASSUME NEW seq \in Seq(UsbCall), seq # <<>>, NEW id, Head(seq) \in PutOf(id)
  PROVE  /\ ~NoCall(seq, id)
         /\ \A body : OneCall(seq, id, body) => NoCall(Tail(seq), id)
BY TailTakes DEF NoCall, OneCall

-------------------------------------------------------------------------------
(* Both transports.                                                        *)

\* Two steps that change nothing for a light.
LEMMA AlikeTwice ==
  ASSUME NEW bag, NEW seq, NEW mid, NEW half, NEW next, NEW after, NEW id,
         Alike(bag, seq, mid, half, id), Alike(mid, half, next, after, id)
  PROVE  Alike(bag, seq, next, after, id)
BY DEF Alike

\* Requests and calls that are no PUT of this light.
LEMMA OthersAlike ==
  ASSUME NEW bag, IsABag(bag), NEW requests, NEW seq \in Seq(UsbCall),
         NEW calls \in SUBSET UsbCall, IsFiniteSet(calls), NEW order \in SetToSeqs(calls),
         NEW id, \A r \in requests : ~(r.kind = "Put" /\ r.id = id),
         calls \cap PutOf(id) = {}
  PROVE  Alike(bag, seq, Track(bag, requests), seq \o order, id)
<1>1. /\ NoPost(bag, id) => NoPost(Track(bag, requests), id)
      /\ \A body : OnePost(bag, id, body) => OnePost(Track(bag, requests), id, body)
  BY TrackOthers
<1>2. /\ NoCall(seq, id) => NoCall(seq \o order, id)
      /\ \A body : OneCall(seq, id, body) => OneCall(seq \o order, id, body)
  BY QueueOthers
<1> QED
  BY <1>1, <1>2 DEF Alike, Silent, Carries

\* The GETs of fetchState.
LEMMA FetchAlike ==
  ASSUME NEW L, IsTable(L, Ids, KeyLightRecord), NEW S \in SUBSET DOMAIN L,
         NEW info, \A r \in info : r.kind = "Info",
         NEW bag, IsABag(bag), NEW seq \in Seq(UsbCall),
         NEW order \in SetToSeqs(StateCalls(L, S)), NEW id
  PROVE  Alike(bag, seq, Track(bag, info \cup StateRequests(L, S)), seq \o order, id)
<1>1. StateCalls(L, S) \in SUBSET UsbCall /\ IsFiniteSet(StateCalls(L, S))
  BY StateCallsType
<1>2. StateCalls(L, S) \cap PutOf(id) = {}
  BY DEF StateCalls, RequestCall, PutOf
<1>3. \A r \in info \cup StateRequests(L, S) : ~(r.kind = "Put" /\ r.id = id)
  BY DEF StateRequests, GetLights, Request
<1> QED
  BY <1>1, <1>2, <1>3, OthersAlike

\* flush: one PUT for each light it sends, on the transport of that light.
LEMMA Sends ==
  ASSUME NEW L, IsTable(L, Ids, KeyLightRecord), NEW sent \in SUBSET DOMAIN L,
         \A i \in sent : L[i].state # None,
         NEW bag, IsABag(bag), NEW seq \in Seq(UsbCall),
         NEW order \in SetToSeqs(PutCalls(L, sent)), NEW id
  PROVE  LET next == Track(bag, PutRequests(L, sent))
         IN  /\ id \notin sent => Alike(bag, seq, next, seq \o order, id)
             /\ id \in sent /\ Silent(bag, seq, id)
                  => Carries(next, seq \o order, id, BuildLightsBody(L[id].state))
<1> DEFINE requests == PutRequests(L, sent)
           calls == PutCalls(L, sent)
           post(i) == PutLights(i, L[i], L[i].state)
           call(i) == RequestCall(i, L[i].usbPath, "Put", BuildLightsBody(L[i].state))
<1>1. calls \in SUBSET UsbCall /\ IsFiniteSet(calls)
  BY PutCallsType
<1>2. /\ requests = {post(i) : i \in {j \in sent : L[j].transport = "Http"}}
      /\ calls = {call(i) : i \in {j \in sent : L[j].transport = "Usb"}}
  BY DEF PutRequests, PutCalls, Over
<1>3. \A i : /\ post(i).kind = "Put" /\ post(i).id = i
             /\ post(i).payload = BuildLightsBody(L[i].state)
             /\ call(i).kind = "Put" /\ call(i).id = i
             /\ call(i).body = BuildLightsBody(L[i].state)
  BY DEF PutLights, Request, RequestCall
<1>4. \A i \in sent : L[i].transport \in {"Http", "Usb"}
  BY LightFields DEF KeyLightRecord
<1> HIDE DEF requests, calls, post, call
<1>5. ASSUME id \notin sent
      PROVE  Alike(bag, seq, Track(bag, requests), seq \o order, id)
  <2>1. \A r \in requests : ~(r.kind = "Put" /\ r.id = id)
    BY <1>2, <1>3, <1>5
  <2>2. calls \cap PutOf(id) = {}
    BY <1>2, <1>3, <1>5 DEF PutOf
  <2> QED
    BY <1>1, <2>1, <2>2, OthersAlike DEF calls
<1>6. ASSUME id \in sent, Silent(bag, seq, id)
      PROVE  Carries(Track(bag, requests), seq \o order, id, BuildLightsBody(L[id].state))
  <2>1. NoPost(bag, id) /\ NoCall(seq, id)
    BY <1>6 DEF Silent
  <2>2. CASE L[id].transport = "Http"
    <3>1. /\ post(id) \in requests /\ post(id).kind = "Put" /\ post(id).id = id
          /\ \A r \in requests : r.kind = "Put" /\ r.id = id => r = post(id)
      BY <1>2, <1>3, <1>6, <2>2
    <3>2. OnePost(Track(bag, requests), id, post(id).payload)
      BY <2>1, <3>1, TrackPost
    <3>3. calls \cap PutOf(id) = {}
      BY <1>2, <1>3, <2>2 DEF PutOf
    <3>4. NoCall(seq \o order, id)
      BY <1>1, <2>1, <3>3, QueueOthers DEF calls
    <3> QED
      BY <1>3, <3>2, <3>4 DEF Carries
  <2>3. CASE L[id].transport = "Usb"
    <3>1. \A r \in requests : ~(r.kind = "Put" /\ r.id = id)
      BY <1>2, <1>3, <2>3
    <3>2. NoPost(Track(bag, requests), id)
      BY <2>1, <3>1, TrackOthers
    <3>3. calls \cap PutOf(id) = {call(id)}
      <4>1. call(id) \in LightCall
        <5>1. L[id].usbPath \in UsbPaths \cup {None} /\ L[id].state \in LightState /\ id \in Ids
          BY <1>6, LightFields
        <5>2. BuildLightsBody(L[id].state) \in LightState
          BY <5>1, ClampType
        <5> QED
          BY <5>1, <5>2 DEF LightCall, RequestCall, call
      <4> QED
        BY <1>2, <1>3, <1>6, <2>3, <4>1 DEF PutOf
    <3>4. OneCall(seq \o order, id, call(id).body)
      BY <1>1, <2>1, <3>3, QueuePut DEF calls
    <3> QED
      BY <1>3, <3>2, <3>4 DEF Carries
  <2> QED
    BY <1>4, <1>6, <2>2, <2>3
<1> QED
  BY <1>5, <1>6 DEF requests

-------------------------------------------------------------------------------
(* What a step does to one light's PUTs.                                   *)

Kept(id) ==
  /\ Alike(http, UsbCalls, http', UsbCalls', id)
  /\ id \in inflight' <=> id \in inflight

\* Nothing happens, or what happens is another light's business.
Untouched(id) == Kept(id) /\ (id \in dirty' <=> id \in dirty)

\* A change waits behind the PUT in flight.
Postponed(id) == Kept(id) /\ id \in inflight /\ HasState(id)' /\ id \in dirty'

\* A PUT leaves with the cached state; perhaps on the heels of the last one.
Sent(id) ==
  /\ id \in inflight => id \in dirty
  /\ id \in inflight' /\ id \notin dirty' /\ HasState(id)'
  /\ Carries(http', UsbCalls', id, BuildLightsBody(lights'[id].state))

\* The PUT in flight is over, and no other follows.
Finished(id) ==
  /\ id \in inflight /\ id \notin inflight' /\ id \notin dirty'
  /\ Silent(http', UsbCalls', id)

Boxed == \A id \in Ids : Untouched(id) \/ Postponed(id) \/ Sent(id) \/ Finished(id)

\* The inductive invariant: m_inflight tells which lights have a PUT in flight.
OutboxInv ==
  \A id \in Ids : IF id \in inflight THEN \E body : Carries(http, UsbCalls, id, body)
                                     ELSE Silent(http, UsbCalls, id)

\* Each such step keeps it.
LEMMA BoxedInv == OutboxInv /\ Boxed => OutboxInv'
<1> SUFFICES ASSUME OutboxInv, Boxed, NEW id \in Ids
             PROVE  IF id \in inflight' THEN \E body : Carries(http', UsbCalls', id, body)
                                        ELSE Silent(http', UsbCalls', id)
  BY DEF OutboxInv
<1>1. IF id \in inflight THEN \E body : Carries(http, UsbCalls, id, body)
                         ELSE Silent(http, UsbCalls, id)
  BY DEF OutboxInv
<1>2. CASE Kept(id)
  BY <1>1, <1>2 DEF Kept, Alike
<1>3. CASE Sent(id) \/ Finished(id)
  BY <1>3 DEF Sent, Finished
<1> QED
  BY <1>2, <1>3 DEF Boxed, Untouched, Postponed

\* A light without a PUT in flight has no token, and no body, on either transport.
LEMMA SilentPuts ==
  ASSUME NEW id, Silent(http, UsbCalls, id)
  PROVE  PutsInFlight(id) = {} /\ BodiesInFlight(id) = {}
<1>1. HttpPuts(id) = {} /\ UsbPuts(id) = {}
  BY DEF Silent, NoPost, NoCall, Posts, PutOf, HttpPuts, UsbPuts
<1> QED
  BY <1>1 DEF PutsInFlight, BodiesInFlight

\* A light with one has one token, and one body.
LEMMA CarriesPuts ==
  ASSUME NEW id, NEW body, Carries(http, UsbCalls, id, body)
  PROVE  ExactlyOne(PutsInFlight(id)) /\ BodiesInFlight(id) = {body}
<1>1. HttpPuts(id) = Posts(http, id) /\ UsbPuts(id) = Occurrences(UsbCalls, PutOf(id))
  BY DEF HttpPuts, Posts, UsbPuts, PutOf
<1>2. CASE OnePost(http, id, body) /\ NoCall(UsbCalls, id)
  <2>1. PICK r : HttpPuts(id) = {r} /\ http[r] = 1 /\ r.payload = body
    BY <1>1, <1>2 DEF OnePost
  <2>2. UsbPuts(id) = {}
    BY <1>1, <1>2 DEF NoCall
  <2>3. 1 .. http[r] = {1}
    BY <2>1
  <2>4. PutsInFlight(id) = {<<"http", r, 1>>}
    BY <2>1, <2>2, <2>3 DEF PutsInFlight
  <2> QED
    BY <2>1, <2>2, <2>4 DEF ExactlyOne, BodiesInFlight
<1>3. CASE NoPost(http, id) /\ OneCall(UsbCalls, id, body)
  <2>1. PICK i : UsbPuts(id) = {i}
    BY <1>1, <1>3 DEF OneCall, ExactlyOne
  <2>2. HttpPuts(id) = {}
    BY <1>1, <1>3 DEF NoPost
  <2>3. UsbCalls[i].body = body
    <3>1. PICK j \in Occurrences(UsbCalls, PutBody(id, body)) : TRUE
      BY <1>3 DEF OneCall
    <3>2. j = i
      BY <1>1, <2>1, <3>1, BodyOccurrences
    <3> QED
      BY <3>1, <3>2 DEF Occurrences, PutBody
  <2>4. PutsInFlight(id) = {<<"usb", i>>}
    BY <2>1, <2>2 DEF PutsInFlight
  <2> QED
    BY <2>1, <2>2, <2>3, <2>4 DEF ExactlyOne, BodiesInFlight
<1> QED
  BY <1>2, <1>3 DEF Carries

\* The invariant is stronger than the property.
LEMMA OutboxOne == OutboxInv => OnePutInFlight
BY SilentPuts, CarriesPuts DEF OutboxInv, OnePutInFlight

-------------------------------------------------------------------------------
(* Handlers that send.                                                     *)

\* A step that sends no PUT and hears of none.
LEMMA QuietBoxed ==
  ASSUME UNCHANGED putVars, \A id \in Ids : Alike(http, UsbCalls, http', UsbCalls', id)
  PROVE  Boxed
BY DEF Boxed, Untouched, Kept, putVars

\* A step that leaves the requests and the calls alone.
LEMMA IdleBoxed ==
  ASSUME UNCHANGED <<putVars, http>>, UsbCalls' = UsbCalls
  PROVE  Boxed
BY QuietBoxed DEF Alike

\* Flush, once a PUT of light ended is over: one that carried on, if none.
LEMMA FlushBoxed ==
  ASSUME IsTable(lights', Ids, KeyLightRecord), DirtyOnlyWhileInflight, NEW ended, NEW S,
         NEW bag, IsABag(bag), NEW seq \in Seq(UsbCall),
         \A order \in Seq(UsbCall) : usbIn' = usbIn \o order => UsbCalls' = seq \o order,
         \A id \in Ids : IF id \in inflight \ ended THEN Alike(http, UsbCalls, bag, seq, id)
                         ELSE Silent(bag, seq, id),
         ended \subseteq inflight,
         \A id \in Ids \ ended : Alike(http, UsbCalls, bag, seq, id),
         S \cap ended \subseteq dirty,
         Flush(lights', S, inflight \ ended, dirty \ ended, bag)
  PROVE  Boxed
<1> DEFINE waiting == Flushable(lights', S) \cap (inflight \ ended)
           sent == Flushable(lights', S) \ (inflight \ ended)
<1>1. /\ dirty' = (dirty \ ended) \cup waiting
      /\ inflight' = (inflight \ ended) \cup sent
      /\ http' = Track(bag, PutRequests(lights', sent))
      /\ Queue(PutCalls(lights', sent))
  BY DEF Flush
<1>2. /\ sent \in SUBSET DOMAIN lights' /\ sent \subseteq S
      /\ \A i \in sent \cup waiting : i \in DOMAIN lights' /\ lights'[i].state # None
      /\ sent \cap (inflight \ ended) = {} /\ waiting \subseteq inflight \ ended
  BY DEF Flushable
<1> HIDE DEF waiting, sent
<1>3. PICK order \in SetToSeqs(PutCalls(lights', sent)) : usbIn' = usbIn \o order
  BY <1>1 DEF Queue
<1>4. order \in Seq(UsbCall)
  <2>1. PutCalls(lights', sent) \in SUBSET UsbCall /\ IsFiniteSet(PutCalls(lights', sent))
    BY <1>2, PutCallsType
  <2> QED
    BY <2>1, OrderType
<1>5. UsbCalls' = seq \o order
  BY <1>3, <1>4
<1>6. ASSUME NEW id
      PROVE  /\ id \notin sent => Alike(bag, seq, http', UsbCalls', id)
             /\ id \in sent /\ Silent(bag, seq, id)
                  => Carries(http', UsbCalls', id, BuildLightsBody(lights'[id].state))
  BY <1>1, <1>2, <1>5, Sends
<1> SUFFICES ASSUME NEW id \in Ids
             PROVE  Untouched(id) \/ Postponed(id) \/ Sent(id) \/ Finished(id)
  BY DEF Boxed
<1>7. CASE id \in sent
  <2>1. Silent(bag, seq, id) /\ id \notin inflight \ ended
    BY <1>2, <1>7
  <2>2. Carries(http', UsbCalls', id, BuildLightsBody(lights'[id].state))
    BY <1>6, <1>7, <2>1
  <2>3. HasState(id)' /\ id \in inflight' /\ id \notin dirty' /\ (id \in inflight => id \in dirty)
    BY <1>1, <1>2, <1>7, <2>1 DEF HasState, DirtyOnlyWhileInflight
  <2> QED
    BY <2>2, <2>3 DEF Sent
<1>8. CASE id \notin sent /\ id \in ended
  <2>1. Silent(bag, seq, id)
    BY <1>8
  <2>2. Silent(http', UsbCalls', id)
    BY <1>6, <1>8, <2>1 DEF Alike
  <2> QED
    BY <1>1, <1>2, <1>8, <2>2 DEF Finished
<1>9. CASE id \notin sent /\ id \notin ended
  <2>1. Alike(http, UsbCalls, http', UsbCalls', id)
    BY <1>6, <1>9, AlikeTwice
  <2>2. Kept(id)
    BY <1>1, <1>9, <2>1 DEF Kept
  <2>3. CASE id \in waiting
    BY <1>1, <1>2, <2>2, <2>3 DEF Postponed, HasState
  <2>4. CASE id \notin waiting
    BY <1>1, <1>9, <2>2, <2>4 DEF Untouched
  <2> QED
    BY <2>3, <2>4
<1> QED
  BY <1>7, <1>8, <1>9

\* The user and the timers send by flush, with nothing over.
LEMMA UserFlushBoxed ==
  ASSUME TypeOK, TypeOK', DirtyOnlyWhileInflight, OutboxInv, UNCHANGED usbOut, NEW S,
         Flush(lights', S, inflight, dirty, http)
  PROVE  Boxed
<1> DEFINE none == {}
<1>1. /\ UsbTypeOK /\ IsABag(http) /\ IsTable(lights', Ids, KeyLightRecord)
      /\ UsbCalls \in Seq(UsbCall)
  BY CallsType DEF TypeOK, ManagerTypeOK, HttpTypeOK
<1>2. ASSUME NEW order \in Seq(UsbCall), usbIn' = usbIn \o order
      PROVE  UsbCalls' = UsbCalls \o order
  BY <1>1, <1>2, CallsQueued
<1>3. \A id \in Ids : Alike(http, UsbCalls, http, UsbCalls, id)
  BY DEF Alike
<1>4. /\ inflight \ none = inflight /\ dirty \ none = dirty
      /\ none \subseteq inflight /\ S \cap none \subseteq dirty
      /\ Flush(lights', S, inflight \ none, dirty \ none, http)
  OBVIOUS
<1>5. \A id \in Ids : IF id \in inflight \ none THEN Alike(http, UsbCalls, http, UsbCalls, id)
                      ELSE Silent(http, UsbCalls, id)
  BY <1>3, <1>4 DEF OutboxInv
<1> HIDE DEF none
<1> QED
  BY <1>1, <1>2, <1>3, <1>4, <1>5, FlushBoxed

-------------------------------------------------------------------------------
(* The main thread's own steps.                                            *)

\* fetchState for a set of lights, with the GETs of onDiscovered.
LEMMA FetchBoxed ==
  ASSUME TypeOK, UNCHANGED <<putVars, usbOut>>, NEW L, IsTable(L, Ids, KeyLightRecord),
         NEW S \in SUBSET DOMAIN L, NEW info, \A r \in info : r.kind = "Info",
         http' = Track(http, info \cup StateRequests(L, S)), Queue(StateCalls(L, S))
  PROVE  Boxed
<1>1. UsbTypeOK /\ IsABag(http) /\ UsbCalls \in Seq(UsbCall)
  BY CallsType DEF TypeOK, HttpTypeOK
<1>2. PICK order \in SetToSeqs(StateCalls(L, S)) : usbIn' = usbIn \o order
  BY DEF Queue
<1>3. order \in Seq(UsbCall)
  BY StateCallsType, OrderType
<1>4. UsbCalls' = UsbCalls \o order
  BY <1>1, <1>2, <1>3, CallsQueued
<1> QED
  BY <1>1, <1>4, FetchAlike, QuietBoxed

\* The tick queues a scan before the GETs.
LEMMA TickBoxed ==
  ASSUME TypeOK, OnRefreshTick
  PROVE  Boxed
<1> DEFINE due == Due(refreshTicks')
           scan == {EnumerateCall}
           first == <<EnumerateCall>>
<1>1. UsbTypeOK /\ IsABag(http) /\ UsbCalls \in Seq(UsbCall)
      /\ IsTable(lights, Ids, KeyLightRecord) /\ due \in SUBSET DOMAIN lights
  BY CallsType DEF TypeOK, HttpTypeOK, ManagerTypeOK, Due
<1>2. PICK order \in SetToSeqs(StateCalls(lights, due)) : usbIn' = usbIn \o first \o order
  BY DEF OnRefreshTick
<1>3. http' = Track(http, StateRequests(lights, due)) /\ UNCHANGED <<putVars, usbOut>>
  BY DEF OnRefreshTick
<1> HIDE DEF due
<1>4. order \in Seq(UsbCall)
  BY <1>1, StateCallsType, OrderType
<1>5. /\ scan \in SUBSET UsbCall /\ IsFiniteSet(scan) /\ first \in Seq(UsbCall)
      /\ first \in SetToSeqs(scan)
  <2>1. EnumerateCall \in UsbCall
    BY DEF UsbCall
  <2>2. IsFiniteSet(scan) /\ Cardinality(scan) = 1
    BY FS_Singleton
  <2>3. first \in Seq(UsbCall) /\ first \in [1 .. 1 -> scan]
    BY <2>1
  <2>4. \A i, j \in 1 .. 1 : i # j => first[i] # first[j]
    OBVIOUS
  <2> HIDE DEF first
  <2>5. first \in SetToSeqs(scan)
    BY <2>2, <2>3, <2>4 DEF SetToSeqs
  <2> QED
    BY <2>1, <2>2, <2>3, <2>5
<1>6. \A id : scan \cap PutOf(id) = {}
  BY DEF EnumerateCall, PutOf
<1> HIDE DEF scan, first
<1>7. UsbCalls' = (UsbCalls \o first) \o order
  <2>1. first \o order \in Seq(UsbCall) /\ usbIn' = usbIn \o (first \o order)
    BY <1>1, <1>2, <1>4, <1>5 DEF UsbTypeOK
  <2>2. UsbCalls' = UsbCalls \o (first \o order)
    BY <1>1, <1>3, <2>1, CallsQueued
  <2> QED
    BY <1>1, <1>4, <1>5, <2>2
<1>8. UsbCalls \o first \in Seq(UsbCall)
  BY <1>1, <1>5
<1>9. ASSUME NEW id
      PROVE  Alike(http, UsbCalls, http', UsbCalls', id)
  <2>1. Alike(http, UsbCalls, http, UsbCalls \o first, id)
    <3>1. /\ NoCall(UsbCalls, id) => NoCall(UsbCalls \o first, id)
          /\ \A body : OneCall(UsbCalls, id, body) => OneCall(UsbCalls \o first, id, body)
      BY <1>1, <1>5, <1>6, QueueOthers
    <3> QED
      BY <3>1 DEF Alike, Silent, Carries
  <2> DEFINE info == {}
  <2>2. http' = Track(http, info \cup StateRequests(lights, due))
        /\ \A r \in info : r.kind = "Info"
    BY <1>3
  <2> HIDE DEF info
  <2>3. Alike(http, UsbCalls \o first, http', UsbCalls', id)
    BY <1>1, <1>2, <1>7, <1>8, <2>2, FetchAlike
  <2> QED
    BY <2>1, <2>3, AlikeTwice
<1> QED
  BY <1>3, <1>9, QuietBoxed

\* The environment, the user and the timers.
LEMMA MainBoxed ==
  ASSUME TypeOK, TypeOK', DirtyOnlyWhileInflight, OutboxInv, Environment \/ User \/ Timers
  PROVE  Boxed
<1>1. IsTable(lights, Ids, KeyLightRecord) /\ IsTable(lights', Ids, KeyLightRecord)
  BY DEF TypeOK, ManagerTypeOK
<1>2. ASSUME UNCHANGED <<putVars, http, usbVars>>
      PROVE  Boxed
  BY <1>2, IdleBoxed DEF UsbCalls, usbVars
<1>3. ASSUME NEW id, FlushPending(id)
      PROVE  Boxed
  BY <1>3, UserFlushBoxed DEF FlushPending, UserUnchanged
<1>4. CASE Environment
  <2>1. ASSUME NEW s, Discover(s)
        PROVE  Boxed
    <3> DEFINE id == ServiceId(s)
               known == id \in DOMAIN lights
               light == [(IF known THEN lights[id] ELSE NewKeyLight) EXCEPT !.address = s.address]
               info == IF known THEN {} ELSE {GetInfo(id, light)}
    <3>1. /\ http' = Track(http, info \cup StateRequests(lights', {id}))
          /\ Queue(StateCalls(lights', {id}))
          /\ {id} \in SUBSET DOMAIN lights'
          /\ UNCHANGED <<putVars, usbOut>>
      BY <2>1 DEF Discover, OnDiscovered, Bind
    <3>2. \A r \in info : r.kind = "Info"
      BY DEF GetInfo, Request
    <3> HIDE DEF info, id
    <3> QED
      BY <1>1, <3>1, <3>2, FetchBoxed
  <2>2. ASSUME NEW name, ServiceGone(name)
        PROVE  Boxed
    BY <1>2, <2>2 DEF ServiceGone, OnServiceRemoved
  <2>3. ASSUME NEW d, NEW p, PlugIn(d, p) \/ PullOut(p)
        PROVE  Boxed
    BY <1>2, <2>3 DEF PlugIn, PullOut, managerVars
  <2> QED
    BY <1>4, <2>1, <2>2, <2>3 DEF Environment
<1>5. CASE User
  <2>1. ASSUME NEW id, NEW on, SetOn(id, on)
        PROVE  Boxed
    BY <2>1, UserFlushBoxed DEF SetOn, UserUnchanged
  <2>2. ASSUME NEW id, NEW value, SetBrightness(id, value) \/ SetTemperature(id, value)
        PROVE  Boxed
    BY <1>2, <2>2 DEF SetBrightness, SetTemperature, Schedule, UserUnchanged, usbVars
  <2>3. ASSUME ToggleAll
        PROVE  Boxed
    BY <2>3, UserFlushBoxed DEF ToggleAll, UserUnchanged
  <2>4. ASSUME RefreshAll
        PROVE  Boxed
    <3> DEFINE S == DOMAIN lights \ inflight
               info == {}
    <3>1. /\ http' = Track(http, info \cup StateRequests(lights, S))
          /\ Queue(StateCalls(lights, S)) /\ S \in SUBSET DOMAIN lights
          /\ UNCHANGED <<putVars, usbOut>> /\ \A r \in info : r.kind = "Info"
      BY <2>4 DEF RefreshAll, FetchState, managerVars
    <3> HIDE DEF S, info
    <3> QED
      BY <1>1, <3>1, FetchBoxed
  <2> QED
    BY <1>3, <1>5, <2>1, <2>2, <2>3, <2>4
       DEF User, ClickOn, DragBrightness, DragTemperature, ReleaseSlider, ClickToggleAll,
           RefreshMenu
<1>6. CASE Timers
  BY <1>3, <1>6, TickBoxed DEF Timers, RefreshTimer, DebounceTimer, DebounceFires
<1> QED
  BY <1>4, <1>5, <1>6

-------------------------------------------------------------------------------
(* Results.                                                                *)

\* The PUT of light i is over, and bag and seq are what is left.
Ended(bag, seq, i) ==
  /\ i \in inflight /\ Silent(bag, seq, i)
  /\ \A id \in Ids \ {i} : Alike(http, UsbCalls, bag, seq, id)

\* onPutSucceeded sends once more what changed meanwhile.
LEMMA SucceededBoxed ==
  ASSUME TypeOK', DirtyOnlyWhileInflight, OutboxInv, NEW i, NEW bag, IsABag(bag),
         NEW seq \in Seq(UsbCall), Ended(bag, seq, i),
         \A order \in Seq(UsbCall) : usbIn' = usbIn \o order => UsbCalls' = seq \o order,
         OnPutSucceeded(i, bag)
  PROVE  Boxed
<1> DEFINE ended == {i}
           S == {i} \cap dirty
<1>1. IsTable(lights', Ids, KeyLightRecord)
  BY DEF TypeOK, ManagerTypeOK
<1>2. Flush(lights', S, inflight \ ended, dirty \ ended, bag)
  BY DEF OnPutSucceeded
<1>3. /\ ended \subseteq inflight /\ S \cap ended \subseteq dirty
      /\ \A id \in Ids \ ended : Alike(http, UsbCalls, bag, seq, id)
  BY DEF Ended
<1>4. ASSUME NEW id \in Ids
      PROVE  IF id \in inflight \ ended THEN Alike(http, UsbCalls, bag, seq, id)
             ELSE Silent(bag, seq, id)
  BY <1>3 DEF OutboxInv, Ended, Alike
<1> HIDE DEF ended, S
<1> QED
  BY <1>1, <1>2, <1>3, <1>4, FlushBoxed

\* A PUT that failed is over, and the change behind it is dropped.
LEMMA FailedBoxed ==
  ASSUME NEW i, Ended(http', UsbCalls', i), GiveUp(i)
  PROVE  Boxed
BY DEF Ended, GiveUp, Boxed, Untouched, Kept, Finished

\* An HTTP reply to a PUT.
LEMMA PostEnds ==
  ASSUME TypeOK, OutboxInv, NEW r \in DOMAIN http, r.kind = "Put"
  PROVE  Ended(Untrack(r), UsbCalls, r.id)
<1>1. IsABag(http) /\ r.id \in Ids
  BY RequestFields DEF TypeOK, HttpTypeOK
<1>2. ~NoPost(http, r.id)
  BY DEF NoPost, Posts
<1>3. r.id \in inflight
  BY <1>1, <1>2 DEF OutboxInv, Silent
<1>4. PICK body : Carries(http, UsbCalls, r.id, body)
  BY <1>1, <1>3 DEF OutboxInv
<1>5. OnePost(http, r.id, body) /\ NoCall(UsbCalls, r.id)
  BY <1>2, <1>4 DEF Carries
<1>6. NoPost(Untrack(r), r.id)
  BY <1>1, <1>5, UntrackPost
<1>7. ASSUME NEW id \in Ids, id # r.id
      PROVE  Alike(http, UsbCalls, Untrack(r), UsbCalls, id)
  <2>1. /\ NoPost(http, id) => NoPost(Untrack(r), id)
        /\ \A b : OnePost(http, id, b) => OnePost(Untrack(r), id, b)
    BY <1>1, <1>7, UntrackOthers
  <2> QED
    BY <2>1 DEF Alike, Silent, Carries
<1> QED
  BY <1>3, <1>5, <1>6, <1>7 DEF Ended, Silent

\* A reply of another kind.
LEMMA ReplyAlike ==
  ASSUME TypeOK, NEW r \in DOMAIN http, r.kind # "Put", NEW id
  PROVE  Alike(http, UsbCalls, Untrack(r), UsbCalls, id)
<1>1. IsABag(http)
  BY DEF TypeOK, HttpTypeOK
<1>2. /\ NoPost(http, id) => NoPost(Untrack(r), id)
      /\ \A b : OnePost(http, id, b) => OnePost(Untrack(r), id, b)
  BY <1>1, UntrackOthers
<1> QED
  BY <1>2 DEF Alike, Silent, Carries

\* The device reads its state for a GET, or obeys a PUT, which stays in flight.
LEMMA ServedBoxed ==
  ASSUME TypeOK, OutboxInv, NEW r \in DOMAIN http, ServeHttp(r)
  PROVE  Boxed
<1> DEFINE served(payload) == [r EXCEPT !.served = TRUE, !.payload = payload]
<1>1. r \in HttpRequest /\ IsABag(http) /\ IsABag(Untrack(r))
  BY UntrackType DEF TypeOK, HttpTypeOK
<1>2. ASSUME NEW payload
      PROVE  /\ served(payload).kind = r.kind /\ served(payload).id = r.id
             /\ served(payload).payload = payload
  BY <1>1 DEF HttpRequest, Requests
<1>3. PICK payload : /\ http' = Track(Untrack(r), {served(payload)})
                     /\ r.kind = "Put" => payload = r.payload
  BY DEF ServeHttp, DeviceServes
<1>4. UsbCalls' = UsbCalls /\ UNCHANGED putVars
  BY DEF ServeHttp, UsbCalls, usbVars, managerVars
<1> HIDE DEF served
<1>5. ASSUME NEW id, r.id = id => r.kind # "Put"
      PROVE  /\ NoPost(http, id) => NoPost(http', id)
             /\ \A b : OnePost(http, id, b) => OnePost(http', id, b)
  <2>1. /\ NoPost(http, id) => NoPost(Untrack(r), id)
        /\ \A b : OnePost(http, id, b) => OnePost(Untrack(r), id, b)
    BY <1>1, <1>5, UntrackOthers
  <2>2. \A q \in {served(payload)} : ~(q.kind = "Put" /\ q.id = id)
    BY <1>2, <1>5
  <2>3. /\ NoPost(Untrack(r), id) => NoPost(http', id)
        /\ \A b : OnePost(Untrack(r), id, b) => OnePost(http', id, b)
    BY <1>1, <1>3, <2>2, TrackOthers
  <2> QED
    BY <2>1, <2>3
<1>6. ASSUME NEW id, r.id = id, r.kind = "Put"
      PROVE  /\ NoPost(http, id) => NoPost(http', id)
             /\ \A b : OnePost(http, id, b) => OnePost(http', id, b)
  <2>1. ~NoPost(http, id)
    BY <1>6 DEF NoPost, Posts
  <2>2. ASSUME NEW b, OnePost(http, id, b)
        PROVE  OnePost(http', id, b)
    <3>1. NoPost(Untrack(r), id) /\ r.payload = b
      BY <1>1, <1>6, <2>2, UntrackPost
    <3>2. /\ served(payload) \in {served(payload)}
          /\ served(payload).kind = "Put" /\ served(payload).id = id
          /\ served(payload).payload = b
      BY <1>2, <1>3, <1>6, <3>1
    <3>3. OnePost(Track(Untrack(r), {served(payload)}), id, served(payload).payload)
      BY <1>1, <3>1, <3>2, TrackPost
    <3> QED
      BY <1>3, <3>2, <3>3
  <2> QED
    BY <2>1, <2>2
<1>7. ASSUME NEW id
      PROVE  Alike(http, UsbCalls, http', UsbCalls', id)
  BY <1>4, <1>5, <1>6 DEF Alike, Silent, Carries
<1> QED
  BY <1>4, <1>7, QuietBoxed

\* The network.
LEMMA NetworkBoxed ==
  ASSUME TypeOK, TypeOK', DirtyOnlyWhileInflight, OutboxInv, Network
  PROVE  Boxed
<1>1. PICK r \in DOMAIN http :
        ServeHttp(r) \/ InfoReply(r) \/ StateReply(r) \/ PutReply(r) \/ HttpFailure(r)
  BY DEF Network
<1>2. UsbTypeOK /\ UsbCalls \in Seq(UsbCall) /\ IsABag(Untrack(r))
  BY CallsType, UntrackType DEF TypeOK
<1>3. ASSUME UNCHANGED <<putVars, usbIn, usbOut>>, http' = Untrack(r), r.kind # "Put"
      PROVE  Boxed
  <2>1. UsbCalls' = UsbCalls
    BY <1>3 DEF UsbCalls
  <2> QED
    BY <1>3, <2>1, ReplyAlike, QuietBoxed
<1>4. CASE InfoReply(r)
  BY <1>3, <1>4 DEF InfoReply, OnInfoReceived, usbVars
<1>5. CASE StateReply(r)
  BY <1>3, <1>5 DEF StateReply, OnStateReceived
<1>6. CASE PutReply(r)
  <2>1. ASSUME NEW order \in Seq(UsbCall), usbIn' = usbIn \o order
        PROVE  UsbCalls' = UsbCalls \o order
    BY <1>2, <1>6, <2>1, CallsQueued DEF PutReply
  <2>2. Ended(Untrack(r), UsbCalls, r.id) /\ OnPutSucceeded(r.id, Untrack(r))
    BY <1>6, PostEnds DEF PutReply
  <2> QED
    BY <1>2, <2>1, <2>2, SucceededBoxed
<1>7. CASE HttpFailure(r)
  <2>1. http' = Untrack(r) /\ UsbCalls' = UsbCalls /\ UNCHANGED <<usbIn, usbOut>>
    BY <1>7 DEF HttpFailure, OnRequestFailed, UsbCalls
  <2>2. CASE r.kind = "Put"
    <3>1. Ended(http', UsbCalls', r.id)
      BY <2>1, <2>2, PostEnds
    <3>2. GiveUp(r.id)
      BY <1>7, <2>2 DEF HttpFailure, OnRequestFailed
    <3> QED
      BY <3>1, <3>2, FailedBoxed
  <2>3. CASE r.kind # "Put"
    BY <1>3, <1>7, <2>1, <2>3 DEF HttpFailure, OnRequestFailed
  <2> QED
    BY <2>2, <2>3
<1> QED
  BY <1>1, <1>4, <1>5, <1>6, <1>7, ServedBoxed

\* A result of the USB worker about another light, or of no PUT, with the calls that its
\* handler queues.
LEMMA HeardAlike ==
  ASSUME UsbTypeOK, IsABag(http), NEW signal, Delivered(signal), NEW requests,
         NEW calls \in SUBSET UsbCall, IsFiniteSet(calls), Queue(calls), NEW id,
         \A r \in requests : r.kind # "Put", calls \cap PutOf(id) = {},
         Head(usbOut).call \notin PutOf(id), http' = Track(http, requests)
  PROVE  Alike(http, UsbCalls, http', UsbCalls', id)
<1>1. PICK order \in SetToSeqs(calls) : usbIn' = usbIn \o order
  BY DEF Queue
<1>2. order \in Seq(UsbCall)
  BY OrderType
<1>3. /\ UsbCalls # <<>> /\ Head(UsbCalls) = Head(usbOut).call
      /\ UsbCalls' = Tail(UsbCalls) \o order
  BY <1>1, <1>2, CallsDelivered
<1>4. UsbCalls \in Seq(UsbCall) /\ Tail(UsbCalls) \in Seq(UsbCall)
  BY <1>3, CallsType
<1>5. Alike(http, UsbCalls, http, Tail(UsbCalls), id)
  <2>1. /\ NoCall(UsbCalls, id) => NoCall(Tail(UsbCalls), id)
        /\ \A body : OneCall(UsbCalls, id, body) => OneCall(Tail(UsbCalls), id, body)
    BY <1>3, <1>4, HearOthers
  <2> QED
    BY <2>1 DEF Alike, Silent, Carries
<1>6. Alike(http, Tail(UsbCalls), http', UsbCalls', id)
  <2>1. Alike(http, Tail(UsbCalls), Track(http, requests), Tail(UsbCalls) \o order, id)
    BY <1>4, OthersAlike
  <2> QED
    BY <1>3, <2>1
<1> QED
  BY <1>5, <1>6, AlikeTwice

\* A handler that sends nothing.
LEMMA HeardQuietly ==
  ASSUME TypeOK, NEW signal, Delivered(signal), UNCHANGED <<usbIn, http, putVars>>,
         \A id \in Ids : Head(usbOut).call \notin PutOf(id)
  PROVE  Boxed
<1> DEFINE none == {}
<1>1. UsbTypeOK /\ IsABag(http) /\ Queue(none)
  BY QueueNothing DEF TypeOK, HttpTypeOK
<1>2. none \in SUBSET UsbCall /\ IsFiniteSet(none) /\ \A id : none \cap PutOf(id) = {}
  BY FS_EmptySet
<1>3. http' = Track(http, none) /\ \A r \in none : r.kind # "Put"
  BY <1>1 DEF Track, (+), SetToBag, IsABag
<1> HIDE DEF none
<1> QED
  BY <1>1, <1>2, <1>3, HeardAlike, QuietBoxed

\* The result of a PUT.
LEMMA CallEnds ==
  ASSUME TypeOK, OutboxInv, NEW signal, Delivered(signal),
         Head(usbOut).call \in LightCall, Head(usbOut).call.kind = "Put"
  PROVE  /\ UsbCalls # <<>> /\ Tail(UsbCalls) \in Seq(UsbCall)
         /\ \A order \in Seq(UsbCall) :
              usbIn' = usbIn \o order => UsbCalls' = Tail(UsbCalls) \o order
         /\ Ended(http, Tail(UsbCalls), Head(usbOut).call.id)
<1> DEFINE call == Head(usbOut).call
<1>1. UsbTypeOK /\ UsbCalls \in Seq(UsbCall) /\ call.id \in Ids
  BY CallsType DEF TypeOK, LightCall
<1>2. UsbCalls # <<>> /\ Head(UsbCalls) = call
  <2> DEFINE answered == [i \in DOMAIN usbOut |-> usbOut[i].call]
             queue == usbIn
  <2>1. answered \in Seq(UsbCall) /\ queue \in Seq(UsbCall)
    BY <1>1, CallParts
  <2>2. answered # <<>> /\ Head(answered) = call
    BY <1>1 DEF Delivered, UsbTypeOK
  <2>3. UsbCalls = answered \o queue
    BY DEF UsbCalls
  <2> HIDE DEF answered, queue, call
  <2> QED
    BY <2>1, <2>2, <2>3
<1>3. \A order \in Seq(UsbCall) :
        usbIn' = usbIn \o order => UsbCalls' = Tail(UsbCalls) \o order
  BY <1>1, CallsDelivered
<1>4. call \in PutOf(call.id) /\ \A id : id # call.id => call \notin PutOf(id)
  BY DEF PutOf
<1> HIDE DEF call
<1>5. /\ ~NoCall(UsbCalls, call.id)
      /\ \A body : OneCall(UsbCalls, call.id, body) => NoCall(Tail(UsbCalls), call.id)
  BY <1>1, <1>2, <1>4, HearPut
<1>6. call.id \in inflight
  BY <1>1, <1>5 DEF OutboxInv, Silent
<1>7. PICK body : Carries(http, UsbCalls, call.id, body)
  BY <1>1, <1>6 DEF OutboxInv
<1>8. Silent(http, Tail(UsbCalls), call.id)
  BY <1>5, <1>7 DEF Carries, Silent
<1>9. ASSUME NEW id \in Ids, id # call.id
      PROVE  Alike(http, UsbCalls, http, Tail(UsbCalls), id)
  <2>1. Head(UsbCalls) \notin PutOf(id)
    BY <1>2, <1>4, <1>9
  <2>2. /\ NoCall(UsbCalls, id) => NoCall(Tail(UsbCalls), id)
        /\ \A body1 : OneCall(UsbCalls, id, body1) => OneCall(Tail(UsbCalls), id, body1)
    BY <1>1, <1>2, <2>1, HearOthers
  <2> QED
    BY <2>2 DEF Alike, Silent, Carries
<1> QED
  BY <1>1, <1>2, <1>3, <1>6, <1>8, <1>9 DEF Ended, call

\* The USB thread and its results.
LEMMA UsbBoxed ==
  ASSUME TypeOK, TypeOK', DirtyOnlyWhileInflight, OutboxInv, Usb
  PROVE  Boxed
<1>1. UsbTypeOK /\ IsABag(http) /\ IsTable(lights', Ids, KeyLightRecord)
  BY DEF TypeOK, HttpTypeOK, ManagerTypeOK
<1>2. CASE WorkerStep
  <2>1. UsbCalls' = UsbCalls /\ UNCHANGED <<http, putVars>>
    BY <1>1, <1>2, CallsWorked DEF WorkerStep, managerVars
  <2> QED
    BY <2>1, IdleBoxed
<1>3. ASSUME NEW signal, Delivered(signal)
      PROVE  /\ Head(usbOut) \in UsbResult /\ Head(usbOut).signal = signal
             /\ signal \in {"enumerated", "infoReady", "infoFailed"}
                  => \A id : Head(usbOut).call \notin PutOf(id)
             /\ signal \in {"requestDone", "requestFailed"} => Head(usbOut).call \in LightCall
  <2>1. Head(usbOut) \in UsbResult /\ Head(usbOut).signal = signal
    BY <1>1, <1>3 DEF Delivered, UsbTypeOK
  <2> QED
    BY <2>1 DEF UsbResult, Probe, EnumerateCall, PutOf
<1>4. CASE UsbEnumerated
  <2> DEFINE fresh == Fresh(Head(usbOut).paths)
             probe == [p \in fresh |-> ProbeCall(p)]
             calls == {probe[p] : p \in fresh}
             none == {}
  <2>1. Delivered("enumerated") /\ UNCHANGED <<http, putVars>>
        /\ Queue({ProbeCall(p) : p \in fresh})
    BY <1>4 DEF UsbEnumerated, OnUsbEnumerated
  <2>2. fresh \in SUBSET UsbPaths
    BY <1>3, <2>1, ResultFields DEF Fresh
  <2>3. calls = {ProbeCall(p) : p \in fresh}
    OBVIOUS
  <2>4. calls \in SUBSET UsbCall /\ \A id : calls \cap PutOf(id) = {}
    BY <2>2 DEF ProbeCall, EnumerateCall, UsbCall, Probe, PutOf
  <2>5. IsFiniteSet(calls)
    <3>1. IsFiniteSet(fresh) /\ DOMAIN probe = fresh
      BY <2>2, KeyLightAssumption, FS_Subset
    <3> HIDE DEF probe, fresh
    <3> QED
      BY <3>1, ImageFinite
  <2>6. http' = Track(http, none) /\ \A r \in none : r.kind # "Put"
    BY <1>1, <2>1 DEF Track, (+), SetToBag, IsABag
  <2> HIDE DEF calls, none
  <2> QED
    BY <1>1, <1>3, <2>1, <2>3, <2>4, <2>5, <2>6, HeardAlike, QuietBoxed
<1>5. CASE UsbInfoReady
  <2> DEFINE info == Head(usbOut).info
             id == KnownAs(UsbId(Head(usbOut).call.path, info), info.serial)
  <2>1. /\ Delivered("infoReady") /\ UNCHANGED putVars
        /\ id \in DOMAIN lights' /\ Queue(StateCalls(lights', {id}))
        /\ http' = Track(http, StateRequests(lights', {id}))
    BY <1>5 DEF UsbInfoReady, OnUsbInfoReady, FetchState, Bind
  <2> HIDE DEF id
  <2>2. {id} \in SUBSET DOMAIN lights'
    BY <2>1
  <2>3. /\ StateCalls(lights', {id}) \in SUBSET UsbCall
        /\ IsFiniteSet(StateCalls(lights', {id}))
    BY <1>1, <2>2, StateCallsType
  <2>4. /\ \A i : StateCalls(lights', {id}) \cap PutOf(i) = {}
        /\ \A r \in StateRequests(lights', {id}) : r.kind # "Put"
    BY DEF StateCalls, RequestCall, PutOf, StateRequests, GetLights, Request
  <2> QED
    BY <1>1, <1>3, <2>1, <2>3, <2>4, HeardAlike, QuietBoxed
<1>6. CASE UsbInfoFailed
  <2>1. Delivered("infoFailed") /\ UNCHANGED <<usbIn, http, putVars>>
    BY <1>6 DEF UsbInfoFailed, OnUsbInfoFailed
  <2> QED
    BY <1>3, <2>1, HeardQuietly
<1>7. CASE UsbRequestDone
  <2> DEFINE call == Head(usbOut).call
  <2>1. Delivered("requestDone") /\ call \in LightCall
    BY <1>3, <1>7 DEF UsbRequestDone
  <2>2. CASE call.kind = "Put" /\ OnPutSucceeded(call.id, http)
    BY <1>1, <2>1, <2>2, CallEnds, SucceededBoxed
  <2>3. ASSUME call.kind = "State", NEW data, OnStateReceived(call.id, data, http)
        PROVE  Boxed
    <3>1. \A id : call \notin PutOf(id)
      BY <2>3 DEF PutOf
    <3> QED
      BY <2>1, <2>3, <3>1, HeardQuietly DEF OnStateReceived
  <2> QED
    BY <1>7, <2>2, <2>3 DEF UsbRequestDone
<1>8. CASE UsbRequestFailed
  <2> DEFINE call == Head(usbOut).call
  <2>1. /\ Delivered("requestFailed") /\ call \in LightCall
        /\ OnRequestFailed(call.id, call.kind, http)
    BY <1>3, <1>8 DEF UsbRequestFailed
  <2>2. http' = http /\ UNCHANGED usbIn
    BY <2>1 DEF OnRequestFailed
  <2>3. CASE call.kind = "Put"
    <3>1. GiveUp(call.id)
      BY <2>1, <2>3 DEF OnRequestFailed
    <3>2. Ended(http, Tail(UsbCalls), call.id)
      BY <2>1, <2>3, CallEnds
    <3>3. UsbCalls' = Tail(UsbCalls)
      <4> DEFINE nothing == <<>>
      <4>1. nothing \in Seq(UsbCall) /\ usbIn' = usbIn \o nothing
        BY <1>1, <2>2 DEF UsbTypeOK
      <4> HIDE DEF nothing
      <4>2. UsbCalls' = Tail(UsbCalls) \o nothing /\ Tail(UsbCalls) \in Seq(UsbCall)
        BY <2>1, <2>3, <4>1, CallEnds
      <4> QED
        BY <4>2 DEF nothing
    <3> QED
      BY <2>2, <3>1, <3>2, <3>3, FailedBoxed
  <2>4. CASE call.kind # "Put"
    <3>1. UNCHANGED putVars /\ \A id : call \notin PutOf(id)
      BY <2>1, <2>4 DEF OnRequestFailed, PutOf
    <3> QED
      BY <2>1, <2>2, <3>1, HeardQuietly
  <2> QED
    BY <2>3, <2>4
<1> QED
  BY <1>2, <1>4, <1>5, <1>6, <1>7, <1>8 DEF Usb

-------------------------------------------------------------------------------
(* The system.                                                             *)

\* Every step is, for each light, a step of its outbox.
LEMMA StepBoxed ==
  TypeOK /\ TypeOK' /\ DirtyOnlyWhileInflight /\ OutboxInv /\ [Next]_vars => Boxed
<1>1. UNCHANGED vars => Boxed
  BY IdleBoxed DEF vars, managerVars, usbVars, UsbCalls
<1> QED
  BY <1>1, MainBoxed, NetworkBoxed, UsbBoxed DEF Next

\* At first nothing is in flight.
LEMMA InitBoxed == Init => OutboxInv
<1> SUFFICES ASSUME Init, NEW id \in Ids
             PROVE  id \notin inflight /\ Silent(http, UsbCalls, id)
  BY DEF OutboxInv
<1> DEFINE first == <<EnumerateCall>>
<1>1. usbIn = first /\ usbOut = <<>> /\ inflight = {} /\ DOMAIN http = {}
  BY DEF Init, ManagerInit, HttpInit, EmptyBag, SetToBag
<1>2. [i \in DOMAIN usbOut |-> usbOut[i].call] = <<>>
  BY <1>1
<1>3. first \in Seq(UsbCall)
  BY DEF UsbCall
<1>4. \A i \in DOMAIN first : first[i] = EnumerateCall
  OBVIOUS
<1> HIDE DEF first
<1>5. UsbCalls = first
  BY <1>1, <1>2, <1>3 DEF UsbCalls
<1>6. NoCall(UsbCalls, id)
  BY <1>4, <1>5 DEF NoCall, Occurrences, PutOf, EnumerateCall
<1>7. NoPost(http, id)
  BY <1>1 DEF NoPost, Posts
<1> QED
  BY <1>1, <1>6, <1>7 DEF Silent

\* The invariant holds always.
LEMMA OutboxCorrect == Spec => []OutboxInv
BY InitBoxed, StepBoxed, BoxedInv, TypeCorrect, DirtyCorrect, PTL DEF Spec

\* flush, onPutSucceeded, onRequestFailed: whatever the user, the timers and both
\* transports do, and whatever becomes of the light meanwhile, a light has one PUT in
\* flight while it is in m_inflight, and none otherwise.
THEOREM OnePutCorrect == Spec => []OnePutInFlight
BY OutboxCorrect, OutboxOne, PTL

-------------------------------------------------------------------------------
(* The outbox.                                                             *)

\* The refinement mapping, light by light.
Wish(id) == IF id \in DOMAIN lights THEN lights[id].state ELSE None

\* The outbox's messages are the program's bodies.
LEMMA SameBody == \A state : LatestWins!BuildLightsBody(state) = BuildLightsBody(state)
BY DEF LatestWins!BuildLightsBody, BuildLightsBody, LatestWins!ClampInt, ClampInt,
       LatestWins!kMiredMin, LatestWins!kMiredMax, kMiredMin, kMiredMax

LEMMA SameMessage ==
  ASSUME NEW id \in Ids
  PROVE  LatestWins!Message(id) =
           {BuildLightsBody(state) : state \in {Wish(id)'} \ {None}}
BY SameBody DEF LatestWins!Message, Wish

\* What the mapping says of a light with and without a PUT in flight, before and after.
LEMMA SilentBodies ==
  ASSUME NEW id
  PROVE  /\ Silent(http, UsbCalls, id) => BodiesInFlight(id) = {}
         /\ Silent(http', UsbCalls', id) => BodiesInFlight(id)' = {}
<1>1. Silent(http, UsbCalls, id) => BodiesInFlight(id) = {}
  BY SilentPuts
<1>2. Silent(http', UsbCalls', id) => BodiesInFlight(id)' = {}
  BY DEF Silent, NoPost, NoCall, Posts, PutOf, BodiesInFlight, HttpPuts, UsbPuts
<1> QED
  BY <1>1, <1>2

LEMMA CarriesBodies ==
  ASSUME NEW id, NEW body
  PROVE  /\ Carries(http, UsbCalls, id, body) => BodiesInFlight(id) = {body}
         /\ Carries(http', UsbCalls', id, body) => BodiesInFlight(id)' = {body}
<1>1. Carries(http, UsbCalls, id, body) => BodiesInFlight(id) = {body}
  BY CarriesPuts
<1>2. (Carries(http, UsbCalls, id, body) => BodiesInFlight(id) = {body})'
  BY <1>1, PTL
<1> QED
  BY <1>1, <1>2

\* One step of one light.
LEMMA StepSent ==
  ASSUME NEW id \in Ids, OutboxInv, OutboxInv', DirtyOnlyWhileInflight,
         Untouched(id) \/ Postponed(id) \/ Sent(id) \/ Finished(id)
  PROVE  \/ LatestWins!Keep(id) \/ LatestWins!Send(id) \/ LatestWins!Postpone(id)
         \/ LatestWins!Delivered(id) \/ LatestWins!Fail(id)
<1>1. IF id \in inflight THEN \E body : Carries(http, UsbCalls, id, body)
                         ELSE Silent(http, UsbCalls, id)
  BY DEF OutboxInv
<1>2. IF id \in inflight THEN BodiesInFlight(id) # {} ELSE BodiesInFlight(id) = {}
  BY <1>1, CarriesBodies, SilentBodies
<1>3. ASSUME Kept(id)
      PROVE  BodiesInFlight(id)' = BodiesInFlight(id)
  BY <1>1, <1>3, CarriesBodies, SilentBodies DEF Kept, Alike
<1>4. ASSUME HasState(id)'
      PROVE  Wish(id)' # None /\ Wish(id)' = lights'[id].state
  BY <1>4 DEF HasState, Wish
<1>5. CASE Untouched(id)
  BY <1>3, <1>5 DEF LatestWins!Keep, Untouched
<1>6. CASE Postponed(id)
  <2>1. Wish(id)' # None
    BY <1>4, <1>6 DEF Postponed
  <2> QED
    BY <1>2, <1>3, <1>6, <2>1 DEF LatestWins!Postpone, Postponed, Wish
<1>7. CASE Sent(id)
  <2>1. /\ BodiesInFlight(id)' = {BuildLightsBody(lights'[id].state)}
        /\ HasState(id)' /\ id \notin dirty' /\ (id \in inflight => id \in dirty)
    BY <1>7, CarriesBodies DEF Sent
  <2>2. BodiesInFlight(id)' = LatestWins!Message(id)
    BY <1>4, <2>1, SameMessage
  <2>3. CASE id \in inflight
    BY <1>2, <2>1, <2>2, <2>3 DEF LatestWins!Delivered
  <2>4. CASE id \notin inflight
    BY <1>2, <1>4, <2>1, <2>2, <2>4 DEF LatestWins!Send, Wish
  <2> QED
    BY <2>3, <2>4
<1>8. CASE Finished(id)
  BY <1>2, <1>8, SilentBodies DEF LatestWins!Fail, LatestWins!Idle, Finished
<1> QED
  BY <1>5, <1>6, <1>7, <1>8

\* One step of all of them.
LEMMA StepOutbox ==
  OutboxInv /\ OutboxInv' /\ DirtyOnlyWhileInflight /\ Boxed => LatestWins!Next
BY StepSent DEF Boxed, LatestWins!Next

LEMMA InitOutbox == Init => LatestWins!Init
<1> SUFFICES ASSUME Init
             PROVE  LatestWins!Init
  OBVIOUS
<1>1. dirty = {} /\ DOMAIN lights = {} /\ inflight = {}
  BY DEF Init, ManagerInit, EmptyTable
<1>2. \A id \in Ids : BodiesInFlight(id) = {}
  BY <1>1, InitBoxed, SilentPuts DEF OutboxInv
<1> QED
  BY <1>1, <1>2 DEF LatestWins!Init

\* The abstract outbox is what the program implements, with m_dirty for its notes and
\* the bodies on both transports for its wire: no PUT is sent while another is under way,
\* every PUT carries the state that is cached when it is sent, and the changes made while
\* one is under way become one PUT, sent when it succeeds and given up when it fails.
THEOREM OutboxImplemented == Spec => ImplementsOutbox
<1>1. TypeOK /\ TypeOK' /\ DirtyOnlyWhileInflight /\ OutboxInv /\ OutboxInv' /\ [Next]_vars
        => LatestWins!Next
  BY StepBoxed, StepOutbox
<1> QED
  BY <1>1, InitOutbox, TypeCorrect, DirtyCorrect, OutboxCorrect, PTL
     DEF Spec, LatestWins!Spec, ImplementsOutbox

===============================================================================
