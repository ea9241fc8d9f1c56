------------------------------ MODULE Usb_proofs ------------------------------
(***************************************************************************)
(* The calls of the USB worker, from the moment they are queued to the     *)
(* moment their results are heard: each path is probed once, and leads     *)
(* back to its light.                                                      *)
(***************************************************************************)
EXTENDS Safety_proofs

-------------------------------------------------------------------------------
(* Sequences of calls.                                                     *)

\* Both queues hold calls.
LEMMA CallParts ==
  UsbTypeOK => /\ [i \in DOMAIN usbOut |-> usbOut[i].call] \in Seq(UsbCall)
               /\ usbIn \in Seq(UsbCall)
<1>1. \A r \in UsbResult : r.call \in UsbCall
  BY DEF UsbResult, UsbCall
<1> QED
  BY <1>1 DEF UsbTypeOK

\* Together they hold a sequence of calls.
LEMMA CallsType == UsbTypeOK => UsbCalls \in Seq(UsbCall)
<1> DEFINE answered == [i \in DOMAIN usbOut |-> usbOut[i].call]
<1>1. ASSUME answered \in Seq(UsbCall), usbIn \in Seq(UsbCall)
      PROVE  answered \o usbIn \in Seq(UsbCall)
  <2> HIDE DEF answered
  <2> QED
    BY <1>1
<1> QED
  BY <1>1, CallParts DEF UsbCalls

\* Appending what S does not hold.
LEMMA AppendNone ==
  ASSUME NEW T, NEW s \in Seq(T), NEW t \in Seq(T), NEW S, Occurrences(t, S) = {}
  PROVE  Occurrences(s \o t, S) = Occurrences(s, S)
BY DEF Occurrences

\* Appending one element of S to a sequence without any.
LEMMA AppendOne ==
  ASSUME NEW T, NEW s \in Seq(T), NEW t \in Seq(T), NEW S,
         Occurrences(s, S) = {}, ExactlyOne(Occurrences(t, S))
  PROVE  ExactlyOne(Occurrences(s \o t, S))
<1>1. PICK i : Occurrences(t, S) = {i}
  BY DEF ExactlyOne
<1>2. i \in 1 .. Len(t) /\ Len(s) \in Nat /\ Len(t) \in Nat
  BY <1>1 DEF Occurrences
<1>3. Occurrences(s \o t, S) = {Len(s) + i}
  <2>1. ASSUME NEW j \in DOMAIN (s \o t), (s \o t)[j] \in S
        PROVE  j = Len(s) + i
    <3>1. CASE j <= Len(s)
      BY <2>1, <3>1 DEF Occurrences
    <3>2. CASE j > Len(s)
      <4>1. j - Len(s) \in DOMAIN t /\ t[j - Len(s)] \in S
        BY <2>1, <3>2
      <4>2. j - Len(s) = i
        BY <1>1, <4>1 DEF Occurrences
      <4> QED
        BY <1>2, <2>1, <4>2
    <3> QED
      BY <1>2, <2>1, <3>1, <3>2
  <2>2. Len(s) + i \in DOMAIN (s \o t) /\ (s \o t)[Len(s) + i] \in S
    BY <1>1, <1>2 DEF Occurrences
  <2> QED
    BY <2>1, <2>2 DEF Occurrences
<1> QED
  BY <1>3 DEF ExactlyOne

\* Taking the first element off shifts the occurrences of the others.
LEMMA TailOccurrences ==
  ASSUME NEW T, NEW s \in Seq(T), s # <<>>, NEW S
  PROVE  Occurrences(Tail(s), S) = {i - 1 : i \in Occurrences(s, S) \ {1}}
<1>1. Tail(s) \in Seq(T) /\ Len(Tail(s)) = Len(s) - 1 /\ Len(s) \in Nat \ {0}
  OBVIOUS
<1>2. \A i \in 1 .. Len(s) - 1 : Tail(s)[i] = s[i + 1]
  OBVIOUS
<1>3. DOMAIN s = 1 .. Len(s) /\ DOMAIN Tail(s) = 1 .. Len(s) - 1
  BY <1>1
<1>4. ASSUME NEW j \in Occurrences(Tail(s), S)
      PROVE  j \in {i - 1 : i \in Occurrences(s, S) \ {1}}
  <2>1. j + 1 \in Occurrences(s, S) \ {1} /\ j = (j + 1) - 1
    BY <1>1, <1>2, <1>3, <1>4 DEF Occurrences
  <2> QED
    BY <2>1
<1>5. ASSUME NEW i \in Occurrences(s, S) \ {1}
      PROVE  i - 1 \in Occurrences(Tail(s), S)
  <2>1. i - 1 \in 1 .. Len(s) - 1 /\ (i - 1) + 1 = i /\ s[i] \in S
    BY <1>1, <1>3, <1>5 DEF Occurrences
  <2> QED
    BY <1>2, <1>3, <2>1 DEF Occurrences
<1> QED
  BY <1>4, <1>5

\* Taking off an element that S does not hold.
LEMMA TailKeeps ==
  ASSUME NEW T, NEW s \in Seq(T), s # <<>>, NEW S, Head(s) \notin S
  PROVE  /\ Occurrences(s, S) = {} <=> Occurrences(Tail(s), S) = {}
         /\ ExactlyOne(Occurrences(s, S)) => ExactlyOne(Occurrences(Tail(s), S))
<1>1. 1 \notin Occurrences(s, S)
  BY DEF Occurrences
<1>2. Occurrences(Tail(s), S) = {i - 1 : i \in Occurrences(s, S)}
  BY <1>1, TailOccurrences
<1>3. ASSUME NEW x, Occurrences(s, S) = {x}
      PROVE  Occurrences(Tail(s), S) = {x - 1}
  BY <1>2, <1>3
<1> QED
  BY <1>2, <1>3 DEF ExactlyOne

\* Taking off the only one it holds.
LEMMA TailTakes ==
  ASSUME NEW T, NEW s \in Seq(T), s # <<>>, NEW S, Head(s) \in S
  PROVE  /\ Occurrences(s, S) # {}
         /\ ExactlyOne(Occurrences(s, S)) => Occurrences(Tail(s), S) = {}
<1>1. 1 \in Occurrences(s, S)
  BY DEF Occurrences
<1>2. ExactlyOne(Occurrences(s, S)) => Occurrences(s, S) \ {1} = {}
  BY <1>1 DEF ExactlyOne
<1> QED
  BY <1>1, <1>2, TailOccurrences

\* An order of a set of calls has each of them once.
LEMMA OrderOnce ==
  ASSUME NEW calls, IsFiniteSet(calls), NEW order \in SetToSeqs(calls), NEW S
  PROVE  /\ calls \cap S = {} => Occurrences(order, S) = {}
         /\ ExactlyOne(calls \cap S) => ExactlyOne(Occurrences(order, S))
<1> DEFINE n == Cardinality(calls)
           heard == {order[i] : i \in 1 .. n}
<1>1. n \in Nat
  BY FS_CardinalityType
<1>2. /\ order \in [1 .. n -> calls]
      /\ \A i, j \in 1 .. n : i # j => order[i] # order[j]
  BY DEF SetToSeqs
<1> HIDE DEF n
<1>3. calls \cap S = {} => Occurrences(order, S) = {}
  BY <1>2 DEF Occurrences
<1>4. heard = calls
  <2>1. IsFiniteSet(1 .. n) /\ Cardinality(1 .. n) = n
    BY <1>1, FS_Interval
  <2>2. order \in Bijection(1 .. n, heard)
    <3>1. order \in [1 .. n -> heard]
      BY <1>2
    <3>2. \A i, j \in 1 .. n : order[i] = order[j] => i = j
      BY <1>2
    <3>3. \A c \in heard : \E i \in 1 .. n : order[i] = c
      OBVIOUS
    <3> HIDE DEF heard
    <3> QED
      BY <3>1, <3>2, <3>3 DEF Bijection, Injection, Surjection, IsInjective
  <2> HIDE DEF heard
  <2>3. ExistsBijection(1 .. n, heard)
    BY <2>2 DEF ExistsBijection
  <2>4. Cardinality(heard) = n
    BY <2>1, <2>3, FS_Bijection
  <2>5. heard \in SUBSET calls
    BY <1>2 DEF heard
  <2> QED
    BY <2>4, <2>5, FS_Subset DEF n
<1>5. ASSUME NEW c, calls \cap S = {c}
      PROVE  ExactlyOne(Occurrences(order, S))
  <2>1. PICK i \in 1 .. n : order[i] = c
    BY <1>4, <1>5
  <2>2. Occurrences(order, S) = {i}
    BY <1>2, <1>5, <2>1 DEF Occurrences
  <2> QED
    BY <2>2 DEF ExactlyOne
<1> QED
  BY <1>3, <1>5 DEF ExactlyOne

-------------------------------------------------------------------------------
(* What becomes of the calls in a step.                                    *)

\* A call of the worker leaves its queue as the result that answers it.
LEMMA CallsWorked ==
  ASSUME UsbTypeOK, WorkerStep
  PROVE  UsbCalls' = UsbCalls
<1>1. usbIn # <<>>
  BY DEF WorkerStep, Enumerate, ProbeInfo, ServeRequest, FailExchange
<1>2. PICK result : Finish(result) /\ result.call = Head(usbIn)
  BY DEF WorkerStep, Enumerate, ProbeInfo, ServeRequest, FailExchange, Result
<1>3. usbIn' = Tail(usbIn) /\ usbOut' = Append(usbOut, result)
  BY <1>2 DEF Finish
<1> DEFINE answered == [i \in DOMAIN usbOut |-> usbOut[i].call]
           queue == usbIn
<1>4. [i \in DOMAIN usbOut' |-> usbOut'[i].call] = Append(answered, Head(queue))
  BY <1>2, <1>3 DEF UsbTypeOK
<1>5. answered \in Seq(UsbCall) /\ queue \in Seq(UsbCall) /\ queue # <<>>
  BY <1>1, CallParts
<1>6. UsbCalls' = Append(answered, Head(queue)) \o Tail(queue) /\ UsbCalls = answered \o queue
  BY <1>3, <1>4 DEF UsbCalls
<1> HIDE DEF answered, queue
<1> QED
  BY <1>5, <1>6

\* New calls are queued behind all others.
LEMMA CallsQueued ==
  ASSUME UsbTypeOK, UNCHANGED usbOut, NEW order \in Seq(UsbCall), usbIn' = usbIn \o order
  PROVE  UsbCalls' = UsbCalls \o order
<1> DEFINE answered == [i \in DOMAIN usbOut |-> usbOut[i].call]
           queue == usbIn
<1>1. answered \in Seq(UsbCall) /\ queue \in Seq(UsbCall)
  BY CallParts
<1>2. UsbCalls' = answered \o (queue \o order) /\ UsbCalls = answered \o queue
  BY DEF UsbCalls
<1> HIDE DEF answered, queue
<1> QED
  BY <1>1, <1>2

\* The oldest call is over once its result is heard.
LEMMA CallsDelivered ==
  ASSUME UsbTypeOK, NEW signal, Delivered(signal), NEW order \in Seq(UsbCall),
         usbIn' = usbIn \o order
  PROVE  /\ UsbCalls # <<>> /\ Head(UsbCalls) = Head(usbOut).call
         /\ UsbCalls' = Tail(UsbCalls) \o order
<1> DEFINE answered == [i \in DOMAIN usbOut |-> usbOut[i].call]
           queue == usbIn
<1>1. answered \in Seq(UsbCall) /\ queue \in Seq(UsbCall)
  BY CallParts
<1>2. usbOut # <<>> /\ usbOut' = Tail(usbOut) /\ usbOut \in Seq(UsbResult)
  BY DEF Delivered, UsbTypeOK
<1>3. answered # <<>> /\ Head(answered) = Head(usbOut).call
  BY <1>2
<1>4. [i \in DOMAIN usbOut' |-> usbOut'[i].call] = Tail(answered)
  BY <1>2
<1>5. UsbCalls' = Tail(answered) \o (queue \o order) /\ UsbCalls = answered \o queue
  BY <1>4 DEF UsbCalls
<1> HIDE DEF answered, queue
<1>6. /\ answered \o queue # <<>> /\ Head(answered \o queue) = Head(answered)
      /\ Tail(answered \o queue) = Tail(answered) \o queue
  BY <1>1, <1>3
<1>7. Tail(answered) \o (queue \o order) = (Tail(answered) \o queue) \o order
  <2>1. Tail(answered) \in Seq(UsbCall)
    BY <1>1, <1>3
  <2> QED
    BY <1>1, <2>1
<1> QED
  BY <1>3, <1>5, <1>6, <1>7

\* A handler that queues nothing.
LEMMA QueueNothing == UsbTypeOK /\ UNCHANGED usbIn => Queue({})
<1> SUFFICES ASSUME UsbTypeOK, UNCHANGED usbIn PROVE Queue({})
  OBVIOUS
<1>1. Cardinality({}) = 0
  BY FS_EmptySet
<1>2. <<>> \in SetToSeqs({})
  BY <1>1 DEF SetToSeqs
<1>3. usbIn' = usbIn \o <<>>
  BY DEF UsbTypeOK
<1> QED
  BY <1>2, <1>3 DEF Queue

\* Calls of another kind are queued.
LEMMA QueueKeeps ==
  ASSUME UsbTypeOK, UNCHANGED usbOut, NEW calls \in SUBSET UsbCall, IsFiniteSet(calls),
         Queue(calls), NEW S, calls \cap S = {}
  PROVE  Occurrences(UsbCalls', S) = Occurrences(UsbCalls, S)
<1>1. PICK order \in SetToSeqs(calls) : usbIn' = usbIn \o order
  BY DEF Queue
<1>2. order \in Seq(UsbCall) /\ Occurrences(order, S) = {}
  BY OrderType, OrderOnce
<1>3. UsbCalls' = UsbCalls \o order /\ UsbCalls \in Seq(UsbCall)
  BY <1>1, <1>2, CallsType, CallsQueued
<1>4. Occurrences(UsbCalls \o order, S) = Occurrences(UsbCalls, S)
  BY <1>2, <1>3, AppendNone
<1> QED
  BY <1>3, <1>4

\* The first call of its kind is queued.
LEMMA QueueAdds ==
  ASSUME UsbTypeOK, UNCHANGED usbOut, NEW calls \in SUBSET UsbCall, IsFiniteSet(calls),
         Queue(calls), NEW S, ExactlyOne(calls \cap S), Occurrences(UsbCalls, S) = {}
  PROVE  ExactlyOne(Occurrences(UsbCalls', S))
<1>1. PICK order \in SetToSeqs(calls) : usbIn' = usbIn \o order
  BY DEF Queue
<1>2. order \in Seq(UsbCall) /\ ExactlyOne(Occurrences(order, S))
  BY OrderType, OrderOnce
<1>3. UsbCalls' = UsbCalls \o order /\ UsbCalls \in Seq(UsbCall)
  BY <1>1, <1>2, CallsType, CallsQueued
<1>4. ExactlyOne(Occurrences(UsbCalls \o order, S))
  BY <1>2, <1>3, AppendOne
<1> QED
  BY <1>3, <1>4

\* A result is heard, and calls are queued, of another kind both.
LEMMA DeliverKeeps ==
  ASSUME UsbTypeOK, NEW signal, Delivered(signal), NEW calls \in SUBSET UsbCall,
         IsFiniteSet(calls), Queue(calls), NEW S, calls \cap S = {},
         Head(usbOut).call \notin S
  PROVE  /\ Occurrences(UsbCalls, S) = {} <=> Occurrences(UsbCalls', S) = {}
         /\ ExactlyOne(Occurrences(UsbCalls, S)) => ExactlyOne(Occurrences(UsbCalls', S))
<1>1. PICK order \in SetToSeqs(calls) : usbIn' = usbIn \o order
  BY DEF Queue
<1>2. order \in Seq(UsbCall) /\ Occurrences(order, S) = {}
  BY OrderType, OrderOnce
<1>3. /\ UsbCalls # <<>> /\ Head(UsbCalls) = Head(usbOut).call
      /\ UsbCalls' = Tail(UsbCalls) \o order
  BY <1>1, <1>2, CallsDelivered
<1>4. UsbCalls \in Seq(UsbCall) /\ Tail(UsbCalls) \in Seq(UsbCall)
  BY <1>3, CallsType
<1>5. Occurrences(Tail(UsbCalls) \o order, S) = Occurrences(Tail(UsbCalls), S)
  BY <1>2, <1>4, AppendNone
<1> QED
  BY <1>3, <1>4, <1>5, TailKeeps

\* The result of the only call of its kind is heard, and perhaps the next one queued.
LEMMA DeliverTakes ==
  ASSUME UsbTypeOK, NEW signal, Delivered(signal), NEW calls \in SUBSET UsbCall,
         IsFiniteSet(calls), Queue(calls), NEW S, Head(usbOut).call \in S
  PROVE  /\ Occurrences(UsbCalls, S) # {}
         /\ ExactlyOne(Occurrences(UsbCalls, S)) =>
              /\ calls \cap S = {} => Occurrences(UsbCalls', S) = {}
              /\ ExactlyOne(calls \cap S) => ExactlyOne(Occurrences(UsbCalls', S))
<1>1. PICK order \in SetToSeqs(calls) : usbIn' = usbIn \o order
  BY DEF Queue
<1>2. /\ order \in Seq(UsbCall)
      /\ calls \cap S = {} => Occurrences(order, S) = {}
      /\ ExactlyOne(calls \cap S) => ExactlyOne(Occurrences(order, S))
  BY OrderType, OrderOnce
<1>3. /\ UsbCalls # <<>> /\ Head(UsbCalls) = Head(usbOut).call
      /\ UsbCalls' = Tail(UsbCalls) \o order
  BY <1>1, <1>2, CallsDelivered
<1>4. UsbCalls \in Seq(UsbCall) /\ Tail(UsbCalls) \in Seq(UsbCall)
  BY <1>3, CallsType
<1>5. /\ Occurrences(UsbCalls, S) # {}
      /\ ExactlyOne(Occurrences(UsbCalls, S)) => Occurrences(Tail(UsbCalls), S) = {}
  BY <1>3, <1>4, TailTakes
<1>6. ASSUME ExactlyOne(Occurrences(UsbCalls, S)), calls \cap S = {}
      PROVE  Occurrences(Tail(UsbCalls) \o order, S) = {}
  <2>1. Occurrences(Tail(UsbCalls), S) = {} /\ Occurrences(order, S) = {}
    BY <1>2, <1>5, <1>6
  <2> QED
    BY <1>2, <1>4, <2>1, AppendNone
<1>7. ASSUME ExactlyOne(Occurrences(UsbCalls, S)), ExactlyOne(calls \cap S)
      PROVE  ExactlyOne(Occurrences(Tail(UsbCalls) \o order, S))
  <2>1. Occurrences(Tail(UsbCalls), S) = {} /\ ExactlyOne(Occurrences(order, S))
    BY <1>2, <1>5, <1>7
  <2> QED
    BY <1>2, <1>4, <2>1, AppendOne
<1> QED
  BY <1>3, <1>5, <1>6, <1>7

\* A result of another kind is heard, and the first call of this kind is queued.
LEMMA DeliverAdds ==
  ASSUME UsbTypeOK, NEW signal, Delivered(signal), NEW calls \in SUBSET UsbCall,
         IsFiniteSet(calls), Queue(calls), NEW S, ExactlyOne(calls \cap S),
         Occurrences(UsbCalls, S) = {}
  PROVE  ExactlyOne(Occurrences(UsbCalls', S))
<1>1. PICK order \in SetToSeqs(calls) : usbIn' = usbIn \o order
  BY DEF Queue
<1>2. order \in Seq(UsbCall) /\ ExactlyOne(Occurrences(order, S))
  BY OrderType, OrderOnce
<1>3. UsbCalls # <<>> /\ UsbCalls' = Tail(UsbCalls) \o order
  BY <1>1, <1>2, CallsDelivered
<1>4. UsbCalls \in Seq(UsbCall) /\ Tail(UsbCalls) \in Seq(UsbCall)
  BY <1>3, CallsType
<1>5. Head(UsbCalls) \notin S
  BY <1>3, <1>4, TailTakes
<1>6. Occurrences(Tail(UsbCalls), S) = {}
  BY <1>3, <1>4, <1>5, TailKeeps
<1>7. ExactlyOne(Occurrences(Tail(UsbCalls) \o order, S))
  BY <1>2, <1>4, <1>6, AppendOne
<1> QED
  BY <1>3, <1>7

-------------------------------------------------------------------------------
(* Probes.                                                                 *)

Probes(p) == Occurrences(UsbCalls, {ProbeCall(p)})

\* A probe is told by its path, and nothing else is one.
LEMMA ProbeCalls ==
  /\ \A p : ProbeCall(p).op = "probe" /\ ProbeCall(p).path = p
  /\ \A call \in Probe : call = ProbeCall(call.path)
  /\ EnumerateCall.op # "probe"
  /\ \A call \in LightCall : call.op # "probe"
<1>1. ASSUME NEW p
      PROVE  ProbeCall(p) = [op |-> "probe", id |-> None, path |-> p, kind |-> "Info",
                             body |-> None]
  <2>1. ProbeCall(p) = [[EnumerateCall EXCEPT !.op = "probe"] EXCEPT !.path = p]
    BY DEF ProbeCall
  <2>2. [EnumerateCall EXCEPT !.op = "probe"]
          = [op |-> "probe", id |-> None, path |-> None, kind |-> "Info", body |-> None]
    BY DEF EnumerateCall
  <2> QED
    BY <2>1, <2>2
<1>2. ASSUME NEW call \in Probe
      PROVE  call = ProbeCall(call.path)
  <2>1. call = [op |-> "probe", id |-> None, path |-> call.path, kind |-> "Info", body |-> None]
    BY DEF Probe
  <2> QED
    BY <1>1, <2>1
<1> QED
  BY <1>1, <1>2 DEF EnumerateCall, LightCall

\* The calls of requests and of PUTs are about lights.
LEMMA LightCallsOnly ==
  ASSUME NEW L, NEW S
  PROVE  \A call \in StateCalls(L, S) \cup PutCalls(L, S) : call.op = "request"
BY DEF StateCalls, PutCalls, RequestCall

\* A step that neither begins nor ends a probe.
LEMMA QuietProbes ==
  ASSUME ProbedOnce, UNCHANGED usbPending, DOMAIN byUsbPath' \subseteq DOMAIN byUsbPath,
         \A p \in UsbPaths : /\ Probes(p) = {} => Probes(p)' = {}
                             /\ ExactlyOne(Probes(p)) => ExactlyOne(Probes(p)')
  PROVE  ProbedOnce'
<1> SUFFICES ASSUME NEW p \in UsbPaths
             PROVE  IF p \in usbPending' THEN ExactlyOne(Probes(p)') /\ p \notin DOMAIN byUsbPath'
                                         ELSE Probes(p)' = {}
  BY DEF ProbedOnce, Probes
<1>1. IF p \in usbPending THEN ExactlyOne(Probes(p)) /\ p \notin DOMAIN byUsbPath
                          ELSE Probes(p) = {}
  BY DEF ProbedOnce, Probes
<1> QED
  BY <1>1

\* A handler off the USB thread queues calls about lights, if any.
LEMMA RequestsProbe ==
  ASSUME UsbTypeOK, ProbedOnce, UNCHANGED <<usbPending, usbOut>>,
         DOMAIN byUsbPath' \subseteq DOMAIN byUsbPath,
         NEW calls \in SUBSET UsbCall, IsFiniteSet(calls), Queue(calls),
         \A call \in calls : call.op = "request"
  PROVE  ProbedOnce'
<1>1. ASSUME NEW p \in UsbPaths
      PROVE  Probes(p)' = Probes(p)
  <2>1. calls \cap {ProbeCall(p)} = {}
    BY ProbeCalls
  <2> QED
    BY <2>1, QueueKeeps DEF Probes
<1> QED
  BY <1>1, QuietProbes

\* The handler of the result of a call about a light.
LEMMA ResultsProbe ==
  ASSUME UsbTypeOK, ProbedOnce, UNCHANGED usbPending,
         DOMAIN byUsbPath' \subseteq DOMAIN byUsbPath,
         NEW signal \in {"requestDone", "requestFailed"}, Delivered(signal),
         NEW calls \in SUBSET UsbCall, IsFiniteSet(calls), Queue(calls),
         \A call \in calls : call.op = "request"
  PROVE  ProbedOnce'
<1>1. Head(usbOut).call \in LightCall
  <2>1. Head(usbOut) \in UsbResult /\ Head(usbOut).signal = signal
    BY DEF Delivered, UsbTypeOK
  <2> QED
    BY <2>1 DEF UsbResult
<1>2. ASSUME NEW p \in UsbPaths
      PROVE  /\ Probes(p) = {} => Probes(p)' = {}
             /\ ExactlyOne(Probes(p)) => ExactlyOne(Probes(p)')
  <2>1. calls \cap {ProbeCall(p)} = {} /\ Head(usbOut).call \notin {ProbeCall(p)}
    BY <1>1, ProbeCalls
  <2> QED
    BY <2>1, DeliverKeeps DEF Probes
<1> QED
  BY <1>2, QuietProbes

\* A handler that leaves both queues alone.
LEMMA IdleProbes ==
  ASSUME ProbedOnce, UNCHANGED <<usbPending, usbVars>>,
         DOMAIN byUsbPath' \subseteq DOMAIN byUsbPath
  PROVE  ProbedOnce'
BY QuietProbes DEF Probes, UsbCalls, usbVars

\* fetchState and flush queue requests.
LEMMA RequestsQueued ==
  ASSUME NEW L, IsTable(L, Ids, KeyLightRecord),
         \/ \E S \in SUBSET DOMAIN L : Queue(StateCalls(L, S))
         \/ \E S, running, marked, pending : Flush(L, S, running, marked, pending)
  PROVE  \E calls \in SUBSET UsbCall :
           IsFiniteSet(calls) /\ Queue(calls) /\ \A call \in calls : call.op = "request"
<1>1. ASSUME NEW S \in SUBSET DOMAIN L, Queue(StateCalls(L, S))
      PROVE  \E calls \in SUBSET UsbCall :
               IsFiniteSet(calls) /\ Queue(calls) /\ \A call \in calls : call.op = "request"
  <2>1. StateCalls(L, S) \in SUBSET UsbCall /\ IsFiniteSet(StateCalls(L, S))
    BY StateCallsType
  <2>2. \A call \in StateCalls(L, S) : call.op = "request"
    BY LightCallsOnly
  <2> QED
    BY <1>1, <2>1, <2>2
<1>2. ASSUME NEW S, NEW running, NEW marked, NEW pending,
             Flush(L, S, running, marked, pending)
      PROVE  \E calls \in SUBSET UsbCall :
               IsFiniteSet(calls) /\ Queue(calls) /\ \A call \in calls : call.op = "request"
  <2> DEFINE sent == Flushable(L, S) \ running
  <2>1. sent \in SUBSET DOMAIN L /\ \A id \in sent : L[id].state # None
    BY DEF Flushable
  <2>2. Queue(PutCalls(L, sent))
    BY <1>2 DEF Flush
  <2> HIDE DEF sent
  <2>3. PutCalls(L, sent) \in SUBSET UsbCall /\ IsFiniteSet(PutCalls(L, sent))
    BY <2>1, PutCallsType
  <2>4. \A call \in PutCalls(L, sent) : call.op = "request"
    BY LightCallsOnly
  <2> QED
    BY <2>2, <2>3, <2>4
<1> QED
  BY <1>1, <1>2

\* The main thread's own steps begin no probe and end none.
LEMMA MainProbes ==
  ASSUME TypeOK, TypeOK', ProbedOnce, Environment \/ User \/ Timers \/ Network
  PROVE  ProbedOnce'
<1>1. UsbTypeOK /\ IsTable(lights, Ids, KeyLightRecord) /\ IsTable(lights', Ids, KeyLightRecord)
  BY DEF TypeOK, ManagerTypeOK
<1>2. ASSUME UNCHANGED <<usbPending, usbOut, byUsbPath>>, NEW S, NEW pending, NEW running,
             NEW marked, Flush(lights', S, running, marked, pending)
      PROVE  ProbedOnce'
  BY <1>1, <1>2, RequestsQueued, RequestsProbe
<1>3. ASSUME UNCHANGED <<usbPending, usbOut, byUsbPath>>, NEW L, L \in {lights, lights'},
             NEW S \in SUBSET DOMAIN L, Queue(StateCalls(L, S))
      PROVE  ProbedOnce'
  BY <1>1, <1>3, RequestsQueued, RequestsProbe
<1>4. CASE Environment
  <2>1. ASSUME NEW s \in Services, Discover(s)
        PROVE  ProbedOnce'
    <3>1. {ServiceId(s)} \in SUBSET DOMAIN lights'
      BY <2>1 DEF Discover, OnDiscovered, Bind
    <3> QED
      BY <1>3, <2>1, <3>1 DEF Discover, OnDiscovered
  <2>2. ASSUME NEW name, ServiceGone(name)
        PROVE  ProbedOnce'
    BY <2>2, IdleProbes DEF ServiceGone, OnServiceRemoved
  <2>3. ASSUME NEW d, NEW p, PlugIn(d, p) \/ PullOut(p)
        PROVE  ProbedOnce'
    BY <2>3, IdleProbes DEF PlugIn, PullOut, managerVars, indexVars
  <2> QED
    BY <1>4, <2>1, <2>2, <2>3 DEF Environment
<1>5. ASSUME NEW id, FlushPending(id)
      PROVE  ProbedOnce'
  BY <1>2, <1>5 DEF FlushPending, UserUnchanged, indexVars
<1>6. CASE User
  <2>1. ASSUME NEW id, NEW on, SetOn(id, on)
        PROVE  ProbedOnce'
    BY <1>2, <2>1 DEF SetOn, UserUnchanged, indexVars
  <2>2. ASSUME NEW id, NEW value, SetBrightness(id, value) \/ SetTemperature(id, value)
        PROVE  ProbedOnce'
    BY <2>2, IdleProbes
       DEF SetBrightness, SetTemperature, Schedule, UserUnchanged, indexVars, usbVars
  <2>3. ASSUME ToggleAll
        PROVE  ProbedOnce'
    BY <1>2, <2>3 DEF ToggleAll, UserUnchanged, indexVars
  <2>4. ASSUME RefreshAll
        PROVE  ProbedOnce'
    BY <1>3, <2>4 DEF RefreshAll, FetchState, managerVars, indexVars
  <2> QED
    BY <1>5, <1>6, <2>1, <2>2, <2>3, <2>4
       DEF User, ClickOn, DragBrightness, DragTemperature, ReleaseSlider, ClickToggleAll,
           RefreshMenu
<1>7. CASE Timers
  <2>1. ASSUME OnRefreshTick
        PROVE  ProbedOnce'
    <3> DEFINE calls == StateCalls(lights, Due(refreshTicks'))
    <3>1. Due(refreshTicks') \in SUBSET DOMAIN lights
      BY DEF Due
    <3>2. calls \in SUBSET UsbCall /\ IsFiniteSet(calls)
      BY <1>1, <3>1, StateCallsType
    <3>3. PICK order \in SetToSeqs(calls) : usbIn' = usbIn \o <<EnumerateCall>> \o order
      BY <2>1 DEF OnRefreshTick
    <3>4. order \in Seq(UsbCall)
      BY <3>2, OrderType
    <3>5. <<EnumerateCall>> \in Seq(UsbCall) /\ EnumerateCall \in UsbCall
      BY DEF UsbCall
    <3> DEFINE new == <<EnumerateCall>> \o order
    <3>6. new \in Seq(UsbCall) /\ usbIn' = usbIn \o new
      BY <1>1, <3>3, <3>4, <3>5 DEF UsbTypeOK
    <3>7. ASSUME NEW p \in UsbPaths
          PROVE  Probes(p)' = Probes(p)
      <4>1. Occurrences(order, {ProbeCall(p)}) = {}
        <5>1. \A call \in calls : call.op = "request"
          BY LightCallsOnly
        <5>2. calls \cap {ProbeCall(p)} = {}
          BY <5>1, ProbeCalls
        <5> QED
          BY <3>2, <5>2, OrderOnce
      <4>2. Occurrences(<<EnumerateCall>>, {ProbeCall(p)}) = {}
        BY ProbeCalls DEF Occurrences
      <4>3. Occurrences(new, {ProbeCall(p)}) = {}
        <5> DEFINE first == <<EnumerateCall>>
                   probe == {ProbeCall(p)}
        <5>1. first \in Seq(UsbCall) /\ Occurrences(first, probe) = {}
              /\ Occurrences(order, probe) = {} /\ new = first \o order
          BY <3>5, <4>1, <4>2
        <5> HIDE DEF first, probe
        <5>2. Occurrences(first \o order, probe) = Occurrences(first, probe)
          BY <3>4, <5>1, AppendNone
        <5> QED
          BY <5>1, <5>2 DEF probe
      <4>4. UsbCalls' = UsbCalls \o new /\ UsbCalls \in Seq(UsbCall)
        BY <1>1, <2>1, <3>6, CallsQueued, CallsType DEF OnRefreshTick
      <4> QED
        BY <3>6, <4>3, <4>4, AppendNone DEF Probes
    <3> QED
      BY <2>1, <3>7, QuietProbes DEF OnRefreshTick, indexVars
  <2> QED
    BY <1>5, <1>7, <2>1 DEF Timers, RefreshTimer, DebounceTimer, DebounceFires
<1>8. CASE Network
  <2>1. PICK r \in DOMAIN http :
          ServeHttp(r) \/ InfoReply(r) \/ StateReply(r) \/ PutReply(r) \/ HttpFailure(r)
    BY <1>8 DEF Network
  <2>2. CASE ServeHttp(r)
    BY <2>2, IdleProbes DEF ServeHttp, managerVars, indexVars
  <2>3. CASE InfoReply(r)
    <3>1. DOMAIN byUsbPath' = DOMAIN byUsbPath
      BY <2>3 DEF InfoReply, OnInfoReceived, Merge, Repoint, indexVars
    <3> QED
      BY <2>3, <3>1, IdleProbes DEF InfoReply, OnInfoReceived
  <2>4. CASE StateReply(r)
    BY <2>4, IdleProbes DEF StateReply, OnStateReceived, indexVars, usbVars
  <2>5. CASE PutReply(r)
    BY <1>2, <2>5 DEF PutReply, OnPutSucceeded, indexVars
  <2>6. CASE HttpFailure(r)
    BY <2>6, IdleProbes DEF HttpFailure, OnRequestFailed, indexVars, usbVars
  <2> QED
    BY <2>1, <2>2, <2>3, <2>4, <2>5, <2>6
<1> QED
  BY <1>4, <1>6, <1>7, <1>8

\* onUsbEnumerated begins a probe of each new path.
LEMMA EnumeratedProbes ==
  ASSUME TypeOK, ProbedOnce, UsbEnumerated
  PROVE  ProbedOnce'
<1> DEFINE paths == Head(usbOut).paths
           fresh == Fresh(paths)
           gone == DOMAIN byUsbPath \ paths
           probe == [p \in fresh |-> ProbeCall(p)]
           calls == {probe[p] : p \in fresh}
<1>1. UsbTypeOK /\ usbPending \subseteq UsbPaths
  BY DEF TypeOK, ManagerTypeOK
<1>2. /\ usbPending' = (usbPending \cup fresh) \ gone
      /\ DOMAIN byUsbPath' = DOMAIN byUsbPath \ gone
      /\ Queue({ProbeCall(p) : p \in fresh})
      /\ Delivered("enumerated")
  BY DEF UsbEnumerated, OnUsbEnumerated
<1>3. Head(usbOut) \in UsbResult /\ Head(usbOut).signal = "enumerated"
  BY <1>1, <1>2 DEF Delivered, UsbTypeOK
<1>4. fresh \in SUBSET UsbPaths /\ Head(usbOut).call = EnumerateCall
  BY <1>3 DEF UsbResult, Fresh
<1>5. calls \in SUBSET UsbCall
  BY <1>4 DEF ProbeCall, EnumerateCall, UsbCall, Probe
<1>6. IsFiniteSet(calls)
  <2>1. IsFiniteSet(fresh) /\ DOMAIN probe = fresh
    BY <1>4, KeyLightAssumption, FS_Subset
  <2> HIDE DEF probe, fresh
  <2> QED
    BY <2>1, ImageFinite
<1>7. calls = {ProbeCall(p) : p \in fresh} /\ fresh \cap (DOMAIN byUsbPath \cup usbPending) = {}
  BY DEF Fresh
<1> HIDE DEF calls, probe
<1>8. Queue(calls)
  BY <1>2, <1>7
<1> SUFFICES ASSUME NEW p \in UsbPaths
             PROVE  IF p \in usbPending' THEN ExactlyOne(Probes(p)') /\ p \notin DOMAIN byUsbPath'
                                         ELSE Probes(p)' = {}
  BY DEF ProbedOnce, Probes
<1>9. IF p \in usbPending THEN ExactlyOne(Probes(p)) /\ p \notin DOMAIN byUsbPath
                          ELSE Probes(p) = {}
  BY DEF ProbedOnce, Probes
<1>10. ProbeCall(p) # EnumerateCall /\ \A q : ProbeCall(q) = ProbeCall(p) => q = p
  BY ProbeCalls
<1>11. CASE p \in fresh
  <2>1. calls \cap {ProbeCall(p)} = {ProbeCall(p)}
    BY <1>7, <1>11
  <2>2. Probes(p) = {} /\ p \in usbPending' /\ p \notin DOMAIN byUsbPath'
    BY <1>2, <1>7, <1>9, <1>11
  <2>3. ExactlyOne(calls \cap {ProbeCall(p)})
    BY <2>1 DEF ExactlyOne
  <2>4. ExactlyOne(Probes(p)')
    BY <1>1, <1>2, <1>5, <1>6, <1>8, <2>2, <2>3, DeliverAdds DEF Probes
  <2> QED
    BY <2>2, <2>4
<1>12. CASE p \notin fresh
  <2>1. calls \cap {ProbeCall(p)} = {}
    BY <1>7, <1>10, <1>12
  <2>2. Head(usbOut).call \notin {ProbeCall(p)}
    BY <1>4, <1>10
  <2>3. /\ Probes(p) = {} <=> Probes(p)' = {}
        /\ ExactlyOne(Probes(p)) => ExactlyOne(Probes(p)')
    BY <1>1, <1>2, <1>5, <1>6, <1>8, <2>1, <2>2, DeliverKeeps DEF Probes
  <2> HIDE DEF fresh
  <2> QED
    BY <1>2, <1>9, <1>12, <2>3
<1> QED
  BY <1>11, <1>12

\* applyUsbInfo and onUsbInfoFailed end the probe they answer, and no other.
LEMMA InfoProbes ==
  ASSUME TypeOK, ProbedOnce, NEW signal \in {"infoReady", "infoFailed"}, Delivered(signal),
         usbPending' = usbPending \ {Head(usbOut).call.path},
         DOMAIN byUsbPath' \subseteq DOMAIN byUsbPath \cup {Head(usbOut).call.path},
         NEW calls \in SUBSET UsbCall, IsFiniteSet(calls), Queue(calls),
         \A call \in calls : call.op = "request"
  PROVE  ProbedOnce' /\ Head(usbOut).call.path \in usbPending
<1> PICK path : path = Head(usbOut).call.path
  OBVIOUS
<1>1. UsbTypeOK
  BY DEF TypeOK
<1>2. Head(usbOut) \in UsbResult /\ Head(usbOut).signal = signal
  BY <1>1 DEF Delivered, UsbTypeOK
<1>3. Head(usbOut).call \in Probe
  BY <1>2 DEF UsbResult
<1>4. Head(usbOut).call = ProbeCall(path) /\ path \in UsbPaths
  BY <1>3, ProbeCalls DEF Probe
<1>5. ASSUME NEW p \in UsbPaths
      PROVE  IF p \in usbPending THEN ExactlyOne(Probes(p)) /\ p \notin DOMAIN byUsbPath
                                 ELSE Probes(p) = {}
  BY DEF ProbedOnce, Probes
<1>6. \A p : calls \cap {ProbeCall(p)} = {}
  BY ProbeCalls
<1>7. Probes(path) # {} /\ (ExactlyOne(Probes(path)) => Probes(path)' = {})
  <2>1. Head(usbOut).call \in {ProbeCall(path)} /\ calls \cap {ProbeCall(path)} = {}
    BY <1>4, <1>6
  <2> QED
    BY <1>1, <2>1, DeliverTakes DEF Probes
<1>8. path \in usbPending /\ Probes(path)' = {}
  BY <1>4, <1>5, <1>7
<1>9. ASSUME NEW p \in UsbPaths, p # path
      PROVE  /\ Probes(p) = {} <=> Probes(p)' = {}
             /\ ExactlyOne(Probes(p)) => ExactlyOne(Probes(p)')
  <2>1. Head(usbOut).call \notin {ProbeCall(p)}
    BY <1>4, <1>9, ProbeCalls
  <2> QED
    BY <1>1, <1>6, <2>1, DeliverKeeps DEF Probes
<1>10. ProbedOnce'
  <2> SUFFICES ASSUME NEW p \in UsbPaths
               PROVE  IF p \in usbPending' THEN ExactlyOne(Probes(p)') /\ p \notin DOMAIN byUsbPath'
                                           ELSE Probes(p)' = {}
    BY DEF ProbedOnce, Probes
  <2> QED
    BY <1>5, <1>8, <1>9
<1> QED
  BY <1>8, <1>10

\* The calls that onUsbInfoReady and onUsbInfoFailed queue.
LEMMA InfoQueues ==
  ASSUME TypeOK, TypeOK', UsbInfoReady \/ UsbInfoFailed
  PROVE  \E calls \in SUBSET UsbCall :
           IsFiniteSet(calls) /\ Queue(calls) /\ \A call \in calls : call.op = "request"
<1>1. CASE UsbInfoReady
  <2> DEFINE info == Head(usbOut).info
             id == KnownAs(UsbId(Head(usbOut).call.path, info), info.serial)
  <2>1. id \in DOMAIN lights' /\ Queue(StateCalls(lights', {id}))
    BY <1>1 DEF UsbInfoReady, OnUsbInfoReady, FetchState, Bind
  <2> HIDE DEF id
  <2>2. {id} \in SUBSET DOMAIN lights' /\ IsTable(lights', Ids, KeyLightRecord)
    BY <2>1 DEF TypeOK, ManagerTypeOK
  <2> QED
    BY <2>1, <2>2, RequestsQueued
<1>2. CASE UsbInfoFailed
  <2>1. Queue({})
    BY <1>2, QueueNothing DEF UsbInfoFailed, OnUsbInfoFailed, TypeOK
  <2> QED
    BY <2>1, FS_EmptySet
<1> QED
  BY <1>1, <1>2

\* The steps of the USB thread and the handlers of its results.
LEMMA UsbProbes ==
  ASSUME TypeOK, TypeOK', ProbedOnce, Usb
  PROVE  ProbedOnce'
<1>1. UsbTypeOK /\ IsTable(lights', Ids, KeyLightRecord)
  BY DEF TypeOK, ManagerTypeOK
<1>2. CASE WorkerStep
  <2>1. UsbCalls' = UsbCalls /\ UNCHANGED managerVars
    BY <1>1, <1>2, CallsWorked DEF WorkerStep
  <2> QED
    BY <2>1, QuietProbes DEF Probes, managerVars, indexVars
<1>3. CASE UsbEnumerated
  BY <1>3, EnumeratedProbes
<1>4. CASE UsbInfoReady
  <2>1. /\ Delivered("infoReady")
        /\ usbPending' = usbPending \ {Head(usbOut).call.path}
        /\ DOMAIN byUsbPath' \subseteq DOMAIN byUsbPath \cup {Head(usbOut).call.path}
    BY <1>4 DEF UsbInfoReady, OnUsbInfoReady, Bind
  <2> QED
    BY <1>4, <2>1, InfoQueues, InfoProbes
<1>5. CASE UsbInfoFailed
  <2>1. /\ Delivered("infoFailed")
        /\ usbPending' = usbPending \ {Head(usbOut).call.path}
        /\ byUsbPath' = byUsbPath
    BY <1>5 DEF UsbInfoFailed, OnUsbInfoFailed, indexVars
  <2> QED
    BY <1>5, <2>1, InfoQueues, InfoProbes
<1>6. ASSUME NEW signal \in {"requestDone", "requestFailed"}, Delivered(signal),
             UNCHANGED <<usbPending, byUsbPath, usbIn>>
      PROVE  ProbedOnce'
  <2>1. Queue({})
    BY <1>1, <1>6, QueueNothing
  <2> QED
    BY <1>1, <1>6, <2>1, ResultsProbe, FS_EmptySet
<1>7. CASE UsbRequestDone
  <2>1. Delivered("requestDone")
    BY <1>7 DEF UsbRequestDone
  <2>2. ASSUME NEW id, OnPutSucceeded(id, http)
        PROVE  ProbedOnce'
    <3>1. /\ Flush(lights', {id} \cap dirty, inflight \ {id}, dirty \ {id}, http)
          /\ UNCHANGED <<usbPending, byUsbPath>>
      BY <2>2 DEF OnPutSucceeded, indexVars
    <3>2. PICK calls \in SUBSET UsbCall :
            IsFiniteSet(calls) /\ Queue(calls) /\ \A call \in calls : call.op = "request"
      BY <1>1, <3>1, RequestsQueued
    <3> QED
      BY <1>1, <2>1, <3>1, <3>2, ResultsProbe
  <2>3. ASSUME NEW id, NEW data, OnStateReceived(id, data, http)
        PROVE  ProbedOnce'
    BY <1>6, <2>1, <2>3 DEF OnStateReceived, indexVars
  <2> QED
    BY <1>7, <2>2, <2>3 DEF UsbRequestDone
<1>8. CASE UsbRequestFailed
  BY <1>6, <1>8 DEF UsbRequestFailed, OnRequestFailed, indexVars
<1> QED
  BY <1>2, <1>3, <1>4, <1>5, <1>7, <1>8 DEF Usb

\* Probes are kept apart by usbPending alone.
LEMMA ProbeStep == TypeOK /\ TypeOK' /\ ProbedOnce /\ [Next]_vars => ProbedOnce'
<1>1. TypeOK /\ ProbedOnce /\ UNCHANGED vars => ProbedOnce'
  BY IdleProbes DEF vars, managerVars, indexVars
<1> QED
  BY <1>1, MainProbes, UsbProbes DEF Next

\* onUsbEnumerated, applyUsbInfo, onUsbInfoFailed: however scans, probes, results and
\* retries interleave on the two threads, a path is in m_usbPending exactly while one
\* probe of it is on its way, and it is not known yet.
THEOREM ProbesCorrect == Spec => []ProbedOnce
<1>1. Init => ProbedOnce
  <2> SUFFICES ASSUME Init, NEW p \in UsbPaths
               PROVE  p \notin usbPending /\ Probes(p) = {}
    BY DEF ProbedOnce, Probes
  <2> DEFINE first == <<EnumerateCall>>
  <2>1. usbIn = first /\ usbOut = <<>> /\ usbPending = {}
    BY DEF Init, ManagerInit
  <2>2. [i \in DOMAIN usbOut |-> usbOut[i].call] = <<>>
    BY <2>1
  <2>3. first \in Seq(UsbCall)
    BY DEF UsbCall
  <2> HIDE DEF first
  <2>4. UsbCalls = first
    BY <2>1, <2>2, <2>3 DEF UsbCalls
  <2> QED
    BY <2>1, <2>4, ProbeCalls DEF Probes, Occurrences, first
<1> QED
  BY <1>1, ProbeStep, TypeCorrect, PTL DEF Spec

-------------------------------------------------------------------------------
(* Paths.                                                                  *)

\* Each light that has a path is found by it, and driven over it.
LedBack(L, table) ==
  \A id \in DOMAIN L : L[id].usbPath # None =>
    Lookup(table, L[id].usbPath) = id /\ L[id].transport = "Usb"

\* The property over any cache and table.
LEMMA PathParts == UsbPathsLeadBack <=> LedBack(lights, byUsbPath)
BY DEF UsbPathsLeadBack, LedBack

\* The handlers that touch neither paths nor the table of paths.
LEMMA RoutesLead ==
  UsbPathsLeadBack /\ SameRoutes /\ UNCHANGED byUsbPath => UsbPathsLeadBack'
BY DEF UsbPathsLeadBack, SameRoutes

\* onDiscovered: a new light has no path.
LEMMA DiscoveredLeads ==
  ASSUME TypeOK, UsbPathsLeadBack, NEW service, OnDiscovered(service)
  PROVE  UsbPathsLeadBack'
<1> DEFINE id == ServiceId(service)
           base == IF id \in DOMAIN lights THEN lights[id] ELSE NewKeyLight
           light == [base EXCEPT !.address = service.address]
<1>1. lights' = Bind(lights, id, light) /\ UNCHANGED byUsbPath
  BY DEF OnDiscovered
<1>2. base \in KeyLightRecord
  BY NewKeyLightType, LightFields DEF TypeOK, ManagerTypeOK
<1>3. light.usbPath = base.usbPath /\ light.transport = base.transport
  <2> HIDE DEF base
  <2> QED
    BY <1>2 DEF KeyLightRecord
<1>4. IF id \in DOMAIN lights THEN base = lights[id] ELSE base.usbPath = None
  BY DEF NewKeyLight
<1> HIDE DEF light, base, id
<1> QED
  BY <1>1, <1>3, <1>4 DEF UsbPathsLeadBack, Bind

\* merge: the light that is kept has its own path or takes the other's over, and the
\* table sends both paths to it.
LEMMA MergeLeads ==
  ASSUME NEW L, IsTable(L, Ids, KeyLightRecord), LedBack(L, byUsbPath),
         None \notin DOMAIN L, NEW keepId, NEW dropId, Merge(L, keepId, dropId)
  PROVE  UsbPathsLeadBack'
<1>1. CASE {keepId, dropId} \subseteq DOMAIN L /\ keepId # dropId
  <2> DEFINE keep == Merged(L[keepId], L[dropId])
  <2>1. L[keepId] \in KeyLightRecord /\ L[dropId] \in KeyLightRecord
    BY <1>1, LightFields
  <2>2. \/ keep.usbPath = L[keepId].usbPath /\ keep.transport = L[keepId].transport
        \/ /\ L[keepId].usbPath = None /\ keep.usbPath = L[dropId].usbPath
           /\ L[dropId].usbPath # None /\ keep.transport = "Usb"
    BY <2>1 DEF Merged, KeyLightRecord
  <2>3. lights' = Unbind([L EXCEPT ![keepId] = keep], dropId)
        /\ byUsbPath' = Repoint(byUsbPath, dropId, keepId)
    BY <1>1 DEF Merge
  <2> HIDE DEF keep
  <2>4. DOMAIN lights' = DOMAIN L \ {dropId} /\ lights'[keepId] = keep
        /\ \A id \in DOMAIN lights' : id # keepId => lights'[id] = L[id]
    BY <1>1, <2>3 DEF Unbind, IsTable
  <2>5. \A path, id : id # None /\ Lookup(byUsbPath, path) = id =>
          Lookup(byUsbPath', path) = IF id = dropId THEN keepId ELSE id
    BY <2>3 DEF Lookup, Repoint
  <2> SUFFICES ASSUME NEW id \in DOMAIN lights', lights'[id].usbPath # None
               PROVE  /\ Lookup(byUsbPath', lights'[id].usbPath) = id
                      /\ lights'[id].transport = "Usb"
    BY DEF UsbPathsLeadBack
  <2>6. ASSUME NEW i \in DOMAIN L, L[i].usbPath # None
        PROVE  Lookup(byUsbPath, L[i].usbPath) = i /\ L[i].transport = "Usb" /\ i # None
    BY <2>6 DEF LedBack
  <2>7. CASE id # keepId
    BY <2>4, <2>5, <2>6, <2>7
  <2>8. CASE id = keepId
    BY <1>1, <2>2, <2>4, <2>5, <2>6, <2>8
  <2> QED
    BY <2>7, <2>8
<1>2. CASE ~({keepId, dropId} \subseteq DOMAIN L /\ keepId # dropId)
  BY <1>2 DEF Merge, indexVars, LedBack, UsbPathsLeadBack
<1> QED
  BY <1>1, <1>2

\* onInfoReceived: the serial number it writes says nothing of a path.
LEMMA InfoLeads ==
  ASSUME TypeOK, TypeOK', UsbPathsLeadBack, NEW r, r \in HttpRequest, InfoReply(r)
  PROVE  UsbPathsLeadBack'
<1> DEFINE id == r.id
           info == InfoOf[Owner[r.address]]
           named == [lights EXCEPT ![id].serial = info.serial]
<1>1. info.serial \in Serials \cup {None}
  <2>1. info \in Info
    BY RequestFields, HardwareAssumption DEF InfoReply, Answered
  <2> QED
    BY <2>1 DEF Info
<1>2. ASSUME id \in DOMAIN lights
      PROVE  /\ IsTable(named, Ids, KeyLightRecord) /\ DOMAIN named = DOMAIN lights
             /\ LedBack(named, byUsbPath)
  <2>1. lights[id] \in KeyLightRecord
    BY <1>2, LightFields DEF TypeOK, ManagerTypeOK
  <2>2. ASSUME NEW serial \in Serials \cup {None}
        PROVE  /\ [lights[id] EXCEPT !.serial = serial] \in KeyLightRecord
               /\ [lights[id] EXCEPT !.serial = serial].usbPath = lights[id].usbPath
               /\ [lights[id] EXCEPT !.serial = serial].transport = lights[id].transport
    BY <2>1 DEF KeyLightRecord
  <2>3. LedBack(lights, byUsbPath)
    BY PathParts
  <2> QED
    BY <1>1, <1>2, <2>2, <2>3 DEF LedBack, TypeOK, ManagerTypeOK, IsTable
<1>3. None \notin DOMAIN lights
  BY KeyLightAssumption DEF TypeOK, ManagerTypeOK, IsTable
<1>4. CASE UNCHANGED <<lights, byUsbPath>>
  BY <1>4 DEF UsbPathsLeadBack
<1>5. CASE id \in DOMAIN lights /\ lights' = named /\ byUsbPath' = byUsbPath
  BY <1>2, <1>5 DEF LedBack, UsbPathsLeadBack
<1>6. CASE id \in DOMAIN lights /\ Merge(named, Lookup(bySerial, info.serial), id)
  <2> HIDE DEF named, info, id
  <2> QED
    BY <1>2, <1>3, <1>6, MergeLeads
<1> QED
  BY <1>4, <1>5, <1>6 DEF InfoReply, OnInfoReceived, indexVars

\* onUsbEnumerated: a path that leaves the table leaves its light.
LEMMA EnumeratedLeads ==
  ASSUME TypeOK, UsbPathsLeadBack, NEW paths, OnUsbEnumerated(paths)
  PROVE  UsbPathsLeadBack'
<1> DEFINE gone == DOMAIN byUsbPath \ paths
           orphaned == {id \in DOMAIN lights : \E p \in gone : byUsbPath[p] = id}
<1>1. /\ lights' = [id \in DOMAIN lights |->
                      IF id \in orphaned THEN Unplugged(lights[id]) ELSE lights[id]]
      /\ byUsbPath' = [p \in DOMAIN byUsbPath \ gone |-> byUsbPath[p]]
  BY DEF OnUsbEnumerated
<1>2. ASSUME NEW light \in KeyLightRecord
      PROVE  Unplugged(light).usbPath = None
  BY DEF Unplugged, KeyLightRecord
<1>3. \A id \in DOMAIN lights : lights[id] \in KeyLightRecord
  BY LightFields DEF TypeOK, ManagerTypeOK
<1>4. None \notin DOMAIN lights
  BY KeyLightAssumption DEF TypeOK, ManagerTypeOK, IsTable
<1> SUFFICES ASSUME NEW id \in DOMAIN lights, lights'[id].usbPath # None
             PROVE  /\ Lookup(byUsbPath', lights'[id].usbPath) = id
                    /\ lights'[id].transport = "Usb"
  BY <1>1 DEF UsbPathsLeadBack
<1>5. id \notin orphaned /\ lights'[id] = lights[id]
  BY <1>1, <1>2, <1>3
<1>6. Lookup(byUsbPath, lights[id].usbPath) = id /\ lights[id].transport = "Usb"
  BY <1>5 DEF UsbPathsLeadBack
<1>7. lights[id].usbPath \in DOMAIN byUsbPath \ gone /\ byUsbPath[lights[id].usbPath] = id
  BY <1>4, <1>5, <1>6 DEF Lookup
<1> QED
  BY <1>1, <1>5, <1>6, <1>7 DEF Lookup

\* applyUsbInfo: a path that was just probed was in nobody's hands.
LEMMA InfoReadyLeads ==
  ASSUME TypeOK, UsbPathsLeadBack, NEW path, NEW info, OnUsbInfoReady(path, info),
         path \notin DOMAIN byUsbPath
  PROVE  UsbPathsLeadBack'
<1> DEFINE id == KnownAs(UsbId(path, info), info.serial)
           base == IF {id} \cap DOMAIN lights = {} THEN NewKeyLight ELSE lights[id]
           light == [base EXCEPT !.usbPath = path, !.transport = "Usb",
                                 !.serial = IF info.serial = None THEN @ ELSE info.serial]
<1>1. lights' = Bind(lights, id, light) /\ byUsbPath' = Bind(byUsbPath, path, id)
  BY DEF OnUsbInfoReady
<1>2. base \in KeyLightRecord
  BY NewKeyLightType, LightFields DEF TypeOK, ManagerTypeOK
<1>3. light.usbPath = path /\ light.transport = "Usb"
  <2> HIDE DEF base
  <2> QED
    BY <1>2 DEF KeyLightRecord
<1>4. None \notin DOMAIN lights
  BY KeyLightAssumption DEF TypeOK, ManagerTypeOK, IsTable
<1> HIDE DEF light, base, id
<1> SUFFICES ASSUME NEW i \in DOMAIN lights', lights'[i].usbPath # None
             PROVE  /\ Lookup(byUsbPath', lights'[i].usbPath) = i
                    /\ lights'[i].transport = "Usb"
  BY DEF UsbPathsLeadBack
<1>5. CASE i = id
  BY <1>1, <1>3, <1>5 DEF Bind, Lookup
<1>6. CASE i # id
  <2>1. i \in DOMAIN lights /\ lights'[i] = lights[i]
    BY <1>1, <1>6 DEF Bind
  <2>2. Lookup(byUsbPath, lights[i].usbPath) = i /\ lights[i].transport = "Usb"
    BY <2>1 DEF UsbPathsLeadBack
  <2>3. lights[i].usbPath \in DOMAIN byUsbPath /\ lights[i].usbPath # path
    BY <1>4, <2>1, <2>2 DEF Lookup
  <2> QED
    BY <1>1, <2>1, <2>2, <2>3 DEF Bind, Lookup
<1> QED
  BY <1>5, <1>6

\* The inductive step: that nobody holds a path that is being probed is ProbedOnce.
LEMMA PathsStep ==
  TypeOK /\ TypeOK' /\ ProbedOnce /\ UsbPathsLeadBack /\ [Next]_vars => UsbPathsLeadBack'
<1> SUFFICES ASSUME TypeOK, TypeOK', ProbedOnce, UsbPathsLeadBack, [Next]_vars
             PROVE  UsbPathsLeadBack'
  OBVIOUS
<1>1. ASSUME UNCHANGED <<lights, byUsbPath>>
      PROVE  UsbPathsLeadBack'
  BY <1>1 DEF UsbPathsLeadBack
<1>2. CASE UNCHANGED vars
  BY <1>1, <1>2 DEF vars, managerVars, indexVars
<1>3. CASE Environment
  <2>1. ASSUME NEW name, ServiceGone(name)
        PROVE  UsbPathsLeadBack'
    BY <2>1, GoneRoutes, RoutesLead DEF ServiceGone, OnServiceRemoved
  <2>2. ASSUME NEW d, NEW p, PlugIn(d, p) \/ PullOut(p)
        PROVE  UsbPathsLeadBack'
    BY <1>1, <2>2 DEF PlugIn, PullOut, managerVars, indexVars
  <2> QED
    BY <1>3, <2>1, <2>2, DiscoveredLeads DEF Environment, Discover
<1>4. CASE User \/ Timers
  <2>1. UNCHANGED byUsbPath
    BY <1>4
       DEF User, Timers, ClickOn, DragBrightness, DragTemperature, ReleaseSlider,
           ClickToggleAll, RefreshMenu, RefreshTimer, DebounceTimer, DebounceFires,
           FlushPending, SetOn, SetBrightness, SetTemperature, Schedule, ToggleAll,
           RefreshAll, OnRefreshTick, UserUnchanged, managerVars, indexVars
  <2> QED
    BY <1>4, <2>1, UserRoutes, RoutesLead
<1>5. ASSUME NEW id, NEW pending,
             \/ \E data : OnStateReceived(id, data, pending)
             \/ OnPutSucceeded(id, pending)
             \/ \E kind : OnRequestFailed(id, kind, pending)
      PROVE  UsbPathsLeadBack'
  <2>1. SameRoutes
    BY <1>5, AnsweredRoutes, PutRoutes, FailedRoutes
  <2>2. UNCHANGED byUsbPath
    BY <1>5 DEF OnStateReceived, OnPutSucceeded, OnRequestFailed, indexVars
  <2> QED
    BY <2>1, <2>2, RoutesLead
<1>6. CASE Network
  <2>1. PICK r \in DOMAIN http :
          ServeHttp(r) \/ InfoReply(r) \/ StateReply(r) \/ PutReply(r) \/ HttpFailure(r)
    BY <1>6 DEF Network
  <2>2. r \in HttpRequest
    BY DEF TypeOK, HttpTypeOK
  <2>3. CASE ServeHttp(r)
    BY <1>1, <2>3 DEF ServeHttp, managerVars, indexVars
  <2> QED
    BY <1>5, <2>1, <2>2, <2>3, InfoLeads DEF StateReply, PutReply, HttpFailure
<1>7. CASE Usb
  <2>1. CASE WorkerStep \/ UsbInfoFailed
    BY <1>1, <2>1 DEF WorkerStep, UsbInfoFailed, OnUsbInfoFailed, managerVars, indexVars
  <2>2. CASE UsbEnumerated
    BY <2>2, EnumeratedLeads DEF UsbEnumerated
  <2>3. CASE UsbInfoReady
    <3>1. Head(usbOut).call.path \in usbPending
      <4>1. /\ Delivered("infoReady")
            /\ usbPending' = usbPending \ {Head(usbOut).call.path}
            /\ DOMAIN byUsbPath' \subseteq DOMAIN byUsbPath \cup {Head(usbOut).call.path}
        BY <2>3 DEF UsbInfoReady, OnUsbInfoReady, Bind
      <4> QED
        BY <2>3, <4>1, InfoQueues, InfoProbes
    <3>2. Head(usbOut).call.path \notin DOMAIN byUsbPath
      BY <3>1 DEF ProbedOnce, TypeOK, ManagerTypeOK
    <3> QED
      BY <2>3, <3>2, InfoReadyLeads DEF UsbInfoReady
  <2>4. CASE UsbRequestDone \/ UsbRequestFailed
    BY <1>5, <2>4 DEF UsbRequestDone, UsbRequestFailed
  <2> QED
    BY <1>7, <2>1, <2>2, <2>3, <2>4 DEF Usb
<1> QED
  BY <1>2, <1>3, <1>4, <1>6, <1>7 DEF Next

\* applyUsbInfo, onUsbRemoved, merge: a light that has a path is the one that losing
\* this path is told to, whatever was merged, probed or replugged before.
THEOREM PathsCorrect == Spec => []UsbPathsLeadBack
<1>1. Init => UsbPathsLeadBack
  BY DEF Init, ManagerInit, EmptyTable, UsbPathsLeadBack
<1> QED
  BY <1>1, PathsStep, ProbesCorrect, TypeCorrect, PTL DEF Spec

===============================================================================
