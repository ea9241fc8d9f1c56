---------------------------- MODULE Exchange_proofs ----------------------------
(***************************************************************************)
(* The exchanges of the USB worker: for every number of calls, every       *)
(* length of the answers and every frame size, an answer is put together   *)
(* from the frames it takes, and stop() outlives one call that is opened   *)
(* and written to soon enough.                                             *)
(***************************************************************************)
EXTENDS UsbExchange, FiniteSetTheorems, SequenceTheorems, WellFoundedInduction, TLAPS

-------------------------------------------------------------------------------
(* The frames of an answer.                                                *)

\* The number of chunks fits the byte that frames count them with.
LEMMA ChunkCount ==
  ASSUME NEW length \in Nat \ {0}, NEW size \in Nat \ {0}, NEW byte \in Nat \ {0},
         length <= size * (byte - 1)
  PROVE  (length + size - 1) \div size \in 1 .. byte - 1
<1> DEFINE count == (length + size - 1) \div size
<1>1. count \in Int /\ size * count <= length + size - 1 /\ length + size - 1 < size * (count + 1)
  OBVIOUS
<1> HIDE DEF count
<1>2. count >= 1
  <2>1. SUFFICES ASSUME count <= 0 PROVE FALSE
    BY <1>1
  <2>2. size * (count + 1) <= size * 1
    BY <1>1, <2>1
  <2> QED
    BY <1>1, <2>2
<1>3. count <= byte - 1
  <2>1. SUFFICES ASSUME count >= byte PROVE FALSE
    BY <1>1
  <2>2. size * byte <= size * count
    BY <1>1, <2>1
  <2>3. size * (byte - 1) = size * byte - size
    OBVIOUS
  <2> QED
    BY <1>1, <2>2, <2>3
<1> QED
  BY <1>1, <1>2, <1>3 DEF count

LEMMA AnswerChunks ==
  ASSUME NEW n \in Calls
  PROVE  Chunks(Answer(n)) \in 1 .. Byte - 1
<1>1. AnswerLength[n] \in Nat \ {0} /\ AnswerLength[n] <= kMaxPayload * (Byte - 1)
  BY ExchangeAssumption
<1>2. Answer(n) \in Seq({n} \X Nat) /\ Len(Answer(n)) = AnswerLength[n]
  BY <1>1 DEF Answer
<1>3. Answer(n) # <<>>
  BY <1>1, <1>2
<1> QED
  BY <1>1, <1>2, <1>3, ChunkCount, ExchangeAssumption DEF Chunks

\* Frame i of the answer to call n, counted from zero, and all of them.
Part(n, i) ==
  [index |-> i, total |-> Chunks(Answer(n)),
   payload |-> SubSeq(Answer(n), i * kMaxPayload + 1,
                      IF i + 1 = Chunks(Answer(n)) THEN Len(Answer(n))
                                                   ELSE (i + 1) * kMaxPayload)]

Parts(n) == [i \in 0 .. Chunks(Answer(n)) - 1 |-> Part(n, i)]

\* The device numbers its frames from zero, and the numbers do not wrap.
LEMMA AnswerFrames ==
  ASSUME NEW n \in Calls, NEW frame \in BuildFrames(Answer(n))
  PROVE  /\ frame.total = Chunks(Answer(n)) /\ frame.total \in 1 .. Byte - 1
         /\ frame.index \in 0 .. frame.total - 1
         /\ frame = Part(n, frame.index)
<1> DEFINE chunks == Chunks(Answer(n))
<1>1. chunks \in 1 .. Byte - 1 /\ Byte \in Nat \ {0}
  BY AnswerChunks, ExchangeAssumption
<1>2. PICK k \in 1 .. chunks :
        frame = [index |-> (k - 1) % Byte, total |-> chunks % Byte,
                 payload |-> SubSeq(Answer(n), (k - 1) * kMaxPayload + 1,
                                    IF k = chunks THEN Len(Answer(n)) ELSE k * kMaxPayload)]
  BY DEF BuildFrames
<1>3. chunks % Byte = chunks /\ (k - 1) % Byte = k - 1 /\ k - 1 \in 0 .. chunks - 1
  BY <1>1
<1>4. (k - 1) + 1 = k
  OBVIOUS
<1> HIDE DEF chunks
<1> QED
  BY <1>1, <1>2, <1>3, <1>4 DEF Part, chunks

-------------------------------------------------------------------------------
(* Joining them.  Joined is recursive, and the induction it takes is that a *)
(* least position where it could go wrong does not exist.                  *)

\* A set of natural numbers has a least element: what induction rests on.
LEMMA Least ==
  ASSUME NEW S, S \subseteq Nat, S # {}
  PROVE  \E least \in S : \A n \in S : least <= n
<1> DEFINE R == OpToRel(<, Nat)
<1>1. IsWellFoundedOn(R, Nat)
  BY NatLessThanWellFounded
<1>2. \A i, j \in Nat : <<i, j>> \in R <=> i < j
  BY DEF OpToRel
<1> HIDE DEF R
<1>3. PICK least \in S : \A n \in S : <<n, least>> \notin R
  BY <1>1, WFMin
<1>4. ASSUME NEW n \in S
      PROVE  least <= n
  <2>1. n \in Nat /\ least \in Nat /\ <<n, least>> \notin R
    BY <1>3
  <2> QED
    BY <1>2, <2>1
<1> QED
  BY <1>4

\* A table that is built up like that of Joined is that of Joined.
LEMMA JoinedIs ==
  ASSUME NEW parts, NEW g, NEW c \in Nat, Cardinality(DOMAIN parts) = c,
         g = [i \in 0 .. c |->
                IF i = 0 THEN <<>>
                ELSE g[i - 1] \o IF i - 1 \in DOMAIN parts THEN parts[i - 1].payload ELSE <<>>]
  PROVE  Joined(parts) = g[c]
<1> DEFINE piece(i) == IF i \in DOMAIN parts THEN parts[i].payload ELSE <<>>
           next(f, i) == IF i = 0 THEN <<>> ELSE f[i - 1] \o piece(i - 1)
           upTo == CHOOSE f : f = [i \in 0 .. c |-> next(f, i)]
<1>1. Joined(parts) = upTo[c]
  BY DEF Joined
<1>2. g = [i \in 0 .. c |-> next(g, i)]
  OBVIOUS
<1>3. upTo = [i \in 0 .. c |-> next(upTo, i)]
  <2>1. \E f : f = [i \in 0 .. c |-> next(f, i)]
    BY <1>2
  <2> HIDE DEF next
  <2> QED
    BY <2>1
<1> HIDE DEF upTo
<1>4. \A i \in 0 .. c : upTo[i] = next(upTo, i) /\ g[i] = next(g, i)
  <2> HIDE DEF next
  <2> QED
    BY <1>2, <1>3
<1>5. /\ upTo[0] = g[0]
      /\ \A i \in 1 .. c : upTo[i] = upTo[i - 1] \o piece(i - 1) /\ g[i] = g[i - 1] \o piece(i - 1)
  <2> HIDE DEF piece
  <2> QED
    BY <1>4
<1> DEFINE wrong == {i \in 0 .. c : upTo[i] # g[i]}
<1>6. wrong = {}
  <2>1. SUFFICES ASSUME wrong # {} PROVE FALSE
    OBVIOUS
  <2>2. PICK i \in wrong : \A j \in wrong : i <= j
    <3>1. wrong \subseteq Nat
      OBVIOUS
    <3> HIDE DEF wrong
    <3> QED
      BY <2>1, <3>1, Least
  <2>3. i \in 1 .. c /\ upTo[i] # g[i]
    BY <1>5, <2>2
  <2>4. i - 1 \in 0 .. c /\ i - 1 < i
    BY <2>3
  <2>5. upTo[i - 1] = g[i - 1]
    BY <2>2, <2>4
  <2>6. upTo[i] = upTo[i - 1] \o piece(i - 1) /\ g[i] = g[i - 1] \o piece(i - 1)
    BY <1>5, <2>3
  <2> HIDE DEF piece, wrong
  <2> QED
    BY <2>3, <2>5, <2>6
<1> QED
  BY <1>1, <1>6

\* The pieces of a sequence that has been cut up make up the sequence.
LEMMA JoinSlices ==
  ASSUME NEW S, NEW s \in Seq(S), NEW size \in Nat \ {0}, NEW c \in Nat \ {0},
         size * (c - 1) < Len(s), NEW parts, DOMAIN parts = 0 .. c - 1,
         \A i \in 0 .. c - 1 :
           parts[i].payload = SubSeq(s, i * size + 1, IF i + 1 = c THEN Len(s) ELSE (i + 1) * size)
  PROVE  Joined(parts) = s
<1> DEFINE upper(i) == IF i = c THEN Len(s) ELSE i * size
           g == [i \in 0 .. c |-> SubSeq(s, 1, upper(i))]
<1>1. Len(s) \in Nat
  OBVIOUS
<1>2. \A i \in 0 .. c - 1 : i * size \in 0 .. Len(s) /\ i * size <= (i + 1) * size
  <2> TAKE i \in 0 .. c - 1
  <2>1. i * size \in Nat
    OBVIOUS
  <2>2. i * size <= (c - 1) * size
    OBVIOUS
  <2>3. (c - 1) * size = size * (c - 1) /\ (i + 1) * size = i * size + size
    OBVIOUS
  <2> QED
    BY <1>1, <2>1, <2>2, <2>3
<1>3. \A i \in 1 .. c : /\ upper(i - 1) = (i - 1) * size
                        /\ upper(i) \in 0 .. Len(s) /\ upper(i - 1) \in 0 .. upper(i)
  <2> TAKE i \in 1 .. c
  <2>1. i - 1 \in 0 .. c - 1 /\ (i - 1) + 1 = i /\ (i # c => i \in 0 .. c - 1)
    OBVIOUS
  <2>2. /\ (i - 1) * size \in 0 .. Len(s) /\ (i - 1) * size <= i * size
        /\ i # c => i * size \in 0 .. Len(s)
    BY <1>2, <2>1
  <2> QED
    BY <1>1, <2>1, <2>2
<1>4. \A i \in 1 .. c : parts[i - 1].payload = SubSeq(s, upper(i - 1) + 1, upper(i))
  <2> TAKE i \in 1 .. c
  <2>1. i - 1 \in 0 .. c - 1 /\ (i - 1) + 1 = i
    OBVIOUS
  <2>2. parts[i - 1].payload = SubSeq(s, (i - 1) * size + 1, IF i = c THEN Len(s) ELSE i * size)
    BY <2>1
  <2> QED
    BY <1>3, <2>2
<1>5. \A i \in 0 .. c : g[i] = SubSeq(s, 1, upper(i))
  OBVIOUS
<1>6. g[0] = <<>> /\ g[c] = s
  <2>1. upper(0) = 0 /\ upper(c) = Len(s)
    OBVIOUS
  <2>2. g[0] = SubSeq(s, 1, 0) /\ g[c] = SubSeq(s, 1, Len(s))
    BY <1>5, <2>1
  <2> QED
    BY <2>2, SubSeqFull, SubSeqEmpty
<1>7. \A i \in 1 .. c : g[i] = g[i - 1] \o parts[i - 1].payload
  <2> TAKE i \in 1 .. c
  <2>1. g[i] = SubSeq(s, 1, upper(i)) /\ g[i - 1] = SubSeq(s, 1, upper(i - 1))
    BY <1>5
  <2>2. parts[i - 1].payload = SubSeq(s, upper(i - 1) + 1, upper(i))
    BY <1>4
  <2>3. /\ upper(i - 1) \in 1 - 1 .. Len(s) /\ upper(i) \in upper(i - 1) .. Len(s)
        /\ 1 \in 1 .. Len(s) + 1
    BY <1>1, <1>3
  <2> HIDE DEF g, upper
  <2>4. SubSeq(s, 1, upper(i - 1)) \o SubSeq(s, upper(i - 1) + 1, upper(i)) = SubSeq(s, 1, upper(i))
    BY <2>3, ConcatAdjacentSubSeq
  <2> QED
    BY <2>1, <2>2, <2>4
<1> DEFINE piece(i) == IF i \in DOMAIN parts THEN parts[i].payload ELSE <<>>
<1>8. \A i \in 0 .. c : g[i] = IF i = 0 THEN <<>> ELSE g[i - 1] \o piece(i - 1)
  <2> TAKE i \in 0 .. c
  <2> HIDE DEF g
  <2>1. CASE i = 0
    BY <1>6, <2>1
  <2>2. CASE i \in 1 .. c
    <3>1. piece(i - 1) = parts[i - 1].payload /\ i # 0
      BY <2>2
    <3> HIDE DEF piece
    <3> QED
      BY <1>7, <2>2, <3>1
  <2> QED
    BY <2>1, <2>2
<1>9. g = [i \in 0 .. c |-> IF i = 0 THEN <<>> ELSE g[i - 1] \o piece(i - 1)]
  <2>1. g = [i \in 0 .. c |-> g[i]]
    OBVIOUS
  <2> HIDE DEF g, piece
  <2> QED
    BY <1>8, <2>1
<1>10. Cardinality(DOMAIN parts) = c
  BY FS_Interval
<1> HIDE DEF g
<1> QED
  BY <1>6, <1>9, <1>10, JoinedIs DEF piece

\* The chunks of an answer make up the answer.
LEMMA AnswerJoined ==
  ASSUME NEW n \in Calls
  PROVE  Joined(Parts(n)) = Answer(n)
<1>1. AnswerLength[n] \in Nat \ {0} /\ kMaxPayload \in Nat \ {0}
  BY ExchangeAssumption
<1>2. Answer(n) \in Seq({n} \X Nat) /\ Len(Answer(n)) = AnswerLength[n]
  BY <1>1 DEF Answer
<1>3. Answer(n) # <<>>
  BY <1>1, <1>2
<1> DEFINE chunks == Chunks(Answer(n))
<1>4. chunks \in Nat \ {0}
  BY AnswerChunks, ExchangeAssumption
<1>5. chunks = (AnswerLength[n] + kMaxPayload - 1) \div kMaxPayload
  BY <1>2, <1>3 DEF Chunks
<1>6. kMaxPayload * chunks <= AnswerLength[n] + kMaxPayload - 1
  BY <1>1, <1>5
<1>7. kMaxPayload * (chunks - 1) < Len(Answer(n))
  <2> HIDE DEF chunks
  <2>1. kMaxPayload * (chunks - 1) = kMaxPayload * chunks - kMaxPayload
    BY <1>1, <1>4
  <2>2. kMaxPayload * chunks \in Nat
    BY <1>1, <1>4
  <2> QED
    BY <1>1, <1>2, <1>6, <2>1, <2>2
<1>8. DOMAIN Parts(n) = 0 .. chunks - 1
  BY DEF Parts
<1>9. \A i \in 0 .. chunks - 1 :
        Parts(n)[i].payload = SubSeq(Answer(n), i * kMaxPayload + 1,
                                IF i + 1 = chunks THEN Len(Answer(n)) ELSE (i + 1) * kMaxPayload)
  BY DEF Parts, Part
<1> HIDE DEF chunks
<1> QED
  BY <1>1, <1>2, <1>4, <1>7, <1>8, <1>9, JoinSlices

-------------------------------------------------------------------------------
(* The calls.                                                              *)

CallsInv == TypeOK /\ (phase # "idle" => done < posted) /\ unread <= waited

LEMMA Times ==
  /\ kReadDeadline \in Nat \ {0} /\ LongestRead \in Nat /\ kReadDeadline < LongestRead
  /\ kStopWait \in Nat /\ Slack \in Nat /\ Slack = kStopWait - LongestRead
BY ExchangeAssumption, SlackAssumption DEF LongestRead, Slack

\* What the end of a call does to the record of the outcomes.
LEMMA EndsOutcome ==
  ASSUME CallsInv, done < posted, NEW result, Ends(result)
  PROVE  /\ owed' \subseteq UNION {BuildFrames(Answer(n)) : n \in Calls} => CallsInv'
         /\ done + 1 \in Calls
         /\ \A n \in Calls : outcome'[n] = IF n = done + 1 THEN result ELSE outcome[n]
<1>1. done + 1 \in Calls /\ DOMAIN outcome = Calls
  BY ExchangeAssumption DEF CallsInv, TypeOK, Calls
<1>2. /\ DOMAIN outcome' = Calls
      /\ \A n \in Calls : outcome'[n] = IF n = done + 1 THEN result ELSE outcome[n]
  BY <1>1 DEF Ends
<1>3. DOMAIN frames' = {} /\ phase' = "idle" /\ elapsed' = 0 /\ done' = done + 1
      /\ UNCHANGED <<posted, clean, stopVars>>
  BY DEF Ends
<1>4. done' \in 0 .. posted'
  BY <1>3 DEF CallsInv, TypeOK
<1>5. ASSUME owed' \subseteq UNION {BuildFrames(Answer(n)) : n \in Calls}
      PROVE  CallsInv'
  <2>1. 0 \in 0 .. LongestRead
    BY Times
  <2> QED
    BY <1>2, <1>3, <1>4, <1>5, <2>1 DEF CallsInv, TypeOK, stopVars
<1> QED
  BY <1>1, <1>2, <1>5

\* A frame the device owes, and what it does to the table of frames.
LEMMA OwedFrame ==
  ASSUME CallsInv, NEW frame \in owed
  PROVE  /\ frame.total \in 1 .. Byte - 1 /\ frame.index \in 0 .. frame.total - 1
         /\ frame.index \in 0 .. Byte - 1
<1>1. PICK n \in Calls : frame \in BuildFrames(Answer(n))
  BY DEF CallsInv, TypeOK
<1> QED
  BY <1>1, AnswerFrames, ExchangeAssumption

\* Each variable keeps to its values, and the worker reads for a call that is queued.
LEMMA CallsNext ==
  ASSUME CallsInv, [Next]_vars
  PROVE  CallsInv'
<1> USE DEF CallsInv
<1>1. CASE UNCHANGED vars
  BY <1>1 DEF vars, workerVars, stopVars, TypeOK
<1>2. CASE Post
  BY <1>2, ExchangeAssumption DEF Post, workerVars, stopVars, TypeOK
<1>3. ASSUME NEW frame \in owed, Lose(frame)
      PROVE  CallsInv'
  BY <1>3 DEF Lose, workerVars, stopVars, TypeOK
<1>4. CASE Begin
  BY <1>4 DEF Begin, stopVars, TypeOK
<1>5. ASSUME phase = "writing"
      PROVE  Asked \subseteq UNION {BuildFrames(Answer(n)) : n \in Calls}
  <2>1. done + 1 \in Calls
    BY <1>5, ExchangeAssumption DEF TypeOK, Calls
  <2> QED
    BY <2>1 DEF Asked, TypeOK
<1>12. CASE Written
  <2>1. DOMAIN frames' = {} /\ elapsed' = 0 /\ clean' \in BOOLEAN
    BY <1>12 DEF Written
  <2>2. owed' \subseteq UNION {BuildFrames(Answer(n)) : n \in Calls} /\ done < posted
    BY <1>5, <1>12 DEF Written
  <2> QED
    BY <1>12, <2>1, <2>2, Times DEF Written, stopVars, TypeOK
<1>13. CASE CannotWrite
  <2>1. owed' \subseteq UNION {BuildFrames(Answer(n)) : n \in Calls} /\ done < posted
    BY <1>5, <1>13 DEF CannotWrite, TypeOK
  <2> QED
    BY <1>13, <2>1, EndsOutcome DEF CannotWrite
<1>6. CASE Deadline
  BY <1>6, EndsOutcome DEF Deadline, TypeOK
<1>7. ASSUME NEW frame \in owed, ReadFrame(frame)
      PROVE  CallsInv'
  <2>1. owed' \subseteq UNION {BuildFrames(Answer(n)) : n \in Calls} /\ done < posted
    BY <1>7 DEF ReadFrame, TypeOK
  <2>2. ASSUME NEW result, Ends(result)
        PROVE  CallsInv'
    BY <2>1, <2>2, EndsOutcome
  <2>3. CASE Keep(frame)
    <3>1. DOMAIN frames' \subseteq 0 .. Byte - 1
      BY <2>3, OwedFrame DEF Keep, Insert, TypeOK
    <3> QED
      BY <2>1, <2>3, <3>1 DEF Keep, TypeOK, stopVars
  <2> QED
    BY <1>7, <2>2, <2>3 DEF ReadFrame
<1>8. ASSUME NEW frame \in owed, ReadGarbage(frame)
      PROVE  CallsInv'
  BY <1>8, EndsOutcome DEF ReadGarbage, TypeOK
<1>9. CASE Stop
  <2>1. behind' \in 0 .. MaxCalls
    BY <1>9, ExchangeAssumption DEF Stop, TypeOK
  <2> QED
    BY <1>9, <2>1 DEF Stop, workerVars, TypeOK
<1>10. ASSUME LeaveEventLoop \/ DeleteWorker
       PROVE  CallsInv'
  <2>1. UNCHANGED <<posted, owed, workerVars, waited, behind, unread>>
    BY <1>10 DEF LeaveEventLoop, DeleteWorker
  <2>2. app' \in {"running", "stopping", "deleted"} /\ exited' \in BOOLEAN
    BY <1>10 DEF LeaveEventLoop, DeleteWorker, TypeOK
  <2> QED
    BY <2>1, <2>2 DEF workerVars, TypeOK
<1>11. CASE Tick
  <2>1. elapsed' \in 0 .. LongestRead /\ waited' \in 0 .. kStopWait
    BY <1>11, Times DEF Tick, TypeOK
  <2>2. unread' \in 0 .. kStopWait /\ unread' <= waited'
    BY <1>11, <2>1, Times DEF Tick, TypeOK
  <2> QED
    BY <1>11, <2>1, <2>2 DEF Tick, TypeOK
<1> QED
  BY <1>1, <1>2, <1>3, <1>4, <1>6, <1>7, <1>8, <1>9, <1>10, <1>11, <1>12, <1>13
     DEF Next, Device, Worker

LEMMA CallsInit == Init => CallsInv
<1> SUFFICES ASSUME Init
             PROVE  CallsInv
  OBVIOUS
<1>1. posted \in 0 .. MaxCalls /\ done \in 0 .. posted /\ behind \in 0 .. MaxCalls
  BY ExchangeAssumption DEF Init
<1>2. /\ elapsed \in 0 .. LongestRead /\ waited \in 0 .. kStopWait
      /\ unread \in 0 .. kStopWait /\ unread <= waited
  BY Times DEF Init
<1>3. DOMAIN frames = {} /\ owed = {} /\ DOMAIN outcome = Calls
  BY DEF Init
<1> QED
  BY <1>1, <1>2, <1>3 DEF Init, CallsInv, TypeOK

LEMMA CallsCorrect == Spec => []CallsInv
BY CallsInit, CallsNext, PTL DEF Spec

\* UsbExchange: every variable keeps to its values, for every number of calls, answer
\* lengths, and frame size; in particular no frame is numbered beyond what a byte holds.
THEOREM TypeCorrect == Spec => []TypeOK
<1>1. CallsInv => TypeOK
  BY DEF CallsInv
<1> QED
  BY <1>1, CallsCorrect, PTL

-------------------------------------------------------------------------------
(* The frames of one exchange.                                             *)

\* The frames it has are numbered as their index says, and agree on their number.
FramesInv ==
  \A i \in DOMAIN frames :
    /\ frames[i].index = i /\ i \in 0 .. frames[i].total - 1
    /\ frames[i].total \in Nat
    /\ \A j \in DOMAIN frames : frames[j].total = frames[i].total

\* An exchange that found nothing left over has only frames of its own answer.
OwnInv ==
  phase = "reading" /\ clean =>
    owed \cup {frames[i] : i \in DOMAIN frames} \subseteq BuildFrames(Answer(done + 1))

\* An exchange that began with nothing left over is answered by exactly the frames of its
\* own answer.
FramesAreOwn ==
  \A n \in Calls : Decoded(n) /\ outcome[n].clean => outcome[n].frames = Parts(n)

ExchangeInv == FramesInv /\ OwnInv /\ AnswersAreComplete /\ FramesAreOwn

\* The table with one frame more.
LEMMA InsertFrame ==
  ASSUME CallsInv, FramesInv, NEW frame \in owed, Agreeing(frame)
  PROVE  /\ DOMAIN Insert(frame) = DOMAIN frames \cup {frame.index}
         /\ \A i \in DOMAIN Insert(frame) :
              /\ Insert(frame)[i] = IF i = frame.index THEN frame ELSE frames[i]
              /\ Insert(frame)[i].index = i /\ i \in 0 .. frame.total - 1
              /\ Insert(frame)[i].total = frame.total
BY OwedFrame DEF Insert, Agreeing, FramesInv

\* As many frames as they say there are: none is missing.
LEMMA CompleteFrames ==
  ASSUME CallsInv, FramesInv, NEW frame \in owed, Agreeing(frame),
         Complete(Insert(frame), frame)
  PROVE  DOMAIN Insert(frame) = 0 .. frame.total - 1
<1> DEFINE all == 0 .. frame.total - 1
           have == DOMAIN Insert(frame)
<1>1. frame.total \in Nat \ {0}
  BY OwedFrame, ExchangeAssumption
<1>2. IsFiniteSet(all) /\ Cardinality(all) = frame.total
  <2> DEFINE last == frame.total - 1
  <2>1. last \in Int /\ 0 <= last /\ last - 0 + 1 = frame.total
    BY <1>1
  <2> HIDE DEF last
  <2>2. IsFiniteSet(0 .. last) /\ Cardinality(0 .. last) = last - 0 + 1
    BY <2>1, FS_Interval
  <2> QED
    BY <2>1, <2>2 DEF last
<1>3. have \in SUBSET all
  BY InsertFrame
<1>4. Cardinality(have) >= frame.total
  BY DEF Complete
<1> HIDE DEF all, have
<1>5. Cardinality(have) <= Cardinality(all) /\ Cardinality(have) \in Nat
  BY <1>2, <1>3, FS_Subset, FS_CardinalityType
<1>6. Cardinality(have) = Cardinality(all)
  BY <1>1, <1>2, <1>4, <1>5
<1> QED
  BY <1>2, <1>3, <1>6, FS_Subset DEF all, have

\* A call that ends leaves no frames behind; its outcome may be a failure, or an answer
\* that is complete and, if nothing was left over, its own.
LEMMA EndsInv ==
  ASSUME CallsInv, ExchangeInv, done < posted, NEW result, Ends(result),
         result.status = "decoded" =>
           /\ \A i \in DOMAIN result.frames :
                DOMAIN result.frames = 0 .. result.frames[i].total - 1
           /\ result.clean => result.frames = Parts(done + 1)
  PROVE  ExchangeInv'
<1>1. DOMAIN frames' = {} /\ phase' = "idle"
  BY DEF Ends
<1>2. \A n \in Calls : outcome'[n] = IF n = done + 1 THEN result ELSE outcome[n]
  BY EndsOutcome
<1>3. FramesInv' /\ OwnInv'
  BY <1>1 DEF FramesInv, OwnInv
<1>4. ASSUME NEW n \in Calls, Decoded(n)'
      PROVE  /\ \A i \in DOMAIN outcome'[n].frames :
                  DOMAIN outcome'[n].frames = 0 .. outcome'[n].frames[i].total - 1
             /\ outcome'[n].clean => outcome'[n].frames = Parts(n)
  <2>1. CASE n = done + 1
    BY <1>2, <1>4, <2>1 DEF Decoded
  <2>2. CASE n # done + 1
    BY <1>2, <1>4, <2>2 DEF Decoded, ExchangeInv, AnswersAreComplete, FramesAreOwn
  <2> QED
    BY <2>1, <2>2
<1> QED
  BY <1>3, <1>4 DEF ExchangeInv, AnswersAreComplete, FramesAreOwn

LEMMA FailsInv ==
  ASSUME CallsInv, ExchangeInv, done < posted, Ends(Failure)
  PROVE  ExchangeInv'
<1>1. Failure.status # "decoded"
  BY DEF Failure, Waiting
<1> QED
  BY <1>1, EndsInv

\* A step that leaves the outcomes alone, and brings no frame that is not the call's.
LEMMA RestInv ==
  ASSUME ExchangeInv, UNCHANGED <<outcome, frames, phase, clean, done>>, owed' \subseteq owed
  PROVE  ExchangeInv'
BY DEF ExchangeInv, FramesInv, OwnInv, AnswersAreComplete, FramesAreOwn, Decoded

\* readResponse takes a frame.
LEMMA ReadInv ==
  ASSUME CallsInv, ExchangeInv, NEW frame \in owed, ReadFrame(frame)
  PROVE  ExchangeInv'
<1> DEFINE table == Insert(frame)
<1>1. done < posted /\ phase = "reading" /\ owed' = owed \ {frame}
  BY DEF ReadFrame, CallsInv
<1>2. FramesInv /\ OwnInv
  BY DEF ExchangeInv
<1>3. ASSUME Agreeing(frame), clean
      PROVE  {table[i] : i \in DOMAIN table} \subseteq BuildFrames(Answer(done + 1))
  <2> SUFFICES ASSUME NEW i \in DOMAIN table
               PROVE  table[i] \in BuildFrames(Answer(done + 1))
    OBVIOUS
  <2>1. table[i] = IF i = frame.index THEN frame ELSE frames[i]
    BY DEF Insert
  <2>2. i = frame.index \/ i \in DOMAIN frames
    BY DEF Insert
  <2> QED
    BY <1>1, <1>2, <1>3, <2>1, <2>2 DEF OwnInv
<1>4. CASE Ends(Failure)
  BY <1>1, <1>4, FailsInv
<1>5. CASE Agreeing(frame) /\ frames' = table /\ UNCHANGED <<done, phase, outcome, clean>>
  <2>1. \A i \in DOMAIN table : /\ table[i].index = i /\ i \in 0 .. frame.total - 1
                                /\ table[i].total = frame.total
    BY <1>2, <1>5, InsertFrame
  <2>2. frame.total \in Nat
    BY OwedFrame, ExchangeAssumption
  <2> HIDE DEF table
  <2>3. FramesInv'
    BY <1>5, <2>1, <2>2 DEF FramesInv
  <2>4. OwnInv'
    BY <1>1, <1>2, <1>3, <1>5 DEF OwnInv
  <2> QED
    BY <1>5, <2>3, <2>4 DEF ExchangeInv, AnswersAreComplete, FramesAreOwn, Decoded
<1>6. CASE Agreeing(frame) /\ Complete(table, frame) /\ Ends(Success(table))
  <2>1. DOMAIN table = 0 .. frame.total - 1
    BY <1>2, <1>6, CompleteFrames
  <2>2. \A i \in DOMAIN table : table[i].index = i /\ table[i].total = frame.total
    BY <1>2, <1>6, InsertFrame
  <2>3. ASSUME clean
        PROVE  table = Parts(done + 1)
    <3>1. done + 1 \in Calls
      BY <1>1, <1>6, EndsOutcome
    <3>2. frame \in BuildFrames(Answer(done + 1))
      BY <1>1, <1>2, <2>3 DEF OwnInv
    <3>3. frame.total = Chunks(Answer(done + 1))
      BY <3>1, <3>2, AnswerFrames
    <3>4. \A i \in DOMAIN table : table[i] = Part(done + 1, i)
      <4> SUFFICES ASSUME NEW i \in DOMAIN table
                   PROVE  table[i] = Part(done + 1, i)
        OBVIOUS
      <4>1. table[i] \in BuildFrames(Answer(done + 1))
        BY <1>3, <1>6, <2>3
      <4>2. table[i] = Part(done + 1, table[i].index)
        BY <3>1, <4>1, AnswerFrames
      <4> QED
        BY <2>2, <4>2
    <3>5. table = [i \in DOMAIN table |-> table[i]]
      BY DEF Insert
    <3> HIDE DEF table
    <3> QED
      BY <2>1, <3>3, <3>4, <3>5 DEF Parts
  <2>4. /\ Success(table).status = "decoded" /\ Success(table).clean = clean
        /\ Success(table).frames = table
    BY DEF Success
  <2> HIDE DEF table
  <2> QED
    BY <1>1, <1>6, <2>1, <2>2, <2>3, <2>4, EndsInv
<1> QED
  BY <1>4, <1>5, <1>6 DEF ReadFrame, Keep

LEMMA ExchangeNext ==
  ASSUME CallsInv, ExchangeInv, [Next]_vars
  PROVE  ExchangeInv'
<1>1. phase # "idle" => done < posted
  BY DEF CallsInv
<1>2. CASE UNCHANGED vars \/ Post \/ Device \/ Stop \/ LeaveEventLoop \/ DeleteWorker \/ Tick
  <2>1. UNCHANGED <<outcome, frames, phase, clean, done>> /\ owed' \subseteq owed
    BY <1>2 DEF vars, workerVars, stopVars, Post, Device, Lose, Stop, LeaveEventLoop,
                DeleteWorker, Tick
  <2> QED
    BY <2>1, RestInv
<1>3. CASE Begin
  BY <1>3 DEF Begin, ExchangeInv, FramesInv, OwnInv, AnswersAreComplete, FramesAreOwn, Decoded
<1>4. CASE Written
  <2>1. DOMAIN frames' = {} /\ UNCHANGED <<done, outcome>>
    BY <1>4 DEF Written
  <2>2. clean' => owed' = BuildFrames(Answer(done + 1))
    BY <1>4 DEF Written, Asked
  <2>3. FramesInv' /\ OwnInv'
    BY <2>1, <2>2 DEF FramesInv, OwnInv
  <2> QED
    BY <2>1, <2>3 DEF ExchangeInv, AnswersAreComplete, FramesAreOwn, Decoded
<1>5. CASE CannotWrite \/ Deadline \/ \E frame \in owed : ReadGarbage(frame)
  BY <1>1, <1>5, FailsInv DEF CannotWrite, Deadline, ReadGarbage
<1> QED
  BY <1>2, <1>3, <1>4, <1>5, ReadInv DEF Next, Worker

LEMMA ExchangeInit == Init => ExchangeInv
BY DEF Init, Waiting, ExchangeInv, FramesInv, OwnInv, AnswersAreComplete, FramesAreOwn, Decoded

LEMMA ExchangeCorrect == Spec => []ExchangeInv
BY ExchangeInit, ExchangeNext, CallsCorrect, PTL DEF Spec

\* readResponse: whatever an earlier exchange left behind, an answer is put together from
\* frames that agree on their number, and none of them is missing.
THEOREM AnswersCorrect == Spec => []AnswersAreComplete
<1>1. ExchangeInv => AnswersAreComplete
  BY DEF ExchangeInv
<1> QED
  BY <1>1, ExchangeCorrect, PTL

\* readResponse: in whatever order frames come, and whatever is lost, an exchange that
\* began with nothing left over is decoded from each frame of its own answer, at its place.
THEOREM OwnFramesCorrect == Spec => []FramesAreOwn
<1>1. ExchangeInv => FramesAreOwn
  BY DEF ExchangeInv
<1> QED
  BY <1>1, ExchangeCorrect, PTL

\* readResponse, buildFrames: such an exchange delivers the answer to its own call, whole
\* and in order, whatever its length.
THEOREM OwnAnswersCorrect == Spec => []AnswersOwnCall
<1>1. FramesAreOwn => AnswersOwnCall
  BY AnswerJoined DEF FramesAreOwn, AnswersOwnCall
<1> QED
  BY <1>1, OwnFramesCorrect, PTL

-------------------------------------------------------------------------------
(* stop().                                                                 *)

\* While QThread::wait waits, with one call under way at most, the wait has lasted no longer
\* than the call has been read and has not been read; and once time is up nothing begins.
StopInv ==
  /\ app = "running" => waited = 0 /\ ~exited
  /\ exited => phase = "idle"
  /\ phase # "reading" => elapsed = 0
  /\ behind <= 1 /\ app = "stopping" =>
       /\ posted - done <= behind
       /\ done < posted => waited <= unread + elapsed
  /\ behind <= 1 /\ unread < Slack /\ app = "deleted" => phase = "idle"

LEMMA StopNext ==
  ASSUME CallsInv, CallsInv', StopInv, [Next]_vars
  PROVE  StopInv'
<1>1. /\ posted \in Int /\ done \in Int /\ behind \in Int /\ waited \in 0 .. kStopWait
      /\ unread \in Nat /\ elapsed \in 0 .. LongestRead /\ done <= posted
      /\ phase \in {"idle", "writing", "reading"} /\ exited \in BOOLEAN
      /\ phase # "idle" => done < posted
      /\ app \in {"running", "stopping", "deleted"}
  BY ExchangeAssumption DEF CallsInv, TypeOK
<1>2. CASE UNCHANGED vars \/ Device
  <2>1. UNCHANGED <<posted, done, phase, elapsed, app, waited, exited, behind, unread>>
    BY <1>2 DEF vars, workerVars, stopVars, Device, Lose
  <2> QED
    BY <2>1 DEF StopInv
<1>3. CASE Post
  BY <1>1, <1>3 DEF Post, workerVars, stopVars, StopInv
<1>4. CASE Begin \/ Written
  BY <1>1, <1>4 DEF Begin, Written, Alive, stopVars, StopInv
<1>5. ASSUME Alive, NEW result, Ends(result), done < posted
      PROVE  StopInv'
  BY <1>1, <1>5 DEF Ends, Alive, stopVars, StopInv
<1>6. CASE CannotWrite \/ Deadline
  BY <1>1, <1>5, <1>6 DEF CannotWrite, Deadline
<1>7. ASSUME NEW frame \in owed, ReadFrame(frame) \/ ReadGarbage(frame)
      PROVE  StopInv'
  <2>1. CASE Keep(frame)
    BY <2>1 DEF Keep, stopVars, StopInv
  <2>2. Alive /\ done < posted
    BY <1>1, <1>7 DEF ReadFrame, ReadGarbage
  <2> QED
    BY <1>5, <1>7, <2>1, <2>2 DEF ReadFrame, ReadGarbage
<1>8. CASE Stop
  BY <1>1, <1>8 DEF Stop, workerVars, StopInv
<1>9. CASE LeaveEventLoop
  BY <1>1, <1>9 DEF LeaveEventLoop, workerVars, StopInv
<1>10. CASE DeleteWorker
  BY <1>1, <1>10, Times DEF DeleteWorker, workerVars, StopInv
<1>11. CASE Tick
  BY <1>1, <1>11 DEF Tick, StopInv, Alive
<1> QED
  BY <1>2, <1>3, <1>4, <1>6, <1>7, <1>8, <1>9, <1>10, <1>11 DEF Next, Worker

LEMMA StopInit == Init => StopInv
BY DEF Init, StopInv

\* stop(): with no more than one call under way when the application quits, the worker is
\* deleted inside it only if opening, writing and getting to it have used up what the wait
\* leaves beyond the longest read: 400 of its 2500 ms.
THEOREM StopCorrect == Spec => []OneCallOutlived
<1>1. StopInv => OneCallOutlived
  BY DEF StopInv, OneCallOutlived, DeletedAtRest
<1> QED
  BY <1>1, StopInit, StopNext, CallsCorrect, PTL DEF Spec

===============================================================================
