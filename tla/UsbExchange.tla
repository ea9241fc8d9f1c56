----------------------------- MODULE UsbExchange -----------------------------
(***************************************************************************)
(* src/src/usbneo.cpp below the level of UsbNeoWorker: one exchange frame  *)
(* by frame, against a device whose answers come slowly, incompletely, or  *)
(* after the worker has given up on them; and LightManager::stop(), which  *)
(* waits for the worker only so long.                                      *)
(*                                                                         *)
(* Calls are numbered in the order they are queued.  A byte is a pair of   *)
(* the call it belongs to and its position, so that no two answers share   *)
(* one.  Time passes in steps of the unit the three constants are given    *)
(* in; the code bounds the time a worker spends in readResponse, and       *)
(* nothing bounds that of opening a device and writing to it.              *)
(* For stop() a scan is a call that ends before it reads.                  *)
(***************************************************************************)
EXTENDS Integers, Sequences, FiniteSets

CONSTANTS
  MaxCalls,      \* a bound: calls queued in one run of the application
  AnswerLength,  \* the length of the device's answer to each call
  kMaxPayload,   \* bytes per frame
  Byte,          \* the values of one byte, 256 in the code
  kReadDeadline, kReadTimeout, kStopWait  \* 2000, 100 and 2500 ms in the code

Calls == 1 .. MaxCalls
Answer(n) == [i \in 1 .. AnswerLength[n] |-> <<n, i>>]

ASSUME ExchangeAssumption ==
  /\ MaxCalls \in Nat /\ kMaxPayload \in Nat \ {0} /\ Byte \in Nat \ {0}
  /\ AnswerLength \in [Calls -> Nat \ {0}]
  /\ \A n \in Calls : AnswerLength[n] <= kMaxPayload * (Byte - 1)
  /\ kReadDeadline \in Nat \ {0} /\ kReadTimeout \in Nat \ {0} /\ kStopWait \in Nat

\* Reading that starts before the deadline ends no later than this, and what stop()
\* leaves for all the rest of an exchange.
LongestRead == kReadDeadline + kReadTimeout
Slack == kStopWait - LongestRead

ASSUME SlackAssumption == Slack > 0

VARIABLES
  posted,    \* the calls queued so far,
  done,      \* and those of them that have ended
  phase,     \* the worker is "idle", or in call done + 1: "writing", which
             \* includes opening the device, or "reading", in readResponse
  elapsed,   \* QElapsedTimer of readResponse
  frames,    \* the frames it has, by their index
  owed,      \* the frames the device has yet to send
  outcome,   \* what became of each call, and the frames its answer was decoded from
  app,       \* "running", "stopping" in QThread::wait, or "deleted": the worker is
  waited,    \* how long QThread::wait has taken
  exited,    \* the thread has left its event loop
  clean,     \* history: did the device owe nothing when this reading began?
  behind,    \* history: calls not yet ended when stop() was called
  unread     \* history: how much of the wait a call was due, and not being read

workerVars == <<done, phase, elapsed, frames, outcome, clean>>
stopVars == <<app, waited, exited, behind, unread>>
vars == <<posted, owed, workerVars, stopVars>>

Waiting == [status |-> "waiting", clean |-> TRUE, frames |-> <<>>]
Failure == [Waiting EXCEPT !.status = "failed"]
Success(parts) == [status |-> "decoded", clean |-> clean, frames |-> parts]

-------------------------------------------------------------------------------
(* The frames: as the code builds them, and as the device does.            *)

\* The chunks start at 0, kMaxPayload, 2 * kMaxPayload, ...; there is at least one.
Chunks(payload) ==
  IF payload = <<>> THEN 1 ELSE (Len(payload) + kMaxPayload - 1) \div kMaxPayload

BuildFrames(payload) ==
  {[index |-> (i - 1) % Byte, total |-> Chunks(payload) % Byte,
    payload |-> SubSeq(payload, (i - 1) * kMaxPayload + 1,
                       IF i = Chunks(payload) THEN Len(payload) ELSE i * kMaxPayload)] :
     i \in 1 .. Chunks(payload)}

ParsedOk(frame) == frame.total > 0 /\ frame.index < frame.total

\* The end of readResponse: the payloads, by index.
Joined(parts) ==
  LET upTo[i \in 0 .. Cardinality(DOMAIN parts)] ==
        IF i = 0 THEN <<>>
        ELSE upTo[i - 1] \o IF i - 1 \in DOMAIN parts THEN parts[i - 1].payload ELSE <<>>
  IN  upTo[Cardinality(DOMAIN parts)]

\* A whole answer decodes; parts of several may happen to.
Decodes(parts) ==
  IF \E n \in Calls : Joined(parts) = Answer(n) THEN {TRUE} ELSE BOOLEAN

-------------------------------------------------------------------------------
TypeOK ==
  /\ posted \in 0 .. MaxCalls /\ done \in 0 .. posted
  /\ phase \in {"idle", "writing", "reading"} /\ clean \in BOOLEAN /\ exited \in BOOLEAN
  /\ elapsed \in 0 .. LongestRead /\ waited \in 0 .. kStopWait /\ unread \in 0 .. kStopWait
  /\ DOMAIN frames \subseteq 0 .. Byte - 1
  /\ owed \subseteq UNION {BuildFrames(Answer(n)) : n \in Calls}
  /\ DOMAIN outcome = Calls
  /\ app \in {"running", "stopping", "deleted"}
  /\ behind \in 0 .. MaxCalls

Init ==
  /\ posted = 0 /\ done = 0 /\ phase = "idle" /\ elapsed = 0
  /\ frames = <<>> /\ owed = {} /\ outcome = [n \in Calls |-> Waiting]
  /\ app = "running" /\ waited = 0 /\ exited = FALSE
  /\ clean = TRUE /\ behind = 0 /\ unread = 0

\* A slot of the worker was called: the main thread never waits for it.
Post ==
  /\ app = "running" /\ posted < MaxCalls
  /\ posted' = posted + 1
  /\ UNCHANGED <<owed, workerVars, stopVars>>

-------------------------------------------------------------------------------
(* The worker.                                                             *)

Alive == app # "deleted" /\ ~exited

\* Mutant: a call that failed also reports success.
EndsTwice(result) ==
  /\ done' = done + IF result = Failure THEN 2 ELSE 1
  /\ outcome' = [outcome EXCEPT ![done + 1] = result]
  /\ phase' = "idle" /\ elapsed' = 0 /\ frames' = <<>>
  /\ UNCHANGED <<posted, clean, stopVars>>
\* hid_close, and the result is emitted.
Ends(result) ==
  /\ done' = done + 1
  /\ outcome' = [outcome EXCEPT ![done + 1] = result]
  /\ phase' = "idle" /\ elapsed' = 0 /\ frames' = <<>>
  /\ UNCHANGED <<posted, clean, stopVars>>

\* The next call leaves the queue; hid_open_path is called.
Begin ==
  /\ Alive /\ phase = "idle" /\ done < posted
  /\ phase' = "writing"
  /\ UNCHANGED <<posted, owed, done, elapsed, frames, outcome, clean, stopVars>>

Asked == owed \cup BuildFrames(Answer(done + 1))

\* The last hid_write returns: the device has the request, and readResponse begins.
Written ==
  /\ Alive /\ phase = "writing"
  /\ phase' = "reading" /\ elapsed' = 0 /\ frames' = <<>>
  /\ clean' = (owed = {})
  /\ owed' = Asked
  /\ UNCHANGED <<posted, done, outcome, stopVars>>

\* hid_open_path fails, or a hid_write, after which the device may have the request yet.
CannotWrite ==
  /\ Alive /\ phase = "writing"
  /\ Ends(Failure)
  /\ owed' \in {owed, Asked}

\* Mutant: the total of later frames is not compared.
AgreeingAlways(frame) == ParsedOk(frame)
Agreeing(frame) ==
  ParsedOk(frame) /\ \A i \in DOMAIN frames : frames[i].total = frame.total

\* Mutant: the frames are kept in the order they come in.
InsertLast(frame) ==
  [i \in 0 .. Cardinality(DOMAIN frames) |-> IF i \in DOMAIN frames THEN frames[i] ELSE frame]
Insert(frame) ==
  [i \in DOMAIN frames \cup {frame.index} |-> IF i = frame.index THEN frame ELSE frames[i]]

Complete(parts, frame) == Cardinality(DOMAIN parts) >= frame.total

\* Mutant: every frame starts the deadline anew.
KeepStartingAnew(frame) ==
  /\ frames' = Insert(frame) /\ elapsed' = 0
  /\ UNCHANGED <<posted, done, phase, outcome, clean, stopVars>>
Keep(frame) ==
  /\ frames' = Insert(frame)
  /\ UNCHANGED <<posted, done, phase, elapsed, outcome, clean, stopVars>>

\* hid_read_timeout returns a frame, perhaps after the deadline, if it was called before;
\* the loop then ends, complete or not.  The device sends frames in any order.
ReadFrame(frame) ==
  /\ Alive /\ phase = "reading" /\ frame \in owed
  /\ owed' = owed \ {frame}
  /\ \/ /\ ~Agreeing(frame)
        /\ Ends(Failure)
     \/ /\ Agreeing(frame) /\ ~Complete(Insert(frame), frame)
        /\ IF elapsed < kReadDeadline THEN Keep(frame) ELSE Ends(Failure)
     \/ /\ Agreeing(frame) /\ Complete(Insert(frame), frame)
        /\ \E decoded \in Decodes(Insert(frame)) :
             Ends(IF decoded THEN Success(Insert(frame)) ELSE Failure)

\* A frame that arrives truncated or without its magic byte.
ReadGarbage(frame) ==
  /\ Alive /\ phase = "reading" /\ frame \in owed
  /\ owed' = owed \ {frame}
  /\ Ends(Failure)

\* Mutant: the deadline counts only once a frame has come.
DeadlineAfterFrame ==
  /\ Alive /\ phase = "reading" /\ elapsed >= kReadDeadline /\ frames # <<>>
  /\ Ends(Failure)
  /\ UNCHANGED owed
\* The last hid_read_timeout returns nothing.
Deadline ==
  /\ Alive /\ phase = "reading" /\ elapsed >= kReadDeadline
  /\ Ends(Failure)
  /\ UNCHANGED owed

\* A report that is lost on the way, or comes while nobody has the device open.
Lose(frame) ==
  /\ frame \in owed
  /\ owed' = owed \ {frame}
  /\ UNCHANGED <<posted, workerVars, stopVars>>

-------------------------------------------------------------------------------
(* LightManager::stop(), on the main thread.                               *)

Stop ==
  /\ app = "running"
  /\ app' = "stopping" /\ behind' = posted - done
  /\ UNCHANGED <<posted, owed, workerVars, waited, exited, unread>>

\* QThread::quit is looked at between two rounds of posted events, and what is
\* queued then may all belong to the present round.
LeaveEventLoop ==
  /\ app = "stopping" /\ ~exited /\ phase = "idle"
  /\ exited' = TRUE
  /\ UNCHANGED <<posted, owed, workerVars, app, waited, behind, unread>>

\* wait() returns, with or without success, and the worker is deleted.
DeleteWorker ==
  /\ app = "stopping" /\ (exited \/ waited = kStopWait)
  /\ app' = "deleted"
  /\ UNCHANGED <<posted, owed, workerVars, waited, exited, behind, unread>>

\* One unit of time passes, but not beyond the end of a read or of the wait.  The worker
\* may take any time to take up a call, to open the device and to write.
Tick ==
  /\ Alive
  /\ phase = "reading" => elapsed < LongestRead
  /\ app = "stopping" => waited < kStopWait
  /\ elapsed' = IF phase = "reading" THEN elapsed + 1 ELSE elapsed
  /\ waited' = IF app = "stopping" THEN waited + 1 ELSE waited
  /\ unread' = IF app = "stopping" /\ phase # "reading" /\ done < posted
               THEN unread + 1 ELSE unread
  /\ UNCHANGED <<posted, owed, done, phase, frames, outcome, clean, app, exited, behind>>

-------------------------------------------------------------------------------
Device == \E f \in owed : Lose(f)

Worker ==
  \/ Begin \/ Written \/ CannotWrite \/ Deadline
  \/ \E f \in owed : ReadFrame(f) \/ ReadGarbage(f)

Next == Post \/ Device \/ Worker \/ Stop \/ LeaveEventLoop \/ DeleteWorker \/ Tick

(***************************************************************************)
(* Time passes and the threads run; opening and writing end at some time.  *)
(* Nothing is assumed of what the device answers.                          *)
(***************************************************************************)
Fairness ==
  /\ WF_vars(Tick) /\ WF_vars(Begin) /\ WF_vars(Written \/ CannotWrite) /\ WF_vars(Deadline)
  /\ WF_vars(LeaveEventLoop) /\ WF_vars(DeleteWorker)

Spec == Init /\ [][Next]_vars /\ Fairness

-------------------------------------------------------------------------------
(* Properties.                                                             *)

Decoded(n) == outcome[n].status = "decoded"

\* readResponse, buildFrames: an exchange that began to read with nothing left over from
\* an earlier one delivers the answer to its own call, whole and in order, in
\* whatever order its frames came.
AnswersOwnCall ==
  \A n \in Calls : Decoded(n) /\ outcome[n].clean => Joined(outcome[n].frames) = Answer(n)

\* readResponse: whatever was left over, an answer is put together from frames
\* that agree on their number, and none of them is missing.
AnswersAreComplete ==
  \A n \in Calls : Decoded(n) =>
    LET parts == outcome[n].frames
    IN  \A i \in DOMAIN parts : DOMAIN parts = 0 .. parts[i].total - 1

\* kReadDeadlineMs: a device that takes its requests and is silent, or answers in part,
\* does not hold up the calls behind it.
EveryCallEnds == \A n \in Calls : posted >= n ~> done >= n \/ app # "running"

\* stop(): with no more than one call under way, the worker is deleted inside it only if
\* opening, writing and getting to it have used up what the wait leaves beyond a read.
DeletedAtRest == app = "deleted" => phase = "idle"
OneCallOutlived == behind <= 1 /\ unread < Slack => DeletedAtRest

\* stop(): what its comment takes for granted, of devices that are opened and written to
\* in no time: the worker is at rest when it is deleted.
QuickCallsOutlived == unread = 0 => DeletedAtRest

==============================================================================
