-------------------------------- MODULE Outbox --------------------------------
(***************************************************************************)
(* What the debounce and coalescing part of src/src/lightmanager.cpp       *)
(* promises: an outbox with room for one message per light.  While a       *)
(* message is on the wire, any number of requests to send become one; when *)
(* it has been delivered, what follows it is the light's state as it is    *)
(* then, and not as it was when sending was asked for.  A message that     *)
(* fails takes the waiting request along.                                  *)
(*                                                                         *)
(* There are no transports, no queues, no users and no timers here.        *)
(***************************************************************************)
EXTENDS KeyLight

VARIABLES
  wish,   \* id -> the state to be sent, None while it is unknown
  wire,   \* id -> the bodies of the PUTs on the wire
  due     \* the ids to be sent again once that PUT is delivered

box == <<wish, wire, due>>

Init ==
  /\ wish = [id \in Ids |-> None]
  /\ wire = [id \in Ids |-> {}]
  /\ due = {}

-------------------------------------------------------------------------------
(* What may become of one light in a step in which its state may change.   *)

Message(id) == {BuildLightsBody(state) : state \in {wish'[id]} \ {None}}

Idle(id) == wire'[id] = {} /\ id \notin due'

Keep(id) == wire'[id] = wire[id] /\ (id \in due' <=> id \in due)

Send(id) ==
  /\ wire[id] = {} /\ wish'[id] # None
  /\ wire'[id] = Message(id) /\ id \notin due'

Postpone(id) ==
  /\ wire[id] # {} /\ wish'[id] # None
  /\ wire'[id] = wire[id] /\ id \in due'

Delivered(id) ==
  /\ wire[id] # {}
  /\ wire'[id] = IF id \in due THEN Message(id) ELSE {}
  /\ id \notin due'

Fail(id) == wire[id] # {} /\ Idle(id)

Next ==
  \A id \in Ids : Keep(id) \/ Send(id) \/ Postpone(id) \/ Delivered(id) \/ Fail(id)

Spec == Init /\ [][Next]_box

===============================================================================
