----------------------------- MODULE UsbNeoWorker -----------------------------
(***************************************************************************)
(* src/src/usbneo.cpp: the worker on the USB thread.  Queued signals carry *)
(* calls to it and its results back, each queue in order.  The worker      *)
(* handles one call at a time; an exchange is one step here, since nobody  *)
(* else talks to the device while the worker holds it open, except that a  *)
(* PUT whose answer is lost may or may not have been obeyed.               *)
(***************************************************************************)
EXTENDS Hardware, Sequences

VARIABLES
  usbIn,   \* usbEnumerateRequested, usbProbeRequested, usbRequestRequested
  usbOut   \* enumerated, infoReady, infoFailed, requestDone, requestFailed

usbVars == <<usbIn, usbOut>>

EnumerateCall ==
  [op |-> "enumerate", id |-> None, path |-> None, kind |-> "Info", body |-> None]
ProbeCall(path) == [EnumerateCall EXCEPT !.op = "probe", !.path = path]
RequestCall(id, path, kind, body) ==
  [op |-> "request", id |-> id, path |-> path, kind |-> kind, body |-> body]

\* A request can carry an empty path: that of a light that was unplugged.
LightCall ==
  [op : {"request"}, id : Ids, path : UsbPaths \cup {None}, kind : {"State"}, body : {None}]
    \cup
  [op : {"request"}, id : Ids, path : UsbPaths \cup {None}, kind : {"Put"}, body : LightState]

Probe == [op : {"probe"}, id : {None}, path : UsbPaths, kind : {"Info"}, body : {None}]

UsbCall == {EnumerateCall} \cup Probe \cup LightCall

\* A result keeps the call it answers; paths, info and data are the arguments
\* of enumerated, infoReady and requestDone.
UsbResult ==
  [signal : {"enumerated"}, call : {EnumerateCall}, paths : SUBSET UsbPaths,
   info : {None}, data : {None}] \cup
  [signal : {"infoReady"}, call : Probe, paths : {{}}, info : Info, data : {None}] \cup
  [signal : {"infoFailed"}, call : Probe, paths : {{}}, info : {None}, data : {None}] \cup
  [signal : {"requestDone"}, call : LightCall, paths : {{}}, info : {None},
   data : LightState \cup {None}] \cup
  [signal : {"requestFailed"}, call : LightCall, paths : {{}}, info : {None}, data : {None}]

Result(signal, call) ==
  [signal |-> signal, call |-> call, paths |-> {}, info |-> None, data |-> None]

UsbTypeOK == usbIn \in Seq(UsbCall) /\ usbOut \in Seq(UsbResult)

UsbInit == usbIn = <<>> /\ usbOut = <<>>

Present == {p \in UsbPaths : plugged[p] # None}

\* The slot for Head(usbIn) has run and emitted its result.
Finish(result) ==
  /\ usbIn' = Tail(usbIn)
  /\ usbOut' = Append(usbOut, result)
  /\ UNCHANGED plugged

\* hid_enumerate lists what is plugged in; when it fails it lists nothing.
Enumerate ==
  /\ usbIn # <<>> /\ Head(usbIn).op = "enumerate"
  /\ \E paths \in {Present, {}} :
       Finish([Result("enumerated", Head(usbIn)) EXCEPT !.paths = paths])
  /\ UNCHANGED device

\* usbRequest answered: hid_open_path succeeds only while the device is there.
ProbeInfo ==
  LET call == Head(usbIn)
  IN  /\ usbIn # <<>> /\ call.op = "probe" /\ call.path \in Present
      /\ Finish([Result("infoReady", call) EXCEPT !.info = InfoOf[plugged[call.path]]])
      /\ UNCHANGED device

ServeRequest ==
  LET call == Head(usbIn)
      d == plugged[call.path]
  IN  /\ usbIn # <<>> /\ call.op = "request" /\ call.path \in Present
      /\ \/ /\ call.kind = "State"
            /\ Finish([Result("requestDone", call) EXCEPT !.data = device[d]])
            /\ UNCHANGED device
         \/ /\ call.kind = "Put"
            /\ Finish(Result("requestDone", call))
            /\ device' = [device EXCEPT ![d] = call.body]

\* The exchange times out, is out of sync, or does not decode: allowed always,
\* and the only outcome when the path is empty or nothing is plugged in there.
FailExchange ==
  LET call == Head(usbIn)
  IN  /\ usbIn # <<>> /\ call.op # "enumerate"
      /\ Finish(Result(IF call.op = "probe" THEN "infoFailed" ELSE "requestFailed", call))
      /\ \/ UNCHANGED device
         \/ /\ call.kind = "Put" /\ call.path \in Present
            /\ device' = [device EXCEPT ![plugged[call.path]] = call.body]

===============================================================================
