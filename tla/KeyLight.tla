------------------------------- MODULE KeyLight -------------------------------
(***************************************************************************)
(* The plain data of src/src/keylight.h: what the cache stores about a     *)
(* light, and the conversions applied to it on the way in and out.         *)
(*                                                                         *)
(* Strings are abstract values compared for equality.  None stands for     *)
(* every "empty" value of the code: an empty QString or QByteArray, an     *)
(* empty std::optional, a JSON key that is missing.  The port travels with *)
(* the address, and a light's name and product are only ever displayed.    *)
(***************************************************************************)
EXTENDS Integers, FiniteSets

CONSTANTS
  None,          \* the empty value
  Ids,           \* every identity a light can get: MAC, serial, display name, "usb:" + path
  Addresses,     \* IPv4 endpoints
  UsbPaths,      \* hidapi device paths
  Serials,       \* serial numbers; a serial can itself serve as an identity
  Spellings,     \* MAC addresses as devices write them
  Canonical,     \* the trimmed, upper-case form of each spelling
  UsbName,       \* "usb:" + path, the identity of a device without MAC and serial
  Brightnesses,  \* brightness values a device reports or a slider sends
  Temperatures   \* colour temperatures (mireds) a device reports or a slider sends

kMiredMin == 143
kMiredMax == 344
kFailLimit == 3

ClampInt(value, low, high) ==
  LET capped == IF high < value THEN high ELSE value
  IN  IF capped < low THEN low ELSE capped

LightState == [on : BOOLEAN, brightness : Brightnesses, temperature : Temperatures]

ASSUME KeyLightAssumption ==
  /\ IsFiniteSet(Ids) /\ IsFiniteSet(UsbPaths)
  /\ None \notin Ids \cup Addresses \cup UsbPaths \cup Serials \cup Spellings
  /\ None \notin LightState
  /\ Serials \subseteq Ids
  /\ Canonical \in [Spellings -> Ids]
  /\ UsbName \in [UsbPaths -> Ids]
  /\ Brightnesses \subseteq Int /\ Temperatures \subseteq Int
  /\ \A b \in Brightnesses : ClampInt(b, 0, 100) \in Brightnesses
  /\ \A t \in Temperatures : ClampInt(t, kMiredMin, kMiredMax) \in Temperatures

(***************************************************************************)
(* normalizeMac: both discovery paths must derive one identity for one     *)
(* device, whatever the case the device wrote its MAC in.                  *)
(***************************************************************************)
NormalizeMac(raw) == Canonical[raw]

KeyLightRecord ==
  [address   : Addresses \cup {None},
   serial    : Serials \cup {None},
   online    : BOOLEAN,
   state     : LightState \cup {None},
   failCount : 0 .. kFailLimit,
   transport : {"Http", "Usb"},
   usbPath   : UsbPaths \cup {None}]

\* A default-constructed KeyLight.
NewKeyLight ==
  [address |-> None, serial |-> None, online |-> FALSE, state |-> None,
   failCount |-> 0, transport |-> "Http", usbPath |-> None]

(***************************************************************************)
(* buildLightsBody: the one state that every element of the "lights" array *)
(* repeats.  The number of copies is left out.                             *)
(***************************************************************************)
BuildLightsBody(state) ==
  [state EXCEPT !.brightness  = ClampInt(@, 0, 100),
                !.temperature = ClampInt(@, kMiredMin, kMiredMax)]

RequestKind == {"Info", "State", "Put"}

\* The accessory-info object: the two keys the manager reads besides the name.
Info == [serial : Serials \cup {None}, mac : Spellings \cup {None}]

(***************************************************************************)
(* QHash tables as partial functions: insert, remove, and value() with the *)
(* empty value as default.                                                 *)
(***************************************************************************)
EmptyTable == [k \in {} |-> None]
Bind(table, key, value) ==
  [k \in DOMAIN table \cup {key} |-> IF k = key THEN value ELSE table[k]]
Unbind(table, key) == [k \in DOMAIN table \ {key} |-> table[k]]
Lookup(table, key) == IF key \in DOMAIN table THEN table[key] ELSE None
Values(table) == {table[k] : k \in DOMAIN table}

IsTable(table, S, T) == DOMAIN table \subseteq S /\ table \in [DOMAIN table -> T]

===============================================================================
