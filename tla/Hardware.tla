------------------------------- MODULE Hardware -------------------------------
(***************************************************************************)
(* External: the lights themselves, as the code in src/ uses them.  A      *)
(* device has one real LightState, answers HTTP at the addresses it owns   *)
(* and USB HID at the path it is plugged into.                             *)
(***************************************************************************)
EXTENDS KeyLight

CONSTANTS
  Devices,
  Owner,       \* the device that answers at an address
  InfoOf,      \* the accessory-info object of a device
  ServiceNames,
  Services,    \* the mDNS services that resolve, see DiscoveredService
  FactoryState \* the state a device is in before anyone touches it

VARIABLES
  device,      \* the real state of each device
  plugged      \* the device behind each hidapi path, or None

hardwareVars == <<device, plugged>>

\* avahibrowser.h: serviceName is the key, displayName the identity of a light
\* without a TXT "id" record, mac that record.
DiscoveredService ==
  [serviceName : ServiceNames, displayName : Ids, address : Addresses,
   mac : Spellings \cup {None}]

ASSUME HardwareAssumption ==
  /\ None \notin Devices
  /\ Owner \in [Addresses -> Devices]
  /\ InfoOf \in [Devices -> Info]
  /\ Services \subseteq DiscoveredService
  /\ FactoryState \in LightState

HardwareTypeOK ==
  /\ device \in [Devices -> LightState]
  /\ plugged \in [UsbPaths -> Devices \cup {None}]

HardwareInit ==
  /\ device = [d \in Devices |-> FactoryState]
  /\ plugged = [p \in UsbPaths |-> None]

\* A cable is plugged in; a device has one USB port.
Plug(d, path) ==
  /\ plugged[path] = None
  /\ \A p \in UsbPaths : plugged[p] # d
  /\ plugged' = [plugged EXCEPT ![path] = d]
  /\ UNCHANGED device

Unplug(path) ==
  /\ plugged[path] # None
  /\ plugged' = [plugged EXCEPT ![path] = None]
  /\ UNCHANGED device

===============================================================================
