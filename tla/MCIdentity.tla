------------------------------ MODULE MCIdentity ------------------------------
(***************************************************************************)
(* One Key Light Neo, on the network and on a cable at once, that the two  *)
(* sides of discovery know under different identities.  Nobody touches the *)
(* controls: the question is who the lights are, not what they do.         *)
(***************************************************************************)
EXTENDS KeyLightSystem

CONSTANTS neo, mac, serial, usbName, name, address, path, spelling

MCServices ==
  {[serviceName |-> name, displayName |-> usbName, address |-> address,
    mac |-> spelling]}
MCOwner == [a \in {address} |-> neo]
MCCanonical == [s \in {spelling} |-> mac]
MCUsbName == [p \in {path} |-> usbName]
MCInfoOf == [d \in {neo} |-> [serial |-> serial, mac |-> None]]
MCFactory == [on |-> FALSE, brightness |-> 0, temperature |-> 143]

ASSUME NeoAssumption == OneIdentity

===============================================================================
