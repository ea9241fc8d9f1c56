------------------------------ MODULE MCControl ------------------------------
(***************************************************************************)
(* One light known under its MAC address on both transports, and a user    *)
(* with the power button and the brightness slider.                        *)
(***************************************************************************)
EXTENDS KeyLightSystem

CONSTANTS neo, mac, name, address, lower, upper

MCServices ==
  {[serviceName |-> name, displayName |-> mac, address |-> address, mac |-> upper]}
MCOwner == [a \in {address} |-> neo]
MCCanonical == [s \in {lower, upper} |-> mac]
MCUsbName == [p \in UsbPaths |-> mac]
MCInfoOf == [d \in {neo} |-> [serial |-> None, mac |-> lower]]
MCFactory == [on |-> FALSE, brightness |-> 0, temperature |-> 143]

ASSUME OneLightAssumption ==
  Settable /\ \E port \in [UsbPaths -> Devices] : OneLightEach(port)

==============================================================================
