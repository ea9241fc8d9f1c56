SPECIFICATION PowerSpec
CONSTANTS
  None = None
  neo = neo
  mac = mac
  name = name
  address = address
  lower = lower
  upper = upper
  Ids = {mac}
  Addresses = {address}
  UsbPaths = {path}
  Serials = {}
  Spellings = {lower, upper}
  Canonical <- MCCanonical
  UsbName <- MCUsbName
  Brightnesses = {0}
  Temperatures = {143}
  Devices = {neo}
  Owner <- MCOwner
  InfoOf <- MCInfoOf
  ServiceNames = {name}
  Services <- MCServices
  FactoryState <- MCFactory
  MaxHttp = 1
  MaxUsb = 1
  OddAnswers = TRUE
INVARIANTS OnePutInFlight LastChangeApplied
PROPERTIES ImplementsOutbox
