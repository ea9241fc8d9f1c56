SPECIFICATION PowerSpec
CONSTANTS
  None = None
  neo = neo
  mac = mac
  serial = serial
  usbName = usbName
  name = name
  address = address
  path = path
  spelling = spelling
  Ids = {mac, serial, usbName}
  Addresses = {address}
  UsbPaths = {path}
  Serials = {serial}
  Spellings = {spelling}
  Canonical <- MCCanonical
  UsbName <- MCUsbName
  Brightnesses = {0}
  Temperatures = {143}
  Devices = {neo}
  Owner <- MCOwner
  InfoOf <- MCInfoOf
  ServiceNames = {name}
  Services <- MCServices
  FactoryState <- MCFactory
  MaxHttp = 2
  MaxUsb = 1
  OddAnswers = FALSE
INVARIANT OnlineLightHasCard
