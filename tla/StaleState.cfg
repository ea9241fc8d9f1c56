SPECIFICATION Spec
CONSTANTS
  None = None
  neo = neo
  mac = mac
  name = name
  address = address
  lower = lower
  upper = upper
  Ids = {mac}
  Addresses = {address}
  UsbPaths = {}
  Serials = {}
  Spellings = {lower, upper}
  Canonical <- MCCanonical
  UsbName <- MCUsbName
  Brightnesses = {0, 100}
  Temperatures = {143}
  Devices = {neo}
  Owner <- MCOwner
  InfoOf <- MCInfoOf
  ServiceNames = {name}
  Services <- MCServices
  FactoryState <- MCFactory
  MaxHttp = 2
  MaxUsb = 2
  OddAnswers = TRUE
PROPERTY UnsentChangeSurvives
