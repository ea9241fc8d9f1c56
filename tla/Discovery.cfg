SPECIFICATION Spec
CONSTANTS
  Keys = {elg}
  Links = {wired, wireless}
  MaxResolvers = 2
INVARIANTS TypeOK RetryOrRest ReportedIsAccountedFor KnownIsReported
PROPERTIES ReconnectsToDaemon AnnouncedIsKnown
