CONSTANTS
  Scenarios <- MCScenarios
  Addresses <- MCAddresses
  AnyAddresses <- MCAny
  Nics <- MCNics
  MaxSessions = 3
  MaxReactors = 5
SPECIFICATION Spec
INVARIANTS
  OneReactorPerSid
  Survives
  Served
  Answered
  Agreed
  StartupSound
CHECK_DEADLOCK FALSE
