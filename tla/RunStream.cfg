SPECIFICATION FairSpec
CONSTANTS
  Requests = {r1, r2}
  Channels = {c1}
  NoRequest = NoRequest
  MaxChecks = 2
INVARIANTS
  TypeOK
  EntryIsLive
  ExitedIsNotified
  PanicNeedsLateSubmit
PROPERTIES
  ImplementsRegistry
  SubmitReturns
  ShutdownDrains
  IdleEntryRemoved
\* goroutines end and a panic ends the process
CHECK_DEADLOCK FALSE
