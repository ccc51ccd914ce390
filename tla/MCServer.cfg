CONSTANTS
  cmd = cmd
  part = part
  idle = idle
  run = run
  N = 3
  Grpc <- MCGrpc
  Service <- MCService
  Method <- MCMethod
  Config <- MCConfig
  Implemented <- MCImplemented
  Known <- MCKnown
  Foreign <- MCForeign
  MaxRuns = 2
  MaxCalls = 1
SPECIFICATION Spec
INVARIANTS LifecycleTypeOK ServingIsTrue CheckAgrees PrefixBound BoundIsRegistered
PROPERTIES StoppedIsTrue EndFinishes
CHECK_DEADLOCK FALSE
