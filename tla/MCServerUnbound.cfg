CONSTANTS
  cmd = cmd
  part = part
  idle = idle
  run = run
  N = 3
  Grpc <- MCGrpc
  Service <- MCService
  Method <- MCMethod
  Config <- MCConfig
  Implemented <- MCImplemented
  Known <- MCKnown
  Foreign <- MCForeign
  MaxRuns = 1
  MaxCalls = 1
SPECIFICATION Spec
INVARIANTS ServingIsServed
CHECK_DEADLOCK FALSE
