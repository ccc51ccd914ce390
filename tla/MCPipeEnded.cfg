CONSTANTS
  s1 = s1
  s2 = s2
  s3 = s3
  plain = plain
  path = path
  v1 = v1
  NotFound = NotFound
  Nobody = Nobody
  NoMethod = NoMethod
  NoService = NoService
  Internal = Internal
  PlainError = PlainError
  Nil = Nil
  Data = Data
  Unimplemented = Unimplemented
  Running = Running
  Thrown = Thrown
  Server <- MCServer
  Addr <- MCAddr
  Dotted <- MCDotted
  AddrOf <- MCAddrOf
  Impl <- MCImpl
  ErrorClass <- MCErrorClass
  Instances <- MCInstances
  Balancers = {"roundRobin", "random"}
  Eager = {TRUE, FALSE}
  MaxCalls = 1
  MaxStarts = 2
SPECIFICATION Spec
INVARIANTS ServingIsFound
CHECK_DEADLOCK FALSE
