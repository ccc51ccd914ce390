CONSTANTS
  m1 = m1
  NotFound = NotFound
  Internal = Internal
  PlainError = PlainError
  Nil = Nil
  Result = Result
  Uncoded = Uncoded
  Nothing = Nothing
  Pending = Pending
  Waiting = Waiting
  StreamEnd = StreamEnd
  Msg <- MCMsg
  ErrorClass <- MCErrorClass
  Kinds = {"responseStream", "biDirectional"}
  CallbackMayThrow = TRUE
  MaxData = 2
  MaxReads = 3
  MaxWaiting = 2
  MaxWrites = 2
SPECIFICATION CallSpec
PROPERTIES ResultOrError
CHECK_DEADLOCK FALSE
