CONSTANTS
  list = list
  lost = lost
  held = held
  NotFound = NotFound
  Internal = Internal
  PlainError = PlainError
  Nil = Nil
  Result = Result
  Uncoded = Uncoded
  Nothing = Nothing
  Pending = Pending
  Waiting = Waiting
  StreamEnd = StreamEnd
  Msg <- MCMsg
  Request <- MCRequest
  ErrorClass <- MCErrorClass
  Kinds = {"normal", "requestStream", "responseStream", "biDirectional"}
  CallbackMayThrow = TRUE
  MaxData = 3
  MaxReads = 4
  MaxWaiting = 3
  MaxWrites = 3
  MaxMiddleware = 3
  ArrayChanges = {"normal"}
SPECIFICATION CallsSpec
INVARIANTS CallsTypeOK AnsweredOnce TrueAnswer PendingAreLast NothingLost Guarded InOrder RespondedInOrder
PROPERTIES FifoSpec HandlersFinish GetsAnswer EndsItsCall
CHECK_DEADLOCK FALSE
