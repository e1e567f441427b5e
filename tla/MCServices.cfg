CONSTANTS
  Seconds = {1, 2, 5}
  Micros = {100000, 150000, 300000}
  MaxTimers = 2
  MaxSleeps = 64
  Targets = {"h1", "h2"}
  Disabled = {"TCP"}
  Calls <- ResolveCalls
  NaptrAnswers <- NaptrRecords
  SrvAnswers <- SrvRecords
  Socks = {1, 2}
  MaxChanges = 2
  Queries = {"a", "b", "c"}
  Slot <- StatementOf
  Selects = {"a", "b"}
  MaxTrouble = 3
SPECIFICATION Spec
INVARIANTS OncePerInterval GivenRight SocketsWatched ConnectionRight HeapRight HeadersRight
PROPERTY Answered
CHECK_DEADLOCK FALSE
