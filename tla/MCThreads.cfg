\* A message that killed the process, or was read by nobody: nothing goes on.
SPECIFICATION PartSpec
CONSTANTS
  N = 2
  Workers = {"w1", "w2"}
  Messages = {"m1", "m2", "m3"}
  Kinds = {"short", "request", "misrouted"}
  Fds = {1, 2}
  MaxSubmits = 2
  MaxFires = 1
  Clients = {"c"}
  Commands = {"plain", "badarg", "file", "nofile"}
  MaxCommands = 2
  MaxBuffer = 4
INVARIANTS SocketsRight MessagesRight AllStopped
PROPERTY EventsHandled
CHECK_DEADLOCK FALSE
