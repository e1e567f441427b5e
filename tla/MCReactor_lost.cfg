CONSTANTS
  Fds = {f1}
  Firable = {f1}
  MaxFires = 1
SPECIFICATION Spec
INVARIANT StaysReachable
