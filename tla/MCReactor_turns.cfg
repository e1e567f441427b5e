CONSTANTS
  Fds = {f1, f2}
  Firable = {f1}
  MaxFires = 2
SPECIFICATION FairSpec
INVARIANTS Inv OneTask FreshTask QuietReachable
PROPERTIES OneShotSpec EventsHandled
