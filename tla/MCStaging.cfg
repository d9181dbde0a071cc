CONSTANTS
  Inits = {i1}
  Seeds = {s1}
  Restores = {b1}
  Serves = {v1}
  Hosts = {h1}
  Together = {{}, {s1, v1}, {s1, b1}}
  Nobody = nobody
SPECIFICATION Spec
INVARIANTS PlacedWhole LeftAsFound OwnWork StartedStays
PROPERTY NeverOver
CHECK_DEADLOCK FALSE
