CONSTANTS
  Inits = {}
  Seeds = {}
  Restores = {}
  Serves = {v1}
  Hosts = {h1}
  Together = {{}}
  Nobody = nobody
SPECIFICATION Spec
PROPERTY LeftToItsServer
CHECK_DEADLOCK FALSE
