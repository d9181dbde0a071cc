CONSTANTS
  Callers = {c1}
  NoDir = nodir
  Outer = outer
  Middle = middle
  Inner = inner
  Aside = aside
  Unset = unset
  Blank = blank
  Dirs <- AllDirs
  Parent <- Inside
  Requests <- AllRequests
  Befores <- AllBefores
  MaxChanges = 3
SPECIFICATION Spec
INVARIANTS GoesWhereMeant
PROPERTIES StoresApart
