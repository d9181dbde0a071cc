CONSTANTS
  Calls = {c1, c2}
  TypeOfTypes = typeoftypes
  NoIri = noiri
  Top = top
  Nearer = nearer
  Below = below
  Linking = linking
  Shape = shape
  Holder = holder
  FTop = ftop
  FNearer = fnearer
  P = p
  W = w
  Iris <- AllIris
  Above <- Sits
  Fields = {ftop, fnearer}
  Kinds <- Reaches
  Parts = {p}
  Whole = w
  Sets <- ReadingSets
  Before <- Start
  MaxRevision = 2
SPECIFICATION Spec
SYMMETRY Symmetric
INVARIANTS ReadTypesHeld
