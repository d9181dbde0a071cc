CONSTANTS
  TypeOfTypes = typeoftypes
  NoIri = noiri
  Top = top
  Nearer = nearer
  Below = below
  Linking = linking
  Holder = holder
  FTop = ftop
  FNearer = fnearer
  A = a
  W = w
  Iris <- AllIris
  NameOrder <- ByName
  Above <- Sits
  Fields = {ftop, fnearer}
  Kinds <- Reaches
  Parts <- AllPlaces
  Names <- AllNames
  Whole = w
  Untitled = untitled
  Unnamed = unnamed
  NotPlain = notplain
  Deepest = 2
  Directories <- AllDirectories
  HandedBack <- AllHandedBack
  Sets <- AllSets
  Before <- Start
  Fresh <- Started
  MaxRevision = 2
SPECIFICATION Spec
INVARIANTS ImportsSound ComesBack
PROPERTIES LandsAsExamined SkippedForCause HeldKept
