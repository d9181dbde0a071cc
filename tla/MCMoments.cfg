CONSTANTS
  Calls = {c1, c2}
  TypeOfTypes = typeoftypes
  NoIri = noiri
  Top = top
  Linking = linking
  One = one
  Two = two
  Three = three
  Apart = apart
  Below = below
  F = f
  G = g
  P = p
  W = w
  Near = near
  Low = low
  High = high
  Other = other
  Free = free
  Taken = taken
  Iris <- AllIris
  NameOrder <- ByName
  Above <- Sits
  Fields = {f, g}
  Kinds <- Reaches
  Inside <- Holders
  NoField = nofield
  Parts = {p}
  Whole = w
  Paths = {near}
  NoPath = nopath
  Selected <- NearOnes
  Selections <- SomeSelections
  Namings <- AllNamings
  Places = {free, taken}
  Kept = {taken}
  Sets <- AllSets
  Before <- Start
  Walks <- AllWalks
  Words = {low, high, other}
  Folded <- Folds
  Alike <- Matched
  Wordings <- AllWordings
  Searches <- AllSearches
  MaxMoments = 3
SPECIFICATION Spec
SYMMETRY Symmetric
INVARIANTS WalksShortest ReadsTold SearchFinds
PROPERTIES OneMoment 
