CONSTANTS
  Calls = {c1, c2, c3}
  Nobody = nobody
  Decision = decision
  First = first
  Second = second
  Iris <- ThreeIris
  Types <- OneType
  TypeOf <- TypeOfBoth
  Sets <- FreshSets
  Before <- TypeThenFirst
  Moments <- OneMoment
SPECIFICATION Spec
SYMMETRY Symmetric
INVARIANTS NothingLost AnsweredAsLanded IdsHeldOnce
PROPERTIES LandsOnWhatItRead LandsSerially
