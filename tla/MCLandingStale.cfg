CONSTANTS
  Calls = {c1, c2, c3}
  Nobody = nobody
  Decision = decision
  First = first
  Second = second
  Iris <- TwoIris
  Types <- OneType
  TypeOf <- TypeOfFirst
  Sets <- ReusingSets
  Before <- TypeThenFirst
  Moments <- TwoMoments
SPECIFICATION Spec
SYMMETRY Symmetric
PROPERTIES LandsOnWhatItRead
