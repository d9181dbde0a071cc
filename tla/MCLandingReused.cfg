CONSTANTS
  Calls = {c1, c2}
  Nobody = nobody
  Decision = decision
  First = first
  Second = second
  Iris <- TwoIris
  Types <- OneType
  TypeOf <- TypeOfFirst
  Sets <- RemakingSets
  Before <- TypeThenFirst
  Moments <- TwoMoments
SPECIFICATION FairSpec
INVARIANTS HistoryUnbroken TypesHeld
PROPERTIES ExpectedKeptUnderLock EveryCallAnswered
