CONSTANTS
  Servers = {s1, s2}
  Changes = {c1, c2}
  Streams = {x1}
  Direct = {d1}
  Workers = 2
  Nobody = nobody
SPECIFICATION FairSpec
INVARIANTS ChangesUnderTheLock NamesItsServer ToldTruly
PROPERTIES EveryCallAnswered StopsAtLast
