CONSTANTS
  Threads = {t1, t2, t3, t4}
  Last <- MCLast
SPECIFICATION FairSpec
INVARIANTS OneAtATime NoneSleepsThrough
PROPERTIES FirstComeFirstIn
