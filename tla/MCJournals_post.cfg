SPECIFICATION FairSpec
CONSTANTS
  r1 = r1  r2 = r2  r3 = r3  old = old  key = key
  Requests = {r1, r2, r3}
  Existing = {old}
  Keys = {key}
  NoEntry = NoEntry  NoKey = NoKey  Nobody = Nobody  Elsewhere = Elsewhere
  Unit = 4
  Workloads <- Postings
  Books <- BlankOrRunning
INVARIANTS EntriesBalance OnePoster PostingIsWhole ReversalIsExact ClashMeansProgress
PROPERTY EveryRequestEnds
