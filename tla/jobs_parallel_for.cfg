SPECIFICATION FairSpec
CONSTANTS
  Workers = {w1, w2}
  Caller = caller
  MaxCount = 6
  MaxGrain = 6
  MaxRange = 5
INVARIANTS ReturnMeansDone NeverTwice
PROPERTY EveryCallReturns
