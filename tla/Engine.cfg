SPECIFICATION FairSpec
CONSTANTS
  Caller = {a, b}
  Host = {h1, h2, h3}
  None = None
INVARIANTS TypeOK NoStrayHost CaseHostIsClean
PROPERTY EveryRequestReturns
