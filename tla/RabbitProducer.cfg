SPECIFICATION FairSpec
CONSTANTS
  Senders = {s1, s2}
  MaxSends = 2
  MaxDials = 2
  Env <- MCAll
INVARIANTS ReportIsTrue TagsInStep OneConnection
PROPERTY SendReturns
