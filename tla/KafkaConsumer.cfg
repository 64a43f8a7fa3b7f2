SPECIFICATION FairSpec
CONSTANTS
  c1 = c1
  c2 = c2
  Consumers <- MCTwo
  NoConsumer = NoConsumer
  N = 3
  Junk <- MCJunk
  MaxRejects = 1
  MaxRebalances = 1
  MaxStarts = 2
  Env <- MCAny
INVARIANTS CommittedWasHandled
PROPERTIES EverythingHandled EndsWhenAsked
