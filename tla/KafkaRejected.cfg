SPECIFICATION Spec
CONSTANTS
  c1 = c1
  c2 = c2
  Consumers <- MCOne
  NoConsumer = NoConsumer
  N = 2
  Junk <- MCNoJunk
  MaxRejects = 1
  MaxRebalances = 0
  MaxStarts = 1
  Env <- MCNothing
INVARIANT RejectedIsReadAgain
