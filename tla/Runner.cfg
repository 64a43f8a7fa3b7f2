SPECIFICATION FairSpec
CONSTANTS
  g1 = g1
  g2 = g2
  h1 = h1
  h2 = h2
  Names <- MCNames
  Dot <- MCDot
  Columns <- MCColumns
  NoColumn <- MCNoColumn
  Exact <- MCExact
  Number <- MCNumber
  Times <- MCTimes
  Replaced <- MCReplaced
  Configurations <- MCConfigurations
  Explored <- MCExplored
  Callers <- MCCallers
  Handlers <- MCHandlers
  MaxCalls = 3
  MaxFailures = 1
INVARIANTS RoutedExactly OneEventPerRow KeysTellRowsApart SettledForEveryTask OneRunConsumes
PROPERTIES EverythingSettles
