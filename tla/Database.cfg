SPECIFICATION FairSpec
CONSTANTS
  Connections = {a, b, c}
  Keys = {k}
  Values = {v}
  NoValue = NoValue
  NoConnection = NoConnection
  NoView = NoView
  MaxSnapshot = 2
INVARIANTS TypeOK CanCatchUp SignalledMeansSafe NoWakeUpLost
PROPERTIES ImplementsSnapshotStore WriterCommits
