SPECIFICATION Spec
CONSTANTS
  ann = ann
  bob = bob
  hi = hi
  hey = hey
  People <- MCPeople
  World = World
  NoList = NoList
  Messages = {hi, hey}
  Docs = {d1, d2}
  NoDoc = NoDoc
  Counts = {0, 1}
  NoInteger = NoInteger
  DefaultRounds = 2
  NameLists <- MCNameLists
  Limits <- MCLimits
  Absent = Absent
  Malformed = Malformed
  NoDriver = NoDriver
  MaxRetries = 1
CHECK_DEADLOCK FALSE
INVARIANTS
  GreetsEachInOrder
  EndsAsDocumented
  TotalsTrue
  RightDocument
  ThreeResultsPerRound
PROPERTIES
  Terminates
