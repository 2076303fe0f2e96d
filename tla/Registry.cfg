SPECIFICATION Spec
CONSTANTS
  project = project
  user = user
  first = first
  second = second
  unnamed = unnamed
  broken = broken
  listed = listed
  named = named
  stem1 = stem1
  stem2 = stem2
  Dirs <- MCDirs
  Files = {1, 2}
  Contents = {first, second, unnamed, broken, listed}
  NoContent = NoContent
  Names = {named, stem1, stem2}
  LoadsAs <- MCLoadsAs
  Skipped = Skipped
  Raises = Raises
  NoEntry = NoEntry
  Trees <- MCTrees
  Watch = TRUE
  MaxEdits = 2
INVARIANTS
  TypeOK
  FirstWins
  ExecutedOnce
PROPERTIES
  CatchesUp
