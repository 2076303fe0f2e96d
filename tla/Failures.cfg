SPECIFICATION Spec
CONSTANTS
  ok = ok
  bad = bad
  confirm1 = confirm1
  confirm2 = confirm2
  dangling = dangling
  taker = taker
  confirm = confirm
  full = full
  taken = taken
  NoDriver = NoDriver
  NoProgram = NoProgram
  Programs = {confirm1, confirm2}
  Params = {full}
  Results <- MCResults
  GenStates <- MCGenStates
  Entry <- MCEntry
  ParamsLeft <- MCParamsLeft
  Resumed <- MCResumed
  Yields <- MCYields
  Names <- MCNames
  NameOf <- MCNameOf
  Ids = {i1}
  WideText = TRUE
  OddYields <- MCOddYields
  Faults = {"torn_write", "io_error"}
  Watch = TRUE
  MaxEvents = 5
INVARIANTS
  TypeOK
  SameProgram
PROPERTIES
  LoadedNeverRewinds
