SPECIFICATION ExclusiveSpec
CONSTANTS
  ok = ok
  bad = bad
  confirm1 = confirm1
  confirm2 = confirm2
  dangling = dangling
  taker = taker
  confirm = confirm
  full = full
  taken = taken
  NoDriver = NoDriver
  NoProgram = NoProgram
  Programs = {confirm1, confirm2}
  Params = {full}
  Results <- MCResults
  GenStates <- MCGenStates
  Entry <- MCEntry
  ParamsLeft <- MCParamsLeft
  Resumed <- MCResumed
  Yields <- MCYields
  Names <- MCNames
  NameOf <- MCNameOf
  Ids = {i1}
  WideText = FALSE
  OddYields <- MCOddYields
  Faults = {}
  Watch = TRUE
  MaxEvents = 6
INVARIANTS
  HandedOver
  AckedSurvive
PROPERTY
  Durable
