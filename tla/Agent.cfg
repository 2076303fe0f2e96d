SPECIFICATION AgentSpec
CONSTANTS
  ok = ok
  bad = bad
  confirm1 = confirm1
  confirm2 = confirm2
  dangling = dangling
  taker = taker
  confirm = confirm
  full = full
  taken = taken
  NoDriver = NoDriver
  NoProgram = NoProgram
  Programs = {confirm1, confirm2, dangling}
  Params = {full}
  Results <- MCResults
  GenStates <- MCGenStates
  Entry <- MCEntry
  ParamsLeft <- MCParamsLeft
  Resumed <- MCResumed
  Yields <- MCYields
  Names <- MCNames
  NameOf <- MCNameOf
  Ids = {i1, i2, i3}
  WideText = FALSE
  OddYields <- MCAgentOddYields
  Faults = {}
  Watch = TRUE
  MaxEvents = 12
  NoId = NoId
  MaxTroubles = 2
  MaxInvalid = 1
  MaxExecuted = 6
INVARIANTS
  
  ReportedTrue
  NeverStranded
PROPERTY
  Finishes
