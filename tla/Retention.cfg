SPECIFICATION LiveSpec
CONSTANTS
  ok = ok
  bad = bad
  confirm1 = confirm1
  confirm2 = confirm2
  dangling = dangling
  taker = taker
  confirm = confirm
  full = full
  taken = taken
  NoDriver = NoDriver
  NoProgram = NoProgram
  Programs = {confirm2, taker}
  Params = {full, taken}
  Results <- MCResults
  GenStates <- MCGenStates
  Entry <- MCEntry
  ParamsLeft <- MCParamsLeft
  Resumed <- MCResumed
  Yields <- MCYields
  Names <- MCNames
  NameOf <- MCNameOf
  Ids = {i1}
  WideText = TRUE
  OddYields = {}
  Faults = {"torn_write"}
  Watch = FALSE
  MaxEvents = 4
  TerminalTTL = 2
  Throttle = 2
  AbortedTTL = 2
  InterruptedTTL = 2
  CompletedTTL = 3
  FailedTTL = 4
  MaxAge = 5
PROPERTIES
  SweptInTime
  EventuallySwept
  EventuallyPruned
