SPECIFICATION Spec
CONSTANTS
  ok = ok
  bad = bad
  Programs = {p1}
  Params = {a1}
  Results <- MCResults
  GenStates <- Reactions
  Entry <- MCEntry
  ParamsLeft <- MCParamsLeft
  Resumed <- MCResumed
  Yields <- MCYields
  NoDriver = NoDriver
  MaxStepNo = 3
INVARIANTS
  TypeOK
  Coherent
  OneAnswer
PROPERTIES
  FreshNumbers
CHECK_DEADLOCK FALSE
