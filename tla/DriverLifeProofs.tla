-------------------------- MODULE DriverLifeProofs --------------------------
(***************************************************************************)
(* Proofs of the properties of DriverLife, for every set of programs,      *)
(* reactions and results.                                                  *)
(***************************************************************************)
EXTENDS DriverLife, DriverProofs

-----------------------------------------------------------------------------

\* The inductive invariant: a driver that is there is sound, and its program
\* has not been resumed with more results than numbers were issued.
IInv ==
  /\ heard \in Nat
  /\ OneAnswer
  /\ driver # NoDriver => Sound(driver)

\* Before start() there is no driver.
LEMMA InitIInv == Init => IInv
  BY DEF Init, IInv, OneAnswer

\* An operation of the driver that moves it, resuming the program with at most
\* one result, keeps the invariant.
LEMMA MovedIInv ==
  ASSUME IInv, driver # NoDriver, ~ IsTerminal(driver),
         Moved(driver, driver'), heard' \in {heard, heard + 1}
  PROVE  IInv'
<1>1. /\ driver' \in Drivers /\ driver' # NoDriver
      /\ Sound(driver')
      /\ driver'.step_no = driver.step_no + (IF IsTerminal(driver') THEN 0 ELSE 1)
  BY NoDriverAssumption DEF Moved, Sound
<1>2. heard \in Nat /\ heard' \in Nat /\ heard < driver.step_no
  BY DEF IInv, OneAnswer
<1>3. driver.step_no \in Nat
  BY DEF IInv, Sound, Drivers
<1>4. OneAnswer'
  <2>1. CASE IsTerminal(driver')
    BY <1>1, <1>2, <1>3, <2>1 DEF OneAnswer
  <2>2. CASE ~ IsTerminal(driver')
    BY <1>1, <1>2, <1>3, <2>2 DEF OneAnswer
  <2> QED BY <2>1, <2>2
<1>5. QED BY <1>1, <1>2, <1>4 DEF IInv

\* start, send and throw keep the invariant.
LEMMA NextIInv ==
  ASSUME IInv, [Next]_vars
  PROVE  IInv'
<1>1. ASSUME NEW p \in Programs, NEW g \in GenStates, DriverStart(p, g)
      PROVE  IInv'
  <2>1. heard' = 0 /\ heard = 0 /\ driver' = Launch(p, g)
    BY <1>1 DEF DriverStart, IInv, OneAnswer
  <2>2. CASE Yields[g].kind = "not_built"
    BY <2>1, <2>2 DEF Launch, IInv, OneAnswer
  <2>3. CASE Yields[g].kind # "not_built"
    <3>1. NewDriver(p, g) \in Drivers /\ NewDriver(p, g).step_no = 0
      BY <1>1 DEF NewDriver, Drivers, LastYields, States
    <3>2. driver' = Reach(NewDriver(p, g), g)
      BY <2>1, <2>3 DEF Launch
    <3>3. Moved(NewDriver(p, g), driver')
      BY <3>1, <3>2, ReachMoved
    <3>4. Sound(driver') /\ driver' \in Drivers /\ driver' # NoDriver
      BY <3>3, NoDriverAssumption DEF Moved, Sound
    <3>5. driver'.step_no = IF IsTerminal(driver') THEN 0 ELSE 1
      BY <3>1, <3>3 DEF Moved
    <3> QED BY <2>1, <3>4, <3>5 DEF IInv, OneAnswer
  <2> QED BY <2>2, <2>3
<1>2. ASSUME NEW r \in Results, NEW g \in GenStates, DriverSend(r, g)
      PROVE  IInv'
  <2>1. /\ driver # NoDriver /\ ~ IsTerminal(driver) /\ Sound(driver)
        /\ driver' = SendTo(driver, r, g)
    BY <1>2 DEF DriverSend, Awaiting, IInv
  <2>2. CASE Moved(driver, driver')
    <3>1. heard' \in {heard, heard + 1}
      BY <1>2 DEF DriverSend
    <3> QED BY <2>1, <2>2, <3>1, MovedIInv
  <2>3. CASE ~ Moved(driver, driver')
    <3>1. driver' = driver /\ Verdict(driver, r) # "valid"
      BY <2>1, <2>3, SendMoved
    <3>2. heard' = heard
      BY <1>2, <3>1 DEF DriverSend
    <3> QED BY <3>1, <3>2 DEF IInv, OneAnswer
  <2> QED BY <2>2, <2>3
<1>3. ASSUME NEW g \in GenStates, DriverThrow(g)
      PROVE  IInv'
  <2>1. /\ driver # NoDriver /\ ~ IsTerminal(driver) /\ Sound(driver)
        /\ driver' = Reach(driver, g) /\ heard' = heard
    BY <1>3 DEF DriverThrow, Awaiting, IInv, Throw
  <2>2. Moved(driver, driver')
    BY <2>1, ReachMoved DEF Sound
  <2> QED BY <2>1, <2>2, MovedIInv
<1>4. CASE UNCHANGED vars
  BY <1>4 DEF vars, IInv, OneAnswer
<1>5. QED BY <1>1, <1>2, <1>3, <1>4 DEF Next

\* The invariant holds throughout the life of a driver.
LEMMA Invariance == Spec => []IInv
<1>1. IInv /\ [Next]_vars => IInv'
  BY NextIInv
<1>2. QED BY InitIInv, <1>1, PTL DEF Spec

-----------------------------------------------------------------------------

\* Variables keep their types, under every program (runtime.py:52-69).
THEOREM TypeCorrect == Spec => []TypeOK
<1>1. IInv => TypeOK
  BY DEF IInv, TypeOK, Sound
<1>2. QED BY Invariance, <1>1, PTL

\* The parts of a driver never disagree: a result is awaited exactly while an
\* instruction is pending, and last_yield is that of the state and the step.
THEOREM DriverCoherent == Spec => []Coherent
<1>1. IInv => Coherent
  BY DEF IInv, Coherent, Sound
<1>2. QED BY Invariance, <1>1, PTL

\* The program is resumed with at most one result for each step number issued.
THEOREM AtMostOneAnswer == Spec => []OneAnswer
<1>1. IInv => OneAnswer
  BY DEF IInv
<1>2. QED BY Invariance, <1>1, PTL

\* Every issue of an instruction, a retry too, has a number of its own.
THEOREM IssuesAreNumbered == Spec => FreshNumbers
<1> DEFINE Numbered ==
      driver # NoDriver /\ driver' # driver =>
        driver'.step_no = driver.step_no + (IF IsTerminal(driver') THEN 0 ELSE 1)
<1>1. ASSUME IInv, [Next]_vars PROVE Numbered
  <2> SUFFICES ASSUME driver # NoDriver, driver' # driver
               PROVE  driver'.step_no =
                        driver.step_no + (IF IsTerminal(driver') THEN 0 ELSE 1)
    OBVIOUS
  <2>1. Sound(driver)
    BY <1>1 DEF IInv
  <2>2. ASSUME NEW r \in Results, NEW g \in GenStates, DriverSend(r, g)
        PROVE  Moved(driver, driver')
    BY <2>1, <2>2, SendMoved DEF DriverSend, Awaiting
  <2>3. ASSUME NEW g \in GenStates, DriverThrow(g)
        PROVE  Moved(driver, driver')
    BY <2>1, <2>3, ReachMoved DEF DriverThrow, Awaiting, Throw, Sound
  <2>4. Moved(driver, driver')
    BY <1>1, <2>2, <2>3 DEF Next, DriverStart, vars
  <2> QED BY <2>4 DEF Moved
<1>2. QED BY Invariance, <1>1, PTL DEF Spec, FreshNumbers
=============================================================================
