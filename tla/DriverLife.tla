----------------------------- MODULE DriverLife -----------------------------
(***************************************************************************)
(* The life of one driver under any program: the generator is free to stop *)
(* anywhere each time it is resumed, so what holds here holds for every    *)
(* program, deterministic or not.  The callers are those of tools.py, who  *)
(* never send to a driver that is terminal, and the caller that StepFailed *)
(* (api.py:100-113) is meant for, which throws while a result is awaited.  *)
(***************************************************************************)
EXTENDS Driver

CONSTANT MaxStepNo   \* bound: no result is sent beyond this step

ASSUME MaxStepNoAssumption == MaxStepNo \in Nat

VARIABLES
  driver,    \* the driver, NoDriver before start() and if the launch fails
  heard      \* history: how many results the program was resumed with

vars == <<driver, heard>>

TypeOK ==
  /\ driver \in Drivers \cup {NoDriver}
  /\ heard \in Nat

Init == driver = NoDriver /\ heard = 0

DriverStart(p, g) ==
  /\ driver = NoDriver
  /\ driver' = Launch(p, g)
  /\ UNCHANGED heard

Awaiting == driver # NoDriver /\ ~ IsTerminal(driver) /\ driver.step_no <= MaxStepNo

DriverSend(r, g) ==
  /\ Awaiting
  /\ driver' = SendTo(driver, r, g)
  /\ heard' = IF driver.pending /\ Verdict(driver, r) = "valid" THEN heard + 1
              ELSE heard

DriverThrow(g) ==
  /\ Awaiting
  /\ driver' = Throw(driver, g)
  /\ UNCHANGED heard

Next ==
  \/ \E p \in Programs, g \in GenStates : DriverStart(p, g)
  \/ \E r \in Results, g \in GenStates : DriverSend(r, g)
  \/ \E g \in GenStates : DriverThrow(g)

Spec == Init /\ [][Next]_vars

-----------------------------------------------------------------------------

\* The parts of a driver that tools.py reports or decides by never disagree:
\* there is a pending instruction, the one the generator stopped at, exactly
\* while a result is awaited, so the defensive failure of send (runtime.py:105)
\* is never taken; and last_yield is that of the current state and step.
Coherent == driver # NoDriver => IsCoherent(driver)

\* The program is never resumed twice for one issued step number, however
\* retries and exceptions thrown into it are mixed with results; while a result
\* is awaited, that for the current number is still to come.
OneAnswer ==
  IF driver = NoDriver THEN heard = 0
  ELSE /\ heard <= driver.step_no
       /\ ~ IsTerminal(driver) => heard < driver.step_no

\* A step number stands for one issue of one instruction: a reissue and a
\* recovery step get the next number, the end of a run gets none, and a send
\* that raises changes nothing (runtime.py:216-229, 241-254).
FreshNumbers ==
  [][driver # NoDriver /\ driver' # driver =>
       driver'.step_no = driver.step_no + (IF IsTerminal(driver') THEN 0 ELSE 1)]_vars
=============================================================================
