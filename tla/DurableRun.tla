----------------------------- MODULE DurableRun -----------------------------
(***************************************************************************)
(* What agent-sequencer promises of an instance, with no server, no log    *)
(* and no crash in sight: a run of a program that exists from its start    *)
(* until it is deleted, moves only when it takes a result, and of which    *)
(* the agent is only ever told the present state.                          *)
(***************************************************************************)
EXTENDS Driver

CONSTANT Ids

VARIABLES
  run,     \* the state of each instance's run, NoDriver if there is none
  report   \* the last state the agent was told

runVars == <<run, report>>

RunInit ==
  /\ run = [id \in Ids |-> NoDriver]
  /\ report = [id \in Ids |-> NoDriver]

\* A run is where its program first stops.
Begin(id, p, a) ==
  /\ run[id] = NoDriver
  /\ report[id] = NoDriver
  /\ Start(p, a) # NoDriver
  /\ run' = [run EXCEPT ![id] = Start(p, a)]
  /\ UNCHANGED report

\* It takes one result, unless it is over or the result cannot be judged.
Accept(id, r) ==
  \E d \in {run[id]} \ {NoDriver} :
    /\ ~ IsTerminal(d)
    /\ ~ SendRaises(d, r)
    /\ run' = [run EXCEPT ![id] = Send(d, r)]
    /\ UNCHANGED report

\* The agent is told where it is.
Report(id) ==
  /\ run[id] # NoDriver
  /\ report' = [report EXCEPT ![id] = run[id]]
  /\ UNCHANGED run

\* Runs are deleted, on request or because they are too old.
Delete(S) ==
  /\ run' = [id \in Ids |-> IF id \in S THEN NoDriver ELSE run[id]]
  /\ report' = [id \in Ids |-> IF id \in S THEN NoDriver ELSE report[id]]

RunNext ==
  \/ \E id \in Ids, p \in Programs, a \in Params : Begin(id, p, a)
  \/ \E id \in Ids, r \in Results : Accept(id, r)
  \/ \E id \in Ids : Report(id)
  \/ \E S \in SUBSET Ids : Delete(S)

RunSpec == RunInit /\ [][RunNext]_runVars
=============================================================================
