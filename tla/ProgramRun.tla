----------------------------- MODULE ProgramRun -----------------------------
(***************************************************************************)
(* One run of one program as its author sees it: sequencer_start, then     *)
(* sequencer_next with results that expect_schema accepts or not, until    *)
(* the driver is terminal.  Durable (Sequencer) says that crashes, sweeps  *)
(* and resumes add nothing to this.  The constants of Driver are what the  *)
(* program does with each result.                                          *)
(***************************************************************************)
EXTENDS Driver, Sequences

CONSTANT MaxRetries   \* bound: no more invalid results than this are submitted

VARIABLES
  driver,    \* the driver of the instance, NoDriver before sequencer_start
  given,     \* history: the params passed to sequencer_start
  accepted   \* history: the results that were valid, in order

vars == <<driver, given, accepted>>

TypeOK ==
  /\ driver \in Drivers \cup {NoDriver}
  /\ given \in Params
  /\ accepted \in Seq(Results)

Init ==
  /\ driver = NoDriver
  /\ given \in Params
  /\ accepted = <<>>

\* sequencer_start with the params given.
Begin ==
  /\ driver = NoDriver
  /\ \E p \in Programs : driver' = Start(p, given)
  /\ UNCHANGED <<given, accepted>>

Awaiting == driver # NoDriver /\ ~ IsTerminal(driver)

\* sequencer_next with a result that the schema accepts.
Submit(r) ==
  /\ Awaiting
  /\ Verdict(driver, r) = "valid"
  /\ driver' = Send(driver, r)
  /\ accepted' = Append(accepted, r)
  /\ UNCHANGED given

\* How often a step of this run was issued again.
Retries == driver.step_no - Len(accepted) - 1

\* sequencer_next with one that it rejects.
Retry(r) ==
  /\ Awaiting
  /\ Verdict(driver, r) = "invalid"
  /\ Retries < MaxRetries
  /\ driver' = Send(driver, r)
  /\ UNCHANGED <<given, accepted>>

Next ==
  \/ Begin
  \/ \E r \in Results : Submit(r)
  \/ \E r \in Results : Retry(r)

\* The agent starts the program and goes on answering until the instance is
\* terminal, and some answer in the end is what the schema asks for: rules 2
\* to 5 of the skill (SKILL.md:21-24).
Fairness ==
  /\ WF_vars(Begin)
  /\ WF_vars(\E r \in Results : Submit(r))

Spec == Init /\ [][Next]_vars /\ Fairness
=============================================================================
