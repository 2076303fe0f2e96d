------------------------------- MODULE Agent -------------------------------
(***************************************************************************)
(* An agent that drives one run by the rules of SKILL.md, over the server  *)
(* of Sequencer: it starts an instance, executes and answers instructions, *)
(* resynchronises when it has lost its place, resumes an instance that is  *)
(* not in memory, and reports and closes one that is over.  Where an error *)
(* tells it what to do, it does that: after TerminalError it starts anew.  *)
(*                                                                         *)
(* A reply is lost when the server ends during the call, when the client   *)
(* gives up on it, or on its way: then the agent's next call comes after   *)
(* what it does not know has happened.  Nobody else calls its server.      *)
(***************************************************************************)
EXTENDS Sequencer

CONSTANTS
  NoId,          \* the agent has no instance
  MaxTroubles,   \* bound: crashes, timeouts, lost replies and losses of context
  MaxInvalid,    \* bound: results that are not what was asked for
  MaxExecuted    \* bound: instructions executed in one run

ASSUME AgentAssumption ==
  /\ NoId \notin Ids
  /\ MaxTroubles \in Nat
  /\ MaxInvalid \in Nat
  /\ MaxExecuted \in Nat

VARIABLES
  phase,      \* "new", "starting", "working", "submitting", "lost",
              \* "archived", "reported", "refused" or "failed": what the agent
              \* does next, or waits for, or how it has ended
  mine,       \* the instance of its run
  known,      \* the state it was last told
  executed,   \* history: how many instructions of this run it executed
  troubles,   \* history: crashes, timeouts, lost replies and contexts
  invalid,    \* history: results it gave that were not valid
  edited,     \* history: a program file was edited
  lapsed      \* history: the log of its run was pruned

agent     == <<phase, mine, known>>
history   == <<executed, troubles, invalid, edited, lapsed>>
agentVars == <<vars, agent, history>>

AgentInit ==
  /\ Init
  /\ \A name \in Names : source[name] # NoProgram
  /\ phase = "new"
  /\ mine = NoId
  /\ known = NoDriver
  /\ executed = 0
  /\ troubles = 0
  /\ invalid = 0
  /\ edited = FALSE
  /\ lapsed = FALSE

Told(d) == phase' = "working" /\ known' = d
Turns(next) == phase' = next /\ UNCHANGED known

-----------------------------------------------------------------------------
(* What the agent does: each is a call, with its sweep E.                  *)

\* ProgramNotFound or StartFailed.
StartRefused(p) ==
  p # NoProgram => \E a \in Params : Start(p, a) = NoDriver

\* Rule 2.  The program may be gone, or no run of it can be started.
AgentStart ==
  /\ phase = "new"
  /\ UNCHANGED history
  /\ \E E \in SUBSET Sweepable, rescan \in BOOLEAN, name \in Names :
       \/ \E a \in Params, id \in Ids :
            /\ SequencerStart(E, rescan, name, a, id)
            /\ mine' = id
            /\ Turns("starting")
       \/ /\ StartRefused(Rescanned(rescan)[name])
          /\ Answer(E, rescan)
          /\ Turns(IF Rescanned(rescan)[name] = NoProgram THEN "refused"
                   ELSE "failed")
          /\ UNCHANGED mine

\* A call with sweep E finds its instance.
Finds(E) == Loaded(mine) /\ mine \notin E

\* _not_in_memory_response
NotInMemory(id) ==
  Turns(IF disk[id].present THEN "archived" ELSE "refused")

\* The agent gives no more than MaxInvalid results that are not valid.
Gives(r) ==
  /\ invalid' = IF Verdict(known, r) = "invalid" THEN invalid + 1 ELSE invalid
  /\ invalid' <= MaxInvalid

\* It executes the instruction it was told, and gives the result r for it.
Executes(r) ==
  /\ phase = "working"
  /\ ~ IsTerminal(known)
  /\ executed < MaxExecuted
  /\ Gives(r)

\* sequencer_next answers TerminalError: "Start a new instance".
StartsAnew ==
  /\ Turns("new")
  /\ mine' = NoId
  /\ executed' = 0

\* Rules 3 to 5: it submits the result.
AgentNext ==
  /\ UNCHANGED <<troubles, edited, lapsed>>
  /\ \E E \in SUBSET Sweepable, r \in Results :
       /\ Executes(r)
       /\ \/ /\ SequencerNext(E, mine, known.step_no, r)
             /\ Turns("submitting")
             /\ executed' = executed + 1
             /\ UNCHANGED mine
          \/ /\ ~ Finds(E)
             /\ Answer(E, FALSE)
             /\ NotInMemory(mine)
             /\ executed' = executed + 1
             /\ UNCHANGED mine
          \/ /\ Finds(E) /\ IsTerminal(driver[mine])
             /\ Answer(E, FALSE)
             /\ StartsAnew
          \/ /\ Finds(E) /\ ~ IsTerminal(driver[mine])
             /\ ~ Awaits(driver[mine], known.step_no)
             /\ Answer(E, FALSE)
             /\ Turns("lost")
             /\ executed' = executed + 1
             /\ UNCHANGED mine

\* Rule 6: it resynchronises.
AgentCurrent ==
  /\ phase = "lost"
  /\ UNCHANGED <<mine, history>>
  /\ \E E \in SUBSET Sweepable :
       \/ SequencerCurrent(E, mine) /\ Told(driver[mine])
       \/ /\ ~ Finds(E)
          /\ Answer(E, FALSE)
          /\ NotInMemory(mine)

\* sequencer_resume finds a log that the registered program can replay.
Resumable(f, table) ==
  /\ Readable(f)
  /\ LET ls == AllLines(f)
         p  == table[NameOf[HeaderOf(ls).program]]
     IN  /\ p # NoProgram
         /\ SameHash(p, HeaderOf(ls))
         /\ RestoredWith(p, ls) # NoDriver

\* It was told to resume.  AlreadyLoaded does not tell it what to do: it has
\* lost its place (rule 6).
AgentResume ==
  /\ phase = "archived"
  /\ UNCHANGED <<mine, history>>
  /\ \E E \in SUBSET Sweepable, rescan \in BOOLEAN :
       \/ SequencerResume(E, rescan, mine) /\ Told(driver'[mine])
       \/ /\ Finds(E)
          /\ Answer(E, rescan)
          /\ Turns("lost")
       \/ /\ ~ Finds(E)
          /\ ~ Resumable(disk[mine], Rescanned(rescan))
          /\ Answer(E, rescan)
          /\ Turns("refused")

\* Rule 7.
AgentClose ==
  /\ phase = "working"
  /\ IsTerminal(known)
  /\ \E E \in SUBSET Sweepable : SequencerClose(E, mine, FALSE)
  /\ Turns("reported")
  /\ UNCHANGED <<mine, history>>

-----------------------------------------------------------------------------
(* The server, and what can go wrong.                                      *)

Log ==
  /\ LogHeader \/ LogResult
  /\ UNCHANGED <<agent, history>>

\* The call ends: with a reply, or AdvanceFailed.  The agent may have given up.
Reply ==
  /\ LogYield
  /\ \/ /\ phase \in {"starting", "submitting"}
        /\ IF call.reply THEN Told(driver[mine]) ELSE Turns("lost")
     \/ /\ phase \notin {"starting", "submitting"}
        /\ UNCHANGED <<phase, known>>
  /\ UNCHANGED <<mine, history>>

\* json.dumps raises on a yield, and the call with it.  Of an instance that was
\* being started the agent gets no id.
YieldRaises ==
  /\ DumpFails
  /\ Turns(CASE phase = "starting"   -> "failed"
             [] phase = "submitting" -> "lost"
             [] OTHER                -> phase)
  /\ mine' = IF phase = "starting" THEN NoId ELSE mine
  /\ UNCHANGED history

Trouble ==
  /\ troubles < MaxTroubles
  /\ troubles' = troubles + 1
  /\ UNCHANGED <<edited, lapsed>>

\* The server ends, and a call that was being executed gets no answer.  The
\* id of an instance that was being started is never known.
Crash ==
  /\ Trouble
  /\ UNCHANGED <<executed, invalid>>
  /\ ExitInAppend \/ \E orderly \in BOOLEAN : Exit(orderly)
  /\ Turns(CASE phase = "starting"   -> "new"
             [] phase = "submitting" -> "lost"
             [] OTHER                -> phase)
  /\ mine' = IF phase = "starting" THEN NoId ELSE mine

\* The agent's client gives up on a call that goes on: the agent starts the run
\* once more, or executes and submits the same step once more.
Timeout ==
  /\ phase \in {"starting", "submitting"}
  /\ Trouble
  /\ UNCHANGED <<executed, invalid>>
  /\ Turns(IF phase = "starting" THEN "new" ELSE "working")
  /\ mine' = IF phase = "starting" THEN NoId ELSE mine
  /\ UNCHANGED vars

\* The reply of a call that appends nothing is lost, and the agent will make the
\* call once more.  Other refusals than those of sequencer_next cost nothing when
\* they are lost: they are left out.
ReplyLost ==
  /\ Trouble
  /\ UNCHANGED agent
  /\ \E E \in SUBSET Sweepable, rescan \in BOOLEAN :
       \/ /\ phase = "lost" /\ SequencerCurrent(E, mine)
          /\ UNCHANGED <<executed, invalid>>
       \/ /\ phase = "archived" /\ SequencerResume(E, rescan, mine)
          /\ UNCHANGED <<executed, invalid>>
       \/ /\ phase = "working" /\ IsTerminal(known)
          /\ SequencerClose(E, mine, FALSE)
          /\ UNCHANGED <<executed, invalid>>
       \/ /\ \E r \in Results : Executes(r)   \* refused
          /\ Finds(E) => ~ Awaits(driver[mine], known.step_no)
          /\ Answer(E, FALSE)
          /\ executed' = executed + 1

\* The agent's context is compacted.
Compact ==
  /\ phase = "working"
  /\ Trouble
  /\ UNCHANGED <<executed, invalid>>
  /\ Turns("lost")
  /\ UNCHANGED <<vars, mine>>

\* The logs that are pruned may be any: the agent may have been idle for weeks.
Restart ==
  /\ \E logs \in SUBSET Ids :
       /\ ServerStart(logs)
       /\ lapsed' = (lapsed \/ mine \in logs)
  /\ UNCHANGED <<agent, executed, troubles, invalid, edited>>

Edit ==
  /\ \E name \in Names, p \in Programs \cup {NoProgram} : EditSource(name, p)
  /\ edited' = TRUE
  /\ UNCHANGED <<agent, executed, troubles, invalid, lapsed>>

AgentStep ==
  \/ AgentStart \/ AgentNext \/ AgentCurrent \/ AgentResume \/ AgentClose

ServerStep == Log \/ Reply \/ YieldRaises \/ Restart

AgentRunNext ==
  AgentStep \/ ServerStep \/ Crash \/ Timeout \/ ReplyLost \/ Compact \/ Edit

\* The agent goes on until it has reported, as the rules demand; a handler
\* runs to its end, and the client starts a server that has ended again.
Fairness == WF_agentVars(AgentStep) /\ WF_agentVars(ServerStep)

AgentSpec == AgentInit /\ [][AgentRunNext]_agentVars /\ Fairness

-----------------------------------------------------------------------------
(* Properties.                                                             *)

\* Whatever crashes, timeouts, lost replies, sweeps, prunes and edits come
\* between, an agent that follows the rules and the error messages ends up with a
\* report, or is refused, or cannot start its run (SKILL.md:18-28).
Finishes == <>(phase \in {"reported", "refused", "failed"})

\* It is refused only when somebody has edited the programs or its run's log was
\* pruned: crashes and lost replies alone never strand a run that the agent
\* knows of (tools.py:341-373, __main__.py:58-62).
NeverStranded == phase = "refused" => edited \/ lapsed

ResultsIn(ls) == {i \in DOMAIN ls : ls[i].type = "result"}

\* A crash, a timeout, a lost reply or context costs the agent one instruction
\* executed in vain or one run started over, and not both: what it executed more
\* than the log holds, and the runs it began beyond the first, are what those
\* took, besides the result it is waiting to have answered (persistence.py:60-61,
\* tools.py:279-297).
OneRedoEach ==
  mine # NoId /\ ~ lapsed =>
    executed + Cardinality(used) <=
      Cardinality(ResultsIn(disk[mine].lines)) + troubles + 1
        + (IF phase = "submitting" THEN 1 ELSE 0)

\* What the agent reports is how the run ended: the log ends there, and goes on
\* doing so until it is pruned.
ReportedTrue ==
  phase = "reported" => /\ IsTerminal(known)
                        /\ lapsed \/ Restored(disk[mine]) = known
=============================================================================
