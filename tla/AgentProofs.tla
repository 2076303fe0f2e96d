----------------------------- MODULE AgentProofs -----------------------------
(***************************************************************************)
(* What the rules of SKILL.md give the agent that follows them, for every  *)
(* program, any number of instances and any number of crashes, timeouts,   *)
(* lost replies, losses of context, prunes and edits.  The arguments are   *)
(* about what the agent knows, beside what RecoveryInv and HistoryInv say  *)
(* of the server.                                                          *)
(***************************************************************************)
EXTENDS Agent, SequencerProofs, FiniteSetTheorems

\* What the theorems on recovery assume.
Sparing == NothingFails /\ ResultsJudged /\ ParamsSpared

-----------------------------------------------------------------------------
(* The inductive invariant.                                                  *)

Phases ==
  {"new", "starting", "working", "submitting", "lost", "archived", "reported",
   "refused", "failed"}

\* The agent has been told the id of its instance.
Knows == mine # NoId /\ phase # "starting"

\* Where the agent stands: it executes nothing before it is told of an instance.
Place ==
  /\ phase \in Phases
  /\ executed \in Nat /\ troubles \in Nat
  /\ mine \in Ids \cup {NoId}
  /\ mine = NoId => phase \in {"new", "refused", "failed"}
  /\ phase \in {"new", "failed"} => mine = NoId
  /\ ~ Knows => executed = 0
  /\ IsFiniteSet(used)

\* It was told where its run was then: the run is there now, or further on,
\* unless its log was pruned.
Acquainted ==
  Knows => /\ known \in Drivers
           /\ ~ lapsed => /\ told[mine] # NoDriver
                          /\ Caught(RestoredFrom(disk[mine].lines), known)

\* The call it waits for is running, about its instance, and going to be answered.
OnCall ==
  phase \in {"starting", "submitting"} => call # Idle /\ call.id = mine /\ call.reply

\* A result of its instance is still to be logged.
Pending == call # Idle /\ call.id = mine /\ Head(call.todo).type = "result"

\* Until its result is logged, the run waits where the agent was told.
Waits == phase = "submitting" /\ Pending => driver[mine] = known

\* It is about to execute an instruction that no longer awaits a result, or
\* whose result finds no instance in memory.
Behind == phase = "working" /\ ~ IsTerminal(known) /\ driver[mine] # known

\* The results in a log.
Count(ls) == Cardinality(ResultsIn(ls))

\* The runs that the agent has started, with those that it has no id of.
Began == Cardinality(used)

\* These three as numbers.
Late     == IF Behind THEN 1 ELSE 0
Open     == IF Pending THEN 1 ELSE 0
Underway == IF phase = "submitting" /\ Pending THEN 1 ELSE 0

\* What the log and the troubles account for and was not executed, is not about
\* to be executed in vain, and was not spent on starting over.
Credit ==
  Count(disk[mine].lines) + troubles + 1 - Began - executed - Late + Underway

\* What was executed of this run and is not, nor is about to be, in its log.
Unlogged == executed - Count(disk[mine].lines) - Open

\* OneRedoEach.  When TerminalError makes the agent start over, all that the log
\* holds is executed again, and Unlogged says that it was executed before.
Redo ==
  /\ phase \in {"new", "starting"} =>
       Began <= troubles + (IF phase = "starting" THEN 1 ELSE 0)
  /\ Knows /\ ~ lapsed => Credit >= 0
  /\ mine # NoId /\ ~ lapsed => Unlogged >= 0

\* How it can have ended.
Outcome ==
  /\ phase = "reported" => IsTerminal(known)
  /\ phase = "refused" => edited \/ lapsed

AgentInv == Place /\ Acquainted /\ OnCall /\ Waits /\ Redo /\ Outcome

\* Of a run whose log was pruned nothing is left.
Lapse ==
  lapsed => /\ Knows /\ phase # "submitting"
            /\ mine \in used /\ ~ disk[mine].present /\ ~ Loaded(mine)

\* p is the program of its name in the search paths.
Listed(p) == source[NameOf[p]] = p

\* As long as nobody edits, every name has a program and every log, written or
\* about to be, is of a program that the server would find.
AsFound ==
  ~ edited =>
    /\ registry = source
    /\ \A name \in Names : source[name] # NoProgram /\ NameOf[source[name]] = name
    /\ \A id \in Ids : disk[id].lines # <<>> => Listed(disk[id].lines[1].program)
    /\ call # Idle /\ Head(call.todo).type = "header" =>
         Listed(Head(call.todo).program)

\* A log is at least as long as its run: no step number is beyond StepNos.
Numbered ==
  \A id \in Ids :
    disk[id].lines # <<>> =>
      RestoredFrom(disk[id].lines).step_no <= Len(disk[id].lines)

FullInv == HistoryInv /\ Numbered /\ AsFound /\ Lapse /\ AgentInv

-----------------------------------------------------------------------------
(* Counting results.                                                         *)

\* There are so many of them.
LEMMA ResultsCounted ==
  ASSUME NEW ls \in Seq(Lines)
  PROVE  IsFiniteSet(ResultsIn(ls)) /\ Count(ls) \in Nat
<1>1. Len(ls) \in Nat /\ DOMAIN ls = 1..Len(ls)
  OBVIOUS
<1>2. IsFiniteSet(1..Len(ls))
  BY <1>1, FS_Interval
<1>3. ResultsIn(ls) \subseteq 1..Len(ls)
  BY <1>1 DEF ResultsIn
<1>4. IsFiniteSet(ResultsIn(ls))
  BY <1>2, <1>3, FS_Subset
<1>5. QED BY <1>4, FS_CardinalityType DEF Count

\* An event more is a result more, or it is not.
LEMMA ResultsAppended ==
  ASSUME NEW ls \in Seq(Lines), NEW e \in Lines
  PROVE  Count(Append(ls, e)) =
           Count(ls) + (IF e.type = "result" THEN 1 ELSE 0)
<1> DEFINE ks == Append(ls, e)
           n  == Len(ls) + 1
<1>1. /\ Len(ls) \in Nat /\ DOMAIN ls = 1..Len(ls) /\ DOMAIN ks = 1..n
      /\ ks[n] = e
      /\ \A i \in 1..Len(ls) : ks[i] = ls[i]
  OBVIOUS
<1>2. n \notin ResultsIn(ls)
  BY <1>1 DEF ResultsIn
<1>3. IsFiniteSet(ResultsIn(ls)) /\ Count(ls) \in Nat
  BY ResultsCounted
<1> HIDE DEF ks
<1>4. ResultsIn(ks) =
        IF e.type = "result" THEN ResultsIn(ls) \cup {n} ELSE ResultsIn(ls)
  BY <1>1 DEF ResultsIn
<1> HIDE DEF n
<1>5. CASE e.type = "result"
  <2>1. Cardinality(ResultsIn(ls) \cup {n}) = Cardinality(ResultsIn(ls)) + 1
    BY <1>2, <1>3, FS_AddElement
  <2> QED BY <1>4, <1>5, <2>1 DEF Count, ks
<1>6. CASE e.type # "result"
  BY <1>3, <1>4, <1>6 DEF Count, ks
<1>7. QED BY <1>5, <1>6

-----------------------------------------------------------------------------
(* Step numbers stay below the length of the log.                            *)

\* A run starts at step 1 or, if it is over at once, at step 0.
LEMMA StartNumber ==
  ASSUME NEW p \in Programs, NEW a \in Params, Start(p, a) # NoDriver
  PROVE  Start(p, a).step_no <= 1
<1> DEFINE g == Entry[<<p, a>>]
           d == NewDriver(p, g)
<1>1. g \in GenStates
  BY ProgramAssumption
<1>2. d \in Drivers /\ d.step_no = 0
  BY <1>1 DEF NewDriver, Drivers, States, LastYields
<1>3. Start(p, a) = Reach(d, g)
  BY DEF Start, Launch
<1>4. Moved(d, Reach(d, g))
  BY <1>1, <1>2, ReachMoved
<1>5. QED BY <1>2, <1>3, <1>4 DEF Moved

\* Each result takes a run one step on, and a line in the log.
LEMMA NumberedKept ==
  ASSUME ResultsJudged, RecoveryInv', AllGood, LogSteps, Numbered
  PROVE  Numbered'
<1> SUFFICES ASSUME NEW id \in Ids, disk'[id].lines # <<>>
             PROVE  RestoredFrom(disk'[id].lines).step_no <= Len(disk'[id].lines)
  BY DEF Numbered
<1> DEFINE ls == disk[id].lines
           ks == disk'[id].lines
<1>1. LogStep(ls, ks)
  BY DEF LogSteps
<1>2. CASE ks = ls
  BY <1>2 DEF Numbered
<1>3. CASE ls = <<>> /\ \E h \in HeaderEvents : ks = <<h>>
  <2>1. PICK h \in HeaderEvents : ks = <<h>>
    BY <1>3
  <2>2. h.program \in Programs /\ h.params \in Params
    BY DEF HeaderEvents
  <2>3. RestoredFrom(ks) = Start(h.program, h.params)
    BY <2>1, RestoredHeader
  <2>4. RestoredFrom(ks) # NoDriver
    BY DEF RecoveryInv, WholeLines
  <2>5. Len(ks) = 1
    BY <2>1
  <2> QED BY <2>2, <2>3, <2>4, <2>5, StartNumber
<1>4. CASE Grows(ls, ks)
  <2> DEFINE d == RestoredFrom(ls)
  <2>1. /\ ls # <<>> /\ GoodLog(ls) /\ ls \in Seq(Events) /\ Len(ls) \in Nat
        /\ d \in Drivers
    BY <1>4 DEF Grows, IsLog, AllGood
  <2>2. d.step_no \in Nat /\ d.step_no <= Len(ls)
    BY <2>1 DEF Drivers, Numbered
  <2>3. RestoredFrom(ks) = d \/ Moved(d, RestoredFrom(ks))
    BY <1>4, <2>1, YieldGood, ResultGood DEF Grows
  <2>4. Len(ks) = Len(ls) + 1
    BY <1>4, <2>1 DEF Grows
  <2> HIDE DEF d, ls, ks
  <2>5. RestoredFrom(ks).step_no <= Len(ks)
    BY <2>1, <2>2, <2>3, <2>4 DEF Moved
  <2> QED BY <2>5 DEF ks
<1>5. QED BY <1>1, <1>2, <1>3, <1>4 DEF LogStep

-----------------------------------------------------------------------------
(* Every step is a step of Sequencer.                                        *)

\* With nothing in the buffers, a call only removes instances from memory.
LEMMA CallSweeps ==
  ASSUME HistoryInv
  PROVE  \A E : Closed(E) = disk
BY ClosedSame DEF HistoryInv

\* The number that the agent answers is one that Sequencer knows.
LEMMA NumberIsKnown ==
  ASSUME FullInv, mine \in Ids, NEW E, NEW r \in Results,
         SequencerNext(E, mine, known.step_no, r)
  PROVE  known.step_no \in StepNos
<1> DEFINE ls == disk[mine].lines
<1>1. /\ Loaded(mine) /\ call = Idle /\ known.step_no = driver[mine].step_no
      /\ Len(ls) + Len(log[mine].buf) + 2 <= MaxEvents
  BY DEF SequencerNext, Enter, Awaits
<1>2. ls # <<>> /\ RestoredFrom(ls) = driver[mine] /\ ls \in Seq(Lines)
  BY <1>1 DEF FullInv, HistoryInv, RecoveryInv, InMemory, Unborn, TypeInv, TypeOK,
     Files
<1>3. /\ log[mine].buf = <<>> /\ Len(ls) \in Nat /\ driver[mine].step_no \in Nat
  BY <1>1, <1>2 DEF FullInv, HistoryInv, RecoveryInv, WholeLines, TypeInv, TypeOK,
     Loaded, Drivers
<1>4. driver[mine].step_no <= Len(ls)
  BY <1>2 DEF FullInv, Numbered
<1>5. Len(log[mine].buf) = 0
  BY <1>3
<1>6. MaxEvents \in Nat
  BY SequencerAssumption
<1> HIDE DEF ls
<1>7. QED BY <1>1, <1>3, <1>4, <1>5, <1>6 DEF StepNos

\* What the agent calls, and what goes on around it, is what Sequencer models.
LEMMA AgentIsNext ==
  ASSUME FullInv, [AgentRunNext]_agentVars
  PROVE  [Next]_vars
<1>1. phase \in {"working", "submitting", "lost", "archived"} => mine \in Ids
  BY DEF FullInv, AgentInv, Place
<1>2. ASSUME NEW E \in SUBSET Sweepable, NEW rescan \in BOOLEAN, Answer(E, rescan)
      PROVE  Next
  BY <1>2 DEF Next, ServerNext, OtherCall
<1>3. CASE AgentStart
  <2>1. PICK E \in SUBSET Sweepable, rescan \in BOOLEAN, name \in Names :
          \/ \E a \in Params, id \in Ids : SequencerStart(E, rescan, name, a, id)
          \/ Answer(E, rescan)
    BY <1>3 DEF AgentStart
  <2>2. CASE \E a \in Params, id \in Ids : SequencerStart(E, rescan, name, a, id)
    BY <2>2 DEF Next, ServerNext, StartCall
  <2> QED BY <1>2, <2>1, <2>2
<1>4. CASE AgentNext
  <2>1. PICK E \in SUBSET Sweepable, r \in Results :
          /\ phase = "working"
          /\ \/ SequencerNext(E, mine, known.step_no, r)
             \/ Answer(E, FALSE)
    BY <1>4 DEF AgentNext, Executes
  <2>2. CASE SequencerNext(E, mine, known.step_no, r)
    <3>1. mine \in Ids
      BY <1>1, <2>1
    <3>2. known.step_no \in StepNos
      BY <2>2, <3>1, NumberIsKnown
    <3> QED BY <2>2, <3>1, <3>2 DEF Next, ServerNext, NextCall
  <2> QED BY <1>2, <2>1, <2>2
<1>5. CASE AgentCurrent
  <2>1. mine \in Ids
    BY <1>1, <1>5 DEF AgentCurrent
  <2> QED BY <1>2, <1>5, <2>1 DEF AgentCurrent, Next, ServerNext, CurrentCall
<1>6. CASE AgentResume
  <2>1. mine \in Ids
    BY <1>1, <1>6 DEF AgentResume
  <2> QED BY <1>2, <1>6, <2>1 DEF AgentResume, Next, ServerNext, ResumeCall
<1>7. CASE AgentClose
  <2>1. mine \in Ids
    BY <1>1, <1>7 DEF AgentClose
  <2> QED BY <1>7, <2>1 DEF AgentClose, Next, ServerNext, CloseCall
<1>8. CASE ServerStep
  BY <1>8 DEF ServerStep, Log, Reply, YieldRaises, Restart, Next, ServerNext
<1>9. CASE Crash
  BY <1>9 DEF Crash, Next, ServerNext
<1>10. CASE ReplyLost
  <2>1. PICK E \in SUBSET Sweepable, rescan \in BOOLEAN :
          \/ phase = "lost" /\ SequencerCurrent(E, mine)
          \/ phase = "archived" /\ SequencerResume(E, rescan, mine)
          \/ phase = "working" /\ SequencerClose(E, mine, FALSE)
          \/ Answer(E, FALSE)
    BY <1>10 DEF ReplyLost
  <2> QED
    BY <1>1, <1>2, <2>1 DEF Next, ServerNext, CurrentCall, ResumeCall, CloseCall
<1>11. CASE Timeout \/ Compact
  BY <1>11 DEF Timeout, Compact
<1>12. CASE Edit
  BY <1>12 DEF Edit, Next
<1>13. CASE UNCHANGED agentVars
  BY <1>13 DEF agentVars
<1>14. QED
  BY <1>3, <1>4, <1>5, <1>6, <1>7, <1>8, <1>9, <1>10, <1>11, <1>12, <1>13
     DEF AgentRunNext, AgentStep

-----------------------------------------------------------------------------
(* Appends.                                                                  *)

\* What a call has to append, by its first event.
LEMMA CallKinds ==
  ASSUME HistoryInv, Executing
  PROVE  /\ call.id \in Ids /\ driver[call.id] \in Drivers
         /\ \/ /\ Head(call.todo).type = "header"
               /\ disk[call.id].lines = <<>>
               /\ Head(call.todo) \in Events
               /\ Head(Tail(call.todo)).type = "yield" /\ Tail(call.todo) # <<>>
            \/ /\ Head(call.todo).type = "yield"
               /\ disk[call.id].lines # <<>>
               /\ Head(call.todo) \in Events
            \/ /\ Head(call.todo).type = "result"
               /\ disk[call.id].lines # <<>>
               /\ Head(call.todo) \in Events
               /\ Head(call.todo).result \in Results
<1>1. call # Idle /\ call.id \in Ids /\ driver[call.id] \in Drivers
  BY UnwrittenType DEF HistoryInv, RecoveryInv, Executing
<1>2. YieldEvent(driver[call.id]) \in YieldEvents
  BY <1>1 DEF YieldEvent, YieldEvents, Drivers
<1>3. CASE /\ disk[call.id].lines = <<>>
           /\ \E p \in Programs, a \in Params :
                call.todo = <<HeaderEvent(p, ParamsLeft[<<p, a>>]),
                              YieldEvent(driver[call.id])>>
  <2>1. PICK p \in Programs, a \in Params :
          call.todo = <<HeaderEvent(p, ParamsLeft[<<p, a>>]), YieldEvent(driver[call.id])>>
    BY <1>3
  <2>2. HeaderEvent(p, ParamsLeft[<<p, a>>]) \in HeaderEvents
    BY ProgramAssumption DEF HeaderEvent, HeaderEvents
  <2>3. Head(call.todo) = HeaderEvent(p, ParamsLeft[<<p, a>>])
    BY <2>1
  <2>4. Tail(call.todo) = <<YieldEvent(driver[call.id])>>
    BY <2>1
  <2> QED BY <1>1, <1>2, <1>3, <2>2, <2>3, <2>4, EventKinds
<1>4. CASE /\ disk[call.id].lines # <<>>
           /\ call.todo = <<YieldEvent(driver[call.id])>>
  BY <1>1, <1>2, <1>4, EventKinds
<1>5. CASE /\ disk[call.id].lines # <<>>
           /\ \E r \in Results :
                call.todo = <<ResultEvent(driver[call.id].step_no, r)>>
  <2>1. PICK r \in Results : call.todo = <<ResultEvent(driver[call.id].step_no, r)>>
    BY <1>5
  <2>2. ResultEvent(driver[call.id].step_no, r) \in ResultEvents
    BY <1>1 DEF ResultEvent, ResultEvents, Drivers
  <2> QED BY <1>1, <1>5, <2>1, <2>2, EventKinds DEF ResultEvent
<1>6. QED BY <1>1, <1>3, <1>4, <1>5 DEF HistoryInv, RecoveryInv, Continues

\* Logs are sequences of lines, and their results are counted.
LEMMA LogsCounted ==
  ASSUME HistoryInv
  PROVE  \A id \in Ids : disk[id].lines \in Seq(Lines) /\ Count(disk[id].lines) \in Nat
<1>1. \A id \in Ids : disk[id].lines \in Seq(Lines)
  BY DEF HistoryInv, RecoveryInv, TypeInv, TypeOK, Files
<1>2. QED BY <1>1, ResultsCounted

\* An append counts if it is of a result.
LEMMA AppendCounts ==
  ASSUME HistoryInv, Executing, AppendEvent, NEW id \in Ids
  PROVE  Count(disk'[id].lines) =
           Count(disk[id].lines)
             + (IF id = call.id /\ Head(call.todo).type = "result" THEN 1 ELSE 0)
<1> DEFINE e == Head(call.todo)
<1>1. call.id \in Ids /\ e \in Events
  BY CallKinds
<1>2. /\ \A i \in Ids \ {call.id} : disk'[i] = disk[i]
      /\ disk'[call.id] = [disk[call.id] EXCEPT !.lines = Append(disk[call.id].lines, e)]
  BY <1>1, OneLine DEF HistoryInv
<1>3. CASE id # call.id
  <2>1. Count(disk[id].lines) \in Nat
    BY LogsCounted
  <2> QED BY <1>2, <1>3, <2>1
<1>4. CASE id = call.id
  <2> DEFINE f == disk[id]
             q == Append(f.lines, e)
  <2>1. disk'[id] = [f EXCEPT !.lines = q]
    BY <1>2, <1>4
  <2>2. f \in Files /\ f.lines \in Seq(Lines)
    BY DEF HistoryInv, RecoveryInv, TypeInv, TypeOK, Files
  <2>3. Count(q) = Count(f.lines) + (IF e.type = "result" THEN 1 ELSE 0)
    BY <1>1, <2>2, EventIsText, ResultsAppended
  <2> HIDE DEF q, f, e
  <2>4. disk'[id].lines = q
    BY <2>1, <2>2 DEF Files
  <2> QED BY <1>4, <2>3, <2>4 DEF f, e
<1>5. QED BY <1>3, <1>4

-----------------------------------------------------------------------------
(* A run whose log was pruned.                                               *)

\* What is neither in memory nor on disk does not come back.
LEMMA GoneStays ==
  ASSUME HistoryInv, NothingFails, [Next]_vars,
         NEW id \in Ids, id \in used, ~ disk[id].present, ~ Loaded(id)
  PROVE  id \in used' /\ ~ disk'[id].present /\ ~ Loaded(id)'
<1>1. \A E : Closed(E) = disk
  BY CallSweeps
<1>2. /\ disk \in [Ids -> Files] /\ driver \in [Ids -> Drivers \cup {NoDriver}]
      /\ NoFile.present = FALSE
  BY DEF HistoryInv, RecoveryInv, TypeInv, TypeOK, NoFile
<1>3. \A E : Kept(E)[id] = NoDriver
  BY DEF Kept, Loaded
<1>4. CASE StartCall
  <2>1. PICK E \in SUBSET Sweepable, rescan \in BOOLEAN, name \in Names,
            a \in Params, j \in Ids : SequencerStart(E, rescan, name, a, j)
    BY <1>4 DEF StartCall
  <2>2. j # id /\ id \in used'
    BY <2>1 DEF SequencerStart
  <2>3. disk'[id] = disk[id]
    BY <1>1, <1>2, <2>1, <2>2 DEF SequencerStart
  <2>4. driver'[id] = NoDriver
    BY <1>3, <2>1, <2>2 DEF SequencerStart, Kept
  <2> QED BY <2>2, <2>3, <2>4 DEF Loaded
<1>5. CASE NextCall \/ CurrentCall \/ OtherCall
  BY <1>1, <1>3, <1>5
     DEF NextCall, CurrentCall, OtherCall, SequencerNext, SequencerCurrent, Answer, Loaded
<1>6. CASE ResumeCall
  <2>1. PICK E \in SUBSET Sweepable, rescan \in BOOLEAN, j \in Ids :
            SequencerResume(E, rescan, j)
    BY <1>6 DEF ResumeCall
  <2>2. Readable(disk[j]) /\ disk' = disk /\ id \in used'
    BY <1>1, <2>1 DEF SequencerResume
  <2>3. j # id
    BY <2>2 DEF Readable
  <2>4. driver'[id] = NoDriver
    BY <1>3, <2>1, <2>3 DEF SequencerResume, Kept
  <2> QED BY <2>2, <2>4 DEF Loaded
<1>7. CASE CloseCall
  <2>1. PICK E \in SUBSET Sweepable, j \in Ids, delete_log \in BOOLEAN :
            SequencerClose(E, j, delete_log)
    BY <1>7 DEF CloseCall
  <2>2. disk' \in {disk, [disk EXCEPT ![j] = NoFile]} /\ id \in used'
    BY <1>1, <2>1 DEF SequencerClose
  <2>3. driver'[id] = NoDriver
    BY <1>3, <2>1 DEF SequencerClose
  <2> QED BY <1>2, <2>2, <2>3 DEF Loaded
<1>8. CASE LogHeader \/ LogResult \/ LogYield
  <2>1. Executing /\ AppendEvent /\ used' = used
    BY <1>8 DEF LogHeader, LogResult, LogYield
  <2>2. /\ call.id # id /\ Head(call.todo) \in Events
    BY <2>1, CallKinds, NoDriverAssumption DEF Loaded
  <2>3. disk'[id] = disk[id]
    BY <2>1, <2>2, OneLine DEF HistoryInv
  <2>4. driver'[id] = driver[id]
    BY <1>2, <1>8, <2>2 DEF LogHeader, LogResult, LogYield
  <2> QED BY <2>1, <2>3, <2>4 DEF Loaded
<1>9. CASE DumpFails
  BY <1>9 DEF DumpFails, shared, Loaded
<1>10. CASE \E orderly \in BOOLEAN : Exit(orderly)
  BY <1>1, <1>10 DEF Exit, Leave, Loaded
<1>11. CASE \E pruned \in SUBSET Ids : ServerStart(pruned)
  BY <1>2, <1>11 DEF ServerStart, Loaded
<1>12. CASE \E name \in Names, p \in Programs \cup {NoProgram} : EditSource(name, p)
  BY <1>12 DEF EditSource, local, Loaded
<1>13. CASE UNCHANGED vars
  BY <1>13 DEF vars, shared, local, Loaded
<1>14. QED
  BY <1>4, <1>5, <1>6, <1>7, <1>8, <1>9, <1>10, <1>11, <1>12, <1>13, NothingFailed
     DEF Next, ServerNext

\* Only the start of a server prunes the log of a run (__main__.py:58-62), and
\* the agent does not go on with it (tools.py:341-346).
LEMMA LapseKept ==
  ASSUME FullInv, NothingFails, [AgentRunNext]_agentVars
  PROVE  Lapse'
<1> SUFFICES ASSUME lapsed' PROVE Lapse'
  BY DEF Lapse
<1>1. CASE ~ lapsed
  <2>1. CASE Restart
    <3>1. PICK logs \in SUBSET Ids : ServerStart(logs) /\ mine \in logs
      BY <1>1, <2>1 DEF Restart
    <3>2. mine \in Ids /\ disk[mine].present /\ ~ up
      BY <3>1 DEF ServerStart
    <3>3. call = Idle /\ ~ Loaded(mine)
      BY <3>2 DEF FullInv, HistoryInv, RecoveryInv, DownIsEmpty
    <3>4. mine # NoId /\ phase \notin {"starting", "submitting"}
      BY <3>2, <3>3, AgentAssumption DEF FullInv, AgentInv, OnCall
    <3>5. mine \in used
      BY <3>2 DEF FullInv, HistoryInv, RecoveryInv, Drawn, NoFile
    <3>6. disk'[mine] = NoFile /\ used' = used /\ driver' = driver
      BY <3>1, <3>2 DEF ServerStart
    <3>7. phase' = phase /\ mine' = mine
      BY <2>1 DEF Restart, agent
    <3> QED BY <3>3, <3>4, <3>5, <3>6, <3>7 DEF Lapse, Knows, Loaded, NoFile
  <2>2. CASE ~ Restart
    BY <1>1, <2>2 DEF AgentRunNext, AgentStep, ServerStep, AgentStart, AgentNext,
       AgentCurrent, AgentResume, AgentClose, Log, Reply, YieldRaises, Crash, Timeout,
       ReplyLost, Compact, Trouble, Edit, history, agentVars
  <2> QED BY <2>1, <2>2
<1>2. CASE lapsed
  <2>1. /\ Knows /\ phase # "submitting" /\ phase \in Phases
        /\ mine \in used /\ ~ disk[mine].present /\ ~ Loaded(mine)
        /\ mine \in Ids /\ mine # NoId /\ phase \notin {"new", "starting", "failed"}
    BY <1>2 DEF FullInv, Lapse, AgentInv, Place, Knows
  <2>2. mine \in used' /\ ~ disk'[mine].present /\ driver'[mine] = NoDriver
    BY <2>1, AgentIsNext, GoneStays DEF FullInv, Loaded
  <2>3. mine' = mine /\ phase' \notin {"starting", "submitting"}
    <3>1. CASE AgentStart
      BY <2>1, <3>1 DEF AgentStart
    <3>2. CASE AgentNext
      BY <2>1, <3>2 DEF AgentNext, Executes, SequencerNext, Finds, NotInMemory, Turns
    <3>3. CASE AgentCurrent \/ AgentResume \/ AgentClose
      BY <3>3 DEF AgentCurrent, AgentResume, AgentClose, Told, Turns, NotInMemory
    <3>4. CASE ServerStep
      BY <2>1, <3>4 DEF ServerStep, Log, Reply, YieldRaises, Restart, agent, Turns
    <3>5. CASE Crash \/ Timeout \/ ReplyLost \/ Compact
      BY <2>1, <3>5 DEF Crash, Timeout, ReplyLost, Compact, agent, Turns, Phases
    <3>6. CASE Edit \/ UNCHANGED agentVars
      BY <2>1, <3>6 DEF Edit, agent, agentVars
    <3> QED BY <3>1, <3>2, <3>3, <3>4, <3>5, <3>6 DEF AgentRunNext, AgentStep
  <2> QED BY <2>1, <2>2, <2>3 DEF Lapse, Knows, Loaded
<1>3. QED BY <1>1, <1>2

-----------------------------------------------------------------------------
(* What every step leaves the agent.                                         *)

\* What the agent knows of its run stays true while the run exists.
LEMMA RunGoesOn ==
  ASSUME FullInv, HistoryInv', LogSteps, ResultsJudged,
         Knows, ~ lapsed, told'[mine] # NoDriver
  PROVE  Caught(RestoredFrom(disk'[mine].lines), known)
<1> DEFINE ls == disk[mine].lines
           ks == disk'[mine].lines
<1>1. /\ mine \in Ids /\ told[mine] # NoDriver /\ known \in Drivers
      /\ Caught(RestoredFrom(ls), known)
  BY DEF FullInv, AgentInv, Place, Acquainted, Knows
<1>2. ls # <<>>
  BY <1>1, ToldHasLog DEF FullInv, HistoryInv
<1>3. ks # <<>>
  <2>1. Len(<<>>) = 0
    OBVIOUS
  <2> QED BY <1>1, <2>1 DEF HistoryInv, RecoveryInv, InLog
<1>4. GoodLog(ls) /\ LogStep(ls, ks)
  BY <1>1, <1>2 DEF FullInv, HistoryInv, AllGood, LogSteps
<1> HIDE DEF ls, ks
<1>5. Caught(RestoredFrom(ks), known)
  BY <1>1, <1>3, <1>4, StaysAhead
<1>6. QED BY <1>5 DEF ls, ks

\* An instance in memory is what its log replays to when no call is running.
LEMMA MemoryIsLog ==
  ASSUME HistoryInv, NEW id \in Ids, Loaded(id), call = Idle
  PROVE  /\ driver[id] \in Drivers
         /\ RestoredFrom(disk[id].lines) = driver[id]
BY DEF HistoryInv, RecoveryInv, InMemory, Unborn, Loaded, TypeInv, TypeOK

\* A driver has caught up with itself.
LEMMA CaughtSelf == \A d : Caught(d, d)
BY DEF Caught, NotBehind

\* What is counted are numbers.
LEMMA Numbers ==
  ASSUME FullInv
  PROVE  /\ executed \in Nat /\ troubles \in Nat /\ Began \in Nat
         /\ Late \in {0, 1} /\ Open \in {0, 1} /\ Underway \in {0, 1}
         /\ mine # NoId => /\ mine \in Ids
                           /\ Count(disk[mine].lines) \in Nat
                           /\ Credit \in Int /\ Unlogged \in Int
<1>1. /\ executed \in Nat /\ troubles \in Nat /\ IsFiniteSet(used)
      /\ mine \in Ids \cup {NoId}
  BY DEF FullInv, AgentInv, Place
<1>2. Began \in Nat
  BY <1>1, FS_CardinalityType DEF Began
<1>3. Late \in {0, 1} /\ Open \in {0, 1} /\ Underway \in {0, 1}
  BY DEF Late, Open, Underway
<1>4. ASSUME mine # NoId
      PROVE  mine \in Ids /\ Count(disk[mine].lines) \in Nat
  BY <1>1, <1>4, LogsCounted DEF FullInv
<1>5. ASSUME mine # NoId
      PROVE  Credit \in Int /\ Unlogged \in Int
  BY <1>1, <1>2, <1>3, <1>4, <1>5 DEF Credit, Unlogged
<1>6. QED BY <1>1, <1>2, <1>3, <1>4, <1>5

\* How a step that leaves the agent with its run changes what is counted: c
\* results are logged, x instructions executed, t troubles met.
LEMMA Accounts ==
  ASSUME FullInv, mine # NoId, mine' = mine, used' = used,
         NEW c \in Nat, NEW x \in Nat, NEW t \in Nat,
         Count(disk'[mine].lines) = Count(disk[mine].lines) + c,
         executed' = executed + x, troubles' = troubles + t
  PROVE  /\ Late' + x + Underway <= Late + Underway' + c + t => Credit' >= Credit
         /\ Open' + c <= Open + x => Unlogged' >= Unlogged
         /\ Credit' \in Int /\ Unlogged' \in Int
         /\ executed' \in Nat /\ troubles' \in Nat
<1> DEFINE n == Count(disk[mine].lines)
           k == Count(disk'[mine].lines)
<1>1. /\ executed \in Nat /\ troubles \in Nat /\ Began \in Nat /\ n \in Nat
      /\ Late \in Int /\ Open \in Int /\ Underway \in Int
      /\ Credit \in Int /\ Unlogged \in Int
  BY Numbers DEF Late, Open, Underway
<1>2. Late' \in Int /\ Open' \in Int /\ Underway' \in Int
  BY DEF Late, Open, Underway
<1>3. Began' = Began
  BY DEF Began
<1>4. Credit = n + troubles + 1 - Began - executed - Late + Underway
  BY DEF Credit
<1>5. Credit' = k + troubles' + 1 - Began' - executed' - Late' + Underway'
  BY DEF Credit
<1>6. Unlogged = executed - n - Open
  BY DEF Unlogged
<1>7. Unlogged' = executed' - k - Open'
  BY DEF Unlogged
<1>8. k = n + c
  OBVIOUS
<1> HIDE DEF n, k
<1>9. executed' \in Nat /\ troubles' \in Nat /\ k \in Nat
  BY <1>1, <1>8
<1>10. /\ Credit' =
             n + c + (troubles + t) + 1 - Began - (executed + x) - Late' + Underway'
       /\ Unlogged' = (executed + x) - (n + c) - Open'
       /\ Credit' \in Int /\ Unlogged' \in Int
  <2>1. executed' = executed + x /\ troubles' = troubles + t
    OBVIOUS
  <2> QED BY <1>1, <1>2, <1>3, <1>5, <1>7, <1>8, <2>1
<1>11. c \in Int /\ x \in Int /\ t \in Int
  OBVIOUS
<1>12. Late' + x + Underway <= Late + Underway' + c + t => Credit' >= Credit
  <2>1. Credit' - Credit = (Late + Underway' + c + t) - (Late' + x + Underway)
    BY <1>1, <1>2, <1>4, <1>10, <1>11
  <2>2. /\ Late' + x + Underway \in Int /\ Late + Underway' + c + t \in Int
        /\ Credit' \in Int /\ Credit \in Int
    BY <1>1, <1>2, <1>10, <1>11
  <2> QED BY <2>1, <2>2
<1>13. Open' + c <= Open + x => Unlogged' >= Unlogged
  <2>1. Unlogged' - Unlogged = (Open + x) - (Open' + c)
    BY <1>1, <1>2, <1>6, <1>10, <1>11
  <2>2. /\ Open' + c \in Int /\ Open + x \in Int
        /\ Unlogged' \in Int /\ Unlogged \in Int
    BY <1>1, <1>2, <1>10, <1>11
  <2> QED BY <2>1, <2>2
<1>14. QED BY <1>9, <1>10, <1>12, <1>13

\* The agent keeps its run: it knows it as before, and has gained no debt.
LEMMA KeepsRun ==
  ASSUME FullInv, HistoryInv', LogSteps, ResultsJudged, Knows,
         mine' = mine, known' = known, used' = used, lapsed => lapsed',
         phase' \in Phases \ {"new", "starting", "failed"},
         executed' \in Nat, troubles' \in Nat,
         OnCall', Waits', Outcome',
         ~ lapsed' => /\ told'[mine] # NoDriver
                      /\ Credit' \in Int /\ Credit' >= Credit
                      /\ Unlogged' \in Int /\ Unlogged' >= Unlogged
  PROVE  AgentInv'
<1>1. /\ mine \in Ids /\ mine # NoId /\ known \in Drivers /\ IsFiniteSet(used)
      /\ Credit \in Int /\ Unlogged \in Int
  BY Numbers DEF FullInv, AgentInv, Place, Acquainted, Knows
<1>2. Place'
  BY <1>1 DEF Place, Knows
<1>3. Acquainted'
  BY <1>1, RunGoesOn DEF Acquainted
<1>4. Redo'
  <2>1. ~ lapsed => Credit >= 0 /\ Unlogged >= 0
    BY <1>1 DEF FullInv, AgentInv, Redo
  <2>2. ~ lapsed' => Credit' >= 0 /\ Unlogged' >= 0
    BY <1>1, <2>1
  <2> QED BY <2>2 DEF Redo
<1>5. QED BY <1>2, <1>3, <1>4 DEF AgentInv

\* An agent that knows no run has nothing to know of it.
LEMMA UnknownKeeps ==
  ASSUME ~ Knows', Place', OnCall', Redo', Outcome'
  PROVE  AgentInv'
<1>1. Acquainted'
  BY DEF Acquainted
<1>2. phase' # "submitting"
  BY DEF Place, Knows
<1>3. Waits'
  BY <1>2 DEF Waits
<1>4. QED BY <1>1, <1>3 DEF AgentInv

\* The agent turns to something else than executing, and its run stays as it is.
LEMMA TurnsAway ==
  ASSUME FullInv, HistoryInv', LogSteps, ResultsJudged, Knows, ~ Pending,
         mine' = mine, known' = known, used' = used, lapsed' = lapsed,
         told' = told, disk' = disk, ~ Pending',
         phase' \in {"lost", "archived", "reported", "refused"},
         executed' = executed + Late, troubles' = troubles,
         Outcome'
  PROVE  AgentInv'
<1>1. /\ mine # NoId /\ Late \in Nat /\ Late' = 0 /\ Open = 0 /\ Open' = 0
      /\ Underway = 0 /\ Underway' = 0 /\ Count(disk[mine].lines) \in Nat
  BY Numbers DEF Knows, Late, Open, Underway, Behind
<1>2. /\ Credit' >= Credit /\ Unlogged' >= Unlogged
      /\ Credit' \in Int /\ Unlogged' \in Int
      /\ executed' \in Nat /\ troubles' \in Nat
  <2>1. Count(disk'[mine].lines) = Count(disk[mine].lines) + 0
    BY <1>1
  <2>2. troubles' = troubles + 0
    BY Numbers
  <2> QED BY <1>1, <2>1, <2>2, Accounts
<1>3. OnCall' /\ Waits'
  BY DEF OnCall, Waits
<1>4. ~ lapsed => told'[mine] # NoDriver
  BY DEF FullInv, AgentInv, Acquainted
<1>5. QED BY <1>2, <1>3, <1>4, KeepsRun DEF Phases

\* The agent stays where it is, while something happens that gives it nothing
\* more to redo, unless it is a trouble.
LEMMA StandsStill ==
  ASSUME FullInv, HistoryInv', LogSteps, ResultsJudged,
         phase' = phase, mine' = mine, known' = known, used' = used,
         executed' = executed, NEW t \in {0, 1}, troubles' = troubles + t,
         edited => edited', lapsed => lapsed',
         Knows /\ ~ lapsed' => told'[mine] # NoDriver,
         mine # NoId /\ ~ lapsed' =>
           Count(disk'[mine].lines) = Count(disk[mine].lines),
         OnCall', Waits',
         Pending' => Pending,
         phase = "submitting" /\ Pending => Pending',
         Behind' => Behind \/ t = 1
  PROVE  AgentInv'
<1>1. Outcome'
  BY DEF FullInv, AgentInv, Outcome
<1>2. executed' \in Nat /\ troubles' \in Nat /\ troubles' >= troubles
  BY Numbers
<1>3. Late' <= Late + t /\ Underway <= Underway' /\ Open' <= Open
  BY DEF Late, Underway, Open
<1>4. ASSUME mine # NoId, ~ lapsed'
      PROVE  /\ Credit' \in Int /\ Credit' >= Credit
             /\ Unlogged' \in Int /\ Unlogged' >= Unlogged
  <2>1. Count(disk'[mine].lines) = Count(disk[mine].lines) + 0
    BY <1>4, Numbers
  <2>2. executed' = executed + 0
    BY Numbers
  <2>3. Late' \in {0, 1} /\ Underway' \in {0, 1} /\ Open' \in {0, 1}
    BY DEF Late, Underway, Open
  <2>4. Late' + 0 + Underway <= Late + Underway' + 0 + t /\ Open' + 0 <= Open + 0
    BY <1>3, <2>3, Numbers
  <2> QED BY <1>4, <2>1, <2>2, <2>4, Accounts
<1>5. CASE Knows
  <2>1. phase' \in Phases \ {"new", "starting", "failed"} /\ mine # NoId
    BY <1>5 DEF FullInv, AgentInv, Place, Knows
  <2> QED BY <1>1, <1>2, <1>4, <1>5, <2>1, KeepsRun
<1>6. CASE ~ Knows
  <2>1. Place'
    BY <1>2 DEF FullInv, AgentInv, Place, Knows
  <2>2. Redo'
    <3>1. /\ Began \in Nat /\ Began' = Began /\ troubles \in Nat
          /\ mine # NoId => Credit \in Int /\ Unlogged \in Int
      BY Numbers DEF Began
    <3>2. phase \in {"new", "starting"} =>
            Began <= troubles + (IF phase = "starting" THEN 1 ELSE 0)
      BY DEF FullInv, AgentInv, Redo
    <3>3. phase' \in {"new", "starting"} =>
            Began' <= troubles' + (IF phase' = "starting" THEN 1 ELSE 0)
      BY <1>2, <3>1, <3>2
    <3>4. mine # NoId /\ ~ lapsed' => Unlogged' >= 0
      <4>1. mine # NoId /\ ~ lapsed => Unlogged >= 0
        BY DEF FullInv, AgentInv, Redo
      <4> QED BY <1>4, <3>1, <4>1
    <3> QED BY <1>6, <3>3, <3>4 DEF Redo, Knows
  <2>3. ~ Knows'
    BY <1>6 DEF Knows
  <2> QED BY <1>1, <2>1, <2>2, <2>3, UnknownKeeps
<1>7. QED BY <1>5, <1>6

\* An agent that has just been told what its instance is knows where its run
\* is, and has nothing to redo but what troubles have cost it before.
LEMMA ToldKeeps ==
  ASSUME FullInv, HistoryInv',
         mine \in Ids, mine' = mine, call' = Idle, driver'[mine] # NoDriver,
         told'[mine] = driver'[mine], Told(driver'[mine]), ~ Pending,
         used' = used, ~ lapsed, ~ lapsed',
         Count(disk'[mine].lines) = Count(disk[mine].lines),
         executed' = executed, troubles' = troubles
  PROVE  AgentInv'
<1>1. /\ driver'[mine] \in Drivers
      /\ RestoredFrom(disk'[mine].lines) = driver'[mine]
  BY DEF HistoryInv, RecoveryInv, InMemory, Unborn, Loaded, TypeInv, TypeOK
<1>2. phase' = "working" /\ known' = driver'[mine] /\ mine # NoId
  BY AgentAssumption DEF Told
<1>3. Place'
  BY <1>2 DEF FullInv, AgentInv, Place, Phases, Knows
<1>4. Acquainted'
  BY <1>1, <1>2, CaughtSelf DEF Acquainted
<1>5. OnCall' /\ Waits' /\ Outcome'
  BY <1>2 DEF OnCall, Waits, Outcome
<1>6. Redo'
  <2>1. /\ Late' = 0 /\ Open' = 0 /\ Underway' = 0 /\ Open = 0 /\ Underway = 0
    BY <1>2 DEF Late, Open, Underway, Behind, Pending
  <2>2. /\ Late \in {0, 1} /\ Began \in Nat /\ executed \in Nat /\ troubles \in Nat
        /\ Count(disk[mine].lines) \in Nat /\ Credit \in Int /\ Unlogged \in Int
        /\ Began' = Began
    BY <1>2, Numbers DEF Began
  <2>3. Count(disk[mine].lines) + troubles + 1 - Began - executed >= 0
    <3>1. CASE Knows
      <4>1. Credit >= 0
        BY <3>1 DEF FullInv, AgentInv, Redo
      <4> QED BY <2>1, <2>2, <4>1 DEF Credit
    <3>2. CASE ~ Knows
      <4>1. phase = "starting" /\ executed = 0
        BY <1>2, <3>2 DEF FullInv, AgentInv, Place, Knows
      <4>2. Began <= troubles + 1
        BY <2>2, <4>1 DEF FullInv, AgentInv, Redo
      <4> QED BY <2>2, <4>1, <4>2
    <3> QED BY <3>1, <3>2
  <2>4. executed - Count(disk[mine].lines) >= 0
    <3>1. Unlogged >= 0
      BY <1>2 DEF FullInv, AgentInv, Redo
    <3> QED BY <2>1, <2>2, <3>1 DEF Unlogged
  <2>5. Credit' >= 0 /\ Unlogged' >= 0
    BY <2>1, <2>2, <2>3, <2>4 DEF Credit, Unlogged
  <2> QED BY <1>2, <2>5 DEF Redo
<1>7. QED BY <1>3, <1>4, <1>5, <1>6 DEF AgentInv

-----------------------------------------------------------------------------
(* The calls of the agent.                                                   *)

\* What the agent knows once it has been told of its instance.
LEMMA Knowing ==
  ASSUME FullInv,
         phase \in {"working", "submitting", "lost", "archived", "reported"}
  PROVE  /\ Knows /\ mine \in Ids /\ mine # NoId /\ known \in Drivers
         /\ executed \in Nat /\ troubles \in Nat
         /\ ~ lapsed => /\ told[mine] # NoDriver
                        /\ disk[mine].lines # <<>> /\ disk[mine].present
                        /\ Caught(RestoredFrom(disk[mine].lines), known)
<1>1. Knows /\ mine \in Ids /\ mine # NoId /\ executed \in Nat /\ troubles \in Nat
  BY AgentAssumption DEF FullInv, AgentInv, Place, Knows
<1>2. known \in Drivers
  BY <1>1 DEF FullInv, AgentInv, Acquainted
<1>3. ASSUME ~ lapsed
      PROVE  /\ told[mine] # NoDriver
             /\ Caught(RestoredFrom(disk[mine].lines), known)
  BY <1>1, <1>3 DEF FullInv, AgentInv, Acquainted
<1>4. ASSUME ~ lapsed
      PROVE  disk[mine].lines # <<>> /\ disk[mine].present
  BY <1>1, <1>3, <1>4, ToldHasLog DEF FullInv, HistoryInv, RecoveryInv, WholeLines
<1>5. QED BY <1>1, <1>2, <1>3, <1>4

\* Of a run in memory the log was not pruned.
LEMMA LoadedNotLapsed ==
  ASSUME FullInv, Loaded(mine) \/ disk[mine].present
  PROVE  ~ lapsed
BY DEF FullInv, Lapse

\* Starting a run (SKILL.md:21): the run is one more, and nothing of it executed.
LEMMA StartKeeps ==
  ASSUME FullInv, HistoryInv', AgentStart
  PROVE  AgentInv'
<1>1. /\ phase = "new" /\ mine = NoId /\ executed = 0 /\ troubles \in Nat
      /\ executed' = 0 /\ troubles' = troubles /\ edited' = edited
      /\ IsFiniteSet(used) /\ Began \in Nat /\ Began <= troubles
  <2>1. phase = "new" /\ executed' = executed /\ troubles' = troubles /\ edited' = edited
    BY DEF AgentStart, history
  <2>2. mine = NoId /\ executed = 0 /\ IsFiniteSet(used)
    BY <2>1 DEF FullInv, AgentInv, Place, Knows
  <2>3. Began <= troubles + 0
    BY <2>1 DEF FullInv, AgentInv, Redo
  <2> QED BY <2>1, <2>2, <2>3, Numbers
<1>2. PICK E \in SUBSET Sweepable, rescan \in BOOLEAN, name \in Names :
        \/ \E a \in Params, id \in Ids :
             /\ SequencerStart(E, rescan, name, a, id)
             /\ mine' = id
             /\ Turns("starting")
        \/ /\ Answer(E, rescan)
           /\ Turns(IF Rescanned(rescan)[name] = NoProgram THEN "refused"
                    ELSE "failed")
           /\ UNCHANGED mine
  BY DEF AgentStart
<1>3. ASSUME NEW a \in Params, NEW id \in Ids,
             SequencerStart(E, rescan, name, a, id), mine' = id, Turns("starting")
      PROVE  AgentInv'
  <2> DEFINE h == HeaderEvent(Rescanned(rescan)[name],
                              ParamsLeft[<<Rescanned(rescan)[name], a>>])
             y == YieldEvent(Start(Rescanned(rescan)[name], a))
  <2>1. /\ phase' = "starting" /\ id # NoId /\ ~ Knows'
        /\ id \notin used /\ used' = used \cup {id}
        /\ disk' = [Closed(E) EXCEPT ![id] = EmptyFile]
        /\ call' = [id |-> id, todo |-> <<h, y>>, reply |-> TRUE]
    BY <1>3, AgentAssumption DEF Turns, SequencerStart, Knows
  <2>2. /\ call' # Idle /\ call'.id = id /\ call'.reply /\ call'.todo = <<h, y>>
    BY <2>1 DEF Idle
  <2>3. Began' = Began + 1 /\ IsFiniteSet(used')
    BY <1>1, <2>1, FS_AddElement DEF Began
  <2>4. Count(disk'[id].lines) = 0
    <3>1. disk'[id].lines = <<>>
      BY <2>1 DEF Closed, EmptyFile
    <3>2. ResultsIn(<<>>) = {}
      BY DEF ResultsIn
    <3>3. Cardinality({}) = 0
      BY FS_EmptySet
    <3> QED BY <3>1, <3>2, <3>3 DEF Count
  <2>5. ~ Pending'
    <3>1. Head(call'.todo).type = "header"
      BY <2>2 DEF HeaderEvent
    <3> QED BY <3>1 DEF Pending
  <2>6. Place'
    BY <1>1, <1>3, <2>1, <2>3 DEF Place, Phases
  <2>7. Redo'
    <3>1. Unlogged' >= 0
      <4>1. Open' = 0 /\ executed' = 0 /\ Count(disk'[mine'].lines) = 0
        BY <1>1, <1>3, <2>4, <2>5 DEF Open
      <4> QED BY <4>1 DEF Unlogged
    <3>2. Began' <= troubles' + 1
      BY <1>1, <2>3
    <3> QED BY <2>1, <3>1, <3>2 DEF Redo
  <2>8. OnCall' /\ Outcome'
    BY <1>3, <2>1, <2>2 DEF OnCall, Outcome
  <2> QED BY <2>1, <2>6, <2>7, <2>8, UnknownKeeps
<1>4. CASE /\ Answer(E, rescan)
           /\ Turns(IF Rescanned(rescan)[name] = NoProgram THEN "refused"
                    ELSE "failed")
           /\ UNCHANGED mine
  <2>1. /\ phase' \in {"refused", "failed"} /\ mine' = NoId /\ used' = used
        /\ phase' = "refused" => Rescanned(rescan)[name] = NoProgram
    BY <1>1, <1>4 DEF Turns, Answer
  <2>2. phase' = "refused" => edited
    BY <2>1 DEF FullInv, AsFound, Rescanned
  <2>3. Place' /\ OnCall' /\ Outcome' /\ Redo' /\ ~ Knows'
    BY <1>1, <2>1, <2>2 DEF Place, Phases, OnCall, Outcome, Redo, Knows
  <2> QED BY <2>3, UnknownKeeps
<1>5. QED BY <1>2, <1>3, <1>4

\* Where no result is awaited for what it was told, the agent executes in vain.
LEMMA InVain ==
  ASSUME FullInv, phase = "working", ~ IsTerminal(known),
         NEW E \in SUBSET Sweepable,
         Finds(E) => IsTerminal(driver[mine]) \/ ~ Awaits(driver[mine], known.step_no)
  PROVE  Behind
<1>1. CASE Finds(E)
  BY <1>1 DEF Behind, Awaits
<1>2. CASE mine \in E
  BY <1>2 DEF Behind, Sweepable
<1>3. CASE ~ Loaded(mine)
  BY <1>3, Knowing, NoDriverAssumption DEF Behind, Loaded
<1>4. QED BY <1>1, <1>2, <1>3 DEF Finds

\* Executing and submitting (SKILL.md:22-24): a result that is refused was
\* executed in vain, and some trouble has paid for it.  When the run is over
\* (tools.py:279-284), the trouble pays for the new run that the agent begins.
LEMMA NextKeeps ==
  ASSUME FullInv, HistoryInv', LogSteps, ResultsJudged, AgentNext
  PROVE  AgentInv'
<1>1. /\ phase = "working" /\ ~ IsTerminal(known)
      /\ troubles' = troubles /\ edited' = edited /\ lapsed' = lapsed
  BY DEF AgentNext, Executes
<1>2. /\ Knows /\ mine \in Ids /\ mine # NoId /\ known \in Drivers
      /\ executed \in Nat /\ troubles \in Nat /\ Underway = 0
  BY <1>1, Knowing DEF Underway
<1>3. disk \in [Ids -> Files] /\ \A E : Closed(E) = disk
  BY CallSweeps DEF FullInv, HistoryInv, RecoveryInv, TypeInv, TypeOK
<1>4. PICK E \in SUBSET Sweepable, r \in Results :
        \/ /\ SequencerNext(E, mine, known.step_no, r)
           /\ Turns("submitting")
           /\ executed' = executed + 1
           /\ UNCHANGED mine
        \/ /\ ~ Finds(E)
           /\ Answer(E, FALSE)
           /\ NotInMemory(mine)
           /\ executed' = executed + 1
           /\ UNCHANGED mine
        \/ /\ Finds(E) /\ IsTerminal(driver[mine])
           /\ Answer(E, FALSE)
           /\ StartsAnew
        \/ /\ Finds(E) /\ ~ Awaits(driver[mine], known.step_no)
           /\ Answer(E, FALSE)
           /\ Turns("lost")
           /\ executed' = executed + 1
           /\ UNCHANGED mine
  BY DEF AgentNext
<1>5. CASE /\ SequencerNext(E, mine, known.step_no, r)
           /\ Turns("submitting")
           /\ executed' = executed + 1
           /\ UNCHANGED mine
  <2>1. /\ phase' = "submitting" /\ known' = known /\ told' = told /\ used' = used
        /\ mine' = mine /\ disk' = disk
        /\ call = Idle /\ Loaded(mine) /\ Awaits(driver[mine], known.step_no)
        /\ driver' = Kept(E) /\ mine \notin E
        /\ call' = [id |-> mine, todo |-> <<ResultEvent(known.step_no, r)>>,
                    reply |-> TRUE]
    BY <1>3, <1>5 DEF SequencerNext, Enter, Turns
  <2>2. call' # Idle /\ call'.id = mine /\ call'.reply
    BY <2>1 DEF Idle
  <2>3. ~ lapsed /\ told[mine] # NoDriver /\ Caught(RestoredFrom(disk[mine].lines), known)
    BY <1>1, <2>1, LoadedNotLapsed, Knowing
  <2>4. /\ RestoredFrom(disk[mine].lines) = driver[mine]
        /\ driver[mine] \in Drivers /\ driver[mine].step_no = known.step_no
        /\ known.step_no \in Nat /\ ~ IsTerminal(driver[mine])
    BY <1>2, <2>1, MemoryIsLog DEF FullInv, Awaits, Drivers
  <2>5. driver[mine] = known
    BY <1>2, <2>3, <2>4 DEF Caught, NotBehind
  <2>6. driver'[mine] = known
    BY <1>2, <2>1, <2>5 DEF Kept
  <2>7. OnCall' /\ Waits' /\ Outcome'
    BY <1>1, <2>1, <2>2, <2>6 DEF OnCall, Waits, Outcome
  <2>8. Head(call'.todo).type = "result"
    BY <2>1 DEF ResultEvent
  <2>9. Pending' /\ ~ Pending /\ ~ Behind /\ ~ Behind'
    BY <1>1, <2>1, <2>2, <2>5, <2>8 DEF Pending, Behind
  <2>10. Late = 0 /\ Late' = 0 /\ Open = 0 /\ Open' = 1 /\ Underway' = 1
    BY <2>1, <2>9 DEF Late, Open, Underway
  <2>11. /\ Credit' \in Int /\ Credit' >= Credit
         /\ Unlogged' \in Int /\ Unlogged' >= Unlogged
         /\ executed' \in Nat /\ troubles' \in Nat
    <3>1. /\ Count(disk'[mine].lines) = Count(disk[mine].lines) + 0
          /\ executed' = executed + 1 /\ troubles' = troubles + 0
      BY <1>1, <1>2, <1>5, <2>1, Numbers
    <3> QED BY <1>2, <2>1, <2>10, <3>1, Accounts
  <2> QED BY <1>1, <1>2, <2>1, <2>3, <2>7, <2>11, KeepsRun DEF Phases
<1>6. ASSUME Answer(E, FALSE), Behind, mine' = mine, known' = known,
             executed' = executed + 1, Outcome',
             phase' \in {"lost", "archived", "refused"}
      PROVE  AgentInv'
  <2>1. /\ told' = told /\ used' = used /\ disk' = disk /\ call = Idle /\ call' = call
    BY <1>3, <1>6 DEF Answer, Enter
  <2>2. ~ Pending /\ ~ Pending' /\ executed' = executed + Late
    BY <1>6, <2>1 DEF Pending, Late
  <2> QED BY <1>1, <1>2, <1>6, <2>1, <2>2, TurnsAway
<1>7. CASE /\ ~ Finds(E)
           /\ Answer(E, FALSE)
           /\ NotInMemory(mine)
           /\ executed' = executed + 1
           /\ UNCHANGED mine
  <2>1. Behind
    BY <1>1, <1>7, InVain
  <2>2. /\ known' = known /\ phase' \in {"archived", "refused"}
        /\ phase' = "refused" => lapsed
    BY <1>1, <1>7, Knowing DEF NotInMemory, Turns
  <2>3. Outcome'
    BY <1>1, <2>2 DEF Outcome
  <2> QED BY <1>6, <1>7, <2>1, <2>2, <2>3
<1>8. CASE /\ Finds(E) /\ IsTerminal(driver[mine])
           /\ Answer(E, FALSE)
           /\ StartsAnew
  <2>1. /\ phase' = "new" /\ mine' = NoId /\ executed' = 0 /\ used' = used
        /\ call = Idle /\ ~ lapsed
    BY <1>8, LoadedNotLapsed DEF StartsAnew, Turns, Answer, Enter, Finds
  <2>2. Late = 1 /\ Open = 0
    BY <1>1, <1>8, <2>1, InVain DEF Late, Open, Pending
  <2>3. /\ Credit >= 0 /\ Unlogged >= 0 /\ IsFiniteSet(used)
    BY <1>2, <2>1 DEF FullInv, AgentInv, Redo, Place
  <2>4. Began <= troubles
    <3> DEFINE n == Count(disk[mine].lines)
    <3>1. n \in Nat /\ Began \in Nat
      BY <1>2, Numbers
    <3>2. n + troubles + 1 - Began - executed - 1 + 0 >= 0
      BY <1>2, <2>2, <2>3 DEF Credit
    <3>3. executed - n - 0 >= 0
      BY <2>2, <2>3 DEF Unlogged
    <3> HIDE DEF n
    <3> QED BY <1>2, <3>1, <3>2, <3>3
  <2>5. Place' /\ OnCall' /\ Outcome' /\ ~ Knows'
    BY <1>1, <1>2, <2>1, <2>3 DEF Place, Phases, OnCall, Outcome, Knows
  <2>6. Redo'
    <3>1. Began' = Began /\ Began \in Nat
      BY <2>1, Numbers DEF Began
    <3> QED BY <1>1, <1>2, <2>1, <2>4, <3>1 DEF Redo, Knows
  <2> QED BY <2>5, <2>6, UnknownKeeps
<1>9. CASE /\ Finds(E) /\ ~ Awaits(driver[mine], known.step_no)
           /\ Answer(E, FALSE)
           /\ Turns("lost")
           /\ executed' = executed + 1
           /\ UNCHANGED mine
  <2>1. Behind
    BY <1>1, <1>9, InVain
  <2>2. known' = known /\ phase' = "lost" /\ Outcome'
    BY <1>9 DEF Turns, Outcome
  <2> QED BY <1>6, <1>9, <2>1, <2>2
<1>10. QED BY <1>4, <1>5, <1>7, <1>8, <1>9

\* Resynchronising (SKILL.md:25).
LEMMA CurrentKeeps ==
  ASSUME FullInv, HistoryInv', LogSteps, ResultsJudged, AgentCurrent
  PROVE  AgentInv'
<1>1. /\ phase = "lost" /\ mine' = mine /\ executed' = executed
      /\ troubles' = troubles /\ edited' = edited /\ lapsed' = lapsed
  BY DEF AgentCurrent, history
<1>2. Knows /\ mine \in Ids /\ mine # NoId /\ executed \in Nat
  BY <1>1, Knowing
<1>3. \A E : Closed(E) = disk
  BY CallSweeps DEF FullInv
<1>4. PICK E \in SUBSET Sweepable :
        \/ SequencerCurrent(E, mine) /\ Told(driver[mine])
        \/ Answer(E, FALSE) /\ NotInMemory(mine)
  BY DEF AgentCurrent
<1>5. CASE SequencerCurrent(E, mine) /\ Told(driver[mine])
  <2>1. /\ Loaded(mine) /\ driver' = Kept(E) /\ mine \notin E
        /\ call = Idle /\ call' = Idle /\ used' = used /\ disk' = disk
        /\ told' = [told EXCEPT ![mine] = driver[mine]]
    BY <1>3, <1>5 DEF SequencerCurrent, Enter
  <2>2. told \in [Ids -> Drivers \cup {NoDriver}]
    BY DEF FullInv, HistoryInv, RecoveryInv, TypeInv, TypeOK
  <2>3. /\ driver'[mine] = driver[mine] /\ told'[mine] = driver[mine]
        /\ driver[mine] # NoDriver /\ ~ Pending /\ ~ lapsed
    BY <1>2, <2>1, <2>2, LoadedNotLapsed DEF Kept, Loaded, Pending
  <2> QED BY <1>1, <1>2, <1>5, <2>1, <2>3, ToldKeeps
<1>6. CASE Answer(E, FALSE) /\ NotInMemory(mine)
  <2>1. /\ known' = known /\ told' = told /\ used' = used /\ disk' = disk
        /\ call = Idle /\ call' = call
        /\ phase' \in {"archived", "refused"} /\ (phase' = "refused" => lapsed)
    BY <1>1, <1>3, <1>6, Knowing DEF NotInMemory, Turns, Answer, Enter
  <2>2. Outcome' /\ ~ Pending /\ ~ Pending' /\ executed' = executed + Late
    BY <1>1, <1>2, <2>1 DEF Outcome, Pending, Late, Behind
  <2> QED BY <1>1, <1>2, <2>1, <2>2, TurnsAway
<1>7. QED BY <1>4, <1>5, <1>6

\* As long as nobody edits, the log of a run that the agent knows can be resumed
\* (tools.py:341-394).
LEMMA CanResume ==
  ASSUME FullInv, ~ edited, NEW id \in Ids, told[id] # NoDriver, NEW rescan \in BOOLEAN
  PROVE  Resumable(disk[id], Rescanned(rescan))
<1> DEFINE f  == disk[id]
           ls == f.lines
           p  == ls[1].program
<1>1. /\ f.present /\ f.tail = Clean /\ IsLog(ls) /\ RestoredFrom(ls) # NoDriver
      /\ ls # <<>>
  BY ToldHasLog DEF FullInv, HistoryInv, RecoveryInv, WholeLines
<1>2. AllLines(f) = ls /\ Decodes(ls) /\ HasHeader(ls) /\ HeaderOf(ls) = ls[1]
  BY <1>1, LogFacts DEF AllLines
<1>3. p \in Programs /\ p # NoProgram
  BY <1>1, SequencerAssumption DEF IsLog, HeaderEvents
<1>4. Rescanned(rescan)[NameOf[p]] = p
  BY <1>1 DEF FullInv, AsFound, Rescanned, Listed
<1>5. RestoredWith(p, ls) # NoDriver
  BY <1>1, <1>2 DEF RestoredFrom
<1> HIDE DEF f, ls
<1>6. Readable(f)
  BY <1>1, <1>2 DEF Readable
<1>7. QED BY <1>2, <1>3, <1>4, <1>5, <1>6 DEF Resumable, SameHash, f, ls

\* Resuming (tools.py:330-416): it is refused only if a program was edited or the
\* log is gone, and AlreadyLoaded makes the agent resynchronise.
LEMMA ResumeKeeps ==
  ASSUME FullInv, HistoryInv', LogSteps, ResultsJudged, AgentResume
  PROVE  AgentInv'
<1>1. /\ phase = "archived" /\ mine' = mine /\ executed' = executed
      /\ troubles' = troubles /\ edited' = edited /\ lapsed' = lapsed
  BY DEF AgentResume, history
<1>2. Knows /\ mine \in Ids /\ mine # NoId /\ executed \in Nat
  BY <1>1, Knowing
<1>3. \A E : Closed(E) = disk
  BY CallSweeps DEF FullInv
<1>4. PICK E \in SUBSET Sweepable, rescan \in BOOLEAN :
        \/ SequencerResume(E, rescan, mine) /\ Told(driver'[mine])
        \/ Answer(E, rescan) /\ Turns("lost")
        \/ /\ ~ Resumable(disk[mine], Rescanned(rescan))
           /\ Answer(E, rescan)
           /\ Turns("refused")
  BY DEF AgentResume
<1>5. CASE SequencerResume(E, rescan, mine) /\ Told(driver'[mine])
  <2>1. /\ told \in [Ids -> Drivers \cup {NoDriver}]
        /\ Kept(E) \in [Ids -> Drivers \cup {NoDriver}]
    BY DEF FullInv, HistoryInv, RecoveryInv, TypeInv, TypeOK, Kept
  <2>2. /\ call = Idle /\ call' = Idle /\ used' = used /\ disk' = disk
        /\ told'[mine] = driver'[mine] /\ driver'[mine] # NoDriver
        /\ disk[mine].present
    BY <1>2, <1>3, <1>5, <2>1 DEF SequencerResume, Enter, Readable
  <2>3. ~ lapsed /\ ~ Pending
    BY <2>2, LoadedNotLapsed DEF Pending
  <2> QED BY <1>1, <1>2, <1>5, <2>2, <2>3, ToldKeeps
<1>6. ASSUME Answer(E, rescan), Outcome', known' = known, phase' \in {"lost", "refused"}
      PROVE  AgentInv'
  <2>1. /\ told' = told /\ used' = used /\ disk' = disk /\ call = Idle /\ call' = call
    BY <1>3, <1>6 DEF Answer, Enter
  <2>2. ~ Pending /\ ~ Pending' /\ executed' = executed + Late
    BY <1>1, <1>2, <2>1 DEF Pending, Late, Behind
  <2> QED BY <1>1, <1>2, <1>6, <2>1, <2>2, TurnsAway
<1>7. CASE Answer(E, rescan) /\ Turns("lost")
  BY <1>6, <1>7 DEF Turns, Outcome
<1>8. CASE /\ ~ Resumable(disk[mine], Rescanned(rescan))
           /\ Answer(E, rescan)
           /\ Turns("refused")
  <2>1. edited \/ lapsed
    BY <1>1, <1>2, <1>8, Knowing, CanResume
  <2> QED BY <1>1, <1>6, <1>8, <2>1 DEF Turns, Outcome
<1>9. QED BY <1>4, <1>5, <1>7, <1>8

\* Reporting and closing (SKILL.md:26).
LEMMA CloseKeeps ==
  ASSUME FullInv, HistoryInv', LogSteps, ResultsJudged, AgentClose
  PROVE  AgentInv'
<1>1. /\ phase = "working" /\ IsTerminal(known) /\ phase' = "reported"
      /\ known' = known /\ mine' = mine /\ executed' = executed
      /\ troubles' = troubles /\ lapsed' = lapsed
  BY DEF AgentClose, history, Turns
<1>2. Knows /\ executed \in Nat
  BY <1>1, Knowing
<1>3. \A E : Closed(E) = disk
  BY CallSweeps DEF FullInv
<1>4. /\ told' = told /\ used' = used /\ disk' = disk /\ call = Idle /\ call' = call
  BY <1>3 DEF AgentClose, SequencerClose, Enter
<1>5. Outcome' /\ ~ Pending /\ ~ Pending' /\ executed' = executed + Late
  BY <1>1, <1>2, <1>4 DEF Outcome, Pending, Late, Behind
<1>6. QED BY <1>1, <1>2, <1>4, <1>5, TurnsAway

-----------------------------------------------------------------------------
(* The server, and what can go wrong.                                        *)

\* The header of a run that is being started (tools.py:216-224).
LEMMA LogHeaderKeeps ==
  ASSUME FullInv, HistoryInv', LogSteps, ResultsJudged,
         LogHeader, UNCHANGED <<agent, history>>
  PROVE  AgentInv'
<1>1. /\ Executing /\ AppendEvent /\ Head(call.todo).type = "header"
      /\ call' = [call EXCEPT !.todo = Tail(call.todo)]
      /\ driver' = driver /\ told' = told /\ used' = used
      /\ phase' = phase /\ mine' = mine /\ known' = known /\ executed' = executed
      /\ troubles' = troubles /\ edited' = edited /\ lapsed' = lapsed
  BY DEF LogHeader, agent, history
<1>2. Tail(call.todo) # <<>> /\ Head(Tail(call.todo)).type = "yield"
  BY <1>1, CallKinds DEF FullInv
<1>3. call \in Calls
  BY <1>1, UnwrittenType DEF FullInv, HistoryInv, RecoveryInv
<1>4. /\ call'.id = call.id /\ call'.reply = call.reply
      /\ call'.todo = Tail(call.todo)
  BY <1>1, <1>3 DEF Calls
<1>5. call' # Idle /\ ~ Pending /\ ~ Pending'
  BY <1>1, <1>2, <1>4 DEF Idle, Pending
<1>6. OnCall' /\ Waits' /\ (Behind' => Behind)
  BY <1>1, <1>4, <1>5 DEF FullInv, AgentInv, OnCall, Waits, Behind
<1>7. Knows /\ ~ lapsed' => told'[mine] # NoDriver
  BY <1>1 DEF FullInv, AgentInv, Acquainted
<1>8. mine # NoId => Count(disk'[mine].lines) = Count(disk[mine].lines)
  <2> SUFFICES ASSUME mine # NoId
               PROVE  Count(disk'[mine].lines) = Count(disk[mine].lines)
    OBVIOUS
  <2>1. mine \in Ids /\ Count(disk[mine].lines) \in Nat
    BY Numbers
  <2>2. Count(disk'[mine].lines) = Count(disk[mine].lines) + 0
    BY <1>1, <2>1, AppendCounts DEF FullInv
  <2> QED BY <2>1, <2>2
<1>9. troubles' = troubles + 0
  BY <1>1, Numbers
<1>10. QED BY <1>1, <1>5, <1>6, <1>7, <1>8, <1>9, StandsStill

\* A result reaches the log, and then the driver (tools.py:294-302): what the
\* agent was waiting for is now a result in the log.
LEMMA LogResultKeeps ==
  ASSUME FullInv, HistoryInv', LogSteps, ResultsJudged,
         LogResult, UNCHANGED <<agent, history>>
  PROVE  AgentInv'
<1> DEFINE id == call.id
           e  == Head(call.todo)
<1>1. /\ Executing /\ e.type = "result" /\ AppendEvent /\ call # Idle
      /\ told' = told /\ used' = used
      /\ phase' = phase /\ mine' = mine /\ known' = known /\ executed' = executed
      /\ troubles' = troubles /\ edited' = edited /\ lapsed' = lapsed
  BY DEF LogResult, Executing, agent, history
<1>2. /\ id \in Ids /\ driver[id] \in Drivers /\ e \in Events /\ e.result \in Results
  BY <1>1, CallKinds DEF FullInv
<1>3. ~ SendRaises(driver[id], e.result)
  BY <1>2, SendJudges
<1>4. /\ driver' = [driver EXCEPT ![id] = Send(driver[id], e.result)]
      /\ call' = [id    |-> id,
                  todo  |-> <<YieldEvent(Send(driver[id], e.result))>>,
                  reply |-> TRUE]
  BY <1>3 DEF LogResult
<1>5. /\ call'.id = id /\ call'.reply /\ call' # Idle
      /\ Head(call'.todo).type = "yield"
  BY <1>4 DEF Idle, YieldEvent
<1>6. ~ Pending'
  BY <1>5 DEF Pending
<1>7. OnCall' /\ Waits'
  BY <1>1, <1>5, <1>6 DEF FullInv, AgentInv, OnCall, Waits
<1>8. Knows /\ ~ lapsed' => told'[mine] # NoDriver
  BY <1>1 DEF FullInv, AgentInv, Acquainted
<1>9. executed' = executed + 0 /\ troubles' = troubles + 0
  BY <1>1, Numbers
<1>10. CASE mine # id
  <2>1. Behind' => Behind
    <3>1. phase = "working" => mine \in Ids
      BY Knowing
    <3>2. driver \in [Ids -> Drivers \cup {NoDriver}]
      BY DEF FullInv, HistoryInv, RecoveryInv, TypeInv, TypeOK
    <3> QED BY <1>1, <1>2, <1>4, <1>10, <3>1, <3>2 DEF Behind
  <2>2. ~ Pending
    BY <1>10 DEF Pending
  <2>3. mine # NoId => Count(disk'[mine].lines) = Count(disk[mine].lines)
    <3> SUFFICES ASSUME mine # NoId
                 PROVE  Count(disk'[mine].lines) = Count(disk[mine].lines)
      OBVIOUS
    <3>1. mine \in Ids /\ Count(disk[mine].lines) \in Nat
      BY Numbers
    <3>2. Count(disk'[mine].lines) = Count(disk[mine].lines) + 0
      BY <1>1, <1>10, <3>1, AppendCounts DEF FullInv
    <3> QED BY <3>1, <3>2
  <2> QED BY <1>1, <1>6, <1>7, <1>8, <1>9, <2>1, <2>2, <2>3, StandsStill
<1>11. CASE mine = id
  <2>1. Pending /\ ~ lapsed /\ mine # NoId /\ mine \in Ids
    BY <1>1, <1>2, <1>11, LoadedNotLapsed, NoDriverAssumption, AgentAssumption
       DEF Pending, Loaded
  <2>2. Open = 1 /\ Open' = 0 /\ Underway' = 0
    BY <1>6, <2>1 DEF Open, Underway
  <2>3. Knows
    <3> SUFFICES ASSUME ~ Knows PROVE FALSE
      OBVIOUS
    <3>1. executed = 0 /\ Unlogged >= 0
      BY <2>1 DEF FullInv, AgentInv, Place, Redo
    <3>2. Count(disk[mine].lines) \in Nat
      BY <2>1, Numbers
    <3> QED BY <2>2, <3>1, <3>2 DEF Unlogged
  <2>4. Count(disk'[mine].lines) = Count(disk[mine].lines) + 1
    BY <1>1, <1>11, <2>1, AppendCounts DEF FullInv
  <2>5. Late' + 0 + Underway <= Late + Underway' + 1 + 0
    BY <1>1, <2>2, Numbers DEF Late, Underway, Behind
  <2>6. /\ Credit' \in Int /\ Credit' >= Credit
        /\ Unlogged' \in Int /\ Unlogged' >= Unlogged
        /\ executed' \in Nat /\ troubles' \in Nat
    BY <1>1, <1>9, <2>1, <2>2, <2>4, <2>5, Accounts
  <2>7. phase' \in Phases \ {"new", "starting", "failed"} /\ Outcome'
    BY <1>1, <2>1, <2>3 DEF FullInv, AgentInv, Place, Knows, Outcome
  <2> QED BY <1>1, <1>7, <1>8, <2>1, <2>3, <2>6, <2>7, KeepsRun
<1>12. QED BY <1>10, <1>11

\* The call ends (tools.py:316-325): the agent that waits for it is told what
\* its instance is.
LEMMA ReplyKeeps ==
  ASSUME FullInv, HistoryInv', LogSteps, ResultsJudged, Reply
  PROVE  AgentInv'
<1>1. /\ Executing /\ AppendEvent /\ Head(call.todo).type = "yield"
      /\ driver' = driver /\ call' = Idle /\ used' = used
      /\ told' = IF call.reply THEN [told EXCEPT ![call.id] = driver[call.id]]
                 ELSE told
      /\ mine' = mine /\ executed' = executed /\ troubles' = troubles
      /\ edited' = edited /\ lapsed' = lapsed
  BY DEF Reply, LogYield, history
<1>2. /\ call.id \in Ids /\ driver[call.id] \in Drivers /\ driver[call.id] # NoDriver
  BY <1>1, CallKinds, NoDriverAssumption DEF FullInv
<1>3. told \in [Ids -> Drivers \cup {NoDriver}]
  BY DEF FullInv, HistoryInv, RecoveryInv, TypeInv, TypeOK
<1>4. ~ Pending /\ ~ Pending'
  BY <1>1 DEF Pending
<1>5. mine # NoId => Count(disk'[mine].lines) = Count(disk[mine].lines)
  <2> SUFFICES ASSUME mine # NoId
               PROVE  Count(disk'[mine].lines) = Count(disk[mine].lines)
    OBVIOUS
  <2>1. mine \in Ids /\ Count(disk[mine].lines) \in Nat
    BY Numbers
  <2>2. Count(disk'[mine].lines) = Count(disk[mine].lines) + 0
    BY <1>1, <2>1, AppendCounts DEF FullInv
  <2> QED BY <2>1, <2>2
<1>6. CASE /\ phase \in {"starting", "submitting"}
           /\ IF call.reply THEN Told(driver[mine]) ELSE Turns("lost")
  <2>1. call.id = mine /\ call.reply
    BY <1>6 DEF FullInv, AgentInv, OnCall
  <2>2. Told(driver'[mine]) /\ driver'[mine] # NoDriver /\ told'[mine] = driver'[mine]
    BY <1>1, <1>2, <1>3, <1>6, <2>1
  <2>3. ~ lapsed /\ mine # NoId
    BY <1>2, <2>1, LoadedNotLapsed, AgentAssumption DEF Loaded
  <2> QED BY <1>1, <1>2, <1>4, <1>5, <2>1, <2>2, <2>3, ToldKeeps
<1>7. CASE /\ phase \notin {"starting", "submitting"}
           /\ UNCHANGED <<phase, known>>
  <2>1. OnCall' /\ Waits'
    BY <1>7 DEF OnCall, Waits
  <2>2. Behind' => Behind
    BY <1>1, <1>7 DEF Behind
  <2>3. Knows /\ ~ lapsed' => told'[mine] # NoDriver
    BY <1>1, <1>2, <1>3 DEF FullInv, AgentInv, Acquainted
  <2>4. troubles' = troubles + 0
    BY <1>1, Numbers
  <2> QED BY <1>1, <1>4, <1>5, <1>7, <2>1, <2>2, <2>3, <2>4, StandsStill
<1>8. QED BY <1>6, <1>7 DEF Reply

\* A yield that json.dumps does not take ends the call with an error: the agent
\* resynchronises, or has not got an id (persistence.py:71-75).
LEMMA YieldRaisesKeeps ==
  ASSUME FullInv, HistoryInv', LogSteps, ResultsJudged, YieldRaises
  PROVE  AgentInv'
<1>1. /\ Head(call.todo).type = "yield" /\ call' = Idle
      /\ disk' = disk /\ used' = used /\ told' = told /\ driver' = driver
      /\ executed' = executed /\ troubles' = troubles
      /\ edited' = edited /\ lapsed' = lapsed /\ known' = known
      /\ phase' = CASE phase = "starting"   -> "failed"
                     [] phase = "submitting" -> "lost"
                     [] OTHER                -> phase
      /\ mine' = IF phase = "starting" THEN NoId ELSE mine
  BY DEF YieldRaises, DumpFails, shared, history, Turns
<1>2. ~ Pending /\ ~ Pending'
  BY <1>1 DEF Pending
<1>3. /\ executed \in Nat /\ troubles \in Nat /\ IsFiniteSet(used) /\ phase \in Phases
  BY DEF FullInv, AgentInv, Place
<1>4. CASE phase = "starting"
  <2>1. executed = 0 /\ phase' = "failed" /\ mine' = NoId /\ ~ Knows'
    BY <1>1, <1>4 DEF FullInv, AgentInv, Place, Knows
  <2>2. Place' /\ OnCall' /\ Outcome' /\ Redo'
    BY <1>1, <1>3, <2>1 DEF Place, Phases, OnCall, Outcome, Redo, Knows
  <2> QED BY <2>1, <2>2, UnknownKeeps
<1>5. CASE phase = "submitting"
  <2>1. Knows /\ mine' = mine /\ phase' = "lost"
    BY <1>1, <1>5, Knowing
  <2>2. Outcome' /\ executed' = executed + Late
    BY <1>1, <1>3, <1>5, <2>1 DEF Outcome, Late, Behind
  <2> QED BY <1>1, <1>2, <2>1, <2>2, TurnsAway
<1>6. CASE phase \notin {"starting", "submitting"}
  <2>1. phase' = phase /\ mine' = mine
    BY <1>1, <1>6
  <2>2. OnCall' /\ Waits' /\ (Behind' => Behind)
    BY <1>1, <1>6, <2>1 DEF OnCall, Waits, Behind
  <2>3. Knows /\ ~ lapsed' => told'[mine] # NoDriver
    BY <1>1 DEF FullInv, AgentInv, Acquainted
  <2>4. troubles' = troubles + 0
    BY <1>1, <1>3
  <2> QED BY <1>1, <1>2, <2>1, <2>2, <2>3, <2>4, StandsStill
<1>7. QED BY <1>4, <1>5, <1>6

\* A server that starts again finds the logs as they were, but for those that it
\* prunes (__main__.py:58-62).
LEMMA RestartKeeps ==
  ASSUME FullInv, HistoryInv', LogSteps, ResultsJudged, Restart
  PROVE  AgentInv'
<1>1. PICK logs \in SUBSET Ids :
        ServerStart(logs) /\ lapsed' = (lapsed \/ mine \in logs)
  BY DEF Restart
<1>2. /\ driver' = driver /\ call' = call /\ used' = used
      /\ phase' = phase /\ mine' = mine /\ known' = known /\ executed' = executed
      /\ troubles' = troubles /\ edited' = edited
      /\ told' = [id \in Ids |-> IF id \in logs THEN NoDriver ELSE told[id]]
      /\ disk' = [id \in Ids |-> IF id \in logs THEN NoFile ELSE disk[id]]
  BY <1>1 DEF Restart, ServerStart, agent
<1>3. OnCall' /\ Waits' /\ (Behind' <=> Behind) /\ (Pending' <=> Pending)
  BY <1>2 DEF FullInv, AgentInv, OnCall, Waits, Behind, Pending
<1>4. Knows /\ ~ lapsed' => told'[mine] # NoDriver
  BY <1>1, <1>2 DEF FullInv, AgentInv, Acquainted, Place, Knows
<1>5. mine # NoId /\ ~ lapsed' =>
        Count(disk'[mine].lines) = Count(disk[mine].lines)
  BY <1>1, <1>2 DEF FullInv, AgentInv, Place
<1>6. troubles' = troubles + 0
  BY <1>2, Numbers
<1>7. QED BY <1>1, <1>2, <1>3, <1>4, <1>5, <1>6, StandsStill

\* The end of the server costs the agent the answer to its call, and the
\* instance that it works on its place in memory.
LEMMA CrashKeeps ==
  ASSUME FullInv, HistoryInv', LogSteps, ResultsJudged, NothingFails, Crash
  PROVE  AgentInv'
<1>1. /\ known' = known /\ executed' = executed /\ troubles' = troubles + 1
      /\ edited' = edited /\ lapsed' = lapsed
      /\ phase' = CASE phase = "starting"   -> "new"
                     [] phase = "submitting" -> "lost"
                     [] OTHER                -> phase
      /\ mine' = IF phase = "starting" THEN NoId ELSE mine
  BY DEF Crash, Trouble, Turns
<1>2. told' = told /\ call' = Idle /\ used' = used /\ disk' = disk
  BY NothingFailed, CallSweeps DEF Crash, Exit, Leave, FullInv
<1>3. /\ phase \in Phases /\ executed \in Nat /\ troubles \in Nat
      /\ IsFiniteSet(used)
  BY DEF FullInv, AgentInv, Place
<1>4. ~ Pending'
  BY <1>2 DEF Pending
<1>5. Knows /\ ~ lapsed' => told'[mine] # NoDriver
  BY <1>1, <1>2 DEF FullInv, AgentInv, Acquainted
<1>6. CASE phase = "starting"
  <2>1. /\ executed = 0 /\ phase' = "new" /\ mine' = NoId /\ ~ Knows'
    BY <1>1, <1>6 DEF FullInv, AgentInv, Place, Knows
  <2>2. Place' /\ OnCall' /\ Outcome'
    BY <1>1, <1>2, <1>3, <2>1 DEF Place, Phases, OnCall, Outcome, Knows
  <2>3. Redo'
    <3>1. Began \in Nat /\ Began' = Began /\ Began <= troubles + 1
      BY <1>2, <1>6, Numbers DEF Began, FullInv, AgentInv, Redo
    <3> QED BY <1>1, <1>3, <2>1, <3>1 DEF Redo
  <2> QED BY <2>1, <2>2, <2>3, UnknownKeeps
<1>7. CASE phase = "submitting"
  <2>1. Knows /\ mine' = mine /\ mine # NoId /\ phase' = "lost"
    BY <1>1, <1>7, Knowing
  <2>2. /\ Late = 0 /\ Late' = 0 /\ Underway' = 0 /\ Open' = 0
        /\ Underway \in {0, 1} /\ Open \in {0, 1}
    BY <1>4, <1>7, <2>1 DEF Late, Behind, Underway, Open
  <2>3. /\ Credit' \in Int /\ Credit' >= Credit
        /\ Unlogged' \in Int /\ Unlogged' >= Unlogged
        /\ executed' \in Nat /\ troubles' \in Nat
    <3>1. /\ Count(disk'[mine].lines) = Count(disk[mine].lines) + 0
          /\ executed' = executed + 0
      BY <1>1, <1>2, <2>1, Numbers
    <3>2. Late' + 0 + Underway <= Late + Underway' + 0 + 1 /\ Open' + 0 <= Open + 0
      BY <2>2
    <3> QED BY <1>1, <1>2, <2>1, <3>1, <3>2, Accounts
  <2>4. OnCall' /\ Waits' /\ Outcome'
    BY <2>1 DEF OnCall, Waits, Outcome
  <2> QED BY <1>1, <1>2, <1>5, <2>1, <2>3, <2>4, KeepsRun DEF Phases
<1>8. CASE phase \notin {"starting", "submitting"}
  <2>1. phase' = phase /\ mine' = mine
    BY <1>1, <1>8
  <2>2. OnCall' /\ Waits'
    BY <1>8, <2>1 DEF OnCall, Waits
  <2> QED BY <1>1, <1>2, <1>4, <1>5, <1>8, <2>1, <2>2, StandsStill
<1>9. QED BY <1>6, <1>7, <1>8

\* Giving up on a call: the run is started, or the instruction executed, again.
LEMMA TimeoutKeeps ==
  ASSUME FullInv, HistoryInv', LogSteps, ResultsJudged, Timeout
  PROVE  AgentInv'
<1>1. /\ known' = known /\ executed' = executed /\ troubles' = troubles + 1
      /\ edited' = edited /\ lapsed' = lapsed
      /\ told' = told /\ driver' = driver /\ call' = call /\ used' = used /\ disk' = disk
      /\ phase \in {"starting", "submitting"}
      /\ phase' = IF phase = "starting" THEN "new" ELSE "working"
      /\ mine' = IF phase = "starting" THEN NoId ELSE mine
  BY DEF Timeout, Trouble, Turns, vars, shared, local
<1>2. executed \in Nat /\ troubles \in Nat /\ IsFiniteSet(used)
  BY DEF FullInv, AgentInv, Place
<1>3. OnCall' /\ Waits' /\ Outcome'
  BY <1>1 DEF OnCall, Waits, Outcome
<1>4. CASE phase = "starting"
  <2>1. executed = 0 /\ phase' = "new" /\ mine' = NoId /\ ~ Knows'
    BY <1>1, <1>4 DEF FullInv, AgentInv, Place, Knows
  <2>2. Place'
    BY <1>1, <1>2, <2>1 DEF Place, Phases, Knows
  <2>3. Redo'
    <3>1. Began \in Nat /\ Began' = Began /\ Began <= troubles + 1
      BY <1>1, <1>4, Numbers DEF Began, FullInv, AgentInv, Redo
    <3> QED BY <1>1, <2>1, <3>1 DEF Redo
  <2> QED BY <1>3, <2>1, <2>2, <2>3, UnknownKeeps
<1>5. CASE phase = "submitting"
  <2>1. Knows /\ mine' = mine /\ mine # NoId /\ phase' = "working"
    BY <1>1, <1>5, Knowing
  <2>2. Pending => ~ Behind'
    BY <1>1, <1>5, <2>1 DEF FullInv, AgentInv, Waits, Behind
  <2>3. /\ Late' + 0 + Underway <= Late + Underway' + 0 + 1
        /\ Open' + 0 <= Open + 0
    BY <1>1, <1>5, <2>1, <2>2 DEF Late, Behind, Underway, Open, Pending
  <2>4. /\ Credit' \in Int /\ Credit' >= Credit
        /\ Unlogged' \in Int /\ Unlogged' >= Unlogged
        /\ executed' \in Nat /\ troubles' \in Nat
    <3>1. /\ Count(disk'[mine].lines) = Count(disk[mine].lines) + 0
          /\ executed' = executed + 0
      BY <1>1, <2>1, Numbers
    <3> QED BY <1>1, <2>1, <2>3, <3>1, Accounts
  <2>5. ~ lapsed' => told'[mine] # NoDriver
    BY <1>1, <2>1 DEF FullInv, AgentInv, Acquainted
  <2> QED BY <1>1, <1>3, <2>1, <2>4, <2>5, KeepsRun DEF Phases
<1>6. QED BY <1>1, <1>4, <1>5

\* Losing its context: the agent does not know where it is.
LEMMA CompactKeeps ==
  ASSUME FullInv, HistoryInv', LogSteps, ResultsJudged, Compact
  PROVE  AgentInv'
<1>1. /\ phase = "working" /\ phase' = "lost" /\ mine' = mine /\ known' = known
      /\ executed' = executed /\ troubles' = troubles + 1 /\ lapsed' = lapsed
      /\ told' = told /\ used' = used /\ disk' = disk /\ call' = call
  BY DEF Compact, Trouble, Turns, vars, shared, local
<1>2. OnCall' /\ Waits' /\ Outcome'
  BY <1>1 DEF OnCall, Waits, Outcome
<1>3. Knows /\ mine # NoId /\ (~ lapsed => told[mine] # NoDriver)
  BY <1>1, Knowing
<1>4. /\ Late' + 0 + Underway <= Late + Underway' + 0 + 1
      /\ Open' + 0 <= Open + 0
  BY <1>1 DEF Late, Behind, Underway, Open, Pending
<1>5. /\ Credit' \in Int /\ Credit' >= Credit
      /\ Unlogged' \in Int /\ Unlogged' >= Unlogged
      /\ executed' \in Nat /\ troubles' \in Nat
  <2>1. /\ Count(disk'[mine].lines) = Count(disk[mine].lines) + 0
        /\ executed' = executed + 0
    BY <1>1, <1>3, Numbers
  <2> QED BY <1>1, <1>3, <1>4, <2>1, Accounts
<1>6. QED BY <1>1, <1>2, <1>3, <1>5, KeepsRun DEF Phases

\* A reply is lost that appended nothing: the call is made again, and what was
\* executed for a result that was refused has been paid for already.
LEMMA ReplyLostKeeps ==
  ASSUME FullInv, HistoryInv', LogSteps, ResultsJudged, ReplyLost
  PROVE  AgentInv'
<1>1. /\ phase' = phase /\ mine' = mine /\ known' = known
      /\ troubles' = troubles + 1 /\ edited' = edited /\ lapsed' = lapsed
  BY DEF ReplyLost, Trouble, agent
<1>2. \A E : Closed(E) = disk
  BY CallSweeps DEF FullInv
<1>3. PICK E \in SUBSET Sweepable, rescan \in BOOLEAN :
        \/ /\ phase = "lost" /\ SequencerCurrent(E, mine)
           /\ UNCHANGED <<executed, invalid>>
        \/ /\ phase = "archived" /\ SequencerResume(E, rescan, mine)
           /\ UNCHANGED <<executed, invalid>>
        \/ /\ phase = "working" /\ SequencerClose(E, mine, FALSE)
           /\ UNCHANGED <<executed, invalid>>
        \/ /\ phase = "working" /\ ~ IsTerminal(known)
           /\ Finds(E) => ~ Awaits(driver[mine], known.step_no)
           /\ Answer(E, FALSE)
           /\ executed' = executed + 1
  BY DEF ReplyLost, Executes
<1>4. /\ phase \in {"lost", "archived", "working"}
      /\ disk' = disk /\ used' = used /\ call = Idle /\ call' = call
  BY <1>2, <1>3 DEF SequencerCurrent, SequencerResume, SequencerClose, Answer, Enter
<1>5. /\ Knows /\ mine \in Ids /\ mine # NoId /\ executed \in Nat
      /\ ~ lapsed => told[mine] # NoDriver
  BY <1>4, Knowing
<1>6. ~ lapsed' => told'[mine] # NoDriver
  <2>1. told \in [Ids -> Drivers \cup {NoDriver}]
    BY DEF FullInv, HistoryInv, RecoveryInv, TypeInv, TypeOK
  <2>2. \/ told' = told
        \/ Loaded(mine) /\ told' = [told EXCEPT ![mine] = driver[mine]]
        \/ \E d : d # NoDriver /\ told' = [told EXCEPT ![mine] = d]
    BY <1>3 DEF SequencerCurrent, SequencerResume, SequencerClose, Answer
  <2> QED BY <1>1, <1>5, <2>1, <2>2 DEF Loaded
<1>7. OnCall' /\ Waits' /\ ~ Pending /\ ~ Pending'
  BY <1>1, <1>4 DEF OnCall, Waits, Pending
<1>8. CASE executed' = executed
  BY <1>1, <1>4, <1>6, <1>7, <1>8, StandsStill
<1>9. CASE /\ phase = "working" /\ ~ IsTerminal(known)
           /\ Finds(E) => ~ Awaits(driver[mine], known.step_no)
           /\ executed' = executed + 1
  <2>1. Behind
    BY <1>9, InVain
  <2>2. /\ Late = 1 /\ (Late' = 0 \/ Late' = 1) /\ Open = 0 /\ Open' = 0
        /\ Underway = 0 /\ Underway' = 0
    BY <1>7, <2>1 DEF Late, Open, Underway
  <2>3. /\ Credit' \in Int /\ Credit' >= Credit
        /\ Unlogged' \in Int /\ Unlogged' >= Unlogged
        /\ executed' \in Nat /\ troubles' \in Nat
    <3>1. Count(disk'[mine].lines) = Count(disk[mine].lines) + 0
      BY <1>4, <1>5, Numbers
    <3>2. /\ Late' + 1 + Underway <= Late + Underway' + 0 + 1
          /\ Open' + 0 <= Open + 1
      BY <2>2
    <3> QED BY <1>1, <1>4, <1>5, <1>9, <3>1, <3>2, Accounts
  <2>4. Outcome'
    BY <1>1, <1>9 DEF Outcome
  <2> QED BY <1>1, <1>4, <1>5, <1>6, <1>7, <1>9, <2>3, <2>4, KeepsRun DEF Phases
<1>10. QED BY <1>3, <1>8, <1>9

\* An edit, or no step at all, leaves the agent where it is.
LEMMA ElseKeeps ==
  ASSUME FullInv, HistoryInv', LogSteps, ResultsJudged, Edit \/ UNCHANGED agentVars
  PROVE  AgentInv'
<1>1. /\ driver' = driver /\ call' = call /\ told' = told
      /\ disk' = disk /\ used' = used
      /\ phase' = phase /\ mine' = mine /\ known' = known /\ executed' = executed
      /\ troubles' = troubles /\ (edited => edited') /\ lapsed' = lapsed
  BY DEF Edit, EditSource, agentVars, vars, shared, local, agent, history
<1>2. OnCall' /\ Waits' /\ (Behind' <=> Behind) /\ (Pending' <=> Pending)
  BY <1>1 DEF FullInv, AgentInv, OnCall, Waits, Behind, Pending
<1>3. Knows /\ ~ lapsed' => told'[mine] # NoDriver
  BY <1>1 DEF FullInv, AgentInv, Acquainted
<1>4. troubles' = troubles + 0
  BY <1>1, Numbers
<1>5. QED BY <1>1, <1>2, <1>3, <1>4, StandsStill

-----------------------------------------------------------------------------
(* Without edits the server finds the program of every log.                  *)

\* An append that begins a log writes its header; no other touches it.
LEMMA FirstLines ==
  ASSUME HistoryInv, Executing, AppendEvent, NEW id \in Ids, disk'[id].lines # <<>>
  PROVE  \/ /\ disk[id].lines # <<>>
            /\ disk'[id].lines[1] = disk[id].lines[1]
         \/ /\ id = call.id
            /\ Head(call.todo).type = "header"
            /\ disk'[id].lines[1] = Head(call.todo)
<1> DEFINE e  == Head(call.todo)
           ls == disk[id].lines
           q  == Append(ls, e)
<1>1. /\ call.id \in Ids /\ e \in Events
      /\ disk[call.id].lines # <<>> \/ e.type = "header"
  BY CallKinds
<1>2. /\ \A i \in Ids \ {call.id} : disk'[i] = disk[i]
      /\ disk'[call.id] = [disk[call.id] EXCEPT !.lines = Append(disk[call.id].lines, e)]
  BY <1>1, OneLine DEF HistoryInv
<1>3. CASE id # call.id
  BY <1>2, <1>3
<1>4. CASE id = call.id
  <2>1. disk[id] \in Files /\ ls \in Seq(Lines) /\ e \in Lines
    BY <1>1, EventIsText DEF HistoryInv, RecoveryInv, TypeInv, TypeOK, Files
  <2>2. q[1] = IF ls = <<>> THEN e ELSE ls[1]
    BY <2>1
  <2>3. disk'[id].lines = q
    <3> HIDE DEF q
    <3>1. disk'[id] = [disk[id] EXCEPT !.lines = q]
      BY <1>2, <1>4 DEF q
    <3> QED BY <2>1, <3>1 DEF Files
  <2> HIDE DEF q
  <2> QED BY <1>1, <1>4, <2>2, <2>3
<1>5. QED BY <1>3, <1>4

\* A step that begins no log, and no call that would.
LEMMA FoundKept ==
  ASSUME FullInv, ~ edited, source' = source, registry' \in {registry, source},
         \A id \in Ids : disk'[id].lines # <<>> => disk'[id] = disk[id],
         call' # Idle /\ Head(call'.todo).type = "header" =>
           \/ call' = call
           \/ Listed(Head(call'.todo).program)
  PROVE  AsFound'
<1>1. /\ registry = source
      /\ \A name \in Names : source[name] # NoProgram /\ NameOf[source[name]] = name
      /\ \A id \in Ids : disk[id].lines # <<>> => Listed(disk[id].lines[1].program)
      /\ call # Idle /\ Head(call.todo).type = "header" =>
           Listed(Head(call.todo).program)
  BY DEF FullInv, AsFound
<1>2. registry' = source'
  BY <1>1
<1>3. \A id \in Ids : disk'[id].lines # <<>> => Listed(disk'[id].lines[1].program)
  BY <1>1
<1>4. call' # Idle /\ Head(call'.todo).type = "header" =>
        Listed(Head(call'.todo).program)
  BY <1>1
<1>5. QED BY <1>1, <1>2, <1>3, <1>4 DEF AsFound, Listed

\* A call that appends nothing keeps what the server finds.
LEMMA QuietCallsFind ==
  ASSUME FullInv, ~ edited, NEW E, NEW rescan \in BOOLEAN, NEW id,
         \/ Answer(E, rescan)
         \/ SequencerCurrent(E, id)
         \/ SequencerClose(E, id, FALSE)
         \/ SequencerResume(E, rescan, id)
  PROVE  AsFound'
<1>1. \A F : Closed(F) = disk
  BY CallSweeps DEF FullInv
<1>2. /\ source' = source /\ registry' \in {registry, source} /\ call' = call
      /\ disk' = disk
  BY <1>1 DEF Answer, SequencerCurrent, SequencerClose, SequencerResume, Rescanned
<1>3. QED BY <1>2, FoundKept

\* The calls of the agent keep what the server finds.
LEMMA CallsFind ==
  ASSUME FullInv, ~ edited, AgentStep
  PROVE  AsFound'
<1>1. /\ registry = source
      /\ \A name \in Names : source[name] # NoProgram /\ NameOf[source[name]] = name
  BY DEF FullInv, AsFound
<1>2. disk \in [Ids -> Files] /\ EmptyFile.lines = <<>>
  BY DEF FullInv, HistoryInv, RecoveryInv, TypeInv, TypeOK, EmptyFile
<1>3. \A E : Closed(E) = disk
  BY CallSweeps DEF FullInv
<1>4. ASSUME NEW E, NEW rescan \in BOOLEAN, NEW name \in Names, NEW a, NEW id \in Ids,
             SequencerStart(E, rescan, name, a, id)
      PROVE  AsFound'
  <2> DEFINE p == Rescanned(rescan)[name]
  <2>1. p = source[name] /\ Listed(p)
    BY <1>1 DEF Rescanned, Listed
  <2>2. /\ source' = source /\ registry' = Rescanned(rescan)
        /\ disk' = [Closed(E) EXCEPT ![id] = EmptyFile]
        /\ call'.todo = <<HeaderEvent(p, ParamsLeft[<<p, a>>]), YieldEvent(Start(p, a))>>
    BY <1>4 DEF SequencerStart
  <2>3. Head(call'.todo) = HeaderEvent(p, ParamsLeft[<<p, a>>])
    BY <2>2
  <2>4. Head(call'.todo).program = p
    BY <2>3 DEF HeaderEvent
  <2>5. \A i \in Ids : disk'[i].lines # <<>> => disk'[i] = disk[i]
    BY <1>2, <1>3, <2>2
  <2>6. registry' \in {registry, source}
    BY <2>2 DEF Rescanned
  <2> QED BY <2>1, <2>2, <2>4, <2>5, <2>6, FoundKept
<1>5. ASSUME NEW E, NEW r, SequencerNext(E, mine, known.step_no, r)
      PROVE  AsFound'
  <2>1. /\ source' = source /\ registry' = registry /\ disk' = Closed(E)
        /\ call'.todo = <<ResultEvent(known.step_no, r)>>
    BY <1>5 DEF SequencerNext
  <2>2. Head(call'.todo).type # "header"
    BY <2>1 DEF ResultEvent
  <2> QED BY <1>3, <2>1, <2>2, FoundKept
<1>6. CASE AgentStart
  <2>1. PICK E \in SUBSET Sweepable, rescan \in BOOLEAN, name \in Names :
          \/ \E a \in Params, id \in Ids : SequencerStart(E, rescan, name, a, id)
          \/ Answer(E, rescan)
    BY <1>6 DEF AgentStart
  <2> QED BY <1>4, <2>1, QuietCallsFind
<1>7. CASE AgentNext
  <2>1. PICK E \in SUBSET Sweepable, r \in Results :
          \/ SequencerNext(E, mine, known.step_no, r)
          \/ Answer(E, FALSE)
    BY <1>7 DEF AgentNext
  <2> QED BY <1>5, <2>1, QuietCallsFind
<1>8. CASE AgentCurrent \/ AgentClose
  BY <1>8, QuietCallsFind DEF AgentCurrent, AgentClose
<1>9. CASE AgentResume
  BY <1>9, QuietCallsFind DEF AgentResume
<1>10. QED BY <1>6, <1>7, <1>8, <1>9 DEF AgentStep

\* So do appends: a header is of the program that was found.
LEMMA AppendsFind ==
  ASSUME FullInv, ~ edited, Log \/ Reply
  PROVE  AsFound'
<1>1. /\ registry = source
      /\ \A name \in Names : source[name] # NoProgram /\ NameOf[source[name]] = name
      /\ \A id \in Ids : disk[id].lines # <<>> => Listed(disk[id].lines[1].program)
      /\ call # Idle /\ Head(call.todo).type = "header" =>
           Listed(Head(call.todo).program)
  BY DEF FullInv, AsFound
<1>2. /\ Executing /\ AppendEvent /\ source' = source /\ registry' = registry
  BY DEF Log, Reply, LogHeader, LogResult, LogYield
<1>3. \A id \in Ids : disk'[id].lines # <<>> => Listed(disk'[id].lines[1].program)
  BY <1>1, <1>2, FirstLines DEF FullInv, Executing
<1>4. ~ (call' # Idle /\ Head(call'.todo).type = "header")
  <2>1. CASE LogHeader
    <3>1. Head(Tail(call.todo)).type = "yield"
      BY <1>2, <2>1, CallKinds DEF FullInv, LogHeader
    <3>2. call'.todo = Tail(call.todo)
      BY <1>2, <2>1, UnwrittenType DEF LogHeader, FullInv, HistoryInv, RecoveryInv, Calls
    <3> QED BY <3>1, <3>2
  <2>2. CASE LogResult
    <3>1. \E d : call'.todo = <<YieldEvent(d)>>
      BY <2>2 DEF LogResult
    <3> QED BY <3>1 DEF YieldEvent
  <2>3. CASE LogYield
    BY <2>3 DEF LogYield
  <2> QED BY <2>1, <2>2, <2>3 DEF Log, Reply
<1>5. QED BY <1>1, <1>2, <1>3, <1>4 DEF AsFound, Listed

\* Every step keeps what the server finds, unless it is an edit.
LEMMA AsFoundKept ==
  ASSUME FullInv, NothingFails, [AgentRunNext]_agentVars
  PROVE  AsFound'
<1> SUFFICES ASSUME ~ edited' PROVE AsFound'
  BY DEF AsFound
<1>1. ~ edited
  BY DEF AgentRunNext, AgentStep, ServerStep, AgentStart, AgentNext, AgentCurrent,
     AgentResume, AgentClose, Log, Reply, YieldRaises, Restart, Crash, Timeout,
     ReplyLost, Compact, Trouble, Edit, history, agentVars
<1>2. disk \in [Ids -> Files] /\ \A E : Closed(E) = disk
  BY CallSweeps DEF FullInv, HistoryInv, RecoveryInv, TypeInv, TypeOK
<1>3. CASE AgentStep
  BY <1>1, <1>3, CallsFind
<1>4. CASE Log \/ Reply
  BY <1>1, <1>4, AppendsFind
<1>5. CASE Restart
  <2>1. PICK logs \in SUBSET Ids : ServerStart(logs)
    BY <1>5 DEF Restart
  <2>2. /\ source' = source /\ registry' = source /\ call' = call
        /\ disk' = [id \in Ids |-> IF id \in logs THEN NoFile ELSE disk[id]]
    BY <2>1 DEF ServerStart
  <2>3. \A id \in Ids : disk'[id].lines # <<>> => disk'[id] = disk[id]
    BY <2>2 DEF NoFile
  <2> QED BY <1>1, <2>2, <2>3, FoundKept
<1>6. CASE Crash
  <2>1. /\ source' = source /\ registry' = registry /\ call' = Idle /\ disk' = disk
    BY <1>2, <1>6, NothingFailed DEF Crash, Exit, Leave
  <2> QED BY <1>1, <2>1, FoundKept
<1>7. CASE Timeout \/ Compact \/ UNCHANGED agentVars
  <2>1. source' = source /\ registry' = registry /\ call' = call /\ disk' = disk
    BY <1>7 DEF Timeout, Compact, agentVars, vars, shared, local
  <2> QED BY <1>1, <2>1, FoundKept
<1>8. CASE YieldRaises
  <2>1. source' = source /\ registry' = registry /\ call' = Idle /\ disk' = disk
    BY <1>8 DEF YieldRaises, DumpFails, shared
  <2> QED BY <1>1, <2>1, FoundKept
<1>9. CASE ReplyLost
  <2>1. PICK E \in SUBSET Sweepable, rescan \in BOOLEAN :
          \/ SequencerCurrent(E, mine)
          \/ SequencerResume(E, rescan, mine)
          \/ SequencerClose(E, mine, FALSE)
          \/ Answer(E, FALSE)
    BY <1>9 DEF ReplyLost
  <2> QED BY <1>1, <2>1, QuietCallsFind
<1>10. CASE Edit
  BY <1>10 DEF Edit
<1>11. QED BY <1>3, <1>4, <1>5, <1>6, <1>7, <1>8, <1>9, <1>10 DEF AgentRunNext, ServerStep

-----------------------------------------------------------------------------
(* The theorems.                                                             *)

\* A new agent knows nothing, of programs that all can be found.
LEMMA InitFull == AgentInit => FullInv
<1> SUFFICES ASSUME AgentInit PROVE FullInv
  OBVIOUS
<1>1. HistoryInv
  BY InitHistory DEF AgentInit
<1>2. \A id \in Ids : disk[id].lines = <<>>
  BY DEF AgentInit, Init, NoFile
<1>3. Numbered
  BY <1>2 DEF Numbered
<1>4. AsFound
  BY <1>2 DEF AgentInit, Init, AsFound
<1>5. Lapse
  BY DEF AgentInit, Lapse
<1>6. used = {} /\ IsFiniteSet(used) /\ Began = 0
  BY FS_EmptySet DEF AgentInit, Init, Began
<1>7. Place /\ Acquainted /\ OnCall /\ Waits /\ Redo /\ Outcome
  BY <1>6 DEF AgentInit, Place, Acquainted, OnCall, Waits, Redo, Outcome, Phases, Knows
<1>8. QED BY <1>1, <1>3, <1>4, <1>5, <1>7 DEF FullInv, AgentInv

\* Every step keeps the invariant.
LEMMA NextFull ==
  ASSUME FullInv, [AgentRunNext]_agentVars, Sparing
  PROVE  FullInv'
<1>1. NothingFails /\ ResultsJudged /\ ParamsSpared
  BY DEF Sparing
<1>2. HistoryInv' /\ LogSteps
  BY <1>1, AgentIsNext, NextHistory DEF FullInv
<1>3. Numbered'
  BY <1>1, <1>2, NumberedKept DEF FullInv, HistoryInv
<1>4. AsFound'
  BY <1>1, AsFoundKept
<1>5. Lapse'
  BY <1>1, LapseKept
<1>6. AgentInv'
  <2>1. CASE AgentStep
    BY <1>1, <1>2, <2>1, StartKeeps, NextKeeps, CurrentKeeps, ResumeKeeps, CloseKeeps
       DEF AgentStep
  <2>2. CASE ServerStep
    BY <1>1, <1>2, <2>2, LogHeaderKeeps, LogResultKeeps, ReplyKeeps,
       YieldRaisesKeeps, RestartKeeps DEF ServerStep, Log
  <2>3. CASE Crash \/ Timeout \/ ReplyLost \/ Compact
    BY <1>1, <1>2, <2>3, CrashKeeps, TimeoutKeeps, ReplyLostKeeps, CompactKeeps
  <2>4. CASE Edit \/ UNCHANGED agentVars
    BY <1>1, <1>2, <2>4, ElseKeeps
  <2> QED BY <2>1, <2>2, <2>3, <2>4 DEF AgentRunNext
<1>7. QED BY <1>2, <1>3, <1>4, <1>5, <1>6 DEF FullInv

\* So it holds at all times.
LEMMA FullInvariance ==
  ASSUME Sparing
  PROVE  AgentSpec => []FullInv
<1>1. FullInv /\ [AgentRunNext]_agentVars => FullInv'
  BY NextFull
<1>2. QED BY InitFull, <1>1, PTL DEF AgentSpec

\* A crash, a timeout, a lost reply or a loss of context costs the agent one
\* instruction executed in vain or one run started over, and not both, however
\* many there are and however long the run is (persistence.py:60-61,
\* tools.py:279-297).
THEOREM OneRedoForEachTrouble ==
  ASSUME Sparing
  PROVE  AgentSpec => []OneRedoEach
<1>1. ASSUME FullInv
      PROVE  OneRedoEach
  <2> SUFFICES ASSUME mine # NoId, ~ lapsed
               PROVE  executed + Began <= Count(disk[mine].lines) + troubles + 1
                                            + (IF phase = "submitting" THEN 1 ELSE 0)
    BY DEF OneRedoEach, Count, Began
  <2> DEFINE n == Count(disk[mine].lines)
             s == IF phase = "submitting" THEN 1 ELSE 0
  <2>1. /\ executed \in Nat /\ troubles \in Nat /\ n \in Nat /\ Began \in Nat
        /\ Credit \in Int
    BY <1>1, Numbers
  <2>2. CASE Knows
    <3>1. Credit >= 0
      BY <1>1, <2>2 DEF FullInv, AgentInv, Redo
    <3>2. Late \in Int /\ Late >= 0 /\ Underway \in Int /\ s \in Int /\ Underway <= s
      BY DEF Late, Underway
    <3>3. Credit = n + troubles + 1 - Began - executed - Late + Underway
      BY DEF Credit
    <3> HIDE DEF n, s
    <3>4. executed + Began <= n + troubles + 1 + s
      BY <2>1, <3>1, <3>2, <3>3
    <3> QED BY <3>4 DEF n, s
  <2>3. CASE ~ Knows
    <3>1. phase = "starting" /\ executed = 0
      BY <1>1, <2>3 DEF FullInv, AgentInv, Place, Knows
    <3>2. Began <= troubles + 1
      BY <1>1, <3>1 DEF FullInv, AgentInv, Redo
    <3> QED BY <2>1, <3>1, <3>2
  <2> QED BY <2>2, <2>3
<1>2. QED BY FullInvariance, <1>1, PTL

\* What the agent reports is how its run ended, and the log says so, whatever
\* happens after, until it is pruned (SKILL.md:26, tools.py:375-388).
THEOREM ReportsAreTrue ==
  ASSUME Sparing
  PROVE  AgentSpec => []ReportedTrue
<1>1. ASSUME FullInv
      PROVE  ReportedTrue
  <2> SUFFICES ASSUME phase = "reported"
               PROVE  IsTerminal(known) /\ (lapsed \/ Restored(disk[mine]) = known)
    BY DEF ReportedTrue
  <2>1. IsTerminal(known)
    BY <1>1 DEF FullInv, AgentInv, Outcome
  <2>2. CASE ~ lapsed
    <3>1. RestoredFrom(disk[mine].lines) = known /\ disk[mine].present /\ mine \in Ids
      BY <1>1, <2>1, <2>2, Knowing DEF Caught
    <3>2. disk[mine].tail = Clean
      BY <1>1, <3>1 DEF FullInv, HistoryInv, RecoveryInv, WholeLines
    <3> QED BY <2>1, <3>1, <3>2 DEF Restored, AllLines
  <2> QED BY <2>1, <2>2
<1>2. QED BY FullInvariance, <1>1, PTL

\* An agent that follows the rules is refused only if somebody edited the
\* programs or its run's log was pruned: crashes, timeouts, lost replies and
\* sweeps alone never strand its run (tools.py:330-394, __main__.py:58-62).
THEOREM NoRunStranded ==
  ASSUME Sparing
  PROVE  AgentSpec => []NeverStranded
<1>1. FullInv => NeverStranded
  BY DEF FullInv, AgentInv, Outcome, NeverStranded
<1>2. QED BY FullInvariance, <1>1, PTL
=============================================================================
