----------------------------- MODULE Sequencer -----------------------------
(***************************************************************************)
(* One server process of tools.py: its registry, its instance store, its   *)
(* open event logs and the tool call it is executing, over a state         *)
(* directory and program sources that outlive it.                          *)
(*                                                                         *)
(* The handlers never suspend between taking an instance's lock and        *)
(* releasing it, so one server executes one call at a time; a call is      *)
(* nevertheless several steps, one for each append, since the process can  *)
(* end between them and an append can fail.                                *)
(***************************************************************************)
EXTENDS EventLog, FiniteSets

CONSTANTS
  Names,      \* program names
  Ids,        \* instance ids (fresh UUIDs)
  NameOf,     \* NameOf[p]: the NAME of program version p
  NoProgram,  \* no program of a name
  Faults,     \* "torn_write": a crash may cut an append short;
              \* "io_error": a flush may fail (disk full, quota)
  Watch,      \* the --watch flag
  MaxEvents   \* bound: no result is accepted once a log is this long

ASSUME SequencerAssumption ==
  /\ NameOf \in [Programs -> Names]
  /\ NoProgram \notin Programs
  /\ Faults \subseteq {"torn_write", "io_error"}
  /\ Watch \in BOOLEAN
  /\ MaxEvents \in Nat

VARIABLES
  source,     \* the program version each name stands for in the search paths
  disk,       \* the log file of each instance id
  used,       \* the ids ever drawn
  told,       \* history: the driver state last reported to the agent
  up,         \* the server is running
  registry,   \* ProgramRegistry._programs
  driver,     \* InstanceStore._instances, as their drivers
  log,        \* the event_log of each loaded instance
  call        \* the call being executed

shared == <<source, disk, used, told>>
local  == <<up, registry, driver, log, call>>
vars   == <<shared, local>>

\* What the call on instance id still has to append, and whether it then
\* replies with _instance_response (and not AdvanceFailed).
Calls == [id : Ids, todo : Seq(Events), reply : BOOLEAN]
Idle  == [todo |-> <<>>]

Tables == [Names -> Programs \cup {NoProgram}]

TypeOK ==
  /\ source \in Tables
  /\ disk \in [Ids -> Files]
  /\ used \subseteq Ids
  /\ told \in [Ids -> Drivers \cup {NoDriver}]
  /\ up \in BOOLEAN
  /\ registry \in Tables
  /\ driver \in [Ids -> Drivers \cup {NoDriver}]
  /\ log \in [Ids -> Handles]
  /\ call \in Calls \cup {Idle}

Init ==
  /\ source \in {t \in Tables : \A n \in Names :
                   t[n] # NoProgram => NameOf[t[n]] = n}
  /\ disk = [id \in Ids |-> NoFile]
  /\ used = {}
  /\ told = [id \in Ids |-> NoDriver]
  /\ up = FALSE
  /\ registry = source
  /\ driver = [id \in Ids |-> NoDriver]
  /\ log = [id \in Ids |-> NoLog]
  /\ call = Idle

-----------------------------------------------------------------------------
(* What every handler starts with.                                         *)

Loaded(id) == driver[id] # NoDriver

\* terminal_at is set exactly when the state becomes terminal.  Time is left
\* out: any terminal instance may be past its TTL when a sweep is due.
Sweepable == {id \in Ids : Loaded(id) /\ IsTerminal(driver[id])}

\* The store, the logs and the files once the instances of E are removed and
\* their logs closed, which flushes what a failed append left in them.
Kept(E)     == [id \in Ids |-> IF id \in E THEN NoDriver ELSE driver[id]]
KeptLogs(E) == [id \in Ids |-> IF id \in E THEN NoLog ELSE log[id]]
Closed(E)   ==
  [id \in Ids |-> IF id \in E
                  THEN WriteLines(disk[id], log[id].buf, log[id].begun)
                  ELSE disk[id]]

\* A handler runs its sweep, removing E.
Enter(E) == up /\ call = Idle /\ E \subseteq Sweepable

\* maybe_rescan_programs: the program table that the handler sees.
Rescanned(rescan) == IF rescan THEN source ELSE registry

-----------------------------------------------------------------------------
(* The tools.                                                              *)

\* sequencer_list, sequencer_list_programs, and every call refused with an
\* error: nothing happens beyond the sweep and the rescan.  A sequencer_list with
\* an unknown filter is refused before either: E is empty, and nothing happens.
Answer(E, rescan) ==
  /\ Enter(E)
  /\ rescan => Watch
  /\ registry' = Rescanned(rescan)
  /\ driver' = Kept(E)
  /\ log' = KeptLogs(E)
  /\ disk' = Closed(E)
  /\ UNCHANGED <<source, used, told, up, call>>

\* The instance is stored and its log file created; the two appends follow.
\* The header is built after the program's first segment has run, from the
\* params object that the program was given.
SequencerStart(E, rescan, name, a, id) ==
  LET p == Rescanned(rescan)[name]
      d == Start(p, a)
  IN  /\ Enter(E)
      /\ rescan => Watch
      /\ p # NoProgram
      /\ d # NoDriver
      /\ id \notin used
      /\ registry' = Rescanned(rescan)
      /\ driver' = [Kept(E) EXCEPT ![id] = d]
      /\ log' = [KeptLogs(E) EXCEPT ![id] = OpenLog]
      /\ disk' = [Closed(E) EXCEPT ![id] = EmptyFile]
      /\ used' = used \cup {id}
      /\ call' = [id    |-> id,
                  todo  |-> <<HeaderEvent(p, ParamsLeft[<<p, a>>]),
                              YieldEvent(d)>>,
                  reply |-> TRUE]
      /\ UNCHANGED <<source, told, up>>

\* Mutant of Awaits: the step number is not compared.
AwaitsAnyStep(d, n) == ~ IsTerminal(d)

\* Mutant of Awaits: steps are counted from 0.
AwaitsFromZero(d, n) == ~ IsTerminal(d) /\ n + 1 = d.step_no

\* The instance takes a result for step n.
Awaits(d, n) == ~ IsTerminal(d) /\ n = d.step_no

SequencerNext(E, id, n, r) ==
  /\ Enter(E)
  /\ id \notin E
  /\ Loaded(id)
  /\ Awaits(driver[id], n)
  /\ Len(disk[id].lines) + Len(log[id].buf) + 2 <= MaxEvents
  /\ driver' = Kept(E)
  /\ log' = KeptLogs(E)
  /\ disk' = Closed(E)
  /\ call' = [id |-> id, todo |-> <<ResultEvent(n, r)>>, reply |-> TRUE]
  /\ UNCHANGED <<source, used, told, up, registry>>

SequencerCurrent(E, id) ==
  /\ Enter(E)
  /\ id \notin E
  /\ Loaded(id)
  /\ driver' = Kept(E)
  /\ log' = KeptLogs(E)
  /\ disk' = Closed(E)
  /\ told' = [told EXCEPT ![id] = driver[id]]
  /\ UNCHANGED <<source, used, up, registry, call>>

\* Mutant of SameHash: the name is enough.
SameName(p, header) == NameOf[p] = NameOf[header.program]

\* The registered program is the one whose source_hash is in the header.
SameHash(p, header) == p = header.program

\* No handle is opened for an instance that replays to a terminal state.
SequencerResume(E, rescan, id) ==
  LET f      == Closed(E)[id]
      header == HeaderOf(AllLines(f))
      p      == Rescanned(rescan)[NameOf[header.program]]
      d      == RestoredWith(p, AllLines(f))
  IN  /\ Enter(E)
      /\ rescan => Watch
      /\ Kept(E)[id] = NoDriver
      /\ Readable(f)
      /\ p # NoProgram
      /\ SameHash(p, header)
      /\ d # NoDriver
      /\ registry' = Rescanned(rescan)
      /\ driver' = [Kept(E) EXCEPT ![id] = d]
      /\ log' = [KeptLogs(E) EXCEPT ![id] =
                   IF IsTerminal(d) THEN NoLog ELSE OpenLog]
      /\ disk' = Closed(E)
      /\ told' = [told EXCEPT ![id] = d]
      /\ UNCHANGED <<source, used, up, call>>

\* Idempotent: the instance may not be loaded, or may have been swept.
SequencerClose(E, id, delete_log) ==
  LET gone == E \cup {id}
  IN  /\ Enter(E)
      /\ driver' = Kept(gone)
      /\ log' = KeptLogs(gone)
      /\ disk' = IF delete_log THEN [Closed(gone) EXCEPT ![id] = NoFile]
                 ELSE Closed(gone)
      /\ told' = IF delete_log THEN [told EXCEPT ![id] = NoDriver] ELSE told
      /\ UNCHANGED <<source, used, up, registry, call>>

-----------------------------------------------------------------------------
(* The appends of the call being executed.                                 *)

Executing == up /\ call # Idle

\* What the next append flushes: its event, after what is still in the buffer.
Unwritten == Append(log[call.id].buf, Head(call.todo))

\* Mutant of AppendEvent: the line is written but not flushed.
AppendUnflushed ==
  /\ log' = [log EXCEPT ![call.id].buf = Unwritten]
  /\ UNCHANGED disk

\* EventLog.append succeeds.
AppendEvent ==
  LET id == call.id
  IN  /\ disk' = [disk EXCEPT ![id] =
                    WriteLines(disk[id], Unwritten, log[id].begun)]
      /\ log' = [log EXCEPT ![id] = OpenLog]

LogHeader ==
  /\ Executing
  /\ Head(call.todo).type = "header"
  /\ AppendEvent
  /\ call' = [call EXCEPT !.todo = Tail(call.todo)]
  /\ UNCHANGED <<source, used, told, up, registry, driver>>

\* The result is on disk before the driver sees it.
LogResult ==
  LET id == call.id
      r  == Head(call.todo).result
      raised == SendRaises(driver[id], r)
      after  == IF raised THEN driver[id] ELSE Send(driver[id], r)
  IN  /\ Executing
      /\ Head(call.todo).type = "result"
      /\ AppendEvent
      /\ driver' = [driver EXCEPT ![id] = after]
      /\ call' = [id    |-> id,
                  todo  |-> <<YieldEvent(after)>>,
                  reply |-> ~ raised]
      /\ UNCHANGED <<source, used, told, up, registry>>

LogYield ==
  /\ Executing
  /\ Head(call.todo).type = "yield"
  /\ ~ Unserialisable(driver[call.id])
  /\ AppendEvent
  /\ told' = IF call.reply THEN [told EXCEPT ![call.id] = driver[call.id]]
             ELSE told
  /\ call' = Idle
  /\ UNCHANGED <<source, used, up, registry, driver>>

\* json.dumps raises on the yield: the handler ends with the exception, and the
\* instance goes on without this yield in its log.
DumpFails ==
  /\ Executing
  /\ Head(call.todo).type = "yield"
  /\ Unserialisable(driver[call.id])
  /\ call' = Idle
  /\ UNCHANGED <<shared, up, registry, driver, log>>

\* The flush fails: the handler ends with the exception, before anything that
\* follows the append, and what was not written stays in the buffer.
AppendFails ==
  LET id == call.id
  IN  /\ "io_error" \in Faults
      /\ Executing
      /\ \E stop \in Stops(disk[id], Unwritten, log[id].begun) :
           /\ disk' = [disk EXCEPT ![id] = stop.file]
           /\ log' = [log EXCEPT ![id] = stop.log]
      /\ call' = Idle
      /\ UNCHANGED <<source, used, told, up, registry, driver>>

\* Closing a log flushes it, and that fails: the instance is already out of
\* the store, the rest of its buffer is lost, and the handler (a close, or any
\* other when it happens in its sweep) ends with the exception.
CloseFails(E, id) ==
  /\ "io_error" \in Faults
  /\ Enter(E)
  /\ id \notin E
  /\ log[id].buf # <<>>
  /\ \E stop \in Stops(disk[id], log[id].buf, log[id].begun) :
       disk' = [Closed(E) EXCEPT ![id] = stop.file]
  /\ driver' = Kept(E \cup {id})
  /\ log' = KeptLogs(E \cup {id})
  /\ UNCHANGED <<source, used, told, up, registry, call>>

-----------------------------------------------------------------------------
(* The process and what is around it.                                      *)

Leave ==
  /\ up
  /\ up' = FALSE
  /\ driver' = [id \in Ids |-> NoDriver]
  /\ log' = [id \in Ids |-> NoLog]
  /\ call' = Idle
  /\ UNCHANGED <<source, used, told, registry>>

\* The process ends, at any point of a call; on an orderly exit the open files
\* are flushed.
Exit(orderly) ==
  /\ Leave
  /\ disk' = IF orderly THEN Closed(Ids) ELSE disk

\* It ends inside an append.
ExitInAppend ==
  LET id == call.id
  IN  /\ "torn_write" \in Faults
      /\ Executing
      /\ \E stop \in Stops(disk[id], Unwritten, log[id].begun) :
           disk' = [disk EXCEPT ![id] = stop.file]
      /\ Leave

\* main(): prune, then build the server.  Any log may be past its TTL, but one
\* that read_events cannot decode is never deleted.
ServerStart(pruned) ==
  /\ ~ up
  /\ \A id \in pruned : disk[id].present /\ Decodes(AllLines(disk[id]))
  /\ up' = TRUE
  /\ registry' = source
  /\ disk' = [id \in Ids |-> IF id \in pruned THEN NoFile ELSE disk[id]]
  /\ told' = [id \in Ids |-> IF id \in pruned THEN NoDriver ELSE told[id]]
  /\ UNCHANGED <<source, used, driver, log, call>>

\* A program file is edited, added or removed.
EditSource(name, p) ==
  /\ source[name] # p
  /\ p # NoProgram => NameOf[p] = name
  /\ source' = [source EXCEPT ![name] = p]
  /\ UNCHANGED <<disk, used, told, local>>

-----------------------------------------------------------------------------

\* The step numbers an agent may answer: more than a log of MaxEvents holds.
StepNos == 0..MaxEvents

StartCall ==
  \E E \in SUBSET Sweepable, rescan \in BOOLEAN,
     name \in Names, a \in Params, id \in Ids :
    SequencerStart(E, rescan, name, a, id)

NextCall ==
  \E E \in SUBSET Sweepable, id \in Ids, n \in StepNos, r \in Results :
    SequencerNext(E, id, n, r)

CurrentCall == \E E \in SUBSET Sweepable, id \in Ids : SequencerCurrent(E, id)

ResumeCall ==
  \E E \in SUBSET Sweepable, rescan \in BOOLEAN, id \in Ids :
    SequencerResume(E, rescan, id)

CloseCall ==
  \E E \in SUBSET Sweepable, id \in Ids, delete_log \in BOOLEAN :
    SequencerClose(E, id, delete_log)

OtherCall == \E E \in SUBSET Sweepable, rescan \in BOOLEAN : Answer(E, rescan)

CloseCallFails == \E E \in SUBSET Sweepable, id \in Ids : CloseFails(E, id)

\* A step of the server process.
ServerNext ==
  \/ StartCall \/ NextCall \/ CurrentCall \/ ResumeCall \/ CloseCall \/ OtherCall
  \/ LogHeader \/ LogResult \/ LogYield
  \/ DumpFails \/ AppendFails \/ CloseCallFails
  \/ \E orderly \in BOOLEAN : Exit(orderly)
  \/ ExitInAppend
  \/ \E pruned \in SUBSET Ids : ServerStart(pruned)

Next ==
  \/ ServerNext
  \/ \E name \in Names, p \in Programs \cup {NoProgram} : EditSource(name, p)

Spec == Init /\ [][Next]_vars

-----------------------------------------------------------------------------
(* Properties.                                                             *)

\* The header of id's log is not written yet.
Unborn(id) == call # Idle /\ call.id = id /\ Len(call.todo) = 2

\* Whenever the process might end with nothing left in a buffer, resuming a
\* loaded instance from its log would rebuild the very driver that is in
\* memory: results are logged before Driver.send, in order, and replay takes
\* the same decisions (persistence.py:13-20, tools.py:294-300 and 375-388).
Recoverable ==
  \A id \in Ids :
    Loaded(id) /\ ~ Unborn(id) /\ log[id].buf = <<>> =>
      Restored(disk[id]) = driver[id]

\* What the agent was told is never forgotten: whatever happens to the process,
\* the log still replays through the last state reported, unless the log was
\* deleted on request or pruned (persistence.py:60-61).
AckedSurvive ==
  \A id \in Ids : told[id] # NoDriver =>
    LET ls == AllLines(disk[id])
    IN  /\ Restored(disk[id]) # NoDriver
        /\ \E n \in 0..Len(ls) : RestoredFrom(SubSeq(ls, 1, n)) = told[id]

\* A loaded instance runs the program of its log's header, whatever edits,
\* rescans and failures there have been (tools.py:366-373, registry.py:71-74).
SameProgram ==
  \A id \in Ids :
    LET ls == AllLines(disk[id])
    IN  Loaded(id) /\ HasHeader(ls) => driver[id].program = HeaderOf(ls).program

\* Of a log that lost only its tail the rest can still be read: a call cut
\* short by a crash or an error never makes what precedes it unreadable
\* (persistence.py:147-149).
TailRescued ==
  \A id \in Ids :
    disk[id].present /\ HasHeader(disk[id].lines) => Readable(disk[id])

\* A step is answered at most once, over the whole life of an instance and
\* whatever crashes and resumes it goes through: the step numbers of the
\* logged results only grow (tools.py:286-297).
OneResultPerStep ==
  \A id \in Ids : LET ls == disk[id].lines
                  IN  \A i, j \in DOMAIN ls :
                        /\ i < j
                        /\ ls[i].type = "result"
                        /\ ls[j].type = "result"
                        => ls[i].for_step_no < ls[j].for_step_no

\* A yield in the log is what the program yields at that point when the log up
\* to it is replayed (persistence.py:11-12).
LoggedYieldsTrue ==
  \A id \in Ids : LET ls == disk[id].lines
                  IN  \A i \in DOMAIN ls :
                        ls[i].type = "yield" =>
                          LET d == RestoredFrom(SubSeq(ls, 1, i))
                          IN  d # NoDriver /\ d.last_yield = ls[i].payload

\* Every state reached by a result is in the log as a yield once no call is
\* running: what prune reads the retention class from (persistence.py:11).
EveryYieldLogged ==
  \A id \in Ids : Loaded(id) /\ call = Idle =>
    LET ls == disk[id].lines
    IN  \E i \in DOMAIN ls : ls[i] = YieldEvent(driver[id])

\* d is where t was, or further on.
NotBehind(d, t) ==
  \/ d = t
  \/ d.step_no > t.step_no
  \/ d.step_no = t.step_no /\ IsTerminal(d) /\ ~ IsTerminal(t)

\* The agent never sees an instance go back: no report has an earlier step, or
\* another state of the same step, than the report before it, and none differs
\* from a terminal one (tools.py:279-292, 375-388).
ToldNeverRewinds ==
  [][\A id \in Ids :
       told[id] # NoDriver /\ told'[id] # NoDriver =>
         /\ NotBehind(told'[id], told[id])
         /\ IsTerminal(told[id]) => told'[id] = told[id]]_vars

\* While an unfinished instance stays in memory it only goes forward, and by
\* one step at a time, also when appends fail or send raises: a retry has a
\* number of its own (runtime.py:216-229, tools.py:279-302).
LoadedNeverRewinds ==
  [][\A id \in Ids :
       Loaded(id) /\ ~ IsTerminal(driver[id]) /\ driver'[id] # NoDriver =>
         /\ NotBehind(driver'[id], driver[id])
         /\ driver'[id].step_no <= driver[id].step_no + 1]_vars

-----------------------------------------------------------------------------
(* The abstract specification.                                             *)

Runs ==
  INSTANCE DurableRun
    WITH run <- [id \in Ids |-> Restored(disk[id])], report <- told

\* With the log as the only truth, the server implements runs that no crash,
\* sweep, close or resume can disturb: what an instance is, is what its log
\* replays to (persistence.py:16-20).
Durable == Runs!RunSpec
=============================================================================
