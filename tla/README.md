# Verification of agent-sequencer

agent-sequencer is an MCP server that lets a Python generator (a *sequencer
program*) drive an agent step by step: the program yields an instruction, the
agent carries it out and submits a result, the server resumes the program with
it. This directory holds TLA+ modules that model the server, the TLC
configurations that model-check them, and theorems about them that TLAPS checks.

Paths such as `tools.py:294` are relative to `src/agent_sequencer/` of the
repository. `PROJECT.json` maps every definition that models code to its lines.

## 1. The system

| component | state | operations | what makes it correct |
|---|---|---|---|
| Driver (`runtime.py`, `api.py`) | generator, pending instruction, state, step number, last yield | `start`, `send`, `throw` | the parts never disagree; every issue of an instruction, a retry too, has a step number of its own; the program gets at most one result for a number |
| Event log (`persistence.py`) | a JSONL file, a stdio buffer | `append`, `close`, `read_events`, `parse_header` | what was appended can be read back; a torn tail costs only the tail |
| Tools (`tools.py`) | registry, instance store, throttles | `sequencer_start`, `_next`, `_current`, `_resume`, `_close`, `_list`, `_list_programs`; sweep and rescan at the head of calls | memory is always what the log replays to; one result for each step; the agent never sees an instance go back |
| Instance store (`instance.py`) | instances by id, a lock in each | `add`, `get`, `remove`, `list_all` | an instance is in memory at most once in a process |
| Registry (`registry.py`) | programs by name | scan, `rescan` | the first file of a name wins, whatever is edited meanwhile; the table catches up with the files |
| Retention (`persistence.py:193-284`, `tools.py:120-151`) | clocks, throttles, TTLs | startup prune, terminal sweep | what is past its TTL goes, and in time |
| Startup (`__main__.py`) | search paths, state directory | `main` | no directory is searched twice; prune before serving |
| Bundled programs (`hello.py`, `review_rounds.py`) | local variables of `run` | one instruction for each name; rounds of three | the run ends, with the right verdict and the right totals |
| Agent (`SKILL.md`) | the instance of its run, the state it was last told | start, execute and submit, resynchronise, resume, report | it ends up with a report, and does little twice |

**How they interact.** A tool handler calls the driver and the log in turn:
`sequencer_next` appends the result, calls `Driver.send`, appends the yield and
replies (`tools.py:294-325`). `sequencer_resume` reads a log and feeds its results
to a new driver (`tools.py:375-394`). The registry gives start and resume a
program; the sweep removes terminal instances at the head of any call; `main` prunes
the state directory before it serves. Servers share the state directory and the
program files, and nothing else.

**What is hard.** The handlers are coroutines but never suspend while they hold
an instance's lock, so one process executes one call at a time: the hazards are
not task interleavings but *cuts*. The process can end between any two appends
of a call or inside one, a flush can fail and leave its data in the buffer, `send` can
raise after the result was logged, the program file can change between the write of
a log and its replay, and a second server (each agent session starts one) can use
the same directory. `PROJECT.json` lists these hazards at their lines, with the
properties aimed at each.

## 2. The modules

| module | models |
|---|---|
| `Driver` | `Driver.start`, `send`, `throw` as operators from a driver to a driver |
| `DriverLife` | one driver as a state machine, under a generator that may stop anywhere each time it is resumed |
| `EventLog` | the file format under successful, failed and torn writes, what cannot be serialised, reading, and replay |
| `Sequencer` | one server process: every tool, its appends one by one, crashes, startup, edits of programs |
| `DurableRun` | what the server promises: runs that exist from start to deletion and move only when they take a result |
| `SharedState` | two `Sequencer` processes over one state directory |
| `Registry` | the search paths and the scan, directory by directory and file by file, while users edit |
| `Retention` | `Sequencer` with clocks: which instances a sweep removes and which logs a start prunes |
| `Hello`, `ReviewRounds` | the bundled programs as automata |
| `ProgramRun`, `BundledPrograms` | one run of one program by the driver; the same for the two automata |
| `Agent` | `Sequencer` with an agent that follows `SKILL.md` |
| `MC...` | instances for TLC, `MCPrograms` with the programs most of them run |
| `DriverProofs` | lemmas about the operators of `Driver` |
| `SequencerProofs` | lemmas about those of `EventLog`; the theorems about one server |
| `DriverLifeProofs`, `SharedStateProofs`, `RegistryProofs`, `RetentionProofs`, `BundledProgramsProofs`, `AgentProofs` | the theorems about the other specifications |

**How they build on each other.** `Driver` is below everything that has a driver: `DriverLife`,
`EventLog`, `ProgramRun` and `DurableRun` extend it. `Sequencer` extends `EventLog`; `SharedState` instantiates it twice;
`Retention` and `Agent` extend it with clocks and with a caller, and constrain its steps. `BundledPrograms` instantiates
`ProgramRun` with the automata of `Hello` and `ReviewRounds` for `Driver`'s constants. `Registry` stands beside
them: the table that it computes is the `source` of `Sequencer`. The proof modules follow: `SequencerProofs` extends `DriverProofs`,
`RetentionProofs` and `AgentProofs` extend `SequencerProofs`, and `SharedStateProofs` instantiates it for each of its servers.

**Programs.** The driver sees a program only through what it yields, and the
authoring rules ask for determinism, so a program is an automaton: `Entry` says
where the generator stops first, `Resumed` where it stops after a result,
`Yields` what is seen there (the yield's kind, what jsonschema makes of each
result, `on_invalid`). `DriverLife` drops even determinism: the next stop is chosen freely.

**Files.** A line is an event, or *garbled* (`json.loads` rejects it), or
*undecodable* (a UTF-8 character cut short). A file is its complete lines and a
tail without a newline; a handle is the lines a failed flush left in the stdio buffer.
`Stops` lists what a flush that stops short can leave behind, `Ended` and `Glue` what
becomes of a tail that later text is written onto, `AllLines`, `Decodes` and
`HasHeader` what `read_events` and `parse_header` make of it.

**A server** holds `registry`, `driver` (the store, as drivers by id), `log` (the
handles) and `call`: the events that the current call has still to append, and
whether it then replies. A handler is a first step (`SequencerStart`, `SequencerNext`, ...: the
sweep, the checks, what it does before its first append) and one step for each append
(`LogHeader`, `LogResult` with its `Driver.send`, `LogYield` with the reply). Refused calls are `Answer`.
`source` is the program version that each name stands for in the search paths, `disk` the log files,
`used` the ids drawn, `told` a history variable: the state last reported to the agent.

**The registry** is the state of one scan (`scan`: the search path being read, the files of its listing still to be loaded, the table
so far) beside the table in use. `Load` reads a file as it is *then*, not as it was listed. `touched` remembers what was
edited since the scan began: `FirstWins` says what must hold for every file that was not.

**Retention** adds three ages to `Sequencer`: of the last sweep, of each loaded driver's last yield and of the last yield in each
log. One call does not come to the sweep: `sequencer_list` with an unknown filter returns before it (`ListRefused`, `tools.py:488-492`).
Of the other calls, `Sweep` fixes the set that `Sequencer` lets a call remove freely, `TimedServerStart` the set pruned, so every step is a step
of `Sequencer` (`ClockRestricts` proves it). After a line was spoilt, the last yield is an earlier one, whose age is not recorded: it
is any age from that of the spoilt one up.

**The programs.** A point of an automaton is where the generator stops and the values of its variables there. `KindAt` is what it
yields, `Accepts` the schema of the instruction, `After` the code from one `yield` to the next.

**The agent** acts by `phase`: each action is one call of the skill's rules, and each answer of the server leads to what that answer
tells the agent to do. After `OutOfSync` and `AdvanceFailed` it resynchronises; after `NotLoaded` it resumes; after `TerminalError` it
starts a new instance (`StartsAnew`); after `AlreadyLoaded`, which gives no advice, it has lost its place (rule 6); `NotFound`, a program that is gone or changed, and a
start that fails end its run. A yield that cannot be serialised makes the call raise (`YieldRaises`). A reply is lost
when the server ends during the call (`Crash`), when the client gives up while the handler goes on (`Timeout`), or on its way back (`ReplyLost`):
of a resume, for instance, whose repetition then meets `AlreadyLoaded`. A restart prunes any logs, as `main` does; `lapsed` remembers that the run's own was among them.

## 3. What is checked

| run | configuration | what it shows |
|---|---|---|
| `crashes` | one server, crashes between any two appends, yields that cannot be serialised, no failing write | the log always replays to the driver in memory (`Recoverable`), reports survive (`AckedSurvive`), steps are answered once (`OneResultPerStep`), logged yields are what replay yields (`LoggedYieldsTrue`), reports never go back (`ToldNeverRewinds`), and the server implements `DurableRun` with `run` mapped to what the log replays to (`Durable`) |
| `failures` | the same with failing flushes and torn lines, of text that is not ASCII | what still holds: types, an instance runs its header's program (`SameProgram`), instances in memory only go forward (`LoadedNeverRewinds`) |
| `driver_life` | one driver, every reaction at every stop | `Coherent`, `OneAnswer`, `FreshNumbers` |
| `hand_over` | two servers used so that an instance is loaded in one at a time | instances can be handed over by close, crash and resume (`HandedOver`); neither forgets what the other reported (`AckedSurvive`), and the two together implement `DurableRun` (`Durable`) |
| `bundled_programs` | both programs, every list of up to three names, limits below, at and above one round, params and results that no schema accepts | the greeting is complete and in order; a review ends with the verdict its docstring gives, with true totals, about the right document, within three results for each round; every run ends |
| `registry` | two directories of two files as any of the search paths, five contents, two edits at any time | `FirstWins`, `ExecutedOnce`, and that the table catches up with the files (`CatchesUp`) |
| `retention` | torn lines of wide text, a program that fails at once beside one that completes, refused `sequencer_list` calls | a call that comes to its sweep leaves no instance in memory that has been terminal for the TTL and a throttle interval (`SweptInTime`); what is due is swept as long as such calls come (`EventuallySwept`), and pruned as long as servers start (`EventuallyPruned`) |
| `agent` | one agent, two crashes, timeouts, lost replies or losses of context, one result that is not valid, a yield that cannot be serialised, prunes and edits at any time | each trouble costs one instruction executed in vain or one run started over, not both (`OneRedoEach`); what is reported is how the log ends, until it is pruned (`ReportedTrue`); the agent is refused only after an edit or when its run's log was pruned (`NeverStranded`); it always ends up with a report, refused or without a run (`Finishes`) |

Every property of these runs has a mutant: a plausible bug in the code (a step number
not compared, a flush forgotten, the hash check reduced to the name, retries not
replayed, a search path listed twice, the throttle's clock reset by calls it refuses, a document bound in the first round only, ...) that
makes TLC find it violated.

**Disagreements.** Four runs end in a violation: the code does not do what one of its
own comments or docs says.

| run | what it shows |
|---|---|
| `torn_glue` | a log with a torn tail is reopened without ending that line: the first event after a resume joins it, and a step that was logged, flushed and reported is lost |
| `torn_char` | events are not ASCII-escaped, so a tail can end inside a character; then the whole log is refused, not only its tail (`TailRescued`) |
| `failed_append` | a result whose flush failed stays buffered and is written by the next append, although the driver never saw it |
| `send_raises` | a result for which `send` raised stays in the log, and every replay raises again |

`maybe_sweep_terminal` is "Called at the top of every tool" by its docstring (`tools.py:123`), and `sequencer_list` with an unknown
filter returns before it: `ListRefused` models the code, and the claims about sweeps are made of the other calls.

Further configurations are kept for the disagreements below; each ends in the violation of the one property it names and is
not part of the list of runs.

| configuration | module | what it shows |
|---|---|---|
| `ParamsTaken.cfg` | `MCSequencer` | the header records the params after the program's first segment ran with the same object |
| `MissingYield.cfg` | `MCSequencer` | a crash between a result and its yield leaves the yield unlogged for good |
| `TwoServers.cfg` | `MCSharedState` | two servers both take a result for the same step of one instance: `instance.lock` and the check of the step number serialise one process only (`Serialized`) |
| `PruneLoaded.cfg` | `MCSharedState` | one server's startup prune deletes the log of an instance loaded in another |
| `BadName.cfg` | `MCRegistry` | a program file whose `NAME` is a list makes the whole scan raise, though load failures are said to be skipped (`LoadFailuresSkipped`) |
| `MovedProgram.cfg` | `MCRegistry` | a copy of a program in an earlier search path replaces it while the diff is empty |
| `KeptAsPromised.cfg` | `MCRetention` | after a crash between the last result and its yield, the log of a run that ended is deleted after the period of an interrupted one |
| `OldLogs.cfg` | `MCRetention` | a log that cannot be decoded is never deleted |

**Bounds.** `MaxEvents` ends the acceptance of results once a log has that many lines: 7 in
`crashes` (a start and two results with their yields, and a third result if a crash lost one of the yields:
enough for a retry, a resume and another step), 5 in `failures`, 6 in `hand_over`, 4 in `retention` (a start, one result and
its yield), 12 in `agent`, which no run of its programs reaches. `MaxExecuted` is 6 in `agent`, which no run of the agent reaches either. `MaxStepNo` is 3 in `driver_life`:
a driver has no memory beyond its number, so a longer life repeats the same steps.
There is one instance id, as instances share nothing but the sweep and the registry; in `agent` there are three, one for each start that
two troubles can bring about. There are two
results, one good and one bad; and two versions of one program, whose automata together
show every verdict, both `on_invalid` policies and every kind of end that matters to a log.
The other programs of `MCPrograms` serve `send_raises`, `ParamsTaken.cfg`, `agent` and `retention` (a program that starts and one that fails at once).
A server may crash, restart, be pruned and see edits any number of times, except that `agent` bounds crashes with the other troubles (`MaxTroubles`) and `registry` edits
(`MaxEdits` = 2: an edit hides or shows a file only together with one other). In `retention` ages stop at `MaxAge`, past every
period; the periods are a few ticks and no period exceeds one that is longer in the code (the TTL of the sweep and its throttle, 600 s and 60 s, are both 2 ticks). In `bundled_programs` the names are two, so that a list can
name one twice, counts are 0 and 1, and one invalid result comes at any point: the automata have no memory of retries.

**Fairness.** A call needs a caller, so the server's own specification states none. Where liveness is claimed:

- `ProgramRun`: the agent starts its run and goes on answering, and some answer is what the schema asks for (weak fairness of `Begin` and of
  `Submit` with *some* valid result). Rules 2 to 5 of the skill tell it to. Nothing says which result: that the review ends must come from
  `max_rounds`.
- `Registry`: a scan that has begun goes on, since a handler runs to its end; calls keep coming under `--watch`; a client whose
  server did not start tries again. `CatchesUp` has the premise that files stop failing the scan; edits are bounded.
- `Retention`: time passes (`Tick`) and a handler's appends follow (`TimedAppend`). That calls or starts go on is a premise of
  `EventuallySwept` and `EventuallyPruned`, not of the specification.
- `Agent`: the agent goes on until it has reported (`AgentStep`), a handler runs to its end and the client restarts a server that has ended
  (`ServerStep`). Crashes, timeouts, lost replies, losses of context and edits are not fair: they may come or not.

## 4. What is proved

TLAPS proves these for every value of the constants: any programs, results and params, any number
of ids, files and directories, and any bound.

*One driver* (`DriverLifeProofs`). `TypeCorrect`, `DriverCoherent`, `AtMostOneAnswer` and `IssuesAreNumbered`
are the four properties of `driver_life`. The inductive invariant joins `OneAnswer` with
`Sound`: the driver is well typed and coherent. Coherence is what makes the proof go through, since
only "not terminal" implying "an instruction is pending" rules out the defensive failure of `send`.

*Types of the server* (`SequencerProofs!TypeCorrect`), with failing and torn writes. The strengthening
`CallOK` says what a call may still have to append and that its instance stays loaded. The proof
rests on lemmas about `EventLog`: what any write, complete or not, leaves is a file
(`WriteLinesType`, `StopsType`), and what a resume builds is a driver or nothing (`RestoredWithType`).

*Whatever fails* (`SequencerProofs`): `ProgramsStay` is `[]SameProgram` and `MemoryNeverRewinds` is `LoadedNeverRewinds`; failing flushes, torn and glued lines included. The lemmas
`WriteLinesWithin` and `StopsWithin` are stated for any set of lines that holds what becomes of its lines when they are torn or joined (`Spoilable`): writing into
such text, even when it stops inside a line, leaves only such text. The invariant `OneProgram` applies them to the text whose
headers are of one program (`Text`): all of an instance (its file and tail, what is left in the buffer, what its call has still to append) is of
the program that its driver runs. Buffers must be in it, because a failed flush leaves in one what a later append writes.

*Recovery* (`SequencerProofs`): `LogRestoresMemory` is `[]Recoverable`, `ReportsSurvive` is `[]AckedSurvive`. They assume

- `NothingFails`: no flush fails and no crash tears a line,
- `ResultsJudged`: jsonschema judges every result,
- `ParamsSpared`: starting a program with the params its first segment left makes no difference.

Each assumption is needed: `failed_append` and `torn_glue`, `send_raises` and `ParamsTaken.cfg` are what
happens without it. The inductive invariant `RecoveryInv` adds to `Recoverable` and the prefix that
witnesses `AckedSurvive` (`InMemory`, `InLog`): logs are whole lines of events that begin with a header and
can be replayed (`WholeLines`), what is loaded has a file and an id not drawn has none (`Drawn`), a server that
is down holds nothing (`DownIsEmpty`), and what a call has still to append continues its log (`Continues`): this
is where "the result is logged before `send`" enters, as the driver must still be in the state in which
the step number was compared. Replay is a recursive function; `ReplayAppend` unfolds it at its *end*,
by an induction over sets of numbers (`SetInduction`, from the library's well-foundedness of `<`), so that each append is
one turn of the replay loop (`RestoredAppend`). Steps that append nothing share one argument (`Settled`), those that append share
another (`AppendKeeps`).

*History* (`SequencerProofs`), under the same three assumptions. First, every step of the server does one of four things to each log
(`NextLogSteps`): it stays, is emptied, is begun by a header, or grows by the yield of the driver that it replays to or by a result for the step
that this driver awaits. Then what is true of a log is kept by these (`LogMoves`): its driver is sound,
its results are for steps that are over, in order, and its yields are what replay yields (`GoodLog`). With that, and with the report being
at or behind the log (`ToldBehind`), as the invariant `HistoryInv`, follow `StepsAnsweredOnce`, `YieldsAreReplayed` and
`ReportsNeverRewind`, and `ServerImplementsRuns`: the refinement of `DurableRun`, step by step (`NextMoves`).

*Two servers* (`SharedStateProofs`), under the same three assumptions and `ExclusiveSpec`: `InstancesHandedOver` is `[]HandedOver`,
`ReportsOutliveServers` is `[]AckedSurvive`, and `ServersImplementRuns` is the refinement of `DurableRun` by
both together. The invariant `IInv` is `HistoryInv` of each server and `Exclusive`. A server's own step keeps its own invariant by the lemmas of
`SequencerProofs`, instantiated. What is new is the step of the *other* server, which may begin, continue or remove the logs that this one's
invariant is about. `LeavesOthers` says that a server leaves alone the log of what it does not load, unless it removes it, and `Exclusive` excludes that for what the
other has loaded; `OthersSteps` says that a server keeps its invariant while the logs of its own instances stay and the files are still in order
(`FilesInv`, the part of `HistoryInv` about the files alone, which the acting server restores). `TwoServers.cfg` and `PruneLoaded.cfg` are what happens without
`Exclusive`. The prover sees an instance's copies of `Driver`'s and `EventLog`'s operators as different symbols: `SameDrivers` and the lemmas after it
identify them.

*Registry* (`RegistryProofs`): `UntouchedFound` is `[]FirstWins`, `NoneExecutedTwice` is `[]ExecutedOnce`, `TypeCorrect` is `[]TypeOK`, with no
assumption beyond the types of the constants. The invariant says of a scan in progress what `FirstWins` says of a finished one, for the files that were
listed and loaded so far, and that search paths do not repeat.

*Retention* (`RetentionProofs`): `ClockRestricts` shows that the server with clocks is `Sequencer` with fewer choices, so that every
safety theorem about `Sequencer` holds of it; `SweepsKeepUp` is `SweptInTime`, for any periods, of every call that comes to its sweep. Its invariant bounds the age of a terminal instance by the
TTL and the time since the last sweep.

*Bundled programs* (`BundledProgramsProofs`): `EveryNameGreeted` is `[]GreetsEachInOrder` for lists of any length; `RunsEndAsDocumented`,
`RoundsBounded`, `TotalsCountOnce` and `DocumentOfItsRound` are the other four properties of `bundled_programs`, for any limit and any number of
retries. `bundled_programs` bounds the names, the limit and the counts; the theorems do not. The invariant `RunInv` ties the point where the
generator stands to the results it was sent: which results a review has been given at each of its points (`Place`), how many rounds are over and whether one
changed nothing (`Rounds`), that the totals are sums over them (`Totals`), and which document the round is about (`Document`). The totals are sums over the results of
the run: lemmas say what a sum becomes when the results grow by one, by the same induction over sets of numbers as for replay.

*Agent* (`AgentProofs`), under the three assumptions of recovery: `OneRedoForEachTrouble` is `[]OneRedoEach`, `ReportsAreTrue` is `[]ReportedTrue`,
`NoRunStranded` is `[]NeverStranded`, for any number of crashes, timeouts, lost replies, losses of context, prunes and edits. The invariant `FullInv` is
`HistoryInv` of the server with what the agent knows:

- `Lapse`: once a restart has pruned the log of its run, nothing is left of that run, and nothing brings it back. What follows holds until then.
- `Acquainted`: the run is where the agent was told, or further on. Nothing rewinds a run, so "terminal" stays true once told.
- `OnCall` and `Waits`: the call that the agent waits for is about its run, and until the result it submitted is logged, the run waits where the agent was told.
- `Redo`: `OneRedoEach` is not inductive, as it does not see that an agent about to execute an instruction that somebody has answered already
  (itself, before it timed out) will execute it in vain. `Late` names those states, and `Credit` counts that execution before it happens. `Unlogged` says that a run
  has executed at least what its log holds: when `TerminalError` makes the agent drop a finished run and start
  another, what the old log held is forgotten with what was executed for it, and the instruction executed in vain, whose trouble had been counted, pays for the new run.
- `AsFound`: as long as nobody has edited, every log, and the header that a call is about to write, is of a program that the search paths hold.
- `Numbered`: a step number never exceeds the lines of its log, so that every step number the agent
  can submit is among those that `Sequencer` lets any caller submit: the agent's calls are steps of the server.
- `Outcome`: how the agent can have ended, which is what the two other properties read off.

*Only model-checked*: liveness (`CatchesUp`, `EventuallySwept`, `EventuallyPruned`, `Terminates`, `Finishes`).
Every other invariant and action property of a passing run is a theorem. *Out of the prover's reach*: liveness, `ENABLED`, and what a
recursive definition computes in general (the library's induction rules take an operator as a parameter, which
the installed provers cannot instantiate).

## 5. What is left out

- **Task interleavings in one process.** No handler awaits anything while it holds an instance's lock, so the lock is
  never contended and the checks repeated under it never fail.
- **Losses below the process.** `append` flushes to the operating system, without fsync; a file is what was flushed. An event is shorter
  than the stdio buffer, so a flush is the only time a line reaches the file.
- **A scan's mixtures in the server.** `Sequencer` takes the table of a rescan from `source` at once; what a scan can make of files that change
  under it is the matter of `Registry`. In `Registry` the rescan's throttle is not modelled: a rescan may come at any time.
- **Failing flushes with clocks or with an agent.** `Retention` and `Agent` have crashes (and, in `Retention`, torn lines); failing flushes are checked in
  `failures` only.
- **What is refused, in detail.** A refused call is a step (`Answer`); which error code it carries is modelled where the agent acts on it, in `Agent`.
  Lost replies of refusals are modelled for `sequencer_next`, whose repetition means executing once more; the other refused calls are repeated at no cost.
- **A finished run that is never reported.** When the reply of the last step is lost to a timeout and the agent submits it once more, `TerminalError` advises it to start a new instance,
  and it does: the finished run stays unreported, and its work is done again. `OneRedoEach` counts it as a run started over; no property says that it must not happen.
- **`TailRescued` and `Serialized` where they hold.** They are properties the comments claim without conditions, so they are run only where the code refutes them
  (`torn_char`, `TwoServers.cfg`): under ASCII text, or with instances loaded in one server at a time, they would hold by what that condition excludes.
- **Params and headers that cannot be serialised.** Params arrive as JSON; only what a program yields may not be.
- **Data no property tells apart**: progress hints, texts of instructions, schemas beyond their verdict, log
  messages, `PARAMS_SCHEMA` (which the server lists and does not enforce), the params of `review_rounds` that only change its texts.
- **`Driver.throw`** has no caller in the server; `DriverLife` models the one its docstring describes.
- **`scripts/render-review.py`** and the other skills of the review bundle: a script that turns one file into another, and
  instructions for the agents that the program's texts refer to.

## 6. Plan

Done, in this order: `Driver`, `DriverLife` and its proofs; `EventLog`; `Sequencer` with `DurableRun`; `SharedState`;
the type and recovery theorems and those that hold whatever fails; `Registry` and `Retention` with their theorems; the bundled programs; the agent; the
theorems on histories and the refinement; the theorems on two servers, on the bundled programs and on the agent.

Next:

1. How far recovery goes with failing flushes: what a log that `failed_append` spoiled still replays to.
2. `KeptAsPromised` for logs whose last yield was written, as a theorem beside `SweptInTime`.

## 7. Running it

    tlc -config Crashes.cfg MCSequencer      # and the other .cfg files: PROJECT.json names their modules
    tlapm SequencerProofs.tla                # and the other *Proofs modules
