----------------------------- MODULE Retention -----------------------------
(***************************************************************************)
(* Sequencer with a clock: which instances a sweep removes (tools.py), and *)
(* which logs the pruning at startup deletes (persistence.py).             *)
(*                                                                         *)
(* Times are ages, in ticks, and stop growing at MaxAge, past every period *)
(* they are compared with.  The monotonic clock of the throttle and the    *)
(* wall clock of everything else advance together.  A call takes no time   *)
(* of its own, but the clock may tick between its appends.                 *)
(***************************************************************************)
EXTENDS Sequencer

CONSTANTS
  TerminalTTL,     \* how long a terminal instance stays in memory
  Throttle,        \* _SWEEP_THROTTLE_SECONDS
  CompletedTTL,    \* DISK_TTL_*
  AbortedTTL,
  FailedTTL,
  InterruptedTTL,
  MaxAge           \* bound: an age that exceeds every period

Periods ==
  {TerminalTTL, Throttle, CompletedTTL, AbortedTTL, FailedTTL, InterruptedTTL}

\* No append fails here: whatever a buffer holds has an age of its own.
ASSUME RetentionAssumption ==
  /\ Periods \subseteq Nat
  /\ Throttle > 0
  /\ MaxAge \in Nat
  /\ \A t \in Periods : t < MaxAge
  /\ "io_error" \notin Faults

VARIABLES
  sinceSweep,   \* since sweep_state["last"]
  yieldAge,     \* since yielded_at of each loaded driver, which is its
                \* terminal_at if it is terminal
  logAge        \* since the yielded_at of the last yield that each log holds,
                \* or since its mtime if it holds none

ages      == <<sinceSweep, yieldAge, logAge>>
timedVars == <<vars, ages>>

Ages == 0..MaxAge

AgesOK ==
  /\ sinceSweep \in Ages
  /\ yieldAge \in [Ids -> Ages]
  /\ logAge \in [Ids -> Ages]

TimedInit ==
  /\ Init
  /\ sinceSweep = 0
  /\ yieldAge = [id \in Ids |-> 0]
  /\ logAge = [id \in Ids |-> 0]

Older(n) == IF n < MaxAge THEN n + 1 ELSE n

Tick ==
  /\ sinceSweep' = IF up THEN Older(sinceSweep) ELSE 0
  /\ yieldAge' = [id \in Ids |-> IF Loaded(id) THEN Older(yieldAge[id]) ELSE 0]
  /\ logAge' =
       [id \in Ids |-> IF disk[id].present THEN Older(logAge[id]) ELSE 0]
  /\ UNCHANGED vars

-----------------------------------------------------------------------------
(* The two retentions.                                                     *)

\* Mutant of Due: the throttle interval is waited for as well.
DueWithThrottle == {id \in Sweepable : yieldAge[id] > TerminalTTL + Throttle}

\* The instances that a sweep removes.
Due == {id \in Sweepable : yieldAge[id] > TerminalTTL}

\* Mutant of Sweep: the time of the last attempt is kept.
SweepAttempted(E) ==
  /\ E = IF sinceSweep < Throttle THEN {} ELSE Due
  /\ sinceSweep' = 0

\* maybe_sweep_terminal removes E.
Sweep(E) ==
  \/ sinceSweep < Throttle /\ E = {} /\ UNCHANGED sinceSweep
  \/ sinceSweep >= Throttle /\ E = Due /\ sinceSweep' = 0

YieldsIn(ls) == {i \in DOMAIN ls : ls[i].type = "yield"}

\* The place of the last yield event, 0 if there is none.
LastYieldIn(ls) ==
  IF YieldsIn(ls) = {} THEN 0
  ELSE CHOOSE i \in YieldsIn(ls) : \A j \in YieldsIn(ls) : j <= i

\* The period that goes with the kind of a last yield.
KindTTL(kind) ==
  CASE kind = "done"  -> CompletedTTL
    [] kind = "abort" -> AbortedTTL
    [] kind = "error" -> FailedTTL
    [] OTHER          -> InterruptedTTL

\* determine_disk_ttl
DiskTTL(ls) ==
  IF YieldsIn(ls) = {} THEN InterruptedTTL
  ELSE KindTTL(ls[LastYieldIn(ls)].payload.kind)

\* Mutant of Expired: a log that holds no yield is left alone.
ExpiredEnded ==
  {id \in Ids : /\ disk[id].present
                /\ Decodes(AllLines(disk[id]))
                /\ YieldsIn(AllLines(disk[id])) # {}
                /\ logAge[id] > DiskTTL(AllLines(disk[id]))}

\* The logs that prune_old_logs deletes.
Expired ==
  {id \in Ids : /\ disk[id].present
                /\ Decodes(AllLines(disk[id]))
                /\ logAge[id] > DiskTTL(AllLines(disk[id]))}

-----------------------------------------------------------------------------
(* The steps of Sequencer, with their ages.                                *)

\* How old the last yield of id's log may be after this step: the one just
\* appended is as old as the driver's.  When an append has spoilt the last
\* yield, one before it is the last; its age is not recorded.
LogAges(id) ==
  LET before == LastYieldIn(AllLines(disk[id]))
      after  == LastYieldIn(AllLines(disk'[id]))
  IN  CASE disk'[id] = disk[id] -> {logAge[id]}
        [] disk'[id] # disk[id] /\ after = 0 -> {0}
        [] disk'[id] # disk[id] /\ after > before -> {yieldAge[id]}
        [] disk'[id] # disk[id] /\ after = before /\ after > 0 -> {logAge[id]}
        [] OTHER -> logAge[id]..MaxAge

\* The ages after a step that swept E.  What has moved or been loaded has just
\* yielded, also when it was swept and resumed by the same call.
Aged(E) ==
  /\ yieldAge' = [id \in Ids |->
                    IF id \notin E /\ Loaded(id) /\ driver'[id] = driver[id]
                    THEN yieldAge[id] ELSE 0]
  /\ logAge' \in [Ids -> Ages]
  /\ \A id \in Ids : logAge'[id] \in LogAges(id)

\* A tool is called, and its sweep removes E.
Call(E) ==
  \/ \E rescan \in BOOLEAN, name \in Names, a \in Params, id \in Ids :
       SequencerStart(E, rescan, name, a, id)
  \/ \E id \in Ids, n \in StepNos, r \in Results : SequencerNext(E, id, n, r)
  \/ \E id \in Ids : SequencerCurrent(E, id)
  \/ \E rescan \in BOOLEAN, id \in Ids : SequencerResume(E, rescan, id)
  \/ \E id \in Ids, delete_log \in BOOLEAN : SequencerClose(E, id, delete_log)
  \/ \E rescan \in BOOLEAN : Answer(E, rescan)

\* A call, unless it is a ListRefused.
TimedCall == \E E \in {{}, Due} : Sweep(E) /\ Call(E) /\ Aged(E)

\* sequencer_list with an unknown filter returns before the sweep.
ListRefused ==
  /\ up
  /\ call = Idle
  /\ UNCHANGED timedVars

TimedAppend ==
  /\ LogHeader \/ LogResult \/ LogYield \/ DumpFails
  /\ Aged({})
  /\ UNCHANGED sinceSweep

TimedExit ==
  /\ ExitInAppend \/ \E orderly \in BOOLEAN : Exit(orderly)
  /\ Aged({})
  /\ sinceSweep' = 0

\* Where the monotonic clock starts is not defined: it may be less than a
\* throttle away from the 0.0 that "last" starts with.
TimedServerStart ==
  /\ ServerStart(Expired)
  /\ Aged({})
  /\ sinceSweep' \in Ages

TimedEdit ==
  /\ \E name \in Names, p \in Programs \cup {NoProgram} : EditSource(name, p)
  /\ UNCHANGED ages

TimedNext ==
  \/ Tick \/ TimedCall \/ ListRefused \/ TimedAppend \/ TimedExit
  \/ TimedServerStart \/ TimedEdit

TimedSpec == TimedInit /\ [][TimedNext]_timedVars

\* Time passes, and a handler that has begun runs to its end: it never
\* suspends, and nothing else can run.
LiveSpec ==
  /\ TimedSpec
  /\ WF_timedVars(Tick)
  /\ WF_timedVars(TimedAppend)

-----------------------------------------------------------------------------
(* Properties.                                                             *)

\* No call leaves in memory an instance that has been terminal for the TTL and
\* a throttle interval, whatever calls came before and whatever the monotonic
\* clock was when the server started; except for a sequencer_list that is refused,
\* which leaves what it finds (tools.py:120-139, 488-494).
SweptInTime ==
  [][TimedCall =>
       \A id \in Ids : Loaded(id)' /\ IsTerminal(driver'[id]) =>
         yieldAge'[id] < TerminalTTL + Throttle]_timedVars

\* As long as calls keep coming, not all of them refused lists, an instance past
\* its TTL leaves memory, even if every call comes when the throttle has just been
\* reset (tools.py:121-130, 488-494).
EventuallySwept ==
  []<><<TimedCall>>_timedVars =>
    \A id \in Ids :
      (id \in Due) ~> (~ Loaded(id) \/ yieldAge[id] = 0)

\* A log that can be decoded and is never written again is deleted in the end
\* if servers keep being started, whatever it holds and whether or not its
\* instance was loaded again meanwhile (persistence.py:246-284).
EventuallyPruned ==
  \A id \in Ids :
    /\ []<><<TimedServerStart>>_timedVars
    /\ <>[][disk'[id] = disk[id] \/ ~ disk'[id].present]_timedVars
    => []<>(~ disk[id].present \/ ~ Decodes(AllLines(disk[id])))

\* A run that has ended is kept as long as the way it ended says
\* (persistence.py:205-207).
KeptAsPromised ==
  [][TimedServerStart =>
       \A id \in Ids : LET d == Restored(disk[id])
                       IN  d # NoDriver /\ IsTerminal(d) /\ ~ disk'[id].present =>
                             logAge[id] > KindTTL(d.last_yield.kind)]_timedVars

\* Starting a server leaves no log that is older than every period
\* (persistence.py:247).
OldLogsDeleted ==
  [][TimedServerStart =>
       \A id \in Ids : disk'[id].present =>
         \E t \in Periods : logAge[id] <= t]_timedVars
=============================================================================
