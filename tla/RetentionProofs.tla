--------------------------- MODULE RetentionProofs ---------------------------
(***************************************************************************)
(* What the sweep of maybe_sweep_terminal guarantees, for every TTL, every *)
(* throttle interval and every start of the monotonic clock; and that the  *)
(* clock adds nothing to what the server does.                             *)
(***************************************************************************)
EXTENDS Retention, SequencerProofs

\* A terminal instance has outlived its TTL by no more than the time since the
\* last sweep.
SweptByNow == \A id \in Sweepable : yieldAge[id] <= TerminalTTL + sinceSweep

\* A server that is down holds no instance.
DownHoldsNothing == ~ up => \A id \in Ids : ~ Loaded(id)

SweepInv == AgesOK /\ SweptByNow /\ DownHoldsNothing

\* The periods are numbers.
LEMMA PeriodTypes ==
  /\ TerminalTTL \in Nat /\ Throttle \in Nat /\ MaxAge \in Nat
  /\ Throttle > 0 /\ Throttle < MaxAge
BY RetentionAssumption DEF Periods

\* The TTL and a time make a time.
LEMMA SumIsNatural == \A n \in Nat : 0 <= TerminalTTL + n
BY PeriodTypes

-----------------------------------------------------------------------------
(* Every step is a step of Sequencer.                                        *)

\* A call is one of the calls of Sequencer, and finds the server up.
LEMMA CallIsNext ==
  ASSUME NEW E, Call(E)
  PROVE  Next /\ up /\ up' = up
<1>1. CASE \E rescan \in BOOLEAN, name \in Names, a \in Params, id \in Ids :
             SequencerStart(E, rescan, name, a, id)
  <2>1. up /\ up' = up /\ E \in SUBSET Sweepable
    BY <1>1 DEF SequencerStart, Enter
  <2> QED BY <1>1, <2>1 DEF Next, ServerNext, StartCall
<1>2. CASE \E id \in Ids, n \in StepNos, r \in Results : SequencerNext(E, id, n, r)
  <2>1. up /\ up' = up /\ E \in SUBSET Sweepable
    BY <1>2 DEF SequencerNext, Enter
  <2> QED BY <1>2, <2>1 DEF Next, ServerNext, NextCall
<1>3. CASE \E id \in Ids : SequencerCurrent(E, id)
  <2>1. up /\ up' = up /\ E \in SUBSET Sweepable
    BY <1>3 DEF SequencerCurrent, Enter
  <2> QED BY <1>3, <2>1 DEF Next, ServerNext, CurrentCall
<1>4. CASE \E rescan \in BOOLEAN, id \in Ids : SequencerResume(E, rescan, id)
  <2>1. up /\ up' = up /\ E \in SUBSET Sweepable
    BY <1>4 DEF SequencerResume, Enter
  <2> QED BY <1>4, <2>1 DEF Next, ServerNext, ResumeCall
<1>5. CASE \E id \in Ids, delete_log \in BOOLEAN : SequencerClose(E, id, delete_log)
  <2>1. up /\ up' = up /\ E \in SUBSET Sweepable
    BY <1>5 DEF SequencerClose, Enter
  <2> QED BY <1>5, <2>1 DEF Next, ServerNext, CloseCall
<1>6. CASE \E rescan \in BOOLEAN : Answer(E, rescan)
  <2>1. up /\ up' = up /\ E \in SUBSET Sweepable
    BY <1>6 DEF Answer, Enter
  <2> QED BY <1>6, <2>1 DEF Next, ServerNext, OtherCall
<1>7. QED BY <1>1, <1>2, <1>3, <1>4, <1>5, <1>6 DEF Call

\* A timed step is a step of Sequencer or leaves its variables alone.
LEMMA TimedIsNext == TimedNext => [Next]_vars
<1>1. TimedCall => Next
  BY CallIsNext DEF TimedCall
<1>2. TimedAppend => Next
  BY DEF TimedAppend, Next, ServerNext
<1>3. TimedExit => Next
  BY DEF TimedExit, Next, ServerNext
<1>4. TimedServerStart => Next
  <2>1. Expired \in SUBSET Ids
    BY DEF Expired
  <2> QED BY <2>1 DEF TimedServerStart, Next, ServerNext
<1>5. TimedEdit => Next
  BY DEF TimedEdit, Next
<1>6. Tick \/ ListRefused => UNCHANGED vars
  BY DEF Tick, ListRefused, timedVars
<1>7. QED BY <1>1, <1>2, <1>3, <1>4, <1>5, <1>6 DEF TimedNext

\* With the clock the server does nothing that Sequencer does not, where sweeps
\* and pruning are arbitrary: whatever holds of Spec holds with the periods of
\* tools.py:58-69 and persistence.py:47-51.
THEOREM ClockRestricts == TimedSpec => Spec
<1>1. TimedInit => Init
  BY DEF TimedInit
<1>2. [TimedNext]_timedVars => [Next]_vars
  BY TimedIsNext DEF timedVars
<1>3. QED BY <1>1, <1>2, PTL DEF TimedSpec, Spec

-----------------------------------------------------------------------------
(* The sweep.                                                                *)

\* What survives a step that swept E is as overdue as it was, or has just
\* yielded.
LEMMA AgedSwept ==
  ASSUME SweepInv, NEW E, Aged(E), sinceSweep' \in Ages,
         \A id \in Sweepable \ E : yieldAge[id] <= TerminalTTL + sinceSweep'
  PROVE  SweptByNow' /\ AgesOK'
<1>1. ASSUME NEW id \in Ids
      PROVE  yieldAge'[id] = IF id \notin E /\ Loaded(id) /\ driver'[id] = driver[id]
                             THEN yieldAge[id] ELSE 0
  BY DEF Aged
<1>2. 0 <= TerminalTTL + sinceSweep'
  <2>1. sinceSweep' \in Nat
    BY PeriodTypes DEF Ages
  <2> QED BY <2>1, SumIsNatural
<1>3. ASSUME NEW id \in Ids, driver'[id] # NoDriver, IsTerminal(driver'[id])
      PROVE  yieldAge'[id] <= TerminalTTL + sinceSweep'
  <2>1. CASE id \notin E /\ Loaded(id) /\ driver'[id] = driver[id]
    <3>1. id \in Sweepable \ E
      BY <1>3, <2>1 DEF Sweepable
    <3>2. yieldAge'[id] = yieldAge[id]
      BY <1>1, <2>1
    <3> QED BY <3>1, <3>2
  <2>2. CASE ~ (id \notin E /\ Loaded(id) /\ driver'[id] = driver[id])
    <3>1. yieldAge'[id] = 0
      BY <1>1, <2>2
    <3> QED BY <1>2, <3>1
  <2> QED BY <2>1, <2>2
<1>4. SweptByNow'
  BY <1>3 DEF SweptByNow, Sweepable, Loaded
<1>5. AgesOK'
  <2>1. 0 \in Ages
    BY PeriodTypes DEF Ages
  <2>2. yieldAge' \in [Ids -> Ages]
    BY <2>1 DEF Aged, SweepInv, AgesOK
  <2> QED BY <2>2 DEF Aged, AgesOK
<1>6. QED BY <1>4, <1>5

\* A call keeps the invariant, and was given less than a throttle interval ago,
\* or has just given, all terminal instances a chance to go (tools.py:120-151).
LEMMA CallSweeps ==
  ASSUME SweepInv, TimedCall
  PROVE  SweepInv' /\ sinceSweep' < Throttle
<1>1. PICK E \in {{}, Due} : Sweep(E) /\ Call(E) /\ Aged(E)
  BY DEF TimedCall
<1>2. /\ sinceSweep' \in Ages /\ sinceSweep' < Throttle
      /\ \A id \in Sweepable \ E : yieldAge[id] <= TerminalTTL + sinceSweep'
  <2>1. CASE sinceSweep < Throttle /\ E = {} /\ UNCHANGED sinceSweep
    BY <2>1 DEF SweepInv, AgesOK, SweptByNow
  <2>2. CASE sinceSweep >= Throttle /\ E = Due /\ sinceSweep' = 0
    <3>1. 0 \in Ages /\ 0 < Throttle
      BY PeriodTypes DEF Ages
    <3>2. ASSUME NEW id \in Sweepable, id \notin Due
          PROVE  yieldAge[id] <= TerminalTTL + 0
      <4>1. yieldAge[id] \in Nat
        BY DEF SweepInv, AgesOK, Ages, Sweepable
      <4> QED BY <3>2, <4>1, PeriodTypes DEF Due
    <3> QED BY <2>2, <3>1, <3>2
  <2> QED BY <1>1, <2>1, <2>2 DEF Sweep
<1>3. SweptByNow' /\ AgesOK'
  BY <1>1, <1>2, AgedSwept
<1>4. DownHoldsNothing'
  BY <1>1, CallIsNext DEF DownHoldsNothing
<1>5. QED BY <1>2, <1>3, <1>4 DEF SweepInv

\* Time makes instances overdue no faster than it makes a sweep due.
LEMMA TickSwept ==
  ASSUME SweepInv, Tick
  PROVE  SweepInv'
<1>1. ASSUME NEW n \in Ages
      PROVE  Older(n) \in Ages /\ Older(n) <= n + 1
             /\ (Older(n) = n + 1 \/ Older(n) = MaxAge)
  BY PeriodTypes DEF Older, Ages
<1>2. 0 \in Ages
  BY PeriodTypes DEF Ages
<1>3. AgesOK'
  BY <1>1, <1>2 DEF Tick, AgesOK, SweepInv
<1>4. Sweepable' = Sweepable /\ \A id \in Ids : Loaded(id)' <=> Loaded(id)
  BY DEF Tick, vars, local, Sweepable, Loaded
<1>5. SweptByNow'
  <2> SUFFICES ASSUME NEW id \in Sweepable
               PROVE  yieldAge'[id] <= TerminalTTL + sinceSweep'
    BY <1>4 DEF SweptByNow
  <2>1. id \in Ids /\ Loaded(id) /\ up
    BY DEF Sweepable, SweepInv, DownHoldsNothing
  <2>2. yieldAge'[id] = Older(yieldAge[id]) /\ sinceSweep' = Older(sinceSweep)
    BY <2>1 DEF Tick
  <2>3. yieldAge[id] \in Ages /\ sinceSweep \in Ages
    BY <2>1 DEF SweepInv, AgesOK
  <2>4. yieldAge[id] <= TerminalTTL + sinceSweep
    BY DEF SweepInv, SweptByNow
  <2>5. Older(yieldAge[id]) <= TerminalTTL + Older(sinceSweep)
    BY <2>3, <2>4, PeriodTypes DEF Older, Ages
  <2> QED BY <2>2, <2>5
<1>6. DownHoldsNothing'
  BY <1>4 DEF Tick, vars, local, SweepInv, DownHoldsNothing
<1>7. QED BY <1>3, <1>5, <1>6 DEF SweepInv

\* So do the steps that are not calls.
LEMMA OthersSwept ==
  ASSUME SweepInv, TimedAppend \/ TimedExit \/ TimedServerStart \/ TimedEdit
  PROVE  SweepInv'
<1>1. CASE TimedAppend
  <2>1. sinceSweep' = sinceSweep /\ Aged({})
    BY <1>1 DEF TimedAppend
  <2>2. up' = up /\ up
    BY <1>1 DEF TimedAppend, LogHeader, LogResult, LogYield, DumpFails, Executing
  <2>3. SweptByNow' /\ AgesOK'
    BY <2>1, AgedSwept DEF SweepInv, AgesOK, SweptByNow
  <2> QED BY <2>2, <2>3 DEF SweepInv, DownHoldsNothing
<1>2. CASE TimedExit
  <2>1. Leave
    BY <1>2 DEF TimedExit, ExitInAppend, Exit
  <2>2. \A id \in Ids : driver'[id] = NoDriver
    BY <2>1 DEF Leave
  <2>3. SweptByNow' /\ DownHoldsNothing'
    BY <2>2 DEF SweptByNow, Sweepable, Loaded, DownHoldsNothing
  <2>4. AgesOK'
    <3>1. 0 \in Ages
      BY PeriodTypes DEF Ages
    <3> QED BY <1>2, <3>1 DEF TimedExit, Aged, SweepInv, AgesOK
  <2> QED BY <2>3, <2>4 DEF SweepInv
<1>3. CASE TimedServerStart
  <2>1. /\ \A id \in Ids : driver'[id] = NoDriver
        /\ up'
    BY <1>3 DEF TimedServerStart, ServerStart, SweepInv, DownHoldsNothing, Loaded
  <2>2. SweptByNow' /\ DownHoldsNothing'
    BY <2>1 DEF SweptByNow, Sweepable, Loaded, DownHoldsNothing
  <2>3. AgesOK'
    <3>1. 0 \in Ages
      BY PeriodTypes DEF Ages
    <3> QED BY <1>3, <3>1 DEF TimedServerStart, Aged, SweepInv, AgesOK
  <2> QED BY <2>2, <2>3 DEF SweepInv
<1>4. CASE TimedEdit
  <2>1. UNCHANGED <<ages, up, driver>>
    BY <1>4 DEF TimedEdit, EditSource, local
  <2> QED BY <2>1 DEF ages, SweepInv, AgesOK, SweptByNow, Sweepable, Loaded,
          DownHoldsNothing
<1>5. QED BY <1>1, <1>2, <1>3, <1>4

\* The invariant holds at all times.
LEMMA SweepInvariance == TimedSpec => []SweepInv
<1>1. TimedInit => SweepInv
  <2>1. 0 \in Ages
    BY PeriodTypes DEF Ages
  <2> QED BY <2>1 DEF TimedInit, Init, SweepInv, AgesOK, SweptByNow, Sweepable,
          Loaded, DownHoldsNothing
<1>2. SweepInv /\ [TimedNext]_timedVars => SweepInv'
  <2>1. SweepInv /\ UNCHANGED timedVars => SweepInv'
    BY DEF timedVars, vars, local, ages, SweepInv, AgesOK, SweptByNow, Sweepable,
       Loaded, DownHoldsNothing
  <2>2. SweepInv /\ TimedNext => SweepInv'
    BY <2>1, CallSweeps, TickSwept, OthersSwept DEF TimedNext, ListRefused
  <2> QED BY <2>1, <2>2
<1>3. QED BY <1>1, <1>2, PTL DEF TimedSpec

\* Whatever the periods are, however calls are spaced and wherever the
\* monotonic clock starts, no call that comes to its sweep leaves in memory an
\* instance that has been terminal for the TTL and a throttle interval: that is
\* any call but a refused sequencer_list, which may come in between, leaves what
\* it finds and puts no later sweep off (tools.py:120-139, 488-494).
THEOREM SweepsKeepUp == TimedSpec => SweptInTime
<1>1. SweepInv /\ TimedCall =>
        \A id \in Ids : Loaded(id)' /\ IsTerminal(driver'[id]) =>
          yieldAge'[id] < TerminalTTL + Throttle
  <2> SUFFICES ASSUME SweepInv, TimedCall, NEW id \in Ids,
                      Loaded(id)', IsTerminal(driver'[id])
               PROVE  yieldAge'[id] < TerminalTTL + Throttle
    OBVIOUS
  <2>1. SweepInv' /\ sinceSweep' < Throttle
    BY CallSweeps
  <2>2. yieldAge'[id] <= TerminalTTL + sinceSweep'
    BY <2>1 DEF SweepInv, SweptByNow, Sweepable
  <2>3. yieldAge'[id] \in Nat /\ sinceSweep' \in Nat
    BY <2>1 DEF SweepInv, AgesOK, Ages
  <2> QED BY <2>1, <2>2, <2>3, PeriodTypes
<1>2. QED BY SweepInvariance, <1>1, PTL DEF SweptInTime, TimedSpec
=============================================================================
