---------------------------- MODULE DriverProofs ----------------------------
(***************************************************************************)
(* Lemmas about the operators of Driver, for every program.                *)
(***************************************************************************)
EXTENDS Driver, Integers, WellFoundedInduction, TLAPS

(* Induction over Nat for a set of numbers: the library states it for a      *)
(* predicate, which the provers cannot instantiate.                          *)

\* A set of naturals that is not empty has a least element.
LEMMA NatMin ==
  ASSUME NEW T \in SUBSET Nat, T # {}
  PROVE  \E m \in T : \A k \in T : m <= k
<1> DEFINE R == {ss \in Nat \X Nat : ss[1] < ss[2]}
<1>1. IsWellFoundedOn(R, Nat)
  BY NatLessThanWellFounded DEF OpToRel
<1>2. PICK m \in T : \A k \in T : ~ (<<k, m>> \in R)
  <2> HIDE DEF R
  <2> QED BY <1>1, WFMin
<1>3. ASSUME NEW k \in T
      PROVE  m <= k
  <2>1. ~ (<<k, m>> \in R)
    BY <1>2
  <2>2. <<k, m>> \in Nat \X Nat /\ k \in Nat /\ m \in Nat
    OBVIOUS
  <2>3. ~ (k < m)
    BY <2>1, <2>2, Zenon
  <2> QED BY <2>2, <2>3
<1>4. QED BY <1>3

\* A set with 0 that is closed under successor holds every natural.
LEMMA SetInduction ==
  ASSUME NEW S, 0 \in S, \A n \in Nat : n \in S => n + 1 \in S
  PROVE  \A n \in Nat : n \in S
<1> DEFINE T == Nat \ S
<1>1. SUFFICES ASSUME T # {} PROVE FALSE
  OBVIOUS
<1>2. PICK m \in T : \A k \in T : m <= k
  <2> T \in SUBSET Nat
    OBVIOUS
  <2> HIDE DEF T
  <2> QED BY <1>1, NatMin
<1>3. m # 0 /\ m \in Nat
  OBVIOUS
<1>4. m - 1 \in Nat /\ m - 1 \in S
  BY <1>2, <1>3
<1>5. (m - 1) + 1 \in S
  BY <1>4
<1>6. QED BY <1>3, <1>5

-----------------------------------------------------------------------------

\* Kept by every operation of a driver that has started: it is Coherent.
Sound(d) == d \in Drivers /\ IsCoherent(d)

\* Issuing an instruction keeps a driver a driver (runtime.py:216-254).
LEMMA IssueType ==
  ASSUME NEW d \in Drivers, NEW reissue \in BOOLEAN
  PROVE  Issue(d, reissue) \in Drivers
<1>1. d.step_no + 1 \in Nat
  BY DEF Drivers
<1>2. [kind |-> "instruction", step_no |-> d.step_no + 1,
       reissued |-> reissue] \in LastYields
  BY <1>1 DEF LastYields
<1>3. "awaiting_result" \in States
  BY DEF States
<1>4. QED BY <1>1, <1>2, <1>3 DEF Issue, Drivers

\* Issuing an instruction, again or anew, gives a sound driver that awaits a
\* result for the next step (runtime.py:216-254).
LEMMA IssueSound ==
  ASSUME NEW d \in Drivers, NEW reissue \in BOOLEAN,
         Yields[d.gen].kind = "instruction"
  PROVE  /\ Sound(Issue(d, reissue))
         /\ ~ IsTerminal(Issue(d, reissue))
         /\ Issue(d, reissue).step_no = d.step_no + 1
<1> DEFINE e == Issue(d, reissue)
<1>1. e \in Drivers
  BY IssueType
<1>2. /\ e.pending
      /\ e.state = "awaiting_result"
      /\ e.gen = d.gen
      /\ e.step_no = d.step_no + 1
      /\ e.last_yield.kind = "instruction"
      /\ e.last_yield.step_no = d.step_no + 1
  BY DEF Issue, Drivers
<1>3. ~ IsTerminal(e) /\ LastKind(e.state) = "instruction"
  BY <1>2 DEF IsTerminal, TerminalStates, LastKind
<1> HIDE DEF e
<1>4. QED BY <1>1, <1>2, <1>3 DEF Sound, IsCoherent, e

\* Each of the three ends gives a sound terminal driver of the same step
\* (runtime.py:256-291).
LEMMA FinishSound ==
  ASSUME NEW d \in Drivers
  PROVE  \A e \in {Done(d), Abort(d), Fail(d)} :
           Sound(e) /\ IsTerminal(e) /\ e.step_no = d.step_no
<1>1. ASSUME NEW state \in TerminalStates, NEW kind, kind = LastKind(state)
      PROVE  /\ Sound(Finish(d, state, kind))
             /\ IsTerminal(Finish(d, state, kind))
             /\ Finish(d, state, kind).step_no = d.step_no
  <2> DEFINE e == Finish(d, state, kind)
  <2>1. kind \in {"done", "abort", "error"} /\ state \in States
    BY <1>1 DEF LastKind, TerminalStates, States
  <2>2. e \in Drivers
    BY <2>1 DEF Finish, Drivers, LastYields
  <2>3. /\ e.pending = FALSE
        /\ e.state = state
        /\ e.step_no = d.step_no
        /\ e.last_yield.kind = kind
        /\ e.last_yield.step_no = d.step_no
        /\ e.last_yield.reissued = FALSE
    BY DEF Finish, Drivers
  <2> HIDE DEF e
  <2> QED BY <1>1, <2>2, <2>3 DEF Sound, IsCoherent, IsTerminal, e
<1>2. /\ "done" = LastKind("completed")
      /\ "abort" = LastKind("aborted")
      /\ "error" = LastKind("failed")
  BY DEF LastKind
<1>3. {"completed", "aborted", "failed"} \subseteq TerminalStates
  BY DEF TerminalStates
<1>4. QED BY <1>1, <1>2, <1>3 DEF Done, Abort, Fail

\* What becomes of a driver d: sound, and one step on if it awaits a result.
Moved(d, e) ==
  /\ Sound(e)
  /\ e.step_no = d.step_no + (IF IsTerminal(e) THEN 0 ELSE 1)

\* Wherever the generator stops, the driver has moved (runtime.py:154-193).
LEMMA ReachMoved ==
  ASSUME NEW d \in Drivers, NEW g \in GenStates
  PROVE  Moved(d, Reach(d, g))
<1> DEFINE moved == [d EXCEPT !.gen = g]
<1>1. moved \in Drivers /\ moved.step_no = d.step_no /\ moved.gen = g
  BY DEF Drivers
<1>2. CASE Yields[g].kind = "instruction"
  <2>1. Reach(d, g) = Issue(moved, FALSE)
    BY <1>2 DEF Reach
  <2> QED BY <1>1, <1>2, <2>1, IssueSound DEF Moved
<1>3. CASE Yields[g].kind # "instruction"
  <2>1. Reach(d, g) \in {Done(moved), Abort(moved), Fail(moved)}
    BY <1>3 DEF Reach
  <2>2. d.step_no \in Nat
    BY DEF Drivers
  <2>3. /\ Sound(Reach(d, g))
        /\ IsTerminal(Reach(d, g))
        /\ Reach(d, g).step_no = d.step_no
    <3> HIDE DEF moved
    <3> QED BY <1>1, <2>1, FinishSound
  <2> QED BY <2>2, <2>3 DEF Moved
<1>4. QED BY <1>2, <1>3

\* A send to a sound driver that awaits a result leaves it as it is or moves
\* it (runtime.py:95-136, 195-239).
LEMMA SendMoved ==
  ASSUME NEW d, Sound(d), ~ IsTerminal(d), NEW r \in Results, NEW g \in GenStates
  PROVE  /\ SendTo(d, r, g) = d \/ Moved(d, SendTo(d, r, g))
         /\ Verdict(d, r) = "valid" => Moved(d, SendTo(d, r, g))
<1>1. d \in Drivers /\ d.pending /\ Yields[d.gen].kind = "instruction"
  BY DEF Sound, IsCoherent
<1>2. d.step_no \in Nat
  BY <1>1 DEF Drivers
<1>3. Verdict(d, r) \in {"valid", "invalid", "bad_schema", "raises"}
  BY <1>1, ProgramAssumption DEF Verdict, Drivers, Reactions
<1>4. Moved(d, Issue(d, TRUE))
  BY <1>1, <1>2, IssueSound DEF Moved
<1>5. Moved(d, Abort(d)) /\ Moved(d, Fail(d))
  BY <1>1, <1>2, FinishSound DEF Moved
<1>6. Moved(d, Reach(d, g))
  BY <1>1, ReachMoved
<1>7. SendTo(d, r, g) \in {d, Issue(d, TRUE), Abort(d), Fail(d), Reach(d, g)}
  BY <1>1, <1>3 DEF SendTo
<1>8. Verdict(d, r) = "valid" => SendTo(d, r, g) = Reach(d, g)
  BY <1>1 DEF SendTo
<1>9. QED BY <1>4, <1>5, <1>6, <1>7, <1>8

-----------------------------------------------------------------------------

\* Launching a program gives no driver, or a sound one whose step is 1 exactly
\* if it awaits a result (runtime.py:52-93).
LEMMA LaunchSound ==
  ASSUME NEW p \in Programs, NEW g \in GenStates
  PROVE  \/ Launch(p, g) = NoDriver
         \/ Moved(NewDriver(p, g), Launch(p, g)) /\ Sound(Launch(p, g))
<1>1. NewDriver(p, g) \in Drivers
  BY DEF NewDriver, Drivers, LastYields, States
<1>2. QED BY <1>1, ReachMoved DEF Launch, Moved

\* start() of a program and send() keep drivers drivers.
LEMMA StartType ==
  ASSUME NEW p \in Programs, NEW a \in Params
  PROVE  Start(p, a) \in Drivers \cup {NoDriver}
<1>1. Entry[<<p, a>>] \in GenStates
  BY ProgramAssumption
<1>2. QED BY <1>1, LaunchSound DEF Start, Sound

\* And so does send(), whatever the driver (runtime.py:95-136).
LEMMA SendType ==
  ASSUME NEW d \in Drivers, NEW r \in Results
  PROVE  Send(d, r) \in Drivers
<1> DEFINE g == Resumed[<<d.gen, r>>]
<1>1. d.gen \in GenStates /\ g \in GenStates
  BY ProgramAssumption DEF Drivers
<1>2. Reach(d, g) \in Drivers
  BY <1>1, ReachMoved DEF Moved, Sound
<1>3. Abort(d) \in Drivers /\ Fail(d) \in Drivers
  BY FinishSound DEF Sound
<1>4. Issue(d, TRUE) \in Drivers
  BY IssueType
<1>5. d.pending \in BOOLEAN
  BY DEF Drivers
<1>6. Verdict(d, r) \in {"valid", "invalid", "bad_schema", "raises"}
  BY <1>1, ProgramAssumption DEF Verdict, Reactions
<1>7. SendTo(d, r, g) \in {d, Issue(d, TRUE), Abort(d), Fail(d), Reach(d, g)}
  BY <1>5, <1>6 DEF SendTo
<1>8. Send(d, r) = SendTo(d, r, g)
  BY DEF Send
<1> HIDE DEF g
<1>9. QED BY <1>2, <1>3, <1>4, <1>7, <1>8

\* A driver never changes its program.
LEMMA ProgramKept ==
  ASSUME NEW d \in Drivers
  PROVE  /\ \A b \in BOOLEAN : Issue(d, b).program = d.program
         /\ \A e \in {Done(d), Abort(d), Fail(d)} : e.program = d.program
         /\ \A g \in GenStates : Reach(d, g).program = d.program
         /\ \A r \in Results : Send(d, r).program = d.program
<1>1. ASSUME NEW e \in Drivers
      PROVE  /\ \A b \in BOOLEAN : Issue(e, b).program = e.program
             /\ Done(e).program = e.program
             /\ Abort(e).program = e.program
             /\ Fail(e).program = e.program
  BY <1>1 DEF Drivers, Issue, Done, Abort, Fail, Finish
<1>2. ASSUME NEW g \in GenStates
      PROVE  Reach(d, g).program = d.program
  <2> DEFINE e == [d EXCEPT !.gen = g]
  <2>1. e \in Drivers /\ e.program = d.program
    BY DEF Drivers
  <2>2. Reach(d, g) \in {Issue(e, FALSE), Done(e), Abort(e), Fail(e)}
    BY DEF Reach
  <2> HIDE DEF e
  <2> QED BY <1>1, <2>1, <2>2
<1>3. ASSUME NEW r \in Results
      PROVE  Send(d, r).program = d.program
  <2> DEFINE g == Resumed[<<d.gen, r>>]
  <2>1. d.gen \in GenStates /\ g \in GenStates /\ d.pending \in BOOLEAN
    BY ProgramAssumption DEF Drivers
  <2>2. Verdict(d, r) \in {"valid", "invalid", "bad_schema", "raises"}
    BY <2>1, ProgramAssumption DEF Verdict, Reactions
  <2>3. Send(d, r) \in {d, Issue(d, TRUE), Abort(d), Fail(d), Reach(d, g)}
    BY <2>1, <2>2 DEF Send, SendTo
  <2> HIDE DEF g
  <2> QED BY <1>1, <1>2, <2>1, <2>3
<1>4. QED BY <1>1, <1>2, <1>3

\* A result moves a driver to the next step or ends it at this one, unless it
\* leaves it as it is (runtime.py:95-136).
LEMMA SendSteps ==
  ASSUME NEW d \in Drivers, NEW r \in Results
  PROVE  \/ Send(d, r) = d
         \/ Send(d, r).step_no = d.step_no /\ IsTerminal(Send(d, r))
         \/ Send(d, r).step_no = d.step_no + 1
<1> DEFINE g == Resumed[<<d.gen, r>>]
           After(e) == \/ e.step_no = d.step_no /\ IsTerminal(e)
                       \/ e.step_no = d.step_no + 1
<1>1. d.gen \in GenStates /\ g \in GenStates /\ d.pending \in BOOLEAN
  BY ProgramAssumption DEF Drivers
<1>2. Verdict(d, r) \in {"valid", "invalid", "bad_schema", "raises"}
  BY <1>1, ProgramAssumption DEF Verdict, Reactions
<1>3. Send(d, r) \in {d, Issue(d, TRUE), Abort(d), Fail(d), Reach(d, g)}
  BY <1>1, <1>2 DEF Send, SendTo
<1>4. After(Issue(d, TRUE))
  BY DEF Issue, Drivers
<1>5. After(Abort(d)) /\ After(Fail(d))
  BY FinishSound
<1>6. After(Reach(d, g))
  <2> HIDE DEF g
  <2>1. Moved(d, Reach(d, g)) /\ d.step_no \in Nat
    BY <1>1, ReachMoved DEF Drivers
  <2> QED BY <2>1 DEF Moved
<1> HIDE DEF g
<1>7. QED BY <1>3, <1>4, <1>5, <1>6

\* A driver runs the program that it was built for.
LEMMA StartProgram ==
  ASSUME NEW p \in Programs, NEW a \in Params, Start(p, a) # NoDriver
  PROVE  Start(p, a).program = p
<1> DEFINE g == Entry[<<p, a>>]
<1>1. g \in GenStates
  BY ProgramAssumption
<1> HIDE DEF g
<1>2. NewDriver(p, g) \in Drivers /\ NewDriver(p, g).program = p
  BY <1>1 DEF NewDriver, Drivers, LastYields, States
<1>3. Start(p, a) = Reach(NewDriver(p, g), g)
  BY DEF Start, Launch, g
<1>4. QED BY <1>1, <1>2, <1>3, ProgramKept
=============================================================================
