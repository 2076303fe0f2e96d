-------------------------- MODULE BundledPrograms --------------------------
(***************************************************************************)
(* The two programs that the plugin bundles, each run to its end by the    *)
(* driver.                                                                 *)
(***************************************************************************)
EXTENDS Integers, Sequences, FiniteSetsExt

CONSTANTS
  People, World, NoList, Messages,                \* see Hello
  Docs, NoDoc, Counts, NoInteger, DefaultRounds,  \* see ReviewRounds
  NameLists,   \* the `names` that agents pass
  Limits,      \* the max_rounds that agents pass
  Absent,      \* the param is not passed
  Malformed,   \* a result that no schema accepts
  NoDriver, MaxRetries

ASSUME BundledAssumption ==
  /\ World \in People
  /\ NameLists \subseteq Seq(People) \cup {Absent, NoList}
  /\ Absent \notin Seq(People) /\ NoList \notin Seq(People) /\ Absent # NoList
  /\ Counts \subseteq Nat
  /\ Limits \subseteq Int \cup {Absent, NoInteger}
  /\ Absent \notin Int /\ NoInteger \notin Int /\ Absent # NoInteger
  /\ DefaultRounds \in Nat
  /\ MaxRetries \in Nat

VARIABLES driver, given, accepted

Hello  == INSTANCE Hello
Review == INSTANCE ReviewRounds

Programs == {"hello", "review-rounds"}

\* A params object has an entry that one of the programs reads, or neither.
Params ==
  [names : NameLists, max_rounds : {Absent}]
    \cup [names : {Absent}, max_rounds : Limits]

Results == Messages \cup Review!Answers \cup {Malformed}
Points  == Hello!Points \cup Review!Points

Entry ==
  [pa \in Programs \X Params |->
     IF pa[1] = "hello" THEN Hello!First(pa[2].names)
     ELSE Review!First(pa[2].max_rounds)]

Resumed ==
  [gr \in Points \X Results |->
     IF gr[1] \in Hello!Points THEN Hello!After(gr[1], gr[2])
     ELSE Review!After(gr[1], gr[2])]

KindAt(g) == IF g \in Hello!Points THEN Hello!KindAt(g) ELSE Review!KindAt(g)

Accepts(g, r) ==
  IF g \in Hello!Points THEN Hello!Accepts(g, r) ELSE Review!Accepts(g, r)

Yields ==
  [g \in Points |->
     [kind       |-> KindAt(g),
      verdict    |-> [r \in Results |-> IF Accepts(g, r) THEN "valid" ELSE "invalid"],
      on_invalid |-> "retry"]]

Run == INSTANCE ProgramRun
         WITH GenStates <- Points,
              ParamsLeft <- [pa \in Programs \X Params |-> pa[2]]

ASSUME NoDriverAssumption == NoDriver \notin Run!Drivers

Spec == Run!Spec

-----------------------------------------------------------------------------

Started(program) == driver # NoDriver /\ driver.program = program

Ended == driver # NoDriver /\ Run!IsTerminal(driver)

\* An agent that keeps answering sees the end of every run, whatever it passed
\* as params (SKILL.md:22-24, hello.py:45-70, review_rounds.py:205-300).
Terminates == <>Ended

-----------------------------------------------------------------------------
(* hello                                                                   *)

Names == Hello!NamesOf(given.names)

\* The summary greets every name once, in the order given, with the message
\* accepted for it, however many results were rejected in between; and the run
\* ends neither before nor after that (hello.py:52-70).
GreetsEachInOrder ==
  Started("hello") /\ driver.state = "completed" =>
    /\ Len(accepted) = Len(Names)
    /\ driver.gen.greetings =
         [i \in 1..Len(accepted) |-> <<Names[i], accepted[i]>>]

-----------------------------------------------------------------------------
(* review-rounds                                                           *)

Limit == given.max_rounds

\* The results of one step, in order of rounds.
Answered(step) == {i \in DOMAIN accepted : accepted[i].step = step}

\* Code was changed in every round of which the respond step is over.
AllChanged == \A i \in Answered("respond") : accepted[i].code_changed

\* A run converges exactly when its last review found nothing, or its last
\* round changed no code, and gives up exactly when max_rounds rounds have gone
\* by without either; every round but the last had findings and changed code
\* (review_rounds.py:22-25, 230, 279).
EndsAsDocumented ==
  Started("review-rounds") /\ Limit # NoInteger =>
    LET n == Len(accepted)
        quiet == n # 0 /\ accepted[n].step = "review" /\ accepted[n].findings_total = 0
        over  == n # 0 /\ accepted[n].step = "resolve"
    IN  /\ driver.state = "completed" <=> quiet \/ (over /\ ~ AllChanged)
        /\ driver.state = "aborted" <=>
             /\ Cardinality(Answered("resolve")) >= Review!LimitOf(Limit)
             /\ ~ quiet
             /\ AllChanged
        /\ driver.state # "failed"

\* The totals of the summary count every respond step once, and none of the
\* results that a schema rejected; what is said to be unresolved is what the
\* last resolve step said (review_rounds.py:231-239, 262-276).
TotalsTrue ==
  Started("review-rounds") =>
    LET fixed    == [i \in Answered("respond") |-> accepted[i].fixed_count]
        wontfix  == [i \in Answered("respond") |-> accepted[i].wontfix_count]
        resolved == Answered("resolve")
    IN  /\ driver.gen.total_fixed = SumFunction(fixed)
        /\ driver.gen.total_wontfix = SumFunction(wontfix)
        /\ driver.gen.last_unresolved =
             IF resolved = {} THEN 0 ELSE accepted[Max(resolved)].unresolved_count

\* Respond and resolve are about the document of the review of their own
\* round, whatever the rounds before were about (review_rounds.py:243, 251, 271).
RightDocument ==
  Started("review-rounds") /\ driver.gen.at \in {"respond", "resolve"} =>
    /\ Answered("review") # {}
    /\ driver.gen.doc_path = accepted[Max(Answered("review"))].doc_path

\* No run asks for more than three results in each of its rounds, and it is in
\* the round it says (review_rounds.py:205, 279-300).
ThreeResultsPerRound ==
  Started("review-rounds") /\ Limit # NoInteger =>
    /\ Len(accepted) <= (IF Review!LimitOf(Limit) > 0 THEN 3 * Review!LimitOf(Limit) ELSE 0)
    /\ ~ Run!IsTerminal(driver) =>
         /\ Len(accepted) \in (3 * driver.gen.round_num - 3)..(3 * driver.gen.round_num - 1)
         /\ driver.gen.round_num \in 1..Review!LimitOf(Limit)
=============================================================================
