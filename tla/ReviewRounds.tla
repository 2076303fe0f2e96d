---------------------------- MODULE ReviewRounds ----------------------------
(***************************************************************************)
(* The bundled program review_rounds.py as an automaton: rounds of review, *)
(* respond and resolve until a review finds nothing, a round changes no    *)
(* code, or the rounds are used up.  A point is where the generator stops  *)
(* and the values of its variables there.                                  *)
(***************************************************************************)
EXTENDS Integers

CONSTANTS
  Docs,           \* the paths of review documents
  NoDoc,          \* doc_path is not bound yet
  Counts,         \* the numbers in results
  Absent,         \* no max_rounds entry
  NoInteger,      \* a max_rounds entry that is no integer
  DefaultRounds   \* _DEFAULT_MAX_ROUNDS

\* _REVIEW_SCHEMA, _RESPOND_SCHEMA and _RESOLVE_SCHEMA.
Reviews  == [step : {"review"}, doc_path : Docs, findings_total : Counts]
Responds == [step : {"respond"}, fixed_count : Counts, wontfix_count : Counts,
             code_changed : BOOLEAN]
Resolves == [step : {"resolve"}, unresolved_count : Counts]
Answers  == Reviews \cup Responds \cup Resolves

\* Steps ask for a result of their name; the other points are ends.
Steps == {"review", "respond", "resolve"}

Points ==
  [at              : Steps \cup {"zero_findings", "no_changes", "rounds_used_up",
                                 "type_error"},
   max_rounds      : Int,
   round_num       : Nat,
   doc_path        : Docs \cup {NoDoc},
   code_changed    : BOOLEAN,
   total_fixed     : Nat,
   total_wontfix   : Nat,
   last_unresolved : Nat]

\* ctx.params.get("max_rounds", _DEFAULT_MAX_ROUNDS)
LimitOf(a) == IF a = Absent THEN DefaultRounds ELSE a

\* Mutant of NextRound: range(0, max_rounds + 1).
NextRoundOneMore(g) ==
  IF g.round_num <= g.max_rounds
  THEN [g EXCEPT !.at = "review", !.round_num = @ + 1]
  ELSE [g EXCEPT !.at = "rounds_used_up"]

\* The head of the loop over range(1, max_rounds + 1).
NextRound(g) ==
  IF g.round_num < g.max_rounds
  THEN [g EXCEPT !.at = "review", !.round_num = @ + 1]
  ELSE [g EXCEPT !.at = "rounds_used_up"]

\* Before the loop.
Fresh(limit) ==
  [at |-> "review", max_rounds |-> limit, round_num |-> 0, doc_path |-> NoDoc,
   code_changed |-> FALSE, total_fixed |-> 0, total_wontfix |-> 0,
   last_unresolved |-> 0]

\* Where the program stops first: max_rounds + 1 raises TypeError for what is
\* no integer.
First(a) ==
  IF a = NoInteger THEN [Fresh(0) EXCEPT !.at = "type_error"]
  ELSE NextRound(Fresh(LimitOf(a)))

\* Mutant of Reviewed: doc_path is bound in the first round only.
ReviewedOnce(g, r) ==
  IF r.findings_total = 0 THEN [g EXCEPT !.at = "zero_findings"]
  ELSE [g EXCEPT !.at = "respond",
                 !.doc_path = IF @ = NoDoc THEN r.doc_path ELSE @]

\* What follows each of the three steps.
Reviewed(g, r) ==
  IF r.findings_total = 0 THEN [g EXCEPT !.at = "zero_findings"]
  ELSE [g EXCEPT !.at = "respond", !.doc_path = r.doc_path]

\* Mutant of Responded: the total is that of the last round.
RespondedLast(g, r) ==
  [g EXCEPT !.at            = "resolve",
            !.code_changed  = r.code_changed,
            !.total_fixed   = r.fixed_count,
            !.total_wontfix = @ + r.wontfix_count]

Responded(g, r) ==
  [g EXCEPT !.at            = "resolve",
            !.code_changed  = r.code_changed,
            !.total_fixed   = @ + r.fixed_count,
            !.total_wontfix = @ + r.wontfix_count]

\* Mutant of Resolved: whether code changed is not asked.
ResolvedAlways(g, r) == NextRound([g EXCEPT !.last_unresolved = r.unresolved_count])

Resolved(g, r) ==
  LET told == [g EXCEPT !.last_unresolved = r.unresolved_count]
  IN  IF g.code_changed THEN NextRound(told)
      ELSE [told EXCEPT !.at = "no_changes"]

\* Mutant of Accepts: no step but the first accepts anything.
AcceptsStale(g, r) == r \in Reviews /\ r.step = g.at

\* Each step has its schema.
Accepts(g, r) == r \in Answers /\ r.step = g.at

\* Where it stops when r is sent in.
After(g, r) ==
  CASE Accepts(g, r) /\ g.at = "review"  -> Reviewed(g, r)
    [] Accepts(g, r) /\ g.at = "respond" -> Responded(g, r)
    [] Accepts(g, r) /\ g.at = "resolve" -> Resolved(g, r)
    [] OTHER                             -> g

KindAt(g) ==
  CASE g.at \in Steps                           -> "instruction"
    [] g.at \in {"zero_findings", "no_changes"} -> "done"
    [] g.at = "rounds_used_up"                  -> "abort"
    [] g.at = "type_error"                      -> "raise"
=============================================================================
