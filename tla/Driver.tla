------------------------------- MODULE Driver -------------------------------
(***************************************************************************)
(* The generator driver of runtime.py: what Driver.start, Driver.send and  *)
(* Driver.throw make of a driver, as operators from a driver to a driver.  *)
(*                                                                         *)
(* A sequencer program is Python code that the driver sees only through    *)
(* what it yields.  The authoring rules require it to be deterministic, so *)
(* a program is an automaton: GenStates are the points at which generators *)
(* stop, Entry says where one stops first, Resumed where it stops after a  *)
(* result is sent in, and Yields what is seen there.                       *)
(***************************************************************************)
EXTENDS Naturals

CONSTANTS
  Programs,     \* program versions, one for each source_hash
  Params,       \* the params objects an agent can pass
  Results,      \* the results an agent can submit
  GenStates,    \* the points at which generators stop
  Entry,        \* Entry[<<p, a>>]: where p stops first when run with params a
  ParamsLeft,   \* ParamsLeft[<<p, a>>]: what the params hold at that point
  Resumed,      \* Resumed[<<g, r>>]: where gen.send(r) leads from g
  Yields,       \* Yields[g]: the Reaction seen at g
  NoDriver      \* no driver: none was built, or building it raised

(***************************************************************************)
(* What the driver sees when the generator stops.  "return" is             *)
(* StopIteration, "raise" an exception of the program, "other" a value of  *)
(* an unknown type, "not_built" an exception of run(ctx) itself.  Of an    *)
(* Instruction, verdict says what jsonschema makes of each result:         *)
(* "bad_schema" is SchemaError and "raises" any other exception.           *)
(***************************************************************************)
Reactions ==
  [kind       : {"instruction", "done", "abort", "return", "raise", "other",
                 "not_built"},
   verdict    : [Results -> {"valid", "invalid", "bad_schema", "raises"}],
   on_invalid : {"retry", "abort"}]

ASSUME ProgramAssumption ==
  /\ Entry \in [Programs \X Params -> GenStates]
  /\ ParamsLeft \in [Programs \X Params -> Params]
  /\ Resumed \in [GenStates \X Results -> GenStates]
  /\ Yields \in [GenStates -> Reactions]

States == {"awaiting_result", "completed", "aborted", "failed"}

TerminalStates == {"completed", "aborted", "failed"}

LastYields ==
  [kind     : {"instruction", "done", "abort", "error", "none"},
   step_no  : Nat,
   reissued : BOOLEAN]   \* carries a validation_error

Drivers ==
  [program    : Programs,
   gen        : GenStates,    \* where the generator stands
   pending    : BOOLEAN,      \* _pending_instruction is not None
   state      : States,
   step_no    : Nat,
   last_yield : LastYields]

ASSUME NoDriverAssumption == NoDriver \notin Drivers

IsTerminal(d) == d.state \in TerminalStates

-----------------------------------------------------------------------------

\* Driver.__init__: nothing has run; the state is tentative until start().
NewDriver(p, g) ==
  [program    |-> p,
   gen        |-> g,
   pending    |-> FALSE,
   state      |-> "awaiting_result",
   step_no    |-> 0,
   last_yield |-> [kind |-> "none", step_no |-> 0, reissued |-> FALSE]]

\* Mutant of Issue: a retry reuses the step number.
IssueRetryUnnumbered(d, reissue) ==
  [d EXCEPT !.pending    = TRUE,
            !.state      = "awaiting_result",
            !.step_no    = IF reissue THEN d.step_no ELSE d.step_no + 1,
            !.last_yield = [kind     |-> "instruction",
                            step_no  |-> IF reissue THEN d.step_no
                                         ELSE d.step_no + 1,
                            reissued |-> reissue]]

\* Mutant of Issue: only retries get a number of their own.
IssueOnlyRetriesNumbered(d, reissue) ==
  [d EXCEPT !.pending    = TRUE,
            !.state      = "awaiting_result",
            !.step_no    = IF reissue \/ d.step_no = 0 THEN d.step_no + 1
                           ELSE d.step_no,
            !.last_yield = [kind     |-> "instruction",
                            step_no  |-> d.step_no + 1,
                            reissued |-> reissue]]

\* _set_instruction and _reissue_instruction: every issue gets a new number.
Issue(d, reissue) ==
  [d EXCEPT !.pending    = TRUE,
            !.state      = "awaiting_result",
            !.step_no    = d.step_no + 1,
            !.last_yield = [kind     |-> "instruction",
                            step_no  |-> d.step_no + 1,
                            reissued |-> reissue]]

\* Mutant of Finish: the pending instruction is not cleared.
FinishKeepsPending(d, state, kind) ==
  [d EXCEPT !.state      = state,
            !.last_yield = [kind     |-> kind,
                            step_no  |-> d.step_no,
                            reissued |-> FALSE]]

\* Mutant of Finish: last_yield carries the state for its kind.
FinishKindIsState(d, state, kind) ==
  [d EXCEPT !.pending    = FALSE,
            !.state      = state,
            !.last_yield = [kind     |-> state,
                            step_no  |-> d.step_no,
                            reissued |-> FALSE]]

\* _set_terminal_done, _set_terminal_abort and _set_terminal_failed.
Finish(d, state, kind) ==
  [d EXCEPT !.pending    = FALSE,
            !.state      = state,
            !.last_yield = [kind     |-> kind,
                            step_no  |-> d.step_no,
                            reissued |-> FALSE]]

Done(d)  == Finish(d, "completed", "done")
Abort(d) == Finish(d, "aborted", "abort")
Fail(d)  == Finish(d, "failed", "error")

\* _advance and _handle_yield: the generator has run on and stopped at g.
Reach(d, g) ==
  LET moved == [d EXCEPT !.gen = g]
      kind  == Yields[g].kind
  IN  CASE kind = "instruction"        -> Issue(moved, FALSE)
        [] kind \in {"done", "return"} -> Done(moved)
        [] kind = "abort"              -> Abort(moved)
        [] OTHER                       -> Fail(moved)

\* Driver(run_fn, params) and start(), to the first yield at g.
Launch(p, g) ==
  IF Yields[g].kind = "not_built" THEN NoDriver ELSE Reach(NewDriver(p, g), g)

Verdict(d, r) == Yields[d.gen].verdict[r]

\* An exception of jsonschema.validate that send() does not catch: the driver
\* is left as it was and the caller sees the exception.
SendRaises(d, r) == d.pending /\ Verdict(d, r) = "raises"

\* send(r), where the generator would stop at g if r were injected.
SendTo(d, r, g) ==
  CASE ~ d.pending                   -> Fail(d)
    [] d.pending /\ Verdict(d, r) = "invalid" ->
         IF Yields[d.gen].on_invalid = "abort" THEN Abort(d) ELSE Issue(d, TRUE)
    [] d.pending /\ Verdict(d, r) = "bad_schema" -> Fail(d)
    [] d.pending /\ Verdict(d, r) = "raises" -> d
    [] d.pending /\ Verdict(d, r) = "valid" -> Reach(d, g)

\* throw(exc): no result is validated; the program resumes at g, or does not
\* catch exc (Yields[g].kind = "raise").
Throw(d, g) == Reach(d, g)

\* The same for the programs of the constants.
Start(p, a) == Launch(p, Entry[<<p, a>>])
Send(d, r)  == SendTo(d, r, Resumed[<<d.gen, r>>])

-----------------------------------------------------------------------------

LastKind(state) ==
  CASE state = "awaiting_result" -> "instruction"
    [] state = "completed"       -> "done"
    [] state = "aborted"         -> "abort"
    [] state = "failed"          -> "error"

\* The parts of a driver that tools.py reports or decides by do not disagree.
IsCoherent(d) ==
  /\ d.pending <=> ~ IsTerminal(d)
  /\ d.pending => Yields[d.gen].kind = "instruction"
  /\ d.last_yield.kind = LastKind(d.state)
  /\ d.last_yield.step_no = d.step_no
  /\ d.last_yield.reissued => d.pending
=============================================================================
