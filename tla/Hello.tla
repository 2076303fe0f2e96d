------------------------------- MODULE Hello -------------------------------
(***************************************************************************)
(* The sample program hello.py as an automaton: one instruction for each   *)
(* name, and a summary of the greetings.  A point is the values of the     *)
(* generator's two variables where it stops.                               *)
(***************************************************************************)
EXTENDS Naturals, Sequences

CONSTANTS
  People,    \* the strings in `names`
  World,     \* the default name
  Absent,    \* no `names` entry
  NoList,    \* a `names` entry that is true and has no len(), a number say
  Messages   \* the results that _GREETING_SCHEMA accepts

\* The names to greet and the greetings collected.
Points == [names : Seq(People) \cup {NoList}, greetings : Seq(People \X Messages)]

\* ctx.params.get("names", ["world"])
NamesOf(a) == IF a = Absent THEN <<World>> ELSE a

\* Where the program stops first.
First(a) == [names |-> NamesOf(a), greetings |-> <<>>]

\* Mutant of Greeted: the greeting goes with the last name.
GreetedLast(g, message) ==
  [g EXCEPT !.greetings = Append(@, <<g.names[Len(g.names)], message>>)]

\* greetings.append(...): the name of this turn of the loop with its message.
Greeted(g, message) ==
  [g EXCEPT !.greetings = Append(@, <<g.names[Len(@) + 1], message>>)]

\* The loop asks for one greeting after the other; len() of what is no list
\* raises TypeError.
KindAt(g) ==
  CASE g.names = NoList -> "raise"
    [] g.names = <<>>   -> "abort"
    [] OTHER            ->
         IF Len(g.greetings) < Len(g.names) THEN "instruction" ELSE "done"

Accepts(g, r) == r \in Messages

\* Where it stops when r is sent in; at its end nothing is.
After(g, r) ==
  IF KindAt(g) = "instruction" /\ Accepts(g, r) THEN Greeted(g, r) ELSE g
=============================================================================
