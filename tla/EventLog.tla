------------------------------ MODULE EventLog ------------------------------
(***************************************************************************)
(* The JSONL event log of persistence.py: what EventLog.append and close   *)
(* leave in a file when they succeed, fail or are cut short, and what      *)
(* read_events and parse_header make of such a file.                       *)
(*                                                                         *)
(* A file is a sequence of complete lines and a tail with no newline.  A   *)
(* line is an event, or Garbled (json.loads rejects it), or Undecodable    *)
(* (it holds a UTF-8 character cut short).                                 *)
(* Timestamps are left out; an instance_id is the name of the file.        *)
(* Params and results arrive as JSON and can be dumped; what a program     *)
(* yields may not be.                                                      *)
(***************************************************************************)
EXTENDS Driver, Sequences

CONSTANTS
  WideText,   \* events hold text outside ASCII (ensure_ascii=False)
  OddYields   \* the points whose yield json.dumps rejects

ASSUME WideTextAssumption == WideText \in BOOLEAN
ASSUME OddYieldsAssumption == OddYields \subseteq GenStates

Garbled     == [type |-> "garbled"]
Undecodable == [type |-> "undecodable"]
Clean       == [type |-> "clean"]      \* the file ends with a newline

HeaderEvent(p, a)  == [type |-> "header", program |-> p, params |-> a]
YieldEvent(d)      == [type |-> "yield", payload |-> d.last_yield]
ResultEvent(n, r)  == [type |-> "result", for_step_no |-> n, result |-> r]

HeaderEvents == [type : {"header"}, program : Programs, params : Params]
YieldEvents  == [type : {"yield"}, payload : LastYields]
ResultEvents == [type : {"result"}, for_step_no : Nat, result : Results]
Events       == HeaderEvents \cup YieldEvents \cup ResultEvents

Lines == Events \cup {Garbled, Undecodable}

\* The log of one instance in the state directory.  A file that is not
\* present may still be open in a process: what that writes is lost.
Files == [present : BOOLEAN, lines : Seq(Lines), tail : Lines \cup {Clean}]

NoFile    == [present |-> FALSE, lines |-> <<>>, tail |-> Clean]
EmptyFile == [present |-> TRUE,  lines |-> <<>>, tail |-> Clean]

\* An EventLog: the lines a failed flush left in the stdio buffer, and whether
\* the start of the first of them has reached the file.
Handles == [open : BOOLEAN, buf : Seq(Lines), begun : BOOLEAN]

NoLog   == [open |-> FALSE, buf |-> <<>>, begun |-> FALSE]
OpenLog == [open |-> TRUE,  buf |-> <<>>, begun |-> FALSE]

-----------------------------------------------------------------------------
(* Writing.                                                                *)

\* What two pieces of text on one line decode to.
Glue(left, right) ==
  IF Undecodable \in {left, right} THEN Undecodable ELSE Garbled

\* The line that the rest of `line` ends: the line itself, unless the file has
\* an unterminated tail which is not the start of that very line.
Ended(f, line, begun) ==
  CASE f.tail = Clean /\ ~ begun -> line
    [] f.tail # Clean /\ begun   -> line
    [] f.tail = Clean /\ begun   -> Garbled
    [] f.tail # Clean /\ ~ begun -> Glue(f.tail, line)

\* json.dumps raises on the last yield of d, before anything is written.  An
\* error, and the abort that an invalid result causes, hold only text.
Unserialisable(d) ==
  /\ d.gen \in OddYields
  /\ d.last_yield.kind # "error"
  /\ Yields[d.gen].kind = "instruction" => d.last_yield.kind = "instruction"

\* The whole of q reaches the file.
WriteLines(f, q, begun) ==
  IF ~ f.present \/ q = <<>> THEN f
  ELSE [f EXCEPT !.lines = (f.lines \o <<Ended(f, q[1], begun)>>) \o Tail(q),
                 !.tail  = Clean]

\* What of a line may have been written when the writing stops inside it: a
\* proper part of a JSON object never parses, all of it but the newline does.
Parts(line) == {Garbled, line} \cup (IF WideText THEN {Undecodable} ELSE {})

\* Only `part` of a line reaches the file.
WritePart(f, begun, part) ==
  IF ~ f.present THEN f
  ELSE [f EXCEPT !.tail = IF f.tail = Clean \/ begun THEN part
                          ELSE Glue(f.tail, part)]

\* The ways a flush of q can stop short: after k lines, or with a part of the
\* next one in the file.  What is not in the file stays in the buffer.
Stops(f, q, begun) ==
  LET Whole(k) == WriteLines(f, SubSeq(q, 1, k), begun)
      Rest(k)  == SubSeq(q, k + 1, Len(q))
      Between(k) ==
        [file |-> Whole(k),
         log  |-> [open |-> TRUE, buf |-> Rest(k), begun |-> begun /\ k = 0]]
      Inside(k, part) ==
        LET own  == Whole(k).tail = Clean \/ (begun /\ k = 0)
            next == IF own THEN Rest(k)[1] ELSE Glue(f.tail, Rest(k)[1])
        IN  [file |-> WritePart(Whole(k), begun /\ k = 0, part),
             log  |-> [open  |-> TRUE,
                       buf   |-> <<next>> \o Tail(Rest(k)),
                       begun |-> TRUE]]
  IN  {Between(k) : k \in 0..(Len(q) - 1)}
        \cup UNION {{Inside(k, part) : part \in Parts(q[k + 1])} :
                    k \in 0..(Len(q) - 1)}

-----------------------------------------------------------------------------
(* Reading.                                                                *)

\* The lines that `for raw in f` sees: the tail is one of them.
AllLines(f) == IF f.tail = Clean THEN f.lines ELSE Append(f.lines, f.tail)

\* read_events raises on bytes that do not decode.
Decodes(ls) == \A i \in DOMAIN ls : ls[i] # Undecodable

\* ls[i] is the first event that read_events returns: it skips garbled lines.
IsFirstEvent(ls, i) == ls[i] # Garbled /\ \A j \in 1..(i - 1) : ls[j] = Garbled

\* parse_header raises if the first event is not a header, or there is none.
HasHeader(ls) ==
  \E i \in DOMAIN ls : IsFirstEvent(ls, i) /\ ls[i].type = "header"

Readable(f) == f.present /\ Decodes(AllLines(f)) /\ HasHeader(AllLines(f))

HeaderOf(ls) == ls[CHOOSE i \in DOMAIN ls : IsFirstEvent(ls, i)]

-----------------------------------------------------------------------------
(* Replay: the loop of sequencer_resume over the events after the header.  *)

\* Mutant of Feed: results that were answered by a retry are not replayed.
FeedValidOnly(line) ==
  [d \in Drivers \cup {NoDriver} |->
     IF line.type # "result" \/ d = NoDriver THEN d
     ELSE IF IsTerminal(d) THEN d
     ELSE IF SendRaises(d, line.result) THEN NoDriver
     ELSE IF Verdict(d, line.result) = "invalid" THEN d
     ELSE Send(d, line.result)]

\* One turn of the loop, as what it makes of a driver.  It skips what is not a
\* result, stops once the driver is terminal, and fails when send raises.
Feed(line) ==
  [d \in Drivers \cup {NoDriver} |->
     IF line.type # "result" \/ d = NoDriver THEN d
     ELSE IF IsTerminal(d) THEN d
     ELSE IF SendRaises(d, line.result) THEN NoDriver
     ELSE Send(d, line.result)]

Replay(d, ls) ==
  LET run[i \in 0..Len(ls)] ==
        IF i = 0 THEN d ELSE Feed(ls[i])[run[i - 1]]
  IN  run[Len(ls)]

\* The driver that sequencer_resume builds from the lines of a log when the
\* program of its header is now p: NoDriver for CorruptedLog and ReplayFailed.
RestoredWith(p, ls) ==
  IF ~ Decodes(ls) \/ ~ HasHeader(ls) THEN NoDriver
  ELSE Replay(Start(p, HeaderOf(ls).params), ls)

\* The same for a program that has not changed.
RestoredFrom(ls) == RestoredWith(HeaderOf(ls).program, ls)

Restored(f) == IF f.present THEN RestoredFrom(AllLines(f)) ELSE NoDriver
=============================================================================
