--------------------------- MODULE SequencerProofs ---------------------------
(***************************************************************************)
(* The theorems about Sequencer, for every set of programs and instances   *)
(* and logs of every length.  The lemmas about the operators of EventLog   *)
(* come first: how replay unfolds along a log, and the types of what       *)
(* writing leaves.  Then what holds whatever fails: type correctness,      *)
(* SameProgram and LoadedNeverRewinds.  Then what holds if no append       *)
(* fails: Recoverable and AckedSurvive; and from how logs grow, and memory *)
(* and reports with them, OneResultPerStep, LoggedYieldsTrue,              *)
(* ToldNeverRewinds and that Sequencer implements DurableRun.              *)
(***************************************************************************)
EXTENDS Sequencer, DriverProofs, SequenceTheorems

-----------------------------------------------------------------------------
(* Replay.                                                                   *)

MaybeDrivers == Drivers \cup {NoDriver}

\* A result event carries a result.
LEMMA LineResult ==
  ASSUME NEW line \in Lines, line.type = "result"
  PROVE  line \in ResultEvents /\ line.result \in Results
<1>1. line \in ResultEvents
  BY DEF Lines, Events, HeaderEvents, YieldEvents, Garbled, Undecodable
<1>2. QED BY <1>1 DEF ResultEvents

\* A turn of the replay loop makes a driver, or none, of a driver or none.
LEMMA FeedType ==
  ASSUME NEW line \in Lines, NEW d \in MaybeDrivers
  PROVE  Feed(line)[d] \in MaybeDrivers
<1>1. CASE line.type # "result" \/ d = NoDriver
  BY <1>1 DEF Feed, MaybeDrivers
<1>2. CASE line.type = "result" /\ d # NoDriver
  <2>1. d \in Drivers /\ line.result \in Results
    BY <1>2, LineResult DEF MaybeDrivers
  <2>2. Send(d, line.result) \in Drivers
    BY <2>1, SendType
  <2>3. Feed(line)[d] \in {d, NoDriver, Send(d, line.result)}
    BY <1>2 DEF Feed, MaybeDrivers
  <2> QED BY <2>1, <2>2, <2>3 DEF MaybeDrivers
<1>3. QED BY <1>1, <1>2

\* f is the course of a replay from d over the first n lines of ls.
IsRun(f, d, ls, n) ==
  f = [i \in 0..n |-> IF i = 0 THEN d ELSE Feed(ls[i])[f[i - 1]]]

\* There is such a course.
LEMMA RunExists ==
  ASSUME NEW d, NEW ls
  PROVE  \A n \in Nat : \E f : IsRun(f, d, ls, n)
<1> DEFINE S == {n \in Nat : \E f : IsRun(f, d, ls, n)}
<1>1. 0 \in S
  <2>1. IsRun([i \in 0..0 |-> d], d, ls, 0)
    BY DEF IsRun
  <2> QED BY <2>1
<1>2. ASSUME NEW n \in Nat, n \in S
      PROVE  n + 1 \in S
  <2>1. PICK f : IsRun(f, d, ls, n)
    BY <1>2
  <2> DEFINE h == [i \in 0..(n + 1) |->
                     IF i = 0 THEN d
                     ELSE IF i = n + 1 THEN Feed(ls[i])[f[n]]
                     ELSE f[i]]
  <2>2. \A i \in 0..n : f[i] = IF i = 0 THEN d ELSE Feed(ls[i])[f[i - 1]]
    BY <2>1 DEF IsRun
  <2>3. \A i \in 0..n : h[i] = f[i]
    BY <2>2
  <2>4. ASSUME NEW i \in 0..(n + 1)
        PROVE  h[i] = IF i = 0 THEN d ELSE Feed(ls[i])[h[i - 1]]
    <3>1. CASE i = 0
      BY <3>1
    <3>2. CASE i = n + 1
      BY <2>3, <3>2
    <3>3. CASE i \in 1..n
      <4>1. i - 1 \in 0..n /\ i \in 0..n /\ i # 0
        BY <3>3
      <4> HIDE DEF h
      <4> QED BY <2>2, <2>3, <4>1
    <3> QED BY <3>1, <3>2, <3>3
  <2>5. IsRun(h, d, ls, n + 1)
    <3>1. h = [i \in 0..(n + 1) |-> h[i]]
      OBVIOUS
    <3> HIDE DEF h
    <3> QED BY <2>4, <3>1 DEF IsRun
  <2> QED BY <2>5
<1>3. \A n \in Nat : n \in S
  <2> HIDE DEF S
  <2> QED BY <1>1, <1>2, SetInduction
<1>4. QED BY <1>3

\* Replay is the end of such a course.
LEMMA ReplayIsRun ==
  ASSUME NEW d, NEW ls, Len(ls) \in Nat
  PROVE  \E f : IsRun(f, d, ls, Len(ls)) /\ Replay(d, ls) = f[Len(ls)]
<1> DEFINE f == CHOOSE f : IsRun(f, d, ls, Len(ls))
<1>1. IsRun(f, d, ls, Len(ls))
  BY RunExists
<1>2. Replay(d, ls) = f[Len(ls)]
  BY DEF Replay, IsRun
<1>3. QED BY <1>1, <1>2

\* Replaying nothing changes nothing.
LEMMA ReplayEmpty ==
  ASSUME NEW d
  PROVE  Replay(d, <<>>) = d
<1>1. Len(<<>>) = 0
  OBVIOUS
<1>2. QED BY <1>1, ReplayIsRun DEF IsRun

\* Replaying one more line is one more turn of the loop.
LEMMA ReplayAppend ==
  ASSUME NEW d, NEW S, NEW ls \in Seq(S), NEW e \in S
  PROVE  Replay(d, Append(ls, e)) = Feed(e)[Replay(d, ls)]
<1> DEFINE ks == Append(ls, e)
           n == Len(ls)
<1>1. /\ n \in Nat /\ Len(ks) = n + 1 /\ ks[n + 1] = e
      /\ \A i \in 1..n : ls[i] = ks[i]
  OBVIOUS
<1> HIDE DEF ks, n
<1>2. PICK f : IsRun(f, d, ls, n) /\ Replay(d, ls) = f[n]
  BY <1>1, ReplayIsRun DEF n
<1>3. PICK h : IsRun(h, d, ks, n + 1) /\ Replay(d, ks) = h[n + 1]
  BY <1>1, ReplayIsRun
<1> DEFINE T == {i \in Nat : i <= n => f[i] = h[i]}
<1>4. f[n] = h[n]
  <2>1. 0 \in T
    BY <1>1, <1>2, <1>3 DEF IsRun
  <2>2. ASSUME NEW i \in Nat, i \in T
        PROVE  i + 1 \in T
    <3> SUFFICES ASSUME i + 1 <= n PROVE f[i + 1] = h[i + 1]
      OBVIOUS
    <3>1. /\ f[i] = h[i] /\ ls[i + 1] = ks[i + 1]
          /\ i + 1 # 0 /\ (i + 1) - 1 = i
          /\ i + 1 \in 0..n /\ i + 1 \in 0..(n + 1)
      BY <1>1, <2>2
    <3>2. f[i + 1] = Feed(ls[i + 1])[f[(i + 1) - 1]]
      BY <1>2, <3>1 DEF IsRun
    <3>3. h[i + 1] = Feed(ks[i + 1])[h[(i + 1) - 1]]
      BY <1>3, <3>1 DEF IsRun
    <3> QED BY <3>1, <3>2, <3>3
  <2>3. \A i \in Nat : i \in T
    <3> HIDE DEF T
    <3> QED BY <2>1, <2>2, SetInduction
  <2> QED BY <1>1, <2>3
<1>5. h[n + 1] = Feed(ks[n + 1])[h[n]]
  <2>1. n + 1 \in 0..(n + 1) /\ n + 1 # 0 /\ (n + 1) - 1 = n
    BY <1>1
  <2>2. h[n + 1] = Feed(ks[n + 1])[h[(n + 1) - 1]]
    BY <1>3, <2>1 DEF IsRun
  <2> QED BY <2>1, <2>2
<1>6. QED BY <1>1, <1>2, <1>3, <1>4, <1>5 DEF ks

\* Replay stays in a set of drivers that the turns of the loop do not leave.
LEMMA ReplayWithin ==
  ASSUME NEW D, NEW d \in D, NEW S, NEW ls \in Seq(S),
         \A line \in S : \A e \in D : Feed(line)[e] \in D
  PROVE  Replay(d, ls) \in D
<1> DEFINE n == Len(ls)
<1>1. n \in Nat /\ \A i \in 1..n : ls[i] \in S
  OBVIOUS
<1>2. PICK f : IsRun(f, d, ls, n) /\ Replay(d, ls) = f[n]
  BY <1>1, ReplayIsRun
<1> DEFINE T == {i \in Nat : i <= n => f[i] \in D}
<1> HIDE DEF n
<1>3. 0 \in T
  BY <1>1, <1>2 DEF IsRun
<1>4. ASSUME NEW i \in Nat, i \in T
      PROVE  i + 1 \in T
  <2> SUFFICES ASSUME i + 1 <= n PROVE f[i + 1] \in D
    OBVIOUS
  <2>1. /\ f[i] \in D /\ ls[i + 1] \in S
        /\ i + 1 # 0 /\ (i + 1) - 1 = i /\ i + 1 \in 0..n
    BY <1>1, <1>4
  <2>2. f[i + 1] = Feed(ls[i + 1])[f[(i + 1) - 1]]
    BY <1>2, <2>1 DEF IsRun
  <2> QED BY <2>1, <2>2
<1>5. \A i \in Nat : i \in T
  <2> HIDE DEF T
  <2> QED BY <1>3, <1>4, SetInduction
<1>6. QED BY <1>1, <1>2, <1>5

\* Replay of a log ends with a driver or none.
LEMMA ReplayType ==
  ASSUME NEW d \in MaybeDrivers, NEW ls \in Seq(Lines)
  PROVE  Replay(d, ls) \in MaybeDrivers
BY FeedType, ReplayWithin

-----------------------------------------------------------------------------
(* Headers and resume.                                                       *)

\* A line that is a header line is a header event.
LEMMA LineHeader ==
  ASSUME NEW line \in Lines, line.type = "header"
  PROVE  line \in HeaderEvents
BY DEF Lines, Events, YieldEvents, ResultEvents, Garbled, Undecodable

\* The header of a log that has one is one of its lines, and a header.
LEMMA HeaderIsLine ==
  ASSUME NEW S, NEW ls \in Seq(S), HasHeader(ls)
  PROVE  HeaderOf(ls) \in S /\ HeaderOf(ls).type = "header"
<1>1. PICK i \in DOMAIN ls : IsFirstEvent(ls, i) /\ ls[i].type = "header"
  BY DEF HasHeader
<1> DEFINE j == CHOOSE j \in DOMAIN ls : IsFirstEvent(ls, j)
<1>2. j \in DOMAIN ls /\ IsFirstEvent(ls, j)
  BY <1>1
<1> HIDE DEF j
<1>3. i \in Nat /\ j \in Nat /\ i >= 1 /\ j >= 1
  BY <1>2
<1>4. i = j
  BY <1>1, <1>2, <1>3 DEF IsFirstEvent
<1>5. ls[j] \in S
  BY <1>2
<1>6. QED BY <1>1, <1>4, <1>5 DEF HeaderOf, j

\* It is the event that parse_header checks.
LEMMA HeaderType ==
  ASSUME NEW ls \in Seq(Lines), HasHeader(ls)
  PROVE  HeaderOf(ls) \in HeaderEvents
BY HeaderIsLine, LineHeader

\* sequencer_resume builds a driver or fails.
LEMMA RestoredWithType ==
  ASSUME NEW p \in Programs, NEW ls \in Seq(Lines)
  PROVE  RestoredWith(p, ls) \in MaybeDrivers
<1>1. CASE ~ Decodes(ls) \/ ~ HasHeader(ls)
  BY <1>1 DEF RestoredWith, MaybeDrivers
<1>2. CASE Decodes(ls) /\ HasHeader(ls)
  <2>1. HeaderOf(ls).params \in Params
    BY <1>2, HeaderType DEF HeaderEvents
  <2>2. Start(p, HeaderOf(ls).params) \in MaybeDrivers
    BY <2>1, StartType DEF MaybeDrivers
  <2> QED BY <1>2, <2>2, ReplayType DEF RestoredWith
<1>3. QED BY <1>1, <1>2

-----------------------------------------------------------------------------
(* Writing.                                                                  *)

\* X holds what becomes of its lines when they are torn or joined.
Spoilable(X) ==
  /\ X \subseteq Lines
  /\ Garbled \in X
  /\ WideText => Undecodable \in X

\* The files and the handles in which there is only text of X.
FilesOf(X)   == [present : BOOLEAN, lines : Seq(X), tail : X \cup {Clean}]
HandlesOf(X) == [open : BOOLEAN, buf : Seq(X), begun : BOOLEAN]

\* Pieces of text on one line make a line: no writing brings in other text.
LEMMA EndedWithin ==
  ASSUME NEW X, Spoilable(X),
         NEW f \in FilesOf(X), NEW line \in X, NEW begun \in BOOLEAN
  PROVE  /\ f.tail # Clean => Glue(f.tail, line) \in X
         /\ Ended(f, line, begun) \in X
<1>1. f.tail # Clean => f.tail \in X
  BY DEF FilesOf
<1>2. f.tail # Clean => Glue(f.tail, line) \in X
  BY <1>1 DEF Glue, Spoilable
<1>3. CASE f.tail = Clean
  BY <1>3 DEF Ended, Spoilable
<1>4. CASE f.tail # Clean
  BY <1>2, <1>4 DEF Ended, Spoilable
<1>5. QED BY <1>2, <1>3, <1>4

\* Lines written to a file add their text to it.
LEMMA WriteLinesWithin ==
  ASSUME NEW X, Spoilable(X),
         NEW f \in FilesOf(X), NEW q \in Seq(X), NEW begun \in BOOLEAN
  PROVE  /\ WriteLines(f, q, begun) \in FilesOf(X)
         /\ WriteLines(f, q, begun).present = f.present
<1>1. CASE ~ f.present \/ q = <<>>
  BY <1>1 DEF WriteLines
<1>2. CASE f.present /\ q # <<>>
  <2>1. q[1] \in X /\ Tail(q) \in Seq(X) /\ f.lines \in Seq(X)
    BY <1>2 DEF FilesOf
  <2> DEFINE e == Ended(f, q[1], begun)
  <2>2. e \in X
    BY <2>1, EndedWithin
  <2> HIDE DEF e
  <2>3. <<e>> \in Seq(X)
    BY <2>2
  <2>4. (f.lines \o <<e>>) \o Tail(q) \in Seq(X)
    BY <2>1, <2>3
  <2>5. WriteLines(f, q, begun) =
          [f EXCEPT !.lines = (f.lines \o <<e>>) \o Tail(q), !.tail = Clean]
    BY <1>2 DEF WriteLines, e
  <2> QED BY <2>4, <2>5 DEF FilesOf
<1>3. QED BY <1>1, <1>2

\* And a part of a line does.
LEMMA WritePartWithin ==
  ASSUME NEW X, Spoilable(X),
         NEW f \in FilesOf(X), NEW part \in X, NEW begun \in BOOLEAN
  PROVE  /\ WritePart(f, begun, part) \in FilesOf(X)
         /\ WritePart(f, begun, part).present = f.present
<1>1. f.tail # Clean => Glue(f.tail, part) \in X
  BY EndedWithin
<1>2. QED BY <1>1 DEF WritePart, FilesOf

\* A flush that stops short leaves only such text too, in the file and in the
\* buffer.
LEMMA StopsWithin ==
  ASSUME NEW X, Spoilable(X),
         NEW f \in FilesOf(X), NEW q \in Seq(X), NEW begun \in BOOLEAN,
         NEW stop \in Stops(f, q, begun)
  PROVE  /\ stop.file \in FilesOf(X)
         /\ stop.file.present = f.present
         /\ stop.log \in HandlesOf(X)
<1> DEFINE Whole(k) == WriteLines(f, SubSeq(q, 1, k), begun)
           Rest(k)  == SubSeq(q, k + 1, Len(q))
           own(k)   == Whole(k).tail = Clean \/ (begun /\ k = 0)
           next(k)  == IF own(k) THEN Rest(k)[1] ELSE Glue(f.tail, Rest(k)[1])
           Between(k) ==
             [file |-> Whole(k),
              log  |-> [open |-> TRUE, buf |-> Rest(k), begun |-> begun /\ k = 0]]
           Inside(k, part) ==
             [file |-> WritePart(Whole(k), begun /\ k = 0, part),
              log  |-> [open  |-> TRUE,
                        buf   |-> <<next(k)>> \o Tail(Rest(k)),
                        begun |-> TRUE]]
<1>1. PICK k \in 0..(Len(q) - 1) :
        \/ stop = Between(k)
        \/ \E part \in Parts(q[k + 1]) : stop = Inside(k, part)
  BY DEF Stops
<1>2. /\ SubSeq(q, 1, k) \in Seq(X) /\ Rest(k) \in Seq(X)
      /\ Rest(k) # <<>> /\ q[k + 1] \in X
  <2>1. k \in Nat /\ Len(q) \in Nat /\ k < Len(q)
    OBVIOUS
  <2>2. SubSeq(q, 1, k) \in Seq(X)
    BY <2>1, SubSeqProperties
  <2>3. Rest(k) \in Seq(X) /\ Len(Rest(k)) = Len(q) - k
    BY <2>1, SubSeqProperties
  <2>4. Rest(k) # <<>>
    <3> HIDE DEF Rest
    <3>1. Len(Rest(k)) # 0
      BY <2>1, <2>3
    <3>2. Len(<<>>) = 0
      OBVIOUS
    <3> QED BY <3>1, <3>2, Zenon
  <2>5. q[k + 1] \in X
    BY <2>1
  <2> QED BY <2>2, <2>3, <2>4, <2>5
<1>3. Whole(k) \in FilesOf(X) /\ Whole(k).present = f.present
  BY <1>2, WriteLinesWithin
<1>4. CASE stop = Between(k)
  BY <1>2, <1>3, <1>4 DEF HandlesOf
<1>5. ASSUME NEW part \in Parts(q[k + 1]), stop = Inside(k, part)
      PROVE  /\ stop.file \in FilesOf(X)
             /\ stop.file.present = f.present
             /\ stop.log \in HandlesOf(X)
  <2>1. part \in X
    BY <1>2 DEF Parts, Spoilable
  <2>2. Rest(k)[1] \in X /\ Tail(Rest(k)) \in Seq(X)
    BY <1>2
  <2>3. ~ own(k) => f.tail # Clean
    BY DEF WriteLines
  <2>4. next(k) \in X
    <3> HIDE DEF Rest, own
    <3> QED BY <2>2, <2>3, EndedWithin
  <2> HIDE DEF Whole, Rest, next
  <2>5. <<next(k)>> \o Tail(Rest(k)) \in Seq(X)
    BY <2>2, <2>4
  <2>6. /\ WritePart(Whole(k), begun /\ k = 0, part) \in FilesOf(X)
        /\ WritePart(Whole(k), begun /\ k = 0, part).present = f.present
    BY <1>3, <2>1, WritePartWithin
  <2> QED BY <1>5, <2>5, <2>6 DEF HandlesOf
<1>6. QED BY <1>1, <1>4, <1>5

\* Lines are closed in this way.
LEMMA LinesSpoilable ==
  Spoilable(Lines) /\ Files = FilesOf(Lines) /\ Handles = HandlesOf(Lines)
BY DEF Spoilable, Lines, Files, FilesOf, Handles, HandlesOf

\* So a file stays a file when lines are written to it.
LEMMA WriteLinesType ==
  ASSUME NEW f \in Files, NEW q \in Seq(Lines), NEW begun \in BOOLEAN
  PROVE  WriteLines(f, q, begun) \in Files
BY LinesSpoilable, WriteLinesWithin

\* And what a flush that stops short leaves is a file and an open log.
LEMMA StopsType ==
  ASSUME NEW f \in Files, NEW q \in Seq(Lines), NEW begun \in BOOLEAN,
         NEW stop \in Stops(f, q, begun)
  PROVE  stop.file \in Files /\ stop.log \in Handles
BY LinesSpoilable, StopsWithin

-----------------------------------------------------------------------------
(* Types.                                                                    *)

\* What a call has still to append: a header and the first yield, or one event.
\* Its instance is loaded until it ends.
CallOK ==
  call # Idle =>
    /\ Loaded(call.id)
    /\ \/ \E h \in HeaderEvents, y \in YieldEvents : call.todo = <<h, y>>
       \/ \E e \in YieldEvents \cup ResultEvents : call.todo = <<e>>

TypeInv == TypeOK /\ CallOK

\* The type field tells events apart.
LEMMA EventKinds ==
  /\ \A e \in HeaderEvents : e \in Events /\ e \in Lines /\ e.type = "header"
  /\ \A e \in YieldEvents : e \in Events /\ e \in Lines /\ e.type = "yield"
  /\ \A e \in ResultEvents : e \in Events /\ e \in Lines /\ e.type = "result"
BY DEF HeaderEvents, YieldEvents, ResultEvents, Events, Lines

\* The empty state directory has the types.
LEMMA InitTypeInv == Init => TypeInv
<1> SUFFICES ASSUME Init PROVE TypeInv
  OBVIOUS
<1>1. NoFile \in Files /\ NoLog \in Handles
  BY DEF NoFile, Files, NoLog, Handles
<1>2. QED BY <1>1 DEF Init, TypeInv, TypeOK, CallOK, Tables

\* The sweep keeps the types (tools.py:141-151).
LEMMA SweepType ==
  ASSUME TypeOK, NEW E \in SUBSET Ids
  PROVE  /\ Kept(E) \in [Ids -> Drivers \cup {NoDriver}]
         /\ KeptLogs(E) \in [Ids -> Handles]
         /\ Closed(E) \in [Ids -> Files]
<1>1. Kept(E) \in [Ids -> Drivers \cup {NoDriver}]
  BY DEF TypeOK, Kept
<1>2. KeptLogs(E) \in [Ids -> Handles]
  BY DEF TypeOK, KeptLogs, NoLog, Handles
<1>3. ASSUME NEW id \in Ids
      PROVE  WriteLines(disk[id], log[id].buf, log[id].begun) \in Files
  <2>1. disk[id] \in Files /\ log[id].buf \in Seq(Lines) /\ log[id].begun \in BOOLEAN
    BY DEF TypeOK, Handles
  <2> QED BY <2>1, WriteLinesType
<1>4. Closed(E) \in [Ids -> Files]
  BY <1>3 DEF Closed, TypeOK
<1>5. QED BY <1>1, <1>2, <1>4

\* What a handler starts from.
LEMMA EnterType ==
  ASSUME TypeInv, NEW E, Enter(E)
  PROVE  /\ E \in SUBSET Ids /\ call = Idle
         /\ Kept(E) \in [Ids -> Drivers \cup {NoDriver}]
         /\ KeptLogs(E) \in [Ids -> Handles]
         /\ Closed(E) \in [Ids -> Files]
         /\ \A rescan \in BOOLEAN : Rescanned(rescan) \in Tables
<1>1. E \in SUBSET Ids /\ call = Idle
  BY DEF Enter, Sweepable
<1>2. \A rescan \in BOOLEAN : Rescanned(rescan) \in Tables
  BY DEF Rescanned, TypeInv, TypeOK
<1>3. QED BY <1>1, <1>2, SweepType DEF TypeInv

\* sequencer_start keeps the types (tools.py:178-233).
LEMMA StartTypeInv ==
  ASSUME TypeInv, StartCall
  PROVE  TypeInv'
<1>1. PICK E \in SUBSET Sweepable, rescan \in BOOLEAN,
           name \in Names, a \in Params, id \in Ids :
        SequencerStart(E, rescan, name, a, id)
  BY DEF StartCall
<1> DEFINE p == Rescanned(rescan)[name]
           d == Start(p, a)
           h == HeaderEvent(p, ParamsLeft[<<p, a>>])
           y == YieldEvent(d)
<1>2. Enter(E)
  BY <1>1 DEF SequencerStart
<1>3. p \in Programs /\ d \in Drivers
  <2>1. p \in Programs
    BY <1>1, <1>2, EnterType DEF SequencerStart, Tables
  <2>2. d # NoDriver
    BY <1>1 DEF SequencerStart
  <2> HIDE DEF p
  <2> QED BY <2>1, <2>2, StartType
<1>4. /\ registry' = Rescanned(rescan)
      /\ driver' = [Kept(E) EXCEPT ![id] = d]
      /\ log' = [KeptLogs(E) EXCEPT ![id] = OpenLog]
      /\ disk' = [Closed(E) EXCEPT ![id] = EmptyFile]
      /\ used' = used \cup {id}
      /\ call' = [id |-> id, todo |-> <<h, y>>, reply |-> TRUE]
      /\ source' = source /\ told' = told /\ up' = up
  BY <1>1 DEF SequencerStart
<1>5. h \in HeaderEvents /\ y \in YieldEvents
  <2>1. ParamsLeft[<<p, a>>] \in Params
    BY <1>3, ProgramAssumption
  <2>2. d.last_yield \in LastYields
    BY <1>3 DEF Drivers
  <2> HIDE DEF p, d
  <2> QED BY <1>3, <2>1, <2>2 DEF HeaderEvent, YieldEvent, HeaderEvents, YieldEvents
<1> HIDE DEF p, d, h, y
<1>6. OpenLog \in Handles /\ EmptyFile \in Files
  BY DEF OpenLog, Handles, EmptyFile, Files
<1>7. call' \in Calls
  <2>1. <<h, y>> \in Seq(Events)
    BY <1>5, EventKinds
  <2> QED BY <1>4, <2>1 DEF Calls
<1>8. TypeOK'
  <2>1. /\ driver' \in [Ids -> Drivers \cup {NoDriver}]
        /\ log' \in [Ids -> Handles] /\ disk' \in [Ids -> Files]
    BY <1>2, <1>3, <1>4, <1>6, EnterType
  <2>2. registry' \in Tables
    BY <1>2, <1>4, EnterType
  <2> QED BY <1>4, <1>7, <2>1, <2>2 DEF TypeOK, TypeInv
<1>9. CallOK'
  <2>1. driver'[id] # NoDriver
    BY <1>2, <1>3, <1>4, NoDriverAssumption, EnterType
  <2>2. call'.id = id /\ call'.todo = <<h, y>>
    BY <1>4
  <2> QED BY <1>5, <2>1, <2>2 DEF CallOK, Loaded
<1>10. QED BY <1>8, <1>9 DEF TypeInv

\* sequencer_next does (tools.py:257-297).
LEMMA NextCallTypeInv ==
  ASSUME TypeInv, NextCall
  PROVE  TypeInv'
<1>1. PICK E \in SUBSET Sweepable, id \in Ids, n \in StepNos, r \in Results :
        SequencerNext(E, id, n, r)
  BY DEF NextCall
<1>2. /\ Enter(E) /\ id \notin E /\ Loaded(id)
      /\ driver' = Kept(E) /\ log' = KeptLogs(E) /\ disk' = Closed(E)
      /\ call' = [id |-> id, todo |-> <<ResultEvent(n, r)>>, reply |-> TRUE]
      /\ source' = source /\ told' = told /\ up' = up /\ used' = used
      /\ registry' = registry
  BY <1>1 DEF SequencerNext
<1>3. ResultEvent(n, r) \in ResultEvents
  BY SequencerAssumption DEF ResultEvent, ResultEvents, StepNos
<1>4. call' \in Calls
  <2>1. <<ResultEvent(n, r)>> \in Seq(Events)
    BY <1>3, EventKinds
  <2> QED BY <1>2, <2>1 DEF Calls
<1>5. TypeOK'
  BY <1>2, <1>4, EnterType DEF TypeOK, TypeInv
<1>6. CallOK'
  <2>1. driver'[id] # NoDriver
    BY <1>2 DEF Kept, Loaded
  <2>2. call'.id = id /\ call'.todo = <<ResultEvent(n, r)>>
    BY <1>2
  <2> QED BY <1>3, <2>1, <2>2 DEF CallOK, Loaded
<1>7. QED BY <1>5, <1>6 DEF TypeInv

\* sequencer_current does (tools.py:238-252).
LEMMA CurrentTypeInv ==
  ASSUME TypeInv, CurrentCall
  PROVE  TypeInv'
<1>1. PICK E \in SUBSET Sweepable, id \in Ids : SequencerCurrent(E, id)
  BY DEF CurrentCall
<1>2. /\ Enter(E)
      /\ driver' = Kept(E) /\ log' = KeptLogs(E) /\ disk' = Closed(E)
      /\ told' = [told EXCEPT ![id] = driver[id]]
      /\ source' = source /\ up' = up /\ used' = used
      /\ registry' = registry /\ call' = call
  BY <1>1 DEF SequencerCurrent
<1>3. TypeOK'
  BY <1>2, EnterType DEF TypeOK, TypeInv
<1>4. CallOK'
  BY <1>2, EnterType DEF CallOK
<1>5. QED BY <1>3, <1>4 DEF TypeInv

\* sequencer_resume does: it builds a driver or fails (tools.py:330-416).
LEMMA ResumeTypeInv ==
  ASSUME TypeInv, ResumeCall
  PROVE  TypeInv'
<1>1. PICK E \in SUBSET Sweepable, rescan \in BOOLEAN, id \in Ids :
        SequencerResume(E, rescan, id)
  BY DEF ResumeCall
<1> DEFINE ls     == AllLines(Closed(E)[id])
           header == HeaderOf(ls)
           p      == Rescanned(rescan)[NameOf[header.program]]
           d      == RestoredWith(p, ls)
<1>2. /\ Enter(E) /\ Readable(Closed(E)[id]) /\ p # NoProgram
      /\ registry' = Rescanned(rescan)
      /\ driver' = [Kept(E) EXCEPT ![id] = d]
      /\ log' = [KeptLogs(E) EXCEPT ![id] = IF IsTerminal(d) THEN NoLog ELSE OpenLog]
      /\ disk' = Closed(E)
      /\ told' = [told EXCEPT ![id] = d]
      /\ source' = source /\ up' = up /\ used' = used /\ call' = call
  BY <1>1 DEF SequencerResume
<1>3. ls \in Seq(Lines)
  <2>1. Closed(E)[id] \in Files
    BY <1>2, EnterType
  <2> HIDE DEF Closed
  <2> QED BY <2>1 DEF AllLines, Files
<1>4. d \in MaybeDrivers
  <2>1. header.program \in Programs
    <3>1. HasHeader(ls)
      BY <1>2 DEF Readable
    <3> HIDE DEF ls
    <3> QED BY <1>3, <3>1, HeaderType DEF HeaderEvents
  <2>2. p \in Programs
    <3> HIDE DEF header
    <3> QED BY <1>2, <2>1, EnterType, SequencerAssumption DEF Tables
  <2> HIDE DEF p, ls
  <2> QED BY <1>3, <2>2, RestoredWithType
<1> HIDE DEF p, ls, header, d
<1>5. NoLog \in Handles /\ OpenLog \in Handles
  BY DEF OpenLog, NoLog, Handles
<1>6. /\ driver' \in [Ids -> Drivers \cup {NoDriver}]
      /\ told' \in [Ids -> Drivers \cup {NoDriver}]
  BY <1>2, <1>4, EnterType DEF MaybeDrivers, TypeInv, TypeOK
<1>7. log' \in [Ids -> Handles] /\ disk' \in [Ids -> Files] /\ registry' \in Tables
  BY <1>2, <1>5, EnterType
<1>8. TypeOK'
  BY <1>2, <1>6, <1>7 DEF TypeOK, TypeInv
<1>9. CallOK'
  BY <1>2, EnterType DEF CallOK
<1>10. QED BY <1>8, <1>9 DEF TypeInv

\* A handler that answers at once, having removed the instances of E, changed
\* or not what is on disk and what the agent was told.
LEMMA AtOnceTypeInv ==
  ASSUME TypeInv, call = Idle, NEW E \in SUBSET Ids,
         driver' = Kept(E), log' = KeptLogs(E), disk' \in [Ids -> Files],
         told' \in [Ids -> Drivers \cup {NoDriver}], registry' \in Tables,
         UNCHANGED <<source, used, up, call>>
  PROVE  TypeInv'
<1>1. TypeOK'
  BY SweepType DEF TypeOK, TypeInv
<1>2. CallOK'
  BY DEF CallOK
<1>3. QED BY <1>1, <1>2 DEF TypeInv

\* sequencer_close does (tools.py:421-463).
LEMMA CloseTypeInv ==
  ASSUME TypeInv, CloseCall
  PROVE  TypeInv'
<1>1. PICK E \in SUBSET Sweepable, id \in Ids, delete_log \in BOOLEAN :
        SequencerClose(E, id, delete_log)
  BY DEF CloseCall
<1> DEFINE gone == E \cup {id}
<1>2. /\ Enter(E)
      /\ driver' = Kept(gone) /\ log' = KeptLogs(gone)
      /\ disk' = IF delete_log THEN [Closed(gone) EXCEPT ![id] = NoFile]
                 ELSE Closed(gone)
      /\ told' = IF delete_log THEN [told EXCEPT ![id] = NoDriver] ELSE told
      /\ UNCHANGED <<source, used, up, registry, call>>
  BY <1>1 DEF SequencerClose
<1>3. gone \in SUBSET Ids /\ call = Idle
  BY <1>2, EnterType
<1> HIDE DEF gone
<1>4. NoFile \in Files
  BY DEF NoFile, Files
<1>5. disk' \in [Ids -> Files]
  BY <1>2, <1>3, <1>4, SweepType DEF TypeInv
<1>6. told' \in [Ids -> Drivers \cup {NoDriver}] /\ registry' \in Tables
  BY <1>2 DEF TypeInv, TypeOK
<1>7. QED BY <1>2, <1>3, <1>5, <1>6, AtOnceTypeInv

\* The calls that only sweep do (tools.py:132-151).
LEMMA OtherTypeInv ==
  ASSUME TypeInv, OtherCall
  PROVE  TypeInv'
<1>1. PICK E \in SUBSET Sweepable, rescan \in BOOLEAN : Answer(E, rescan)
  BY DEF OtherCall
<1>2. /\ Enter(E) /\ registry' = Rescanned(rescan)
      /\ driver' = Kept(E) /\ log' = KeptLogs(E) /\ disk' = Closed(E)
      /\ told' = told /\ UNCHANGED <<source, used, up, call>>
  BY <1>1 DEF Answer
<1>3. told' \in [Ids -> Drivers \cup {NoDriver}]
  BY <1>2 DEF TypeInv, TypeOK
<1>4. /\ E \in SUBSET Ids /\ call = Idle
      /\ disk' \in [Ids -> Files] /\ registry' \in Tables
  BY <1>2, EnterType
<1>5. QED BY <1>2, <1>3, <1>4, AtOnceTypeInv

\* A close that fails does (persistence.py:77-82).
LEMMA CloseFailsTypeInv ==
  ASSUME TypeInv, CloseCallFails
  PROVE  TypeInv'
<1>1. PICK E \in SUBSET Sweepable, id \in Ids : CloseFails(E, id)
  BY DEF CloseCallFails
<1>2. /\ Enter(E)
      /\ driver' = Kept(E \cup {id}) /\ log' = KeptLogs(E \cup {id})
      /\ UNCHANGED <<source, used, told, up, registry, call>>
  BY <1>1 DEF CloseFails
<1>3. PICK stop \in Stops(disk[id], log[id].buf, log[id].begun) :
        disk' = [Closed(E) EXCEPT ![id] = stop.file]
  BY <1>1 DEF CloseFails
<1>4. stop.file \in Files
  <2>1. disk[id] \in Files /\ log[id].buf \in Seq(Lines) /\ log[id].begun \in BOOLEAN
    BY DEF TypeInv, TypeOK, Handles
  <2> QED BY <2>1, StopsType
<1>5. disk' \in [Ids -> Files]
  BY <1>2, <1>3, <1>4, EnterType
<1>6. told' \in [Ids -> Drivers \cup {NoDriver}] /\ registry' \in Tables
  BY <1>2 DEF TypeInv, TypeOK
<1>7. E \cup {id} \in SUBSET Ids /\ call = Idle
  BY <1>2, EnterType
<1>8. QED BY <1>2, <1>5, <1>6, <1>7, AtOnceTypeInv

-----------------------------------------------------------------------------
(* The appends.                                                              *)

\* What an append flushes is lines, and its event is of the call.
LEMMA UnwrittenType ==
  ASSUME TypeInv, Executing
  PROVE  /\ call \in Calls /\ call.id \in Ids /\ Loaded(call.id)
         /\ Unwritten \in Seq(Lines)
         /\ disk[call.id] \in Files /\ log[call.id].begun \in BOOLEAN
         /\ driver[call.id] \in Drivers
<1>1. call \in Calls /\ Loaded(call.id)
  BY DEF Executing, TypeInv, TypeOK, CallOK
<1>2. call.id \in Ids
  BY <1>1 DEF Calls
<1>3. Head(call.todo) \in Lines
  <2>1. CASE \E h \in HeaderEvents, y \in YieldEvents : call.todo = <<h, y>>
    BY <2>1, EventKinds
  <2>2. CASE \E e \in YieldEvents \cup ResultEvents : call.todo = <<e>>
    BY <2>2, EventKinds
  <2> QED BY <2>1, <2>2 DEF TypeInv, CallOK, Executing
<1>4. log[call.id] \in Handles
  BY <1>2 DEF TypeInv, TypeOK
<1>5. Unwritten \in Seq(Lines)
  BY <1>3, <1>4 DEF Unwritten, Handles
<1>6. disk[call.id] \in Files /\ log[call.id].begun \in BOOLEAN
  BY <1>2, <1>4 DEF TypeInv, TypeOK, Handles
<1>7. driver[call.id] \in Drivers
  BY <1>1, <1>2 DEF TypeInv, TypeOK, Loaded
<1>8. QED BY <1>1, <1>2, <1>5, <1>6, <1>7

\* The result that a call has to append is a result.
LEMMA ResultOfCall ==
  ASSUME TypeInv, Executing, Head(call.todo).type = "result"
  PROVE  Head(call.todo).result \in Results
<1>1. Head(call.todo) \in Lines
  <2>1. CASE \E h \in HeaderEvents, y \in YieldEvents : call.todo = <<h, y>>
    BY <2>1, EventKinds
  <2>2. CASE \E e \in YieldEvents \cup ResultEvents : call.todo = <<e>>
    BY <2>2, EventKinds
  <2> QED BY <2>1, <2>2 DEF TypeInv, CallOK, Executing
<1>2. QED BY <1>1, LineResult

\* EventLog.append leaves a file and a log (persistence.py:71-75).
LEMMA AppendEventType ==
  ASSUME TypeInv, Executing, AppendEvent
  PROVE  disk' \in [Ids -> Files] /\ log' \in [Ids -> Handles]
<1>1. WriteLines(disk[call.id], Unwritten, log[call.id].begun) \in Files
  BY UnwrittenType, WriteLinesType
<1>2. OpenLog \in Handles
  BY DEF OpenLog, Handles
<1>3. disk \in [Ids -> Files] /\ log \in [Ids -> Handles]
  BY DEF TypeInv, TypeOK
<1>4. QED BY <1>1, <1>2, <1>3 DEF AppendEvent

\* The append of a header leaves one of the first yield (tools.py:216-224).
LEMMA LogHeaderTypeInv ==
  ASSUME TypeInv, LogHeader
  PROVE  TypeInv'
<1>1. /\ Executing /\ AppendEvent /\ Head(call.todo).type = "header"
      /\ call' = [call EXCEPT !.todo = Tail(call.todo)]
      /\ UNCHANGED <<source, used, told, up, registry, driver>>
  BY DEF LogHeader
<1>2. PICK y \in YieldEvents : Tail(call.todo) = <<y>>
  <2>1. CASE \E h \in HeaderEvents, y \in YieldEvents : call.todo = <<h, y>>
    BY <2>1
  <2>2. CASE \E e \in YieldEvents \cup ResultEvents : call.todo = <<e>>
    <3>1. Head(call.todo).type # "header"
      BY <2>2, EventKinds
    <3> QED BY <1>1, <3>1
  <2> QED BY <1>1, <2>1, <2>2 DEF TypeInv, CallOK, Executing
<1>3. call' \in Calls /\ call'.todo = <<y>> /\ call'.id = call.id
  <2>1. <<y>> \in Seq(Events)
    BY EventKinds
  <2> QED BY <1>1, <1>2, <2>1, UnwrittenType DEF Calls
<1>4. disk' \in [Ids -> Files] /\ log' \in [Ids -> Handles]
  BY <1>1, AppendEventType
<1>5. TypeOK'
  BY <1>1, <1>3, <1>4 DEF TypeInv, TypeOK
<1>6. CallOK'
  BY <1>1, <1>3, UnwrittenType DEF CallOK, Loaded
<1>7. QED BY <1>5, <1>6 DEF TypeInv

\* The append of a result leaves one of a yield (tools.py:294-315).
LEMMA LogResultTypeInv ==
  ASSUME TypeInv, LogResult
  PROVE  TypeInv'
<1> DEFINE id     == call.id
           r      == Head(call.todo).result
           raised == SendRaises(driver[id], r)
           after  == IF raised THEN driver[id] ELSE Send(driver[id], r)
           y      == YieldEvent(after)
<1>1. /\ Executing /\ AppendEvent /\ Head(call.todo).type = "result"
      /\ driver' = [driver EXCEPT ![id] = after]
      /\ call' = [id |-> id, todo |-> <<y>>, reply |-> ~ raised]
      /\ UNCHANGED <<source, used, told, up, registry>>
  BY DEF LogResult
<1>2. r \in Results
  BY <1>1, ResultOfCall
<1>3. id \in Ids /\ driver[id] \in Drivers
  BY <1>1, UnwrittenType
<1>4. after \in Drivers
  <2> HIDE DEF r, raised
  <2> QED BY <1>2, <1>3, SendType
<1>5. raised \in BOOLEAN
  BY <1>3 DEF SendRaises, Drivers
<1> HIDE DEF id, r, raised, after
<1>6. y \in YieldEvents
  BY <1>4 DEF YieldEvent, YieldEvents, Drivers
<1>7. call' \in Calls
  <2>1. <<y>> \in Seq(Events)
    BY <1>6, EventKinds
  <2> HIDE DEF y
  <2> QED BY <1>1, <1>3, <1>5, <2>1 DEF Calls
<1>8. disk' \in [Ids -> Files] /\ log' \in [Ids -> Handles]
  BY <1>1, AppendEventType
<1>9. TypeOK'
  BY <1>1, <1>3, <1>4, <1>7, <1>8 DEF TypeInv, TypeOK
<1>10. CallOK'
  <2>1. driver'[id] # NoDriver
    BY <1>1, <1>3, <1>4, NoDriverAssumption DEF TypeInv, TypeOK
  <2>2. call'.id = id /\ call'.todo = <<y>>
    BY <1>1
  <2> QED BY <1>6, <2>1, <2>2 DEF CallOK, Loaded
<1>11. QED BY <1>9, <1>10 DEF TypeInv

\* The append of a yield ends the call (tools.py:316-325).
LEMMA LogYieldTypeInv ==
  ASSUME TypeInv, LogYield
  PROVE  TypeInv'
<1>1. /\ Executing /\ AppendEvent /\ call' = Idle
      /\ told' = IF call.reply THEN [told EXCEPT ![call.id] = driver[call.id]]
                 ELSE told
      /\ UNCHANGED <<source, used, up, registry, driver>>
  BY DEF LogYield
<1>2. disk' \in [Ids -> Files] /\ log' \in [Ids -> Handles]
  BY <1>1, AppendEventType
<1>3. TypeOK'
  BY <1>1, <1>2, UnwrittenType DEF TypeInv, TypeOK
<1>4. CallOK'
  BY <1>1 DEF CallOK
<1>5. QED BY <1>3, <1>4 DEF TypeInv

\* A yield that cannot be dumped does too (persistence.py:73).
LEMMA DumpFailsTypeInv ==
  ASSUME TypeInv, DumpFails
  PROVE  TypeInv'
<1>1. call' = Idle /\ UNCHANGED <<shared, up, registry, driver, log>>
  BY DEF DumpFails
<1>2. TypeOK'
  BY <1>1 DEF TypeInv, TypeOK, shared
<1>3. CallOK'
  BY <1>1 DEF CallOK
<1>4. QED BY <1>2, <1>3 DEF TypeInv

\* An append that fails ends the call (persistence.py:71-75).
LEMMA AppendFailsTypeInv ==
  ASSUME TypeInv, AppendFails
  PROVE  TypeInv'
<1>1. /\ Executing /\ call' = Idle
      /\ UNCHANGED <<source, used, told, up, registry, driver>>
  BY DEF AppendFails
<1>2. PICK stop \in Stops(disk[call.id], Unwritten, log[call.id].begun) :
        /\ disk' = [disk EXCEPT ![call.id] = stop.file]
        /\ log' = [log EXCEPT ![call.id] = stop.log]
  BY DEF AppendFails
<1>3. stop.file \in Files /\ stop.log \in Handles
  BY <1>1, UnwrittenType, StopsType
<1>4. TypeOK'
  BY <1>1, <1>2, <1>3, UnwrittenType DEF TypeInv, TypeOK
<1>5. CallOK'
  BY <1>1 DEF CallOK
<1>6. QED BY <1>4, <1>5 DEF TypeInv

-----------------------------------------------------------------------------
(* The process and what is around it.                                        *)

\* The end of the process, whatever it leaves on disk.
LEMMA LeaveTypeInv ==
  ASSUME TypeInv, Leave, disk' \in [Ids -> Files]
  PROVE  TypeInv'
<1>1. NoLog \in Handles
  BY DEF NoLog, Handles
<1>2. TypeOK'
  BY <1>1 DEF Leave, TypeInv, TypeOK
<1>3. CallOK'
  BY DEF Leave, CallOK
<1>4. QED BY <1>2, <1>3 DEF TypeInv

\* The process may end between appends.
LEMMA ExitTypeInv ==
  ASSUME TypeInv, NEW orderly \in BOOLEAN, Exit(orderly)
  PROVE  TypeInv'
<1>1. Ids \in SUBSET Ids /\ disk \in [Ids -> Files]
  BY DEF TypeInv, TypeOK
<1>2. Closed(Ids) \in [Ids -> Files]
  BY <1>1, SweepType DEF TypeInv
<1>3. QED BY <1>1, <1>2, LeaveTypeInv DEF Exit

\* It may end inside one.
LEMMA ExitInAppendTypeInv ==
  ASSUME TypeInv, ExitInAppend
  PROVE  TypeInv'
<1>1. Executing /\ Leave
  BY DEF ExitInAppend
<1>2. PICK stop \in Stops(disk[call.id], Unwritten, log[call.id].begun) :
        disk' = [disk EXCEPT ![call.id] = stop.file]
  BY DEF ExitInAppend
<1>3. stop.file \in Files
  BY <1>1, UnwrittenType, StopsType
<1>4. disk' \in [Ids -> Files]
  BY <1>2, <1>3 DEF TypeInv, TypeOK
<1>5. QED BY <1>1, <1>4, LeaveTypeInv

\* Startup and pruning keep the types (__main__.py:49-69).
LEMMA ServerStartTypeInv ==
  ASSUME TypeInv, NEW pruned \in SUBSET Ids, ServerStart(pruned)
  PROVE  TypeInv'
<1>1. NoFile \in Files
  BY DEF NoFile, Files
<1>2. TypeOK'
  BY <1>1 DEF ServerStart, TypeInv, TypeOK
<1>3. CallOK'
  BY DEF ServerStart, TypeInv, CallOK, Loaded
<1>4. QED BY <1>2, <1>3 DEF TypeInv

\* So does an edit of a program.
LEMMA EditSourceTypeInv ==
  ASSUME TypeInv, NEW name \in Names, NEW p \in Programs \cup {NoProgram},
         EditSource(name, p)
  PROVE  TypeInv'
<1>1. TypeOK'
  BY DEF EditSource, TypeInv, TypeOK, Tables, local
<1>2. CallOK'
  BY DEF EditSource, TypeInv, CallOK, Loaded, local
<1>3. QED BY <1>1, <1>2 DEF TypeInv

\* Every step keeps the type invariant.
LEMMA NextTypeInv ==
  ASSUME TypeInv, [Next]_vars
  PROVE  TypeInv'
<1>1. CASE ServerNext
  <2>1. CASE StartCall \/ NextCall \/ CurrentCall
    BY <2>1, StartTypeInv, NextCallTypeInv, CurrentTypeInv
  <2>2. CASE ResumeCall \/ CloseCall \/ OtherCall
    BY <2>2, ResumeTypeInv, CloseTypeInv, OtherTypeInv
  <2>3. CASE LogHeader \/ LogResult \/ LogYield
    BY <2>3, LogHeaderTypeInv, LogResultTypeInv, LogYieldTypeInv
  <2>4. CASE DumpFails \/ AppendFails \/ CloseCallFails
    BY <2>4, DumpFailsTypeInv, AppendFailsTypeInv, CloseFailsTypeInv
  <2>5. CASE \E orderly \in BOOLEAN : Exit(orderly)
    BY <2>5, ExitTypeInv
  <2>6. CASE ExitInAppend
    BY <2>6, ExitInAppendTypeInv
  <2>7. CASE \E pruned \in SUBSET Ids : ServerStart(pruned)
    BY <2>7, ServerStartTypeInv
  <2> QED BY <1>1, <2>1, <2>2, <2>3, <2>4, <2>5, <2>6, <2>7 DEF ServerNext
<1>2. CASE \E name \in Names, p \in Programs \cup {NoProgram} : EditSource(name, p)
  BY <1>2, EditSourceTypeInv
<1>3. CASE UNCHANGED vars
  BY <1>3 DEF vars, shared, local, TypeInv, TypeOK, CallOK, Loaded
<1>4. QED BY <1>1, <1>2, <1>3 DEF Next

\* The type invariant holds at all times.
LEMMA TypeInvariance == Spec => []TypeInv
<1>1. TypeInv /\ [Next]_vars => TypeInv'
  BY NextTypeInv
<1>2. QED BY InitTypeInv, <1>1, PTL DEF Spec

\* Whatever fails, the server's variables keep their types: a resume never
\* takes a file for something else, and what a failed or torn append leaves is
\* still a log (persistence.py:57-82, tools.py:341-394).
THEOREM TypeCorrect == Spec => []TypeOK
<1>1. TypeInv => TypeOK
  BY DEF TypeInv
<1>2. QED BY TypeInvariance, <1>1, PTL

-----------------------------------------------------------------------------
(* One program for each instance.                                            *)

\* The lines of logs whose headers are of program p.
Text(p) ==
  {Garbled} \cup (IF WideText THEN {Undecodable} ELSE {})
    \cup {e \in Events : e.type = "header" => e.program = p}

\* All that is written, or still to be written, of instance id is of program p,
\* and so is its driver.  An id that was not drawn has neither file nor driver.
RunsOne(id, p) ==
  /\ disk[id] \in FilesOf(Text(p))
  /\ log[id] \in HandlesOf(Text(p))
  /\ Loaded(id) => driver[id].program = p
  /\ call # Idle /\ call.id = id => call.todo \in Seq(Text(p))
  /\ id \notin used => ~ Loaded(id) /\ ~ disk[id].present

OneProgram == \A id \in Ids : \E p \in Programs \cup {NoProgram} : RunsOne(id, p)

ProgramInv == TypeInv /\ OneProgram

\* Such text stays such text when it is torn and joined.
LEMMA TextSpoilable == \A p : Spoilable(Text(p))
BY DEF Spoilable, Text, Lines

\* Only a header belongs to a program.
LEMMA OthersAreText ==
  \A p : \A e \in YieldEvents \cup ResultEvents : e \in Text(p)
BY EventKinds DEF Text

\* The header of such text is of that program.
LEMMA HeaderOfText ==
  ASSUME NEW p, NEW ls \in Seq(Text(p)), HasHeader(ls)
  PROVE  HeaderOf(ls).program = p
<1>1. HeaderOf(ls) \in Text(p) /\ HeaderOf(ls).type = "header"
  BY HeaderIsLine
<1>2. Garbled.type # "header" /\ Undecodable.type # "header"
  BY DEF Garbled, Undecodable
<1> DEFINE h == HeaderOf(ls)
<1> HIDE DEF h
<1>3. h \in Text(p) /\ h.type = "header" => h.program = p
  BY <1>2 DEF Text
<1>4. QED BY <1>1, <1>3 DEF h

\* A file and its tail hold no other text.
LEMMA AllLinesText ==
  ASSUME NEW X, NEW f \in FilesOf(X)
  PROVE  AllLines(f) \in Seq(X)
<1>1. f.lines \in Seq(X) /\ f.tail \in X \cup {Clean}
  BY DEF FilesOf
<1>2. QED BY <1>1 DEF AllLines

\* Nothing is of any program.
LEMMA NothingIsText ==
  ASSUME NEW X
  PROVE  /\ NoFile \in FilesOf(X) /\ EmptyFile \in FilesOf(X)
         /\ NoLog \in HandlesOf(X) /\ OpenLog \in HandlesOf(X)
BY DEF NoFile, EmptyFile, NoLog, OpenLog, FilesOf, HandlesOf

\* A turn of replay does not change the program, nor does a replay.
LEMMA RestoredProgram ==
  ASSUME NEW p \in Programs, NEW ls \in Seq(Lines), RestoredWith(p, ls) # NoDriver
  PROVE  RestoredWith(p, ls) \in Drivers /\ RestoredWith(p, ls).program = p
<1> DEFINE D == {d \in Drivers : d.program = p} \cup {NoDriver}
           a == HeaderOf(ls).params
<1>1. ASSUME NEW line \in Lines, NEW d \in D
      PROVE  Feed(line)[d] \in D
  <2>1. CASE line.type # "result" \/ d = NoDriver
    BY <2>1 DEF Feed
  <2>2. CASE line.type = "result" /\ d # NoDriver
    <3>1. d \in Drivers /\ line.result \in Results /\ d.program = p
      BY <2>2, LineResult
    <3>2. Send(d, line.result) \in Drivers /\ Send(d, line.result).program = p
      BY <3>1, SendType, ProgramKept
    <3>3. Feed(line)[d] \in {d, NoDriver, Send(d, line.result)}
      BY <2>2, <3>1 DEF Feed
    <3> QED BY <3>1, <3>2, <3>3
  <2> QED BY <2>1, <2>2
<1>2. Decodes(ls) /\ HasHeader(ls) /\ RestoredWith(p, ls) = Replay(Start(p, a), ls)
  BY DEF RestoredWith
<1>3. a \in Params
  BY <1>2, HeaderType DEF HeaderEvents
<1>4. Start(p, a) \in D
  BY <1>3, StartType, StartProgram
<1>5. Replay(Start(p, a), ls) \in D
  <2> HIDE DEF D, a
  <2> QED BY <1>1, <1>4, ReplayWithin
<1>6. QED BY <1>2, <1>5

-----------------------------------------------------------------------------
(* Every step keeps an instance's program.                                   *)

\* The sweep and a close do: what they flush was in the buffer.
LEMMA SweepRunsOne ==
  ASSUME TypeInv, NEW E \in SUBSET Ids, NEW id \in Ids, NEW p, RunsOne(id, p)
  PROVE  /\ Closed(E)[id] \in FilesOf(Text(p))
         /\ Closed(E)[id].present = disk[id].present
         /\ KeptLogs(E)[id] \in HandlesOf(Text(p))
         /\ Kept(E)[id] \in {driver[id], NoDriver}
<1>1. disk[id] \in FilesOf(Text(p)) /\ log[id] \in HandlesOf(Text(p))
  BY DEF RunsOne
<1>2. log[id].buf \in Seq(Text(p)) /\ log[id].begun \in BOOLEAN
  BY <1>1 DEF HandlesOf
<1> DEFINE f == WriteLines(disk[id], log[id].buf, log[id].begun)
<1>3. f \in FilesOf(Text(p)) /\ f.present = disk[id].present
  BY <1>1, <1>2, TextSpoilable, WriteLinesWithin
<1> HIDE DEF f
<1>4. Closed(E)[id] \in {disk[id], f}
  BY DEF Closed, f
<1>5. KeptLogs(E)[id] \in {log[id], NoLog} /\ Kept(E)[id] \in {driver[id], NoDriver}
  BY DEF Kept, KeptLogs
<1>6. QED BY <1>1, <1>3, <1>4, <1>5, NothingIsText

\* Any handler that appends nothing, and of instance id changes at most what a
\* sweep or a close of it would, or deletes its log.
LEMMA AtOnceRunsOne ==
  ASSUME TypeInv, NEW E \in SUBSET Ids, NEW id \in Ids, NEW p, RunsOne(id, p),
         driver'[id] \in {driver[id], NoDriver},
         log'[id] \in {log[id], KeptLogs(E)[id], NoLog},
         disk'[id] \in {disk[id], Closed(E)[id], NoFile},
         call' \in {call, Idle}, used' = used
  PROVE  RunsOne(id, p)'
<1>1. log'[id] \in HandlesOf(Text(p))
  BY SweepRunsOne, NothingIsText DEF RunsOne
<1>2. disk'[id] \in FilesOf(Text(p)) /\ (disk'[id].present => disk[id].present)
  <2>1. CASE disk'[id] = disk[id]
    BY <2>1 DEF RunsOne
  <2>2. CASE disk'[id] = Closed(E)[id]
    BY <2>2, SweepRunsOne
  <2>3. CASE disk'[id] = NoFile
    <3>1. NoFile \in FilesOf(Text(p))
      BY NothingIsText
    <3>2. NoFile.present = FALSE
      BY DEF NoFile
    <3> QED BY <2>3, <3>1, <3>2
  <2> QED BY <2>1, <2>2, <2>3
<1>3. Loaded(id)' => Loaded(id) /\ driver'[id] = driver[id]
  BY DEF Loaded
<1>4. QED BY <1>1, <1>2, <1>3 DEF RunsOne

\* An append that succeeds, fails or is cut short: what it writes, and what it
\* leaves in the buffer, was in the buffer or is the event of the call.
LEMMA AppendRunsOne ==
  ASSUME TypeInv, Executing, NEW p, RunsOne(call.id, p)
  PROVE  /\ LET f == WriteLines(disk[call.id], Unwritten, log[call.id].begun)
            IN  f \in FilesOf(Text(p)) /\ f.present = disk[call.id].present
         /\ \A stop \in Stops(disk[call.id], Unwritten, log[call.id].begun) :
              /\ stop.file \in FilesOf(Text(p))
              /\ stop.file.present = disk[call.id].present
              /\ stop.log \in HandlesOf(Text(p))
<1> DEFINE f == disk[call.id]
           b == log[call.id].begun
<1>1. f \in FilesOf(Text(p)) /\ log[call.id] \in HandlesOf(Text(p))
  BY DEF RunsOne
<1>2. call.todo \in Seq(Text(p)) /\ call.todo # <<>>
  <2>1. call.todo \in Seq(Text(p))
    BY DEF RunsOne, Executing
  <2>2. CASE \E h \in HeaderEvents, y \in YieldEvents : call.todo = <<h, y>>
    BY <2>1, <2>2
  <2>3. CASE \E e \in YieldEvents \cup ResultEvents : call.todo = <<e>>
    BY <2>1, <2>3
  <2> QED BY <2>1, <2>2, <2>3 DEF Executing, TypeInv, CallOK
<1>3. Head(call.todo) \in Text(p)
  BY <1>2
<1>4. Unwritten \in Seq(Text(p)) /\ b \in BOOLEAN
  BY <1>1, <1>3 DEF Unwritten, HandlesOf
<1> HIDE DEF f, b
<1>5. /\ WriteLines(f, Unwritten, b) \in FilesOf(Text(p))
      /\ WriteLines(f, Unwritten, b).present = f.present
  BY <1>1, <1>4, TextSpoilable, WriteLinesWithin
<1>6. \A stop \in Stops(f, Unwritten, b) :
        /\ stop.file \in FilesOf(Text(p))
        /\ stop.file.present = f.present
        /\ stop.log \in HandlesOf(Text(p))
  BY <1>1, <1>4, TextSpoilable, StopsWithin
<1>7. QED BY <1>5, <1>6 DEF f, b

\* The same for the variables after it.
LEMMA AppendedRunsOne ==
  ASSUME TypeInv, Executing, AppendEvent, NEW id \in Ids, NEW p, RunsOne(id, p),
         UNCHANGED used, Loaded(id)' => Loaded(id) /\ driver'[id].program = p,
         (call # Idle /\ call.id = id => call.todo \in Seq(Text(p)))'
  PROVE  RunsOne(id, p)'
<1>1. call.id \in Ids /\ disk \in [Ids -> Files] /\ log \in [Ids -> Handles]
  BY UnwrittenType DEF TypeInv, TypeOK
<1>2. CASE id = call.id
  <2>1. /\ disk'[id] \in FilesOf(Text(p)) /\ disk'[id].present = disk[id].present
        /\ log'[id] = OpenLog
    BY <1>1, <1>2, AppendRunsOne DEF AppendEvent
  <2> QED BY <2>1, NothingIsText DEF RunsOne
<1>3. CASE id # call.id
  <2>1. disk'[id] = disk[id] /\ log'[id] = log[id]
    BY <1>1, <1>3 DEF AppendEvent
  <2> QED BY <2>1 DEF RunsOne
<1>4. QED BY <1>2, <1>3

\* sequencer_start begins with the program it was given (tools.py:178-233).
LEMMA StartRunsOne ==
  ASSUME ProgramInv, StartCall
  PROVE  OneProgram'
<1>1. PICK E \in SUBSET Sweepable, rescan \in BOOLEAN,
           name \in Names, a \in Params, new \in Ids :
        SequencerStart(E, rescan, name, a, new)
  BY DEF StartCall
<1>2. TypeInv /\ Enter(E)
  BY <1>1 DEF ProgramInv, SequencerStart
<1>3. PICK q \in Programs : q = Rescanned(rescan)[name]
  BY <1>1, <1>2, EnterType DEF SequencerStart, Tables
<1> DEFINE d == Start(q, a)
           h == HeaderEvent(q, ParamsLeft[<<q, a>>])
           y == YieldEvent(d)
<1>4. /\ d # NoDriver
      /\ driver' = [Kept(E) EXCEPT ![new] = d]
      /\ log' = [KeptLogs(E) EXCEPT ![new] = OpenLog]
      /\ disk' = [Closed(E) EXCEPT ![new] = EmptyFile]
      /\ used' = used \cup {new}
      /\ call' = [id |-> new, todo |-> <<h, y>>, reply |-> TRUE]
  BY <1>1, <1>3 DEF SequencerStart
<1> HIDE DEF d
<1>5. /\ E \in SUBSET Ids
      /\ Kept(E) \in [Ids -> Drivers \cup {NoDriver}]
      /\ KeptLogs(E) \in [Ids -> Handles]
      /\ Closed(E) \in [Ids -> Files]
  BY <1>2, EnterType
<1>6. d \in Drivers /\ d.program = q
  BY <1>4, StartType, StartProgram DEF d
<1>7. <<h, y>> \in Seq(Text(q))
  <2>1. h \in HeaderEvents /\ h.program = q
    BY ProgramAssumption DEF HeaderEvent, HeaderEvents
  <2>2. y \in YieldEvents
    BY <1>6 DEF YieldEvent, YieldEvents, Drivers
  <2> HIDE DEF h, y
  <2>3. h \in Text(q) /\ y \in Text(q)
    BY <2>1, <2>2, EventKinds, OthersAreText DEF Text
  <2> QED BY <2>3
<1> HIDE DEF h, y
<1>8. RunsOne(new, q)'
  <2>1. /\ driver'[new] = d /\ log'[new] = OpenLog /\ disk'[new] = EmptyFile
        /\ new \in used' /\ call'.todo = <<h, y>>
    BY <1>4, <1>5
  <2>2. OpenLog \in HandlesOf(Text(q)) /\ EmptyFile \in FilesOf(Text(q))
    BY NothingIsText
  <2> QED BY <1>6, <1>7, <2>1, <2>2 DEF RunsOne
<1>9. ASSUME NEW id \in Ids, id # new, NEW p, RunsOne(id, p)
      PROVE  RunsOne(id, p)'
  <2>1. /\ driver'[id] = Kept(E)[id] /\ log'[id] = KeptLogs(E)[id]
        /\ disk'[id] = Closed(E)[id] /\ call'.id = new
        /\ id \in used' <=> id \in used
    BY <1>4, <1>5, <1>9
  <2>2. /\ Closed(E)[id] \in FilesOf(Text(p))
        /\ Closed(E)[id].present = disk[id].present
        /\ KeptLogs(E)[id] \in HandlesOf(Text(p))
        /\ Kept(E)[id] \in {driver[id], NoDriver}
    BY <1>2, <1>5, <1>9, SweepRunsOne
  <2> QED BY <1>9, <2>1, <2>2 DEF RunsOne, Loaded
<1>10. ASSUME NEW id \in Ids
      PROVE  \E p \in Programs \cup {NoProgram} : RunsOne(id, p)'
  <2>1. CASE id = new
    BY <1>8, <2>1
  <2>2. CASE id # new
    <3>1. PICK p \in Programs \cup {NoProgram} : RunsOne(id, p)
      BY DEF ProgramInv, OneProgram
    <3> QED BY <1>9, <2>2, <3>1
  <2> QED BY <2>1, <2>2
<1>11. QED BY <1>10 DEF OneProgram

\* sequencer_resume goes on with the program of the header (tools.py:341-394).
LEMMA ResumeRunsOne ==
  ASSUME TypeInv, ResumeCall, NEW id \in Ids, NEW p, RunsOne(id, p)
  PROVE  RunsOne(id, p)'
<1>1. PICK E \in SUBSET Sweepable, rescan \in BOOLEAN, old \in Ids :
        SequencerResume(E, rescan, old)
  BY DEF ResumeCall
<1> DEFINE f == Closed(E)[old]
           h == HeaderOf(AllLines(f))
           q == Rescanned(rescan)[NameOf[h.program]]
           d == RestoredWith(q, AllLines(f))
<1>2. /\ Enter(E) /\ Readable(f) /\ q = h.program /\ d # NoDriver
      /\ driver' = [Kept(E) EXCEPT ![old] = d]
      /\ log' = [KeptLogs(E) EXCEPT ![old] = IF IsTerminal(d) THEN NoLog ELSE OpenLog]
      /\ disk' = Closed(E)
      /\ used' = used /\ call' = call
  BY <1>1 DEF SequencerResume, SameHash
<1>3. /\ E \in SUBSET Ids /\ call = Idle
      /\ Kept(E) \in [Ids -> Drivers \cup {NoDriver}]
      /\ KeptLogs(E) \in [Ids -> Handles]
      /\ Closed(E) \in [Ids -> Files]
  BY <1>2, EnterType
<1>4. /\ Closed(E)[id] \in FilesOf(Text(p))
      /\ Closed(E)[id].present = disk[id].present
      /\ KeptLogs(E)[id] \in HandlesOf(Text(p))
      /\ Kept(E)[id] \in {driver[id], NoDriver}
  BY <1>3, SweepRunsOne
<1>5. CASE id = old
  <2>1. AllLines(f) \in Seq(Text(p)) /\ AllLines(f) \in Seq(Lines)
    <3>1. f \in FilesOf(Text(p)) /\ f \in FilesOf(Lines)
      BY <1>3, <1>4, <1>5, LinesSpoilable
    <3> HIDE DEF f
    <3> QED BY <3>1, AllLinesText
  <2>2. HasHeader(AllLines(f)) /\ f.present
    BY <1>2 DEF Readable
  <2> HIDE DEF f
  <2>3. q = p
    BY <1>2, <2>1, <2>2, HeaderOfText
  <2>4. q \in Programs
    BY <1>2, <2>1, <2>2, HeaderType DEF HeaderEvents
  <2> HIDE DEF q
  <2>5. d.program = p
    BY <1>2, <2>1, <2>3, <2>4, RestoredProgram
  <2> HIDE DEF d
  <2>6. id \in used
    BY <1>4, <1>5, <2>2 DEF RunsOne, f
  <2>7. driver'[id] = d /\ log'[id] \in {NoLog, OpenLog}
    BY <1>2, <1>3, <1>5
  <2> QED BY <1>2, <1>3, <1>4, <2>5, <2>6, <2>7, NothingIsText DEF RunsOne
<1> HIDE DEF d
<1>6. CASE id # old
  <2>1. /\ driver'[id] = Kept(E)[id] /\ log'[id] = KeptLogs(E)[id]
        /\ disk'[id] = Closed(E)[id]
    BY <1>2, <1>3, <1>6
  <2> QED BY <1>2, <1>3, <1>4, <2>1 DEF RunsOne, Loaded
<1>7. QED BY <1>5, <1>6

\* Every other handler's first step changes at most the event to append.
LEMMA HandlersRunOne ==
  ASSUME TypeInv, NextCall \/ CurrentCall \/ CloseCall \/ OtherCall \/ CloseCallFails,
         NEW id \in Ids, NEW p, RunsOne(id, p)
  PROVE  RunsOne(id, p)'
<1>1. CASE NextCall
  <2>1. PICK E \in SUBSET Sweepable, i \in Ids, n \in StepNos, r \in Results :
          SequencerNext(E, i, n, r)
    BY <1>1 DEF NextCall
  <2>2. /\ Enter(E) /\ used' = used
        /\ driver' = Kept(E) /\ log' = KeptLogs(E) /\ disk' = Closed(E)
        /\ call'.todo = <<ResultEvent(n, r)>>
    BY <2>1 DEF SequencerNext
  <2>3. ResultEvent(n, r) \in ResultEvents
    BY SequencerAssumption DEF ResultEvent, ResultEvents, StepNos
  <2>4. call'.todo \in Seq(Text(p))
    BY <2>2, <2>3, OthersAreText
  <2>5. /\ Closed(E)[id] \in FilesOf(Text(p))
        /\ Closed(E)[id].present = disk[id].present
        /\ KeptLogs(E)[id] \in HandlesOf(Text(p))
        /\ Kept(E)[id] \in {driver[id], NoDriver}
    BY <2>2, EnterType, SweepRunsOne
  <2> QED BY <2>2, <2>4, <2>5 DEF RunsOne, Loaded
<1>2. CASE CurrentCall
  <2>1. PICK E \in SUBSET Sweepable, i \in Ids : SequencerCurrent(E, i)
    BY <1>2 DEF CurrentCall
  <2>2. /\ Enter(E) /\ UNCHANGED <<used, call>>
        /\ driver' = Kept(E) /\ log' = KeptLogs(E) /\ disk' = Closed(E)
    BY <2>1 DEF SequencerCurrent
  <2> QED BY <2>2, EnterType, SweepRunsOne, AtOnceRunsOne
<1>3. CASE CloseCall
  <2>1. PICK E \in SUBSET Sweepable, i \in Ids, delete_log \in BOOLEAN :
          SequencerClose(E, i, delete_log)
    BY <1>3 DEF CloseCall
  <2> DEFINE gone == E \cup {i}
  <2>2. /\ Enter(E) /\ UNCHANGED <<used, call>>
        /\ driver' = Kept(gone) /\ log' = KeptLogs(gone)
        /\ disk' = IF delete_log THEN [Closed(gone) EXCEPT ![i] = NoFile]
                   ELSE Closed(gone)
    BY <2>1 DEF SequencerClose
  <2>3. gone \in SUBSET Ids
    BY <2>2, EnterType
  <2> HIDE DEF gone
  <2>4. disk'[id] \in {Closed(gone)[id], NoFile}
    BY <2>2, <2>3, SweepType DEF TypeInv
  <2> QED BY <2>2, <2>3, <2>4, SweepRunsOne, AtOnceRunsOne
<1>4. CASE OtherCall
  <2>1. PICK E \in SUBSET Sweepable, rescan \in BOOLEAN : Answer(E, rescan)
    BY <1>4 DEF OtherCall
  <2>2. /\ Enter(E) /\ UNCHANGED <<used, call>>
        /\ driver' = Kept(E) /\ log' = KeptLogs(E) /\ disk' = Closed(E)
    BY <2>1 DEF Answer
  <2> QED BY <2>2, EnterType, SweepRunsOne, AtOnceRunsOne
<1>5. CASE CloseCallFails
  <2>1. PICK E \in SUBSET Sweepable, i \in Ids : CloseFails(E, i)
    BY <1>5 DEF CloseCallFails
  <2>2. /\ Enter(E) /\ UNCHANGED <<used, call>>
        /\ driver' = Kept(E \cup {i}) /\ log' = KeptLogs(E \cup {i})
    BY <2>1 DEF CloseFails
  <2>3. PICK stop \in Stops(disk[i], log[i].buf, log[i].begun) :
          disk' = [Closed(E) EXCEPT ![i] = stop.file]
    BY <2>1 DEF CloseFails
  <2>4. E \in SUBSET Ids /\ E \cup {i} \in SUBSET Ids /\ Closed(E) \in [Ids -> Files]
    BY <2>2, EnterType
  <2>5. /\ KeptLogs(E \cup {i})[id] \in HandlesOf(Text(p))
        /\ Kept(E \cup {i})[id] \in {driver[id], NoDriver}
        /\ Closed(E)[id] \in FilesOf(Text(p))
        /\ Closed(E)[id].present = disk[id].present
    BY <2>4, SweepRunsOne
  <2>6. CASE id = i
    <3>1. /\ disk[id] \in FilesOf(Text(p))
          /\ log[id].buf \in Seq(Text(p)) /\ log[id].begun \in BOOLEAN
      BY DEF RunsOne, HandlesOf
    <3>2. stop.file \in FilesOf(Text(p)) /\ stop.file.present = disk[id].present
      BY <2>6, <3>1, TextSpoilable, StopsWithin
    <3>3. disk'[id] = stop.file
      BY <2>3, <2>4, <2>6
    <3> QED BY <2>2, <2>5, <3>2, <3>3 DEF RunsOne, Loaded
  <2>7. CASE id # i
    <3>1. disk'[id] = Closed(E)[id]
      BY <2>3, <2>4, <2>7
    <3> QED BY <2>2, <2>5, <3>1 DEF RunsOne, Loaded
  <2> QED BY <2>6, <2>7
<1>6. QED BY <1>1, <1>2, <1>3, <1>4, <1>5

\* The appends keep the program, and so does a driver that takes a result
\* (tools.py:216-224, 294-325).
LEMMA AppendsRunOne ==
  ASSUME TypeInv, LogHeader \/ LogResult \/ LogYield \/ DumpFails \/ AppendFails,
         NEW id \in Ids, NEW p, RunsOne(id, p)
  PROVE  RunsOne(id, p)'
<1>1. CASE LogHeader
  <2>1. /\ Executing /\ AppendEvent /\ UNCHANGED <<used, driver>>
        /\ call' = [call EXCEPT !.todo = Tail(call.todo)]
    BY <1>1 DEF LogHeader
  <2>2. call'.id = call.id /\ call'.todo = Tail(call.todo)
    BY <2>1, UnwrittenType DEF Calls
  <2>3. call.id = id => call'.todo \in Seq(Text(p))
    <3>1. ASSUME call.id = id
          PROVE  call.todo \in Seq(Text(p))
      BY <2>1, <3>1 DEF RunsOne, Executing
    <3>2. call.todo # <<>>
      <4>1. CASE \E h \in HeaderEvents, y \in YieldEvents : call.todo = <<h, y>>
        BY <4>1
      <4>2. CASE \E e \in YieldEvents \cup ResultEvents : call.todo = <<e>>
        BY <4>2
      <4> QED BY <2>1, <4>1, <4>2 DEF TypeInv, CallOK, Executing
    <3> QED BY <2>2, <3>1, <3>2
  <2>4. Loaded(id)' => Loaded(id) /\ driver'[id].program = p
    BY <2>1 DEF Loaded, RunsOne
  <2> QED BY <2>1, <2>2, <2>3, <2>4, AppendedRunsOne
<1>2. CASE LogResult
  <2> DEFINE r      == Head(call.todo).result
             raised == SendRaises(driver[call.id], r)
             after  == IF raised THEN driver[call.id] ELSE Send(driver[call.id], r)
             y      == YieldEvent(after)
  <2>1. /\ Executing /\ AppendEvent /\ UNCHANGED used
        /\ driver' = [driver EXCEPT ![call.id] = after]
        /\ call'.todo = <<y>>
    BY <1>2 DEF LogResult
  <2>2. r \in Results
    BY <1>2, ResultOfCall DEF LogResult
  <2> HIDE DEF r, raised
  <2>3. /\ driver[call.id] \in Drivers /\ call.id \in Ids /\ Loaded(call.id)
        /\ driver \in [Ids -> Drivers \cup {NoDriver}]
    BY <2>1, UnwrittenType DEF TypeInv, TypeOK
  <2>4. after \in Drivers /\ after.program = driver[call.id].program
    BY <2>2, <2>3, SendType, ProgramKept
  <2> HIDE DEF after
  <2>5. y \in YieldEvents
    BY <2>4 DEF YieldEvent, YieldEvents, Drivers
  <2> HIDE DEF y
  <2>6. call'.todo \in Seq(Text(p))
    <3>1. y \in Text(p)
      BY <2>5, OthersAreText
    <3> QED BY <2>1, <3>1
  <2>7. Loaded(id)' => Loaded(id) /\ driver'[id].program = p
    BY <2>1, <2>3, <2>4 DEF Loaded, RunsOne
  <2> QED BY <2>1, <2>6, <2>7, AppendedRunsOne
<1>3. CASE LogYield
  <2>1. /\ Executing /\ AppendEvent /\ UNCHANGED <<used, driver>> /\ call' = Idle
    BY <1>3 DEF LogYield
  <2>2. Loaded(id)' => Loaded(id) /\ driver'[id].program = p
    BY <2>1 DEF Loaded, RunsOne
  <2> QED BY <2>1, <2>2, AppendedRunsOne
<1>4. CASE DumpFails
  <2>1. call' = Idle /\ UNCHANGED <<disk, used, driver, log>>
    BY <1>4 DEF DumpFails, shared
  <2> QED BY <2>1 DEF RunsOne, Loaded
<1>5. CASE AppendFails
  <2>1. Executing /\ call' = Idle /\ UNCHANGED <<used, driver>>
    BY <1>5 DEF AppendFails
  <2>2. PICK stop \in Stops(disk[call.id], Unwritten, log[call.id].begun) :
          /\ disk' = [disk EXCEPT ![call.id] = stop.file]
          /\ log' = [log EXCEPT ![call.id] = stop.log]
    BY <1>5 DEF AppendFails
  <2>3. call.id \in Ids /\ disk \in [Ids -> Files] /\ log \in [Ids -> Handles]
    BY <2>1, UnwrittenType DEF TypeInv, TypeOK
  <2>4. CASE id = call.id
    <3>1. /\ stop.file \in FilesOf(Text(p)) /\ stop.log \in HandlesOf(Text(p))
          /\ stop.file.present = disk[id].present
      BY <2>1, <2>4, AppendRunsOne
    <3>2. disk'[id] = stop.file /\ log'[id] = stop.log
      BY <2>2, <2>3, <2>4
    <3> QED BY <2>1, <3>1, <3>2 DEF RunsOne, Loaded
  <2>5. CASE id # call.id
    <3>1. disk'[id] = disk[id] /\ log'[id] = log[id]
      BY <2>2, <2>3, <2>5
    <3> QED BY <2>1, <3>1 DEF RunsOne, Loaded
  <2> QED BY <2>4, <2>5
<1>6. QED BY <1>1, <1>2, <1>3, <1>4, <1>5

\* The end of the process keeps it, wherever it comes, and so does the start of
\* the next (__main__.py:49-69).
LEMMA ProcessRunsOne ==
  ASSUME TypeInv,
         \/ \E orderly \in BOOLEAN : Exit(orderly)
         \/ ExitInAppend
         \/ \E pruned \in SUBSET Ids : ServerStart(pruned),
         NEW id \in Ids, NEW p, RunsOne(id, p)
  PROVE  RunsOne(id, p)'
<1>1. CASE \E orderly \in BOOLEAN : Exit(orderly)
  <2>1. /\ driver'[id] = NoDriver /\ log'[id] = NoLog
        /\ disk' \in {Closed(Ids), disk} /\ call' = Idle /\ used' = used
    BY <1>1 DEF Exit, Leave
  <2>2. disk'[id] \in {disk[id], Closed(Ids)[id]} /\ Ids \in SUBSET Ids
    BY <2>1
  <2> QED BY <2>1, <2>2, AtOnceRunsOne
<1>2. CASE ExitInAppend
  <2>1. /\ driver'[id] = NoDriver /\ log'[id] = NoLog
        /\ call' = Idle /\ used' = used /\ Executing
    BY <1>2 DEF ExitInAppend, Leave
  <2>2. PICK stop \in Stops(disk[call.id], Unwritten, log[call.id].begun) :
          disk' = [disk EXCEPT ![call.id] = stop.file]
    BY <1>2 DEF ExitInAppend
  <2>3. call.id \in Ids /\ disk \in [Ids -> Files]
    BY <2>1, UnwrittenType DEF TypeInv, TypeOK
  <2>4. disk'[id] \in FilesOf(Text(p)) /\ disk'[id].present = disk[id].present
    <3>1. CASE id = call.id
      BY <2>1, <2>2, <2>3, <3>1, AppendRunsOne
    <3>2. CASE id # call.id
      BY <2>2, <2>3, <3>2 DEF RunsOne
    <3> QED BY <3>1, <3>2
  <2>5. NoLog \in HandlesOf(Text(p))
    BY NothingIsText
  <2> QED BY <2>1, <2>4, <2>5 DEF RunsOne, Loaded
<1>3. CASE \E pruned \in SUBSET Ids : ServerStart(pruned)
  <2>1. /\ UNCHANGED <<used, driver, log, call>>
        /\ disk'[id] \in {disk[id], NoFile}
    BY <1>3 DEF ServerStart
  <2>2. {} \in SUBSET Ids
    OBVIOUS
  <2> QED BY <2>1, <2>2, AtOnceRunsOne
<1>4. QED BY <1>1, <1>2, <1>3

\* In the empty state directory nothing is of any program.
LEMMA InitProgramInv == Init => ProgramInv
<1> SUFFICES ASSUME Init PROVE ProgramInv
  OBVIOUS
<1>1. ASSUME NEW id \in Ids
      PROVE  RunsOne(id, NoProgram)
  <2>1. /\ disk[id] = NoFile /\ log[id] = NoLog /\ ~ Loaded(id)
        /\ call = Idle /\ NoFile.present = FALSE
    BY DEF Init, Loaded, NoFile
  <2>2. NoFile \in FilesOf(Text(NoProgram)) /\ NoLog \in HandlesOf(Text(NoProgram))
    BY NothingIsText
  <2> QED BY <2>1, <2>2 DEF RunsOne
<1>2. QED BY <1>1, InitTypeInv DEF ProgramInv, OneProgram

\* Every step keeps each instance's program.
LEMMA NextProgramInv ==
  ASSUME ProgramInv, [Next]_vars
  PROVE  ProgramInv'
<1>1. TypeInv /\ TypeInv'
  BY NextTypeInv DEF ProgramInv
<1>2. CASE StartCall
  BY <1>1, <1>2, StartRunsOne DEF ProgramInv
<1>3. ASSUME ~ StartCall, NEW id \in Ids, NEW p, RunsOne(id, p)
      PROVE  RunsOne(id, p)'
  <2>1. CASE ResumeCall
    BY <1>1, <1>3, <2>1, ResumeRunsOne
  <2>2. CASE NextCall \/ CurrentCall \/ CloseCall \/ OtherCall \/ CloseCallFails
    BY <1>1, <1>3, <2>2, HandlersRunOne
  <2>3. CASE LogHeader \/ LogResult \/ LogYield \/ DumpFails \/ AppendFails
    BY <1>1, <1>3, <2>3, AppendsRunOne
  <2>4. CASE \/ \E orderly \in BOOLEAN : Exit(orderly)
             \/ ExitInAppend
             \/ \E pruned \in SUBSET Ids : ServerStart(pruned)
    BY <1>1, <1>3, <2>4, ProcessRunsOne
  <2>5. CASE UNCHANGED <<disk, used, driver, log, call>>
    BY <1>3, <2>5 DEF RunsOne, Loaded
  <2>6. CASE \E name \in Names, q \in Programs \cup {NoProgram} : EditSource(name, q)
    BY <2>5, <2>6 DEF EditSource, local
  <2>7. CASE UNCHANGED vars
    BY <2>5, <2>7 DEF vars, shared, local
  <2> QED BY <1>3, <2>1, <2>2, <2>3, <2>4, <2>6, <2>7 DEF Next, ServerNext
<1>4. CASE ~ StartCall
  BY <1>1, <1>3, <1>4 DEF ProgramInv, OneProgram
<1>5. QED BY <1>2, <1>4

\* The invariant holds at all times.
LEMMA ProgramInvariance == Spec => []ProgramInv
<1>1. ProgramInv /\ [Next]_vars => ProgramInv'
  BY NextProgramInv
<1>2. QED BY InitProgramInv, <1>1, PTL DEF Spec

\* A loaded instance runs the program of its log's header, whatever edits,
\* rescans and failures there have been (tools.py:366-373, registry.py:71-74).
THEOREM ProgramsStay == Spec => []SameProgram
<1>1. ASSUME ProgramInv
      PROVE  SameProgram
  <2> SUFFICES ASSUME NEW id \in Ids, Loaded(id), HasHeader(AllLines(disk[id]))
               PROVE  driver[id].program = HeaderOf(AllLines(disk[id])).program
    BY DEF SameProgram
  <2>1. PICK p \in Programs \cup {NoProgram} : RunsOne(id, p)
    BY <1>1 DEF ProgramInv, OneProgram
  <2>2. AllLines(disk[id]) \in Seq(Text(p))
    BY <2>1, AllLinesText DEF RunsOne
  <2>3. HeaderOf(AllLines(disk[id])).program = p
    BY <2>2, HeaderOfText
  <2> QED BY <2>1, <2>3 DEF RunsOne
<1>2. QED BY ProgramInvariance, <1>1, PTL

\* While it stays in memory an unfinished instance goes forward, one step at a
\* time, also when appends fail or send raises (runtime.py:216-229,
\* tools.py:279-302).
THEOREM MemoryNeverRewinds == Spec => LoadedNeverRewinds
<1> DEFINE Forward(id) ==
             Loaded(id) /\ ~ IsTerminal(driver[id]) /\ driver'[id] # NoDriver =>
               /\ NotBehind(driver'[id], driver[id])
               /\ driver'[id].step_no <= driver[id].step_no + 1
<1>1. ASSUME ProgramInv, [Next]_vars
      PROVE  \A id \in Ids : Forward(id)
  <2>1. TypeInv /\ driver \in [Ids -> Drivers \cup {NoDriver}]
    BY <1>1 DEF ProgramInv, TypeInv, TypeOK
  <2>2. ASSUME NEW id \in Ids, driver'[id] \in {driver[id], NoDriver}
        PROVE  Forward(id)
    <3>1. Loaded(id) => driver[id].step_no \in Nat
      BY <2>1 DEF Loaded, Drivers
    <3> QED BY <2>2, <3>1 DEF NotBehind
  <2>3. CASE StartCall
    <3>1. PICK E \in SUBSET Sweepable, rescan \in BOOLEAN,
               name \in Names, a \in Params, new \in Ids :
            SequencerStart(E, rescan, name, a, new)
      BY <2>3 DEF StartCall
    <3>2. ~ Loaded(new)
      BY <1>1, <3>1 DEF SequencerStart, ProgramInv, OneProgram, RunsOne
    <3>3. \A i \in Ids \ {new} : driver'[i] \in {driver[i], NoDriver}
      BY <3>1 DEF SequencerStart, Kept
    <3> QED BY <2>2, <3>2, <3>3
  <2>4. CASE ResumeCall
    <3>1. PICK E \in SUBSET Sweepable, rescan \in BOOLEAN, old \in Ids :
            SequencerResume(E, rescan, old)
      BY <2>4 DEF ResumeCall
    <3>2. ~ Loaded(old) \/ IsTerminal(driver[old])
      BY <3>1 DEF SequencerResume, Kept, Sweepable, Loaded
    <3>3. \A i \in Ids \ {old} : driver'[i] \in {driver[i], NoDriver}
      BY <3>1 DEF SequencerResume, Kept
    <3> QED BY <2>2, <3>2, <3>3
  <2>5. CASE LogResult
    <3> DEFINE id == call.id
               d  == driver[id]
               r  == Head(call.todo).result
               e  == IF SendRaises(d, r) THEN d ELSE Send(d, r)
    <3>1. /\ id \in Ids /\ d \in Drivers /\ r \in Results
          /\ driver' = [driver EXCEPT ![id] = e]
      BY <2>1, <2>5, UnwrittenType, ResultOfCall DEF LogResult
    <3>2. driver'[id] = e /\ \A i \in Ids \ {id} : driver'[i] = driver[i]
      BY <2>1, <3>1
    <3> HIDE DEF r
    <3>3. \/ e = d
          \/ e.step_no = d.step_no /\ IsTerminal(e)
          \/ e.step_no = d.step_no + 1
      BY <3>1, SendSteps
    <3>4. d.step_no \in Nat
      BY <3>1 DEF Drivers
    <3> HIDE DEF d, e
    <3>5. ~ IsTerminal(d) => NotBehind(e, d) /\ e.step_no <= d.step_no + 1
      BY <3>3, <3>4 DEF NotBehind
    <3>6. Forward(id)
      BY <3>2, <3>5 DEF d
    <3> QED BY <2>2, <3>2, <3>6
  <2>6. CASE NextCall \/ CurrentCall \/ CloseCall \/ OtherCall \/ CloseCallFails
    BY <2>2, <2>6 DEF NextCall, SequencerNext, CurrentCall, SequencerCurrent,
       CloseCall, SequencerClose, OtherCall, Answer, CloseCallFails, CloseFails, Kept
  <2>7. CASE LogHeader \/ LogYield \/ DumpFails \/ AppendFails
    BY <2>2, <2>7 DEF LogHeader, LogYield, DumpFails, AppendFails
  <2>8. CASE (\E orderly \in BOOLEAN : Exit(orderly)) \/ ExitInAppend
    BY <2>2, <2>8 DEF Exit, ExitInAppend, Leave
  <2>9. CASE \E pruned \in SUBSET Ids : ServerStart(pruned)
    BY <2>2, <2>9 DEF ServerStart
  <2>10. CASE \E name \in Names, p \in Programs \cup {NoProgram} : EditSource(name, p)
    BY <2>2, <2>10 DEF EditSource, local
  <2>11. CASE UNCHANGED vars
    BY <2>2, <2>11 DEF vars, local
  <2> QED
    BY <1>1, <2>3, <2>4, <2>5, <2>6, <2>7, <2>8, <2>9, <2>10, <2>11
       DEF Next, ServerNext
<1>2. QED BY ProgramInvariance, <1>1, PTL DEF Spec, LoadedNeverRewinds

-----------------------------------------------------------------------------
(* Recovery.  A server whose appends do not fail can always be recovered    *)
(* from its logs.                                                           *)

\* No append fails and no crash tears a line (FailedAppend and TornGlue show
\* what happens otherwise).
NothingFails == Faults = {}

\* jsonschema judges every result (SendRaises shows what happens otherwise).
ResultsJudged ==
  \A g \in GenStates, r \in Results : Yields[g].verdict[r] # "raises"

\* What a program does to its params before its first yield makes no
\* difference when it is started anew (ParamsTaken shows a program for which
\* it does).
ParamsSpared ==
  \A p \in Programs, a \in Params : Start(p, ParamsLeft[<<p, a>>]) = Start(p, a)

-----------------------------------------------------------------------------
(* The inductive invariant.                                                  *)

\* The lines of a log that has been begun.
IsLog(ls) == ls \in Seq(Events) /\ ls # <<>> /\ ls[1] \in HeaderEvents

\* A log is written line by line: nothing is left in a buffer, no line is cut
\* short, the first line is the header, and the log can be replayed.
WholeLines ==
  \A id \in Ids :
    /\ disk[id].tail = Clean
    /\ log[id].buf = <<>> /\ log[id].begun = FALSE
    /\ disk[id].lines # <<>> =>
         /\ disk[id].present
         /\ IsLog(disk[id].lines)
         /\ RestoredFrom(disk[id].lines) # NoDriver

\* An id that was not drawn has left no trace; a loaded instance has a file.
Drawn ==
  \A id \in Ids :
    /\ Loaded(id) => disk[id].present /\ id \in used
    /\ id \notin used => disk[id] = NoFile /\ told[id] = NoDriver

\* Memory is what the log replays to, except before the header is written.
InMemory ==
  \A id \in Ids :
    Loaded(id) /\ ~ Unborn(id) =>
      /\ disk[id].lines # <<>>
      /\ RestoredFrom(disk[id].lines) = driver[id]

\* What the agent was told is what some beginning of the log replays to.
InLog ==
  \A id \in Ids :
    told[id] # NoDriver =>
      \E n \in 1..Len(disk[id].lines) :
        RestoredFrom(SubSeq(disk[id].lines, 1, n)) = told[id]

\* What the call has still to append continues the log: the events that make
\* the log of a new instance, or the yield of the driver, or a result for the
\* step that the driver awaits.
Continues ==
  call # Idle =>
    LET id == call.id
    IN  \/ /\ disk[id].lines = <<>>
           /\ \E p \in Programs, a \in Params :
                /\ call.todo = <<HeaderEvent(p, ParamsLeft[<<p, a>>]),
                                 YieldEvent(driver[id])>>
                /\ driver[id] = Start(p, a)
        \/ /\ disk[id].lines # <<>>
           /\ call.todo = <<YieldEvent(driver[id])>>
        \/ /\ disk[id].lines # <<>>
           /\ ~ IsTerminal(driver[id])
           /\ \E r \in Results :
                call.todo = <<ResultEvent(driver[id].step_no, r)>>

\* A server that is down holds nothing.
DownIsEmpty == ~ up => call = Idle /\ \A id \in Ids : ~ Loaded(id)

RecoveryInv ==
  /\ TypeInv
  /\ WholeLines
  /\ Drawn
  /\ InMemory
  /\ InLog
  /\ Continues
  /\ DownIsEmpty

-----------------------------------------------------------------------------
(* Logs of events.                                                           *)

\* An event is neither of the lines that cannot be read.
LEMMA EventIsText ==
  \A e \in Events : e # Garbled /\ e # Undecodable /\ e \in Lines
BY DEF Events, HeaderEvents, YieldEvents, ResultEvents, Garbled, Undecodable, Lines

\* A log is readable from its header on.
LEMMA LogFacts ==
  ASSUME NEW ls, IsLog(ls)
  PROVE  /\ Decodes(ls) /\ HasHeader(ls) /\ HeaderOf(ls) = ls[1]
         /\ ls \in Seq(Lines)
         /\ RestoredFrom(ls) = Replay(Start(ls[1].program, ls[1].params), ls)
         /\ Start(ls[1].program, ls[1].params) \in MaybeDrivers
<1>1. /\ ls \in Seq(Events) /\ Len(ls) \in Nat /\ Len(ls) >= 1
      /\ \A i \in 1..Len(ls) : ls[i] \in Events
      /\ DOMAIN ls = 1..Len(ls)
  BY DEF IsLog
<1>2. Decodes(ls)
  BY <1>1, EventIsText DEF Decodes
<1>3. IsFirstEvent(ls, 1) /\ 1 \in DOMAIN ls
  BY <1>1, EventIsText DEF IsFirstEvent
<1>4. HasHeader(ls)
  BY <1>3, EventKinds DEF HasHeader, IsLog
<1>5. HeaderOf(ls) = ls[1]
  <2>1. ASSUME NEW i \in DOMAIN ls, IsFirstEvent(ls, i)
        PROVE  i = 1
    <3>1. CASE i > 1
      <4>1. ls[1] = Garbled
        BY <1>1, <2>1, <3>1 DEF IsFirstEvent
      <4> QED BY <1>1, <4>1, EventIsText
    <3> QED BY <1>1, <3>1
  <2>2. (CHOOSE i \in DOMAIN ls : IsFirstEvent(ls, i)) = 1
    BY <1>3, <2>1
  <2> QED BY <2>2 DEF HeaderOf
<1>6. ls \in Seq(Lines)
  BY <1>1, EventIsText
<1>7. RestoredFrom(ls) = Replay(Start(ls[1].program, ls[1].params), ls)
  BY <1>2, <1>4, <1>5 DEF RestoredFrom, RestoredWith
<1>8. Start(ls[1].program, ls[1].params) \in MaybeDrivers
  BY StartType DEF IsLog, HeaderEvents, MaybeDrivers
<1>9. QED BY <1>2, <1>4, <1>5, <1>6, <1>7, <1>8

\* An event appended to a log is one more turn of its replay.
LEMMA RestoredAppend ==
  ASSUME NEW ls, IsLog(ls), NEW e \in Events
  PROVE  /\ IsLog(Append(ls, e))
         /\ RestoredFrom(Append(ls, e)) = Feed(e)[RestoredFrom(ls)]
<1> DEFINE ks == Append(ls, e)
<1>1. /\ ks \in Seq(Events) /\ ks # <<>> /\ ks[1] = ls[1]
  <2>1. ls \in Seq(Events) /\ Len(ls) \in Nat /\ Len(ls) >= 1
    BY DEF IsLog
  <2> QED BY <2>1, AppendProperties
<1> HIDE DEF ks
<1>2. IsLog(ks)
  BY <1>1 DEF IsLog
<1>3. Replay(Start(ls[1].program, ls[1].params), ks)
        = Feed(e)[Replay(Start(ls[1].program, ls[1].params), ls)]
  BY ReplayAppend DEF IsLog, ks
<1>4. QED BY <1>1, <1>2, <1>3, LogFacts DEF ks

\* Headers and yields do not move the driver.
LEMMA FeedOther ==
  ASSUME NEW e \in HeaderEvents \cup YieldEvents, NEW d \in MaybeDrivers
  PROVE  Feed(e)[d] = d
<1>1. e.type # "result"
  BY EventKinds
<1>2. QED BY <1>1 DEF Feed, MaybeDrivers

\* A log that is only a header replays to the start of the program.
LEMMA RestoredHeader ==
  ASSUME NEW h \in HeaderEvents
  PROVE  IsLog(<<h>>) /\ RestoredFrom(<<h>>) = Start(h.program, h.params)
<1> DEFINE d == Start(h.program, h.params)
<1>1. IsLog(<<h>>)
  BY EventKinds DEF IsLog
<1>2. d \in MaybeDrivers
  BY StartType DEF HeaderEvents, MaybeDrivers
<1>3. RestoredFrom(<<h>>) = Replay(d, <<h>>)
  BY <1>1, LogFacts
<1> HIDE DEF d
<1>4. Replay(d, <<h>>) = Feed(h)[Replay(d, <<>>)]
  <2>1. <<>> \in Seq({h}) /\ Append(<<>>, h) = <<h>>
    OBVIOUS
  <2> QED BY <2>1, ReplayAppend
<1>5. Replay(d, <<>>) = d /\ Feed(h)[d] = d
  BY <1>2, ReplayEmpty, FeedOther
<1>6. QED BY <1>1, <1>3, <1>4, <1>5 DEF d

\* If every result can be judged, send never raises.
LEMMA SendJudges ==
  ASSUME ResultsJudged, NEW d \in Drivers, NEW r \in Results
  PROVE  ~ SendRaises(d, r)
BY DEF ResultsJudged, SendRaises, Verdict, Drivers

\* Replaying a result does what sequencer_next did with it.
LEMMA FeedResult ==
  ASSUME ResultsJudged, NEW d \in Drivers, ~ IsTerminal(d),
         NEW r \in Results, NEW n
  PROVE  Feed(ResultEvent(n, r))[d] = Send(d, r) /\ Send(d, r) \in Drivers
<1>1. ~ SendRaises(d, r)
  BY SendJudges
<1>2. ResultEvent(n, r).type = "result" /\ ResultEvent(n, r).result = r
  BY DEF ResultEvent
<1>3. d # NoDriver /\ Send(d, r) \in Drivers
  BY NoDriverAssumption, SendType
<1>4. QED BY <1>1, <1>2, <1>3 DEF Feed

\* A beginning of a log is a beginning of the longer log.
LEMMA Beginnings ==
  ASSUME NEW ls \in Seq(Events), NEW e \in Events
  PROVE  /\ SubSeq(ls, 1, Len(ls)) = ls
         /\ \A n \in 1..Len(ls) : SubSeq(Append(ls, e), 1, n) = SubSeq(ls, 1, n)
<1>1. SubSeq(ls, 1, Len(ls)) = ls
  OBVIOUS
<1>2. ASSUME NEW n \in 1..Len(ls)
      PROVE  SubSeq(Append(ls, e), 1, n) = SubSeq(ls, 1, n)
  OBVIOUS
<1>3. QED BY <1>1, <1>2

-----------------------------------------------------------------------------
(* Steps between appends.                                                    *)

\* With nothing in the buffers, closing logs changes no file.
LEMMA ClosedSame ==
  ASSUME RecoveryInv, NEW E
  PROVE  Closed(E) = disk
<1>1. disk \in [Ids -> Files]
  BY DEF RecoveryInv, TypeInv, TypeOK
<1>2. \A id \in Ids : WriteLines(disk[id], log[id].buf, log[id].begun) = disk[id]
  BY DEF RecoveryInv, WholeLines, WriteLines
<1>3. QED BY <1>1, <1>2 DEF Closed

\* A step after which no call is running and id is as it was, or is gone, or
\* is what its log replays to, and the agent is told that or nothing.
SettledAt(id) ==
  /\ \/ disk'[id] = disk[id] /\ told'[id] \in {told[id], driver'[id]}
     \/ disk'[id] = NoFile /\ told'[id] = NoDriver /\ driver'[id] = NoDriver
  /\ log'[id] \in {log[id], NoLog, OpenLog}
  /\ \/ driver'[id] = NoDriver
     \/ call = Idle /\ driver'[id] = driver[id]
     \/ disk[id].lines # <<>> /\ driver'[id] = RestoredFrom(disk[id].lines)

\* Such a step keeps the invariant.
LEMMA Settled ==
  ASSUME RecoveryInv, TypeInv', call' = Idle, used' = used,
         \A id \in Ids : SettledAt(id),
         up' = FALSE => \A id \in Ids : driver'[id] = NoDriver
  PROVE  RecoveryInv'
<1>1. WholeLines'
  <2> SUFFICES ASSUME NEW id \in Ids
               PROVE  /\ disk'[id].tail = Clean
                      /\ log'[id].buf = <<>> /\ log'[id].begun = FALSE
                      /\ disk'[id].lines # <<>> =>
                           /\ disk'[id].present
                           /\ IsLog(disk'[id].lines)
                           /\ RestoredFrom(disk'[id].lines) # NoDriver
    BY DEF WholeLines
  <2>1. disk'[id] \in {disk[id], NoFile} /\ log'[id] \in {log[id], NoLog, OpenLog}
    BY DEF SettledAt
  <2>2. NoFile.tail = Clean /\ NoFile.lines = <<>>
    BY DEF NoFile
  <2>3. /\ NoLog.buf = <<>> /\ NoLog.begun = FALSE
        /\ OpenLog.buf = <<>> /\ OpenLog.begun = FALSE
    BY DEF NoLog, OpenLog
  <2> QED BY <2>1, <2>2, <2>3 DEF RecoveryInv, WholeLines
<1>2. Drawn'
  <2> SUFFICES ASSUME NEW id \in Ids
               PROVE  /\ driver'[id] # NoDriver => disk'[id].present /\ id \in used'
                      /\ id \notin used' => disk'[id] = NoFile /\ told'[id] = NoDriver
    BY DEF Drawn, Loaded
  <2>1. CASE driver'[id] = NoDriver
    BY <2>1 DEF SettledAt, RecoveryInv, Drawn
  <2>2. CASE driver'[id] # NoDriver /\ driver'[id] = driver[id]
    BY <2>2 DEF SettledAt, RecoveryInv, Drawn, Loaded
  <2>3. CASE driver'[id] # NoDriver /\ disk[id].lines # <<>>
    <3>1. disk'[id] = disk[id]
      BY <2>3 DEF SettledAt
    <3>2. disk[id].present
      BY <2>3 DEF RecoveryInv, WholeLines
    <3>3. id \in used
      BY <2>3 DEF RecoveryInv, Drawn, NoFile
    <3> QED BY <3>1, <3>2, <3>3
  <2> QED BY <2>1, <2>2, <2>3 DEF SettledAt
<1>3. InMemory'
  <2> SUFFICES ASSUME NEW id \in Ids, driver'[id] # NoDriver
               PROVE  /\ disk'[id].lines # <<>>
                      /\ RestoredFrom(disk'[id].lines) = driver'[id]
    BY DEF InMemory, Loaded
  <2>1. disk'[id] = disk[id]
    BY DEF SettledAt
  <2>2. CASE call = Idle /\ driver'[id] = driver[id]
    BY <2>1, <2>2 DEF RecoveryInv, InMemory, Loaded, Unborn
  <2>3. CASE disk[id].lines # <<>> /\ driver'[id] = RestoredFrom(disk[id].lines)
    BY <2>1, <2>3
  <2> QED BY <2>2, <2>3 DEF SettledAt
<1>4. InLog'
  <2> SUFFICES ASSUME NEW id \in Ids, told'[id] # NoDriver
               PROVE  \E n \in 1..Len(disk'[id].lines) :
                        RestoredFrom(SubSeq(disk'[id].lines, 1, n)) = told'[id]
    BY DEF InLog
  <2>1. disk'[id] = disk[id]
    BY DEF SettledAt
  <2>2. CASE told'[id] = told[id]
    BY <2>1, <2>2 DEF RecoveryInv, InLog
  <2>3. CASE told'[id] = driver'[id]
    <3>1. /\ disk'[id].lines # <<>>
          /\ RestoredFrom(disk'[id].lines) = driver'[id]
      BY <1>3, <2>3 DEF InMemory, Loaded, Unborn
    <3>2. IsLog(disk'[id].lines)
      BY <1>1, <3>1 DEF WholeLines
    <3>3. SubSeq(disk'[id].lines, 1, Len(disk'[id].lines)) = disk'[id].lines
      BY <3>2 DEF IsLog
    <3>4. Len(disk'[id].lines) \in 1..Len(disk'[id].lines)
      BY <3>1, <3>2 DEF IsLog
    <3> QED BY <2>3, <3>1, <3>3, <3>4
  <2> QED BY <2>1, <2>2, <2>3 DEF SettledAt
<1>5. Continues' /\ DownIsEmpty'
  BY DEF Continues, DownIsEmpty, Loaded, RecoveryInv, TypeInv, TypeOK
<1>6. QED BY <1>1, <1>2, <1>3, <1>4, <1>5 DEF RecoveryInv

\* A handler that removes the instances of E and answers at once.
LEMMA SweptSettled ==
  ASSUME RecoveryInv, call = Idle, NEW E, NEW id \in Ids,
         disk'[id] = disk[id], told'[id] = told[id],
         driver'[id] = Kept(E)[id], log'[id] = KeptLogs(E)[id]
  PROVE  SettledAt(id)
BY DEF SettledAt, Kept, KeptLogs

\* The appends can only succeed.
LEMMA NothingFailed ==
  ASSUME NothingFails
  PROVE  ~ AppendFails /\ ~ CloseCallFails /\ ~ ExitInAppend
BY DEF NothingFails, AppendFails, CloseCallFails, CloseFails, ExitInAppend

\* A call that only sweeps changes no log (tools.py:132-151).
LEMMA OtherRecovery ==
  ASSUME RecoveryInv, TypeInv', OtherCall
  PROVE  RecoveryInv'
<1>1. PICK E \in SUBSET Sweepable, rescan \in BOOLEAN : Answer(E, rescan)
  BY DEF OtherCall
<1>2. /\ up /\ call = Idle
      /\ driver' = Kept(E) /\ log' = KeptLogs(E) /\ disk' = Closed(E)
      /\ UNCHANGED <<source, used, told, up, call>>
  BY <1>1 DEF Answer, Enter
<1>3. \A id \in Ids : SettledAt(id)
  BY <1>2, ClosedSame, SweptSettled
<1>4. QED BY <1>2, <1>3, Settled

\* sequencer_current reports what is in memory (tools.py:238-252).
LEMMA CurrentRecovery ==
  ASSUME RecoveryInv, TypeInv', CurrentCall
  PROVE  RecoveryInv'
<1>1. PICK E \in SUBSET Sweepable, id \in Ids : SequencerCurrent(E, id)
  BY DEF CurrentCall
<1>2. /\ up /\ call = Idle /\ id \notin E
      /\ driver' = Kept(E) /\ log' = KeptLogs(E) /\ disk' = Closed(E)
      /\ told' = [told EXCEPT ![id] = driver[id]]
      /\ UNCHANGED <<source, used, up, call>>
  BY <1>1 DEF SequencerCurrent, Enter
<1>3. disk' = disk /\ told \in [Ids -> Drivers \cup {NoDriver}]
  BY <1>2, ClosedSame DEF RecoveryInv, TypeInv, TypeOK
<1>4. ASSUME NEW i \in Ids
      PROVE  SettledAt(i)
  <2>1. CASE i = id
    <3>1. driver'[i] = driver[i] /\ told'[i] = driver[i]
      BY <1>2, <1>3, <2>1 DEF Kept
    <3>2. log'[i] = log[i]
      BY <1>2, <2>1 DEF KeptLogs
    <3> QED BY <1>2, <1>3, <3>1, <3>2 DEF SettledAt
  <2>2. CASE i # id
    BY <1>2, <1>3, <2>2, SweptSettled
  <2> QED BY <2>1, <2>2
<1>5. QED BY <1>2, <1>4, Settled

\* sequencer_resume loads what the log replays to (tools.py:348-408).
LEMMA ResumeRecovery ==
  ASSUME RecoveryInv, TypeInv', ResumeCall
  PROVE  RecoveryInv'
<1>1. PICK E \in SUBSET Sweepable, rescan \in BOOLEAN, id \in Ids :
        SequencerResume(E, rescan, id)
  BY DEF ResumeCall
<1> DEFINE ls     == AllLines(Closed(E)[id])
           header == HeaderOf(ls)
           p      == Rescanned(rescan)[NameOf[header.program]]
           d      == RestoredWith(p, ls)
<1>2. /\ up /\ call = Idle /\ Readable(Closed(E)[id]) /\ SameHash(p, header)
      /\ driver' = [Kept(E) EXCEPT ![id] = d]
      /\ log' = [KeptLogs(E) EXCEPT ![id] = IF IsTerminal(d) THEN NoLog ELSE OpenLog]
      /\ disk' = Closed(E)
      /\ told' = [told EXCEPT ![id] = d]
      /\ UNCHANGED <<source, used, up, call>>
  BY <1>1 DEF SequencerResume, Enter
<1>3. disk' = disk /\ told \in [Ids -> Drivers \cup {NoDriver}]
  BY <1>2, ClosedSame DEF RecoveryInv, TypeInv, TypeOK
<1>4. ls = disk[id].lines
  BY ClosedSame DEF RecoveryInv, WholeLines, AllLines
<1>5. d = RestoredFrom(disk[id].lines)
  <2>1. d = RestoredFrom(ls)
    BY <1>2 DEF SameHash, RestoredFrom
  <2> QED BY <1>4, <2>1
<1>6. disk[id].lines # <<>>
  <2>1. HasHeader(ls)
    BY <1>2 DEF Readable
  <2>2. DOMAIN <<>> = {}
    OBVIOUS
  <2> HIDE DEF ls
  <2> QED BY <1>4, <2>1, <2>2 DEF HasHeader
<1> HIDE DEF ls, header, p, d
<1>7. ASSUME NEW i \in Ids
      PROVE  SettledAt(i)
  <2>1. CASE i = id
    <3>1. driver'[i] = d /\ told'[i] = d /\ log'[i] \in {NoLog, OpenLog}
      BY <1>2, <1>3, <2>1 DEF Kept, KeptLogs
    <3> QED BY <1>3, <1>5, <1>6, <2>1, <3>1 DEF SettledAt
  <2>2. CASE i # id
    <3>1. driver'[i] = Kept(E)[i] /\ told'[i] = told[i] /\ log'[i] = KeptLogs(E)[i]
      BY <1>2, <2>2 DEF Kept, KeptLogs
    <3> QED BY <1>2, <1>3, <3>1, SweptSettled
  <2> QED BY <2>1, <2>2
<1>8. QED BY <1>2, <1>7, Settled

\* sequencer_close drops the instance, and its log on request (tools.py:437-456).
LEMMA CloseRecovery ==
  ASSUME RecoveryInv, TypeInv', CloseCall
  PROVE  RecoveryInv'
<1>1. PICK E \in SUBSET Sweepable, id \in Ids, delete_log \in BOOLEAN :
        SequencerClose(E, id, delete_log)
  BY DEF CloseCall
<1> DEFINE gone == E \cup {id}
<1>2. /\ up /\ call = Idle
      /\ driver' = Kept(gone) /\ log' = KeptLogs(gone)
      /\ disk' = IF delete_log THEN [disk EXCEPT ![id] = NoFile] ELSE disk
      /\ told' = IF delete_log THEN [told EXCEPT ![id] = NoDriver] ELSE told
      /\ UNCHANGED <<source, used, up, call>>
  BY <1>1, ClosedSame DEF SequencerClose, Enter
<1>3. /\ disk \in [Ids -> Files] /\ told \in [Ids -> Drivers \cup {NoDriver}]
      /\ driver'[id] = NoDriver /\ log'[id] = NoLog
  BY <1>2 DEF RecoveryInv, TypeInv, TypeOK, Kept, KeptLogs
<1> HIDE DEF gone
<1>4. ASSUME NEW i \in Ids
      PROVE  SettledAt(i)
  <2>1. CASE delete_log /\ i = id
    BY <1>2, <1>3, <2>1 DEF SettledAt
  <2>2. CASE ~ (delete_log /\ i = id)
    <3>1. disk'[i] = disk[i] /\ told'[i] = told[i]
      BY <1>2, <1>3, <2>2
    <3> QED BY <1>2, <3>1, SweptSettled
  <2> QED BY <2>1, <2>2
<1>5. QED BY <1>2, <1>4, Settled

\* The process may end at any point of a call (__main__.py:69).
LEMMA ExitRecovery ==
  ASSUME RecoveryInv, TypeInv', NEW orderly \in BOOLEAN, Exit(orderly)
  PROVE  RecoveryInv'
<1>1. Leave /\ disk' = disk
  BY ClosedSame DEF Exit
<1>2. \A id \in Ids : SettledAt(id)
  BY <1>1 DEF SettledAt, Leave
<1>3. QED BY <1>1, <1>2, Settled DEF Leave

\* A server starts with nothing loaded and may prune logs (__main__.py:49-69).
LEMMA ServerStartRecovery ==
  ASSUME RecoveryInv, TypeInv', NEW pruned \in SUBSET Ids, ServerStart(pruned)
  PROVE  RecoveryInv'
<1>1. call = Idle /\ \A id \in Ids : driver[id] = NoDriver
  BY DEF ServerStart, RecoveryInv, DownIsEmpty, Loaded
<1>2. \A id \in Ids : SettledAt(id)
  BY <1>1 DEF SettledAt, ServerStart
<1>3. QED BY <1>1, <1>2, Settled DEF ServerStart

-----------------------------------------------------------------------------
(* The start of a call.                                                      *)

\* sequencer_start has a log to begin (tools.py:203-231).
LEMMA StartRecovery ==
  ASSUME RecoveryInv, TypeInv', StartCall
  PROVE  RecoveryInv'
<1>1. PICK E \in SUBSET Sweepable, rescan \in BOOLEAN,
           name \in Names, a \in Params, id \in Ids :
        SequencerStart(E, rescan, name, a, id)
  BY DEF StartCall
<1> DEFINE p == Rescanned(rescan)[name]
           d == Start(p, a)
<1>2. /\ Enter(E) /\ up /\ call = Idle /\ id \notin used
      /\ p # NoProgram /\ d # NoDriver
      /\ driver' = [Kept(E) EXCEPT ![id] = d]
      /\ log' = [KeptLogs(E) EXCEPT ![id] = OpenLog]
      /\ disk' = [disk EXCEPT ![id] = EmptyFile]
      /\ used' = used \cup {id}
      /\ call' = [id    |-> id,
                  todo  |-> <<HeaderEvent(p, ParamsLeft[<<p, a>>]),
                              YieldEvent(d)>>,
                  reply |-> TRUE]
      /\ UNCHANGED <<source, told, up>>
  BY <1>1, ClosedSame DEF SequencerStart, Enter
<1>3. p \in Programs
  BY <1>2, EnterType DEF Tables, RecoveryInv
<1> HIDE DEF p, d
<1>4. /\ disk'[id] = EmptyFile /\ log'[id] = OpenLog /\ driver'[id] = d
      /\ told'[id] = NoDriver /\ id \in used'
  BY <1>2 DEF RecoveryInv, TypeInv, TypeOK, Drawn, Kept, KeptLogs
<1>5. ASSUME NEW i \in Ids, i # id
      PROVE  /\ disk'[i] = disk[i] /\ log'[i] \in {log[i], NoLog}
             /\ driver'[i] \in {driver[i], NoDriver} /\ told'[i] = told[i]
             /\ i \in used' <=> i \in used
  BY <1>2, <1>5 DEF Kept, KeptLogs, RecoveryInv, TypeInv, TypeOK
<1>6. /\ EmptyFile.lines = <<>> /\ EmptyFile.tail = Clean /\ EmptyFile.present
      /\ OpenLog.buf = <<>> /\ OpenLog.begun = FALSE
      /\ NoLog.buf = <<>> /\ NoLog.begun = FALSE
  BY DEF EmptyFile, OpenLog, NoLog
<1>7. WholeLines'
  <2> SUFFICES ASSUME NEW i \in Ids
               PROVE  /\ disk'[i].tail = Clean
                      /\ log'[i].buf = <<>> /\ log'[i].begun = FALSE
                      /\ disk'[i].lines # <<>> =>
                           /\ disk'[i].present
                           /\ IsLog(disk'[i].lines)
                           /\ RestoredFrom(disk'[i].lines) # NoDriver
    BY DEF WholeLines
  <2>1. CASE i = id
    BY <1>4, <1>6, <2>1
  <2>2. CASE i # id
    BY <1>5, <1>6, <2>2 DEF RecoveryInv, WholeLines
  <2> QED BY <2>1, <2>2
<1>8. Drawn'
  BY <1>4, <1>5, <1>6 DEF RecoveryInv, Drawn, Loaded
<1>9. InMemory'
  <2> SUFFICES ASSUME NEW i \in Ids, driver'[i] # NoDriver, ~ Unborn(i)'
               PROVE  /\ disk'[i].lines # <<>>
                      /\ RestoredFrom(disk'[i].lines) = driver'[i]
    BY DEF InMemory, Loaded
  <2>1. i # id
    <3>1. call'.id = id /\ Len(call'.todo) = 2
      BY <1>2
    <3>2. call' # Idle
      <4>1. Len(Idle.todo) = 0
        BY DEF Idle
      <4>2. call' = Idle => Len(call'.todo) = 0
        BY <4>1, Zenon
      <4> QED BY <3>1, <4>2
    <3> QED BY <3>1, <3>2 DEF Unborn
  <2> QED BY <1>2, <1>5, <2>1 DEF RecoveryInv, InMemory, Loaded, Unborn
<1>10. InLog'
  BY <1>4, <1>5 DEF RecoveryInv, InLog
<1>11. Continues'
  <2>1. call'.id = id
    BY <1>2
  <2>2. call'.todo = <<HeaderEvent(p, ParamsLeft[<<p, a>>]), YieldEvent(driver'[id])>>
    BY <1>2, <1>4
  <2>3. disk'[id].lines = <<>> /\ driver'[id] = Start(p, a)
    BY <1>4, <1>6 DEF d
  <2> QED BY <1>3, <2>1, <2>2, <2>3 DEF Continues
<1>12. DownIsEmpty'
  BY <1>2 DEF DownIsEmpty
<1>13. QED BY <1>7, <1>8, <1>9, <1>10, <1>11, <1>12 DEF RecoveryInv

\* sequencer_next has a result to append for the step awaited (tools.py:279-297).
LEMMA NextCallRecovery ==
  ASSUME RecoveryInv, TypeInv', NextCall
  PROVE  RecoveryInv'
<1>1. PICK E \in SUBSET Sweepable, id \in Ids, n \in StepNos, r \in Results :
        SequencerNext(E, id, n, r)
  BY DEF NextCall
<1>2. /\ up /\ call = Idle /\ id \notin E /\ Loaded(id) /\ Awaits(driver[id], n)
      /\ driver' = Kept(E) /\ log' = KeptLogs(E) /\ disk' = disk
      /\ call' = [id |-> id, todo |-> <<ResultEvent(n, r)>>, reply |-> TRUE]
      /\ UNCHANGED <<source, used, told, up>>
  BY <1>1, ClosedSame DEF SequencerNext, Enter
<1>3. \A i \in Ids : /\ driver'[i] \in {driver[i], NoDriver}
                     /\ log'[i] \in {log[i], NoLog}
  BY <1>2 DEF Kept, KeptLogs
<1>4. driver'[id] = driver[id]
  BY <1>2 DEF Kept
<1>5. NoLog.buf = <<>> /\ NoLog.begun = FALSE
  BY DEF NoLog
<1>6. WholeLines'
  BY <1>2, <1>3, <1>5 DEF RecoveryInv, WholeLines
<1>7. Drawn'
  BY <1>2, <1>3 DEF RecoveryInv, Drawn, Loaded
<1>8. InMemory'
  BY <1>2, <1>3 DEF RecoveryInv, InMemory, Loaded, Unborn
<1>9. InLog'
  BY <1>2 DEF RecoveryInv, InLog
<1>10. Continues'
  <2>1. disk[id].lines # <<>>
    BY <1>2 DEF RecoveryInv, InMemory, Unborn
  <2>2. ~ IsTerminal(driver[id]) /\ n = driver[id].step_no
    BY <1>2 DEF Awaits
  <2>3. call'.id = id /\ call'.todo = <<ResultEvent(driver'[id].step_no, r)>>
    BY <1>2, <1>4, <2>2
  <2> QED BY <1>2, <1>4, <2>1, <2>2, <2>3 DEF Continues
<1>11. DownIsEmpty'
  BY <1>2 DEF DownIsEmpty
<1>12. QED BY <1>6, <1>7, <1>8, <1>9, <1>10, <1>11 DEF RecoveryInv

-----------------------------------------------------------------------------
(* The appends.                                                              *)

\* The event of the call is appended to its log, and nothing else is.
LEMMA OneLine ==
  ASSUME RecoveryInv, Executing, AppendEvent, NEW e \in Events,
         Head(call.todo) = e
  PROVE  /\ \A i \in Ids : log'[i].buf = <<>> /\ log'[i].begun = FALSE
         /\ \A i \in Ids \ {call.id} : disk'[i] = disk[i]
         /\ disk'[call.id] = [disk[call.id] EXCEPT
                                !.lines = Append(disk[call.id].lines, e)]
<1> DEFINE id == call.id
           f  == disk[id]
<1>1. id \in Ids /\ f \in Files /\ f.present
  BY UnwrittenType DEF RecoveryInv, Drawn
<1>2. log[id].buf = <<>> /\ log[id].begun = FALSE /\ f.tail = Clean
  BY <1>1 DEF RecoveryInv, WholeLines
<1>3. Unwritten = <<e>>
  BY <1>2 DEF Unwritten
<1>4. f.lines \in Seq(Lines) /\ e \in Lines
  BY <1>1, EventIsText DEF Files
<1>5. WriteLines(f, <<e>>, FALSE) = [f EXCEPT !.lines = Append(f.lines, e)]
  <2>1. Ended(f, e, FALSE) = e
    BY <1>2 DEF Ended
  <2>2. (f.lines \o <<e>>) \o Tail(<<e>>) = Append(f.lines, e)
    BY <1>4
  <2>3. <<e>> # <<>> /\ <<e>>[1] = e
    OBVIOUS
  <2>4. WriteLines(f, <<e>>, FALSE)
          = [f EXCEPT !.lines = (f.lines \o <<e>>) \o Tail(<<e>>), !.tail = Clean]
    BY <1>1, <2>1, <2>3 DEF WriteLines
  <2> HIDE DEF f
  <2>5. WriteLines(f, <<e>>, FALSE)
          = [f EXCEPT !.lines = Append(f.lines, e), !.tail = Clean]
    BY <2>2, <2>4
  <2> QED BY <1>1, <1>2, <2>5 DEF Files
<1>6. disk' = [disk EXCEPT ![id] = WriteLines(disk[id], Unwritten, log[id].begun)]
  BY DEF AppendEvent
<1>7. disk'[id] = WriteLines(f, <<e>>, FALSE) /\ \A i \in Ids \ {id} : disk'[i] = disk[i]
  BY <1>1, <1>2, <1>3, <1>6 DEF RecoveryInv, TypeInv, TypeOK
<1>8. \A i \in Ids : log'[i].buf = <<>> /\ log'[i].begun = FALSE
  BY <1>1 DEF AppendEvent, OpenLog, RecoveryInv, TypeInv, TypeOK, WholeLines
<1>9. QED BY <1>5, <1>7, <1>8

\* An append that leaves memory as what the longer log replays to, and after
\* which the agent is told nothing or that, keeps all but Continues.
LEMMA AppendKeeps ==
  ASSUME RecoveryInv, Executing, AppendEvent, NEW e \in Events,
         Head(call.todo) = e,
         NEW d, d # NoDriver,
         IsLog(Append(disk[call.id].lines, e)),
         RestoredFrom(Append(disk[call.id].lines, e)) = d,
         driver' = [driver EXCEPT ![call.id] = d],
         told' = told \/ told' = [told EXCEPT ![call.id] = d],
         UNCHANGED <<used, up>>
  PROVE  /\ WholeLines' /\ Drawn' /\ InMemory' /\ InLog' /\ DownIsEmpty'
         /\ disk'[call.id].lines # <<>>
<1> DEFINE id == call.id
           ls == disk[id].lines
<1>1. id \in Ids /\ disk[id] \in Files /\ Loaded(id) /\ disk[id].present
      /\ id \in used /\ disk[id].tail = Clean /\ up
  BY UnwrittenType DEF RecoveryInv, Drawn, WholeLines, Executing
<1>2. /\ disk'[id].lines = Append(ls, e)
      /\ disk'[id].tail = Clean /\ disk'[id].present
  <2> DEFINE f == disk[id]
             q == Append(ls, e)
  <2>1. disk'[id] = [f EXCEPT !.lines = q]
    BY OneLine
  <2>2. f \in Files /\ f.tail = Clean /\ f.present
    BY <1>1
  <2> HIDE DEF f, q
  <2>3. disk'[id].lines = q /\ disk'[id].tail = Clean /\ disk'[id].present
    BY <2>1, <2>2 DEF Files
  <2> QED BY <2>3 DEF q
<1>3. /\ driver'[id] = d /\ told'[id] \in {told[id], d}
      /\ \A i \in Ids \ {id} : driver'[i] = driver[i] /\ told'[i] = told[i]
  BY <1>1 DEF RecoveryInv, TypeInv, TypeOK
<1>4. ls \in Seq(Events)
  <2>1. CASE ls = <<>>
    BY <2>1
  <2>2. CASE ls # <<>>
    BY <1>1, <2>2 DEF RecoveryInv, WholeLines, IsLog
  <2> QED BY <2>1, <2>2
<1>5. Append(ls, e) # <<>> /\ Len(Append(ls, e)) = Len(ls) + 1 /\ Len(ls) \in Nat
  BY <1>4, AppendProperties
<1>6. \A i \in Ids \ {id} : disk'[i] = disk[i]
  BY OneLine
<1>7. \A i \in Ids : log'[i].buf = <<>> /\ log'[i].begun = FALSE
  BY OneLine
<1> HIDE DEF id, ls
<1>8. IsLog(Append(ls, e)) /\ RestoredFrom(Append(ls, e)) = d
  BY DEF id, ls
<1>9. WholeLines'
  <2> SUFFICES ASSUME NEW i \in Ids
               PROVE  /\ disk'[i].tail = Clean
                      /\ disk'[i].lines # <<>> =>
                           /\ disk'[i].present
                           /\ IsLog(disk'[i].lines)
                           /\ RestoredFrom(disk'[i].lines) # NoDriver
    BY <1>7 DEF WholeLines
  <2>1. CASE i = id
    BY <1>2, <1>8, <2>1
  <2>2. CASE i # id
    BY <1>6, <2>2 DEF RecoveryInv, WholeLines
  <2> QED BY <2>1, <2>2
<1>10. Drawn'
  BY <1>1, <1>2, <1>3, <1>6 DEF RecoveryInv, Drawn, Loaded
<1>11. InMemory'
  <2> SUFFICES ASSUME NEW i \in Ids, driver'[i] # NoDriver
               PROVE  /\ disk'[i].lines # <<>>
                      /\ RestoredFrom(disk'[i].lines) = driver'[i]
    BY DEF InMemory, Loaded
  <2>1. CASE i = id
    BY <1>2, <1>3, <1>5, <1>8, <2>1
  <2>2. CASE i # id
    BY <1>3, <1>6, <2>2 DEF RecoveryInv, InMemory, Loaded, Unborn, id
  <2> QED BY <2>1, <2>2
<1>12. InLog'
  <2> SUFFICES ASSUME NEW i \in Ids, told'[i] # NoDriver
               PROVE  \E n \in 1..Len(disk'[i].lines) :
                        RestoredFrom(SubSeq(disk'[i].lines, 1, n)) = told'[i]
    BY DEF InLog
  <2>1. CASE i # id
    BY <1>3, <1>6, <2>1 DEF RecoveryInv, InLog
  <2>2. CASE i = id /\ told'[i] = told[i]
    <3>1. PICK n \in 1..Len(ls) : RestoredFrom(SubSeq(ls, 1, n)) = told[i]
      BY <2>2 DEF RecoveryInv, InLog, ls
    <3>2. SubSeq(Append(ls, e), 1, n) = SubSeq(ls, 1, n)
      BY <1>4, Beginnings
    <3>3. n \in 1..Len(Append(ls, e))
      BY <1>5
    <3> QED BY <1>2, <2>2, <3>1, <3>2, <3>3
  <2>3. CASE i = id /\ told'[i] = d
    <3>1. SubSeq(Append(ls, e), 1, Len(Append(ls, e))) = Append(ls, e)
      BY <1>8, Beginnings DEF IsLog
    <3>2. Len(Append(ls, e)) \in 1..Len(Append(ls, e))
      BY <1>5
    <3>3. RestoredFrom(SubSeq(Append(ls, e), 1, Len(Append(ls, e)))) = d
      BY <1>8, <3>1
    <3>4. disk'[i].lines = Append(ls, e) /\ told'[i] = d
      BY <1>2, <2>3
    <3> QED BY <3>2, <3>3, <3>4, Zenon
  <2> QED BY <1>3, <2>1, <2>2, <2>3
<1>13. DownIsEmpty'
  BY <1>1 DEF DownIsEmpty
<1>14. disk'[id].lines # <<>>
  BY <1>2, <1>5
<1>15. QED BY <1>9, <1>10, <1>11, <1>12, <1>13, <1>14 DEF id

\* The first of two.
LEMMA HeadOfTwo == \A x, y : Head(<<x, y>>) = x
OBVIOUS

\* The header makes the log replay to the start of the program (tools.py:216-224).
LEMMA LogHeaderRecovery ==
  ASSUME RecoveryInv, TypeInv', ParamsSpared, LogHeader
  PROVE  RecoveryInv'
<1> DEFINE id == call.id
           ls == disk[id].lines
<1>1. /\ Executing /\ AppendEvent /\ Head(call.todo).type = "header"
      /\ call' = [call EXCEPT !.todo = Tail(call.todo)]
      /\ UNCHANGED <<source, used, told, up, registry, driver>>
  BY DEF LogHeader
<1>2. /\ call \in Calls /\ id \in Ids /\ driver[id] \in Drivers /\ call # Idle
      /\ driver \in [Ids -> Drivers \cup {NoDriver}]
  BY <1>1, UnwrittenType DEF RecoveryInv, Executing, TypeInv, TypeOK
<1>3. PICK p \in Programs, a \in Params :
        /\ ls = <<>>
        /\ call.todo = <<HeaderEvent(p, ParamsLeft[<<p, a>>]), YieldEvent(driver[id])>>
        /\ driver[id] = Start(p, a)
  <2>1. YieldEvent(driver[id]).type # "header"
    BY DEF YieldEvent
  <2>2. \A r \in Results : ResultEvent(driver[id].step_no, r).type # "header"
    BY DEF ResultEvent
  <2>3. call.todo # <<YieldEvent(driver[id])>>
    BY <1>1, <2>1
  <2>4. \A r \in Results : call.todo # <<ResultEvent(driver[id].step_no, r)>>
    BY <1>1, <2>2
  <2> QED BY <1>2, <2>3, <2>4 DEF RecoveryInv, Continues
<1> DEFINE h == HeaderEvent(p, ParamsLeft[<<p, a>>])
           y == YieldEvent(driver[id])
<1>4. /\ h \in HeaderEvents /\ h \in Events
      /\ Start(h.program, h.params) = Start(p, a)
  <2>1. ParamsLeft[<<p, a>>] \in Params
    BY ProgramAssumption
  <2>2. h \in HeaderEvents
    BY <2>1 DEF HeaderEvent, HeaderEvents
  <2>3. h.program = p /\ h.params = ParamsLeft[<<p, a>>]
    BY DEF HeaderEvent
  <2> HIDE DEF h
  <2> QED BY <2>2, <2>3, EventKinds DEF ParamsSpared
<1> HIDE DEF id, ls, h, y
<1>5. IsLog(<<h>>) /\ RestoredFrom(<<h>>) = driver[id]
  BY <1>3, <1>4, RestoredHeader
<1>6. Append(ls, h) = <<h>> /\ Head(call.todo) = h /\ Tail(call.todo) = <<y>>
  BY <1>3 DEF h, y
<1>7. /\ WholeLines' /\ Drawn' /\ InMemory' /\ InLog' /\ DownIsEmpty'
      /\ disk'[id].lines # <<>>
  <2>1. driver[id] # NoDriver /\ driver' = [driver EXCEPT ![call.id] = driver[id]]
    BY <1>1, <1>2, NoDriverAssumption DEF id
  <2> QED BY <1>1, <1>4, <1>5, <1>6, <2>1, AppendKeeps DEF id, ls
<1>8. Continues'
  <2>1. call'.id = id /\ call'.todo = <<y>>
    BY <1>1, <1>2, <1>6 DEF Calls, id
  <2>2. y = YieldEvent(driver'[id])
    BY <1>1 DEF y
  <2> QED BY <1>7, <2>1, <2>2 DEF Continues
<1>9. QED BY <1>7, <1>8 DEF RecoveryInv

\* The result and Driver.send move the log and the driver together (tools.py:294-302).
LEMMA LogResultRecovery ==
  ASSUME RecoveryInv, TypeInv', ResultsJudged, LogResult
  PROVE  RecoveryInv'
<1> DEFINE id    == call.id
           ls    == disk[id].lines
           e     == Head(call.todo)
           after == IF SendRaises(driver[id], e.result) THEN driver[id]
                    ELSE Send(driver[id], e.result)
<1>1. /\ Executing /\ AppendEvent /\ e.type = "result"
      /\ driver' = [driver EXCEPT ![id] = after]
      /\ call'.id = id /\ call'.todo = <<YieldEvent(after)>>
      /\ UNCHANGED <<source, used, told, up, registry>>
  BY DEF LogResult
<1>2. /\ call # Idle /\ id \in Ids /\ driver[id] \in Drivers /\ Loaded(id)
      /\ driver \in [Ids -> Drivers \cup {NoDriver}]
  BY <1>1, UnwrittenType DEF RecoveryInv, Executing, TypeInv, TypeOK
<1>3. PICK r \in Results : /\ ls # <<>> /\ ~ IsTerminal(driver[id])
                           /\ call.todo = <<ResultEvent(driver[id].step_no, r)>>
  <2>1. YieldEvent(driver[id]).type # "result"
    BY DEF YieldEvent
  <2>2. \A p \in Programs, a \in Params :
          HeaderEvent(p, ParamsLeft[<<p, a>>]).type # "result"
    BY DEF HeaderEvent
  <2>3. call.todo # <<YieldEvent(driver[id])>>
    BY <1>1, <2>1
  <2>4. \A p \in Programs, a \in Params :
          call.todo # <<HeaderEvent(p, ParamsLeft[<<p, a>>]), YieldEvent(driver[id])>>
    <3>1. SUFFICES ASSUME NEW p \in Programs, NEW a \in Params,
                          call.todo = <<HeaderEvent(p, ParamsLeft[<<p, a>>]),
                                        YieldEvent(driver[id])>>
                   PROVE  FALSE
      OBVIOUS
    <3> DEFINE h == HeaderEvent(p, ParamsLeft[<<p, a>>])
    <3>2. h.type # "result"
      BY <2>2
    <3> HIDE DEF h
    <3>3. Head(call.todo) = h
      BY <3>1, HeadOfTwo DEF h
    <3> QED BY <1>1, <3>2, <3>3
  <2> QED BY <1>2, <2>3, <2>4 DEF RecoveryInv, Continues
<1>4. e = ResultEvent(driver[id].step_no, r) /\ e.result = r
  BY <1>3 DEF ResultEvent
<1>5. e \in Events
  <2>1. driver[id].step_no \in Nat
    BY <1>2 DEF Drivers
  <2> QED BY <1>4, <2>1, EventKinds DEF ResultEvent, ResultEvents
<1>6. after = Send(driver[id], r) /\ after \in Drivers
  <2>1. ~ SendRaises(driver[id], r)
    BY <1>2, SendJudges
  <2> QED BY <1>2, <1>4, <2>1, SendType
<1>7. IsLog(ls) /\ RestoredFrom(ls) = driver[id]
  <2>1. Len(call.todo) = 1
    BY <1>3
  <2>2. ~ Unborn(id)
    BY <2>1 DEF Unborn
  <2> QED BY <1>2, <1>3, <2>2 DEF RecoveryInv, InMemory, WholeLines
<1> HIDE DEF id, ls, e, after
<1>8. IsLog(Append(ls, e)) /\ RestoredFrom(Append(ls, e)) = after
  <2>1. Feed(e)[driver[id]] = Send(driver[id], r)
    BY <1>2, <1>3, <1>4, FeedResult
  <2> QED BY <1>5, <1>6, <1>7, <2>1, RestoredAppend
<1>9. after # NoDriver
  BY <1>6, NoDriverAssumption
<1>10. /\ WholeLines' /\ Drawn' /\ InMemory' /\ InLog' /\ DownIsEmpty'
       /\ disk'[id].lines # <<>>
  BY <1>1, <1>5, <1>8, <1>9, AppendKeeps DEF id, ls, e
<1>11. Continues'
  <2>1. driver'[id] = after
    BY <1>1, <1>2
  <2> QED BY <1>1, <1>10, <2>1 DEF Continues
<1>12. QED BY <1>10, <1>11 DEF RecoveryInv

\* The yield moves neither (tools.py:316-325).
LEMMA LogYieldRecovery ==
  ASSUME RecoveryInv, TypeInv', LogYield
  PROVE  RecoveryInv'
<1> DEFINE id == call.id
           ls == disk[id].lines
           d  == driver[id]
           y  == Head(call.todo)
<1>1. /\ Executing /\ AppendEvent /\ y.type = "yield" /\ call' = Idle
      /\ told' = IF call.reply THEN [told EXCEPT ![id] = d] ELSE told
      /\ UNCHANGED <<source, used, up, registry, driver>>
  BY DEF LogYield
<1>2. /\ call # Idle /\ id \in Ids /\ d \in Drivers /\ Loaded(id)
      /\ driver \in [Ids -> Drivers \cup {NoDriver}]
  BY <1>1, UnwrittenType DEF RecoveryInv, Executing, TypeInv, TypeOK
<1>3. ls # <<>> /\ call.todo = <<YieldEvent(d)>>
  <2>1. \A r \in Results : ResultEvent(d.step_no, r).type # "yield"
    BY DEF ResultEvent
  <2>2. \A p \in Programs, a \in Params :
          HeaderEvent(p, ParamsLeft[<<p, a>>]).type # "yield"
    BY DEF HeaderEvent
  <2>3. \A r \in Results : call.todo # <<ResultEvent(d.step_no, r)>>
    BY <1>1, <2>1
  <2>4. \A p \in Programs, a \in Params :
          call.todo # <<HeaderEvent(p, ParamsLeft[<<p, a>>]), YieldEvent(d)>>
    <3>1. SUFFICES ASSUME NEW p \in Programs, NEW a \in Params,
                          call.todo = <<HeaderEvent(p, ParamsLeft[<<p, a>>]),
                                        YieldEvent(d)>>
                   PROVE  FALSE
      OBVIOUS
    <3> DEFINE h == HeaderEvent(p, ParamsLeft[<<p, a>>])
    <3>2. h.type # "yield"
      BY <2>2
    <3> HIDE DEF h
    <3>3. Head(call.todo) = h
      BY <3>1, HeadOfTwo DEF h
    <3> QED BY <1>1, <3>2, <3>3
  <2> QED BY <1>2, <2>3, <2>4 DEF RecoveryInv, Continues
<1>4. y \in YieldEvents
  <2>1. y = YieldEvent(d)
    BY <1>3
  <2> QED BY <1>2, <2>1 DEF YieldEvent, YieldEvents, Drivers
<1>5. IsLog(ls) /\ RestoredFrom(ls) = d
  <2>1. Len(call.todo) = 1
    BY <1>3
  <2>2. ~ Unborn(id)
    BY <2>1 DEF Unborn
  <2> QED BY <1>2, <1>3, <2>2 DEF RecoveryInv, InMemory, WholeLines
<1> HIDE DEF id, ls, d, y
<1>6. IsLog(Append(ls, y)) /\ RestoredFrom(Append(ls, y)) = d
  BY <1>2, <1>4, <1>5, RestoredAppend, FeedOther, EventKinds DEF MaybeDrivers
<1>7. WholeLines' /\ Drawn' /\ InMemory' /\ InLog' /\ DownIsEmpty'
  <2>1. d # NoDriver /\ driver' = [driver EXCEPT ![call.id] = d]
    BY <1>1, <1>2, NoDriverAssumption DEF d, id
  <2>2. y \in Events
    BY <1>4, EventKinds
  <2>3. told' = told \/ told' = [told EXCEPT ![call.id] = d]
    BY <1>1 DEF id
  <2> QED BY <1>1, <1>6, <2>1, <2>2, <2>3, AppendKeeps DEF id, ls, y
<1>8. Continues'
  BY <1>1 DEF Continues
<1>9. QED BY <1>7, <1>8 DEF RecoveryInv

\* A yield that cannot be dumped is not in the log, which replays to it all
\* the same (persistence.py:73).
LEMMA DumpFailsRecovery ==
  ASSUME RecoveryInv, TypeInv', DumpFails
  PROVE  RecoveryInv'
<1>1. /\ Executing /\ Head(call.todo).type = "yield" /\ call' = Idle
      /\ UNCHANGED <<shared, up, registry, driver, log>>
  BY DEF DumpFails
<1>2. up /\ call # Idle
  BY <1>1 DEF Executing
<1>3. Len(call.todo) = 1
  <2>1. \A p \in Programs, a \in Params :
          call.todo # <<HeaderEvent(p, ParamsLeft[<<p, a>>]),
                        YieldEvent(driver[call.id])>>
    BY <1>1, HeadOfTwo DEF HeaderEvent
  <2>2. \E e : call.todo = <<e>>
    BY <1>2, <2>1 DEF RecoveryInv, Continues
  <2> QED BY <2>2
<1>4. ASSUME NEW id \in Ids
      PROVE  SettledAt(id)
  <2>1. ~ Unborn(id)
    BY <1>3 DEF Unborn
  <2> QED BY <1>1, <2>1 DEF SettledAt, shared, RecoveryInv, InMemory, Loaded
<1>5. used' = used /\ up' = up
  BY <1>1 DEF shared
<1>6. QED BY <1>1, <1>2, <1>4, <1>5, Settled

-----------------------------------------------------------------------------
(* The theorems.                                                             *)

\* There is nothing yet.
LEMMA InitRecovery == Init => RecoveryInv
<1> SUFFICES ASSUME Init PROVE RecoveryInv
  OBVIOUS
<1>1. /\ NoFile.tail = Clean /\ NoFile.lines = <<>>
      /\ NoLog.buf = <<>> /\ NoLog.begun = FALSE
  BY DEF NoFile, NoLog
<1>2. WholeLines
  BY <1>1 DEF Init, WholeLines
<1>3. Drawn /\ InMemory /\ InLog /\ Continues /\ DownIsEmpty
  BY DEF Init, Drawn, InMemory, InLog, Continues, DownIsEmpty, Loaded
<1>4. QED BY <1>2, <1>3, InitTypeInv DEF RecoveryInv

\* Every step keeps the invariant.
LEMMA NextRecovery ==
  ASSUME RecoveryInv, [Next]_vars, NothingFails, ResultsJudged, ParamsSpared
  PROVE  RecoveryInv'
<1>1. TypeInv'
  BY NextTypeInv DEF RecoveryInv
<1>2. CASE ServerNext
  <2>1. CASE StartCall \/ NextCall \/ CurrentCall
    BY <1>1, <2>1, StartRecovery, NextCallRecovery, CurrentRecovery
  <2>2. CASE ResumeCall \/ CloseCall \/ OtherCall
    BY <1>1, <2>2, ResumeRecovery, CloseRecovery, OtherRecovery
  <2>3. CASE LogHeader \/ LogResult \/ LogYield
    BY <1>1, <2>3, LogHeaderRecovery, LogResultRecovery, LogYieldRecovery
  <2>4. CASE \E orderly \in BOOLEAN : Exit(orderly)
    BY <1>1, <2>4, ExitRecovery
  <2>6. CASE DumpFails
    BY <1>1, <2>6, DumpFailsRecovery
  <2>5. CASE \E pruned \in SUBSET Ids : ServerStart(pruned)
    BY <1>1, <2>5, ServerStartRecovery
  <2> QED BY <1>2, <2>1, <2>2, <2>3, <2>4, <2>5, <2>6, NothingFailed DEF ServerNext
<1>3. ASSUME UNCHANGED <<disk, used, told, local>>
      PROVE  RecoveryInv'
  BY <1>1, <1>3 DEF local, RecoveryInv, WholeLines, Drawn, InMemory, InLog,
     Continues, DownIsEmpty, Loaded, Unborn
<1>4. CASE \E name \in Names, p \in Programs \cup {NoProgram} : EditSource(name, p)
  BY <1>3, <1>4 DEF EditSource
<1>5. CASE UNCHANGED vars
  BY <1>3, <1>5 DEF vars, shared
<1>6. QED BY <1>2, <1>4, <1>5 DEF Next

\* So it holds at all times.
LEMMA RecoveryInvariance ==
  ASSUME NothingFails, ResultsJudged, ParamsSpared
  PROVE  Spec => []RecoveryInv
<1>1. RecoveryInv /\ [Next]_vars => RecoveryInv'
  BY NextRecovery
<1>2. QED BY InitRecovery, <1>1, PTL DEF Spec

\* Resuming from the log rebuilds the driver in memory.
LEMMA RecoveryRestores ==
  ASSUME RecoveryInv
  PROVE  Recoverable
<1> SUFFICES ASSUME NEW id \in Ids, Loaded(id), ~ Unborn(id)
             PROVE  Restored(disk[id]) = driver[id]
  BY DEF Recoverable
<1>1. disk[id].present /\ AllLines(disk[id]) = disk[id].lines
  BY DEF RecoveryInv, Drawn, WholeLines, AllLines
<1> QED BY <1>1 DEF RecoveryInv, InMemory, Restored

\* If no append fails, every result can be judged and programs spare their
\* params, then resuming a loaded instance from its log would at any moment
\* rebuild the very driver in memory (tools.py:294-300 and 375-388).
THEOREM LogRestoresMemory ==
  ASSUME NothingFails, ResultsJudged, ParamsSpared
  PROVE  Spec => []Recoverable
<1>1. RecoveryInv => Recoverable
  BY RecoveryRestores
<1>2. QED BY RecoveryInvariance, <1>1, PTL

\* What was told is in the log.
LEMMA RecoveryRemembers ==
  ASSUME RecoveryInv
  PROVE  AckedSurvive
<1> SUFFICES ASSUME NEW id \in Ids, told[id] # NoDriver
             PROVE  LET ls == AllLines(disk[id])
                    IN  /\ Restored(disk[id]) # NoDriver
                        /\ \E n \in 0..Len(ls) :
                             RestoredFrom(SubSeq(ls, 1, n)) = told[id]
  BY DEF AckedSurvive
<1> DEFINE ls == disk[id].lines
<1>1. AllLines(disk[id]) = ls
  BY DEF RecoveryInv, WholeLines, AllLines
<1>2. PICK n \in 1..Len(ls) : RestoredFrom(SubSeq(ls, 1, n)) = told[id]
  BY DEF RecoveryInv, InLog
<1>3. ls # <<>> /\ n \in 0..Len(ls)
  <2>1. Len(<<>>) = 0
    OBVIOUS
  <2> QED BY <1>2, <2>1
<1>4. Restored(disk[id]) # NoDriver
  BY <1>1, <1>3 DEF RecoveryInv, WholeLines, Restored
<1> QED BY <1>1, <1>2, <1>3, <1>4

\* Under the same assumptions nothing the agent was told is forgotten: through
\* crashes, sweeps and closes the log replays through what was reported last,
\* until it is deleted or pruned (persistence.py:60-61).
THEOREM ReportsSurvive ==
  ASSUME NothingFails, ResultsJudged, ParamsSpared
  PROVE  Spec => []AckedSurvive
<1>1. RecoveryInv => AckedSurvive
  BY RecoveryRemembers
<1>2. QED BY RecoveryInvariance, <1>1, PTL

-----------------------------------------------------------------------------
(* One step of one log.                                                      *)

\* ks is ls with one event more: what the driver that ls replays to yields, or
\* a result for the step that it awaits.
Grows(ls, ks) ==
  /\ IsLog(ls)
  /\ LET d == RestoredFrom(ls)
     IN  /\ d \in Drivers
         /\ \/ ks = Append(ls, YieldEvent(d))
            \/ /\ ~ IsTerminal(d)
               /\ \E r \in Results : ks = Append(ls, ResultEvent(d.step_no, r))

\* A log stays, is emptied, is begun or grows.
LogStep(ls, ks) ==
  \/ ks = ls
  \/ ks = <<>>
  \/ ls = <<>> /\ \E h \in HeaderEvents : ks = <<h>>
  \/ Grows(ls, ks)

\* An append begins a log or makes it grow (persistence.py:71-75).
LEMMA AppendGrows ==
  ASSUME RecoveryInv, Executing, AppendEvent
  PROVE  /\ \A i \in Ids \ {call.id} : disk'[i] = disk[i]
         /\ LogStep(disk[call.id].lines, disk'[call.id].lines)
         /\ disk'[call.id].lines # <<>>
<1> DEFINE id == call.id
           ls == disk[id].lines
           e  == Head(call.todo)
<1>1. /\ call # Idle /\ id \in Ids /\ driver[id] \in Drivers /\ Loaded(id)
      /\ disk[id] \in Files
  BY UnwrittenType DEF RecoveryInv, Executing, TypeInv, TypeOK
<1>2. ASSUME e \in Events
      PROVE  /\ \A i \in Ids \ {id} : disk'[i] = disk[i]
             /\ disk'[id].lines = Append(ls, e)
             /\ disk'[id].lines # <<>>
  <2> DEFINE f == disk[id]
             q == Append(ls, e)
  <2>1. /\ \A i \in Ids \ {id} : disk'[i] = disk[i]
        /\ disk'[id] = [f EXCEPT !.lines = q]
    BY <1>2, OneLine
  <2>2. q # <<>>
    <3>1. ls \in Seq(Lines) /\ e \in Lines
      BY <1>1, <1>2, EventIsText DEF Files
    <3> QED BY <3>1, AppendProperties
  <2> HIDE DEF q
  <2>3. disk'[id].lines = q
    BY <1>1, <2>1 DEF Files
  <2> QED BY <2>1, <2>2, <2>3 DEF q
<1>3. ASSUME ls # <<>>, Len(call.todo) = 1
      PROVE  IsLog(ls) /\ RestoredFrom(ls) = driver[id]
  BY <1>1, <1>3 DEF RecoveryInv, InMemory, WholeLines, Unborn
<1>4. CASE /\ ls = <<>>
           /\ \E p \in Programs, a \in Params :
                /\ call.todo = <<HeaderEvent(p, ParamsLeft[<<p, a>>]),
                                 YieldEvent(driver[id])>>
                /\ driver[id] = Start(p, a)
  <2>1. PICK p \in Programs, a \in Params : e = HeaderEvent(p, ParamsLeft[<<p, a>>])
    BY <1>4, HeadOfTwo
  <2>2. ParamsLeft[<<p, a>>] \in Params
    BY ProgramAssumption
  <2> HIDE DEF e
  <2>3. e \in HeaderEvents /\ e \in Events
    BY <2>1, <2>2, EventKinds DEF HeaderEvent, HeaderEvents
  <2>4. Append(ls, e) = <<e>>
    BY <1>4
  <2> HIDE DEF ls, id
  <2> QED BY <1>2, <1>4, <2>3, <2>4 DEF LogStep, id, ls, e
<1>5. CASE ls # <<>> /\ call.todo = <<YieldEvent(driver[id])>>
  <2>1. Len(call.todo) = 1 /\ e = YieldEvent(driver[id])
    BY <1>5
  <2>2. e \in YieldEvents
    BY <1>1, <2>1 DEF YieldEvent, YieldEvents, Drivers
  <2>3. e \in Events
    BY <2>2, EventKinds
  <2>4. Grows(ls, Append(ls, e))
    BY <1>1, <1>3, <1>5, <2>1 DEF Grows
  <2> HIDE DEF ls, id, e
  <2> QED BY <1>2, <2>3, <2>4 DEF LogStep, id, ls, e
<1>6. CASE /\ ls # <<>>
           /\ ~ IsTerminal(driver[id])
           /\ \E r \in Results :
                call.todo = <<ResultEvent(driver[id].step_no, r)>>
  <2>1. PICK r \in Results : call.todo = <<ResultEvent(driver[id].step_no, r)>>
    BY <1>6
  <2>2. Len(call.todo) = 1 /\ e = ResultEvent(driver[id].step_no, r)
    BY <2>1
  <2>3. e \in ResultEvents
    BY <1>1, <2>2 DEF ResultEvent, ResultEvents, Drivers
  <2>4. e \in Events
    BY <2>3, EventKinds
  <2>5. Grows(ls, Append(ls, e))
    BY <1>1, <1>3, <1>6, <2>2 DEF Grows
  <2> HIDE DEF ls, id, e
  <2> QED BY <1>2, <2>4, <2>5 DEF LogStep, id, ls, e
<1>7. QED BY <1>1, <1>4, <1>5, <1>6 DEF RecoveryInv, Continues

\* What any step does to logs and reports: the agent is told nothing new, or,
\* when no call is left, that an instance is gone or what it is.
LogSteps ==
  /\ \A id \in Ids : LogStep(disk[id].lines, disk'[id].lines)
  /\ \/ told' = told
     \/ /\ call' = Idle
        /\ \A id \in Ids : told'[id] \in {told[id], driver'[id], NoDriver}

\* The handlers that append nothing leave logs alone or empty them.
LEMMA SettledLogSteps ==
  ASSUME RecoveryInv,
         \A id \in Ids : disk'[id] \in {disk[id], NoFile, EmptyFile}
  PROVE  \A id \in Ids : LogStep(disk[id].lines, disk'[id].lines)
<1>1. NoFile.lines = <<>> /\ EmptyFile.lines = <<>>
  BY DEF NoFile, EmptyFile
<1>2. QED BY <1>1 DEF LogStep

\* Every step does to logs and reports what LogSteps says (tools.py:164-449).
LEMMA NextLogSteps ==
  ASSUME RecoveryInv, [Next]_vars, NothingFails
  PROVE  LogSteps
<1>1. /\ disk \in [Ids -> Files] /\ told \in [Ids -> Drivers \cup {NoDriver}]
  BY DEF RecoveryInv, TypeInv, TypeOK
<1>2. CASE StartCall
  <2>1. PICK E \in SUBSET Sweepable, rescan \in BOOLEAN,
             name \in Names, a \in Params, id \in Ids :
          SequencerStart(E, rescan, name, a, id)
    BY <1>2 DEF StartCall
  <2>2. disk' = [disk EXCEPT ![id] = EmptyFile] /\ told' = told
    BY <2>1, ClosedSame DEF SequencerStart
  <2> QED BY <1>1, <2>2, SettledLogSteps DEF LogSteps
<1>3. CASE NextCall
  <2>1. disk' = disk /\ told' = told
    BY <1>3, ClosedSame DEF NextCall, SequencerNext
  <2> QED BY <2>1, SettledLogSteps DEF LogSteps
<1>4. CASE CurrentCall
  <2>1. PICK E \in SUBSET Sweepable, id \in Ids : SequencerCurrent(E, id)
    BY <1>4 DEF CurrentCall
  <2>2. /\ disk' = disk /\ call' = Idle /\ driver'[id] = driver[id]
        /\ told' = [told EXCEPT ![id] = driver[id]]
    BY <2>1, ClosedSame DEF SequencerCurrent, Enter, Kept
  <2> QED BY <1>1, <2>2, SettledLogSteps DEF LogSteps
<1>5. CASE ResumeCall
  <2>1. PICK E \in SUBSET Sweepable, rescan \in BOOLEAN, id \in Ids :
          SequencerResume(E, rescan, id)
    BY <1>5 DEF ResumeCall
  <2>2. PICK d : /\ disk' = disk /\ call' = Idle
                 /\ driver' = [Kept(E) EXCEPT ![id] = d]
                 /\ told' = [told EXCEPT ![id] = d]
    BY <2>1, ClosedSame DEF SequencerResume, Enter
  <2>3. driver'[id] = d
    BY <2>2 DEF Kept
  <2> QED BY <1>1, <2>2, <2>3, SettledLogSteps DEF LogSteps
<1>6. CASE CloseCall
  <2>1. PICK E \in SUBSET Sweepable, id \in Ids, delete_log \in BOOLEAN :
          SequencerClose(E, id, delete_log)
    BY <1>6 DEF CloseCall
  <2>2. /\ call' = Idle
        /\ disk' = IF delete_log THEN [disk EXCEPT ![id] = NoFile] ELSE disk
        /\ told' = IF delete_log THEN [told EXCEPT ![id] = NoDriver] ELSE told
    BY <2>1, ClosedSame DEF SequencerClose, Enter
  <2> QED BY <1>1, <2>2, SettledLogSteps DEF LogSteps
<1>7. CASE OtherCall
  <2>1. disk' = disk /\ told' = told
    BY <1>7, ClosedSame DEF OtherCall, Answer
  <2> QED BY <2>1, SettledLogSteps DEF LogSteps
<1>8. CASE LogHeader \/ LogResult
  <2>1. Executing /\ AppendEvent /\ told' = told
    BY <1>8 DEF LogHeader, LogResult
  <2>2. \A i \in Ids : LogStep(disk[i].lines, disk[i].lines)
    BY DEF LogStep
  <2> QED BY <2>1, <2>2, AppendGrows DEF LogSteps
<1>9. CASE LogYield
  <2>1. /\ Executing /\ AppendEvent /\ call' = Idle /\ driver' = driver
        /\ told' = told \/ told' = [told EXCEPT ![call.id] = driver[call.id]]
    BY <1>9 DEF LogYield
  <2>2. \A i \in Ids : LogStep(disk[i].lines, disk[i].lines)
    BY DEF LogStep
  <2> QED BY <1>1, <2>1, <2>2, AppendGrows DEF LogSteps
<1>10. CASE DumpFails
  <2>1. disk' = disk /\ told' = told
    BY <1>10 DEF DumpFails, shared
  <2> QED BY <2>1, SettledLogSteps DEF LogSteps
<1>11. CASE \E orderly \in BOOLEAN : Exit(orderly)
  <2>1. disk' = disk /\ told' = told
    BY <1>11, ClosedSame DEF Exit, Leave
  <2> QED BY <2>1, SettledLogSteps DEF LogSteps
<1>12. CASE \E pruned \in SUBSET Ids : ServerStart(pruned)
  <2>1. call' = Idle
    BY <1>12 DEF ServerStart, RecoveryInv, DownIsEmpty
  <2> QED BY <1>1, <1>12, <2>1, SettledLogSteps DEF LogSteps, ServerStart
<1>13. CASE UNCHANGED <<disk, used, told, local>>
  BY <1>13, SettledLogSteps DEF LogSteps
<1>14. CASE \E name \in Names, p \in Programs \cup {NoProgram} : EditSource(name, p)
  BY <1>13, <1>14 DEF EditSource
<1>15. CASE UNCHANGED vars
  BY <1>13, <1>15 DEF vars, shared
<1>16. QED
  BY <1>2, <1>3, <1>4, <1>5, <1>6, <1>7, <1>8, <1>9, <1>10, <1>11, <1>12, <1>14,
     <1>15, NothingFailed DEF Next, ServerNext

-----------------------------------------------------------------------------
(* What holds of every log.                                                  *)

\* Each result was sent to a driver that awaited it, which it moved.
LEMMA SendAdvances ==
  ASSUME ResultsJudged, NEW d, Sound(d), ~ IsTerminal(d), NEW r \in Results
  PROVE  Moved(d, Send(d, r))
<1> DEFINE g == Resumed[<<d.gen, r>>]
<1>1. /\ d \in Drivers /\ d.pending /\ Yields[d.gen].kind = "instruction"
      /\ d.gen \in GenStates /\ g \in GenStates /\ d.step_no \in Nat
  BY ProgramAssumption DEF Sound, IsCoherent, Drivers
<1>2. Verdict(d, r) \in {"valid", "invalid", "bad_schema"}
  BY <1>1, ProgramAssumption DEF Verdict, Reactions, ResultsJudged
<1>3. Moved(d, Issue(d, TRUE))
  BY <1>1, IssueSound DEF Moved
<1>4. Moved(d, Abort(d)) /\ Moved(d, Fail(d))
  BY <1>1, FinishSound DEF Moved
<1>5. Moved(d, Reach(d, g))
  BY <1>1, ReachMoved
<1>6. Send(d, r) \in {Issue(d, TRUE), Abort(d), Fail(d), Reach(d, g)}
  BY <1>1, <1>2 DEF Send, SendTo
<1>7. QED BY <1>3, <1>4, <1>5, <1>6

\* The results are for steps that are over.
AnswersPast(ls) ==
  LET d == RestoredFrom(ls)
  IN  \A i \in DOMAIN ls : ls[i].type = "result" =>
        /\ ls[i].for_step_no \in Nat
        /\ ls[i].for_step_no <= d.step_no
        /\ ~ IsTerminal(d) => ls[i].for_step_no < d.step_no

\* They are for one step after the other.
Growing(ls) ==
  \A i, j \in DOMAIN ls :
    i < j /\ ls[i].type = "result" /\ ls[j].type = "result" =>
      ls[i].for_step_no < ls[j].for_step_no

\* Each yield is what replay yields there.
Truthful(ls) ==
  \A i \in DOMAIN ls : ls[i].type = "yield" =>
    LET d == RestoredFrom(SubSeq(ls, 1, i))
    IN  d # NoDriver /\ d.last_yield = ls[i].payload

GoodLog(ls) ==
  /\ IsLog(ls)
  /\ Sound(RestoredFrom(ls))
  /\ AnswersPast(ls)
  /\ Growing(ls)
  /\ Truthful(ls)

\* A header alone is a good log, if the program can be started.
LEMMA HeaderGood ==
  ASSUME NEW h \in HeaderEvents, RestoredFrom(<<h>>) # NoDriver
  PROVE  GoodLog(<<h>>)
<1> DEFINE ls == <<h>>
<1>1. IsLog(ls) /\ RestoredFrom(ls) = Start(h.program, h.params)
  BY RestoredHeader
<1>2. Sound(RestoredFrom(ls))
  <2>1. h.program \in Programs /\ h.params \in Params
    BY DEF HeaderEvents
  <2>2. Entry[<<h.program, h.params>>] \in GenStates
    BY <2>1, ProgramAssumption
  <2> QED BY <1>1, <2>1, <2>2, LaunchSound DEF Start
<1>3. DOMAIN ls = {1} /\ ls[1] = h /\ h.type # "result" /\ h.type # "yield"
  BY EventKinds
<1> HIDE DEF ls
<1>4. AnswersPast(ls) /\ Growing(ls) /\ Truthful(ls)
  BY <1>3 DEF AnswersPast, Growing, Truthful
<1>5. QED BY <1>1, <1>2, <1>4 DEF GoodLog, ls

\* So does a log to which the yield of its driver is appended.
LEMMA YieldGood ==
  ASSUME NEW ls, GoodLog(ls)
  PROVE  /\ GoodLog(Append(ls, YieldEvent(RestoredFrom(ls))))
         /\ RestoredFrom(Append(ls, YieldEvent(RestoredFrom(ls)))) = RestoredFrom(ls)
<1> DEFINE d  == RestoredFrom(ls)
           e  == YieldEvent(d)
           ks == Append(ls, e)
<1>1. /\ ls \in Seq(Events) /\ Len(ls) \in Nat /\ DOMAIN ls = 1..Len(ls)
      /\ Sound(d) /\ d \in Drivers /\ d # NoDriver
  BY NoDriverAssumption DEF GoodLog, IsLog, Sound
<1>2. e \in YieldEvents /\ e.payload = d.last_yield
  BY <1>1 DEF YieldEvent, YieldEvents, Drivers
<1>3. e \in Events /\ e.type = "yield"
  BY <1>2, EventKinds
<1>4. IsLog(ks) /\ RestoredFrom(ks) = d
  BY <1>1, <1>2, <1>3, RestoredAppend, FeedOther DEF GoodLog, MaybeDrivers
<1>5. /\ DOMAIN ks = 1..(Len(ls) + 1) /\ ks[Len(ls) + 1] = e
      /\ \A i \in 1..Len(ls) : ks[i] = ls[i]
      /\ SubSeq(ks, 1, Len(ls) + 1) = ks
  BY <1>1, <1>3
<1>6. \A i \in 1..Len(ls) : SubSeq(ks, 1, i) = SubSeq(ls, 1, i)
  BY <1>1, <1>3, Beginnings
<1> HIDE DEF ks, e, d
<1>7. \A i \in DOMAIN ks : i \in DOMAIN ls \/ i = Len(ls) + 1
  BY <1>1, <1>5
<1>8. AnswersPast(ks)
  BY <1>1, <1>3, <1>4, <1>5, <1>7 DEF GoodLog, AnswersPast, d
<1>9. Growing(ks)
  BY <1>1, <1>3, <1>5, <1>7 DEF GoodLog, Growing
<1>10. Truthful(ks)
  BY <1>1, <1>2, <1>4, <1>5, <1>6, <1>7 DEF GoodLog, Truthful
<1>11. QED BY <1>1, <1>4, <1>8, <1>9, <1>10 DEF GoodLog, ks, e, d

\* Nor does a result for the step awaited.
LEMMA ResultGood ==
  ASSUME ResultsJudged, NEW ls, GoodLog(ls), ~ IsTerminal(RestoredFrom(ls)),
         NEW r \in Results
  PROVE  LET d  == RestoredFrom(ls)
             ks == Append(ls, ResultEvent(d.step_no, r))
         IN  /\ GoodLog(ks)
             /\ RestoredFrom(ks) = Send(d, r)
             /\ Moved(d, RestoredFrom(ks))
<1> DEFINE d  == RestoredFrom(ls)
           e  == ResultEvent(d.step_no, r)
           ks == Append(ls, e)
           q  == Send(d, r)
<1>1. /\ ls \in Seq(Events) /\ Len(ls) \in Nat /\ DOMAIN ls = 1..Len(ls)
      /\ Sound(d) /\ d \in Drivers /\ d.step_no \in Nat
  BY DEF GoodLog, IsLog, Sound, Drivers
<1>2. e \in ResultEvents /\ e.for_step_no = d.step_no
  BY <1>1 DEF ResultEvent, ResultEvents
<1>3. e \in Events /\ e.type = "result"
  BY <1>2, EventKinds
<1>4. IsLog(ks) /\ RestoredFrom(ks) = q
  BY <1>1, <1>3, RestoredAppend, FeedResult DEF GoodLog
<1>5. Moved(d, q)
  BY <1>1, SendAdvances
<1>6. /\ DOMAIN ks = 1..(Len(ls) + 1) /\ ks[Len(ls) + 1] = e
      /\ \A i \in 1..Len(ls) : ks[i] = ls[i]
  BY <1>1, <1>3
<1>7. \A i \in 1..Len(ls) : SubSeq(ks, 1, i) = SubSeq(ls, 1, i)
  BY <1>1, <1>3, Beginnings
<1>8. /\ Sound(q) /\ q.step_no \in Nat /\ q.step_no >= d.step_no
      /\ ~ IsTerminal(q) => q.step_no > d.step_no
  BY <1>1, <1>5 DEF Moved, Sound, Drivers
<1>9. \A i \in DOMAIN ls : ls[i].type = "result" =>
        ls[i].for_step_no \in Nat /\ ls[i].for_step_no < d.step_no
  BY DEF GoodLog, AnswersPast
<1> HIDE DEF ks, e, d, q
<1>10. \A i \in DOMAIN ks : i \in DOMAIN ls \/ i = Len(ls) + 1
  BY <1>1, <1>6
<1>11. AnswersPast(ks)
  <2> SUFFICES ASSUME NEW i \in DOMAIN ks, ks[i].type = "result"
               PROVE  /\ ks[i].for_step_no \in Nat
                      /\ ks[i].for_step_no <= q.step_no
                      /\ ~ IsTerminal(q) => ks[i].for_step_no < q.step_no
    BY <1>4 DEF AnswersPast
  <2>1. ks[i].for_step_no \in Nat /\ ks[i].for_step_no <= d.step_no
    BY <1>1, <1>2, <1>6, <1>9, <1>10
  <2> QED BY <1>1, <1>8, <2>1
<1>12. Growing(ks)
  <2> SUFFICES ASSUME NEW i \in DOMAIN ks, NEW j \in DOMAIN ks, i < j,
                      ks[i].type = "result", ks[j].type = "result"
               PROVE  ks[i].for_step_no < ks[j].for_step_no
    BY DEF Growing
  <2>1. i \in DOMAIN ls /\ ks[i] = ls[i]
    BY <1>1, <1>6
  <2>2. CASE j \in DOMAIN ls
    BY <1>1, <1>6, <2>1, <2>2 DEF GoodLog, Growing
  <2>3. CASE j = Len(ls) + 1
    BY <1>2, <1>6, <1>9, <2>1, <2>3
  <2> QED BY <1>10, <2>2, <2>3
<1>13. Truthful(ks)
  BY <1>1, <1>3, <1>6, <1>7, <1>10 DEF GoodLog, Truthful
<1>14. QED BY <1>1, <1>4, <1>5, <1>8, <1>11, <1>12, <1>13 DEF GoodLog, ks, e, d, q

\* A good log stays good, and its run stays or moves, as long as it exists.
LEMMA LogMoves ==
  ASSUME ResultsJudged, NEW ls, NEW ks, GoodLog(ls), LogStep(ls, ks), ks # <<>>
  PROVE  LET d == RestoredFrom(ls)
             e == RestoredFrom(ks)
         IN  GoodLog(ks) /\ (e = d \/ (~ IsTerminal(d) /\ Moved(d, e)))
<1>1. ks = ls \/ Grows(ls, ks)
  BY DEF LogStep, GoodLog, IsLog
<1>2. CASE Grows(ls, ks)
  BY <1>2, YieldGood, ResultGood DEF Grows
<1>3. QED BY <1>1, <1>2

-----------------------------------------------------------------------------
(* The theorems on histories.                                                *)

AllGood == \A id \in Ids : disk[id].lines # <<>> => GoodLog(disk[id].lines)

\* The run is where the agent was told it is, or further on.
Caught(d, t) == NotBehind(d, t) /\ (IsTerminal(t) => d = t)

ToldBehind ==
  \A id \in Ids :
    told[id] # NoDriver => Caught(RestoredFrom(disk[id].lines), told[id])

HistoryInv == RecoveryInv /\ AllGood /\ ToldBehind

\* What the agent was told has a log.
LEMMA ToldHasLog ==
  ASSUME RecoveryInv, NEW id \in Ids, told[id] # NoDriver
  PROVE  disk[id].lines # <<>>
<1>1. Len(<<>>) = 0
  OBVIOUS
<1>2. QED BY <1>1 DEF RecoveryInv, InLog

\* The steps of logs keep them good (persistence.py:71-75).
LEMMA AllGoodKept ==
  ASSUME ResultsJudged, RecoveryInv', AllGood, LogSteps
  PROVE  AllGood'
<1> SUFFICES ASSUME NEW id \in Ids, disk'[id].lines # <<>>
             PROVE  GoodLog(disk'[id].lines)
  BY DEF AllGood
<1> DEFINE ls == disk[id].lines
           ks == disk'[id].lines
<1>1. LogStep(ls, ks)
  BY DEF LogSteps
<1>2. CASE ls # <<>>
  BY <1>1, <1>2, LogMoves DEF AllGood
<1>3. CASE ls = <<>>
  <2>1. PICK h \in HeaderEvents : ks = <<h>>
    BY <1>1, <1>3 DEF LogStep, Grows, IsLog
  <2>2. RestoredFrom(<<h>>) # NoDriver
    BY <2>1 DEF RecoveryInv, WholeLines
  <2> QED BY <2>1, <2>2, HeaderGood
<1>4. QED BY <1>2, <1>3

\* A run that has got somewhere stays there or goes on.
LEMMA StaysAhead ==
  ASSUME ResultsJudged, NEW ls, NEW ks, GoodLog(ls), LogStep(ls, ks), ks # <<>>,
         NEW t \in Drivers, Caught(RestoredFrom(ls), t)
  PROVE  Caught(RestoredFrom(ks), t)
<1> DEFINE d == RestoredFrom(ls)
           e == RestoredFrom(ks)
<1>1. e = d \/ (~ IsTerminal(d) /\ Moved(d, e))
  BY LogMoves
<1>2. d.step_no \in Nat /\ t.step_no \in Nat
  BY DEF GoodLog, Sound, Drivers
<1> HIDE DEF d, e
<1>3. CASE e = d
  BY <1>3 DEF d, e
<1>4. CASE ~ IsTerminal(d) /\ Moved(d, e)
  <2>1. e.step_no = d.step_no + (IF IsTerminal(e) THEN 0 ELSE 1)
    BY <1>4 DEF Moved
  <2>2. ~ IsTerminal(t) /\ d.step_no >= t.step_no
    BY <1>2, <1>4 DEF Caught, NotBehind, d
  <2>3. d.step_no = t.step_no \/ d.step_no > t.step_no
    BY <1>2, <2>2
  <2>4. NotBehind(e, t)
    BY <1>2, <2>1, <2>2, <2>3 DEF NotBehind
  <2> QED BY <2>2, <2>4 DEF Caught, e
<1>5. QED BY <1>1, <1>3, <1>4

\* While a run exists it stays ahead of what the agent was told.
LEMMA AheadKept ==
  ASSUME ResultsJudged, RecoveryInv, RecoveryInv', AllGood, ToldBehind, LogSteps,
         NEW id \in Ids, told[id] # NoDriver, disk'[id].lines # <<>>
  PROVE  Caught(RestoredFrom(disk'[id].lines), told[id])
<1>1. GoodLog(disk[id].lines) /\ Caught(RestoredFrom(disk[id].lines), told[id])
  BY ToldHasLog DEF AllGood, ToldBehind
<1>2. told[id] \in Drivers
  BY DEF RecoveryInv, TypeInv, TypeOK
<1>3. QED BY <1>1, <1>2, StaysAhead DEF LogSteps

\* A report is what it was, or what the log now replays to.
LEMMA NewsFromLog ==
  ASSUME RecoveryInv', LogSteps, NEW id \in Ids, told'[id] # NoDriver
  PROVE  \/ told'[id] = told[id]
         \/ told'[id] = RestoredFrom(disk'[id].lines)
<1>1. CASE told' = told
  BY <1>1
<1>2. CASE /\ call' = Idle
           /\ \A i \in Ids : told'[i] \in {told[i], driver'[i], NoDriver}
  <2>1. CASE told'[id] = driver'[id]
    BY <1>2, <2>1 DEF RecoveryInv, InMemory, Loaded, Unborn
  <2> QED BY <1>2, <2>1
<1>3. QED BY <1>1, <1>2 DEF LogSteps

\* So no report gets ahead of its run, or off its way.
LEMMA ToldBehindKept ==
  ASSUME ResultsJudged, RecoveryInv, RecoveryInv', AllGood, ToldBehind, LogSteps
  PROVE  ToldBehind'
<1> SUFFICES ASSUME NEW id \in Ids, told'[id] # NoDriver
             PROVE  Caught(RestoredFrom(disk'[id].lines), told'[id])
  BY DEF ToldBehind
<1>1. disk'[id].lines # <<>>
  <2>1. Len(<<>>) = 0
    OBVIOUS
  <2> QED BY <2>1 DEF RecoveryInv, InLog
<1>2. CASE told'[id] = told[id]
  BY <1>1, <1>2, AheadKept
<1>3. CASE told'[id] = RestoredFrom(disk'[id].lines)
  BY <1>3 DEF Caught, NotBehind
<1>4. QED BY <1>2, <1>3, NewsFromLog

\* There is nothing yet.
LEMMA InitHistory == Init => HistoryInv
<1> SUFFICES ASSUME Init PROVE HistoryInv
  OBVIOUS
<1>1. NoFile.lines = <<>>
  BY DEF NoFile
<1>2. AllGood /\ ToldBehind
  BY <1>1 DEF Init, AllGood, ToldBehind
<1>3. QED BY <1>2, InitRecovery DEF HistoryInv

\* Every step keeps the invariant.
LEMMA NextHistory ==
  ASSUME HistoryInv, [Next]_vars, NothingFails, ResultsJudged, ParamsSpared
  PROVE  HistoryInv' /\ LogSteps
<1>1. RecoveryInv' /\ LogSteps
  BY NextRecovery, NextLogSteps DEF HistoryInv
<1>2. QED BY <1>1, AllGoodKept, ToldBehindKept DEF HistoryInv

\* So it holds at all times.
LEMMA HistoryInvariance ==
  ASSUME NothingFails, ResultsJudged, ParamsSpared
  PROVE  Spec => []HistoryInv
<1>1. HistoryInv /\ [Next]_vars => HistoryInv'
  BY NextHistory
<1>2. QED BY InitHistory, <1>1, PTL DEF Spec

\* The step numbers of the results of a log grow.
LEMMA HistoryAnswersOnce ==
  ASSUME HistoryInv
  PROVE  OneResultPerStep
<1> SUFFICES ASSUME NEW id \in Ids,
                    NEW i \in DOMAIN disk[id].lines,
                    NEW j \in DOMAIN disk[id].lines,
                    i < j,
                    disk[id].lines[i].type = "result",
                    disk[id].lines[j].type = "result"
             PROVE  disk[id].lines[i].for_step_no < disk[id].lines[j].for_step_no
  BY DEF OneResultPerStep
<1>1. disk[id].lines # <<>>
  OBVIOUS
<1> QED BY <1>1 DEF HistoryInv, AllGood, GoodLog, Growing

\* No step is answered twice, however long the log and whatever crashes and
\* resumes there were in between (tools.py:286-297).
THEOREM StepsAnsweredOnce ==
  ASSUME NothingFails, ResultsJudged, ParamsSpared
  PROVE  Spec => []OneResultPerStep
<1>1. HistoryInv => OneResultPerStep
  BY HistoryAnswersOnce
<1>2. QED BY HistoryInvariance, <1>1, PTL

\* Every logged yield is the one that replay yields there (persistence.py:11-12).
THEOREM YieldsAreReplayed ==
  ASSUME NothingFails, ResultsJudged, ParamsSpared
  PROVE  Spec => []LoggedYieldsTrue
<1>1. ASSUME HistoryInv
      PROVE  LoggedYieldsTrue
  <2> SUFFICES ASSUME NEW id \in Ids, NEW i \in DOMAIN disk[id].lines,
                      disk[id].lines[i].type = "yield"
               PROVE  LET d == RestoredFrom(SubSeq(disk[id].lines, 1, i))
                      IN  d # NoDriver /\ d.last_yield = disk[id].lines[i].payload
    BY DEF LoggedYieldsTrue
  <2>1. disk[id].lines # <<>>
    OBVIOUS
  <2> QED BY <1>1, <2>1 DEF HistoryInv, AllGood, GoodLog, Truthful
<1>2. QED BY HistoryInvariance, <1>1, PTL

\* The agent never sees an instance go back, across crashes, sweeps, closes and
\* resumes (tools.py:279-292, 375-388).
THEOREM ReportsNeverRewind ==
  ASSUME NothingFails, ResultsJudged, ParamsSpared
  PROVE  Spec => ToldNeverRewinds
<1>1. ASSUME HistoryInv, [Next]_vars
      PROVE  [\A id \in Ids :
                told[id] # NoDriver /\ told'[id] # NoDriver =>
                  /\ NotBehind(told'[id], told[id])
                  /\ IsTerminal(told[id]) => told'[id] = told[id]]_vars
  <2> SUFFICES ASSUME NEW id \in Ids, told[id] # NoDriver, told'[id] # NoDriver
               PROVE  Caught(told'[id], told[id])
    BY DEF Caught
  <2>1. HistoryInv' /\ LogSteps
    BY <1>1, NextHistory
  <2>2. disk'[id].lines # <<>>
    <3>1. Len(<<>>) = 0
      OBVIOUS
    <3> QED BY <2>1, <3>1 DEF HistoryInv, RecoveryInv, InLog
  <2>3. Caught(RestoredFrom(disk'[id].lines), told[id])
    BY <1>1, <2>1, <2>2, AheadKept DEF HistoryInv
  <2>4. CASE told'[id] = told[id]
    BY <2>4 DEF Caught, NotBehind
  <2> QED BY <2>1, <2>3, <2>4, NewsFromLog DEF HistoryInv
<1>2. QED BY HistoryInvariance, <1>1, PTL DEF Spec, ToldNeverRewinds

-----------------------------------------------------------------------------
(* Sequencer implements DurableRun.                                          *)

\* DurableRun knows the same programs.
LEMMA SameRuns ==
  /\ \A d : Runs!IsTerminal(d) = IsTerminal(d)
  /\ \A p, a : Runs!Start(p, a) = Start(p, a)
  /\ \A d, r : Runs!SendRaises(d, r) = SendRaises(d, r)
  /\ \A d, r : Runs!Send(d, r) = Send(d, r)
<1>1. \A d : Runs!IsTerminal(d) = IsTerminal(d)
  BY DEF Runs!IsTerminal, Runs!TerminalStates, IsTerminal, TerminalStates
<1>2. \A d, r : Runs!SendRaises(d, r) = SendRaises(d, r)
  BY DEF Runs!SendRaises, Runs!Verdict, SendRaises, Verdict
<1>3. \A d, g : Runs!Reach(d, g) = Reach(d, g)
  BY DEF Runs!Reach, Runs!Issue, Runs!Done, Runs!Abort, Runs!Fail, Runs!Finish,
     Reach, Issue, Done, Abort, Fail, Finish
<1>4. \A p, g : Runs!Launch(p, g) = Launch(p, g)
  BY <1>3 DEF Runs!Launch, Runs!NewDriver, Launch, NewDriver
<1>5. \A p, a : Runs!Start(p, a) = Start(p, a)
  BY <1>4 DEF Runs!Start, Start
<1>6. \A d, r, g : Runs!SendTo(d, r, g) = SendTo(d, r, g)
  BY <1>3 DEF Runs!SendTo, Runs!Verdict, Runs!Issue, Runs!Abort, Runs!Fail,
     Runs!Finish, SendTo, Verdict, Issue, Abort, Fail, Finish
<1>7. \A d, r : Runs!Send(d, r) = Send(d, r)
  BY <1>6 DEF Runs!Send, Send
<1>8. QED BY <1>1, <1>2, <1>5, <1>7

\* The run of which ls is the log.
RunOf(ls) == IF ls = <<>> THEN NoDriver ELSE RestoredFrom(ls)

\* A whole file is mapped to the run of its lines.
LEMMA RunIsLog ==
  ASSUME NEW f, f.tail = Clean, f.lines # <<>> => f.present
  PROVE  Restored(f) = RunOf(f.lines)
<1>1. AllLines(f) = f.lines
  BY DEF AllLines
<1>2. ~ HasHeader(<<>>)
  BY DEF HasHeader
<1>3. RestoredFrom(<<>>) = NoDriver
  BY <1>2 DEF RestoredFrom, RestoredWith
<1>4. QED BY <1>1, <1>3 DEF Restored, RunOf

\* The run of id before and after a step.
Before(id) == RunOf(disk[id].lines)
After(id)  == RunOf(disk'[id].lines)

\* The runs of the step, as functions.
Mapped ==
  /\ [id \in Ids |-> Restored(disk[id])]  = [id \in Ids |-> Before(id)]
  /\ [id \in Ids |-> Restored(disk'[id])] = [id \in Ids |-> After(id)]
  /\ told \in [Ids -> MaybeDrivers]

Moves == [Runs!RunNext]_(Runs!runVars)

\* The mapping of DurableRun's `run` before and after a step.
LEMMA StepMapped ==
  ASSUME RecoveryInv, RecoveryInv'
  PROVE  Mapped
<1>1. \A id \in Ids : Restored(disk[id]) = Before(id)
  BY RunIsLog DEF RecoveryInv, WholeLines, Before
<1>2. \A id \in Ids : Restored(disk'[id]) = After(id)
  BY RunIsLog DEF RecoveryInv, WholeLines, After
<1>3. QED BY <1>1, <1>2 DEF Mapped, RecoveryInv, TypeInv, TypeOK, MaybeDrivers

\* No run moves, and nothing is told.
LEMMA Stutters ==
  ASSUME Mapped, \A id \in Ids : After(id) = Before(id), told' = told
  PROVE  Moves
BY DEF Mapped, Moves, Runs!runVars

\* The agent is told where a run is, that does not move.
LEMMA Reports ==
  ASSUME Mapped, \A id \in Ids : After(id) = Before(id),
         NEW id \in Ids, Before(id) # NoDriver,
         told' = [told EXCEPT ![id] = Before(id)]
  PROVE  Moves
<1>1. Runs!Report(id)
  BY DEF Mapped, Runs!Report
<1>2. QED BY <1>1 DEF Moves, Runs!RunNext

\* Logs are deleted, and runs with them.
LEMMA Deletes ==
  ASSUME Mapped, NEW S \in SUBSET Ids,
         \A id \in Ids : After(id) = IF id \in S THEN NoDriver ELSE Before(id),
         told' = [id \in Ids |-> IF id \in S THEN NoDriver ELSE told[id]]
  PROVE  Moves
<1>1. Runs!Delete(S)
  BY DEF Mapped, Runs!Delete
<1>2. QED BY <1>1 DEF Moves, Runs!RunNext

\* An append begins a run, makes it take a result, or leaves it.
LEMMA Appends ==
  ASSUME RecoveryInv, RecoveryInv', AllGood, ResultsJudged, Mapped, told' = told,
         NEW id \in Ids, \A i \in Ids \ {id} : disk'[i] = disk[i],
         LogStep(disk[id].lines, disk'[id].lines), disk'[id].lines # <<>>
  PROVE  Moves
<1> DEFINE ls == disk[id].lines
           ks == disk'[id].lines
<1>1. \A i \in Ids \ {id} : After(i) = Before(i)
  BY DEF After, Before
<1>2. [i \in Ids |-> After(i)] = [[i \in Ids |-> Before(i)] EXCEPT ![id] = After(id)]
  BY <1>1
<1>3. CASE ks = ls
  BY <1>1, <1>3, Stutters DEF After, Before
<1>4. CASE ls = <<>> /\ \E h \in HeaderEvents : ks = <<h>>
  <2>1. PICK h \in HeaderEvents : ks = <<h>>
    BY <1>4
  <2> DEFINE p == h.program
             a == h.params
  <2>2. p \in Programs /\ a \in Params
    BY DEF HeaderEvents
  <2>3. After(id) = Start(p, a) /\ After(id) # NoDriver
    BY <2>1, RestoredHeader DEF After, RunOf, RecoveryInv, WholeLines
  <2>4. Before(id) = NoDriver /\ told[id] = NoDriver
    BY <1>4, ToldHasLog DEF Before, RunOf
  <2> HIDE DEF p, a, ls, ks
  <2>5. Runs!Begin(id, p, a)
    BY <1>2, <2>3, <2>4, SameRuns DEF Mapped, Runs!Begin
  <2> QED BY <2>2, <2>5 DEF Moves, Runs!RunNext
<1>5. CASE Grows(ls, ks)
  <2> DEFINE d == RestoredFrom(ls)
  <2>1. ls # <<>> /\ GoodLog(ls) /\ d \in Drivers /\ d # NoDriver /\ Before(id) = d
    BY <1>5, NoDriverAssumption DEF Grows, IsLog, AllGood, Before, RunOf
  <2>2. CASE ks = Append(ls, YieldEvent(d))
    <3>1. After(id) = Before(id)
      BY <2>1, <2>2, YieldGood DEF After, RunOf
    <3> QED BY <1>1, <3>1, Stutters
  <2>3. CASE ~ IsTerminal(d) /\ \E r \in Results : ks = Append(ls, ResultEvent(d.step_no, r))
    <3>1. PICK r \in Results : ks = Append(ls, ResultEvent(d.step_no, r))
      BY <2>3
    <3>2. After(id) = Send(d, r)
      BY <2>1, <2>3, <3>1, ResultGood DEF After, RunOf
    <3>3. ~ SendRaises(d, r)
      BY <2>1, SendJudges
    <3> HIDE DEF d, ls, ks
    <3>4. Runs!Accept(id, r)
      BY <1>2, <2>1, <2>3, <3>2, <3>3, SameRuns DEF Mapped, Runs!Accept
    <3> QED BY <3>4 DEF Moves, Runs!RunNext
  <2> QED BY <1>5, <2>2, <2>3 DEF Grows
<1>6. QED BY <1>3, <1>4, <1>5 DEF LogStep

\* An instance in memory is at its run, unless a call has just begun.
LEMMA MemoryIsRun ==
  ASSUME RecoveryInv, NEW id \in Ids, Loaded(id), ~ Unborn(id)
  PROVE  Before(id) = driver[id]
BY DEF RecoveryInv, InMemory, Before, RunOf

\* Each step of the server is a step of the runs, or none.
LEMMA NextMoves ==
  ASSUME HistoryInv, HistoryInv', [Next]_vars, NothingFails, ResultsJudged
  PROVE  Moves
<1>1. /\ disk \in [Ids -> Files] /\ told \in [Ids -> MaybeDrivers]
      /\ RecoveryInv /\ RecoveryInv' /\ AllGood /\ Mapped
  BY StepMapped DEF HistoryInv, RecoveryInv, TypeInv, TypeOK, MaybeDrivers
<1>2. NoFile.lines = <<>> /\ EmptyFile.lines = <<>>
  BY DEF NoFile, EmptyFile
<1>3. ASSUME disk' = disk, told' = told
      PROVE  Moves
  BY <1>1, <1>3, Stutters DEF After, Before
<1>4. CASE StartCall
  <2>1. PICK E \in SUBSET Sweepable, rescan \in BOOLEAN,
             name \in Names, a \in Params, id \in Ids :
          SequencerStart(E, rescan, name, a, id)
    BY <1>4 DEF StartCall
  <2>2. disk' = [disk EXCEPT ![id] = EmptyFile] /\ told' = told /\ id \notin used
    BY <1>1, <2>1, ClosedSame DEF SequencerStart
  <2>3. disk[id].lines = <<>>
    BY <1>1, <1>2, <2>2 DEF RecoveryInv, Drawn
  <2>4. \A i \in Ids : disk'[i].lines = disk[i].lines
    BY <1>1, <1>2, <2>2, <2>3
  <2> QED BY <1>1, <2>2, <2>4, Stutters DEF After, Before
<1>5. CASE CurrentCall
  <2>1. PICK E \in SUBSET Sweepable, id \in Ids : SequencerCurrent(E, id)
    BY <1>5 DEF CurrentCall
  <2>2. /\ disk' = disk /\ call = Idle /\ Loaded(id)
        /\ told' = [told EXCEPT ![id] = driver[id]]
    BY <1>1, <2>1, ClosedSame DEF SequencerCurrent, Enter
  <2>3. Before(id) = driver[id] /\ driver[id] # NoDriver
    BY <1>1, <2>2, MemoryIsRun DEF Unborn, Loaded
  <2> QED BY <1>1, <2>2, <2>3, Reports DEF After, Before
<1>6. CASE ResumeCall
  <2>1. PICK E \in SUBSET Sweepable, rescan \in BOOLEAN, id \in Ids :
          SequencerResume(E, rescan, id)
    BY <1>6 DEF ResumeCall
  <2>2. PICK d : /\ disk' = disk /\ call' = Idle /\ d # NoDriver
                 /\ driver' = [Kept(E) EXCEPT ![id] = d]
                 /\ told' = [told EXCEPT ![id] = d]
    BY <1>1, <2>1, ClosedSame DEF SequencerResume, Enter
  <2>3. driver'[id] = d
    BY <2>2 DEF Kept
  <2>4. After(id) = d
    BY <1>1, <2>2, <2>3 DEF RecoveryInv, InMemory, Loaded, Unborn, After, RunOf
  <2>5. \A i \in Ids : After(i) = Before(i)
    BY <2>2 DEF After, Before
  <2> QED BY <1>1, <2>2, <2>4, <2>5, Reports
<1>7. CASE CloseCall
  <2>1. PICK E \in SUBSET Sweepable, id \in Ids, delete_log \in BOOLEAN :
          SequencerClose(E, id, delete_log)
    BY <1>7 DEF CloseCall
  <2>2. /\ disk' = IF delete_log THEN [disk EXCEPT ![id] = NoFile] ELSE disk
        /\ told' = IF delete_log THEN [told EXCEPT ![id] = NoDriver] ELSE told
    BY <1>1, <2>1, ClosedSame DEF SequencerClose
  <2>3. CASE ~ delete_log
    BY <1>3, <2>2, <2>3
  <2>4. CASE delete_log
    <3>1. \A i \in Ids : After(i) = IF i \in {id} THEN NoDriver ELSE Before(i)
      BY <1>1, <1>2, <2>2, <2>4 DEF After, Before, RunOf
    <3>2. told' = [i \in Ids |-> IF i \in {id} THEN NoDriver ELSE told[i]]
      BY <1>1, <2>2, <2>4
    <3>3. {id} \in SUBSET Ids
      OBVIOUS
    <3> QED BY <1>1, <3>1, <3>2, <3>3, Deletes
  <2> QED BY <2>3, <2>4
<1>8. CASE NextCall \/ OtherCall
  <2>1. disk' = disk /\ told' = told
    BY <1>1, <1>8, ClosedSame DEF NextCall, SequencerNext, OtherCall, Answer
  <2> QED BY <1>3, <2>1
<1>9. CASE LogHeader \/ LogResult
  <2>1. Executing /\ AppendEvent /\ told' = told /\ call.id \in Ids
    BY <1>1, <1>9, UnwrittenType DEF LogHeader, LogResult, RecoveryInv
  <2> QED BY <1>1, <2>1, AppendGrows, Appends
<1>10. CASE LogYield
  <2> DEFINE id == call.id
  <2>1. /\ Executing /\ AppendEvent /\ call' = Idle /\ driver' = driver
        /\ told' = told \/ told' = [told EXCEPT ![id] = driver[id]]
        /\ Head(call.todo).type = "yield"
    BY <1>10 DEF LogYield
  <2>2. call # Idle /\ id \in Ids /\ Loaded(id)
    BY <1>1, <2>1, UnwrittenType DEF Executing, RecoveryInv
  <2>3. ~ Unborn(id)
    <3>1. ~ \E p \in Programs, a \in Params :
              call.todo = <<HeaderEvent(p, ParamsLeft[<<p, a>>]),
                            YieldEvent(driver[id])>>
      <4> SUFFICES ASSUME NEW p \in Programs, NEW a \in Params,
                          call.todo = <<HeaderEvent(p, ParamsLeft[<<p, a>>]),
                                        YieldEvent(driver[id])>>
                   PROVE  FALSE
        OBVIOUS
      <4>1. Head(call.todo) = HeaderEvent(p, ParamsLeft[<<p, a>>])
        BY HeadOfTwo
      <4>2. HeaderEvent(p, ParamsLeft[<<p, a>>]).type = "header"
        BY DEF HeaderEvent
      <4> QED BY <2>1, <4>1, <4>2
    <3>2. \/ call.todo = <<YieldEvent(driver[id])>>
          \/ \E r \in Results :
               call.todo = <<ResultEvent(driver[id].step_no, r)>>
      BY <1>1, <2>2, <3>1 DEF RecoveryInv, Continues
    <3>3. Len(call.todo) = 1
      BY <3>2
    <3> QED BY <3>3 DEF Unborn
  <2>4. Before(id) = driver[id] /\ driver[id] # NoDriver
    BY <1>1, <2>2, <2>3, MemoryIsRun DEF Loaded
  <2>5. After(id) = driver[id]
    BY <1>1, <2>1, <2>2 DEF RecoveryInv, InMemory, Loaded, Unborn, After, RunOf
  <2>6. \A i \in Ids : After(i) = Before(i)
    BY <1>1, <2>1, <2>4, <2>5, AppendGrows DEF After, Before
  <2> QED BY <1>1, <2>1, <2>2, <2>4, <2>6, Stutters, Reports
<1>11. CASE DumpFails
  BY <1>3, <1>11 DEF DumpFails, shared
<1>12. CASE \E orderly \in BOOLEAN : Exit(orderly)
  BY <1>1, <1>3, <1>12, ClosedSame DEF Exit, Leave
<1>13. CASE \E pruned \in SUBSET Ids : ServerStart(pruned)
  <2>1. PICK pruned \in SUBSET Ids : ServerStart(pruned)
    BY <1>13
  <2>2. \A i \in Ids : After(i) = IF i \in pruned THEN NoDriver ELSE Before(i)
    BY <1>2, <2>1 DEF ServerStart, After, Before, RunOf
  <2>3. told' = [i \in Ids |-> IF i \in pruned THEN NoDriver ELSE told[i]]
    BY <2>1 DEF ServerStart
  <2> QED BY <1>1, <2>2, <2>3, Deletes
<1>14. CASE \E name \in Names, p \in Programs \cup {NoProgram} : EditSource(name, p)
  BY <1>3, <1>14 DEF EditSource
<1>15. CASE UNCHANGED vars
  BY <1>3, <1>15 DEF vars, shared
<1>16. QED
  BY <1>1, <1>4, <1>5, <1>6, <1>7, <1>8, <1>9, <1>10, <1>11, <1>12, <1>13, <1>14,
     <1>15, NothingFailed DEF Next, ServerNext

\* With each run taken to be what its log replays to, the server implements the
\* runs of DurableRun, which know of no crash, sweep or resume
\* (persistence.py:13-20).
THEOREM ServerImplementsRuns ==
  ASSUME NothingFails, ResultsJudged, ParamsSpared
  PROVE  Spec => Durable
<1>1. Init => Runs!RunInit
  <2> SUFFICES ASSUME Init PROVE Runs!RunInit
    OBVIOUS
  <2>1. \A id \in Ids : Restored(disk[id]) = NoDriver
    BY DEF Init, NoFile, Restored
  <2> QED BY <2>1 DEF Init, Runs!RunInit
<1>2. HistoryInv /\ [Next]_vars => HistoryInv'
  BY NextHistory
<1>3. HistoryInv /\ HistoryInv' /\ [Next]_vars => Moves
  BY NextMoves
<1>4. HistoryInv /\ HistoryInv' /\ [Next]_vars => [Runs!RunNext]_(Runs!runVars)
  BY <1>3 DEF Moves
<1>5. QED BY InitHistory, <1>1, <1>2, <1>4, PTL DEF Spec, Durable, Runs!RunSpec

-----------------------------------------------------------------------------
(* Another server on the same state directory.                               *)

\* What HistoryInv says of the files, the ids and the reports alone.
FilesInv ==
  /\ source \in Tables
  /\ disk \in [Ids -> Files]
  /\ used \subseteq Ids
  /\ told \in [Ids -> Drivers \cup {NoDriver}]
  /\ \A id \in Ids :
       /\ disk[id].tail = Clean
       /\ disk[id].lines # <<>> =>
            /\ disk[id].present
            /\ IsLog(disk[id].lines)
            /\ RestoredFrom(disk[id].lines) # NoDriver
       /\ id \notin used => disk[id] = NoFile /\ told[id] = NoDriver
  /\ InLog
  /\ AllGood
  /\ ToldBehind

\* A server that keeps its invariant leaves the files so.
LEMMA FilesOfServer ==
  /\ HistoryInv => FilesInv
  /\ HistoryInv' => FilesInv'
<1>1. HistoryInv => FilesInv
  BY DEF HistoryInv, RecoveryInv, TypeInv, TypeOK, WholeLines, Drawn, FilesInv
<1>2. HistoryInv' => FilesInv'
  BY DEF HistoryInv, RecoveryInv, TypeInv, TypeOK, WholeLines, Drawn, FilesInv
<1> QED BY <1>1, <1>2

\* A server keeps its invariant while another one changes the files, if that
\* leaves the logs of its own instances alone.
LEMMA OthersSteps ==
  ASSUME HistoryInv, FilesInv', UNCHANGED local,
         \A id \in Ids : Loaded(id) => disk'[id] = disk[id] /\ id \in used'
  PROVE  HistoryInv'
<1>1. UNCHANGED <<up, registry, driver, log, call>>
  BY DEF local
<1>2. \A id \in Ids : Loaded(id)' = Loaded(id) /\ Unborn(id)' = Unborn(id)
  BY <1>1 DEF Loaded, Unborn
<1>3. TypeInv'
  BY <1>1 DEF HistoryInv, RecoveryInv, TypeInv, TypeOK, CallOK, Loaded, FilesInv
<1>4. WholeLines'
  BY <1>1 DEF HistoryInv, RecoveryInv, WholeLines, FilesInv
<1>5. Drawn'
  BY <1>2 DEF HistoryInv, RecoveryInv, Drawn, FilesInv
<1>6. InMemory'
  BY <1>1, <1>2 DEF HistoryInv, RecoveryInv, InMemory
<1>7. Continues'
  <2> SUFFICES ASSUME call # Idle
               PROVE  Continues'
    BY <1>1 DEF Continues
  <2>1. call.id \in Ids /\ Loaded(call.id)
    BY DEF HistoryInv, RecoveryInv, TypeInv, TypeOK, CallOK, Calls
  <2>2. disk'[call.id] = disk[call.id]
    BY <2>1
  <2> QED BY <1>1, <2>2 DEF HistoryInv, RecoveryInv, Continues
<1>8. DownIsEmpty'
  BY <1>1 DEF HistoryInv, RecoveryInv, DownIsEmpty, Loaded
<1>9. RecoveryInv'
  BY <1>3, <1>4, <1>5, <1>6, <1>7, <1>8 DEF RecoveryInv, FilesInv
<1>10. QED BY <1>9 DEF HistoryInv, FilesInv

\* A server leaves alone the log of an instance that it does not load and
\* whose log it does not remove, and forgets no id.
LEMMA LeavesOthers ==
  ASSUME RecoveryInv, ServerNext, NothingFails
  PROVE  /\ used \subseteq used'
         /\ \A id \in Ids : ~ Loaded(id) /\ ~ Loaded(id)' /\ disk'[id].present =>
              disk'[id] = disk[id]
<1> DEFINE Left(id) == ~ Loaded(id) /\ ~ Loaded(id)' /\ disk'[id].present =>
                         disk'[id] = disk[id]
<1> SUFFICES used \subseteq used' /\ \A id \in Ids : Left(id)
  OBVIOUS
<1>1. /\ disk \in [Ids -> Files] /\ driver \in [Ids -> Drivers \cup {NoDriver}]
      /\ ~ NoFile.present
  BY DEF RecoveryInv, TypeInv, TypeOK, NoFile
<1>2. CASE StartCall
  <2>1. PICK E \in SUBSET Sweepable, rescan \in BOOLEAN,
             name \in Names, a \in Params, id \in Ids :
          SequencerStart(E, rescan, name, a, id)
    BY <1>2 DEF StartCall
  <2>2. PICK d : /\ d # NoDriver /\ driver' = [Kept(E) EXCEPT ![id] = d]
                 /\ disk' = [disk EXCEPT ![id] = EmptyFile]
                 /\ used' = used \cup {id}
    BY <2>1, ClosedSame DEF SequencerStart
  <2>3. driver'[id] # NoDriver
    BY <2>2 DEF Kept
  <2> QED BY <1>1, <2>2, <2>3 DEF Loaded
<1>3. CASE NextCall \/ CurrentCall \/ ResumeCall \/ OtherCall \/ DumpFails
  <2>1. disk' = disk /\ used' = used
    BY <1>3, ClosedSame DEF NextCall, SequencerNext, CurrentCall, SequencerCurrent,
       ResumeCall, SequencerResume, OtherCall, Answer, DumpFails, shared
  <2> QED BY <2>1
<1>4. CASE CloseCall
  <2>1. PICK E \in SUBSET Sweepable, id \in Ids, delete_log \in BOOLEAN :
          SequencerClose(E, id, delete_log)
    BY <1>4 DEF CloseCall
  <2>2. /\ used' = used
        /\ disk' = IF delete_log THEN [disk EXCEPT ![id] = NoFile] ELSE disk
    BY <2>1, ClosedSame DEF SequencerClose
  <2> QED BY <1>1, <2>2
<1>5. CASE LogHeader \/ LogResult \/ LogYield
  <2>1. Executing /\ AppendEvent /\ used' = used
    BY <1>5 DEF LogHeader, LogResult, LogYield
  <2>2. call.id \in Ids /\ Loaded(call.id)
    BY <2>1 DEF Executing, RecoveryInv, TypeInv, TypeOK, CallOK, Calls
  <2> QED BY <1>1, <2>1, <2>2 DEF AppendEvent
<1>6. CASE \E orderly \in BOOLEAN : Exit(orderly)
  <2>1. disk' = disk /\ used' = used
    BY <1>6, ClosedSame DEF Exit, Leave
  <2> QED BY <2>1
<1>7. CASE \E pruned \in SUBSET Ids : ServerStart(pruned)
  BY <1>1, <1>7 DEF ServerStart
<1>8. QED
  BY <1>2, <1>3, <1>4, <1>5, <1>6, <1>7, NothingFailed DEF ServerNext
=============================================================================
