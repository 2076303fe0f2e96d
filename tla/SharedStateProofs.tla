------------------------- MODULE SharedStateProofs -------------------------
(***************************************************************************)
(* Two servers whose users keep an instance on one of them at a time: each *)
(* keeps the invariant of SequencerProofs whatever the other does, so that *)
(* an instance can be handed over, nothing that was told is forgotten, and *)
(* the two together implement DurableRun.                                  *)
(***************************************************************************)
EXTENDS SharedState, TLAPS

\* The lemmas about one server, of the first and of the second.
P1 == INSTANCE SequencerProofs
        WITH up <- up1, registry <- registry1, driver <- driver1,
             log <- log1, call <- call1

P2 == INSTANCE SequencerProofs
        WITH up <- up2, registry <- registry2, driver <- driver2,
             log <- log2, call <- call2

-----------------------------------------------------------------------------
(* The operators of Driver and EventLog are the same in all of the instances *)
(* above: they do not depend on what a server has for itself.                *)

\* What drivers do.
LEMMA SameDrivers ==
  /\ S1!TerminalStates = TerminalStates /\ S2!TerminalStates = TerminalStates
  /\ P1!TerminalStates = TerminalStates /\ P2!TerminalStates = TerminalStates
  /\ \A d :
       /\ S1!IsTerminal(d) = IsTerminal(d)
       /\ S2!IsTerminal(d) = IsTerminal(d)
       /\ P1!IsTerminal(d) = IsTerminal(d)
       /\ P2!IsTerminal(d) = IsTerminal(d)
  /\ S1!Drivers = Drivers /\ S2!Drivers = Drivers
  /\ P1!Drivers = Drivers /\ P2!Drivers = Drivers
  /\ \A d, state, kind :
       /\ S1!Finish(d, state, kind) = Finish(d, state, kind)
       /\ S2!Finish(d, state, kind) = Finish(d, state, kind)
       /\ P1!Finish(d, state, kind) = Finish(d, state, kind)
       /\ P2!Finish(d, state, kind) = Finish(d, state, kind)
  /\ \A d, reissue :
       /\ S1!Issue(d, reissue) = Issue(d, reissue)
       /\ S2!Issue(d, reissue) = Issue(d, reissue)
       /\ P1!Issue(d, reissue) = Issue(d, reissue)
       /\ P2!Issue(d, reissue) = Issue(d, reissue)
  /\ \A d, g :
       /\ S1!Reach(d, g) = Reach(d, g)
       /\ S2!Reach(d, g) = Reach(d, g)
       /\ P1!Reach(d, g) = Reach(d, g)
       /\ P2!Reach(d, g) = Reach(d, g)
  /\ \A p, a :
       /\ S1!Start(p, a) = Start(p, a)
       /\ S2!Start(p, a) = Start(p, a)
       /\ P1!Start(p, a) = Start(p, a)
       /\ P2!Start(p, a) = Start(p, a)
  /\ \A d, r :
       /\ S1!SendRaises(d, r) = SendRaises(d, r)
       /\ S2!SendRaises(d, r) = SendRaises(d, r)
       /\ P1!SendRaises(d, r) = SendRaises(d, r)
       /\ P2!SendRaises(d, r) = SendRaises(d, r)
  /\ \A d, r :
       /\ S1!Verdict(d, r) = Verdict(d, r)
       /\ S2!Verdict(d, r) = Verdict(d, r)
       /\ P1!Verdict(d, r) = Verdict(d, r)
       /\ P2!Verdict(d, r) = Verdict(d, r)
  /\ \A d, r, g :
       /\ S1!SendTo(d, r, g) = SendTo(d, r, g)
       /\ S2!SendTo(d, r, g) = SendTo(d, r, g)
       /\ P1!SendTo(d, r, g) = SendTo(d, r, g)
       /\ P2!SendTo(d, r, g) = SendTo(d, r, g)
  /\ \A d, r :
       /\ S1!Send(d, r) = Send(d, r)
       /\ S2!Send(d, r) = Send(d, r)
       /\ P1!Send(d, r) = Send(d, r)
       /\ P2!Send(d, r) = Send(d, r)
  /\ \A d :
       /\ S1!Unserialisable(d) = Unserialisable(d)
       /\ S2!Unserialisable(d) = Unserialisable(d)
       /\ P1!Unserialisable(d) = Unserialisable(d)
       /\ P2!Unserialisable(d) = Unserialisable(d)
<1>1. /\ S1!TerminalStates = TerminalStates /\ S2!TerminalStates = TerminalStates
      /\ P1!TerminalStates = TerminalStates /\ P2!TerminalStates = TerminalStates
  BY DEF S1!TerminalStates, S2!TerminalStates, P1!TerminalStates,
     P2!TerminalStates, TerminalStates
<1>2. \A d :
        /\ S1!IsTerminal(d) = IsTerminal(d)
        /\ S2!IsTerminal(d) = IsTerminal(d)
        /\ P1!IsTerminal(d) = IsTerminal(d)
        /\ P2!IsTerminal(d) = IsTerminal(d)
  BY <1>1 DEF S1!IsTerminal, S2!IsTerminal, P1!IsTerminal, P2!IsTerminal,
     IsTerminal
<1>3. /\ S1!Drivers = Drivers /\ S2!Drivers = Drivers
      /\ P1!Drivers = Drivers /\ P2!Drivers = Drivers
  BY DEF S1!Drivers, S1!States, S1!LastYields, S2!Drivers, S2!States,
     S2!LastYields, P1!Drivers, P1!States, P1!LastYields, P2!Drivers,
     P2!States, P2!LastYields, Drivers, States, LastYields
<1>4. \A d, state, kind :
        /\ S1!Finish(d, state, kind) = Finish(d, state, kind)
        /\ S2!Finish(d, state, kind) = Finish(d, state, kind)
        /\ P1!Finish(d, state, kind) = Finish(d, state, kind)
        /\ P2!Finish(d, state, kind) = Finish(d, state, kind)
  BY DEF S1!Finish, S2!Finish, P1!Finish, P2!Finish, Finish
<1>5. \A d, reissue :
        /\ S1!Issue(d, reissue) = Issue(d, reissue)
        /\ S2!Issue(d, reissue) = Issue(d, reissue)
        /\ P1!Issue(d, reissue) = Issue(d, reissue)
        /\ P2!Issue(d, reissue) = Issue(d, reissue)
  BY DEF S1!Issue, S2!Issue, P1!Issue, P2!Issue, Issue
<1>6. \A d, g :
        /\ S1!Reach(d, g) = Reach(d, g)
        /\ S2!Reach(d, g) = Reach(d, g)
        /\ P1!Reach(d, g) = Reach(d, g)
        /\ P2!Reach(d, g) = Reach(d, g)
  BY <1>4, <1>5 DEF S1!Reach, S1!Done, S1!Abort, S1!Fail, S2!Reach, S2!Done,
     S2!Abort, S2!Fail, P1!Reach, P1!Done, P1!Abort, P1!Fail, P2!Reach,
     P2!Done, P2!Abort, P2!Fail, Reach, Done, Abort, Fail
<1>7. \A p, a :
        /\ S1!Start(p, a) = Start(p, a)
        /\ S2!Start(p, a) = Start(p, a)
        /\ P1!Start(p, a) = Start(p, a)
        /\ P2!Start(p, a) = Start(p, a)
  BY <1>6 DEF S1!Start, S1!Launch, S1!NewDriver, S2!Start, S2!Launch,
     S2!NewDriver, P1!Start, P1!Launch, P1!NewDriver, P2!Start, P2!Launch,
     P2!NewDriver, Start, Launch, NewDriver
<1>8. \A d, r :
        /\ S1!SendRaises(d, r) = SendRaises(d, r)
        /\ S2!SendRaises(d, r) = SendRaises(d, r)
        /\ P1!SendRaises(d, r) = SendRaises(d, r)
        /\ P2!SendRaises(d, r) = SendRaises(d, r)
  BY DEF S1!SendRaises, S1!Verdict, S2!SendRaises, S2!Verdict, P1!SendRaises,
     P1!Verdict, P2!SendRaises, P2!Verdict, SendRaises, Verdict
<1>9. \A d, r :
        /\ S1!Verdict(d, r) = Verdict(d, r)
        /\ S2!Verdict(d, r) = Verdict(d, r)
        /\ P1!Verdict(d, r) = Verdict(d, r)
        /\ P2!Verdict(d, r) = Verdict(d, r)
  BY DEF S1!Verdict, S2!Verdict, P1!Verdict, P2!Verdict, Verdict
<1>10. \A d, r, g :
        /\ S1!SendTo(d, r, g) = SendTo(d, r, g)
        /\ S2!SendTo(d, r, g) = SendTo(d, r, g)
        /\ P1!SendTo(d, r, g) = SendTo(d, r, g)
        /\ P2!SendTo(d, r, g) = SendTo(d, r, g)
  BY DEF S1!SendTo, S1!Fail, S1!Finish, S1!Verdict, S1!Abort, S1!Issue,
     S1!Reach, S1!Done, S2!SendTo, S2!Fail, S2!Finish, S2!Verdict, S2!Abort,
     S2!Issue, S2!Reach, S2!Done, P1!SendTo, P1!Fail, P1!Finish, P1!Verdict,
     P1!Abort, P1!Issue, P1!Reach, P1!Done, P2!SendTo, P2!Fail, P2!Finish,
     P2!Verdict, P2!Abort, P2!Issue, P2!Reach, P2!Done, SendTo, Fail, Finish,
     Verdict, Abort, Issue, Reach, Done
<1>11. \A d, r :
        /\ S1!Send(d, r) = Send(d, r)
        /\ S2!Send(d, r) = Send(d, r)
        /\ P1!Send(d, r) = Send(d, r)
        /\ P2!Send(d, r) = Send(d, r)
  BY <1>10 DEF S1!Send, S2!Send, P1!Send, P2!Send, Send
<1>12. \A d :
        /\ S1!Unserialisable(d) = Unserialisable(d)
        /\ S2!Unserialisable(d) = Unserialisable(d)
        /\ P1!Unserialisable(d) = Unserialisable(d)
        /\ P2!Unserialisable(d) = Unserialisable(d)
  BY DEF S1!Unserialisable, S2!Unserialisable, P1!Unserialisable,
     P2!Unserialisable, Unserialisable
<1> QED BY <1>1, <1>2, <1>3, <1>4, <1>5, <1>6, <1>7, <1>8, <1>9, <1>10, <1>11,
           <1>12

\* What is written to a log and read from it.
LEMMA SameLogs ==
  /\ S1!Garbled = Garbled /\ S2!Garbled = Garbled
  /\ P1!Garbled = Garbled /\ P2!Garbled = Garbled
  /\ S1!Undecodable = Undecodable /\ S2!Undecodable = Undecodable
  /\ P1!Undecodable = Undecodable /\ P2!Undecodable = Undecodable
  /\ S1!Clean = Clean /\ S2!Clean = Clean
  /\ P1!Clean = Clean /\ P2!Clean = Clean
  /\ S1!NoFile = NoFile /\ S2!NoFile = NoFile
  /\ P1!NoFile = NoFile /\ P2!NoFile = NoFile
  /\ S1!EmptyFile = EmptyFile /\ S2!EmptyFile = EmptyFile
  /\ P1!EmptyFile = EmptyFile /\ P2!EmptyFile = EmptyFile
  /\ S1!NoLog = NoLog /\ S2!NoLog = NoLog
  /\ P1!NoLog = NoLog /\ P2!NoLog = NoLog
  /\ S1!OpenLog = OpenLog /\ S2!OpenLog = OpenLog
  /\ P1!OpenLog = OpenLog /\ P2!OpenLog = OpenLog
  /\ \A p, a :
       /\ S1!HeaderEvent(p, a) = HeaderEvent(p, a)
       /\ S2!HeaderEvent(p, a) = HeaderEvent(p, a)
       /\ P1!HeaderEvent(p, a) = HeaderEvent(p, a)
       /\ P2!HeaderEvent(p, a) = HeaderEvent(p, a)
  /\ \A d :
       /\ S1!YieldEvent(d) = YieldEvent(d)
       /\ S2!YieldEvent(d) = YieldEvent(d)
       /\ P1!YieldEvent(d) = YieldEvent(d)
       /\ P2!YieldEvent(d) = YieldEvent(d)
  /\ \A n, r :
       /\ S1!ResultEvent(n, r) = ResultEvent(n, r)
       /\ S2!ResultEvent(n, r) = ResultEvent(n, r)
       /\ P1!ResultEvent(n, r) = ResultEvent(n, r)
       /\ P2!ResultEvent(n, r) = ResultEvent(n, r)
  /\ \A f, q, b :
       /\ S1!WriteLines(f, q, b) = WriteLines(f, q, b)
       /\ S2!WriteLines(f, q, b) = WriteLines(f, q, b)
       /\ P1!WriteLines(f, q, b) = WriteLines(f, q, b)
       /\ P2!WriteLines(f, q, b) = WriteLines(f, q, b)
  /\ \A ls :
       /\ S1!Decodes(ls) = Decodes(ls)
       /\ S2!Decodes(ls) = Decodes(ls)
       /\ P1!Decodes(ls) = Decodes(ls)
       /\ P2!Decodes(ls) = Decodes(ls)
  /\ \A f :
       /\ S1!AllLines(f) = AllLines(f)
       /\ S2!AllLines(f) = AllLines(f)
       /\ P1!AllLines(f) = AllLines(f)
       /\ P2!AllLines(f) = AllLines(f)
  /\ \A ls, i :
       /\ S1!IsFirstEvent(ls, i) = IsFirstEvent(ls, i)
       /\ S2!IsFirstEvent(ls, i) = IsFirstEvent(ls, i)
       /\ P1!IsFirstEvent(ls, i) = IsFirstEvent(ls, i)
       /\ P2!IsFirstEvent(ls, i) = IsFirstEvent(ls, i)
  /\ \A ls :
       /\ S1!HasHeader(ls) = HasHeader(ls)
       /\ S2!HasHeader(ls) = HasHeader(ls)
       /\ P1!HasHeader(ls) = HasHeader(ls)
       /\ P2!HasHeader(ls) = HasHeader(ls)
  /\ \A f :
       /\ S1!Readable(f) = Readable(f)
       /\ S2!Readable(f) = Readable(f)
       /\ P1!Readable(f) = Readable(f)
       /\ P2!Readable(f) = Readable(f)
  /\ \A ls :
       /\ S1!HeaderOf(ls) = HeaderOf(ls)
       /\ S2!HeaderOf(ls) = HeaderOf(ls)
       /\ P1!HeaderOf(ls) = HeaderOf(ls)
       /\ P2!HeaderOf(ls) = HeaderOf(ls)
  /\ \A d, ls :
       /\ S1!Replay(d, ls) = Replay(d, ls)
       /\ S2!Replay(d, ls) = Replay(d, ls)
       /\ P1!Replay(d, ls) = Replay(d, ls)
       /\ P2!Replay(d, ls) = Replay(d, ls)
  /\ \A p, ls :
       /\ S1!RestoredWith(p, ls) = RestoredWith(p, ls)
       /\ S2!RestoredWith(p, ls) = RestoredWith(p, ls)
       /\ P1!RestoredWith(p, ls) = RestoredWith(p, ls)
       /\ P2!RestoredWith(p, ls) = RestoredWith(p, ls)
  /\ \A ls :
       /\ S1!RestoredFrom(ls) = RestoredFrom(ls)
       /\ S2!RestoredFrom(ls) = RestoredFrom(ls)
       /\ P1!RestoredFrom(ls) = RestoredFrom(ls)
       /\ P2!RestoredFrom(ls) = RestoredFrom(ls)
  /\ \A f :
       /\ S1!Restored(f) = Restored(f)
       /\ S2!Restored(f) = Restored(f)
       /\ P1!Restored(f) = Restored(f)
       /\ P2!Restored(f) = Restored(f)
<1>1. /\ S1!Garbled = Garbled /\ S2!Garbled = Garbled
      /\ P1!Garbled = Garbled /\ P2!Garbled = Garbled
  BY DEF S1!Garbled, S2!Garbled, P1!Garbled, P2!Garbled, Garbled
<1>2. /\ S1!Undecodable = Undecodable /\ S2!Undecodable = Undecodable
      /\ P1!Undecodable = Undecodable /\ P2!Undecodable = Undecodable
  BY DEF S1!Undecodable, S2!Undecodable, P1!Undecodable, P2!Undecodable,
     Undecodable
<1>3. /\ S1!Clean = Clean /\ S2!Clean = Clean
      /\ P1!Clean = Clean /\ P2!Clean = Clean
  BY DEF S1!Clean, S2!Clean, P1!Clean, P2!Clean, Clean
<1>4. /\ S1!NoFile = NoFile /\ S2!NoFile = NoFile
      /\ P1!NoFile = NoFile /\ P2!NoFile = NoFile
  BY <1>3 DEF S1!NoFile, S2!NoFile, P1!NoFile, P2!NoFile, NoFile
<1>5. /\ S1!EmptyFile = EmptyFile /\ S2!EmptyFile = EmptyFile
      /\ P1!EmptyFile = EmptyFile /\ P2!EmptyFile = EmptyFile
  BY <1>3 DEF S1!EmptyFile, S2!EmptyFile, P1!EmptyFile, P2!EmptyFile,
     EmptyFile
<1>6. /\ S1!NoLog = NoLog /\ S2!NoLog = NoLog
      /\ P1!NoLog = NoLog /\ P2!NoLog = NoLog
  BY DEF S1!NoLog, S2!NoLog, P1!NoLog, P2!NoLog, NoLog
<1>7. /\ S1!OpenLog = OpenLog /\ S2!OpenLog = OpenLog
      /\ P1!OpenLog = OpenLog /\ P2!OpenLog = OpenLog
  BY DEF S1!OpenLog, S2!OpenLog, P1!OpenLog, P2!OpenLog, OpenLog
<1>8. \A p, a :
        /\ S1!HeaderEvent(p, a) = HeaderEvent(p, a)
        /\ S2!HeaderEvent(p, a) = HeaderEvent(p, a)
        /\ P1!HeaderEvent(p, a) = HeaderEvent(p, a)
        /\ P2!HeaderEvent(p, a) = HeaderEvent(p, a)
  BY DEF S1!HeaderEvent, S2!HeaderEvent, P1!HeaderEvent, P2!HeaderEvent,
     HeaderEvent
<1>9. \A d :
        /\ S1!YieldEvent(d) = YieldEvent(d)
        /\ S2!YieldEvent(d) = YieldEvent(d)
        /\ P1!YieldEvent(d) = YieldEvent(d)
        /\ P2!YieldEvent(d) = YieldEvent(d)
  BY DEF S1!YieldEvent, S2!YieldEvent, P1!YieldEvent, P2!YieldEvent,
     YieldEvent
<1>10. \A n, r :
        /\ S1!ResultEvent(n, r) = ResultEvent(n, r)
        /\ S2!ResultEvent(n, r) = ResultEvent(n, r)
        /\ P1!ResultEvent(n, r) = ResultEvent(n, r)
        /\ P2!ResultEvent(n, r) = ResultEvent(n, r)
  BY DEF S1!ResultEvent, S2!ResultEvent, P1!ResultEvent, P2!ResultEvent,
     ResultEvent
<1>11. \A f, q, b :
        /\ S1!WriteLines(f, q, b) = WriteLines(f, q, b)
        /\ S2!WriteLines(f, q, b) = WriteLines(f, q, b)
        /\ P1!WriteLines(f, q, b) = WriteLines(f, q, b)
        /\ P2!WriteLines(f, q, b) = WriteLines(f, q, b)
  BY DEF S1!WriteLines, S1!Ended, S1!Clean, S1!Garbled, S1!Glue,
     S1!Undecodable, S2!WriteLines, S2!Ended, S2!Clean, S2!Garbled, S2!Glue,
     S2!Undecodable, P1!WriteLines, P1!Ended, P1!Clean, P1!Garbled, P1!Glue,
     P1!Undecodable, P2!WriteLines, P2!Ended, P2!Clean, P2!Garbled, P2!Glue,
     P2!Undecodable, WriteLines, Ended, Clean, Garbled, Glue, Undecodable
<1>12. \A ls :
        /\ S1!Decodes(ls) = Decodes(ls)
        /\ S2!Decodes(ls) = Decodes(ls)
        /\ P1!Decodes(ls) = Decodes(ls)
        /\ P2!Decodes(ls) = Decodes(ls)
  BY <1>2 DEF S1!Decodes, S2!Decodes, P1!Decodes, P2!Decodes, Decodes
<1>13. \A f :
        /\ S1!AllLines(f) = AllLines(f)
        /\ S2!AllLines(f) = AllLines(f)
        /\ P1!AllLines(f) = AllLines(f)
        /\ P2!AllLines(f) = AllLines(f)
  BY <1>3 DEF S1!AllLines, S2!AllLines, P1!AllLines, P2!AllLines, AllLines
<1>14. \A ls, i :
        /\ S1!IsFirstEvent(ls, i) = IsFirstEvent(ls, i)
        /\ S2!IsFirstEvent(ls, i) = IsFirstEvent(ls, i)
        /\ P1!IsFirstEvent(ls, i) = IsFirstEvent(ls, i)
        /\ P2!IsFirstEvent(ls, i) = IsFirstEvent(ls, i)
  BY <1>1 DEF S1!IsFirstEvent, S2!IsFirstEvent, P1!IsFirstEvent,
     P2!IsFirstEvent, IsFirstEvent
<1>15. \A ls :
        /\ S1!HasHeader(ls) = HasHeader(ls)
        /\ S2!HasHeader(ls) = HasHeader(ls)
        /\ P1!HasHeader(ls) = HasHeader(ls)
        /\ P2!HasHeader(ls) = HasHeader(ls)
  BY <1>14 DEF S1!HasHeader, S2!HasHeader, P1!HasHeader, P2!HasHeader,
     HasHeader
<1>16. \A f :
        /\ S1!Readable(f) = Readable(f)
        /\ S2!Readable(f) = Readable(f)
        /\ P1!Readable(f) = Readable(f)
        /\ P2!Readable(f) = Readable(f)
  BY <1>12, <1>13, <1>15 DEF S1!Readable, S2!Readable, P1!Readable,
     P2!Readable, Readable
<1>17. \A ls :
        /\ S1!HeaderOf(ls) = HeaderOf(ls)
        /\ S2!HeaderOf(ls) = HeaderOf(ls)
        /\ P1!HeaderOf(ls) = HeaderOf(ls)
        /\ P2!HeaderOf(ls) = HeaderOf(ls)
  BY <1>14 DEF S1!HeaderOf, S2!HeaderOf, P1!HeaderOf, P2!HeaderOf, HeaderOf
<1>18. \A d, ls :
        /\ S1!Replay(d, ls) = Replay(d, ls)
        /\ S2!Replay(d, ls) = Replay(d, ls)
        /\ P1!Replay(d, ls) = Replay(d, ls)
        /\ P2!Replay(d, ls) = Replay(d, ls)
  BY DEF S1!Replay, S1!Feed, S1!Drivers, S1!States, S1!LastYields,
     S1!IsTerminal, S1!TerminalStates, S1!SendRaises, S1!Verdict, S1!Send,
     S1!SendTo, S1!Fail, S1!Finish, S1!Abort, S1!Issue, S1!Reach, S1!Done,
     S2!Replay, S2!Feed, S2!Drivers, S2!States, S2!LastYields, S2!IsTerminal,
     S2!TerminalStates, S2!SendRaises, S2!Verdict, S2!Send, S2!SendTo,
     S2!Fail, S2!Finish, S2!Abort, S2!Issue, S2!Reach, S2!Done, P1!Replay,
     P1!Feed, P1!Drivers, P1!States, P1!LastYields, P1!IsTerminal,
     P1!TerminalStates, P1!SendRaises, P1!Verdict, P1!Send, P1!SendTo,
     P1!Fail, P1!Finish, P1!Abort, P1!Issue, P1!Reach, P1!Done, P2!Replay,
     P2!Feed, P2!Drivers, P2!States, P2!LastYields, P2!IsTerminal,
     P2!TerminalStates, P2!SendRaises, P2!Verdict, P2!Send, P2!SendTo,
     P2!Fail, P2!Finish, P2!Abort, P2!Issue, P2!Reach, P2!Done, Replay, Feed,
     Drivers, States, LastYields, IsTerminal, TerminalStates, SendRaises,
     Verdict, Send, SendTo, Fail, Finish, Abort, Issue, Reach, Done
<1>19. \A p, ls :
        /\ S1!RestoredWith(p, ls) = RestoredWith(p, ls)
        /\ S2!RestoredWith(p, ls) = RestoredWith(p, ls)
        /\ P1!RestoredWith(p, ls) = RestoredWith(p, ls)
        /\ P2!RestoredWith(p, ls) = RestoredWith(p, ls)
  BY <1>12, <1>15, <1>17, <1>18, SameDrivers DEF S1!RestoredWith,
     S2!RestoredWith, P1!RestoredWith, P2!RestoredWith, RestoredWith
<1>20. \A ls :
        /\ S1!RestoredFrom(ls) = RestoredFrom(ls)
        /\ S2!RestoredFrom(ls) = RestoredFrom(ls)
        /\ P1!RestoredFrom(ls) = RestoredFrom(ls)
        /\ P2!RestoredFrom(ls) = RestoredFrom(ls)
  BY <1>17, <1>19 DEF S1!RestoredFrom, S2!RestoredFrom, P1!RestoredFrom,
     P2!RestoredFrom, RestoredFrom
<1>21. \A f :
        /\ S1!Restored(f) = Restored(f)
        /\ S2!Restored(f) = Restored(f)
        /\ P1!Restored(f) = Restored(f)
        /\ P2!Restored(f) = Restored(f)
  BY <1>13, <1>20 DEF S1!Restored, S2!Restored, P1!Restored, P2!Restored,
     Restored
<1> QED BY <1>1, <1>2, <1>3, <1>4, <1>5, <1>6, <1>7, <1>8, <1>9, <1>10, <1>11,
           <1>12, <1>13, <1>14, <1>15, <1>16, <1>17, <1>18, <1>19, <1>20,
           <1>21

\* What the handlers of server 1 start with.
LEMMA SameSweep1 ==
  /\ S1!Sweepable = P1!Sweepable
  /\ \A E : S1!Enter(E) <=> P1!Enter(E)
  /\ \A E : S1!Kept(E) = P1!Kept(E)
  /\ \A E : S1!KeptLogs(E) = P1!KeptLogs(E)
  /\ \A E : S1!Closed(E) = P1!Closed(E)
  /\ \A rescan : S1!Rescanned(rescan) = P1!Rescanned(rescan)
BY SameDrivers, SameLogs DEF S1!Sweepable, S1!Loaded, S1!Enter, S1!Idle,
   S1!Kept, S1!KeptLogs, S1!Closed, S1!Rescanned, P1!Sweepable, P1!Loaded,
   P1!Enter, P1!Idle, P1!Kept, P1!KeptLogs, P1!Closed, P1!Rescanned

\* A step of server 1 is one of the steps that the lemmas are about.
LEMMA SameServer1 ==
  /\ S1!Init => P1!Init
  /\ S1!ServerNext => P1!ServerNext
<1>1. S1!Init => P1!Init
  BY SameLogs DEF S1!Init, S1!Tables, S1!Idle, P1!Init, P1!Tables, P1!Idle
<1>2. S1!StartCall => P1!StartCall
  <2>1. ASSUME NEW E, NEW rescan, NEW name, NEW a, NEW id,
               S1!SequencerStart(E, rescan, name, a, id)
        PROVE  P1!SequencerStart(E, rescan, name, a, id)
    BY <2>1, SameDrivers, SameLogs, SameSweep1 DEF S1!SequencerStart,
       P1!SequencerStart
  <2> QED BY <2>1, SameSweep1 DEF S1!StartCall, P1!StartCall
<1>3. S1!NextCall => P1!NextCall
  BY SameDrivers, SameLogs, SameSweep1 DEF S1!NextCall, S1!StepNos,
     S1!SequencerNext, S1!Loaded, S1!Awaits, P1!NextCall, P1!StepNos,
     P1!SequencerNext, P1!Loaded, P1!Awaits
<1>4. S1!CurrentCall => P1!CurrentCall
  BY SameDrivers, SameLogs, SameSweep1 DEF S1!CurrentCall,
     S1!SequencerCurrent, S1!Loaded, P1!CurrentCall, P1!SequencerCurrent,
     P1!Loaded
<1>5. S1!ResumeCall => P1!ResumeCall
  <2>1. ASSUME NEW E, NEW rescan, NEW id,
               S1!SequencerResume(E, rescan, id)
        PROVE  P1!SequencerResume(E, rescan, id)
    BY <2>1, SameDrivers, SameLogs, SameSweep1 DEF S1!SequencerResume,
       S1!SameHash, P1!SequencerResume, P1!SameHash
  <2> QED BY <2>1, SameSweep1 DEF S1!ResumeCall, P1!ResumeCall
<1>6. S1!CloseCall => P1!CloseCall
  BY SameDrivers, SameLogs, SameSweep1 DEF S1!CloseCall, S1!SequencerClose,
     P1!CloseCall, P1!SequencerClose
<1>7. S1!OtherCall => P1!OtherCall
  BY SameDrivers, SameLogs, SameSweep1 DEF S1!OtherCall, S1!Answer,
     P1!OtherCall, P1!Answer
<1>8. S1!LogHeader => P1!LogHeader
  BY SameDrivers, SameLogs, SameSweep1 DEF S1!LogHeader, S1!Executing,
     S1!Idle, S1!AppendEvent, S1!Unwritten, P1!LogHeader, P1!Executing,
     P1!Idle, P1!AppendEvent, P1!Unwritten
<1>9. S1!LogResult => P1!LogResult
  BY SameDrivers, SameLogs, SameSweep1 DEF S1!LogResult, S1!Executing,
     S1!Idle, S1!AppendEvent, S1!Unwritten, P1!LogResult, P1!Executing,
     P1!Idle, P1!AppendEvent, P1!Unwritten
<1>10. S1!LogYield => P1!LogYield
  BY SameDrivers, SameLogs, SameSweep1 DEF S1!LogYield, S1!Executing, S1!Idle,
     S1!AppendEvent, S1!Unwritten, P1!LogYield, P1!Executing, P1!Idle,
     P1!AppendEvent, P1!Unwritten
<1>11. S1!DumpFails => P1!DumpFails
  BY SameDrivers, SameLogs, SameSweep1 DEF S1!DumpFails, S1!Executing,
     S1!Idle, S1!shared, P1!DumpFails, P1!Executing, P1!Idle, P1!shared
<1>12. S1!AppendFails => P1!AppendFails
  BY DEF S1!AppendFails, S1!Executing, S1!Idle, S1!Stops, S1!WriteLines,
     S1!Ended, S1!Clean, S1!Garbled, S1!Glue, S1!Undecodable, S1!WritePart,
     S1!Parts, S1!Unwritten, P1!AppendFails, P1!Executing, P1!Idle, P1!Stops,
     P1!WriteLines, P1!Ended, P1!Clean, P1!Garbled, P1!Glue, P1!Undecodable,
     P1!WritePart, P1!Parts, P1!Unwritten
<1>13. S1!CloseCallFails => P1!CloseCallFails
  BY DEF S1!CloseCallFails, S1!Sweepable, S1!Loaded, S1!IsTerminal,
     S1!TerminalStates, S1!CloseFails, S1!Enter, S1!Idle, S1!Stops,
     S1!WriteLines, S1!Ended, S1!Clean, S1!Garbled, S1!Glue, S1!Undecodable,
     S1!WritePart, S1!Parts, S1!Closed, S1!Kept, S1!KeptLogs, S1!NoLog,
     P1!CloseCallFails, P1!Sweepable, P1!Loaded, P1!IsTerminal,
     P1!TerminalStates, P1!CloseFails, P1!Enter, P1!Idle, P1!Stops,
     P1!WriteLines, P1!Ended, P1!Clean, P1!Garbled, P1!Glue, P1!Undecodable,
     P1!WritePart, P1!Parts, P1!Closed, P1!Kept, P1!KeptLogs, P1!NoLog
<1>14. S1!ExitInAppend => P1!ExitInAppend
  BY DEF S1!ExitInAppend, S1!Executing, S1!Idle, S1!Stops, S1!WriteLines,
     S1!Ended, S1!Clean, S1!Garbled, S1!Glue, S1!Undecodable, S1!WritePart,
     S1!Parts, S1!Unwritten, S1!Leave, S1!NoLog, P1!ExitInAppend,
     P1!Executing, P1!Idle, P1!Stops, P1!WriteLines, P1!Ended, P1!Clean,
     P1!Garbled, P1!Glue, P1!Undecodable, P1!WritePart, P1!Parts,
     P1!Unwritten, P1!Leave, P1!NoLog
<1>15. \A orderly : S1!Exit(orderly) => P1!Exit(orderly)
  BY SameLogs, SameSweep1 DEF S1!Exit, S1!Leave, S1!Idle, P1!Exit, P1!Leave,
     P1!Idle
<1>16. \A pruned : S1!ServerStart(pruned) => P1!ServerStart(pruned)
  BY SameLogs, SameSweep1 DEF S1!ServerStart, P1!ServerStart
<1>17. QED
  BY <1>1, <1>2, <1>3, <1>4, <1>5, <1>6, <1>7, <1>8, <1>9, <1>10, <1>11,
     <1>12, <1>13, <1>14, <1>15, <1>16 DEF S1!ServerNext, P1!ServerNext

\* What the handlers of server 2 start with.
LEMMA SameSweep2 ==
  /\ S2!Sweepable = P2!Sweepable
  /\ \A E : S2!Enter(E) <=> P2!Enter(E)
  /\ \A E : S2!Kept(E) = P2!Kept(E)
  /\ \A E : S2!KeptLogs(E) = P2!KeptLogs(E)
  /\ \A E : S2!Closed(E) = P2!Closed(E)
  /\ \A rescan : S2!Rescanned(rescan) = P2!Rescanned(rescan)
BY SameDrivers, SameLogs DEF S2!Sweepable, S2!Loaded, S2!Enter, S2!Idle,
   S2!Kept, S2!KeptLogs, S2!Closed, S2!Rescanned, P2!Sweepable, P2!Loaded,
   P2!Enter, P2!Idle, P2!Kept, P2!KeptLogs, P2!Closed, P2!Rescanned

\* A step of server 2 is one of the steps that the lemmas are about.
LEMMA SameServer2 ==
  /\ S2!Init => P2!Init
  /\ S2!ServerNext => P2!ServerNext
<1>1. S2!Init => P2!Init
  BY SameLogs DEF S2!Init, S2!Tables, S2!Idle, P2!Init, P2!Tables, P2!Idle
<1>2. S2!StartCall => P2!StartCall
  <2>1. ASSUME NEW E, NEW rescan, NEW name, NEW a, NEW id,
               S2!SequencerStart(E, rescan, name, a, id)
        PROVE  P2!SequencerStart(E, rescan, name, a, id)
    BY <2>1, SameDrivers, SameLogs, SameSweep2 DEF S2!SequencerStart,
       P2!SequencerStart
  <2> QED BY <2>1, SameSweep2 DEF S2!StartCall, P2!StartCall
<1>3. S2!NextCall => P2!NextCall
  BY SameDrivers, SameLogs, SameSweep2 DEF S2!NextCall, S2!StepNos,
     S2!SequencerNext, S2!Loaded, S2!Awaits, P2!NextCall, P2!StepNos,
     P2!SequencerNext, P2!Loaded, P2!Awaits
<1>4. S2!CurrentCall => P2!CurrentCall
  BY SameDrivers, SameLogs, SameSweep2 DEF S2!CurrentCall,
     S2!SequencerCurrent, S2!Loaded, P2!CurrentCall, P2!SequencerCurrent,
     P2!Loaded
<1>5. S2!ResumeCall => P2!ResumeCall
  <2>1. ASSUME NEW E, NEW rescan, NEW id,
               S2!SequencerResume(E, rescan, id)
        PROVE  P2!SequencerResume(E, rescan, id)
    BY <2>1, SameDrivers, SameLogs, SameSweep2 DEF S2!SequencerResume,
       S2!SameHash, P2!SequencerResume, P2!SameHash
  <2> QED BY <2>1, SameSweep2 DEF S2!ResumeCall, P2!ResumeCall
<1>6. S2!CloseCall => P2!CloseCall
  BY SameDrivers, SameLogs, SameSweep2 DEF S2!CloseCall, S2!SequencerClose,
     P2!CloseCall, P2!SequencerClose
<1>7. S2!OtherCall => P2!OtherCall
  BY SameDrivers, SameLogs, SameSweep2 DEF S2!OtherCall, S2!Answer,
     P2!OtherCall, P2!Answer
<1>8. S2!LogHeader => P2!LogHeader
  BY SameDrivers, SameLogs, SameSweep2 DEF S2!LogHeader, S2!Executing,
     S2!Idle, S2!AppendEvent, S2!Unwritten, P2!LogHeader, P2!Executing,
     P2!Idle, P2!AppendEvent, P2!Unwritten
<1>9. S2!LogResult => P2!LogResult
  BY SameDrivers, SameLogs, SameSweep2 DEF S2!LogResult, S2!Executing,
     S2!Idle, S2!AppendEvent, S2!Unwritten, P2!LogResult, P2!Executing,
     P2!Idle, P2!AppendEvent, P2!Unwritten
<1>10. S2!LogYield => P2!LogYield
  BY SameDrivers, SameLogs, SameSweep2 DEF S2!LogYield, S2!Executing, S2!Idle,
     S2!AppendEvent, S2!Unwritten, P2!LogYield, P2!Executing, P2!Idle,
     P2!AppendEvent, P2!Unwritten
<1>11. S2!DumpFails => P2!DumpFails
  BY SameDrivers, SameLogs, SameSweep2 DEF S2!DumpFails, S2!Executing,
     S2!Idle, S2!shared, P2!DumpFails, P2!Executing, P2!Idle, P2!shared
<1>12. S2!AppendFails => P2!AppendFails
  BY DEF S2!AppendFails, S2!Executing, S2!Idle, S2!Stops, S2!WriteLines,
     S2!Ended, S2!Clean, S2!Garbled, S2!Glue, S2!Undecodable, S2!WritePart,
     S2!Parts, S2!Unwritten, P2!AppendFails, P2!Executing, P2!Idle, P2!Stops,
     P2!WriteLines, P2!Ended, P2!Clean, P2!Garbled, P2!Glue, P2!Undecodable,
     P2!WritePart, P2!Parts, P2!Unwritten
<1>13. S2!CloseCallFails => P2!CloseCallFails
  BY DEF S2!CloseCallFails, S2!Sweepable, S2!Loaded, S2!IsTerminal,
     S2!TerminalStates, S2!CloseFails, S2!Enter, S2!Idle, S2!Stops,
     S2!WriteLines, S2!Ended, S2!Clean, S2!Garbled, S2!Glue, S2!Undecodable,
     S2!WritePart, S2!Parts, S2!Closed, S2!Kept, S2!KeptLogs, S2!NoLog,
     P2!CloseCallFails, P2!Sweepable, P2!Loaded, P2!IsTerminal,
     P2!TerminalStates, P2!CloseFails, P2!Enter, P2!Idle, P2!Stops,
     P2!WriteLines, P2!Ended, P2!Clean, P2!Garbled, P2!Glue, P2!Undecodable,
     P2!WritePart, P2!Parts, P2!Closed, P2!Kept, P2!KeptLogs, P2!NoLog
<1>14. S2!ExitInAppend => P2!ExitInAppend
  BY DEF S2!ExitInAppend, S2!Executing, S2!Idle, S2!Stops, S2!WriteLines,
     S2!Ended, S2!Clean, S2!Garbled, S2!Glue, S2!Undecodable, S2!WritePart,
     S2!Parts, S2!Unwritten, S2!Leave, S2!NoLog, P2!ExitInAppend,
     P2!Executing, P2!Idle, P2!Stops, P2!WriteLines, P2!Ended, P2!Clean,
     P2!Garbled, P2!Glue, P2!Undecodable, P2!WritePart, P2!Parts,
     P2!Unwritten, P2!Leave, P2!NoLog
<1>15. \A orderly : S2!Exit(orderly) => P2!Exit(orderly)
  BY SameLogs, SameSweep2 DEF S2!Exit, S2!Leave, S2!Idle, P2!Exit, P2!Leave,
     P2!Idle
<1>16. \A pruned : S2!ServerStart(pruned) => P2!ServerStart(pruned)
  BY SameLogs, SameSweep2 DEF S2!ServerStart, P2!ServerStart
<1>17. QED
  BY <1>1, <1>2, <1>3, <1>4, <1>5, <1>6, <1>7, <1>8, <1>9, <1>10, <1>11,
     <1>12, <1>13, <1>14, <1>15, <1>16 DEF S2!ServerNext, P2!ServerNext

-----------------------------------------------------------------------------
(* The invariants of both servers.                                           *)

\* The assumptions of the lemmas hold.
LEMMA Assumptions ==
  /\ P1!ProgramAssumption /\ P1!NoDriverAssumption /\ P1!WideTextAssumption
  /\ P1!OddYieldsAssumption /\ P1!SequencerAssumption
  /\ P2!ProgramAssumption /\ P2!NoDriverAssumption /\ P2!WideTextAssumption
  /\ P2!OddYieldsAssumption /\ P2!SequencerAssumption
<1>1. P1!Drivers = Drivers /\ P2!Drivers = Drivers
  BY DEF P1!Drivers, P1!States, P1!LastYields, P2!Drivers, P2!States,
     P2!LastYields, Drivers, States, LastYields
<1>2. P1!Reactions = Reactions /\ P2!Reactions = Reactions
  BY DEF P1!Reactions, P2!Reactions, Reactions
<1>3. /\ P1!ProgramAssumption /\ P2!ProgramAssumption
      /\ P1!NoDriverAssumption /\ P2!NoDriverAssumption
  BY <1>1, <1>2, ProgramAssumption, NoDriverAssumption
     DEF P1!ProgramAssumption, P2!ProgramAssumption, P1!NoDriverAssumption,
     P2!NoDriverAssumption
<1>4. /\ P1!WideTextAssumption /\ P2!WideTextAssumption
      /\ P1!OddYieldsAssumption /\ P2!OddYieldsAssumption
  BY WideTextAssumption, OddYieldsAssumption
     DEF P1!WideTextAssumption, P2!WideTextAssumption, P1!OddYieldsAssumption,
     P2!OddYieldsAssumption
<1>5. P1!SequencerAssumption /\ P2!SequencerAssumption
  BY SharedAssumption DEF P1!SequencerAssumption, P2!SequencerAssumption
<1> QED BY <1>3, <1>4, <1>5

\* No append fails, every result can be judged and programs spare their params,
\* as SequencerProofs assumes of each server.
Sparing == P1!NothingFails /\ P1!ResultsJudged /\ P1!ParamsSpared

LEMMA SparingBoth ==
  ASSUME Sparing
  PROVE  P2!NothingFails /\ P2!ResultsJudged /\ P2!ParamsSpared
BY SameDrivers DEF Sparing, P1!NothingFails, P1!ResultsJudged, P1!ParamsSpared,
   P2!NothingFails, P2!ResultsJudged, P2!ParamsSpared

\* The sets and predicates of the invariant are the same for both servers.
LEMMA SameSets ==
  /\ P1!Tables = P2!Tables /\ P1!Files = P2!Files /\ P1!Drivers = P2!Drivers
  /\ P1!Clean = P2!Clean /\ P1!NoFile = P2!NoFile
  /\ \A ls : P1!IsLog(ls) <=> P2!IsLog(ls)
  /\ \A ls : P1!RestoredFrom(ls) = P2!RestoredFrom(ls)
  /\ \A ls : P1!GoodLog(ls) <=> P2!GoodLog(ls)
  /\ \A d, t : P1!Caught(d, t) <=> P2!Caught(d, t)
<1>1. P1!Tables = P2!Tables
  BY DEF P1!Tables, P2!Tables
<1>2. P1!Clean = P2!Clean
  BY DEF P1!Clean, P2!Clean
<1>3. P1!Drivers = P2!Drivers
  BY DEF P1!Drivers, P1!States, P1!LastYields, P2!Drivers, P2!States,
     P2!LastYields
<1>4. P1!Events = P2!Events /\ P1!HeaderEvents = P2!HeaderEvents
  BY DEF P1!Events, P1!HeaderEvents, P1!YieldEvents, P1!ResultEvents,
     P1!LastYields, P2!Events, P2!HeaderEvents, P2!YieldEvents,
     P2!ResultEvents, P2!LastYields
<1>5. P1!Files = P2!Files
  BY <1>2, <1>4 DEF P1!Files, P1!Lines, P1!Garbled, P1!Undecodable, P2!Files,
     P2!Lines, P2!Garbled, P2!Undecodable
<1>6. \A ls : P1!IsLog(ls) <=> P2!IsLog(ls)
  BY <1>4 DEF P1!IsLog, P2!IsLog
<1>7. \A ls : P1!RestoredFrom(ls) = P2!RestoredFrom(ls)
  BY SameLogs
<1>8. \A d : P1!Sound(d) <=> P2!Sound(d)
  BY <1>3, SameDrivers DEF P1!Sound, P1!IsCoherent, P1!LastKind, P2!Sound,
     P2!IsCoherent, P2!LastKind
<1>9. \A ls : P1!GoodLog(ls) <=> P2!GoodLog(ls)
  <2>1. \A ls : P1!AnswersPast(ls) <=> P2!AnswersPast(ls)
    BY <1>7, SameDrivers DEF P1!AnswersPast, P2!AnswersPast
  <2>2. \A ls : P1!Growing(ls) <=> P2!Growing(ls)
    BY DEF P1!Growing, P2!Growing
  <2>3. \A ls : P1!Truthful(ls) <=> P2!Truthful(ls)
    BY <1>7 DEF P1!Truthful, P2!Truthful
  <2> QED BY <1>6, <1>7, <1>8, <2>1, <2>2, <2>3 DEF P1!GoodLog, P2!GoodLog
<1>10. \A d, t : P1!Caught(d, t) <=> P2!Caught(d, t)
  BY SameDrivers DEF P1!Caught, P1!NotBehind, P2!Caught, P2!NotBehind
<1> QED BY <1>1, <1>2, <1>3, <1>5, <1>6, <1>7, <1>9, <1>10, SameLogs

\* So what the invariant says of the files is the same for both, at any time.
LEMMA SameFiles ==
  /\ P1!FilesInv <=> P2!FilesInv
  /\ P1!FilesInv' <=> P2!FilesInv'
<1>1. P1!FilesInv <=> P2!FilesInv
  BY SameSets DEF P1!FilesInv, P1!InLog, P1!AllGood, P1!ToldBehind,
     P2!FilesInv, P2!InLog, P2!AllGood, P2!ToldBehind
<1>2. P1!FilesInv' <=> P2!FilesInv'
  BY SameSets DEF P1!FilesInv, P1!InLog, P1!AllGood, P1!ToldBehind,
     P2!FilesInv, P2!InLog, P2!AllGood, P2!ToldBehind
<1> QED BY <1>1, <1>2

-----------------------------------------------------------------------------
(* The inductive invariant.                                                  *)

IInv == P1!HistoryInv /\ P2!HistoryInv /\ Exclusive

LEMMA SameLoaded ==
  \A id : (S1!Loaded(id) <=> P1!Loaded(id)) /\ (S2!Loaded(id) <=> P2!Loaded(id))
BY DEF S1!Loaded, S2!Loaded, P1!Loaded, P2!Loaded

\* No server holds an instance yet.
LEMMA InitIInv == Init => IInv
<1> SUFFICES ASSUME Init PROVE IInv
  OBVIOUS
<1>1. P1!HistoryInv /\ P2!HistoryInv
  BY SameServer1, SameServer2, Assumptions, P1!InitHistory, P2!InitHistory DEF Init
<1>2. Exclusive
  BY DEF Init, S1!Init, S2!Init, Exclusive, S1!Loaded, S2!Loaded
<1> QED BY <1>1, <1>2 DEF IInv

\* What one server does leaves the instances of the other alone, as long as it
\* neither loads them nor removes their logs.
LEMMA FirstActs ==
  ASSUME IInv, Exclusive', Sparing, P1!ServerNext, UNCHANGED local2
  PROVE  IInv'
<1>1. P1!NothingFails /\ P1!ResultsJudged /\ P1!ParamsSpared
  BY DEF Sparing
<1>2. P1!HistoryInv /\ P1!RecoveryInv
  BY DEF IInv, P1!HistoryInv
<1>3. P1!HistoryInv'
  <2>1. P1!Next
    BY DEF P1!Next
  <2> QED BY <1>1, <1>2, <2>1, Assumptions, P1!NextHistory
<1>4. P2!FilesInv'
  BY <1>3, Assumptions, P1!FilesOfServer, SameFiles
<1>5. used \subseteq used' /\ \A id \in Ids :
        ~ P1!Loaded(id) /\ ~ P1!Loaded(id)' /\ disk'[id].present => disk'[id] = disk[id]
  BY <1>1, <1>2, Assumptions, P1!LeavesOthers
<1>6. UNCHANGED P2!local
  BY DEF local2, P2!local
<1>7. ASSUME NEW id \in Ids, P2!Loaded(id)
      PROVE  disk'[id] = disk[id] /\ id \in used'
  <2>1. S2!Loaded(id) /\ S2!Loaded(id)'
    BY <1>7 DEF S2!Loaded, P2!Loaded, local2
  <2>2. ~ P1!Loaded(id) /\ ~ P1!Loaded(id)' /\ disk'[id].present
    BY <2>1 DEF IInv, Exclusive, S1!Loaded, P1!Loaded
  <2>3. id \in used
    BY <1>7 DEF IInv, P2!HistoryInv, P2!RecoveryInv, P2!Drawn
  <2> QED BY <1>5, <2>2, <2>3
<1>8. P2!HistoryInv
  BY DEF IInv
<1>9. P2!HistoryInv'
  BY <1>4, <1>6, <1>7, <1>8, Assumptions, P2!OthersSteps
<1> QED BY <1>3, <1>9 DEF IInv

LEMMA SecondActs ==
  ASSUME IInv, Exclusive', Sparing, P2!ServerNext, UNCHANGED local1
  PROVE  IInv'
<1>1. P2!NothingFails /\ P2!ResultsJudged /\ P2!ParamsSpared
  BY SparingBoth
<1>2. P2!HistoryInv /\ P2!RecoveryInv
  BY DEF IInv, P2!HistoryInv
<1>3. P2!HistoryInv'
  <2>1. P2!Next
    BY DEF P2!Next
  <2> QED BY <1>1, <1>2, <2>1, Assumptions, P2!NextHistory
<1>4. P1!FilesInv'
  BY <1>3, Assumptions, P2!FilesOfServer, SameFiles
<1>5. used \subseteq used' /\ \A id \in Ids :
        ~ P2!Loaded(id) /\ ~ P2!Loaded(id)' /\ disk'[id].present => disk'[id] = disk[id]
  BY <1>1, <1>2, Assumptions, P2!LeavesOthers
<1>6. UNCHANGED P1!local
  BY DEF local1, P1!local
<1>7. ASSUME NEW id \in Ids, P1!Loaded(id)
      PROVE  disk'[id] = disk[id] /\ id \in used'
  <2>1. S1!Loaded(id) /\ S1!Loaded(id)'
    BY <1>7 DEF S1!Loaded, P1!Loaded, local1
  <2>2. ~ P2!Loaded(id) /\ ~ P2!Loaded(id)' /\ disk'[id].present
    BY <2>1 DEF IInv, Exclusive, S2!Loaded, P2!Loaded
  <2>3. id \in used
    BY <1>7 DEF IInv, P1!HistoryInv, P1!RecoveryInv, P1!Drawn
  <2> QED BY <1>5, <2>2, <2>3
<1>8. P1!HistoryInv
  BY DEF IInv
<1>9. P1!HistoryInv'
  BY <1>4, <1>6, <1>7, <1>8, Assumptions, P1!OthersSteps
<1> QED BY <1>3, <1>9 DEF IInv

\* An edit of a program is one for both.
LEMMA EditIsBoth ==
  ASSUME EditSource
  PROVE  P1!Next /\ P2!Next /\ UNCHANGED <<disk, used, told, local1, local2>>
<1>1. PICK name \in Names, p \in Programs \cup {NoProgram} : S1!EditSource(name, p)
  BY DEF EditSource
<1>2. P1!EditSource(name, p) /\ P2!EditSource(name, p)
  BY <1>1 DEF EditSource, S1!EditSource, P1!EditSource, P2!EditSource, S1!local,
     P1!local, P2!local, local2
<1>3. UNCHANGED <<disk, used, told, local1, local2>>
  BY <1>1 DEF EditSource, S1!EditSource, S1!local, local1
<1> QED BY <1>2, <1>3 DEF P1!Next, P2!Next

\* Nothing that the invariant speaks of moves.
LEMMA NoneActs ==
  ASSUME IInv, Exclusive', Sparing, [P1!Next]_(P1!vars), [P2!Next]_(P2!vars)
  PROVE  IInv'
<1>1. P1!HistoryInv'
  BY Assumptions, P1!NextHistory DEF IInv, Sparing
<1>2. P2!HistoryInv'
  BY Assumptions, SparingBoth, P2!NextHistory DEF IInv
<1> QED BY <1>1, <1>2 DEF IInv

\* Every step of the two keeps the invariant.
LEMMA NextIInv ==
  ASSUME IInv, [Next /\ Exclusive']_vars, Sparing
  PROVE  IInv'
<1>1. CASE UNCHANGED vars
  <2>1. UNCHANGED P1!vars /\ UNCHANGED P2!vars
    BY <1>1 DEF vars, local1, local2, P1!vars, P1!shared, P1!local, P2!vars,
       P2!shared, P2!local
  <2>2. Exclusive'
    BY <1>1 DEF IInv, vars, local1, local2, Exclusive, S1!Loaded, S2!Loaded
  <2> QED BY <2>1, <2>2, NoneActs
<1>2. CASE EditSource /\ Exclusive'
  BY <1>2, EditIsBoth, NoneActs
<1>3. CASE S1!ServerNext /\ UNCHANGED local2 /\ Exclusive'
  BY <1>3, SameServer1, FirstActs
<1>4. CASE S2!ServerNext /\ UNCHANGED local1 /\ Exclusive'
  BY <1>4, SameServer2, SecondActs
<1> QED BY <1>1, <1>2, <1>3, <1>4 DEF Next

\* So it holds at all times.
LEMMA Invariance ==
  ASSUME Sparing
  PROVE  ExclusiveSpec => []IInv
<1>1. IInv /\ [Next /\ Exclusive']_vars => IInv'
  BY NextIInv
<1>2. QED BY InitIInv, <1>1, PTL DEF ExclusiveSpec

-----------------------------------------------------------------------------
(* The theorems.                                                             *)

\* Whichever of the two servers holds an instance, it has it as the log would
\* give it to the other after a close or a crash (tools.py:294-300, 375-388).
THEOREM InstancesHandedOver ==
  ASSUME Sparing
  PROVE  ExclusiveSpec => []HandedOver
<1>1. ASSUME IInv
      PROVE  HandedOver
  <2>1. P1!Recoverable /\ P2!Recoverable
    BY <1>1, Assumptions, P1!RecoveryRestores, P2!RecoveryRestores
       DEF IInv, P1!HistoryInv, P2!HistoryInv
  <2>2. S1!Recoverable /\ S2!Recoverable
    BY <2>1, SameLogs DEF S1!Recoverable, S1!Loaded, S1!Unborn, S1!Idle,
       S2!Recoverable, S2!Loaded, S2!Unborn, S2!Idle, P1!Recoverable, P1!Loaded,
       P1!Unborn, P1!Idle, P2!Recoverable, P2!Loaded, P2!Unborn, P2!Idle
  <2> QED BY <2>2 DEF HandedOver
<1>2. QED BY Invariance, <1>1, PTL

\* Nothing that either server told the agent is forgotten by the other
\* (persistence.py:60-61).
THEOREM ReportsOutliveServers ==
  ASSUME Sparing
  PROVE  ExclusiveSpec => []AckedSurvive
<1>1. ASSUME IInv
      PROVE  AckedSurvive
  <2>1. P1!AckedSurvive
    BY <1>1, Assumptions, P1!RecoveryRemembers DEF IInv, P1!HistoryInv
  <2> QED BY <2>1, SameLogs DEF AckedSurvive, S1!AckedSurvive, P1!AckedSurvive
<1>2. QED BY Invariance, <1>1, PTL


-----------------------------------------------------------------------------
(* The refinement.                                                           *)

\* DurableRun has the operators of Driver too.
LEMMA SameRunDrivers ==
  /\ \A d :
       /\ S1!Runs!IsTerminal(d) = IsTerminal(d)
       /\ P1!Runs!IsTerminal(d) = IsTerminal(d)
       /\ P2!Runs!IsTerminal(d) = IsTerminal(d)
  /\ \A p, a :
       /\ S1!Runs!Start(p, a) = Start(p, a)
       /\ P1!Runs!Start(p, a) = Start(p, a)
       /\ P2!Runs!Start(p, a) = Start(p, a)
  /\ \A d, r :
       /\ S1!Runs!SendRaises(d, r) = SendRaises(d, r)
       /\ P1!Runs!SendRaises(d, r) = SendRaises(d, r)
       /\ P2!Runs!SendRaises(d, r) = SendRaises(d, r)
  /\ \A d, r :
       /\ S1!Runs!Send(d, r) = Send(d, r)
       /\ P1!Runs!Send(d, r) = Send(d, r)
       /\ P2!Runs!Send(d, r) = Send(d, r)
<1>1. \A d :
        /\ S1!Runs!IsTerminal(d) = IsTerminal(d)
        /\ P1!Runs!IsTerminal(d) = IsTerminal(d)
        /\ P2!Runs!IsTerminal(d) = IsTerminal(d)
  BY DEF S1!Runs!IsTerminal, S1!Runs!TerminalStates, P1!Runs!IsTerminal,
     P1!Runs!TerminalStates, P2!Runs!IsTerminal, P2!Runs!TerminalStates,
     IsTerminal, TerminalStates
<1>2. \A p, a :
        /\ S1!Runs!Start(p, a) = Start(p, a)
        /\ P1!Runs!Start(p, a) = Start(p, a)
        /\ P2!Runs!Start(p, a) = Start(p, a)
  BY DEF S1!Runs!Start, S1!Runs!Launch, S1!Runs!Reach, S1!Runs!Issue,
     S1!Runs!Done, S1!Runs!Finish, S1!Runs!Abort, S1!Runs!Fail,
     S1!Runs!NewDriver, P1!Runs!Start, P1!Runs!Launch, P1!Runs!Reach,
     P1!Runs!Issue, P1!Runs!Done, P1!Runs!Finish, P1!Runs!Abort, P1!Runs!Fail,
     P1!Runs!NewDriver, P2!Runs!Start, P2!Runs!Launch, P2!Runs!Reach,
     P2!Runs!Issue, P2!Runs!Done, P2!Runs!Finish, P2!Runs!Abort, P2!Runs!Fail,
     P2!Runs!NewDriver, Start, Launch, Reach, Issue, Done, Finish, Abort,
     Fail, NewDriver
<1>3. \A d, r :
        /\ S1!Runs!SendRaises(d, r) = SendRaises(d, r)
        /\ P1!Runs!SendRaises(d, r) = SendRaises(d, r)
        /\ P2!Runs!SendRaises(d, r) = SendRaises(d, r)
  BY DEF S1!Runs!SendRaises, S1!Runs!Verdict, P1!Runs!SendRaises,
     P1!Runs!Verdict, P2!Runs!SendRaises, P2!Runs!Verdict, SendRaises, Verdict
<1>4. \A d, r :
        /\ S1!Runs!Send(d, r) = Send(d, r)
        /\ P1!Runs!Send(d, r) = Send(d, r)
        /\ P2!Runs!Send(d, r) = Send(d, r)
  BY DEF S1!Runs!Send, S1!Runs!SendTo, S1!Runs!Fail, S1!Runs!Finish,
     S1!Runs!Verdict, S1!Runs!Abort, S1!Runs!Issue, S1!Runs!Reach,
     S1!Runs!Done, P1!Runs!Send, P1!Runs!SendTo, P1!Runs!Fail, P1!Runs!Finish,
     P1!Runs!Verdict, P1!Runs!Abort, P1!Runs!Issue, P1!Runs!Reach,
     P1!Runs!Done, P2!Runs!Send, P2!Runs!SendTo, P2!Runs!Fail, P2!Runs!Finish,
     P2!Runs!Verdict, P2!Runs!Abort, P2!Runs!Issue, P2!Runs!Reach,
     P2!Runs!Done, Send, SendTo, Fail, Finish, Verdict, Abort, Issue, Reach,
     Done
<1> QED BY <1>1, <1>2, <1>3, <1>4

\* The runs that the files stand for are the same for both servers, and so is
\* what DurableRun lets them do.
LEMMA SameRuns ==
  /\ P1!Moves => [S1!Runs!RunNext]_(S1!Runs!runVars)
  /\ P2!Moves => [S1!Runs!RunNext]_(S1!Runs!runVars)
<1>1. /\ [id \in Ids |-> P1!Restored(disk[id])] = [id \in Ids |-> S1!Restored(disk[id])]
      /\ [id \in Ids |-> P2!Restored(disk[id])] = [id \in Ids |-> S1!Restored(disk[id])]
      /\ [id \in Ids |-> P1!Restored(disk'[id])] = [id \in Ids |-> S1!Restored(disk'[id])]
      /\ [id \in Ids |-> P2!Restored(disk'[id])] = [id \in Ids |-> S1!Restored(disk'[id])]
  BY SameLogs
<1>2. ASSUME P1!Moves
      PROVE  [S1!Runs!RunNext]_(S1!Runs!runVars)
  <2>1. ASSUME NEW id \in Ids, NEW p \in Programs, NEW a \in Params,
               P1!Runs!Begin(id, p, a)
        PROVE  S1!Runs!Begin(id, p, a)
    BY <1>1, <2>1, SameRunDrivers DEF P1!Runs!Begin, S1!Runs!Begin
  <2>2. ASSUME NEW id \in Ids, NEW r \in Results, P1!Runs!Accept(id, r)
        PROVE  S1!Runs!Accept(id, r)
    BY <1>1, <2>2, SameRunDrivers DEF P1!Runs!Accept, S1!Runs!Accept
  <2>3. ASSUME NEW id \in Ids, P1!Runs!Report(id)
        PROVE  S1!Runs!Report(id)
    BY <1>1, <2>3, SameRunDrivers DEF P1!Runs!Report, S1!Runs!Report
  <2>4. ASSUME NEW S \in SUBSET Ids, P1!Runs!Delete(S)
        PROVE  S1!Runs!Delete(S)
    BY <1>1, <2>4, SameRunDrivers DEF P1!Runs!Delete, S1!Runs!Delete
  <2>5. CASE UNCHANGED P1!Runs!runVars
    BY <1>1, <2>5 DEF P1!Runs!runVars, S1!Runs!runVars
  <2> QED BY <1>2, <2>1, <2>2, <2>3, <2>4, <2>5 DEF P1!Moves, P1!Runs!RunNext, S1!Runs!RunNext
<1>3. ASSUME P2!Moves
      PROVE  [S1!Runs!RunNext]_(S1!Runs!runVars)
  <2>1. ASSUME NEW id \in Ids, NEW p \in Programs, NEW a \in Params,
               P2!Runs!Begin(id, p, a)
        PROVE  S1!Runs!Begin(id, p, a)
    BY <1>1, <2>1, SameRunDrivers DEF P2!Runs!Begin, S1!Runs!Begin
  <2>2. ASSUME NEW id \in Ids, NEW r \in Results, P2!Runs!Accept(id, r)
        PROVE  S1!Runs!Accept(id, r)
    BY <1>1, <2>2, SameRunDrivers DEF P2!Runs!Accept, S1!Runs!Accept
  <2>3. ASSUME NEW id \in Ids, P2!Runs!Report(id)
        PROVE  S1!Runs!Report(id)
    BY <1>1, <2>3, SameRunDrivers DEF P2!Runs!Report, S1!Runs!Report
  <2>4. ASSUME NEW S \in SUBSET Ids, P2!Runs!Delete(S)
        PROVE  S1!Runs!Delete(S)
    BY <1>1, <2>4, SameRunDrivers DEF P2!Runs!Delete, S1!Runs!Delete
  <2>5. CASE UNCHANGED P2!Runs!runVars
    BY <1>1, <2>5 DEF P2!Runs!runVars, S1!Runs!runVars
  <2> QED BY <1>3, <2>1, <2>2, <2>3, <2>4, <2>5 DEF P2!Moves, P2!Runs!RunNext, S1!Runs!RunNext
<1> QED BY <1>2, <1>3

\* The two servers together implement the runs of DurableRun: to the agent they
\* are one (persistence.py:16-20).
THEOREM ServersImplementRuns ==
  ASSUME Sparing
  PROVE  ExclusiveSpec => Durable
<1>1. Init => S1!Runs!RunInit
  <2> SUFFICES ASSUME Init PROVE S1!Runs!RunInit
    OBVIOUS
  <2>1. \A id \in Ids : S1!Restored(disk[id]) = NoDriver
    BY DEF Init, S1!Init, S1!NoFile, S1!Restored
  <2> QED BY <2>1 DEF Init, S1!Init, S1!Runs!RunInit
<1>2. IInv /\ [Next /\ Exclusive']_vars => IInv'
  BY NextIInv
<1>3. IInv /\ IInv' /\ [Next /\ Exclusive']_vars => [S1!Runs!RunNext]_(S1!Runs!runVars)
  <2> SUFFICES ASSUME IInv, IInv', [Next /\ Exclusive']_vars
               PROVE  [S1!Runs!RunNext]_(S1!Runs!runVars)
    OBVIOUS
  <2> USE Assumptions, SparingBoth
  <2>1. CASE UNCHANGED vars
    BY <2>1 DEF vars, S1!Runs!runVars
  <2>2. CASE S1!ServerNext \/ EditSource
    <3>1. P1!Next
      BY <2>2, SameServer1, EditIsBoth DEF P1!Next
    <3>2. P1!Moves
      BY <3>1, P1!NextMoves DEF IInv, Sparing
    <3> QED BY <3>2, SameRuns
  <2>3. CASE S2!ServerNext
    <3>1. P2!Next
      BY <2>3, SameServer2 DEF P2!Next
    <3>2. P2!Moves
      BY <3>1, P2!NextMoves DEF IInv
    <3> QED BY <3>2, SameRuns
  <2> QED BY <2>1, <2>2, <2>3 DEF Next
<1>4. QED
  BY InitIInv, <1>1, <1>2, <1>3, PTL
     DEF ExclusiveSpec, Durable, S1!Durable, S1!Runs!RunSpec
=============================================================================
