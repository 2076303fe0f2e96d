--------------------------- MODULE RegistryProofs ---------------------------
(***************************************************************************)
(* The scan of Registry under concurrent edits, for every number of        *)
(* directories, files, contents and programs.                              *)
(***************************************************************************)
EXTENDS Registry, TLAPS

\* The scan has dealt with file f of search path i.
Passed(i, f) == i < scan.root \/ (i = scan.root /\ f \notin scan.files)

PathOf(i, f) == <<search_paths[i], f>>

\* Every search path is a directory of its own; a scan is in one of them, or
\* before the first.
PathsInv ==
  /\ search_paths \in Seq(Dirs)
  /\ \A i, j \in DOMAIN search_paths : search_paths[i] = search_paths[j] => i = j
  /\ Scanning =>
       /\ scan \in Scans
       /\ scan.root <= Len(search_paths)
       /\ scan.root = 0 => scan.files = {}

\* Of the files dealt with, an untouched one with a program is in the new table
\* or an earlier one of the same name is.
ScanFirst ==
  \A n \in Names, i \in DOMAIN search_paths, f \in Files :
    Passed(i, f) /\ PathOf(i, f) \notin touched /\ Outcome(PathOf(i, f)) = n =>
      scan.target[n] # NoEntry /\ ~ Precedes(i, f, scan.target[n])

\* The entries of the new table are of files dealt with, and true unless these
\* were touched.
ScanTrue ==
  \A n \in Names :
    LET e == scan.target[n]
    IN  e # NoEntry =>
          /\ e.root \in DOMAIN search_paths
          /\ Passed(e.root, e.file)
          /\ PathOf(e.root, e.file) \notin touched =>
               /\ content[PathOf(e.root, e.file)] = e.hash
               /\ Outcome(PathOf(e.root, e.file)) = n

\* Of the directory being scanned, what is in the table comes before what is
\* still to be loaded.
Sorted ==
  \A n \in Names :
    scan.target[n] # NoEntry /\ scan.target[n].root = scan.root =>
      \A f \in scan.files : scan.target[n].file < f

\* What was executed is what the scan has dealt with.
ExecutedPassed ==
  \A k \in DOMAIN executed :
    \E i \in DOMAIN search_paths, f \in Files :
      Passed(i, f) /\ executed[k] = PathOf(i, f)

\* The entries of the table in use are of its search paths.
InPaths ==
  ready => \A n \in Names :
             programs[n] # NoEntry => programs[n].root \in DOMAIN search_paths

ScanInv ==
  /\ TypeOK
  /\ PathsInv
  /\ Scanning => ScanFirst /\ ScanTrue /\ Sorted /\ ExecutedPassed
  /\ ExecutedOnce
  /\ FirstWins
  /\ InPaths

-----------------------------------------------------------------------------

\* Before the server starts there is no table and no scan.
LEMMA InitScanInv == Init => ScanInv
<1> SUFFICES ASSUME Init PROVE ScanInv
  OBVIOUS
<1>1. TypeOK
  <2>1. content \in [Dirs \X Files -> Contents \cup {NoContent}]
    BY RegistryAssumption DEF Init
  <2>2. programs \in Tables
    BY DEF Init, Tables, Empty
  <2>3. diff \in [added : SUBSET Names, updated : SUBSET Names, removed : SUBSET Names]
    BY DEF Init, NoChange
  <2>4. <<>> \in Seq(Dirs) /\ <<>> \in Seq(Dirs \X Files)
    OBVIOUS
  <2>5. scan \in {NoScan} /\ touched \subseteq Dirs \X Files /\ edits \in Nat
    BY DEF Init
  <2>6. search_paths \in Seq(Dirs) /\ executed \in Seq(Dirs \X Files)
    BY <2>4 DEF Init
  <2>7. ready \in BOOLEAN
    BY DEF Init
  <2> QED BY <2>1, <2>2, <2>3, <2>5, <2>6, <2>7 DEF TypeOK
<1>2. PathsInv /\ ~ Scanning /\ ~ ready
  BY DEF Init, PathsInv, Scanning
<1>3. ExecutedOnce
  BY DEF Init, ExecutedOnce, IsInjective
<1>4. QED BY <1>1, <1>2, <1>3 DEF ScanInv, FirstWins, InPaths

\* A directory is a search path once (__main__.py:117-124).
LEMMA SearchPathsDistinct ==
  ASSUME NEW paths \in SearchPaths
  PROVE  /\ paths \in Seq(Dirs)
         /\ \A i, j \in DOMAIN paths : paths[i] = paths[j] => i = j
<1> DEFINE Good(s) == /\ s \in Seq(Dirs)
                      /\ \A i, j \in DOMAIN s : s[i] = s[j] => i = j
<1>1. ASSUME NEW s, Good(s), NEW d \in Dirs
      PROVE  Good(With(s, d))
  <2>1. CASE \E i \in DOMAIN s : s[i] = d
    BY <1>1, <2>1 DEF With
  <2>2. CASE \A i \in DOMAIN s : s[i] # d
    <3>1. With(s, d) = Append(s, d) /\ s \in Seq(Dirs) /\ DOMAIN s = 1..Len(s)
      BY <1>1, <2>2 DEF With
    <3>2. /\ Append(s, d) \in Seq(Dirs) /\ DOMAIN Append(s, d) = 1..(Len(s) + 1)
          /\ \A i \in 1..Len(s) : Append(s, d)[i] = s[i]
          /\ Append(s, d)[Len(s) + 1] = d
      BY <3>1
    <3>3. ASSUME NEW i \in 1..(Len(s) + 1), NEW j \in 1..(Len(s) + 1),
                 Append(s, d)[i] = Append(s, d)[j]
          PROVE  i = j
      <4>1. CASE i = Len(s) + 1 \/ j = Len(s) + 1
        BY <2>2, <3>1, <3>2, <3>3, <4>1
      <4>2. CASE i \in 1..Len(s) /\ j \in 1..Len(s)
        BY <1>1, <3>1, <3>2, <3>3, <4>2
      <4> QED BY <3>1, <4>1, <4>2
    <3> QED BY <3>1, <3>2, <3>3
  <2> QED BY <2>1, <2>2
<1>2. \A d \in Dirs : Good(<<d>>)
  OBVIOUS
<1> HIDE DEF Good
<1>3. Good(paths)
  <2>1. CASE \E project, user \in Dirs : paths = With(<<project>>, user)
    BY <1>1, <1>2, <2>1
  <2>2. CASE \E project, user, env \in Dirs :
               paths = With(With(<<project>>, user), env)
    <3>1. PICK project \in Dirs, user \in Dirs, env \in Dirs :
                 paths = With(With(<<project>>, user), env)
      BY <2>2
    <3>2. Good(With(<<project>>, user))
      BY <1>1, <1>2
    <3> QED BY <1>1, <3>1, <3>2
  <2> QED BY <2>1, <2>2 DEF SearchPaths
<1>4. QED BY <1>3 DEF Good

\* A scan begins with an empty table and nothing dealt with.
LEMMA BeginScanInv ==
  ASSUME ScanInv, BeginScan,
         UNCHANGED <<content, programs, ready, diff, edits>>,
         search_paths' \in Seq(Dirs),
         \A i, j \in DOMAIN search_paths' : search_paths'[i] = search_paths'[j] => i = j,
         ready => search_paths' = search_paths
  PROVE  ScanInv'
<1>1. /\ scan' = [root |-> 0, files |-> {}, target |-> Empty]
      /\ touched' = {} /\ executed' = <<>>
  BY DEF BeginScan
<1>2. Empty \in Tables /\ scan' \in Scans
  BY <1>1 DEF Empty, Tables, Scans
<1>3. TypeOK'
  BY <1>1, <1>2 DEF ScanInv, TypeOK
<1>4. /\ scan'.root = 0 /\ scan'.files = {} /\ scan'.target = Empty
      /\ Len(search_paths') \in Nat
  BY <1>1
<1>5. PathsInv'
  BY <1>2, <1>4 DEF PathsInv
<1>6. Scanning'
  BY <1>1 DEF Scanning, NoScan
<1>7. \A n \in Names : scan'.target[n] = NoEntry
  BY <1>4 DEF Empty
<1>8. ScanFirst' /\ ScanTrue' /\ Sorted' /\ ExecutedPassed'
  <2>1. ScanFirst'
    <3>1. ASSUME NEW i \in DOMAIN search_paths', NEW f
          PROVE  ~ Passed(i, f)'
      BY <1>4 DEF Passed
    <3> QED BY <3>1 DEF ScanFirst
  <2>2. ScanTrue' /\ Sorted'
    BY <1>7 DEF ScanTrue, Sorted
  <2>3. ExecutedPassed'
    BY <1>1 DEF ExecutedPassed
  <2> QED BY <2>1, <2>2, <2>3
<1>9. ExecutedOnce'
  BY <1>1 DEF ExecutedOnce, IsInjective
<1>10. FirstWins'
  BY <1>6 DEF FirstWins
<1>11. InPaths'
  BY DEF InPaths, ScanInv
<1>12. QED BY <1>3, <1>5, <1>8, <1>9, <1>10, <1>11 DEF ScanInv

\* The server's first scan begins (registry.py:47-50).
LEMMA LaunchScanInv ==
  ASSUME ScanInv, Launch
  PROVE  ScanInv'
<1>1. /\ search_paths' \in Seq(Dirs)
      /\ \A i, j \in DOMAIN search_paths' : search_paths'[i] = search_paths'[j] => i = j
  BY SearchPathsDistinct DEF Launch
<1>2. QED BY <1>1, BeginScanInv DEF Launch

\* A later scan begins, and the table in use stays (registry.py:80-81).
LEMMA RescanScanInv ==
  ASSUME ScanInv, Rescan
  PROVE  ScanInv'
<1>1. /\ search_paths \in Seq(Dirs)
      /\ \A i, j \in DOMAIN search_paths : search_paths[i] = search_paths[j] => i = j
  BY DEF ScanInv, PathsInv
<1>2. search_paths' = search_paths
  BY DEF Rescan
<1>3. QED BY <1>1, <1>2, BeginScanInv DEF Rescan

\* Where the scan is, as the proofs of its steps use it.
LEMMA ScanFacts ==
  ASSUME ScanInv, Scanning
  PROVE  /\ scan \in Scans /\ scan.root \in Nat /\ scan.files \in SUBSET Files
         /\ scan.target \in Tables
         /\ scan.root <= Len(search_paths) /\ Len(search_paths) \in Nat
         /\ DOMAIN search_paths = 1..Len(search_paths)
         /\ scan.root = 0 => scan.files = {}
         /\ \A i \in DOMAIN search_paths, f \in Files :
              PathOf(i, f) \in Dirs \X Files
         /\ ScanFirst /\ ScanTrue /\ Sorted /\ ExecutedPassed
BY DEF ScanInv, PathsInv, Scans, PathOf

\* Of the next directory nothing is in the table, and what is not in its
\* listing is not there (registry.py:114-120).
LEMMA ListDirectoryScanInv ==
  ASSUME ScanInv, ListDirectory
  PROVE  ScanInv'
<1> DEFINE r == scan.root + 1
<1>1. /\ Scanning /\ scan.files = {} /\ scan.root < Len(search_paths)
      /\ scan' = [scan EXCEPT
                    !.root  = r,
                    !.files = {f \in Files : content[PathOf(r, f)] # NoContent}]
      /\ UNCHANGED <<content, search_paths, programs, ready, diff, touched,
                     executed, edits>>
  BY DEF ListDirectory, PathOf
<1>2. /\ scan'.root = r /\ scan'.target = scan.target
      /\ scan'.files = {f \in Files : content[PathOf(r, f)] # NoContent}
      /\ scan' \in Scans
  <2> DEFINE listed == {f \in Files : content[PathOf(r, f)] # NoContent}
  <2>1. scan' = [scan EXCEPT !.root = r, !.files = listed]
    BY <1>1
  <2>2. listed \in SUBSET Files /\ r \in Nat /\ scan \in Scans
    BY <1>1, ScanFacts
  <2> HIDE DEF listed, r
  <2>3. /\ scan'.root = r /\ scan'.target = scan.target
        /\ scan'.files = listed /\ scan' \in Scans
    BY <2>1, <2>2 DEF Scans
  <2> QED BY <2>3 DEF listed
<1>3. r \in DOMAIN search_paths /\ scan.root \in Nat
  BY <1>1, ScanFacts
<1>4. TypeOK'
  BY <1>1, <1>2 DEF ScanInv, TypeOK
<1>5. PathsInv'
  BY <1>1, <1>2, <1>3, ScanFacts DEF ScanInv, PathsInv
<1>6. ASSUME NEW i \in DOMAIN search_paths, NEW f \in Files
      PROVE  /\ Passed(i, f) => Passed(i, f)' /\ i # r
             /\ Passed(i, f)' => Passed(i, f) \/ content[PathOf(i, f)] = NoContent
  BY <1>1, <1>2, <1>3, ScanFacts DEF Passed
<1>7. ScanFirst'
  <2> SUFFICES ASSUME NEW n \in Names, NEW i \in DOMAIN search_paths, NEW f \in Files,
                      Passed(i, f)', PathOf(i, f) \notin touched,
                      Outcome(PathOf(i, f)) = n
               PROVE  scan.target[n] # NoEntry /\ ~ Precedes(i, f, scan.target[n])
    BY <1>1, <1>2 DEF ScanFirst, PathOf, Outcome, Precedes
  <2>1. content[PathOf(i, f)] # NoContent
    BY RegistryAssumption DEF Outcome
  <2> QED BY <1>1, <1>6, <2>1, ScanFacts DEF ScanFirst
<1>8. ScanTrue'
  <2> SUFFICES ASSUME NEW n \in Names, scan.target[n] # NoEntry
               PROVE  LET e == scan.target[n]
                      IN  /\ e.root \in DOMAIN search_paths
                          /\ Passed(e.root, e.file)'
                          /\ PathOf(e.root, e.file) \notin touched =>
                               /\ content[PathOf(e.root, e.file)] = e.hash
                               /\ Outcome(PathOf(e.root, e.file)) = n
    BY <1>1, <1>2 DEF ScanTrue, PathOf, Outcome
  <2>1. scan.target[n].file \in Files
    BY <1>1, ScanFacts DEF Tables, Entries
  <2> QED BY <1>1, <1>6, <2>1, ScanFacts DEF ScanTrue
<1>9. Sorted'
  <2> SUFFICES ASSUME NEW n \in Names, scan.target[n] # NoEntry
               PROVE  scan.target[n].root # r
    BY <1>2 DEF Sorted
  <2>1. scan.target[n].file \in Files
    BY <1>1, ScanFacts DEF Tables, Entries
  <2> QED BY <1>1, <1>6, <2>1, ScanFacts DEF ScanTrue
<1>10. ExecutedPassed'
  BY <1>1, <1>6, ScanFacts DEF ExecutedPassed, PathOf
<1>11. ExecutedOnce'
  BY <1>1 DEF ScanInv, ExecutedOnce
<1>12. Scanning'
  BY <1>2, <1>3 DEF Scanning, NoScan
<1>13. FirstWins' /\ InPaths'
  BY <1>1, <1>12 DEF ScanInv, FirstWins, InPaths
<1>14. QED BY <1>4, <1>5, <1>7, <1>8, <1>9, <1>10, <1>11, <1>13 DEF ScanInv

\* Executing a file of the listing executes it for the first time.
LEMMA ExecutesOnce ==
  ASSUME ScanInv, NEW f, IsNext(f), executed' = Append(executed, Path(f))
  PROVE  ExecutedOnce'
<1>1. /\ Scanning /\ f \in scan.files /\ f \in Files
      /\ scan.root \in DOMAIN search_paths
  BY ScanFacts DEF IsNext
<1>2. executed \in Seq(Dirs \X Files) /\ IsInjective(executed)
  BY DEF ScanInv, TypeOK, ExecutedOnce
<1>3. \A k \in DOMAIN executed : executed[k] # Path(f)
  <2> SUFFICES ASSUME NEW k \in DOMAIN executed, executed[k] = Path(f)
               PROVE  FALSE
    OBVIOUS
  <2>1. PICK i \in DOMAIN search_paths, g \in Files :
          Passed(i, g) /\ executed[k] = PathOf(i, g)
    BY <1>1, ScanFacts DEF ExecutedPassed
  <2>2. search_paths[i] = search_paths[scan.root] /\ g = f
    BY <2>1 DEF Path, PathOf
  <2>3. i = scan.root
    BY <1>1, <2>2 DEF ScanInv, PathsInv
  <2> QED BY <1>1, <2>1, <2>2, <2>3, ScanFacts DEF Passed
<1>4. /\ DOMAIN executed = 1..Len(executed) /\ Len(executed) \in Nat
      /\ DOMAIN executed' = 1..(Len(executed) + 1)
      /\ \A k \in 1..Len(executed) : executed'[k] = executed[k]
      /\ executed'[Len(executed) + 1] = Path(f)
  BY <1>2
<1>5. ASSUME NEW j \in 1..(Len(executed) + 1), NEW k \in 1..(Len(executed) + 1),
             executed'[j] = executed'[k]
      PROVE  j = k
  <2>1. CASE j \in 1..Len(executed) /\ k \in 1..Len(executed)
    BY <1>2, <1>4, <1>5, <2>1 DEF IsInjective
  <2>2. CASE j = Len(executed) + 1 \/ k = Len(executed) + 1
    BY <1>3, <1>4, <1>5, <2>2
  <2> QED BY <1>4, <2>1, <2>2
<1>6. QED BY <1>4, <1>5 DEF ExecutedOnce, IsInjective

\* A file that is loaded is found unless an earlier one of its name is, and it
\* comes before what is still to be loaded (registry.py:163-178).
LEMMA LoadScanInv ==
  ASSUME ScanInv, NEW f \in Files, Load(f)
  PROVE  ScanInv'
<1> DEFINE r    == scan.root
           path == Path(f)
           o    == Outcome(path)
           e    == Entry(f)
<1>1. /\ Scanning /\ f \in scan.files /\ \A g \in scan.files : f <= g
      /\ scan' = [scan EXCEPT !.files = @ \ {f}, !.target = Added(f)]
      /\ executed' = IF content[path] = NoContent THEN executed
                     ELSE Append(executed, path)
      /\ UNCHANGED <<content, search_paths, programs, ready, diff, touched, edits>>
  BY DEF Load, IsNext
<1>2. /\ r \in DOMAIN search_paths /\ path = PathOf(r, f) /\ path \in Dirs \X Files
  BY <1>1, ScanFacts DEF Path, PathOf
<1>3. o \in Names => e \in Entries /\ content[path] = e.hash
  <2>1. o \in Names => content[path] \in Contents
    BY <1>2, RegistryAssumption DEF Outcome, ScanInv, TypeOK
  <2> QED BY <1>1, <2>1, ScanFacts DEF Entry, Entries
<1>4. e.root = r /\ e.file = f
  BY DEF Entry
<1> HIDE DEF e
<1>5. /\ Added(f) \in Tables
      /\ \A n \in Names :
           Added(f)[n] = IF n = o /\ scan.target[n] = NoEntry THEN e ELSE scan.target[n]
  BY <1>1, <1>3, ScanFacts DEF Added, Tables, e
<1>6. /\ scan'.root = r /\ scan'.target = Added(f) /\ scan'.files = scan.files \ {f}
      /\ scan' \in Scans
  BY <1>1, <1>5, ScanFacts DEF Scans
<1>7. TypeOK'
  <2>1. executed' \in Seq(Dirs \X Files)
    BY <1>1, <1>2 DEF ScanInv, TypeOK
  <2> QED BY <1>1, <1>6, <2>1 DEF ScanInv, TypeOK
<1>8. PathsInv'
  BY <1>1, <1>6, ScanFacts DEF ScanInv, PathsInv
<1>9. \A i, g : Passed(i, g)' <=> Passed(i, g) \/ (i = r /\ g = f)
  BY <1>1, <1>6, ScanFacts DEF Passed
<1> HIDE DEF o, path, r
<1>10. \A n \in Names : scan.target[n] # NoEntry => scan.target[n] \in Entries
  BY <1>1, ScanFacts DEF Tables
<1>11. ScanFirst'
  <2> SUFFICES ASSUME NEW n \in Names, NEW i \in DOMAIN search_paths, NEW g \in Files,
                      Passed(i, g)', PathOf(i, g) \notin touched,
                      Outcome(PathOf(i, g)) = n
               PROVE  scan'.target[n] # NoEntry /\ ~ Precedes(i, g, scan'.target[n])
    BY <1>1 DEF ScanFirst, PathOf, Outcome, Precedes
  <2>1. CASE Passed(i, g)
    <3>1. scan.target[n] # NoEntry /\ ~ Precedes(i, g, scan.target[n])
      BY <1>1, <2>1, ScanFacts DEF ScanFirst
    <3> QED BY <1>5, <1>6, <3>1
  <2>2. CASE i = r /\ g = f /\ scan.target[n] = NoEntry
    <3>1. n = o /\ scan'.target[n] = e
      BY <1>2, <1>5, <1>6, <2>2 DEF o
    <3>2. e # NoEntry
      BY <1>3, <3>1, NoEntryAssumption
    <3>3. f \in Nat /\ r \in Nat
      BY <1>1, RegistryAssumption, ScanFacts DEF r
    <3> QED BY <1>4, <2>2, <3>1, <3>2, <3>3 DEF Precedes
  <2>3. CASE i = r /\ g = f /\ scan.target[n] # NoEntry
    <3>1. /\ Passed(scan.target[n].root, scan.target[n].file)
          /\ scan.target[n].root \in Nat /\ scan.target[n].file \in Nat
          /\ scan.target[n].file \in Files
      BY <1>1, <1>10, <2>3, RegistryAssumption, ScanFacts DEF ScanTrue, Entries
    <3>2. scan.target[n].root = r => scan.target[n].file < f
      BY <1>1, <2>3, ScanFacts DEF Sorted, r
    <3>3. ~ Precedes(r, f, scan.target[n])
      BY <1>1, <3>1, <3>2, RegistryAssumption, ScanFacts DEF Passed, Precedes, r
    <3> QED BY <1>5, <1>6, <2>3, <3>3
  <2> QED BY <1>9, <2>1, <2>2, <2>3
<1>12. ScanTrue'
  <2>1. ASSUME NEW n \in Names, NEW d, d = scan'.target[n], d # NoEntry
        PROVE  /\ d.root \in DOMAIN search_paths
               /\ Passed(d.root, d.file)'
               /\ PathOf(d.root, d.file) \notin touched =>
                    /\ content[PathOf(d.root, d.file)] = d.hash
                    /\ Outcome(PathOf(d.root, d.file)) = n
    <3>1. CASE n = o /\ scan.target[n] = NoEntry
      <4>1. d = e
        BY <1>5, <1>6, <2>1, <3>1
      <4> QED BY <1>2, <1>3, <1>4, <1>9, <3>1, <4>1 DEF o
    <3>2. CASE ~ (n = o /\ scan.target[n] = NoEntry)
      <4>1. d = scan.target[n]
        BY <1>5, <1>6, <2>1, <3>2
      <4>2. /\ d.root \in DOMAIN search_paths
            /\ Passed(d.root, d.file)
            /\ PathOf(d.root, d.file) \notin touched =>
                 /\ content[PathOf(d.root, d.file)] = d.hash
                 /\ Outcome(PathOf(d.root, d.file)) = n
        BY <1>1, <2>1, <4>1, ScanFacts DEF ScanTrue
      <4> QED BY <1>9, <4>2
    <3> QED BY <3>1, <3>2
  <2> QED BY <1>1, <2>1 DEF ScanTrue, PathOf, Outcome
<1>13. Sorted'
  <2> SUFFICES ASSUME NEW n \in Names, scan'.target[n] # NoEntry,
                      scan'.target[n].root = r, NEW g \in scan.files \ {f}
               PROVE  scan'.target[n].file < g
    BY <1>6 DEF Sorted
  <2>1. CASE n = o /\ scan.target[n] = NoEntry
    <3>1. scan'.target[n] = e
      BY <1>5, <1>6, <2>1
    <3>2. g \in Nat /\ f \in Nat /\ f <= g /\ g # f
      BY <1>1, RegistryAssumption, ScanFacts
    <3> QED BY <1>4, <3>1, <3>2
  <2>2. CASE ~ (n = o /\ scan.target[n] = NoEntry)
    <3>1. scan'.target[n] = scan.target[n]
      BY <1>5, <1>6, <2>2
    <3> QED BY <1>1, <3>1, ScanFacts DEF Sorted, r
  <2> QED BY <2>1, <2>2
<1>14. ExecutedPassed'
  <2>1. ASSUME NEW k \in DOMAIN executed
        PROVE  \E i \in DOMAIN search_paths, g \in Files :
                 Passed(i, g)' /\ executed[k] = PathOf(i, g)
    BY <1>1, <1>9, ScanFacts DEF ExecutedPassed
  <2>2. \E i \in DOMAIN search_paths, g \in Files :
          Passed(i, g)' /\ path = PathOf(i, g)
    BY <1>2, <1>9
  <2>3. \A k \in DOMAIN executed' :
          (k \in DOMAIN executed /\ executed'[k] = executed[k]) \/ executed'[k] = path
    <3>1. executed \in Seq(Dirs \X Files)
      BY DEF ScanInv, TypeOK
    <3> QED BY <1>1, <3>1
  <2>4. \A k \in DOMAIN executed' :
          \E i \in DOMAIN search_paths, g \in Files :
            Passed(i, g)' /\ executed'[k] = PathOf(i, g)
    BY <2>1, <2>2, <2>3
  <2> QED BY <1>1, <2>4 DEF ExecutedPassed, PathOf
<1>15. ExecutedOnce'
  <2>1. CASE content[path] = NoContent
    BY <1>1, <2>1 DEF ScanInv, ExecutedOnce
  <2>2. CASE content[path] # NoContent
    BY <1>1, <2>2, ExecutesOnce DEF IsNext, path
  <2> QED BY <2>1, <2>2
<1>16. Scanning'
  BY <1>2, <1>6, ScanFacts, <1>1 DEF Scanning, NoScan, r
<1>17. FirstWins' /\ InPaths'
  BY <1>1, <1>16 DEF ScanInv, FirstWins, InPaths
<1>18. QED BY <1>7, <1>8, <1>11, <1>12, <1>13, <1>14, <1>15, <1>17 DEF ScanInv

\* A scan that raises leaves the table in use, of which nothing is claimed.
LEMMA LoadRaisesScanInv ==
  ASSUME ScanInv, NEW f \in Files, LoadRaises(f)
  PROVE  ScanInv'
<1>1. /\ IsNext(f) /\ Scanning /\ f \in scan.files
      /\ scan' = NoScan /\ touched' = Dirs \X Files
      /\ executed' = Append(executed, Path(f))
      /\ UNCHANGED <<content, search_paths, programs, ready, diff, edits>>
  BY DEF LoadRaises, IsNext
<1>2. Path(f) \in Dirs \X Files
  BY <1>1, ScanFacts DEF Path, PathOf
<1>3. TypeOK'
  BY <1>1, <1>2 DEF ScanInv, TypeOK
<1>4. ~ Scanning'
  BY <1>1 DEF Scanning
<1>5. PathsInv' /\ InPaths'
  BY <1>1, <1>4 DEF ScanInv, PathsInv, InPaths
<1>6. ExecutedOnce'
  BY <1>1, ExecutesOnce
<1>7. FirstWins'
  <2> SUFFICES ASSUME ready, NEW n \in Names
               PROVE  /\ \A i \in DOMAIN search_paths, g \in Files :
                           PathOf(i, g) \in touched'
                      /\ programs[n] # NoEntry =>
                           PathOf(programs[n].root, programs[n].file) \in touched'
    BY <1>1 DEF FirstWins, PathOf
  <2>1. \A i \in DOMAIN search_paths, g \in Files : PathOf(i, g) \in Dirs \X Files
    BY <1>1, ScanFacts
  <2>2. programs[n] # NoEntry =>
          programs[n].root \in DOMAIN search_paths /\ programs[n].file \in Files
    BY DEF ScanInv, TypeOK, Tables, Entries, InPaths
  <2> QED BY <1>1, <2>1, <2>2
<1>8. QED BY <1>3, <1>4, <1>5, <1>6, <1>7 DEF ScanInv

\* At the end of a scan every file has been dealt with (registry.py:84-103).
LEMMA EndScanScanInv ==
  ASSUME ScanInv, EndScan
  PROVE  ScanInv'
<1>1. /\ Scanning /\ scan.files = {} /\ scan.root = Len(search_paths)
      /\ programs' = scan.target /\ ready' = TRUE /\ scan' = NoScan
      /\ diff' = IF ready THEN Diff(programs, scan.target) ELSE diff
      /\ UNCHANGED <<content, search_paths, touched, executed, edits>>
  BY DEF EndScan
<1>2. TypeOK'
  <2>1. diff' \in [added : SUBSET Names, updated : SUBSET Names, removed : SUBSET Names]
    BY <1>1 DEF ScanInv, TypeOK, Diff
  <2> QED BY <1>1, <2>1, ScanFacts DEF ScanInv, TypeOK
<1>3. ~ Scanning'
  BY <1>1 DEF Scanning
<1>4. PathsInv' /\ ExecutedOnce'
  BY <1>1, <1>3 DEF ScanInv, PathsInv, ExecutedOnce
<1>5. \A i \in DOMAIN search_paths, f \in Files : Passed(i, f)
  BY <1>1, ScanFacts DEF Passed
<1>6. FirstWins'
  <2> SUFFICES ASSUME NEW n \in Names
               PROVE  /\ \A i \in DOMAIN search_paths, f \in Files :
                           PathOf(i, f) \notin touched /\ Outcome(PathOf(i, f)) = n =>
                             /\ scan.target[n] # NoEntry
                             /\ ~ Precedes(i, f, scan.target[n])
                      /\ scan.target[n] # NoEntry =>
                           LET path == PathOf(scan.target[n].root, scan.target[n].file)
                           IN  path \notin touched =>
                                 /\ content[path] = scan.target[n].hash
                                 /\ Outcome(path) = n
    BY <1>1 DEF FirstWins, PathOf, Outcome, Precedes
  <2> QED BY <1>1, <1>5, ScanFacts DEF ScanFirst, ScanTrue
<1>7. InPaths'
  BY <1>1, ScanFacts DEF InPaths, ScanTrue
<1>8. QED BY <1>2, <1>3, <1>4, <1>6, <1>7 DEF ScanInv

\* An edit touches its file and changes no other.
LEMMA EditScanInv ==
  ASSUME ScanInv, NEW edited \in Dirs \X Files,
         NEW c \in Contents \cup {NoContent}, Edit(edited, c)
  PROVE  ScanInv'
<1>1. /\ content' = [content EXCEPT ![edited] = c]
      /\ touched' = touched \cup {edited} /\ edits' = edits + 1
      /\ UNCHANGED <<search_paths, programs, ready, scan, diff, executed>>
  BY DEF Edit, process
<1>2. TypeOK'
  BY <1>1 DEF ScanInv, TypeOK
<1>3. \A path \in Dirs \X Files :
        path \notin touched' =>
          /\ path \notin touched /\ content'[path] = content[path]
          /\ Outcome(path)' = Outcome(path)
  BY <1>1 DEF ScanInv, TypeOK, Outcome
<1>4. /\ PathsInv' /\ ExecutedOnce' /\ InPaths' /\ Scanning' = Scanning
      /\ \A i, f : Passed(i, f)' = Passed(i, f) /\ PathOf(i, f)' = PathOf(i, f)
  BY <1>1 DEF ScanInv, PathsInv, Scanning, ExecutedOnce, InPaths, Passed, PathOf
<1>5. \A i \in DOMAIN search_paths, f \in Files : PathOf(i, f) \in Dirs \X Files
  BY DEF ScanInv, PathsInv, PathOf
<1>6. ASSUME Scanning
      PROVE  ScanFirst' /\ ScanTrue' /\ Sorted' /\ ExecutedPassed'
  <2>1. \A n \in Names : scan.target[n] # NoEntry => scan.target[n].file \in Files
    BY <1>6, ScanFacts DEF Tables, Entries
  <2>2. ScanFirst'
    BY <1>1, <1>3, <1>4, <1>5, <1>6, ScanFacts DEF ScanFirst, Precedes
  <2>3. ScanTrue'
    BY <1>1, <1>3, <1>4, <1>5, <1>6, <2>1, ScanFacts DEF ScanTrue
  <2>4. Sorted' /\ ExecutedPassed'
    BY <1>1, <1>4, <1>6, ScanFacts DEF Sorted, ExecutedPassed
  <2> QED BY <2>2, <2>3, <2>4
<1>7. FirstWins'
  <2>1. ready => \A n \in Names :
          programs[n] # NoEntry =>
            programs[n].root \in DOMAIN search_paths /\ programs[n].file \in Files
    BY DEF ScanInv, TypeOK, Tables, Entries, InPaths
  <2> SUFFICES ASSUME ready, ~ Scanning, NEW n \in Names
               PROVE  /\ \A i \in DOMAIN search_paths, f \in Files :
                           PathOf(i, f) \notin touched' /\ Outcome(PathOf(i, f))' = n =>
                             programs[n] # NoEntry /\ ~ Precedes(i, f, programs[n])
                      /\ programs[n] # NoEntry =>
                           LET path == PathOf(programs[n].root, programs[n].file)
                           IN  path \notin touched' =>
                                 /\ content'[path] = programs[n].hash
                                 /\ Outcome(path)' = n
    BY <1>1, <1>4 DEF FirstWins, PathOf, Precedes, Outcome
  <2> QED BY <1>1, <1>3, <1>4, <1>5, <2>1 DEF ScanInv, FirstWins, PathOf
<1>8. QED BY <1>2, <1>4, <1>6, <1>7 DEF ScanInv

-----------------------------------------------------------------------------
(* The theorems.                                                             *)

\* Every step keeps the invariant.
LEMMA NextScanInv ==
  ASSUME ScanInv, [Next]_vars
  PROVE  ScanInv'
<1>1. CASE Launch \/ Rescan
  BY <1>1, LaunchScanInv, RescanScanInv
<1>2. CASE ScanStep
  BY <1>2, ListDirectoryScanInv, LoadScanInv, LoadRaisesScanInv, EndScanScanInv
     DEF ScanStep
<1>3. CASE \E path \in Dirs \X Files, c \in Contents \cup {NoContent} : Edit(path, c)
  BY <1>3, EditScanInv
<1>4. CASE UNCHANGED vars
  <2>1. UNCHANGED <<content, search_paths, programs, ready, scan, diff, touched,
                    executed, edits>>
    BY <1>4 DEF vars, process
  <2>2. TypeOK' /\ PathsInv' /\ ExecutedOnce' /\ InPaths'
    BY <2>1 DEF ScanInv, TypeOK, PathsInv, Scanning, ExecutedOnce, InPaths
  <2>3. Scanning => ScanFirst' /\ ScanTrue' /\ Sorted' /\ ExecutedPassed'
    BY <2>1 DEF ScanInv, ScanFirst, ScanTrue, Sorted, ExecutedPassed, Passed, PathOf,
       Outcome, Precedes
  <2>4. Scanning' = Scanning /\ FirstWins'
    BY <2>1 DEF ScanInv, FirstWins, Scanning, Outcome, Precedes
  <2> QED BY <2>2, <2>3, <2>4 DEF ScanInv
<1>5. QED BY <1>1, <1>2, <1>3, <1>4 DEF Next

\* So it holds at all times.
LEMMA ScanInvariance == Spec => []ScanInv
<1>1. ScanInv /\ [Next]_vars => ScanInv'
  BY NextScanInv
<1>2. QED BY InitScanInv, <1>1, PTL DEF Spec

\* The search paths, the table in use and the one being made keep their types,
\* whatever is edited and whichever loads raise (registry.py:34-50, 106-121).
THEOREM TypeCorrect == Spec => []TypeOK
<1>1. ScanInv => TypeOK
  BY DEF ScanInv
<1>2. QED BY ScanInvariance, <1>1, PTL

\* Whatever is edited while the directories are scanned, every program that is
\* left alone is in the table or behind an earlier one of its name, and its
\* entry is what its file holds (registry.py:106-178).
THEOREM UntouchedFound == Spec => []FirstWins
<1>1. ScanInv => FirstWins
  BY DEF ScanInv
<1>2. QED BY ScanInvariance, <1>1, PTL

\* No scan executes a file twice, also when two of the search paths are the
\* same directory (__main__.py:117-124).
THEOREM NoneExecutedTwice == Spec => []ExecutedOnce
<1>1. ScanInv => ExecutedOnce
  BY DEF ScanInv
<1>2. QED BY ScanInvariance, <1>1, PTL
=============================================================================
