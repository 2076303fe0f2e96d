------------------------------ MODULE Registry ------------------------------
(***************************************************************************)
(* The program registry of registry.py over the search paths that          *)
(* __main__.py resolves.  A scan reads one directory listing and one file  *)
(* after another, while users edit, add and remove files, so what it finds *)
(* need never have been there at one moment.                               *)
(*                                                                         *)
(* File names are numbered in the order in which sorted() puts them; those *)
(* that begin with "_" are skipped and left out.  A search path that is    *)
(* not a directory is one without files.                                   *)
(***************************************************************************)
EXTENDS Naturals, Sequences, Functions

CONSTANTS
  Dirs,       \* directories
  Files,      \* names of *.py files
  Contents,   \* what a file can hold; contents are equal if their hashes are
  NoContent,  \* there is no such file
  Names,      \* program names
  LoadsAs,    \* LoadsAs[<<f, c>>]: what _load makes of content c in a file f,
              \* whose stem is the NAME of a program that gives none
  Skipped,    \* it cannot be read or executed, or has no run(): a warning
  Raises,     \* an exception that _load does not catch: NAME is not hashable
  NoEntry,    \* no program of a name
  Trees,      \* what the directories may hold at first
  Watch,      \* the --watch flag
  MaxEdits    \* bound: how many edits are made

ASSUME RegistryAssumption ==
  /\ Files \subseteq Nat
  /\ NoContent \notin Contents
  /\ LoadsAs \in [Files \X Contents -> Names \cup {Skipped, Raises}]
  /\ Skipped \notin Names /\ Raises \notin Names
  /\ Trees \subseteq [Dirs \X Files -> Contents \cup {NoContent}]
  /\ Watch \in BOOLEAN
  /\ MaxEdits \in Nat

VARIABLES
  content,       \* what each file holds
  search_paths,  \* _search_paths
  programs,      \* _programs
  ready,         \* the constructor has returned
  scan,          \* the scan being made
  diff,          \* what rescan() returned last
  touched,       \* history: the files edited since the last scan began
  executed,      \* history: the files that this scan, or the last, executed
  edits          \* how many edits were made

process == <<search_paths, programs, ready, scan, diff, executed>>
vars    == <<content, process, touched, edits>>

\* A ProgramEntry: source_path, as the search path and the file, and source_hash.
Entries == [root : Nat, file : Files, hash : Contents]

ASSUME NoEntryAssumption == NoEntry \notin Entries

Tables == [Names -> Entries \cup {NoEntry}]
Empty  == [n \in Names |-> NoEntry]

\* A scan in the search path `root`, with `files` of it still to be loaded.
Scans  == [root : Nat, files : SUBSET Files, target : Tables]
NoScan == [root |-> 0, files |-> {}]

NoChange == [added |-> {}, updated |-> {}, removed |-> {}]

TypeOK ==
  /\ content \in [Dirs \X Files -> Contents \cup {NoContent}]
  /\ search_paths \in Seq(Dirs)
  /\ programs \in Tables
  /\ ready \in BOOLEAN
  /\ scan \in Scans \cup {NoScan}
  /\ diff \in [added : SUBSET Names, updated : SUBSET Names, removed : SUBSET Names]
  /\ touched \subseteq Dirs \X Files
  /\ executed \in Seq(Dirs \X Files)
  /\ edits \in Nat

Init ==
  /\ content \in Trees
  /\ search_paths = <<>>
  /\ programs = Empty
  /\ ready = FALSE
  /\ scan = NoScan
  /\ diff = NoChange
  /\ touched = {}
  /\ executed = <<>>
  /\ edits = 0

-----------------------------------------------------------------------------

Scanning == scan # NoScan

\* Mutant of With: a directory may be listed again.
WithRepeats(paths, d) == Append(paths, d)

\* The search paths with d after the others, unless it is one of them.
With(paths, d) ==
  IF \E i \in DOMAIN paths : paths[i] = d THEN paths ELSE Append(paths, d)

\* The programs directories of the working directory, of the user and, if the
\* environment variable is set, of that.
SearchPaths ==
  {With(<<project>>, user) : project, user \in Dirs}
    \cup {With(With(<<project>>, user), env) : project, user, env \in Dirs}

\* What _load makes of the file as it is now.
Outcome(path) ==
  IF content[path] = NoContent THEN Skipped
  ELSE LoadsAs[<<path[2], content[path]>>]

BeginScan ==
  /\ ~ Scanning
  /\ scan' = [root |-> 0, files |-> {}, target |-> Empty]
  /\ touched' = {}
  /\ executed' = <<>>

\* The server starts, and its constructor scans.
Launch ==
  /\ ~ ready
  /\ search_paths' \in SearchPaths
  /\ BeginScan
  /\ UNCHANGED <<content, programs, ready, diff, edits>>

\* A tool call under --watch, once the throttle allows.
Rescan ==
  /\ Watch
  /\ ready
  /\ BeginScan
  /\ UNCHANGED <<content, search_paths, programs, ready, diff, edits>>

\* _scan lists the next directory.
ListDirectory ==
  /\ Scanning
  /\ scan.files = {}
  /\ scan.root < Len(search_paths)
  /\ scan' =
       [scan EXCEPT
          !.root  = @ + 1,
          !.files = {f \in Files :
                       content[<<search_paths[scan.root + 1], f>>] # NoContent}]
  /\ UNCHANGED <<content, search_paths, programs, ready, diff, touched, executed,
                 edits>>

Path(f) == <<search_paths[scan.root], f>>

\* f is the next file of the listing.
IsNext(f) == Scanning /\ f \in scan.files /\ \A g \in scan.files : f <= g

Entry(f) == [root |-> scan.root, file |-> f, hash |-> content[Path(f)]]

\* Mutant of Added: the last file of a name wins.
AddedLast(f) ==
  IF Outcome(Path(f)) \in Names
  THEN [scan.target EXCEPT ![Outcome(Path(f))] = Entry(f)]
  ELSE scan.target

\* Mutant of Added: the content is stored for the entry.
AddedBare(f) ==
  IF Outcome(Path(f)) \in Names
  THEN [scan.target EXCEPT ![Outcome(Path(f))] = content[Path(f)]]
  ELSE scan.target

\* The table once f is loaded: the first file of a name wins.
Added(f) ==
  IF Outcome(Path(f)) \in Names /\ scan.target[Outcome(Path(f))] = NoEntry
  THEN [scan.target EXCEPT ![Outcome(Path(f))] = Entry(f)]
  ELSE scan.target

\* _load reads and executes the file, which may have changed or gone since the
\* directory was listed.
Load(f) ==
  /\ IsNext(f)
  /\ Outcome(Path(f)) # Raises
  /\ scan' = [scan EXCEPT !.files = @ \ {f}, !.target = Added(f)]
  /\ executed' = IF content[Path(f)] = NoContent THEN executed
                 ELSE Append(executed, Path(f))
  /\ UNCHANGED <<content, search_paths, programs, ready, diff, touched, edits>>

\* An exception leaves the scan: the server does not start, or the tool call
\* fails and the table stays as it was.
LoadRaises(f) ==
  /\ IsNext(f)
  /\ Outcome(Path(f)) = Raises
  /\ scan' = NoScan
  /\ touched' = Dirs \X Files
  /\ executed' = Append(executed, Path(f))
  /\ UNCHANGED <<content, search_paths, programs, ready, diff, edits>>

\* rescan() compares the tables by hash.
Diff(old, new) ==
  [added   |-> {n \in Names : old[n] = NoEntry /\ new[n] # NoEntry},
   updated |-> {n \in Names : /\ old[n] # NoEntry /\ new[n] # NoEntry
                              /\ old[n].hash # new[n].hash},
   removed |-> {n \in Names : old[n] # NoEntry /\ new[n] = NoEntry}]

\* Mutant of EndScan: the new table is not put in the place of the old one.
EndScanNoSwap ==
  /\ Scanning
  /\ scan.files = {}
  /\ scan.root = Len(search_paths)
  /\ programs' = IF ready THEN programs ELSE scan.target
  /\ diff' = IF ready THEN Diff(programs, scan.target) ELSE diff
  /\ ready' = TRUE
  /\ scan' = NoScan
  /\ UNCHANGED <<content, search_paths, touched, executed, edits>>

EndScan ==
  /\ Scanning
  /\ scan.files = {}
  /\ scan.root = Len(search_paths)
  /\ programs' = scan.target
  /\ diff' = IF ready THEN Diff(programs, scan.target) ELSE diff
  /\ ready' = TRUE
  /\ scan' = NoScan
  /\ UNCHANGED <<content, search_paths, touched, executed, edits>>

\* A file is written, replaced or removed.
Edit(path, c) ==
  /\ edits < MaxEdits
  /\ content[path] # c
  /\ content' = [content EXCEPT ![path] = c]
  /\ touched' = touched \cup {path}
  /\ edits' = edits + 1
  /\ UNCHANGED process

ScanStep ==
  \/ ListDirectory
  \/ \E f \in Files : Load(f)
  \/ \E f \in Files : LoadRaises(f)
  \/ EndScan

Next ==
  \/ Launch
  \/ Rescan
  \/ ScanStep
  \/ \E path \in Dirs \X Files, c \in Contents \cup {NoContent} : Edit(path, c)

\* A call runs its scan to the end, an agent goes on listing or starting
\* programs, and a client whose server did not start tries again.
Fairness == WF_vars(ScanStep) /\ WF_vars(Rescan) /\ WF_vars(Launch)

Spec == Init /\ [][Next]_vars /\ Fairness

-----------------------------------------------------------------------------
(* Properties.                                                             *)

\* Search path i and file f come before those of the entry e.
Precedes(i, f, e) == i < e.root \/ (i = e.root /\ f < e.file)

\* Once a scan is over and whatever was edited while it ran, an untouched file
\* with a program is found, or an earlier one of the same name is; and the
\* entry of an untouched file is what the file holds: no edit of one program
\* hides or falsifies another (registry.py:106-110, 163-171).
FirstWins ==
  ready /\ ~ Scanning =>
    \A n \in Names :
      /\ \A i \in DOMAIN search_paths, f \in Files :
           LET path == <<search_paths[i], f>>
           IN  path \notin touched /\ Outcome(path) = n =>
                 programs[n] # NoEntry /\ ~ Precedes(i, f, programs[n])
      /\ programs[n] # NoEntry =>
           LET path == <<search_paths[programs[n].root], programs[n].file>>
           IN  path \notin touched =>
                 content[path] = programs[n].hash /\ Outcome(path) = n

\* No scan executes a file twice, also when two search paths are the same
\* directory (__main__.py:117-124).
ExecutedOnce == IsInjective(executed)

\* The file that the search order gives n.
Current(n) ==
  LET Has(i, f) == Outcome(<<search_paths[i], f>>) = n
      found == {e \in {[root |-> i, file |-> f,
                        hash |-> content[<<search_paths[i], f>>]] :
                       i \in DOMAIN search_paths, f \in Files} :
                Has(e.root, e.file)}
  IN  IF found = {} THEN NoEntry
      ELSE CHOOSE e \in found : \A d \in found : ~ Precedes(d.root, d.file, e)

\* Under --watch the table catches up with the files once they stay as they
\* are, unless one of them makes every scan fail (tools.py:106-118).
CatchesUp ==
  <>[](\A path \in Dirs \X Files : Outcome(path) # Raises) =>
    <>[](ready /\ \A n \in Names : programs[n] = Current(n))

\* A rescan that reports no change has changed nothing (registry.py:79).
EmptyDiffNoChange ==
  [][ready /\ Scanning /\ scan' = NoScan /\ diff' = NoChange =>
       programs' = programs]_vars

\* A file that cannot be loaded is skipped and no scan fails for it
\* (registry.py:133-134).
LoadFailuresSkipped ==
  [][Scanning /\ scan' = NoScan => scan.files = {}]_vars
=============================================================================
