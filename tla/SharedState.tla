---------------------------- MODULE SharedState ----------------------------
(***************************************************************************)
(* Two server processes on one state directory.  Every agent session runs  *)
(* a server of its own over stdio, and _resolve_state_dir gives them all   *)
(* the same directory by default; instance.lock and the instance store are *)
(* private to each process.                                                *)
(***************************************************************************)
EXTENDS EventLog, FiniteSets

CONSTANTS Names, Ids, NameOf, NoProgram, Faults, Watch, MaxEvents

ASSUME SharedAssumption ==
  /\ NameOf \in [Programs -> Names]
  /\ NoProgram \notin Programs
  /\ Faults \subseteq {"torn_write", "io_error"}
  /\ Watch \in BOOLEAN
  /\ MaxEvents \in Nat

VARIABLES
  source, disk, used, told,                       \* what the servers share
  up1, registry1, driver1, log1, call1,           \* the first server
  up2, registry2, driver2, log2, call2            \* the second server

local1 == <<up1, registry1, driver1, log1, call1>>
local2 == <<up2, registry2, driver2, log2, call2>>
vars   == <<source, disk, used, told, local1, local2>>

S1 == INSTANCE Sequencer
        WITH up <- up1, registry <- registry1, driver <- driver1,
             log <- log1, call <- call1

S2 == INSTANCE Sequencer
        WITH up <- up2, registry <- registry2, driver <- driver2,
             log <- log2, call <- call2

TypeOK == S1!TypeOK /\ S2!TypeOK

Init == S1!Init /\ S2!Init

EditSource ==
  /\ \E name \in Names, p \in Programs \cup {NoProgram} :
       S1!EditSource(name, p)
  /\ UNCHANGED local2

Next ==
  \/ S1!ServerNext /\ UNCHANGED local2
  \/ S2!ServerNext /\ UNCHANGED local1
  \/ EditSource

Spec == Init /\ [][Next]_vars

-----------------------------------------------------------------------------
(* Nothing in the code keeps two servers off one instance.  ExclusiveSpec  *)
(* is the same system when its users do: an instance is loaded by one      *)
(* server at a time, and its log is not removed meanwhile.                 *)

Exclusive ==
  \A id \in Ids :
    /\ ~ (S1!Loaded(id) /\ S2!Loaded(id))
    /\ S1!Loaded(id) \/ S2!Loaded(id) => disk[id].present

ExclusiveSpec == Init /\ [][Next /\ Exclusive']_vars

-----------------------------------------------------------------------------

\* Handed from one server to the other, by a close or a crash and a resume, an
\* instance still is what its log replays to, whichever server holds it.
HandedOver == S1!Recoverable /\ S2!Recoverable

\* And nothing the agent was told by either server is forgotten by the other.
AckedSurvive == S1!AckedSurvive

\* Calls against the same instance are serialized: one result for each step
\* (tools.py:14-15).
Serialized == S1!OneResultPerStep

\* To the agent the two are one: together they implement the runs that no close,
\* crash or resume disturbs, wherever an instance is taken up again
\* (persistence.py:16-20, __main__.py:41-62).
Durable == S1!Durable

\* Only archived instances are pruned (persistence.py:192): the startup of one
\* server takes no log away from an instance that the other has loaded.
PrunesOnlyArchived ==
  [][~ up2 /\ up2' /\ call1 = S1!Idle =>
       \A id \in Ids : S1!Loaded(id) /\ disk[id].present => disk'[id].present]_vars
=============================================================================
