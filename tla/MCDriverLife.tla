---------------------------- MODULE MCDriverLife ----------------------------
(***************************************************************************)
(* DriverLife with every reaction a program can show: a point where a      *)
(* generator stops is the reaction seen there.                             *)
(***************************************************************************)
EXTENDS DriverLife

CONSTANTS ok, bad

MCResults == {ok, bad}
MCYields  == [g \in Reactions |-> g]

\* The deterministic programs of Driver, which DriverLife does not use.
MCEntry      == [pa \in Programs \X Params |-> CHOOSE g \in GenStates : TRUE]
MCParamsLeft == [pa \in Programs \X Params |-> pa[2]]
MCResumed    == [gr \in GenStates \X Results |-> gr[1]]
=============================================================================
