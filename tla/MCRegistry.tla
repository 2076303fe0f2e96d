----------------------------- MODULE MCRegistry -----------------------------
(***************************************************************************)
(* Registry, with two directories of two files.  first and second are      *)
(* versions of the program "named", unnamed takes its name from the file,  *)
(* broken does not compile and listed has a list for a NAME.               *)
(***************************************************************************)
EXTENDS Registry

CONSTANTS project, user, first, second, unnamed, broken, listed, named, stem1, stem2

MCDirs == {project, user}

MCLoadsAs ==
  [fc \in Files \X Contents |->
     CASE fc[2] \in {first, second} -> named
       [] fc[2] = unnamed           -> IF fc[1] = 1 THEN stem1 ELSE stem2
       [] fc[2] = broken            -> Skipped
       [] fc[2] = listed            -> Raises]

\* A program of the user that the project may override, and a second one.
MCTrees ==
  {[path \in Dirs \X Files |->
      CASE path = <<user, 1>>    -> first
        [] path = <<user, 2>>    -> c
        [] path = <<project, 2>> -> d
        [] OTHER                 -> NoContent] :
   c \in {NoContent, unnamed}, d \in {NoContent, second, broken}}
=============================================================================
