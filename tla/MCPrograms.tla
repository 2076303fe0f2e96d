----------------------------- MODULE MCPrograms -----------------------------
(***************************************************************************)
(* Programs to check with, as tables.  confirm1 and confirm2 are two       *)
(* versions of the program "confirm": the first asks for a confirmation,   *)
(* retrying a bad one, then for a value, giving up on a bad one; the       *)
(* second asks once and ends with Abort or a return.  dangling has an      *)
(* expect_schema with a $ref that does not resolve, met by bad results.    *)
(* taker removes an entry from its params and fails if it is not there.    *)
(***************************************************************************)
EXTENDS Driver

CONSTANTS
  ok, bad,                             \* results
  confirm1, confirm2, dangling, taker, \* program versions
  confirm,                             \* the program name
  full, taken                          \* params, with and without the entry

MCResults == {ok, bad}
MCNames   == {confirm}

MCNameOf == [p \in Programs |-> confirm]

MCGenStates == {"confirm", "value", "ask", "ref", "done", "abort", "end", "raise"}

\* The second question of confirm1 and the summary that confirm2 returns.
MCOddYields == {"value", "end"}

Accepts(good, verdict) ==
  [r \in MCResults |-> IF r \in good THEN "valid" ELSE verdict]

Asks(verdict, on_invalid) ==
  [kind |-> "instruction", verdict |-> verdict, on_invalid |-> on_invalid]

Ends(kind) ==
  [kind |-> kind, verdict |-> Accepts({}, "invalid"), on_invalid |-> "retry"]

MCYields ==
  [g \in MCGenStates |->
     CASE g = "confirm" -> Asks(Accepts({ok}, "invalid"), "retry")
       [] g = "value"   -> Asks(Accepts({ok}, "invalid"), "abort")
       [] g = "ask"     -> Asks(Accepts({ok, bad}, "invalid"), "retry")
       [] g = "ref"     -> Asks(Accepts({ok}, "raises"), "retry")
       [] g = "end"     -> Ends("return")
       [] OTHER         -> Ends(g)]

MCEntry ==
  [pa \in Programs \X Params |->
     CASE pa[1] = confirm1       -> "confirm"
       [] pa[1] = confirm2       -> "ask"
       [] pa[1] = dangling       -> "ref"
       [] pa = <<taker, full>>   -> "ask"
       [] pa = <<taker, taken>>  -> "raise"]

MCParamsLeft ==
  [pa \in Programs \X Params |-> IF pa[1] = taker THEN taken ELSE pa[2]]

MCResumed ==
  [gr \in MCGenStates \X MCResults |->
     CASE gr[1] = "confirm"   -> "value"
       [] gr[1] = "value"     -> "done"
       [] gr = <<"ask", bad>> -> "abort"
       [] OTHER               -> "end"]
=============================================================================
