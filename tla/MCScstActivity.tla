--------------------------- MODULE MCScstActivity ---------------------------
(***************************************************************************)
(* Instances of ScstActivity.  The first command is worked on on CPU 2 and *)
(* everything else on CPU 1, so that the reads of scst_get_cmd_counter()   *)
(* can fall between a reference given back and one taken.                  *)
(***************************************************************************)
EXTENDS ScstActivity

CONSTANTS a1, g1, g2, unreg

TwoCpus == [x \in Cmds \cup AllMcmds |-> IF x = 1 THEN {2} ELSE {1}]

(* Nested and repeated suspending with two commands; a session that is     *)
(* being registered; a function against a command and one suspender.       *)
Suspending == [cmds |-> 2, mcmds |-> {}, suspends |-> 2, phase |-> "READY"]
Registering == [cmds |-> 2, mcmds |-> {}, suspends |-> 1, phase |-> "INITING"]
Aborting == [cmds |-> 1, mcmds |-> {a1}, suspends |-> 1, phase |-> "READY"]

AllLoads == {Suspending, Registering, Aborting}
RegisteringOnly == {Registering}
=============================================================================
