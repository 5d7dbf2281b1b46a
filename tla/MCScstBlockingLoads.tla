------------------------ MODULE MCScstBlockingLoads ------------------------
(***************************************************************************)
(* ScstBlocking with one of three loads in a behaviour:                    *)
(*   commands  three commands and a task management function, no external  *)
(*             caller                                                      *)
(*   external  two commands, plain or strictly serialized, and the         *)
(*             external callers, in any order                              *)
(*   in_turn   the same with callers that wait for each other and for      *)
(*             ext_blockers_work before they call again                    *)
(***************************************************************************)
EXTENDS MCScstBlocking

CONSTANTS MaxOverlapping  \* calls in a behaviour when they may overlap

VARIABLE load

LoadInit ==
    /\ Init
    /\ \/ load = "commands"
       \/ /\ load \in {"external", "in_turn"}
          /\ ~dev_double_ua_possible
          /\ op[3] = Plain /\ \A c \in Cmds : op[c] \in PlainStrict

InTurn == ~ext_unblock_scheduled /\ \A e \in Callers : call[e].pc = "idle"

LoadNext ==
    /\ Next
    /\ UNCHANGED load
    /\ load = "commands" => ext_ops' = 0
    /\ load # "commands" => state'[3] = "none" /\ UNCHANGED tm
    /\ load = "external" => ext_ops' <= MaxOverlapping
    /\ load = "in_turn" /\ ext_ops' # ext_ops => InTurn

LoadSpec == LoadInit /\ [][LoadNext]_<<vars, load>>
FairLoadSpec == LoadSpec /\ Fairness

(* A blocked device is idle, if the external callers take turns: when the  *)
(* attribute "block" reads as blocked and not pending, no command is being *)
(* executed or about to be.                                                *)
FrozenInTurn == load = "in_turn" => Frozen

(* No external blocker is forgotten: one on ext_blockers_list is going to  *)
(* be served by a command on the device or by ext_blockers_work, and, if   *)
(* the external callers take turns, one asleep in scst_ext_block_dev() has *)
(* somebody to wake it up.                                                 *)
NoBlockerForgotten == BlockersServed /\ (load = "in_turn" => SleeperHasWaker)
=============================================================================
