---------------------------- MODULE ScstTaskSet ----------------------------
(***************************************************************************)
(* What the command ordering of SCST promises: the task set of a logical   *)
(* unit as an initiator may think of it.  Commands come in one by one,     *)
(* each with a task attribute; a command starts when the attributes allow  *)
(* it, or is dropped before it starts; and a started command completes.    *)
(* ScstOrder implements this.                                              *)
(***************************************************************************)
EXTENDS Integers

CONSTANT MaxCmds

Cmds == 1..MaxCmds

VARIABLES phase,       \* how far the command is
          attr,        \* its task attribute
          wait_done    \* later commands wait for its completion, not its start

vars == <<phase, attr, wait_done>>

Init ==
    /\ phase = [c \in Cmds |-> "none"]
    /\ attr = [c \in Cmds |-> "SIMPLE"]
    /\ wait_done = [c \in Cmds |-> FALSE]

Receive(c) ==
    /\ phase[c] = "none"
    /\ \A d \in 1..(c-1) : phase[d] # "none"
    /\ phase' = [phase EXCEPT ![c] = "queued"]
    /\ \E q \in {"SIMPLE", "ORDERED", "HQ"}, w \in BOOLEAN :
          /\ attr' = [attr EXCEPT ![c] = q]
          /\ wait_done' = [wait_done EXCEPT ![c] = w]

(* c may not pass d: neither is HEAD OF QUEUE, and an ORDERED command is   *)
(* one of them or stands between them.                                     *)
MustFollow(c, d) ==
    /\ attr[c] # "HQ" /\ attr[d] # "HQ"
    /\ \E e \in d..c : attr[e] = "ORDERED"

OutOfTheWay(d) ==
    phase[d] \in {"dropped", "finished"} \cup (IF wait_done[d] THEN {} ELSE {"started"})

Start(c) ==
    /\ phase[c] = "queued"
    /\ \A d \in 1..(c-1) : MustFollow(c, d) => OutOfTheWay(d)
    /\ phase' = [phase EXCEPT ![c] = "started"]
    /\ UNCHANGED <<attr, wait_done>>

Drop(c) ==
    /\ phase[c] = "queued"
    /\ phase' = [phase EXCEPT ![c] = "dropped"]
    /\ UNCHANGED <<attr, wait_done>>

Complete(c) ==
    /\ phase[c] = "started"
    /\ phase' = [phase EXCEPT ![c] = "finished"]
    /\ UNCHANGED <<attr, wait_done>>

Next == \E c \in Cmds : Receive(c) \/ Start(c) \/ Drop(c) \/ Complete(c)

Spec == Init /\ [][Next]_vars
=============================================================================
