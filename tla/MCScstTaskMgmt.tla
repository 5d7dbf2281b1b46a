--------------------------- MODULE MCScstTaskMgmt ---------------------------
(* Two sessions with one command each for the runs of ScstTaskMgmt.        *)
EXTENDS ScstTaskMgmt, TLC

CONSTANTS s1, s2, p1, c2, m1

MCSessOf == (p1 :> s1) @@ (c2 :> s2)
=============================================================================
