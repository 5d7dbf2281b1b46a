---------------------------- MODULE MCScstOrder ----------------------------
(* Kinds of devices for the model checking runs of ScstOrder.              *)
EXTENDS ScstOrder

AllDevs == DevModes
RestrictedDevs == {d \in DevModes : d.restricted}
FreeDevs == DevModes \ RestrictedDevs
LiveDevs == FreeDevs \cup {d \in RestrictedDevs : ~d.exec_sync /\ ~d.own_order}
NoDevs == {}
=============================================================================
