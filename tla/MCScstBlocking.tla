--------------------------- MODULE MCScstBlocking ---------------------------
(* Operations for the model checking runs of ScstBlocking.                 *)
EXTENDS ScstBlocking

Op(serialized, strict, kind) ==
    [serialized |-> serialized, strict |-> strict, kind |-> kind, area |-> "a"]
Plain == Op(FALSE, FALSE, "rw")
Serialized == Op(TRUE, FALSE, "other")      \* e.g. RELEASE
Strict == Op(TRUE, TRUE, "other")           \* e.g. FORMAT UNIT
CompareAndWrite == Op(FALSE, FALSE, "cwr")
Reserve == Op(TRUE, FALSE, "reserve")

SerialOps == {Plain, Serialized, Strict}
AtomicOps == {Plain, CompareAndWrite, Reserve}
PlainStrict == {Plain, Strict}
RangeOps == {Plain, CompareAndWrite, [CompareAndWrite EXCEPT !.area = "b"]}

SafetyMixes == {SerialOps, AtomicOps}
LiveMixes == {PlainStrict, RangeOps}
ExtMixes == {PlainStrict}
AtomicMixes == {AtomicOps}
=============================================================================
