-------------------------- MODULE ScstBlockingGate --------------------------
(***************************************************************************)
(* The inductive invariants of ScstBlocking that say where a command is:   *)
(* its flags, the lists, the links of the atomicity check, and what        *)
(* on_dev_cmd_count counts.                                                *)
(***************************************************************************)
EXTENDS ScstBlockingTypes

(* The flags of a command, and the list it is on, agree with where it is.  *)
GateInv ==
    /\ \A c \in Cmds : unblock_dev[c] \/ dec_on_dev_needed[c]
          => state[c] \in {"passed", "exec", "skip", "done"}
    /\ \A c \in Cmds : state[c] \in {"passed", "exec", "skip"} => dec_on_dev_needed[c]
    /\ \A c \in blocked_cmd_list : state[c] = "blocked"

(* A command in the atomicity check counts those that will release it.     *)
Waits(d) == {c \in Cmds : d \in scsi_atomic_blocked_cmds[c]}
AtomicInv ==
    \A d \in Cmds :
        /\ scsi_atomic_blockers[d] = Cardinality(Waits(d))
        /\ Waits(d) # {} => state[d] = "overlap"

(* A task management function that has not begun does not block.           *)
TmInv == \A t \in Tms : tm[t].pc = "none" => ~tm[t].needs_unblocking

(* The flags of the commands stay in agreement with where they are,        *)
(* through scst_do_check_blocked_dev(), __scst_check_unblock_dev() and     *)
(* every release.                                                          *)
LEMMA GateStep ==
    ASSUME TypeOK, GateInv, AtomicInv, [Next]_vars
    PROVE  GateInv'
<1> USE DEF TypeOK, DevTypeOK, CmdTypeOK
<1>1. ASSUME NEW c \in Cmds,
             Arrive(c) \/ FailAlua(c) \/ LocalEvents(c) \/ Completed(c)
      PROVE  GateInv'
  BY <1>1 DEF Arrive, FailAlua, LocalEvents, Completed, gateVars, onDevVars, GateInv
<1>2. ASSUME NEW c \in Cmds, PassFree(c) \/ PassSerialized(c) \/ PassStrict(c)
      PROVE  GateInv'
  BY <1>2 DEF PassFree, PassSerialized, PassStrict, NoOverlap, EnterCheck, Pass, GateInv
<1>3. ASSUME NEW c \in Cmds, DelayOverlap(c)
      PROVE  GateInv'
  BY <1>3 DEF DelayOverlap, EnterCheck, gateVars, onDevVars, GateInv
<1>4. ASSUME NEW c \in Cmds, DelayStrict(c) \/ DelayBlocked(c)
      PROVE  GateInv'
  BY <1>4 DEF DelayStrict, DelayBlocked, NoOverlap, EnterCheck, Block, onDevVars, GateInv
<1>5. ASSUME NEW c \in Cmds, DevDone(c)
      PROVE  GateInv'
  <2>1. PICK R \in SUBSET blocked_cmd_list :
          /\ blocked_cmd_list' = blocked_cmd_list \ R
          /\ state' = [Activate(R \cup Freed(c)) EXCEPT ![c] = "gone"]
    BY Zenon, <1>5, UnblockedType DEF DevDone
  <2>2. \A d \in Freed(c) : d \in Cmds /\ state[d] = "overlap"
    BY Zenon DEF Freed, AtomicInv, Waits
  <2>3. \A d \in R : d \in Cmds /\ state[d] = "blocked"
    BY <2>1 DEF GateInv
  <2>4. \A d \in Cmds : state'[d] = IF d = c THEN "gone"
                                    ELSE IF d \in R \cup Freed(c) THEN "active" ELSE state[d]
    BY <2>1 DEF Activate
  <2>5. /\ unblock_dev' = [unblock_dev EXCEPT ![c] = FALSE]
        /\ dec_on_dev_needed' = [dec_on_dev_needed EXCEPT ![c] = FALSE]
        /\ state[c] = "done"
    BY <1>5 DEF DevDone
  <2>6. \A d \in Cmds : unblock_dev'[d] \/ dec_on_dev_needed'[d] =>
           d # c /\ d \notin R \cup Freed(c) /\ state[d] \in {"passed", "exec", "skip", "done"}
    BY <2>2, <2>3, <2>5 DEF GateInv
  <2>7. \A d \in Cmds : state'[d] \in {"passed", "exec", "skip"} => dec_on_dev_needed'[d]
    BY <2>4, <2>5 DEF GateInv
  <2>8. \A d \in blocked_cmd_list' : state'[d] = "blocked"
    BY Zenon, <2>1, <2>2, <2>4, <2>5 DEF GateInv
  <2> QED
    BY <2>4, <2>6, <2>7, <2>8 DEF GateInv
<1>6. ASSUME Released, UNCHANGED <<unblock_dev, dec_on_dev_needed>>
      PROVE  GateInv'
  <2>1. PICK R \in SUBSET blocked_cmd_list :
          blocked_cmd_list' = blocked_cmd_list \ R /\ state' = Activate(R)
    BY <1>6 DEF Released
  <2> QED
    BY <1>6, <2>1 DEF Activate, GateInv
<1>7. ASSUME NEW t \in Tms, scst_unblock_aborted_cmds(t) \/ TmDone(t)
      PROVE  Released /\ UNCHANGED <<unblock_dev, dec_on_dev_needed>>
  BY Zenon, <1>7, NothingReleased, UnblockReleases
     DEF scst_unblock_aborted_cmds, TmDone, onDevVars, Released
<1>8. ASSUME NEW t \in Tms, Reset(t) \/ \E c \in Cmds : AbortTask(t, c)
      PROVE  GateInv'
  BY <1>8 DEF Reset, AbortTask, gateVars, onDevVars, GateInv
<1>9. CASE ExtStep
  BY <1>6, <1>9, ExtStepEffect DEF onDevVars
<1>10. CASE UNCHANGED vars
  BY <1>10 DEF vars, gateVars, onDevVars, GateInv
<1> QED
  BY <1>1, <1>2, <1>3, <1>4, <1>5, <1>6, <1>7, <1>8, <1>9, <1>10, NextCases

(* scsi_atomic_blockers stays the number of commands that have this one on *)
(* their array of blocked commands, and only __scst_check_unblock_dev() of *)
(* the last one lets it go on.                                             *)
LEMMA AtomicStep ==
    ASSUME TypeOK, GateInv, AtomicInv, [Next]_vars
    PROVE  AtomicInv'
<1> USE DEF TypeOK, DevTypeOK, CmdTypeOK
<1>1. ASSUME UNCHANGED <<scsi_atomic_blocked_cmds, scsi_atomic_blockers>>,
             \A d \in Cmds : state[d] = "overlap" => state'[d] = "overlap"
      PROVE  AtomicInv'
  BY Zenon, <1>1 DEF AtomicInv, Waits
<1>2. ASSUME NEW c \in Cmds,
             Arrive(c) \/ FailAlua(c) \/ LocalEvents(c) \/ Completed(c)
      PROVE  AtomicInv'
  BY <1>1, <1>2 DEF Arrive, FailAlua, LocalEvents, Completed, atomicVars
<1>3. ASSUME NEW c \in Cmds, PassFree(c) \/ PassSerialized(c) \/ PassStrict(c)
      PROVE  AtomicInv'
  BY <1>1, <1>3 DEF PassFree, PassSerialized, PassStrict, NoOverlap, EnterCheck, Pass
<1>4. ASSUME NEW c \in Cmds, DelayStrict(c) \/ DelayBlocked(c)
      PROVE  AtomicInv'
  BY <1>1, <1>4 DEF DelayStrict, DelayBlocked, NoOverlap, EnterCheck, Block
<1>5. ASSUME NEW c \in Cmds, DelayOverlap(c)
      PROVE  AtomicInv'
  <2>1. /\ state[c] = "active"
        /\ state' = [state EXCEPT ![c] = "overlap"]
        /\ scsi_atomic_blocked_cmds' =
             [d \in Cmds |-> IF d \in Overlapping(c) THEN scsi_atomic_blocked_cmds[d] \cup {c}
                                                     ELSE scsi_atomic_blocked_cmds[d]]
        /\ scsi_atomic_blockers' =
             [scsi_atomic_blockers EXCEPT ![c] = @ + Cardinality(Overlapping(c))]
    BY <1>5 DEF DelayOverlap, EnterCheck
  <2>2. Overlapping(c) \subseteq Cmds
    BY DEF Overlapping
  <2>3. Waits(c) = {} /\ scsi_atomic_blockers[c] = 0
    BY Zenon, <2>1, FS_EmptySet DEF AtomicInv
  <2>4. Waits(c)' = Overlapping(c)
    BY <2>1, <2>2, <2>3 DEF Waits
  <2>5. \A d \in Cmds \ {c} : Waits(d)' = Waits(d)
    BY <2>1 DEF Waits
  <2>6. IsFiniteSet(Overlapping(c))
    BY <2>2, FS_Subset, BlockingAssumption
  <2>7. scsi_atomic_blockers'[c] = Cardinality(Overlapping(c))
    BY <2>1, <2>3, <2>6, FS_CardinalityType
  <2> QED
    BY <2>1, <2>4, <2>5, <2>7 DEF AtomicInv
<1>6. ASSUME NEW c \in Cmds, DevDone(c)
      PROVE  AtomicInv'
  <2>1. PICK R \in SUBSET blocked_cmd_list :
          state' = [Activate(R \cup Freed(c)) EXCEPT ![c] = "gone"]
    BY Zenon, <1>6, UnblockedType DEF DevDone
  <2>2. \A d \in R : state[d] = "blocked"
    BY <2>1 DEF GateInv
  <2>3. /\ state[c] = "done"
        /\ scsi_atomic_blocked_cmds' = [scsi_atomic_blocked_cmds EXCEPT ![c] = {}]
        /\ scsi_atomic_blockers' = [d \in Cmds |-> scsi_atomic_blockers[d]
                                  - (IF d \in scsi_atomic_blocked_cmds[c] THEN 1 ELSE 0)]
    BY <1>6 DEF DevDone
  <2> SUFFICES ASSUME NEW d \in Cmds
               PROVE  /\ scsi_atomic_blockers'[d] = Cardinality(Waits(d)')
                      /\ Waits(d)' # {} => state'[d] = "overlap"
    BY DEF AtomicInv
  <2>4. Waits(d)' = Waits(d) \ {c}
    BY <2>3 DEF Waits
  <2>5. IsFiniteSet(Waits(d))
    BY FS_Subset, BlockingAssumption DEF Waits
  <2>6. c \in Waits(d) <=> d \in scsi_atomic_blocked_cmds[c]
    BY DEF Waits
  <2>7. /\ IsFiniteSet(Waits(d) \ {c})
        /\ Cardinality(Waits(d) \ {c}) =
             IF c \in Waits(d) THEN Cardinality(Waits(d)) - 1 ELSE Cardinality(Waits(d))
    BY Zenon, <2>5, FS_RemoveElement
  <2>8. scsi_atomic_blockers'[d] = Cardinality(Waits(d)')
    BY <2>3, <2>4, <2>5, <2>6, <2>7, FS_CardinalityType DEF AtomicInv
  <2>9. d \in Freed(c) => Waits(d)' = {}
    <3>1. SUFFICES ASSUME d \in Freed(c)
                   PROVE  Cardinality(Waits(d) \ {c}) = 0
      BY Zenon, <2>4, <2>7, FS_EmptySet
    <3>2. Cardinality(Waits(d)) = 1 /\ c \in Waits(d)
      BY <2>6, <3>1 DEF Freed, AtomicInv
    <3> QED
      BY <2>7, <3>2
  <2>10. Waits(d)' # {} => state[d] = "overlap" /\ d # c /\ d \notin R \cup Freed(c)
    BY <2>2, <2>3, <2>4, <2>9 DEF AtomicInv
  <2> QED
    BY <2>1, <2>8, <2>10 DEF Activate
<1>7. ASSUME Released, UNCHANGED atomicVars
      PROVE  AtomicInv'
  BY <1>1, <1>7 DEF Released, Activate, GateInv, atomicVars
<1>8. ASSUME NEW t \in Tms, scst_unblock_aborted_cmds(t) \/ TmDone(t)
      PROVE  Released /\ UNCHANGED atomicVars
  BY Zenon, <1>8, NothingReleased, UnblockReleases DEF scst_unblock_aborted_cmds, TmDone, Released
<1>9. ASSUME NEW t \in Tms, Reset(t) \/ \E c \in Cmds : AbortTask(t, c)
      PROVE  AtomicInv'
  BY <1>1, <1>9 DEF Reset, AbortTask, atomicVars
<1>10. CASE ExtStep
  BY <1>7, <1>10, ExtStepEffect
<1>11. CASE UNCHANGED vars
  BY <1>1, <1>11 DEF vars, atomicVars
<1> QED
  BY <1>2, <1>3, <1>4, <1>5, <1>6, <1>7, <1>8, <1>9, <1>10, <1>11, NextCases

(* needs_unblocking is set by a reset only.                                *)
LEMMA TmInvStep ==
    ASSUME TypeOK, TmInv, [Next]_vars
    PROVE  TmInv'
<1> USE DEF TypeOK, CmdTypeOK, TmInv
<1>1. ASSUME NEW c \in Cmds,
             \/ Arrive(c) \/ FailAlua(c) \/ DelayOverlap(c) \/ PassFree(c)
             \/ PassSerialized(c) \/ PassStrict(c) \/ DelayStrict(c) \/ DelayBlocked(c)
             \/ LocalEvents(c) \/ Completed(c) \/ DevDone(c)
      PROVE  TmInv'
  BY <1>1 DEF Arrive, FailAlua, DelayOverlap, PassFree, PassSerialized, PassStrict,
              DelayStrict, DelayBlocked, LocalEvents, Completed, DevDone, NoOverlap
<1>2. ASSUME NEW t \in Tms, NEW c \in Cmds, AbortTask(t, c)
      PROVE  TmInv'
  BY <1>2 DEF AbortTask
<1>3. ASSUME NEW t \in Tms, Reset(t) \/ scst_unblock_aborted_cmds(t) \/ TmDone(t)
      PROVE  TmInv'
  BY <1>3 DEF Reset, scst_unblock_aborted_cmds, TmDone, TmPcs
<1>4. CASE ExtStep
  BY <1>4, ExtStepEffect
<1>5. CASE UNCHANGED vars
  BY <1>5 DEF vars
<1> QED
  BY SMTT(30), <1>1, <1>2, <1>3, <1>4, <1>5, NextCases

-----------------------------------------------------------------------------
(* on_dev_cmd_count.                                                       *)

OnDevCount == on_dev_cmd_count = Cardinality(OnDev)

(* The commands on the device are finitely many.                           *)
LEMMA OnDevFinite == IsFiniteSet(OnDev) /\ Cardinality(OnDev) \in Nat
  BY FS_Subset, FS_CardinalityType, BlockingAssumption DEF OnDev

(* on_dev_cmd_count goes up and down with dec_on_dev_needed.               *)
LEMMA OnDevStep ==
    ASSUME TypeOK, GateInv, OnDevCount, [Next]_vars
    PROVE  OnDevCount'
<1> USE DEF TypeOK, DevTypeOK, CmdTypeOK
<1>1. ASSUME UNCHANGED onDevVars
      PROVE  OnDevCount'
  BY <1>1 DEF onDevVars, OnDevCount, OnDev
<1>2. ASSUME NEW c \in Cmds, PassFree(c) \/ PassSerialized(c) \/ PassStrict(c)
      PROVE  OnDevCount'
  <2>1. /\ state[c] = "active"
        /\ on_dev_cmd_count' = on_dev_cmd_count + 1
        /\ dec_on_dev_needed' = [dec_on_dev_needed EXCEPT ![c] = TRUE]
    BY <1>2 DEF PassFree, PassSerialized, PassStrict, NoOverlap, EnterCheck, Pass
  <2>2. c \notin OnDev
    BY <2>1 DEF GateInv, OnDev
  <2>3. OnDev' = OnDev \cup {c}
    BY <2>1 DEF OnDev
  <2>4. Cardinality(OnDev \cup {c}) = Cardinality(OnDev) + 1
    BY Zenon, <2>2, OnDevFinite, FS_AddElement
  <2> QED
    BY <2>1, <2>3, <2>4 DEF OnDevCount
<1>3. ASSUME NEW c \in Cmds, DevDone(c)
      PROVE  OnDevCount'
  <2>1. /\ on_dev_cmd_count' = on_dev_cmd_count - (IF dec_on_dev_needed[c] THEN 1 ELSE 0)
        /\ dec_on_dev_needed' = [dec_on_dev_needed EXCEPT ![c] = FALSE]
    BY <1>3 DEF DevDone, OnDevAfter
  <2>2. OnDev' = OnDev \ {c}
    BY <2>1 DEF OnDev
  <2>3. Cardinality(OnDev \ {c}) =
          IF c \in OnDev THEN Cardinality(OnDev) - 1 ELSE Cardinality(OnDev)
    BY Zenon, OnDevFinite, FS_RemoveElement
  <2>4. c \in OnDev <=> dec_on_dev_needed[c]
    BY DEF OnDev
  <2> QED
    BY <2>1, <2>2, <2>3, <2>4, OnDevFinite DEF OnDevCount
<1>4. ASSUME NEW c \in Cmds,
             \/ Arrive(c) \/ FailAlua(c) \/ DelayOverlap(c) \/ DelayStrict(c)
             \/ DelayBlocked(c) \/ LocalEvents(c) \/ Completed(c)
      PROVE  UNCHANGED onDevVars
  BY <1>4 DEF Arrive, FailAlua, DelayOverlap, DelayStrict, DelayBlocked, LocalEvents,
              Completed, Block
<1>5. ASSUME NEW t \in Tms,
             \/ Reset(t) \/ scst_unblock_aborted_cmds(t) \/ TmDone(t)
             \/ \E c \in Cmds : AbortTask(t, c)
      PROVE  UNCHANGED onDevVars
  BY <1>5 DEF Reset, scst_unblock_aborted_cmds, TmDone, AbortTask
<1>6. CASE ExtStep
  BY <1>1, <1>6, ExtStepEffect
<1>7. CASE UNCHANGED vars
  BY <1>1, <1>7 DEF vars
<1> QED
  BY <1>1, <1>2, <1>3, <1>4, <1>5, <1>6, <1>7, NextCases
=============================================================================
