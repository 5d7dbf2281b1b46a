------------------------- MODULE ScstBlockingTypes --------------------------
(***************************************************************************)
(* Type correctness of ScstBlocking, for any number of commands, of task   *)
(* management functions and of external callers.                           *)
(***************************************************************************)
EXTENDS ScstBlocking, FiniteSetTheorems, TLAPS

(* The calls of scst_ext_unblock_dev() on a caller's stack: there is one   *)
(* wherever the caller is in the nested call or about to return from it.   *)
FramesOK ==
    \A e \in Callers :
        /\ call[e].frames <= MaxDepth
        /\ call[e].pc \in {"block", "unblock", "poll", "return"} => call[e].frames > 0

(* Type correctness of the initial state, scst_alloc_device().             *)
LEMMA TypeInit == Init => TypeOK /\ FramesOK
<1> SUFFICES ASSUME Init PROVE TypeOK /\ FramesOK
  OBVIOUS
<1>1. DevTypeOK
  <2>1. dev_double_ua_possible \in BOOLEAN
    BY BlockingAssumption DEF Init
  <2>2. strictly_serialized_cmd_waiting \in BOOLEAN
    BY Zenon DEF Init
  <2>3. block_count \in Int /\ on_dev_cmd_count \in Int /\ dev_scsi_atomic_cmd_active \in Int
    BY DEF Init
  <2>4. dev_exec_cmd_list \in SUBSET Cmds /\ blocked_cmd_list \in SUBSET Cmds
    BY DEF Init
  <2> QED
    BY <2>1, <2>2, <2>3, <2>4 DEF DevTypeOK
<1>2. op \in [Cmds -> Operations]
  BY BlockingAssumption DEF Init
<1>3. CmdTypeOK
  BY <1>2 DEF Init, CmdTypeOK, CmdStates, TmPcs
<1>4. ExtTypeOK
  BY Zenon DEF Init, ExtTypeOK, CallPcs, NoWord, Quiet
<1>5. FramesOK
  BY BlockingAssumption DEF Init, FramesOK
<1> QED
  BY <1>1, <1>3, <1>4, <1>5 DEF TypeOK

-----------------------------------------------------------------------------
(* What the external callers and the work do to commands: nothing, but for *)
(* the release of some from the blocked list.                              *)
ExtStep ==
    \/ \E e \in Callers :
          \/ ExtBlockSync(e) \/ CallStep(e)
          \/ \E stpg \in BOOLEAN : ExtBlockAsync(e, stpg) \/ ExtUnblock(e, stpg)
    \/ WorkStep
Released ==
    \E R \in SUBSET blocked_cmd_list :
        blocked_cmd_list' = blocked_cmd_list \ R /\ state' = Activate(R)

(* scst_unblock_dev() takes commands from the blocked list only.           *)
LEMMA UnblockedType == \A R \in Unblocked : R \in SUBSET blocked_cmd_list
  BY DEF Unblocked, StrictBlocked

(* A step that leaves the blocked list and the commands alone releases no  *)
(* command.                                                                *)
LEMMA NothingReleased ==
    ASSUME TypeOK, UNCHANGED <<blocked_cmd_list, state>>
    PROVE  Released
<1>1. state = Activate({})
  BY DEF Activate, TypeOK, CmdTypeOK
<1> QED
  BY <1>1 DEF Released

(* scst_unblock_dev() makes active exactly the commands it takes from the  *)
(* blocked list.                                                           *)
LEMMA UnblockReleases ==
    ASSUME scst_unblock_dev
    PROVE  Released
  BY UnblockedType DEF scst_unblock_dev, Released

(* scst_ext_block_dev(), scst_ext_unblock_dev() and the notification work  *)
(* touch neither the commands' flags nor the device's command counters.    *)
LEMMA ExtStepEffect ==
    ASSUME TypeOK, ExtStep
    PROVE  /\ UNCHANGED <<op, aborted, unblock_dev, tm, onDevVars, atomicVars>>
           /\ Released
<1>1. ASSUME NEW e \in Callers, ExtBlockSync(e) \/ NestedBlock(e)
      PROVE  UNCHANGED <<cmdVars, onDevVars, atomicVars, blocked_cmd_list, state>>
  BY <1>1 DEF ExtBlockSync, NestedBlock, SyncBlock, TakeExtBlock
<1>2. ASSUME NEW e \in Callers,
             NestedBlockFails(e) \/ Poll(e) \/ SleeperRuns(e) \/ NotifierRuns(e)
      PROVE  UNCHANGED <<cmdVars, onDevVars, atomicVars, blocked_cmd_list, state>>
  BY <1>2 DEF NestedBlockFails, Poll, SleeperRuns, NotifierRuns, gateVars
<1>3. ASSUME NEW p, Notify(p)
      PROVE  UNCHANGED <<cmdVars, onDevVars, atomicVars, blocked_cmd_list, state>>
  BY <1>3 DEF Notify, gateVars
<1>4. ASSUME NEW e \in Callers, LoadWord(e) \/ StoreWord(e)
      PROVE  UNCHANGED <<cmdVars, onDevVars, atomicVars, blocked_cmd_list, state>>
  BY <1>4 DEF LoadWord, StoreWord, gateVars
<1>5. ASSUME scst_ext_blocking_done_fn
      PROVE  UNCHANGED <<cmdVars, onDevVars, atomicVars, blocked_cmd_list, state>>
  BY <1>5 DEF scst_ext_blocking_done_fn, gateVars
<1>6. ASSUME NEW e \in Callers, NEW stpg \in BOOLEAN, ExtBlockAsync(e, stpg)
      PROVE  UNCHANGED <<cmdVars, onDevVars, atomicVars, blocked_cmd_list, state>>
  BY <1>6 DEF ExtBlockAsync, TakeExtBlock
<1>7. ASSUME NEW e \in Callers, NEW stpg, UnblockExt(e, stpg)
      PROVE  Released
  BY <1>7, NothingReleased, UnblockReleases DEF UnblockExt
<1>8. ASSUME NEW e \in Callers, NestedUnblock(e)
      PROVE  UNCHANGED <<cmdVars, onDevVars, atomicVars>> /\ Released
  BY <1>7, <1>8 DEF NestedUnblock
<1>9. ASSUME NEW e \in Callers, NEW stpg \in BOOLEAN, ExtUnblock(e, stpg)
      PROVE  UNCHANGED <<cmdVars, onDevVars, atomicVars>> /\ Released
  BY <1>7, <1>9 DEF ExtUnblock
<1>10. ASSUME NEW e \in Callers, FrameReturns(e)
       PROVE  UNCHANGED <<cmdVars, onDevVars, atomicVars>> /\ Released
  BY <1>10, UnblockReleases DEF FrameReturns
<1> HIDE DEF Released
<1> QED
  BY <1>1, <1>2, <1>3, <1>4, <1>5, <1>6, <1>8, <1>9, <1>10, NothingReleased
     DEF ExtStep, CallStep, WorkStep, cmdVars

(* A step of any other kind, by name.                                      *)
LEMMA NextCases ==
    ASSUME [Next]_vars
    PROVE  \/ \E c \in Cmds :
                \/ Arrive(c) \/ FailAlua(c) \/ DelayOverlap(c) \/ PassFree(c)
                \/ PassSerialized(c) \/ PassStrict(c) \/ DelayStrict(c) \/ DelayBlocked(c)
                \/ LocalEvents(c) \/ Completed(c) \/ DevDone(c)
           \/ \E t \in Tms :
                \/ Reset(t) \/ scst_unblock_aborted_cmds(t) \/ TmDone(t)
                \/ \E c \in Cmds : AbortTask(t, c)
           \/ ExtStep
           \/ UNCHANGED vars
  BY DEF Next, Process, Gate, TmStep, ExtStep

-----------------------------------------------------------------------------
(* Type correctness.                                                       *)

CallType == [pc : CallPcs, stpg : BOOLEAN, frames : Nat]

(* The gate and the command's way from the device.                         *)
LEMMA CmdTypes ==
    ASSUME TypeOK, FramesOK, NEW c \in Cmds,
           \/ Arrive(c) \/ FailAlua(c) \/ DelayOverlap(c) \/ PassFree(c)
           \/ PassSerialized(c) \/ PassStrict(c) \/ DelayStrict(c) \/ DelayBlocked(c)
           \/ LocalEvents(c) \/ Completed(c) \/ DevDone(c)
    PROVE  TypeOK' /\ FramesOK'
<1> USE DEF TypeOK, gateVars, onDevVars, atomicVars, uaVars
<1>1. /\ UNCHANGED <<extVars, call, woken, word, popper, ext_ops>>
      /\ ext_unblock_scheduled' \in BOOLEAN
  BY Zenon DEF Arrive, FailAlua, DelayOverlap, PassFree, PassSerialized, PassStrict, DelayStrict,
         DelayBlocked, LocalEvents, Completed, DevDone, NoOverlap, callVars, ExtTypeOK
<1>2. ExtTypeOK' /\ FramesOK'
  BY <1>1 DEF ExtTypeOK, FramesOK, extVars
<1>3. CASE Arrive(c) \/ FailAlua(c) \/ LocalEvents(c) \/ Completed(c)
  <2>1. DevTypeOK'
    BY Zenon, <1>3 DEF Arrive, FailAlua, LocalEvents, Completed, DevTypeOK
  <2>2. CmdTypeOK'
    BY Zenon, <1>3 DEF Arrive, FailAlua, LocalEvents, Completed, CmdTypeOK, CmdStates
  <2> QED
    BY <1>2, <2>1, <2>2
<1>4. CASE DelayOverlap(c)
  <2>1. Cardinality(Overlapping(c)) \in Nat
    BY FS_Subset, FS_CardinalityType, BlockingAssumption DEF Overlapping, DevTypeOK
  <2>2. DevTypeOK'
    BY <1>4 DEF DelayOverlap, EnterCheck, DevTypeOK
  <2>3. scsi_atomic_blockers' \in [Cmds -> Int]
    BY <1>4, <2>1 DEF DelayOverlap, CmdTypeOK
  <2>4. CmdTypeOK'
    BY <1>4, <2>3 DEF DelayOverlap, EnterCheck, CmdTypeOK, CmdStates
  <2> QED
    BY <1>2, <2>2, <2>4
<1>5. CASE PassFree(c)
  <2>1. DevTypeOK'
    BY <1>5 DEF PassFree, NoOverlap, EnterCheck, Pass, DevTypeOK
  <2>2. CmdTypeOK'
    BY <1>5 DEF PassFree, NoOverlap, EnterCheck, Pass, CmdTypeOK, CmdStates
  <2> QED
    BY <1>2, <2>1, <2>2
<1>6. CASE PassSerialized(c)
  <2>1. DevTypeOK'
    BY <1>6 DEF PassSerialized, NoOverlap, EnterCheck, Pass, DevTypeOK
  <2>2. CmdTypeOK'
    BY <1>6 DEF PassSerialized, NoOverlap, EnterCheck, Pass, CmdTypeOK, CmdStates
  <2> QED
    BY <1>2, <2>1, <2>2
<1>7. CASE PassStrict(c)
  <2>1. DevTypeOK'
    BY <1>7 DEF PassStrict, NoOverlap, EnterCheck, Pass, DevTypeOK
  <2>2. CmdTypeOK'
    BY <1>7 DEF PassStrict, NoOverlap, EnterCheck, Pass, CmdTypeOK, CmdStates
  <2> QED
    BY <1>2, <2>1, <2>2
<1>8. CASE DelayStrict(c)
  <2>1. DevTypeOK'
    BY <1>8 DEF DelayStrict, NoOverlap, EnterCheck, Block, DevTypeOK
  <2>2. CmdTypeOK'
    BY <1>8 DEF DelayStrict, NoOverlap, EnterCheck, Block, CmdTypeOK, CmdStates
  <2> QED
    BY <1>2, <2>1, <2>2
<1>9. CASE DelayBlocked(c)
  <2>1. DevTypeOK'
    BY <1>9 DEF DelayBlocked, NoOverlap, EnterCheck, Block, DevTypeOK
  <2>2. CmdTypeOK'
    BY Zenon, <1>9 DEF DelayBlocked, NoOverlap, EnterCheck, Block, CmdTypeOK, CmdStates
  <2> QED
    BY <1>2, <2>1, <2>2
<1>10. CASE DevDone(c)
  <2>0. /\ dev_exec_cmd_list' = dev_exec_cmd_list \ {c}
        /\ \E R : blocked_cmd_list' = blocked_cmd_list \ R
        /\ strictly_serialized_cmd_waiting' \in BOOLEAN
        /\ UNCHANGED dev_double_ua_possible
    BY SMTT(30), <1>10 DEF DevDone, DevTypeOK
  <2>7. /\ block_count' \in Int /\ on_dev_cmd_count' \in Int
        /\ dev_scsi_atomic_cmd_active' \in Int
    BY <1>10 DEF DevDone, OnDevAfter, DevTypeOK
  <2>1. DevTypeOK'
    BY <2>0, <2>7 DEF DevTypeOK
  <2>2. state' \in [Cmds -> CmdStates]
    BY <1>10 DEF DevDone, Activate, CmdTypeOK, CmdStates
  <2>3. /\ unblock_dev' \in [Cmds -> BOOLEAN] /\ dec_on_dev_needed' \in [Cmds -> BOOLEAN]
        /\ scsi_atomicity_checked' \in [Cmds -> BOOLEAN]
    BY <1>10 DEF DevDone, CmdTypeOK
  <2>4. /\ scsi_atomic_blocked_cmds' \in [Cmds -> SUBSET Cmds]
        /\ scsi_atomic_blockers' \in [Cmds -> Int]
    BY SMTT(30), <1>10 DEF DevDone, CmdTypeOK
  <2>5. UNCHANGED <<op, aborted, double_ua_possible, tm>>
    BY Zenon, <1>10 DEF DevDone
  <2>6. CmdTypeOK'
    BY <2>2, <2>3, <2>4, <2>5 DEF CmdTypeOK
  <2> QED
    BY <1>2, <2>1, <2>6
<1> QED
  BY Zenon, <1>3, <1>4, <1>5, <1>6, <1>7, <1>8, <1>9, <1>10

(* Task management.                                                        *)
LEMMA TmTypes ==
    ASSUME TypeOK, FramesOK, NEW t \in Tms,
           \/ Reset(t) \/ scst_unblock_aborted_cmds(t) \/ TmDone(t)
           \/ \E c \in Cmds : AbortTask(t, c)
    PROVE  TypeOK' /\ FramesOK'
<1> USE DEF TypeOK, gateVars, onDevVars, atomicVars, uaVars
<1>1. UNCHANGED <<extVars, callVars>>
  BY DEF Reset, scst_unblock_aborted_cmds, TmDone, AbortTask
<1>2. ExtTypeOK' /\ FramesOK'
  BY <1>1 DEF ExtTypeOK, FramesOK, extVars, callVars
<1>3. CASE Reset(t)
  <2>1. DevTypeOK'
    BY <1>3 DEF Reset, DevTypeOK
  <2>2. CmdTypeOK'
    BY <1>3 DEF Reset, Live, CmdTypeOK, TmPcs
  <2> QED
    BY <1>2, <2>1, <2>2
<1>4. CASE scst_unblock_aborted_cmds(t)
  <2>1. DevTypeOK'
    BY <1>4 DEF scst_unblock_aborted_cmds, DevTypeOK
  <2>2. CmdTypeOK'
    BY SMTT(30), <1>4 DEF scst_unblock_aborted_cmds, Activate, CmdTypeOK, CmdStates, TmPcs
  <2> QED
    BY <1>2, <2>1, <2>2
<1>5. CASE TmDone(t)
  <2>1. DevTypeOK'
    <3>0. block_count' \in {block_count, block_count - 1}
      BY Zenon, <1>5 DEF TmDone, scst_unblock_dev
    <3>1. block_count' \in Int
      BY <3>0 DEF DevTypeOK
    <3>3. \E R : blocked_cmd_list' = blocked_cmd_list \ R
      <4>1. CASE tm[t].needs_unblocking
        BY Zenon, <1>5, <4>1 DEF TmDone, scst_unblock_dev
      <4>2. CASE ~tm[t].needs_unblocking
        <5>1. blocked_cmd_list' = blocked_cmd_list \ {}
          BY <1>5, <4>2 DEF TmDone
        <5> QED
          BY Zenon, <5>1
      <4> QED
        BY <4>1, <4>2
    <3>2. UNCHANGED <<onDevVars, atomicVars, uaVars, strictly_serialized_cmd_waiting>>
      BY <1>5 DEF TmDone
    <3> QED
      BY <3>1, <3>2, <3>3 DEF DevTypeOK
  <2>2. CmdTypeOK'
    BY <1>5 DEF TmDone, scst_unblock_dev, Activate, CmdTypeOK, CmdStates, TmPcs
  <2> QED
    BY <1>2, <2>1, <2>2
<1>6. CASE \E c \in Cmds : AbortTask(t, c)
  <2>1. DevTypeOK'
    BY <1>6 DEF AbortTask, DevTypeOK
  <2>2. CmdTypeOK'
    BY <1>6 DEF AbortTask, CmdTypeOK, TmPcs
  <2> QED
    BY <1>2, <2>1, <2>2
<1> QED
  BY <1>3, <1>4, <1>5, <1>6

(* A step of scst_ext_block_dev(), scst_ext_unblock_dev() or the work      *)
(* keeps the types when it keeps those of the variables it may change.     *)
LEMMA ExtTypesSuffice ==
    ASSUME TypeOK, ExtStep,
           block_count' \in Int, strictly_serialized_cmd_waiting' \in BOOLEAN,
           dev_double_ua_possible' \in BOOLEAN, UNCHANGED double_ua_possible, ExtTypeOK'
    PROVE  TypeOK'
<1>1. /\ UNCHANGED <<op, aborted, unblock_dev, tm, onDevVars, atomicVars>>
      /\ \E R : blocked_cmd_list' = blocked_cmd_list \ R /\ state' = Activate(R)
  BY ExtStepEffect DEF Released
<1>2. DevTypeOK'
  BY <1>1 DEF TypeOK, DevTypeOK, onDevVars, atomicVars
<1>3. CmdTypeOK'
  BY <1>1 DEF TypeOK, CmdTypeOK, onDevVars, atomicVars, Activate, CmdStates
<1> QED
  BY <1>2, <1>3 DEF TypeOK

(* The first half of scst_ext_block_dev().                                 *)
LEMMA TakeExtBlockTypes ==
    ASSUME TypeOK, NEW stpg \in BOOLEAN, TakeExtBlock(stpg)
    PROVE  /\ block_count' \in Int /\ strictly_serialized_cmd_waiting' \in BOOLEAN
           /\ ext_blocks_cnt' \in Nat /\ stpg_ext_blocked' \in BOOLEAN
<1> USE DEF TypeOK, DevTypeOK, ExtTypeOK
<1>1. block_count' \in Int /\ ext_blocks_cnt' \in Nat
  BY DEF TakeExtBlock
<1>2. strictly_serialized_cmd_waiting' \in BOOLEAN
  BY Zenon DEF TakeExtBlock
<1>3. stpg_ext_blocked' \in BOOLEAN
  BY DEF TakeExtBlock
<1> QED
  BY <1>1, <1>2, <1>3

(* One round of __scst_ext_blocking_done().                                *)
LEMMA PopFromTypes ==
    ASSUME TypeOK, NEW p \in Poppers, NEW L \in SUBSET Blocker, PopFrom(p, L)
    PROVE  /\ ext_blockers_list' \in SUBSET Blocker
           /\ ext_blocking_pending' \in BOOLEAN
           /\ popper' \in [Poppers -> [stop : BOOLEAN, notify : Blocker \cup {NoBlocker}]]
<1>1. PICK b \in L :
        /\ ext_blockers_list' = L \ {b}
        /\ ext_blocking_pending' = (L # {b})
        /\ popper' = [popper EXCEPT ![p] = [stop |-> L = {b}, notify |-> b]]
  BY DEF PopFrom
<1>2. ext_blocking_pending' \in BOOLEAN
  BY <1>1
<1>3. ext_blockers_list' \in SUBSET Blocker
  BY <1>1
<1>4. [stop |-> L = {b}, notify |-> b] \in [stop : BOOLEAN, notify : Blocker \cup {NoBlocker}]
  BY <1>1
<1>5. popper' \in [Poppers -> [stop : BOOLEAN, notify : Blocker \cup {NoBlocker}]]
  BY <1>1, <1>4 DEF TypeOK, ExtTypeOK
<1> QED
  BY <1>2, <1>3, <1>5

(* A caller that only moves on.                                            *)
LEMMA CallMoves ==
    ASSUME TypeOK, FramesOK, NEW e \in Callers, NEW pc \in CallPcs, NEW stpg \in BOOLEAN,
           call' = [call EXCEPT ![e].pc = pc, ![e].stpg = stpg],
           pc \in {"block", "unblock", "poll", "return"} => call[e].frames > 0
    PROVE  call' \in [Callers -> CallType] /\ FramesOK'
<1>1. call \in [Callers -> CallType]
  BY DEF TypeOK, ExtTypeOK, CallType
<1>2. call' \in [Callers -> CallType]
  BY Zenon, <1>1 DEF CallType
<1>3. \A f \in Callers : /\ call'[f].frames = call[f].frames
                          /\ call'[f].pc = IF f = e THEN pc ELSE call[f].pc
  BY <1>1 DEF CallType
<1>4. FramesOK'
  BY Zenon, <1>3 DEF FramesOK
<1> QED
  BY <1>2, <1>4

(* The same without a change of the stpg argument.                         *)
LEMMA CallStays ==
    ASSUME TypeOK, FramesOK, NEW e \in Callers, NEW pc \in CallPcs,
           call' = [call EXCEPT ![e].pc = pc],
           pc \in {"block", "unblock", "poll", "return"} => call[e].frames > 0
    PROVE  call' \in [Callers -> CallType] /\ FramesOK'
<1>1. call \in [Callers -> CallType]
  BY DEF TypeOK, ExtTypeOK, CallType
<1>2. call' \in [Callers -> CallType]
  BY <1>1 DEF CallType
<1>3. \A f \in Callers : /\ call'[f].frames = call[f].frames
                          /\ call'[f].pc = IF f = e THEN pc ELSE call[f].pc
  BY <1>1 DEF CallType
<1>4. FramesOK'
  BY <1>3 DEF FramesOK
<1> QED
  BY <1>2, <1>4

(* The external callers and the work.                                      *)
LEMMA ExtTypes ==
    ASSUME TypeOK, FramesOK, ExtStep
    PROVE  TypeOK' /\ FramesOK'
<1> USE DEF CallPcs
<1>1. \A e \in Callers : /\ call[e].stpg \in BOOLEAN /\ call[e].pc \in CallPcs
                         /\ call[e].frames \in Nat
                         /\ BlockReturns(e) \in {"idle", "unblock"}
                         /\ BlockReturns(e) = "unblock" => call[e].frames > 0
  BY DEF TypeOK, ExtTypeOK, BlockReturns
<1> DEFINE Kept == UNCHANGED <<gateVars, uaVars>>
<1>2. ASSUME Kept, ExtTypeOK', FramesOK'
      PROVE  TypeOK' /\ FramesOK'
  BY <1>2, ExtTypesSuffice DEF TypeOK, DevTypeOK, gateVars, uaVars
<1>3. ASSUME NEW e \in Callers, ExtBlockSync(e) \/ NestedBlock(e)
      PROVE  TypeOK' /\ FramesOK'
  <2> HIDE DEF CallPcs
  <2>0. SyncBlock(e) /\ UNCHANGED uaVars /\ (ext_ops' = ext_ops + 1 \/ ext_ops' = ext_ops)
    BY <1>3 DEF ExtBlockSync, NestedBlock, NewCall
  <2>1. /\ TakeExtBlock(FALSE)
        /\ UNCHANGED <<woken, word, popper, ext_unblock_scheduled>>
    BY Zenon, <2>0 DEF SyncBlock
  <2>2. \E pc \in {"idle", "unblock", "sleep"} :
          /\ call' = [call EXCEPT ![e].pc = pc]
          /\ pc = "unblock" => call[e].frames > 0
    BY <1>1, <2>0 DEF SyncBlock
  <2>3. call' \in [Callers -> CallType] /\ FramesOK'
    BY Zenon, <1>1, <2>2, CallStays DEF CallPcs
  <2>4. ext_blockers_list' \in SUBSET Blocker /\ ext_blocking_pending' \in BOOLEAN
    <3>1. \/ UNCHANGED <<ext_blockers_list, ext_blocking_pending>>
          \/ AddBlocker([who |-> e, sync |-> TRUE])
      BY <2>0 DEF SyncBlock
    <3>2. ext_blockers_list' \in SUBSET Blocker
      <4>1. [who |-> e, sync |-> TRUE] \in Blocker
        BY DEF Blocker
      <4> QED
        BY Zenon, <3>1, <4>1 DEF AddBlocker, TypeOK, ExtTypeOK
    <3>3. ext_blocking_pending' \in BOOLEAN
      BY Zenon, <3>1 DEF AddBlocker, TypeOK, ExtTypeOK
    <3> QED
      BY <3>2, <3>3
  <2>5. /\ block_count' \in Int /\ strictly_serialized_cmd_waiting' \in BOOLEAN
        /\ ext_blocks_cnt' \in Nat /\ stpg_ext_blocked' \in BOOLEAN
    BY Zenon, <2>1, TakeExtBlockTypes
  <2>6. ExtTypeOK'
    <3>1. ext_ops' \in Nat
      BY <2>0 DEF TypeOK, ExtTypeOK
    <3> QED
      BY <2>1, <2>3, <2>4, <2>5, <3>1 DEF TypeOK, ExtTypeOK, CallType
  <2> QED
    BY <2>3, <2>5, <2>6, <2>0, ExtTypesSuffice DEF TypeOK, DevTypeOK, uaVars
<1>4. ASSUME NEW e \in Callers, NEW stpg \in BOOLEAN, ExtBlockAsync(e, stpg)
      PROVE  TypeOK' /\ FramesOK'
  <2> DEFINE b == [who |-> e, sync |-> FALSE]
  <2>1. /\ TakeExtBlock(stpg)
        /\ UNCHANGED <<uaVars, woken, word, ext_unblock_scheduled>>
        /\ ext_ops' = ext_ops + 1
        /\ call[e].pc = "idle"
    BY <1>4 DEF ExtBlockAsync, NewCall
  <2>2. \/ PopFrom(e, ext_blockers_list \cup {b}) /\ call' = [call EXCEPT ![e].pc = "notify"]
        \/ AddBlocker(b) /\ UNCHANGED <<popper, call>>
    BY <1>4 DEF ExtBlockAsync
  <2>3. b \in Blocker
    BY DEF Blocker
  <2>4. ext_blockers_list \cup {b} \in SUBSET Blocker
    BY Zenon, <2>3 DEF TypeOK, ExtTypeOK
  <2> HIDE DEF b
  <2>5. /\ ext_blockers_list' \in SUBSET Blocker
        /\ ext_blocking_pending' \in BOOLEAN
        /\ popper' \in [Poppers -> [stop : BOOLEAN, notify : Blocker \cup {NoBlocker}]]
    <3>1. CASE PopFrom(e, ext_blockers_list \cup {b})
      BY Zenon, <2>4, <3>1, PopFromTypes DEF Poppers
    <3>2. CASE AddBlocker(b) /\ UNCHANGED popper
      BY <2>4, <3>2 DEF AddBlocker, TypeOK, ExtTypeOK
    <3> QED
      BY <2>2, <3>1, <3>2
  <2>6. call' \in [Callers -> CallType] /\ FramesOK'
    <3>1. CASE call' = [call EXCEPT ![e].pc = "notify"]
      BY Zenon, <3>1, CallStays
    <3>2. CASE call' = call
      BY <3>2 DEF FramesOK, TypeOK, ExtTypeOK, CallType
    <3> QED
      BY SMTT(30), <2>2, <3>1, <3>2
  <2>7. /\ block_count' \in Int /\ strictly_serialized_cmd_waiting' \in BOOLEAN
        /\ ext_blocks_cnt' \in Nat /\ stpg_ext_blocked' \in BOOLEAN
    BY <2>1, TakeExtBlockTypes
  <2>8. ExtTypeOK'
    <3>1. ext_ops' \in Nat
      BY <2>1 DEF TypeOK, ExtTypeOK
    <3> QED
      BY <2>1, <2>5, <2>6, <2>7, <3>1 DEF TypeOK, ExtTypeOK, CallType
  <2> QED
    BY <2>1, <2>6, <2>7, <2>8, ExtTypesSuffice DEF TypeOK, DevTypeOK, uaVars
<1>5. ASSUME NEW e \in Callers, NestedBlockFails(e) \/ Poll(e)
      PROVE  TypeOK' /\ FramesOK'
  <2>1. /\ UNCHANGED <<gateVars, uaVars, extVars, woken, word, popper, ext_ops,
                       ext_unblock_scheduled>>
        /\ call[e].frames > 0
        /\ \E pc \in {"poll", "return"} : call' = [call EXCEPT ![e].pc = pc]
    BY SMTT(30), <1>5 DEF NestedBlockFails, Poll, FramesOK
  <2>2. call' \in [Callers -> CallType] /\ FramesOK'
    BY Zenon, <2>1, CallStays
  <2>3. ExtTypeOK'
    BY <2>1, <2>2 DEF TypeOK, ExtTypeOK, CallType, extVars
  <2> QED
    BY <1>2, <2>1, <2>2, <2>3
<1>6. ASSUME NEW e \in Callers, SleeperRuns(e)
      PROVE  TypeOK' /\ FramesOK'
  <2>1. /\ UNCHANGED <<gateVars, uaVars, extVars, word, popper, ext_ops,
                       ext_unblock_scheduled>>
        /\ woken' = [woken EXCEPT ![e] = FALSE]
        /\ \E pc \in {BlockReturns(e), "sleep"} : call' = [call EXCEPT ![e].pc = pc]
    BY Zenon, <1>6 DEF SleeperRuns, TypeOK, ExtTypeOK
  <2>2. call' \in [Callers -> CallType] /\ FramesOK'
    BY Zenon, <1>1, <2>1, CallStays
  <2>3. ExtTypeOK'
    BY <2>1, <2>2 DEF TypeOK, ExtTypeOK, CallType, extVars
  <2> QED
    BY <1>2, <2>1, <2>2, <2>3
<1>7. ASSUME NEW p \in Poppers, Notify(p)
      PROVE  TypeOK' /\ FramesOK'
  <2>1. UNCHANGED <<gateVars, uaVars, extVars, call, word, ext_ops, ext_unblock_scheduled>>
    BY <1>7 DEF Notify
  <2>2. woken' \in [Callers -> BOOLEAN]
    BY Zenon, <1>7 DEF Notify, TypeOK, ExtTypeOK
  <2>3. popper' \in [Poppers -> [stop : BOOLEAN, notify : Blocker \cup {NoBlocker}]]
    BY <1>7 DEF Notify, TypeOK, ExtTypeOK
  <2>4. ExtTypeOK' /\ FramesOK'
    BY <2>1, <2>2, <2>3 DEF TypeOK, ExtTypeOK, extVars, FramesOK
  <2> QED
    BY <1>2, <2>1, <2>4
<1>8. ASSUME NEW e \in Callers, NotifierRuns(e)
      PROVE  TypeOK' /\ FramesOK'
  <2>1. UNCHANGED <<gateVars, uaVars, ext_blocks_cnt, stpg_ext_blocked, woken, word, ext_ops,
                    ext_unblock_scheduled>>
    BY <1>8 DEF NotifierRuns
  <2>2. \/ /\ call' = [call EXCEPT ![e].pc = "idle"]
           /\ UNCHANGED <<ext_blockers_list, ext_blocking_pending, popper>>
        \/ PopFrom(e, ext_blockers_list) /\ UNCHANGED call
    BY <1>8 DEF NotifierRuns
  <2>3. /\ ext_blockers_list' \in SUBSET Blocker
        /\ ext_blocking_pending' \in BOOLEAN
        /\ popper' \in [Poppers -> [stop : BOOLEAN, notify : Blocker \cup {NoBlocker}]]
    <3>1. CASE PopFrom(e, ext_blockers_list)
      BY <3>1, PopFromTypes DEF TypeOK, ExtTypeOK, Poppers
    <3>2. CASE UNCHANGED <<ext_blockers_list, ext_blocking_pending, popper>>
      BY <3>2 DEF TypeOK, ExtTypeOK
    <3> QED
      BY <2>2, <3>1, <3>2
  <2>4. call' \in [Callers -> CallType] /\ FramesOK'
    <3>1. CASE call' = [call EXCEPT ![e].pc = "idle"]
      BY Zenon, <3>1, CallStays
    <3>2. CASE call' = call
      BY <3>2 DEF FramesOK, TypeOK, ExtTypeOK, CallType
    <3> QED
      BY SMTT(30), <2>2, <3>1, <3>2
  <2>5. ExtTypeOK'
    BY <2>1, <2>3, <2>4 DEF TypeOK, ExtTypeOK, CallType
  <2> QED
    BY <1>2, <2>1, <2>4, <2>5
<1>9. ASSUME scst_ext_blocking_done_fn
      PROVE  TypeOK' /\ FramesOK'
  <2>1. UNCHANGED <<gateVars, uaVars, ext_blocks_cnt, stpg_ext_blocked, call, woken, word,
                    ext_ops>>
    BY <1>9 DEF scst_ext_blocking_done_fn
  <2>2. \/ /\ ext_unblock_scheduled' = FALSE
           /\ UNCHANGED <<ext_blockers_list, ext_blocking_pending, popper>>
        \/ PopFrom(Work, ext_blockers_list) /\ UNCHANGED ext_unblock_scheduled
    BY Zenon, <1>9 DEF scst_ext_blocking_done_fn
  <2>3. /\ ext_blockers_list' \in SUBSET Blocker
        /\ ext_blocking_pending' \in BOOLEAN
        /\ popper' \in [Poppers -> [stop : BOOLEAN, notify : Blocker \cup {NoBlocker}]]
    <3>1. CASE PopFrom(Work, ext_blockers_list)
      BY Zenon, <3>1, PopFromTypes DEF TypeOK, ExtTypeOK, Poppers
    <3>2. CASE UNCHANGED <<ext_blockers_list, ext_blocking_pending, popper>>
      BY <3>2 DEF TypeOK, ExtTypeOK
    <3> QED
      BY <2>2, <3>1, <3>2
  <2>4. ext_unblock_scheduled' \in BOOLEAN
    BY Zenon, <2>2 DEF TypeOK, ExtTypeOK
  <2>5. ExtTypeOK' /\ FramesOK'
    BY <2>1, <2>3, <2>4 DEF TypeOK, ExtTypeOK, FramesOK
  <2> QED
    BY <1>2, <2>1, <2>5
<1>10. ASSUME NEW e \in Callers, NEW stpg \in BOOLEAN, UnblockExt(e, stpg),
              UNCHANGED <<strictly_serialized_cmd_waiting, uaVars, stpg_ext_blocked,
                          ext_blockers_list, ext_blocking_pending, woken, word, popper,
                          ext_unblock_scheduled>>,
              ext_ops' \in Nat
       PROVE  TypeOK' /\ FramesOK'
  <2>1. ext_blocks_cnt' \in Nat /\ block_count' \in Int
    BY <1>10 DEF UnblockExt, NothingToUnblock, scst_unblock_dev, TypeOK, DevTypeOK, ExtTypeOK
  <2>2. call' \in [Callers -> CallType] /\ FramesOK'
    <3>1. /\ UnblockReturns(e, stpg, call[e].frames) \in CallPcs
          /\ UnblockReturns(e, stpg, call[e].frames) = "return" => call[e].frames > 0
          /\ UnblockReturns(e, stpg, call[e].frames) \notin {"block", "unblock", "poll"}
      BY <1>1 DEF UnblockReturns
    <3>2. CASE call' = [call EXCEPT ![e].pc = UnblockReturns(e, stpg, call[e].frames),
                                    ![e].stpg = stpg]
      BY Zenon, <3>1, <3>2, CallMoves
    <3>3. CASE /\ call[e].frames < MaxDepth
               /\ call' = [call EXCEPT ![e] = [pc |-> "block", stpg |-> stpg,
                                               frames |-> @.frames + 1]]
      BY <1>1, <3>3, BlockingAssumption DEF TypeOK, ExtTypeOK, CallType, FramesOK
    <3> QED
      BY <1>10, <3>2, <3>3 DEF UnblockExt
  <2>3. ExtTypeOK'
    BY <1>10, <2>1, <2>2 DEF TypeOK, ExtTypeOK, CallType
  <2> QED
    BY <1>10, <2>1, <2>2, <2>3, ExtTypesSuffice DEF TypeOK, DevTypeOK, uaVars
<1>11. ASSUME NEW e \in Callers, NestedUnblock(e) \/ \E stpg \in BOOLEAN : ExtUnblock(e, stpg)
       PROVE  TypeOK' /\ FramesOK'
  <2>1. ext_ops' \in Nat
    BY <1>11 DEF NestedUnblock, ExtUnblock, NewCall, TypeOK, ExtTypeOK
  <2> QED
    BY <1>1, <1>10, <1>11, <2>1 DEF NestedUnblock, ExtUnblock
<1>12. ASSUME NEW e \in Callers, FrameReturns(e)
       PROVE  TypeOK' /\ FramesOK'
  <2>1. /\ UNCHANGED <<strictly_serialized_cmd_waiting, uaVars, extVars, woken, word, popper,
                       ext_ops, ext_unblock_scheduled>>
        /\ block_count' \in Int
        /\ call[e].pc = "return"
        /\ call' = [call EXCEPT ![e].pc = UnblockReturns(e, call[e].stpg, call[e].frames - 1),
                                ![e].frames = @ - 1]
    BY <1>12 DEF FrameReturns, scst_unblock_dev, TypeOK, DevTypeOK
  <2>2. call[e].frames \in Nat /\ call[e].frames > 0
    BY <1>1, <2>1 DEF FramesOK
  <2>3. call' \in [Callers -> CallType]
    BY <1>1, <2>1, <2>2 DEF TypeOK, ExtTypeOK, CallType, UnblockReturns
  <2>4. FramesOK'
    BY <1>1, <2>1, <2>2, BlockingAssumption DEF TypeOK, ExtTypeOK, UnblockReturns, FramesOK
  <2>5. ExtTypeOK'
    BY <2>1, <2>3 DEF TypeOK, ExtTypeOK, CallType, extVars
  <2> QED
    BY <2>1, <2>4, <2>5, ExtTypesSuffice DEF TypeOK, DevTypeOK, uaVars
<1>13. ASSUME NEW e \in Callers, LoadWord(e)
       PROVE  TypeOK' /\ FramesOK'
  <2>1. /\ UNCHANGED <<gateVars, uaVars, extVars, woken, popper, ext_ops, ext_unblock_scheduled>>
        /\ word' = [word EXCEPT ![e] = DeviceFlags]
        /\ call' = [call EXCEPT ![e].pc = "write"]
    BY <1>13 DEF LoadWord
  <2>2. DeviceFlags \in [waiting : BOOLEAN, ua : BOOLEAN, pending : BOOLEAN,
                         scheduled : BOOLEAN]
    BY SMTT(30) DEF DeviceFlags, TypeOK, DevTypeOK, ExtTypeOK
  <2>3. call' \in [Callers -> CallType] /\ FramesOK'
    BY Zenon, <2>1, CallStays
  <2>4. ExtTypeOK'
    BY <2>1, <2>2, <2>3 DEF TypeOK, ExtTypeOK, CallType, extVars
  <2> QED
    BY <1>2, <2>1, <2>3, <2>4
<1>14. ASSUME NEW e \in Callers, StoreWord(e)
       PROVE  TypeOK' /\ FramesOK'
  <2>1. /\ UNCHANGED <<block_count, double_ua_possible, ext_blocks_cnt, ext_blockers_list,
                       woken, popper, ext_ops>>
        /\ word' = [word EXCEPT ![e] = NoWord]
        /\ stpg_ext_blocked' = FALSE
        /\ call' = [call EXCEPT ![e].pc = "idle", ![e].stpg = FALSE]
    BY <1>14 DEF StoreWord
  <2>2. /\ strictly_serialized_cmd_waiting' \in BOOLEAN
        /\ dev_double_ua_possible' \in BOOLEAN
        /\ ext_blocking_pending' \in BOOLEAN
        /\ ext_unblock_scheduled' \in BOOLEAN
    <3>1. PICK w : /\ w \in {word[e], DeviceFlags}
                   /\ strictly_serialized_cmd_waiting' = w.waiting
                   /\ dev_double_ua_possible' = w.ua
                   /\ ext_blocking_pending' = w.pending
                   /\ ext_unblock_scheduled' = w.scheduled
      BY <1>14 DEF StoreWord
    <3>2. word[e] \in [waiting : BOOLEAN, ua : BOOLEAN, pending : BOOLEAN, scheduled : BOOLEAN]
      BY DEF TypeOK, ExtTypeOK
    <3>3. DeviceFlags \in [waiting : BOOLEAN, ua : BOOLEAN, pending : BOOLEAN,
                           scheduled : BOOLEAN]
      BY DEF DeviceFlags, TypeOK, DevTypeOK, ExtTypeOK
    <3> QED
      BY <3>1, <3>2, <3>3
  <2>3. NoWord \in [waiting : BOOLEAN, ua : BOOLEAN, pending : BOOLEAN, scheduled : BOOLEAN]
    BY SMTT(30) DEF NoWord
  <2>4. call' \in [Callers -> CallType] /\ FramesOK'
    BY Zenon, <2>1, CallMoves
  <2>5. ExtTypeOK'
    BY Zenon, <2>1, <2>2, <2>3, <2>4 DEF TypeOK, ExtTypeOK, CallType
  <2> QED
    BY <2>1, <2>2, <2>4, <2>5, ExtTypesSuffice DEF TypeOK, DevTypeOK
<1> QED
  BY <1>3, <1>4, <1>5, <1>6, <1>7, <1>8, <1>9, <1>11, <1>12, <1>13, <1>14
     DEF ExtStep, CallStep, WorkStep, Poppers

(* Every step keeps the types.                                             *)
LEMMA TypeStep ==
    ASSUME TypeOK, FramesOK, [Next]_vars
    PROVE  TypeOK' /\ FramesOK'
<1>1. CASE UNCHANGED vars
  BY <1>1 DEF vars, gateVars, onDevVars, atomicVars, uaVars, extVars, callVars,
              TypeOK, DevTypeOK, CmdTypeOK, ExtTypeOK, FramesOK
<1> QED
  BY <1>1, CmdTypes, TmTypes, ExtTypes, NextCases

(* The state of the device, of its commands, of the task management        *)
(* functions and of the external callers stays well typed whatever the     *)
(* operations, the callers and the task management functions do; torn      *)
(* updates of the flags included.                                          *)
THEOREM TypeCorrect == Spec => []TypeOK
<1>1. Init => TypeOK /\ FramesOK
  BY TypeInit
<1>2. TypeOK /\ FramesOK /\ [Next]_vars => (TypeOK /\ FramesOK)'
  BY TypeStep
<1> QED
  BY <1>1, <1>2, PTL DEF Spec
=============================================================================
