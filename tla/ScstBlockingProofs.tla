------------------------- MODULE ScstBlockingProofs -------------------------
(***************************************************************************)
(* The correctness theorems of ScstBlocking, for any number of commands, of*)
(* task management functions and of external callers.                      *)
(***************************************************************************)
EXTENDS ScstBlockingGate

(* At most one command at a time blocks the device on its way; a           *)
(* serialized command that executes does; while a strictly serialized one  *)
(* does, only aborted commands get past the gate.                          *)
SerialInv ==
    /\ \A s, c \in Cmds : s # c /\ unblock_dev[s] => ~unblock_dev[c]
    /\ \A s \in Cmds : op[s].serialized =>
          /\ state[s] = "passed" => unblock_dev[s] \/ aborted[s]
          /\ state[s] = "exec" => unblock_dev[s]
    /\ \A s, c \in Cmds : s # c /\ op[s].strict /\ unblock_dev[s] =>
          state[c] # "exec" /\ (state[c] = "passed" => aborted[c])

-----------------------------------------------------------------------------
(* block_count.                                                            *)

(* The owners of blocks are finitely many.                                 *)
LEMMA BlockersFinite ==
    /\ IsFiniteSet(Unblockers) /\ Cardinality(Unblockers) \in Nat
    /\ IsFiniteSet(Resets) /\ Cardinality(Resets) \in Nat
    /\ IsFiniteSet(Frames) /\ Cardinality(Frames) \in Nat
<1>1. IsFiniteSet(Unblockers) /\ IsFiniteSet(Resets)
  BY FS_Subset, BlockingAssumption DEF Unblockers, Resets
<1>2. IsFiniteSet(Callers \X (1..MaxDepth))
  <2>1. MaxDepth \in Int /\ 1 \in Int
    BY BlockingAssumption
  <2>2. IsFiniteSet(1..MaxDepth)
    BY <2>1, FS_Interval
  <2> QED
    BY <2>2, FS_Product, BlockingAssumption
<1>3. IsFiniteSet(Frames)
  BY <1>2, FS_Subset DEF Frames
<1> QED
  BY <1>1, <1>3, FS_CardinalityType

(* While somebody owns a block, block_count is positive.                   *)
LEMMA BlockCountPositive ==
    ASSUME TypeOK, BlockCountExact
    PROVE  /\ block_count \in Nat
           /\ \A c \in Cmds : unblock_dev[c] => block_count > 0
           /\ strictly_serialized_cmd_waiting => block_count > 0
<1>1. ASSUME NEW c \in Cmds, unblock_dev[c]
      PROVE  Cardinality(Unblockers) > 0
  BY <1>1, BlockersFinite, FS_EmptySet DEF Unblockers
<1>2. Waiting \in Nat /\ (strictly_serialized_cmd_waiting => Waiting = 1)
  BY DEF Waiting
<1> QED
  BY <1>1, <1>2, BlockersFinite DEF BlockCountExact, TypeOK, ExtTypeOK

(* How each kind of step changes the five numbers.                         *)
(* A step that touches none of the numbers keeps the balance.              *)
LEMMA CountStays ==
    ASSUME TypeOK, BlockCountExact,
           UNCHANGED <<block_count, ext_blocks_cnt, unblock_dev, tm, call>>,
           Waiting' = Waiting
    PROVE  BlockCountExact'
  BY DEF BlockCountExact, Unblockers, Resets, Frames

(* The blocks owed by scst_ext_unblock_dev() calls depend on the callers'  *)
(* stacks only.                                                            *)
LEMMA FramesStay ==
    ASSUME \A e \in Callers : call'[e].frames = call[e].frames
    PROVE  Frames' = Frames
  BY DEF Frames

(* A serialized command that passes the gate blocks the device and becomes *)
(* an owner.                                                               *)
LEMMA PassCounts ==
    ASSUME TypeOK, GateInv, BlockCountExact, NEW c \in Cmds,
           PassSerialized(c) \/ PassStrict(c)
    PROVE  BlockCountExact'
<1>1. /\ state[c] = "active"
      /\ block_count' = block_count + 1
      /\ unblock_dev' = [unblock_dev EXCEPT ![c] = TRUE]
      /\ UNCHANGED <<strictly_serialized_cmd_waiting, ext_blocks_cnt, tm, call>>
  BY DEF PassSerialized, PassStrict, NoOverlap, EnterCheck, Pass, extVars, callVars
<1>2. c \notin Unblockers /\ Unblockers' = Unblockers \cup {c}
  BY <1>1 DEF GateInv, Unblockers, TypeOK, CmdTypeOK
<1>3. Cardinality(Unblockers') = Cardinality(Unblockers) + 1
  BY Zenon, <1>2, BlockersFinite, FS_AddElement
<1>4. Resets' = Resets /\ Frames' = Frames /\ Waiting' = Waiting
  BY <1>1 DEF Resets, Frames, Waiting
<1>5. Waiting \in Int
  BY DEF Waiting
<1> QED
  BY <1>1, <1>3, <1>4, <1>5, BlockersFinite DEF BlockCountExact, TypeOK, ExtTypeOK

(* A strictly serialized command that has to wait leaves its block to the  *)
(* flag.                                                                   *)
LEMMA DelayStrictCounts ==
    ASSUME TypeOK, BlockCountExact, NEW c \in Cmds, DelayStrict(c)
    PROVE  BlockCountExact'
<1>1. /\ block_count <= 0
      /\ block_count' = block_count + 1
      /\ strictly_serialized_cmd_waiting'
      /\ UNCHANGED <<unblock_dev, ext_blocks_cnt, tm, call>>
  BY DEF DelayStrict, NoOverlap, Block, extVars, callVars
<1>2. ~strictly_serialized_cmd_waiting
  BY <1>1, BlockCountPositive
<1>3. Waiting = 0 /\ Waiting' = 1
  BY <1>1, <1>2 DEF Waiting
<1>4. Unblockers' = Unblockers /\ Resets' = Resets /\ Frames' = Frames
  BY <1>1 DEF Unblockers, Resets, Frames
<1> QED
  BY <1>1, <1>3, <1>4, BlockersFinite DEF BlockCountExact, TypeOK, ExtTypeOK

(* __scst_check_unblock_dev() gives back the block of the command, or the  *)
(* one of the flag when the device has drained.                            *)
LEMMA DevDoneCounts ==
    ASSUME TypeOK, BlockCountExact, NEW c \in Cmds, DevDone(c)
    PROVE  BlockCountExact'
<1> DEFINE strict == ~unblock_dev[c] /\ strictly_serialized_cmd_waiting /\ Drained(c)
<1>1. /\ block_count' = block_count - (IF unblock_dev[c] \/ strict THEN 1 ELSE 0)
      /\ strictly_serialized_cmd_waiting' = (strictly_serialized_cmd_waiting /\ ~strict)
      /\ unblock_dev' = [unblock_dev EXCEPT ![c] = FALSE]
      /\ UNCHANGED <<ext_blocks_cnt, tm, call>>
  BY DEF DevDone, extVars
<1>2. Resets' = Resets /\ Frames' = Frames
  BY <1>1 DEF Resets, Frames
<1>3. Unblockers' = Unblockers \ {c} /\ (c \in Unblockers <=> unblock_dev[c])
  BY <1>1 DEF Unblockers, TypeOK, CmdTypeOK
<1>4. Cardinality(Unblockers') =
        IF unblock_dev[c] THEN Cardinality(Unblockers) - 1 ELSE Cardinality(Unblockers)
  BY Zenon, <1>3, BlockersFinite, FS_RemoveElement
<1>5. Waiting' = (IF strict THEN Waiting - 1 ELSE Waiting) /\ Waiting \in Int
  <2>1. strict => strictly_serialized_cmd_waiting /\ ~strictly_serialized_cmd_waiting'
    BY Zenon, <1>1
  <2>2. ~strict => (strictly_serialized_cmd_waiting' <=> strictly_serialized_cmd_waiting)
    BY Zenon, <1>1
  <2> HIDE DEF strict
  <2> QED
    BY <2>1, <2>2 DEF Waiting
<1>6. CASE unblock_dev[c]
  BY <1>1, <1>2, <1>4, <1>5, <1>6, BlockersFinite DEF BlockCountExact, TypeOK, ExtTypeOK
<1>7. CASE ~unblock_dev[c] /\ strict
  BY <1>1, <1>2, <1>4, <1>5, <1>7, BlockersFinite DEF BlockCountExact, TypeOK, ExtTypeOK
<1>8. CASE ~unblock_dev[c] /\ ~strict
  BY <1>1, <1>2, <1>4, <1>5, <1>8, BlockersFinite DEF BlockCountExact, TypeOK, ExtTypeOK
<1> QED
  BY <1>6, <1>7, <1>8

(* A reset takes a block and scst_mgmt_cmd_send_done() gives it back.      *)
LEMMA TmCounts ==
    ASSUME TypeOK, TmInv, BlockCountExact, NEW t \in Tms,
           \/ Reset(t) \/ scst_unblock_aborted_cmds(t) \/ TmDone(t)
           \/ \E c \in Cmds : AbortTask(t, c)
    PROVE  BlockCountExact'
<1>1. /\ UNCHANGED <<strictly_serialized_cmd_waiting, unblock_dev, ext_blocks_cnt, call>>
      /\ Unblockers' = Unblockers /\ Frames' = Frames /\ Waiting' = Waiting
  BY DEF Reset, scst_unblock_aborted_cmds, TmDone, AbortTask, gateVars, extVars, callVars,
         Unblockers, Frames, Waiting
<1>2. Waiting \in Int /\ ext_blocks_cnt \in Int /\ block_count \in Int
  BY DEF Waiting, TypeOK, ExtTypeOK, DevTypeOK
<1>0. tm \in [Tms -> [pc : TmPcs, affected : SUBSET Cmds, needs_unblocking : BOOLEAN]]
  BY DEF TypeOK, CmdTypeOK
<1>3. CASE Reset(t)
  <2>1. t \notin Resets /\ Resets' = Resets \cup {t} /\ block_count' = block_count + 1
    BY <1>0, <1>3 DEF Reset, TmInv, Resets
  <2>2. Cardinality(Resets') = Cardinality(Resets) + 1
    BY Zenon, <2>1, BlockersFinite, FS_AddElement
  <2> QED
    BY <1>1, <1>2, <2>1, <2>2, BlockersFinite DEF BlockCountExact
<1>4. CASE scst_unblock_aborted_cmds(t)
  <2>1. Resets' = Resets /\ block_count' = block_count
    BY <1>0, <1>4 DEF scst_unblock_aborted_cmds, Resets
  <2> QED
    BY <1>1, <2>1 DEF BlockCountExact
<1>5. CASE \E c \in Cmds : AbortTask(t, c)
  <2>1. Resets' = Resets /\ block_count' = block_count
    BY <1>0, <1>5 DEF AbortTask, TmInv, Resets, gateVars
  <2> QED
    BY <1>1, <2>1 DEF BlockCountExact
<1>6. CASE TmDone(t)
  <2>1. /\ tm[t].needs_unblocking => block_count' = block_count - 1
        /\ ~tm[t].needs_unblocking => block_count' = block_count
    BY <1>2, <1>6 DEF TmDone, scst_unblock_dev
  <2>2. tm' = [tm EXCEPT ![t] = [pc |-> "end", affected |-> {}, needs_unblocking |-> FALSE]]
    BY <1>6 DEF TmDone
  <2>3. Resets' = Resets \ {t} /\ (t \in Resets <=> tm[t].needs_unblocking)
    BY <1>0, <2>2 DEF Resets
  <2>4. CASE t \in Resets
    <3>1. Cardinality(Resets') = Cardinality(Resets) - 1
      BY Zenon, <2>3, <2>4, BlockersFinite, FS_RemoveElement
    <3>2. block_count' = block_count - 1
      BY <2>1, <2>3, <2>4
    <3> QED
      BY <1>1, <1>2, <3>1, <3>2, BlockersFinite DEF BlockCountExact
  <2>5. CASE t \notin Resets
    <3>1. Resets' = Resets /\ block_count' = block_count
      BY <2>1, <2>3, <2>5
    <3> QED
      BY <1>1, <3>1 DEF BlockCountExact
  <2> QED
    BY <2>4, <2>5
<1> QED
  BY <1>3, <1>4, <1>5, <1>6

(* scst_ext_block_dev() takes a block, or takes over the one of a waiting  *)
(* strictly serialized command.                                            *)
LEMMA TakeExtBlockCounts ==
    ASSUME TypeOK, BlockCountExact, NEW stpg \in BOOLEAN, TakeExtBlock(stpg),
           UNCHANGED <<unblock_dev, tm>>, Frames' = Frames
    PROVE  BlockCountExact'
<1>1. /\ block_count' = block_count + (1 - Waiting)
      /\ Waiting' = 0 /\ Waiting \in Int
      /\ ext_blocks_cnt' = ext_blocks_cnt + 1
  BY DEF TakeExtBlock, Waiting, TypeOK, DevTypeOK
<1>2. Unblockers' = Unblockers /\ Resets' = Resets
  BY DEF Unblockers, Resets
<1> QED
  BY <1>1, <1>2, BlockersFinite DEF BlockCountExact, TypeOK, DevTypeOK, ExtTypeOK

(* scst_ext_unblock_dev() gives back an external block, or owes it across  *)
(* the nested call.                                                        *)
LEMMA UnblockExtCounts ==
    ASSUME TypeOK, FramesOK, BlockCountExact, NEW e \in Callers, NEW stpg,
           UnblockExt(e, stpg), UNCHANGED <<unblock_dev, tm, strictly_serialized_cmd_waiting>>
    PROVE  BlockCountExact'
<1>1. Unblockers' = Unblockers /\ Resets' = Resets /\ Waiting' = Waiting /\ Waiting \in Int
  BY DEF Unblockers, Resets, Waiting
<1>0. /\ block_count \in Int /\ ext_blocks_cnt \in Int
      /\ call \in [Callers -> [pc : CallPcs, stpg : BOOLEAN, frames : Nat]]
  BY DEF TypeOK, DevTypeOK, ExtTypeOK
<1>2. CASE NothingToUnblock(stpg)
  <2>1. UNCHANGED <<ext_blocks_cnt, block_count>>
        /\ \A f \in Callers : call'[f].frames = call[f].frames
    BY <1>0, <1>2 DEF UnblockExt
  <2> QED
    BY <1>1, <2>1, FramesStay DEF BlockCountExact
<1>3. CASE ~NothingToUnblock(stpg) /\ ~(ext_blocks_cnt = 1 /\ ext_blocking_pending)
  <2>1. /\ ext_blocks_cnt' = ext_blocks_cnt - 1
        /\ block_count' = block_count - 1
        /\ \A f \in Callers : call'[f].frames = call[f].frames
    BY <1>0, <1>3 DEF UnblockExt, scst_unblock_dev
  <2>2. Frames' = Frames
    BY <2>1, FramesStay
  <2> QED
    BY <1>0, <1>1, <2>1, <2>2, BlockersFinite DEF BlockCountExact
<1>4. CASE ~NothingToUnblock(stpg) /\ ext_blocks_cnt = 1 /\ ext_blocking_pending
  <2> DEFINE n == call[e].frames + 1
  <2>1. /\ ext_blocks_cnt' = ext_blocks_cnt - 1
        /\ block_count' = block_count
        /\ n \in 1..MaxDepth
        /\ call' = [call EXCEPT ![e] = [pc |-> "block", stpg |-> stpg, frames |-> n]]
    BY <1>0, <1>4, BlockingAssumption DEF UnblockExt
  <2>2. <<e, n>> \notin Frames
    BY <1>0 DEF Frames
  <2>4. Frames' = Frames \cup {<<e, n>>}
    <3>1. ASSUME NEW f \in Callers, NEW k \in 1..MaxDepth
          PROVE  k <= call'[f].frames <=> k <= call[f].frames \/ (f = e /\ k = n)
      <4>1. CASE f = e
        BY <1>0, <2>1, <4>1, BlockingAssumption
      <4>2. CASE f # e
        BY <1>0, <2>1, <4>2
      <4> QED
        BY <4>1, <4>2
    <3> QED
      BY <2>1, <3>1 DEF Frames
  <2>3. Cardinality(Frames') = Cardinality(Frames) + 1
    <3>1. PICK x : x = <<e, n>>
      BY Zenon
    <3>2. x \notin Frames /\ Frames' = Frames \cup {x}
      BY <2>2, <2>4, <3>1
    <3> QED
      BY Zenon, <3>2, BlockersFinite, FS_AddElement
  <2> QED
    BY <1>0, <1>1, <2>1, <2>3, BlockersFinite DEF BlockCountExact
<1> QED
  BY <1>2, <1>3, <1>4

(* The end of a scst_ext_unblock_dev() call with a nested one pays what it *)
(* owes.                                                                   *)
LEMMA FrameReturnsCounts ==
    ASSUME TypeOK, FramesOK, BlockCountExact, NEW e \in Callers, FrameReturns(e)
    PROVE  BlockCountExact'
<1> DEFINE n == call[e].frames
<1>0. /\ block_count \in Int /\ ext_blocks_cnt \in Int
      /\ call \in [Callers -> [pc : CallPcs, stpg : BOOLEAN, frames : Nat]]
  BY DEF TypeOK, DevTypeOK, ExtTypeOK
<1>1. /\ block_count' = block_count - 1
      /\ ext_blocks_cnt' = ext_blocks_cnt
      /\ UNCHANGED <<unblock_dev, tm, strictly_serialized_cmd_waiting>>
      /\ \A f \in Callers : call'[f].frames = IF f = e THEN n - 1 ELSE call[f].frames
  BY <1>0 DEF FrameReturns, scst_unblock_dev, extVars, cmdVars
<1>2. n \in 1..MaxDepth
  BY <1>0, BlockingAssumption DEF FrameReturns, FramesOK
<1>3. <<e, n>> \in Frames
  <2>1. <<e, n>> \in Callers \X (1..MaxDepth) /\ n <= n
    BY <1>2
  <2> QED
    BY <2>1 DEF Frames
<1>4. Frames' = Frames \ {<<e, n>>}
  <2>1. ASSUME NEW f \in Callers, NEW k \in 1..MaxDepth
        PROVE  k <= call'[f].frames <=> k <= call[f].frames /\ ~(f = e /\ k = n)
    <3>1. CASE f = e
      BY <1>0, <1>1, <1>2, <3>1, BlockingAssumption
    <3>2. CASE f # e
      BY <1>0, <1>1, <3>2
    <3> QED
      BY <3>1, <3>2
  <2> QED
    BY <2>1 DEF Frames
<1>6. Cardinality(Frames') = Cardinality(Frames) - 1
  <2>1. PICK x : x = <<e, n>>
    BY Zenon
  <2>2. x \in Frames /\ Frames' = Frames \ {x}
    BY <1>3, <1>4, <2>1
  <2> QED
    BY Zenon, <2>2, BlockersFinite, FS_RemoveElement
<1>5. Unblockers' = Unblockers /\ Resets' = Resets /\ Waiting' = Waiting /\ Waiting \in Int
  BY <1>1 DEF Unblockers, Resets, Waiting
<1> QED
  BY <1>0, <1>1, <1>5, <1>6, BlockersFinite DEF BlockCountExact

(* External blocking keeps the balance.                                    *)
LEMMA ExtCounts ==
    ASSUME ~TornWord, TypeOK, FramesOK, BlockCountExact, ExtStep
    PROVE  BlockCountExact'
<1> USE DEF TypeOK, ExtTypeOK
<1>1. UNCHANGED <<unblock_dev, tm>>
  BY ExtStepEffect
<1>2. ASSUME NEW e \in Callers, ExtBlockSync(e) \/ NestedBlock(e)
      PROVE  BlockCountExact'
  <2>1. SyncBlock(e)
    BY <1>2 DEF ExtBlockSync, NestedBlock
  <2>2. \E pc : call' = [call EXCEPT ![e].pc = pc]
    BY Zenon, <2>1 DEF SyncBlock
  <2>3. TakeExtBlock(FALSE)
    BY Zenon, <2>1 DEF SyncBlock
  <2>4. \A f \in Callers : call'[f].frames = call[f].frames
    BY <2>2
  <2> QED
    BY Zenon, <1>1, <2>3, <2>4, FramesStay, TakeExtBlockCounts
<1>3. ASSUME NEW e \in Callers, NEW stpg \in BOOLEAN, ExtBlockAsync(e, stpg)
      PROVE  BlockCountExact'
  <2>1. TakeExtBlock(stpg)
    BY <1>3 DEF ExtBlockAsync
  <2>2. \A f \in Callers : call'[f].frames = call[f].frames
    BY <1>3 DEF ExtBlockAsync
  <2> QED
    BY <1>1, <2>1, <2>2, FramesStay, TakeExtBlockCounts
<1>4. ASSUME NEW e \in Callers, NestedUnblock(e) \/ \E stpg \in BOOLEAN : ExtUnblock(e, stpg)
      PROVE  BlockCountExact'
  BY <1>1, <1>4, UnblockExtCounts DEF NestedUnblock, ExtUnblock
<1>5. ASSUME UNCHANGED <<block_count, ext_blocks_cnt, strictly_serialized_cmd_waiting>>,
             \A f \in Callers : call'[f].frames = call[f].frames
      PROVE  BlockCountExact'
  BY <1>1, <1>5, FramesStay DEF BlockCountExact, Unblockers, Resets, Waiting
<1>6. ASSUME NEW e \in Callers, NestedBlockFails(e) \/ Poll(e) \/ SleeperRuns(e)
      PROVE  BlockCountExact'
  BY <1>5, <1>6 DEF NestedBlockFails, Poll, SleeperRuns, gateVars, extVars
<1>7. ASSUME NEW p, Notify(p)
      PROVE  BlockCountExact'
  BY <1>5, <1>7 DEF Notify, gateVars, extVars
<1>8. ASSUME NEW e \in Callers, NotifierRuns(e)
      PROVE  BlockCountExact'
  BY <1>5, <1>8 DEF NotifierRuns, gateVars
<1>9. ASSUME scst_ext_blocking_done_fn
      PROVE  BlockCountExact'
  BY <1>5, <1>9 DEF scst_ext_blocking_done_fn, gateVars
<1>10. ASSUME NEW e \in Callers, LoadWord(e) \/ StoreWord(e)
       PROVE  BlockCountExact'
  BY <1>5, <1>10 DEF LoadWord, StoreWord, DeviceFlags, gateVars, extVars
<1> QED
  BY <1>2, <1>3, <1>4, <1>6, <1>7, <1>8, <1>9, <1>10, FrameReturnsCounts
     DEF ExtStep, CallStep, WorkStep

(* Every step keeps the balance of block_count.                            *)
LEMMA BlockCountStep ==
    ASSUME ~TornWord, TypeOK, FramesOK, GateInv, TmInv, BlockCountExact, [Next]_vars
    PROVE  BlockCountExact'
<1>1. ASSUME NEW c \in Cmds,
             \/ Arrive(c) \/ FailAlua(c) \/ DelayOverlap(c) \/ PassFree(c)
             \/ DelayBlocked(c) \/ LocalEvents(c) \/ Completed(c)
      PROVE  BlockCountExact'
  <2>1. UNCHANGED <<block_count, ext_blocks_cnt, unblock_dev, tm, call,
                    strictly_serialized_cmd_waiting>>
    BY <1>1 DEF Arrive, FailAlua, DelayOverlap, PassFree, DelayBlocked, LocalEvents,
                Completed, NoOverlap, Pass, Block, gateVars, extVars, callVars
  <2> QED
    BY Zenon, <2>1, CountStays DEF Waiting
<1>2. CASE UNCHANGED vars
  BY Zenon, <1>2, CountStays DEF vars, gateVars, extVars, callVars, Waiting
<1> QED
  BY <1>1, <1>2, PassCounts, DelayStrictCounts, DevDoneCounts, TmCounts, ExtCounts, NextCases
-----------------------------------------------------------------------------
(* Serialized commands.                                                    *)

(* A step that moves no command into execution and lets none past the gate *)
(* keeps the invariant: __scst_check_unblock_dev(), the waiting lists, the *)
(* task management functions and the external callers.                     *)
LEMMA SerialKept ==
    ASSUME TypeOK, SerialInv, op' = op,
           \A c \in Cmds : unblock_dev'[c] => unblock_dev[c],
           \A c \in Cmds : aborted[c] => aborted'[c],
           \A c \in Cmds : state'[c] \in {"passed", "exec"} =>
               state[c] = state'[c] /\ unblock_dev'[c] = unblock_dev[c]
    PROVE  SerialInv'
  BY DEF SerialInv

(* The gate and __scst_check_local_events().                               *)
LEMMA SerialStep ==
    ASSUME TypeOK, GateInv, OnDevCount, BlockCountExact, SerialInv, [Next]_vars
    PROVE  SerialInv'
<1> USE DEF TypeOK, DevTypeOK, CmdTypeOK
<1>1. ASSUME NEW c \in Cmds,
             \/ Arrive(c) \/ FailAlua(c) \/ DelayOverlap(c) \/ DelayStrict(c)
             \/ DelayBlocked(c) \/ Completed(c)
      PROVE  SerialInv'
  BY <1>1, SerialKept DEF Arrive, FailAlua, DelayOverlap, DelayStrict, DelayBlocked,
              Completed, NoOverlap, Block
<1>2. ASSUME NEW c \in Cmds, DevDone(c)
      PROVE  SerialInv'
  <2>1. PICK R : state' = [Activate(R \cup Freed(c)) EXCEPT ![c] = "gone"]
    BY Zenon, <1>2 DEF DevDone
  <2>2. /\ unblock_dev' = [unblock_dev EXCEPT ![c] = FALSE]
        /\ UNCHANGED <<op, aborted>>
    BY <1>2 DEF DevDone
  <2> QED
    BY Zenon, <2>1, <2>2, SerialKept DEF Activate
<1>3. ASSUME NEW c \in Cmds, LocalEvents(c)
      PROVE  SerialInv'
  BY <1>3 DEF LocalEvents, SerialInv
<1>4. ASSUME NEW c \in Cmds, PassFree(c)
      PROVE  SerialInv'
  <2>1. /\ state[c] = "active" /\ state' = [state EXCEPT ![c] = "passed"]
        /\ aborted[c] \/ (block_count <= 0 /\ ~op[c].serialized)
        /\ UNCHANGED <<op, aborted, unblock_dev>>
    BY <1>4, BlockCountPositive DEF PassFree, NoOverlap, EnterCheck, Pass, SlowCheck
  <2>2. aborted[c] \/ \A s \in Cmds : ~unblock_dev[s]
    BY <2>1, BlockCountPositive
  <2> QED
    BY <2>1, <2>2 DEF SerialInv
<1>5. ASSUME NEW c \in Cmds, PassSerialized(c) \/ PassStrict(c)
      PROVE  SerialInv'
  <2>1. /\ state[c] = "active" /\ state' = [state EXCEPT ![c] = "passed"]
        /\ unblock_dev' = [unblock_dev EXCEPT ![c] = TRUE]
        /\ block_count <= 0
        /\ op[c].strict => on_dev_cmd_count + 1 <= 1
        /\ UNCHANGED <<op, aborted>>
    BY <1>5 DEF PassSerialized, PassStrict, NoOverlap, EnterCheck, Pass, OthersOnDev
  <2>2. \A s \in Cmds : ~unblock_dev[s]
    BY <2>1, BlockCountPositive
  <2>3. op[c].strict => OnDev = {}
    BY <2>1, OnDevFinite, FS_EmptySet DEF OnDevCount
  <2>4. op[c].strict => \A d \in Cmds : state[d] \notin {"passed", "exec"}
    BY <2>3 DEF OnDev, GateInv
  <2> QED
    BY <2>1, <2>2, <2>4 DEF SerialInv
<1>6. ASSUME Released, UNCHANGED <<op, aborted, unblock_dev>>
      PROVE  SerialInv'
  BY <1>6, SerialKept DEF Released, Activate
<1>7. ASSUME NEW t \in Tms, scst_unblock_aborted_cmds(t) \/ TmDone(t)
      PROVE  Released /\ UNCHANGED <<op, aborted, unblock_dev>>
  BY Zenon, <1>7, NothingReleased, UnblockReleases DEF scst_unblock_aborted_cmds, TmDone, Released
<1>8. ASSUME NEW t \in Tms, Reset(t) \/ \E c \in Cmds : AbortTask(t, c)
      PROVE  SerialInv'
  BY <1>8, SerialKept DEF Reset, AbortTask
<1>9. CASE ExtStep
  BY <1>6, <1>9, ExtStepEffect
<1>10. CASE UNCHANGED vars
  BY <1>10, SerialKept DEF vars
<1> QED
  BY Zenon, <1>1, <1>2, <1>3, <1>4, <1>5, <1>6, <1>7, <1>8, <1>9, <1>10, NextCases
-----------------------------------------------------------------------------
(* The inductive invariant.                                                *)
IInv ==
    /\ TypeOK /\ FramesOK /\ GateInv /\ AtomicInv /\ TmInv
    /\ OnDevCount /\ BlockCountExact /\ SerialInv

(* scst_alloc_device() leaves a device with no command, no block and no    *)
(* external blocker.                                                       *)
LEMMA InvInit == Init => IInv
<1> SUFFICES ASSUME Init PROVE IInv
  OBVIOUS
<1>1. TypeOK /\ FramesOK
  BY TypeInit
<1>2. GateInv /\ TmInv /\ SerialInv
  BY DEF Init, GateInv, TmInv, SerialInv
<1>3. AtomicInv
  <2>1. \A d \in Cmds : Waits(d) = {}
    BY DEF Init, Waits
  <2> QED
    BY Zenon, <2>1, FS_EmptySet DEF Init, AtomicInv
<1>4. OnDevCount
  <2>1. OnDev = {}
    BY DEF Init, OnDev
  <2> QED
    BY <2>1, FS_EmptySet DEF Init, OnDevCount
<1>5. BlockCountExact
  <2>1. Unblockers = {} /\ Resets = {} /\ Waiting = 0
    BY DEF Init, Unblockers, Resets, Waiting
  <2>2. Frames = {}
    BY DEF Init, Frames
  <2> QED
    BY <2>1, <2>2, FS_EmptySet DEF Init, BlockCountExact
<1> QED
  BY <1>1, <1>2, <1>3, <1>4, <1>5 DEF IInv

(* Every step of the device keeps it, as long as no flag of the device is  *)
(* lost by the store to stpg_ext_blocked without dev_lock.                 *)
LEMMA InvStep ==
    ASSUME ~TornWord
    PROVE  IInv /\ [Next]_vars => IInv'
  BY TypeStep, GateStep, AtomicStep, TmInvStep, OnDevStep, BlockCountStep, SerialStep DEF IInv

(* The invariant holds in every reachable state.                           *)
LEMMA Invariance ==
    ASSUME ~TornWord
    PROVE  Spec => []IInv
  BY InvInit, InvStep, PTL DEF Spec

(* scst_block_dev() and scst_unblock_dev() are paired on every path        *)
(* through the gate, the resets and the external blocking: block_count is  *)
(* the number of blocks whose owner has yet to unblock.                    *)
THEOREM BlockCountCorrect ==
    ASSUME ~TornWord
    PROVE  Spec => []BlockCountExact
<1>1. IInv => BlockCountExact
  BY DEF IInv
<1> QED
  BY <1>1, Invariance, PTL

(* on_dev_cmd_count is the number of commands between                      *)
(* scst_check_blocked_dev() and scst_check_unblock_dev(), and every        *)
(* command that may execute is among them.                                 *)
THEOREM OnDevCorrect ==
    ASSUME ~TornWord
    PROVE  Spec => []OnDevExact
<1>1. IInv => OnDevExact
  BY DEF IInv, OnDevCount, GateInv, OnDevExact
<1> QED
  BY <1>1, Invariance, PTL

(* Two commands with SCST_SERIALIZED never execute together: the first one *)
(* has blocked the device when it passed scst_check_blocked_dev().         *)
THEOREM SerializedCorrect ==
    ASSUME ~TornWord
    PROVE  Spec => []SerializedOneByOne
<1>1. IInv => SerializedOneByOne
  BY DEF IInv, SerialInv, SerializedOneByOne
<1> QED
  BY <1>1, Invariance, PTL

(* A command with SCST_STRICTLY_SERIALIZED executes alone: it passes       *)
(* scst_check_blocked_dev() only when on_dev_cmd_count is 0, and blocks    *)
(* the device for those behind it.                                         *)
THEOREM StrictCorrect ==
    ASSUME ~TornWord
    PROVE  Spec => []StrictAlone
<1>1. IInv => StrictAlone
  BY DEF IInv, SerialInv, StrictAlone, TypeOK, CmdTypeOK, Operations
<1> QED
  BY <1>1, Invariance, PTL
=============================================================================
