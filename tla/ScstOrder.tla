----------------------------- MODULE ScstOrder -----------------------------
(***************************************************************************)
(* Command ordering of one task set (struct scst_order_data) of the SCST   *)
(* core: assignment of sequence numbers on receive (scst_cmd_set_sn), the  *)
(* gate in front of execution (scst_exec_check_sn), the advance of         *)
(* expected_sn (scst_inc_expected_sn) with its lockless fast path for      *)
(* SIMPLE commands, and the two lists of commands out of order: deferred   *)
(* ones that wait for their SN, and skipped ones that finished before it.  *)
(*                                                                         *)
(* Atomicity.  A section under sn_lock is one step unless the code drops   *)
(* the lock in it or reads lockless data twice in it; every lockless       *)
(* access that the code synchronises with a barrier is a step of its own.  *)
(* ACA (NACA=1 in a CDB) is not in this module: aca_tgt_dev stays 0.       *)
(***************************************************************************)
EXTENDS Integers, FiniteSets

CONSTANTS
    MaxCmds,      \* commands received in a behaviour
    NSlots,       \* ARRAY_SIZE(order_data->sn_slots), 15 in the code
    SnMod,        \* 2^32 in the code: SNs are unsigned int
    SnInit,       \* (unsigned)-20 in the code
    Devs,         \* the kinds of device, a subset of DevModes
    EarlyFail,    \* the kinds on which a command may finish, or be aborted,
                  \* before it is sent for execution
    SlotReuse     \* may a slot leave zero again while the thread that
                  \* zeroed it is still in scst_inc_expected_sn()?

(* What of the device decides about ordering: devt->exec_sync, whether     *)
(* queue_alg is restricted reordering, and has_own_order_mgmt (which has   *)
(* no effect under exec_sync).                                             *)
DevModes == {d \in [exec_sync : BOOLEAN, restricted : BOOLEAN, own_order : BOOLEAN] :
                ~(d.exec_sync /\ d.own_order)}

ASSUME OrderAssumption ==
    /\ MaxCmds \in Nat \ {0}
    /\ NSlots \in Nat \ {0}
    /\ SnMod \in Nat \ {0}
    /\ SnInit \in 0..SnMod-1
    /\ Devs \subseteq DevModes
    /\ EarlyFail \subseteq DevModes
    /\ SlotReuse \in BOOLEAN

Cmds  == 1..MaxCmds            \* in the order of scst_cmd_set_sn() calls
Slots == 1..NSlots
NoSlot == 0                    \* cmd->sn_slot == NULL
Sn == 0..SnMod-1
QueueTypes == {"SIMPLE", "ORDERED", "HQ"}

VARIABLES
    dev,                               \* fixed at start
    \* struct scst_order_data
    curr_sn, expected_sn, prev_cmd_ordered, pending, cur_sn_slot, sn_slots,
    hq_cmd_count, def_cmd_count, deferred_cmd_list, skipped_sn_list,
    \* struct scst_cmd
    state, queue_type, sn, sn_slot, inc_on_done, sent_for_exec,
    aborted, out_of_sn, can_be_destroyed, inc_passed,
    \* the thread running an ordering function on behalf of a command
    thr,
    \* a TM function has marked commands and has yet to release them
    unblock_aborted

dataVars  == <<curr_sn, prev_cmd_ordered, cur_sn_slot>>
countVars == <<expected_sn, pending, sn_slots>>
hqVars    == <<hq_cmd_count>>
listVars  == <<def_cmd_count, deferred_cmd_list, skipped_sn_list>>
rxVars    == <<queue_type, sn, sn_slot, inc_on_done>>
flagVars  == <<sent_for_exec, aborted, out_of_sn, can_be_destroyed, inc_passed>>
vars == <<dev, dataVars, countVars, hqVars, listVars, rxVars, flagVars,
          state, thr, unblock_aborted>>

(* Where the command is.                                                   *)
(*   rx        scst_cmd_set_sn() has not returned                          *)
(*   active    on the way to, or in front of, scst_exec_check_sn()         *)
(*   sn_slow   in scst_exec_check_sn(), fast path failed, sn_lock wanted   *)
(*   deferred  on deferred_cmd_list                                        *)
(*   exec      past the gate, in scst_exec_check_blocking()                *)
(*   running   with the device                                             *)
(*   abnormal  finishing without having been sent for execution            *)
(*   done      response is being sent; destroyed: memory is freed          *)
CmdStates == {"none", "rx", "active", "sn_slow", "deferred", "exec",
              "running", "abnormal", "done", "freed", "destroyed"}

(* What the command's ordering thread is doing, and for which caller.      *)
ThrPcs   == {"idle", "rx_pend", "rx_recheck", "dec", "pend", "inc", "check", "cd",
             "skip_add", "skip_done", "restart"}
ThrKinds == {"rx", "post_exec", "dev_done", "unblock", "hq"}
Idle == [pc |-> "idle", kind |-> "rx", cur |-> 1, nested |-> FALSE, exp |-> 0]

TypeOK ==
    /\ dev \in Devs
    /\ curr_sn \in Sn /\ expected_sn \in Sn
    /\ prev_cmd_ordered \in BOOLEAN
    /\ pending \in Int
    /\ cur_sn_slot \in Slots
    /\ sn_slots \in [Slots -> Int]
    /\ hq_cmd_count \in Int /\ def_cmd_count \in Int
    /\ deferred_cmd_list \in SUBSET Cmds /\ skipped_sn_list \in SUBSET Cmds
    /\ state \in [Cmds -> CmdStates]
    /\ queue_type \in [Cmds -> QueueTypes]
    /\ sn \in [Cmds -> Sn]
    /\ sn_slot \in [Cmds -> Slots \cup {NoSlot}]
    /\ inc_on_done \in [Cmds -> BOOLEAN]
    /\ sent_for_exec \in [Cmds -> BOOLEAN]
    /\ aborted \in [Cmds -> BOOLEAN]
    /\ out_of_sn \in [Cmds -> BOOLEAN]
    /\ can_be_destroyed \in [Cmds -> BOOLEAN]
    /\ inc_passed \in [Cmds -> BOOLEAN]
    /\ thr \in [Cmds -> [pc : ThrPcs, kind : ThrKinds, cur : Cmds,
                         nested : BOOLEAN, exp : Sn]]
    /\ unblock_aborted \in BOOLEAN

-----------------------------------------------------------------------------
Init ==
    /\ dev \in Devs
    /\ curr_sn = SnInit /\ expected_sn = SnInit
    /\ prev_cmd_ordered = FALSE
    /\ pending = 0
    /\ cur_sn_slot = 1
    /\ sn_slots = [s \in Slots |-> 0]
    /\ hq_cmd_count = 0 /\ def_cmd_count = 0
    /\ deferred_cmd_list = {} /\ skipped_sn_list = {}
    /\ state = [c \in Cmds |-> "none"]
    /\ queue_type = [c \in Cmds |-> "SIMPLE"]
    /\ sn = [c \in Cmds |-> 0]
    /\ sn_slot = [c \in Cmds |-> NoSlot]
    /\ inc_on_done = [c \in Cmds |-> FALSE]
    /\ sent_for_exec = [c \in Cmds |-> FALSE]
    /\ aborted = [c \in Cmds |-> FALSE]
    /\ out_of_sn = [c \in Cmds |-> FALSE]
    /\ can_be_destroyed = [c \in Cmds |-> FALSE]
    /\ inc_passed = [c \in Cmds |-> FALSE]
    /\ thr = [c \in Cmds |-> Idle]
    /\ unblock_aborted = FALSE

Succ(n) == IF n = SnMod - 1 THEN 0 ELSE n + 1      \* unsigned ++
NextSlot(s) == IF s = NSlots THEN 1 ELSE s + 1     \* cur_sn_slot++, wrapped

(* sn_lock is held across steps only by the second half of the ORDERED     *)
(* case of scst_cmd_set_sn().                                              *)
SnLockFree == \A t \in Cmds : thr[t].pc \notin {"rx_pend", "rx_recheck"}

HasSn(c) == queue_type[c] # "HQ"

(* scst_pre_parse()                                                        *)
IncOnDone(q) ==
    dev.exec_sync \/ (~dev.own_order /\ (dev.restricted \/ q = "ORDERED"))

-----------------------------------------------------------------------------
(* __scst_check_deferred_commands_locked(), from `restart' to the end or   *)
(* to the point where it drops sn_lock, run by thread t with its local     *)
(* expected_sn = exp and sn_lock held.  The lists are sets: the order      *)
(* inside them decides only which of the commands with the same SN comes   *)
(* first, which is left open.                                              *)

Matching(exp) == {d \in deferred_cmd_list : sn[d] = exp}

(* The commands one pass takes from the deferred list when d is the first: *)
(* all with this SN, or only d if it has its SN for itself.                *)
Taken(d, exp) == IF sn_slot[d] = NoSlot THEN {d} ELSE Matching(exp)

(* Released commands go to the active list and face the gate again, but    *)
(* scst_post_exec_sn() asks for the first one (return_first) and takes it  *)
(* past the gate.  When the caller is scst_cmd_set_sn(), that returns and  *)
(* its command t becomes active too.                                       *)
Release(t, kind, first, rel) ==
    [c \in Cmds |->
        IF c = first /\ kind = "post_exec" THEN "exec"
        ELSE IF c \in rel \/ (c = t /\ kind = "rx") THEN "active"
        ELSE state[c]]

CheckDeferredLocked(t, kind, exp) ==
    \/ \E d \in Matching(exp) :
          /\ deferred_cmd_list' = deferred_cmd_list \ Taken(d, exp)
          /\ def_cmd_count' = def_cmd_count - Cardinality(Taken(d, exp))
          /\ state' = Release(t, kind, d, Taken(d, exp))
          /\ thr' = [thr EXCEPT ![t] = Idle]
          /\ UNCHANGED skipped_sn_list
    \/ \E d \in skipped_sn_list :           \* drops sn_lock
          /\ Matching(exp) = {}
          /\ sn[d] = exp
          /\ skipped_sn_list' = skipped_sn_list \ {d}
          /\ def_cmd_count' = def_cmd_count - 1
          /\ thr' = [thr EXCEPT ![t] = [pc |-> "dec", kind |-> kind, cur |-> d,
                                        nested |-> TRUE, exp |-> 0]]
          /\ state' = IF kind = "rx" THEN [state EXCEPT ![t] = "rx"] ELSE state
          /\ UNCHANGED deferred_cmd_list
    \/ /\ Matching(exp) = {}
       /\ \A d \in skipped_sn_list : sn[d] # exp
       /\ state' = Release(t, kind, 0, {})
       /\ thr' = [thr EXCEPT ![t] = Idle]
       /\ UNCHANGED listVars

(* The same behind the def_cmd_count test of                               *)
(* scst_make_deferred_commands_active_locked() and the hq_cmd_count test,  *)
(* right after expected_sn became exp.                                     *)
IdleIncrement(c) ==
    LET exp == Succ(expected_sn) IN
    /\ expected_sn' = exp
    /\ IF def_cmd_count = 0 \/ hq_cmd_count # 0
         THEN /\ state' = Release(c, "rx", 0, {})
              /\ thr' = [thr EXCEPT ![c] = Idle]
              /\ UNCHANGED listVars
         ELSE CheckDeferredLocked(c, "rx", exp)

-----------------------------------------------------------------------------
(* scst_cmd_set_sn().  Its callers serialise it per task set.              *)

CanReceive(c) ==
    /\ state[c] = "none"
    /\ \A b \in Cmds : b < c => state[b] \notin {"none", "rx"}

Assign(c, q, n, slot) ==
    /\ queue_type' = [queue_type EXCEPT ![c] = q]
    /\ inc_on_done' = [inc_on_done EXCEPT ![c] = IncOnDone(q)]
    /\ sn' = [sn EXCEPT ![c] = n]
    /\ sn_slot' = [sn_slot EXCEPT ![c] = slot]

(* A thread took slot s to zero and has not yet left                       *)
(* scst_inc_expected_sn().                                                 *)
InIncWindow(s) ==
    \E t \in Cmds : thr[t].pc \in {"pend", "inc"} /\ sn_slot[thr[t].cur] = s

MayRaise(s) == SlotReuse \/ ~InIncWindow(s)

(* The SIMPLE case, a slot being available.                                *)
ReceiveSimple(c) ==
    LET moved == prev_cmd_ordered /\ sn_slots[cur_sn_slot] # 0
        slot  == IF moved THEN NextSlot(cur_sn_slot) ELSE cur_sn_slot
        n     == IF prev_cmd_ordered THEN Succ(curr_sn) ELSE curr_sn IN
    /\ CanReceive(c) /\ ~dev.restricted
    /\ moved => sn_slots[slot] = 0
    /\ MayRaise(slot)
    /\ cur_sn_slot' = slot
    /\ curr_sn' = n
    /\ prev_cmd_ordered' = FALSE
    /\ sn_slots' = [sn_slots EXCEPT ![slot] = @ + 1]
    /\ Assign(c, "SIMPLE", n, slot)
    /\ state' = [state EXCEPT ![c] = "active"]
    /\ UNCHANGED <<dev, expected_sn, pending, hqVars, listVars, flagVars, thr,
                   unblock_aborted>>

(* The SIMPLE case out of slots: goto ordered, with prev_cmd_ordered set.  *)
ReceiveSimpleNoSlot(c) ==
    LET slot == NextSlot(cur_sn_slot) IN
    /\ CanReceive(c) /\ ~dev.restricted
    /\ prev_cmd_ordered /\ sn_slots[cur_sn_slot] # 0 /\ sn_slots[slot] # 0
    /\ cur_sn_slot' = slot
    /\ curr_sn' = Succ(curr_sn)
    /\ Assign(c, "SIMPLE", Succ(curr_sn), NoSlot)
    /\ state' = [state EXCEPT ![c] = "active"]
    /\ UNCHANGED <<dev, prev_cmd_ordered, countVars, hqVars, listVars, flagVars,
                   thr, unblock_aborted>>

(* The ORDERED case up to the first slot test.  With restricted reordering every   *)
(* SIMPLE command comes here as well.                                      *)
ReceiveOrdered(c) ==
    /\ CanReceive(c)
    /\ curr_sn' = Succ(curr_sn)
    /\ prev_cmd_ordered' = TRUE
    /\ Assign(c, "ORDERED", Succ(curr_sn), NoSlot)
    /\ \/ /\ prev_cmd_ordered
          /\ state' = [state EXCEPT ![c] = "active"]
          /\ UNCHANGED <<expected_sn, pending, listVars, thr>>
       \/ /\ ~prev_cmd_ordered
          /\ sn_slots[cur_sn_slot] = 0
          /\ IdleIncrement(c)
          /\ UNCHANGED pending
       \/ /\ ~prev_cmd_ordered
          /\ sn_slots[cur_sn_slot] # 0
          /\ thr' = [thr EXCEPT ![c].pc = "rx_pend"]
          /\ state' = [state EXCEPT ![c] = "rx"]
          /\ UNCHANGED <<expected_sn, pending, listVars>>
    /\ UNCHANGED <<dev, cur_sn_slot, sn_slots, hqVars, flagVars, unblock_aborted>>

(* ... its pending_simple_inc_expected_sn++, sn_lock still held ...        *)
AddPending(c) ==
    /\ thr[c].pc = "rx_pend"
    /\ pending' = pending + 1
    /\ thr' = [thr EXCEPT ![c].pc = "rx_recheck"]
    /\ UNCHANGED <<dev, dataVars, expected_sn, sn_slots, listVars, hqVars, rxVars,
                   flagVars, state, unblock_aborted>>

(* ... and what is behind the barrier.                                     *)
RecheckSlot(c) ==
    /\ thr[c].pc = "rx_recheck"
    /\ IF sn_slots[cur_sn_slot] = 0
         THEN /\ pending' = pending - 1
              /\ IdleIncrement(c)
         ELSE /\ thr' = [thr EXCEPT ![c] = Idle]
              /\ state' = [state EXCEPT ![c] = "active"]
              /\ UNCHANGED <<expected_sn, pending, listVars>>
    /\ UNCHANGED <<dev, dataVars, sn_slots, hqVars, rxVars, flagVars, unblock_aborted>>

ReceiveHq(c) ==
    /\ CanReceive(c)
    /\ hq_cmd_count' = hq_cmd_count + 1
    /\ Assign(c, "HQ", 0, NoSlot)
    /\ state' = [state EXCEPT ![c] = "active"]
    /\ UNCHANGED <<dev, dataVars, countVars, listVars, flagVars, thr, unblock_aborted>>

-----------------------------------------------------------------------------
(* scst_exec_check_sn()                                                    *)

InTurnHqOnly(c) == hq_cmd_count <= 0               \* mutant: SN not compared
InTurn(c) == sn[c] = expected_sn /\ hq_cmd_count <= 0

(* The lockless part.                                                      *)
CheckSn(c) ==
    /\ state[c] = "active"
    /\ state' = [state EXCEPT ![c] =
                   IF ~HasSn(c) THEN "exec"
                   ELSE IF aborted[c] THEN "abnormal"
                   ELSE IF InTurn(c) THEN "exec" ELSE "sn_slow"]
    /\ UNCHANGED <<dev, dataVars, countVars, hqVars, listVars, rxVars, flagVars, thr,
                   unblock_aborted>>

(* The part under sn_lock.                                                 *)
CheckSnSlow(c) ==
    LET wait == ~InTurn(c) /\ ~aborted[c] IN
    /\ state[c] = "sn_slow" /\ SnLockFree
    /\ deferred_cmd_list' = IF wait THEN deferred_cmd_list \cup {c}
                            ELSE deferred_cmd_list
    /\ def_cmd_count' = IF wait THEN def_cmd_count + 1 ELSE def_cmd_count
    /\ state' = [state EXCEPT ![c] = IF InTurn(c) THEN "exec"
                                     ELSE IF aborted[c] THEN "abnormal"
                                     ELSE "deferred"]
    /\ UNCHANGED <<dev, dataVars, countVars, hqVars, skipped_sn_list, rxVars,
                   flagVars, thr, unblock_aborted>>

(* A failure before execution: parsing, buffer allocation, data transfer   *)
(* from the initiator, or the ALUA check behind the gate.                  *)
FailEarly(c) ==
    /\ dev \in EarlyFail
    /\ state[c] \in {"active", "exec"}
    /\ state' = [state EXCEPT ![c] = "abnormal"]
    /\ UNCHANGED <<dev, dataVars, countVars, hqVars, listVars, rxVars, flagVars, thr,
                   unblock_aborted>>

-----------------------------------------------------------------------------
(* The thread of command t starts an ordering function.                    *)
Starts(t, pc, kind) ==
    thr' = [thr EXCEPT ![t] = [pc |-> pc, kind |-> kind, cur |-> t,
                               nested |-> FALSE, exp |-> 0]]

(* The condition in scst_post_exec_sn().                                   *)
PostExecIncs(c) == HasSn(c) /\ ~inc_on_done[c]

(* scst_exec_check_blocking() sends the command for execution, and then    *)
(* calls scst_post_exec_sn().                                              *)
Exec(c) ==
    /\ state[c] = "exec"
    /\ sent_for_exec' = [sent_for_exec EXCEPT ![c] = TRUE]
    /\ state' = [state EXCEPT ![c] = "running"]
    /\ IF PostExecIncs(c) THEN Starts(c, "dec", "post_exec") ELSE UNCHANGED thr
    /\ UNCHANGED <<dev, dataVars, countVars, hqVars, listVars, rxVars, aborted,
                   out_of_sn, can_be_destroyed, inc_passed, unblock_aborted>>

(* scst_dev_done() of a command with an SN.                                *)
DevDone(c) ==
    /\ state[c] = "running" /\ HasSn(c)
    /\ state' = [state EXCEPT ![c] = "done"]
    /\ IF inc_on_done[c] THEN Starts(c, "dec", "dev_done") ELSE UNCHANGED thr
    /\ UNCHANGED <<dev, dataVars, countVars, hqVars, listVars, rxVars, flagVars,
                   unblock_aborted>>

(* scst_pre_xmit_response1() of a HEAD OF QUEUE command, sent for          *)
(* execution or not: scst_on_hq_cmd_response().                            *)
HqResponse(c) ==
    /\ state[c] \in {"running", "abnormal"} /\ ~HasSn(c) /\ SnLockFree
    /\ hq_cmd_count' = hq_cmd_count - 1
    /\ state' = [state EXCEPT ![c] = "done"]
    /\ IF hq_cmd_count = 1 THEN Starts(c, "check", "hq") ELSE UNCHANGED thr
    /\ UNCHANGED <<dev, dataVars, countVars, listVars, rxVars, flagVars, unblock_aborted>>

(* scst_pre_xmit_response1() of any other command never sent for           *)
(* execution: scst_unblock_deferred(), its lockless test ...               *)
UnblockDeferred(c) ==
    /\ state[c] = "abnormal" /\ HasSn(c)
    /\ state' = [state EXCEPT ![c] = "done"]
    /\ IF sn[c] = expected_sn THEN Starts(c, "dec", "unblock")
                              ELSE Starts(c, "skip_add", "unblock")
    /\ out_of_sn' = [out_of_sn EXCEPT ![c] = (sn[c] # expected_sn)]
    /\ UNCHANGED <<dev, dataVars, countVars, hqVars, listVars, rxVars, sent_for_exec,
                   aborted, can_be_destroyed, inc_passed, unblock_aborted>>

(* ... and the branch that takes sn_lock.                                  *)
SkipAdd(t) ==
    /\ thr[t].pc = "skip_add" /\ SnLockFree
    /\ skipped_sn_list' = skipped_sn_list \cup {t}
    /\ def_cmd_count' = def_cmd_count + 1
    /\ thr' = [thr EXCEPT ![t].pc = "check"]
    /\ UNCHANGED <<dev, dataVars, countVars, hqVars, deferred_cmd_list, rxVars, flagVars,
                   state, unblock_aborted>>

-----------------------------------------------------------------------------
(* scst_inc_expected_sn(thr[t].cur), run by thread t.                      *)

(* Back in the caller with result res: __scst_check_deferred_commands_     *)
(* locked() for a skipped command, else scst_unblock_deferred(), which     *)
(* ignores res, scst_post_exec_sn() or scst_dev_done().                    *)
IncReturns(t, res) ==
    thr' = [thr EXCEPT ![t] =
              IF thr[t].nested THEN [thr[t] EXCEPT !.pc = "skip_done"]
              ELSE IF res \/ thr[t].kind = "unblock" THEN [thr[t] EXCEPT !.pc = "check"]
              ELSE Idle]

(* Entry: the ordered case, complete, or atomic_dec_and_test().            *)
IncExpectedSn(t) ==
    LET d == thr[t].cur IN
    /\ thr[t].pc = "dec"
    /\ inc_passed' = [inc_passed EXCEPT ![d] = TRUE]
    /\ \/ /\ sn_slot[d] = NoSlot /\ SnLockFree
          /\ expected_sn' = Succ(expected_sn)
          /\ IncReturns(t, TRUE)
          /\ UNCHANGED sn_slots
       \/ /\ sn_slot[d] # NoSlot
          /\ sn_slots' = [sn_slots EXCEPT ![sn_slot[d]] = @ - 1]
          /\ IF sn_slots[sn_slot[d]] = 1 THEN thr' = [thr EXCEPT ![t].pc = "pend"]
                                         ELSE IncReturns(t, FALSE)
          /\ UNCHANGED expected_sn
    /\ UNCHANGED <<dev, dataVars, pending, hqVars, listVars, rxVars, sent_for_exec,
                   aborted, out_of_sn, can_be_destroyed, state, unblock_aborted>>

(* The lockless test of pending_simple_inc_expected_sn.                    *)
TestPending(t) ==
    /\ thr[t].pc = "pend"
    /\ IF pending = 0 THEN IncReturns(t, FALSE)
                      ELSE thr' = [thr EXCEPT ![t].pc = "inc"]
    /\ UNCHANGED <<dev, dataVars, countVars, hqVars, listVars, rxVars, flagVars, state,
                   unblock_aborted>>

(* The part under sn_lock.                                                 *)
IncLockedNoRecheck(t) ==                           \* mutant: pending not reread
    /\ thr[t].pc = "inc" /\ SnLockFree
    /\ pending' = pending - 1
    /\ expected_sn' = Succ(expected_sn)
    /\ IncReturns(t, TRUE)
    /\ UNCHANGED <<dev, dataVars, sn_slots, hqVars, listVars, rxVars, flagVars, state,
                   unblock_aborted>>

IncLocked(t) ==
    /\ thr[t].pc = "inc" /\ SnLockFree
    /\ pending' = IF pending = 0 THEN 0 ELSE pending - 1
    /\ expected_sn' = IF pending = 0 THEN expected_sn ELSE Succ(expected_sn)
    /\ IncReturns(t, pending # 0)
    /\ UNCHANGED <<dev, dataVars, sn_slots, hqVars, listVars, rxVars, flagVars, state,
                   unblock_aborted>>

-----------------------------------------------------------------------------
(* scst_check_deferred_commands(): the lockless test of def_cmd_count ...  *)
TestDeferred(t) ==
    /\ thr[t].pc = "check"
    /\ thr' = [thr EXCEPT ![t] = IF def_cmd_count = 0 THEN Idle
                                 ELSE [thr[t] EXCEPT !.pc = "cd"]]
    /\ UNCHANGED <<dev, dataVars, countVars, hqVars, listVars, rxVars, flagVars, state,
                   unblock_aborted>>

(* ... and __scst_check_deferred_commands().                               *)
CheckDeferred(t) ==
    /\ thr[t].pc = "cd" /\ SnLockFree
    /\ \/ /\ hq_cmd_count # 0
          /\ thr' = [thr EXCEPT ![t] = Idle]
          /\ UNCHANGED <<listVars, state>>
       \/ /\ hq_cmd_count = 0
          /\ CheckDeferredLocked(t, thr[t].kind, expected_sn)
    /\ UNCHANGED <<dev, dataVars, countVars, hqVars, rxVars, flagVars, unblock_aborted>>

(* A skipped command's SN has been passed: give the command up, and read   *)
(* expected_sn before sn_lock is taken again ...                           *)
SkipDoneLeaks(t) ==                                \* mutant: never destroyed here
    /\ thr[t].pc = "skip_done"
    /\ can_be_destroyed' = [can_be_destroyed EXCEPT ![thr[t].cur] = TRUE]
    /\ thr' = [thr EXCEPT ![t].pc = "restart", ![t].exp = expected_sn]
    /\ UNCHANGED <<dev, dataVars, countVars, hqVars, listVars, rxVars, sent_for_exec,
                   aborted, out_of_sn, inc_passed, state, unblock_aborted>>
SkipDone(t) ==
    LET d == thr[t].cur IN
    /\ thr[t].pc = "skip_done"
    /\ can_be_destroyed' = [can_be_destroyed EXCEPT ![d] = TRUE]
    /\ state' = IF can_be_destroyed[d] THEN [state EXCEPT ![d] = "destroyed"] ELSE state
    /\ thr' = [thr EXCEPT ![t].pc = "restart", ![t].exp = expected_sn]
    /\ UNCHANGED <<dev, dataVars, countVars, hqVars, listVars, rxVars, sent_for_exec,
                   aborted, out_of_sn, inc_passed, unblock_aborted>>

(* ... for the next pass over the lists.                                   *)
Restart(t) ==
    /\ thr[t].pc = "restart" /\ SnLockFree
    /\ CheckDeferredLocked(t, thr[t].kind, thr[t].exp)
    /\ UNCHANGED <<dev, dataVars, countVars, hqVars, rxVars, flagVars, unblock_aborted>>

-----------------------------------------------------------------------------
DestroyNow(c) == ~out_of_sn[c] \/ can_be_destroyed[c]

(* scst_free_cmd() after the response, when the last reference is gone.    *)
FreeCmd(c) ==
    /\ state[c] = "done" /\ thr[c].pc = "idle"
    /\ state' = [state EXCEPT ![c] = IF DestroyNow(c) THEN "destroyed"
                                                      ELSE "freed"]
    /\ can_be_destroyed' = [can_be_destroyed EXCEPT ![c] = @ \/ out_of_sn[c]]
    /\ UNCHANGED <<dev, dataVars, countVars, hqVars, listVars, rxVars, sent_for_exec,
                   aborted, out_of_sn, inc_passed, thr, unblock_aborted>>

(* A TM function: scst_abort_cmd() ... An abort that comes before the gate *)
(* is a FailEarly step, and one that comes behind it does not matter here. *)
Abort(c) ==
    /\ dev \in EarlyFail
    /\ state[c] \in {"sn_slow", "deferred"} /\ ~aborted[c]
    /\ aborted' = [aborted EXCEPT ![c] = TRUE]
    /\ unblock_aborted' = TRUE
    /\ UNCHANGED <<dev, dataVars, countVars, hqVars, listVars, rxVars, sent_for_exec,
                   out_of_sn, can_be_destroyed, inc_passed, state, thr>>

(* ... and, after all its aborts, scst_unblock_aborted_cmds().             *)
UnblockAborted ==
    LET rel == {d \in deferred_cmd_list : aborted[d]} IN
    /\ unblock_aborted /\ SnLockFree
    /\ deferred_cmd_list' = deferred_cmd_list \ rel
    /\ def_cmd_count' = def_cmd_count - Cardinality(rel)
    /\ state' = [c \in Cmds |-> IF c \in rel THEN "active" ELSE state[c]]
    /\ unblock_aborted' = FALSE
    /\ UNCHANGED <<dev, dataVars, countVars, hqVars, skipped_sn_list, rxVars, flagVars,
                   thr>>

(* All commands of the behaviour are gone.                                 *)
AllGone ==
    /\ \A c \in Cmds : state[c] = "destroyed"
    /\ ~unblock_aborted
    /\ UNCHANGED vars

Receive(c) ==
    ReceiveSimple(c) \/ ReceiveSimpleNoSlot(c) \/ ReceiveOrdered(c) \/ ReceiveHq(c)

(* What the processing threads do with command c, or on its behalf.        *)
Process(c) ==
    \/ AddPending(c) \/ RecheckSlot(c)
    \/ CheckSn(c) \/ CheckSnSlow(c) \/ Exec(c)
    \/ DevDone(c) \/ HqResponse(c) \/ UnblockDeferred(c) \/ SkipAdd(c)
    \/ IncExpectedSn(c) \/ TestPending(c) \/ IncLocked(c)
    \/ TestDeferred(c) \/ CheckDeferred(c) \/ SkipDone(c) \/ Restart(c)
    \/ FreeCmd(c)

Next ==
    \/ \E c \in Cmds : Receive(c) \/ Process(c) \/ FailEarly(c) \/ Abort(c)
    \/ UnblockAborted
    \/ AllGone

Spec == Init /\ [][Next]_vars

(* Command threads and the TM thread are kernel threads that run as long   *)
(* as they have work, and the device completes what it was given.          *)
FairSpec ==
    /\ Spec
    /\ \A c \in Cmds : WF_vars(Process(c))
    /\ WF_vars(UnblockAborted)

-----------------------------------------------------------------------------
Received(c) == state[c] # "none"
Finished(c) == state[c] \in {"done", "freed", "destroyed"}

(* SIMPLE commands between two ORDERED ones run in any order; this says    *)
(* that an ORDERED command stands between d and c, or is one of them.      *)
Separated(d, c) == \E e \in d..c : queue_type[e] = "ORDERED"

(* d need not be waited for any more: it will not execute, or has been     *)
(* sent for execution, or has completed if the device needs SCST to wait.  *)
OutOfTheWay(d) ==
    IF sent_for_exec[d] THEN inc_on_done[d] => Finished(d)
                        ELSE state[d] = "abnormal" \/ Finished(d)

(* Commands are sent for execution in the order the task attributes ask    *)
(* for: scst_exec_check_sn() lets c pass only when all commands received   *)
(* before, and separated from it by an ORDERED command, are out of the     *)
(* way.                                                                    *)
InOrder ==
    \A d, c \in Cmds :
        (d < c /\ HasSn(d) /\ HasSn(c) /\ Separated(d, c) /\ sent_for_exec[c])
            => OutOfTheWay(d)

(* How far a command is for the abstract task set.                         *)
Phase(c) ==
    CASE state[c] = "none" -> "none"
      [] state[c] \in {"rx", "active", "sn_slow", "deferred", "exec"} -> "queued"
      [] state[c] = "running" -> "started"
      [] state[c] = "abnormal" -> "dropped"
      [] Finished(c) -> IF sent_for_exec[c] THEN "finished" ELSE "dropped"

TaskSet == INSTANCE ScstTaskSet
             WITH phase <- [c \in Cmds |-> Phase(c)], attr <- queue_type,
                  wait_done <- inc_on_done

(* The ordering code implements the abstract task set: each of its steps   *)
(* is a step of the task set or invisible to the initiator.                *)
ImplementsTaskSet == TaskSet!Spec

(* The counters are exact: def_cmd_count, read without sn_lock by          *)
(* scst_check_deferred_commands(), counts the commands on the two lists;   *)
(* hq_cmd_count the HEAD OF QUEUE commands that were not responded to;     *)
(* and an SN slot the commands that have it and did not pass               *)
(* scst_inc_expected_sn().                                                 *)
CountsExact ==
    /\ def_cmd_count = Cardinality(deferred_cmd_list) + Cardinality(skipped_sn_list)
    /\ hq_cmd_count = Cardinality({c \in Cmds : Received(c) /\ ~HasSn(c) /\ ~Finished(c)})
    /\ \A s \in Slots : sn_slots[s] =
          Cardinality({c \in Cmds : sn_slot[c] = s /\ ~inc_passed[c]})

(* The lists hold live commands: a deferred command is nowhere else, and a *)
(* skipped one, which may be freed by its own thread at any time, is       *)
(* destroyed neither while it is on the list nor while                     *)
(* __scst_check_deferred_commands_locked() works on it with sn_lock        *)
(* dropped.                                                                *)
ListsSound ==
    /\ deferred_cmd_list = {c \in Cmds : state[c] = "deferred"}
    /\ \A c \in skipped_sn_list : state[c] \in {"done", "freed"}
    /\ \A t \in Cmds : thr[t].nested /\ thr[t].pc # "restart"
          => state[thr[t].cur] \in {"done", "freed"}

(* The checks of CONFIG_SCST_EXTRACHECKS: no command passes                *)
(* scst_inc_expected_sn() twice, none with an SN is freed without having   *)
(* passed it or being left to the skipped list, and                        *)
(* pending_simple_inc_expected_sn and hq_cmd_count are not negative.       *)
ExtraChecks ==
    /\ \A t \in Cmds : thr[t].pc = "dec" => ~inc_passed[thr[t].cur]
    /\ \A c \in Cmds : state[c] \in {"freed", "destroyed"} /\ HasSn(c)
          => inc_passed[c] \/ out_of_sn[c]
    /\ pending >= 0
    /\ hq_cmd_count >= 0

(* No thread has anything to do for any command.                           *)
Quiet ==
    /\ \A c \in Cmds : state[c] \in {"none", "deferred", "freed", "destroyed"}
    /\ \A t \in Cmds : thr[t].pc = "idle"
    /\ ~unblock_aborted

(* When everything is quiet the next command is in turn: SIMPLE at         *)
(* curr_sn, or the one after it if the last command was ORDERED.           *)
ExpectedCatchesUp ==
    Quiet =>
        /\ expected_sn = IF prev_cmd_ordered THEN Succ(curr_sn) ELSE curr_sn
        /\ pending = 0


(* Every received command is eventually executed or failed, and destroyed. *)
AllFinish ==
    \A c \in Cmds : (state[c] # "none") ~> (state[c] = "destroyed")
=============================================================================
