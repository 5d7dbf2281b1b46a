---------------------------- MODULE ScstBlocking ----------------------------
(***************************************************************************)
(* Blocking of one SCST device (struct scst_device): the gate a command    *)
(* passes right before it is executed (scst_check_blocked_dev) and the     *)
(* work done when it has left the device (scst_check_unblock_dev).  The    *)
(* gate serves serialized and strictly serialized commands, SCSI atomic    *)
(* commands that must not overlap others, the commands sent while a double *)
(* reset Unit Attention is possible, task management resets, and external  *)
(* blocking (sysfs attribute "block", and STPG on the other devices of a   *)
(* device group), synchronous or with a notification.                      *)
(*                                                                         *)
(* A section under dev_lock is one step.  The lists are sets: their order  *)
(* decides only who of several candidates goes first, which is left open.  *)
(* Not in this module: the global order of STPG commands, EXTENDED COPY    *)
(* (which passes this gate on several devices at once), internal commands  *)
(* (which pass it unconditionally and uncounted), a failed krealloc().     *)
(***************************************************************************)
EXTENDS Integers, FiniteSets

CONSTANTS
    Cmds,         \* commands a behaviour may see
    OpMixes,      \* the sets of operations they are taken from in a behaviour
    Tms,          \* task management functions a behaviour may see
    Callers,      \* threads that block and unblock from outside
    ExtKinds,     \* the calls they use, a subset of {"sync", "async", "stpg"}
    MaxExtOps,    \* calls they make in a behaviour
    MaxDepth,     \* bound on the recursion of scst_ext_unblock_dev()
    StrictFails,  \* may ABORT TASK, or the ALUA check, hit a strictly
                  \* serialized command?
    InitUa,       \* dev_double_ua_possible at the start: TRUE for a new device,
                  \* FALSE for one that has served a command
    AtomicReset,  \* may a device that is sent SCSI atomic commands be reset?
    TornWord      \* may other flags of the device change while one is cleared
                  \* without dev_lock?

(* op_flags of the command and what of the CDB the atomicity check reads:  *)
(* SCST_SERIALIZED, SCST_STRICTLY_SERIALIZED, SCST_SCSI_ATOMIC, and the    *)
(* kind with its LBA range.  Ranges overlap iff they are the same area.    *)
Areas == {"a", "b"}
Operations ==
    {o \in [serialized : BOOLEAN, strict : BOOLEAN,
            kind : {"cwr", "reserve", "rw", "other"}, area : Areas] :
        o.strict => o.serialized}

ASSUME BlockingAssumption ==
    /\ IsFiniteSet(Cmds)
    /\ OpMixes \subseteq SUBSET Operations
    /\ IsFiniteSet(Tms)
    /\ IsFiniteSet(Callers)
    /\ ExtKinds \subseteq {"sync", "async", "stpg"}
    /\ MaxExtOps \in Nat
    /\ MaxDepth \in Nat
    /\ StrictFails \in BOOLEAN
    /\ AtomicReset \in BOOLEAN /\ TornWord \in BOOLEAN
    /\ InitUa \subseteq BOOLEAN

VARIABLES
    \* struct scst_device
    block_count, on_dev_cmd_count, strictly_serialized_cmd_waiting,
    dev_double_ua_possible, dev_scsi_atomic_cmd_active, dev_exec_cmd_list,
    blocked_cmd_list, ext_blocks_cnt, ext_blockers_list, ext_blocking_pending,
    ext_unblock_scheduled, stpg_ext_blocked,
    \* struct scst_cmd
    state, op, aborted, unblock_dev, dec_on_dev_needed, scsi_atomicity_checked,
    scsi_atomic_blocked_cmds, scsi_atomic_blockers, double_ua_possible,
    \* task management functions
    tm,
    \* external callers, their sleep in wait_event_locked(), the copies of the
    \* bitfield word they hold, and the runs of __scst_ext_blocking_done()
    call, woken, word, popper, ext_ops

gateVars == <<block_count, strictly_serialized_cmd_waiting, blocked_cmd_list>>
onDevVars == <<on_dev_cmd_count, dec_on_dev_needed>>
atomicVars == <<dev_scsi_atomic_cmd_active, dev_exec_cmd_list,
                scsi_atomicity_checked, scsi_atomic_blocked_cmds, scsi_atomic_blockers>>
uaVars == <<dev_double_ua_possible, double_ua_possible>>
extVars == <<ext_blocks_cnt, ext_blockers_list, ext_blocking_pending, stpg_ext_blocked>>
callVars == <<call, woken, word, popper, ext_ops, ext_unblock_scheduled>>
vars == <<gateVars, onDevVars, atomicVars, uaVars, extVars, callVars,
          state, op, aborted, unblock_dev, tm>>

(* Where the command is.                                                   *)
(*   active   with a thread, in front of scst_check_blocked_dev()          *)
(*   blocked  on blocked_cmd_list                                          *)
(*   overlap  waits until scsi_atomic_blockers is 0, on no list            *)
(*   passed   past the gate, in front of __scst_check_local_events()       *)
(*   exec     being executed; skip: completed without having been executed *)
(*   done     in front of scst_check_unblock_dev(); gone: past it          *)
CmdStates == {"none", "active", "blocked", "overlap", "passed", "exec", "skip",
              "done", "gone"}
Blocker == [who : Callers, sync : BOOLEAN]
NoBlocker == [who |-> "none", sync |-> FALSE]
Work == "ext_blockers_work"
Poppers == Callers \cup {Work}
Quiet == [stop |-> TRUE, notify |-> NoBlocker]
CallPcs == {"idle", "notify", "block", "sleep", "unblock", "poll", "return", "clear", "write"}
NoWord == [waiting |-> FALSE, ua |-> FALSE, pending |-> FALSE, scheduled |-> FALSE]
TmPcs == {"none", "abort", "wait", "end"}

DevTypeOK ==
    /\ block_count \in Int /\ on_dev_cmd_count \in Int
    /\ strictly_serialized_cmd_waiting \in BOOLEAN
    /\ dev_double_ua_possible \in BOOLEAN
    /\ dev_scsi_atomic_cmd_active \in Int
    /\ dev_exec_cmd_list \in SUBSET Cmds /\ blocked_cmd_list \in SUBSET Cmds
CmdTypeOK ==
    /\ state \in [Cmds -> CmdStates]
    /\ op \in [Cmds -> Operations]
    /\ aborted \in [Cmds -> BOOLEAN]
    /\ unblock_dev \in [Cmds -> BOOLEAN]
    /\ dec_on_dev_needed \in [Cmds -> BOOLEAN]
    /\ scsi_atomicity_checked \in [Cmds -> BOOLEAN]
    /\ scsi_atomic_blocked_cmds \in [Cmds -> SUBSET Cmds]
    /\ scsi_atomic_blockers \in [Cmds -> Int]
    /\ double_ua_possible \in [Cmds -> BOOLEAN]
    /\ tm \in [Tms -> [pc : TmPcs, affected : SUBSET Cmds, needs_unblocking : BOOLEAN]]
ExtTypeOK ==
    /\ ext_blocks_cnt \in Nat
    /\ ext_blockers_list \in SUBSET Blocker
    /\ ext_blocking_pending \in BOOLEAN /\ ext_unblock_scheduled \in BOOLEAN
    /\ stpg_ext_blocked \in BOOLEAN
    /\ call \in [Callers -> [pc : CallPcs, stpg : BOOLEAN, frames : Nat]]
    /\ woken \in [Callers -> BOOLEAN]
    /\ word \in [Callers -> [waiting : BOOLEAN, ua : BOOLEAN, pending : BOOLEAN,
                             scheduled : BOOLEAN]]
    /\ popper \in [Poppers -> [stop : BOOLEAN, notify : Blocker \cup {NoBlocker}]]
    /\ ext_ops \in Nat
TypeOK == DevTypeOK /\ CmdTypeOK /\ ExtTypeOK

Init ==
    /\ block_count = 0 /\ on_dev_cmd_count = 0
    /\ strictly_serialized_cmd_waiting = FALSE
    /\ dev_double_ua_possible \in InitUa
    /\ dev_scsi_atomic_cmd_active = 0
    /\ dev_exec_cmd_list = {} /\ blocked_cmd_list = {}
    /\ ext_blocks_cnt = 0 /\ ext_blockers_list = {}
    /\ ext_blocking_pending = FALSE /\ ext_unblock_scheduled = FALSE
    /\ stpg_ext_blocked = FALSE
    /\ state = [c \in Cmds |-> "none"]
    /\ \E mix \in OpMixes : op \in [Cmds -> mix]
    /\ aborted = [c \in Cmds |-> FALSE]
    /\ unblock_dev = [c \in Cmds |-> FALSE]
    /\ dec_on_dev_needed = [c \in Cmds |-> FALSE]
    /\ scsi_atomicity_checked = [c \in Cmds |-> FALSE]
    /\ scsi_atomic_blocked_cmds = [c \in Cmds |-> {}]
    /\ scsi_atomic_blockers = [c \in Cmds |-> 0]
    /\ double_ua_possible = [c \in Cmds |-> FALSE]
    /\ tm = [t \in Tms |-> [pc |-> "none", affected |-> {}, needs_unblocking |-> FALSE]]
    /\ call = [e \in Callers |-> [pc |-> "idle", stpg |-> FALSE, frames |-> 0]]
    /\ woken = [e \in Callers |-> FALSE]
    /\ word = [e \in Callers |-> NoWord]
    /\ popper = [p \in Poppers |-> Quiet]
    /\ ext_ops = 0

-----------------------------------------------------------------------------
(* The atomicity check, scst_cmd_overlap() and its callees.                *)

Atomic(c) == op[c].kind \in {"cwr", "reserve"}

(* COMPARE AND WRITE a against any command d; RESERVE a against any d.     *)
OverlapCwr(a, d) == d.kind = "reserve" \/ (d.kind \in {"rw", "cwr"} /\ d.area = a.area)
OverlapReserve(a, d) == d.kind = "cwr"
OverlapAtomic(a, d) == IF a.kind = "cwr" THEN OverlapCwr(a, d) ELSE OverlapReserve(a, d)

scst_cmd_overlap(chk, c) ==
    IF Atomic(chk) THEN OverlapAtomic(op[chk], op[c])
                   ELSE Atomic(c) /\ OverlapAtomic(op[c], op[chk])

(* Is the check due for c, and whom does it find?                          *)
CheckDueAtomicOnly(c) == Atomic(c) /\ ~scsi_atomicity_checked[c]     \* mutant: forgets the others
CheckDue(c) ==
    (Atomic(c) \/ dev_scsi_atomic_cmd_active # 0) /\ ~scsi_atomicity_checked[c]
Overlapping(c) == {d \in dev_exec_cmd_list \ {c} : scst_cmd_overlap(c, d)}

(* What every entry of scst_do_check_blocked_dev() does first.             *)
EnterCheck(c) ==
    /\ state[c] = "active"
    /\ dev_exec_cmd_list' = dev_exec_cmd_list \cup {c}
    /\ scsi_atomicity_checked' =
          [scsi_atomicity_checked EXCEPT ![c] = @ \/ CheckDue(c)]
    /\ dev_scsi_atomic_cmd_active' =
          dev_scsi_atomic_cmd_active + (IF CheckDue(c) /\ Atomic(c) THEN 1 ELSE 0)

(* scst_check_scsi_atomicity() found commands to wait for.                 *)
DelayOverlap(c) ==
    /\ EnterCheck(c)
    /\ CheckDue(c) /\ Overlapping(c) # {}
    /\ scsi_atomic_blocked_cmds' =
          [d \in Cmds |-> IF d \in Overlapping(c) THEN scsi_atomic_blocked_cmds[d] \cup {c}
                                                  ELSE scsi_atomic_blocked_cmds[d]]
    /\ scsi_atomic_blockers' = [scsi_atomic_blockers EXCEPT ![c] = @ + Cardinality(Overlapping(c))]
    /\ state' = [state EXCEPT ![c] = "overlap"]
    /\ UNCHANGED <<gateVars, onDevVars, uaVars, extVars, callVars,
                   op, aborted, unblock_dev, tm>>

-----------------------------------------------------------------------------
(* The rest of scst_do_check_blocked_dev(), with __scst_check_blocked_dev. *)

NoOverlap(c) ==
    /\ EnterCheck(c)
    /\ ~(CheckDue(c) /\ Overlapping(c) # {})
    /\ UNCHANGED <<scsi_atomic_blocked_cmds, scsi_atomic_blockers, uaVars, extVars,
                   callVars, op, aborted, tm>>

Pass(c) ==
    /\ on_dev_cmd_count' = on_dev_cmd_count + 1
    /\ dec_on_dev_needed' = [dec_on_dev_needed EXCEPT ![c] = TRUE]
    /\ state' = [state EXCEPT ![c] = "passed"]
    /\ UNCHANGED <<strictly_serialized_cmd_waiting, blocked_cmd_list>>

Block(c) ==
    /\ blocked_cmd_list' = blocked_cmd_list \cup {c}
    /\ state' = [state EXCEPT ![c] = "blocked"]
    /\ UNCHANGED <<onDevVars, unblock_dev>>

(* Must the command take the slow path?  Aborted ones leave it at once.    *)
SlowCheck(c) ==
    /\ block_count > 0 \/ dev_double_ua_possible \/ op[c].serialized
    /\ ~aborted[c]

PassFree(c) ==
    /\ NoOverlap(c)
    /\ ~SlowCheck(c)
    /\ Pass(c)
    /\ UNCHANGED <<block_count, unblock_dev>>

PassSerializedNoBlock(c) ==                     \* mutant: device not blocked
    /\ NoOverlap(c)
    /\ SlowCheck(c) /\ block_count <= 0 /\ ~op[c].strict
    /\ Pass(c)
    /\ UNCHANGED <<block_count, unblock_dev>>
PassSerialized(c) ==
    /\ NoOverlap(c)
    /\ SlowCheck(c) /\ block_count <= 0 /\ ~op[c].strict
    /\ block_count' = block_count + 1
    /\ unblock_dev' = [unblock_dev EXCEPT ![c] = TRUE]
    /\ Pass(c)

(* "on_dev_cmd_count > 1", after the command has been counted.             *)
OthersOnDevOffByOne == on_dev_cmd_count + 1 > 2         \* mutant: off by one
OthersOnDev == on_dev_cmd_count + 1 > 1

PassStrict(c) ==
    /\ NoOverlap(c)
    /\ SlowCheck(c) /\ block_count <= 0 /\ op[c].strict
    /\ ~OthersOnDev
    /\ block_count' = block_count + 1
    /\ unblock_dev' = [unblock_dev EXCEPT ![c] = TRUE]
    /\ Pass(c)

DelayStrictNoFlag(c) ==                         \* mutant: the flag forgotten
    /\ NoOverlap(c)
    /\ SlowCheck(c) /\ block_count <= 0 /\ op[c].strict /\ OthersOnDev
    /\ block_count' = block_count + 1
    /\ Block(c)
    /\ UNCHANGED strictly_serialized_cmd_waiting

DelayStrict(c) ==
    /\ NoOverlap(c)
    /\ SlowCheck(c) /\ block_count <= 0 /\ op[c].strict
    /\ OthersOnDev
    /\ block_count' = block_count + 1
    /\ strictly_serialized_cmd_waiting' = TRUE
    /\ Block(c)

DelayBlocked(c) ==
    /\ NoOverlap(c)
    /\ SlowCheck(c) /\ block_count > 0
    /\ Block(c)
    /\ UNCHANGED <<block_count, strictly_serialized_cmd_waiting>>

-----------------------------------------------------------------------------
(* scst_unblock_dev(): the sets of commands it may take from the blocked   *)
(* list.  With a strictly serialized command waiting it takes the first    *)
(* one of that kind only.                                                  *)
StrictBlocked == {c \in blocked_cmd_list : op[c].strict}
Unblocked ==
    IF block_count - 1 # 0 THEN {{}}
    ELSE IF ~strictly_serialized_cmd_waiting THEN {blocked_cmd_list}
    ELSE IF StrictBlocked = {} THEN {{}} ELSE {{c} : c \in StrictBlocked}

Activate(R) == [c \in Cmds |-> IF c \in R THEN "active" ELSE state[c]]

scst_unblock_dev ==
    \E R \in Unblocked :
        /\ block_count' = block_count - 1
        /\ blocked_cmd_list' = blocked_cmd_list \ R
        /\ state' = Activate(R)

-----------------------------------------------------------------------------
(* The command's way to and from the device.                               *)

Arrive(c) ==
    /\ state[c] = "none"
    /\ state' = [state EXCEPT ![c] = "active"]
    /\ UNCHANGED <<gateVars, onDevVars, atomicVars, uaVars, extVars, callVars,
                   op, aborted, unblock_dev, tm>>

(* scst_check_alua() fails the command in front of the gate.               *)
FailAlua(c) ==
    /\ state[c] = "active"
    /\ op[c].strict => StrictFails
    /\ state' = [state EXCEPT ![c] = "done"]
    /\ UNCHANGED <<gateVars, onDevVars, atomicVars, uaVars, extVars, callVars,
                   op, aborted, unblock_dev, tm>>

(* __scst_check_local_events()                                             *)
LocalEvents(c) ==
    /\ state[c] = "passed"
    /\ double_ua_possible' =
          [double_ua_possible EXCEPT ![c] = @ \/ dev_double_ua_possible]
    /\ \/ state' = [state EXCEPT ![c] = "skip"]     \* aborted, or another event
       \/ ~aborted[c] /\ state' = [state EXCEPT ![c] = "exec"]
    /\ UNCHANGED <<gateVars, onDevVars, atomicVars, dev_double_ua_possible, extVars,
                   callVars, op, aborted, unblock_dev, tm>>

(* The device has finished with it; the end of scst_check_sense().  Only a *)
(* command without SCST_SKIP_UA clears the flag, any command may have it.  *)
Completed(c) ==
    /\ state[c] \in {"exec", "skip"}
    /\ state' = [state EXCEPT ![c] = "done"]
    /\ \/ UNCHANGED dev_double_ua_possible
       \/ double_ua_possible[c] /\ dev_double_ua_possible' = FALSE
    /\ UNCHANGED <<gateVars, onDevVars, atomicVars, double_ua_possible, extVars,
                   callVars, op, aborted, unblock_dev, tm>>

(* scst_dev_done(): __scst_check_unblock_dev()                             *)
OnDevAfter(c) == on_dev_cmd_count - (IF dec_on_dev_needed[c] THEN 1 ELSE 0)
Drained(c) == OnDevAfter(c) = 0
Freed(c) == {d \in scsi_atomic_blocked_cmds[c] : scsi_atomic_blockers[d] = 1}

DevDone(c) ==
    /\ state[c] = "done"
    /\ dev_exec_cmd_list' = dev_exec_cmd_list \ {c}
    /\ dev_scsi_atomic_cmd_active' =
          dev_scsi_atomic_cmd_active - (IF Atomic(c) /\ scsi_atomicity_checked[c] THEN 1 ELSE 0)
    /\ scsi_atomicity_checked' = [scsi_atomicity_checked EXCEPT ![c] = @ /\ ~Atomic(c)]
    /\ on_dev_cmd_count' = OnDevAfter(c)
    /\ dec_on_dev_needed' = [dec_on_dev_needed EXCEPT ![c] = FALSE]
    /\ scsi_atomic_blockers' = [d \in Cmds |-> scsi_atomic_blockers[d]
                                  - (IF d \in scsi_atomic_blocked_cmds[c] THEN 1 ELSE 0)]
    /\ scsi_atomic_blocked_cmds' = [scsi_atomic_blocked_cmds EXCEPT ![c] = {}]
    /\ unblock_dev' = [unblock_dev EXCEPT ![c] = FALSE]
    /\ LET strict == ~unblock_dev[c] /\ strictly_serialized_cmd_waiting /\ Drained(c)
       IN \E R \in IF unblock_dev[c] \/ strict THEN Unblocked ELSE {{}} :
            /\ block_count' = block_count - (IF unblock_dev[c] \/ strict THEN 1 ELSE 0)
            /\ blocked_cmd_list' = blocked_cmd_list \ R
            /\ state' = [Activate(R \cup Freed(c)) EXCEPT ![c] = "gone"]
            /\ strictly_serialized_cmd_waiting' = (strictly_serialized_cmd_waiting /\ ~strict)
    /\ ext_unblock_scheduled' = (ext_unblock_scheduled \/ (ext_blocking_pending /\ Drained(c)))
    /\ UNCHANGED <<uaVars, extVars, call, woken, word, popper, ext_ops, op, aborted, tm>>

-----------------------------------------------------------------------------
(* Task management.  A function aborts the commands it affects, releases   *)
(* the aborted ones from the blocked list, and is done when they are gone. *)

Live == {c \in Cmds : state[c] \notin {"none", "gone"}}

(* scst_abort_task()                                                       *)
AbortTask(t, c) ==
    /\ tm[t].pc = "none"
    /\ c \in Live
    /\ op[c].strict => StrictFails
    /\ aborted' = [aborted EXCEPT ![c] = TRUE]
    /\ tm' = [tm EXCEPT ![t] = [pc |-> "abort", affected |-> {c}, needs_unblocking |-> FALSE]]
    /\ UNCHANGED <<gateVars, onDevVars, atomicVars, uaVars, extVars, callVars,
                   state, op, unblock_dev>>

(* scst_lun_reset(), and one device of scst_target_reset()                 *)
Reset(t) ==
    /\ tm[t].pc = "none"
    /\ AtomicReset \/ \A c \in Cmds : ~Atomic(c)
    /\ block_count' = block_count + 1
    /\ dev_double_ua_possible' = TRUE
    /\ aborted' = [c \in Cmds |-> aborted[c] \/ c \in Live]
    /\ tm' = [tm EXCEPT ![t] = [pc |-> "abort", affected |-> Live, needs_unblocking |-> TRUE]]
    /\ UNCHANGED <<strictly_serialized_cmd_waiting, blocked_cmd_list, onDevVars, atomicVars,
                   double_ua_possible, extVars, callVars, state, op, unblock_dev>>

scst_unblock_aborted_cmds(t) ==
    /\ tm[t].pc = "abort"
    /\ LET R == {c \in blocked_cmd_list : aborted[c]}
       IN blocked_cmd_list' = blocked_cmd_list \ R /\ state' = Activate(R)
    /\ tm' = [tm EXCEPT ![t].pc = "wait"]
    /\ UNCHANGED <<block_count, strictly_serialized_cmd_waiting, onDevVars, atomicVars,
                   uaVars, extVars, callVars, op, aborted, unblock_dev>>

(* scst_mgmt_cmd_send_done()                                               *)
TmDoneNoUnblock(t) ==                           \* mutant: needs_unblocking ignored
    /\ tm[t].pc = "wait"
    /\ \A c \in tm[t].affected : state[c] = "gone"
    /\ tm' = [tm EXCEPT ![t] = [pc |-> "end", affected |-> {}, needs_unblocking |-> FALSE]]
    /\ UNCHANGED <<gateVars, onDevVars, atomicVars, uaVars, extVars, callVars, state, op,
                   aborted, unblock_dev>>

TmDone(t) ==
    /\ tm[t].pc = "wait"
    /\ \A c \in tm[t].affected : state[c] = "gone"
    /\ tm' = [tm EXCEPT ![t] = [pc |-> "end", affected |-> {}, needs_unblocking |-> FALSE]]
    /\ IF tm[t].needs_unblocking
       THEN scst_unblock_dev ELSE UNCHANGED <<block_count, blocked_cmd_list, state>>
    /\ UNCHANGED <<strictly_serialized_cmd_waiting, onDevVars, atomicVars, uaVars, extVars,
                   callVars, op, aborted, unblock_dev>>

-----------------------------------------------------------------------------
(* External blocking: scst_ext_block_dev() and scst_ext_unblock_dev(), as  *)
(* called by a caller that is idle or, nested, by scst_ext_unblock_dev()   *)
(* itself.  frames counts the calls of scst_ext_unblock_dev() on the stack *)
(* that have given up their external block and have yet to unblock.        *)

cmdVars == <<op, aborted, unblock_dev, tm>>

(* A new call from outside.                                                *)
NewCall(e) ==
    /\ call[e].pc = "idle"
    /\ ext_ops < MaxExtOps
    /\ ext_ops' = ext_ops + 1

(* Where the caller goes when the function it is in returns.               *)
BlockReturns(e) == IF call[e].frames > 0 THEN "unblock" ELSE "idle"
UnblockReturns(e, stpg, frames) ==
    IF frames > 0 THEN "return" ELSE IF stpg THEN "clear" ELSE "idle"

(* The first half of scst_ext_block_dev() under dev_lock.                  *)
TakeExtBlock(stpg) ==
    /\ block_count' = block_count + (IF strictly_serialized_cmd_waiting THEN 0 ELSE 1)
    /\ strictly_serialized_cmd_waiting' = FALSE
    /\ ext_blocks_cnt' = ext_blocks_cnt + 1
    /\ stpg_ext_blocked' = (stpg_ext_blocked \/ stpg)
    /\ UNCHANGED <<blocked_cmd_list, state>>

AddBlocker(b) ==
    /\ ext_blockers_list' = ext_blockers_list \cup {b}
    /\ ext_blocking_pending' = TRUE

IdleOffByOne == on_dev_cmd_count <= 1           \* mutant: one left counts as none
Idle == on_dev_cmd_count = 0

SyncBlock(e) ==
    /\ TakeExtBlock(FALSE)
    /\ IF Idle
       THEN /\ call' = [call EXCEPT ![e].pc = BlockReturns(e)]
            /\ UNCHANGED <<ext_blockers_list, ext_blocking_pending>>
       ELSE /\ AddBlocker([who |-> e, sync |-> TRUE])
            /\ call' = [call EXCEPT ![e].pc = "sleep"]
    /\ UNCHANGED <<woken, word, popper, ext_unblock_scheduled>>

ExtBlockSync(e) ==
    /\ "sync" \in ExtKinds
    /\ NewCall(e)
    /\ SyncBlock(e)
    /\ UNCHANGED <<onDevVars, atomicVars, uaVars, cmdVars>>

(* The nested call, which may also fail to allocate a blocker.             *)
NestedBlock(e) ==
    /\ call[e].pc = "block"
    /\ SyncBlock(e)
    /\ UNCHANGED <<ext_ops, onDevVars, atomicVars, uaVars, cmdVars>>

NestedBlockFails(e) ==
    /\ call[e].pc = "block"
    /\ call' = [call EXCEPT ![e].pc = "poll"]
    /\ UNCHANGED <<gateVars, onDevVars, atomicVars, uaVars, extVars, woken, word, popper,
                   ext_ops, ext_unblock_scheduled, state, cmdVars>>

Poll(e) ==
    /\ call[e].pc = "poll"
    /\ ~ext_blocking_pending
    /\ call' = [call EXCEPT ![e].pc = "return"]
    /\ UNCHANGED <<gateVars, onDevVars, atomicVars, uaVars, extVars, woken, word, popper,
                   ext_ops, ext_unblock_scheduled, state, cmdVars>>

(* wait_event_locked(), woken up                                           *)
SleeperRuns(e) ==
    /\ call[e].pc = "sleep"
    /\ woken[e]
    /\ woken' = [woken EXCEPT ![e] = FALSE]
    /\ call' = [call EXCEPT ![e].pc = IF on_dev_cmd_count = 0 THEN BlockReturns(e) ELSE @]
    /\ UNCHANGED <<gateVars, onDevVars, atomicVars, uaVars, extVars, word, popper,
                   ext_ops, ext_unblock_scheduled, state, cmdVars>>

(* One round of __scst_ext_blocking_done(): under dev_lock take a blocker  *)
(* from the list L, then drop the lock and notify it.                      *)
PopFrom(p, L) ==
    \E b \in L :
        /\ ext_blockers_list' = L \ {b}
        /\ ext_blocking_pending' = (L # {b})
        /\ popper' = [popper EXCEPT ![p] = [stop |-> L = {b}, notify |-> b]]

(* May the caller of an asynchronous block notify by itself?               *)
NotifyItself == on_dev_cmd_count = 0 /\ ~ext_unblock_scheduled

(* Without "sync", that is via sysfs with a notification or for STPG.  An  *)
(* STPG blocks a device once, and is the only one there is (it is at the   *)
(* head of the global STPG list).                                          *)
ExtBlockAsync(e, stpg) ==
    /\ (IF stpg THEN "stpg" ELSE "async") \in ExtKinds
    /\ NewCall(e)
    /\ stpg => ~stpg_ext_blocked /\ \A f \in Callers : ~call[f].stpg
    /\ [who |-> e, sync |-> FALSE] \notin ext_blockers_list
    /\ TakeExtBlock(stpg)
    /\ LET b == [who |-> e, sync |-> FALSE]
       IN IF NotifyItself
          THEN /\ PopFrom(e, ext_blockers_list \cup {b})
               /\ call' = [call EXCEPT ![e].pc = "notify"]
          ELSE AddBlocker(b) /\ UNCHANGED <<popper, call>>
    /\ UNCHANGED <<woken, word, ext_unblock_scheduled, onDevVars, atomicVars, uaVars, cmdVars>>

(* ext_blocker_done_fn(), out of dev_lock                                  *)
NotifyNoWake(p) ==                              \* mutant: wake_up_all() forgotten
    /\ popper[p].notify # NoBlocker
    /\ popper' = [popper EXCEPT ![p].notify = NoBlocker]
    /\ UNCHANGED <<gateVars, onDevVars, atomicVars, uaVars, extVars, call, word, ext_ops,
                   woken, ext_unblock_scheduled, state, cmdVars>>
Notify(p) ==
    /\ popper[p].notify # NoBlocker
    /\ woken' = IF popper[p].notify.sync THEN [woken EXCEPT ![popper[p].notify.who] = TRUE]
                                         ELSE woken
    /\ popper' = [popper EXCEPT ![p].notify = NoBlocker]
    /\ UNCHANGED <<gateVars, onDevVars, atomicVars, uaVars, extVars, call, word, ext_ops,
                   ext_unblock_scheduled, state, cmdVars>>

(* The caller of an asynchronous block goes on or returns.                 *)
NotifierRuns(e) ==
    /\ call[e].pc = "notify"
    /\ popper[e].notify = NoBlocker
    /\ IF popper[e].stop
       THEN /\ call' = [call EXCEPT ![e].pc = "idle"]
            /\ UNCHANGED <<ext_blockers_list, ext_blocking_pending, popper>>
       ELSE PopFrom(e, ext_blockers_list) /\ UNCHANGED call
    /\ UNCHANGED <<gateVars, onDevVars, atomicVars, uaVars, ext_blocks_cnt, stpg_ext_blocked,
                   woken, word, ext_ops, ext_unblock_scheduled, state, cmdVars>>

(* scst_ext_blocking_done_fn(), up to where it drops dev_lock              *)
scst_ext_blocking_done_fn ==
    /\ ext_unblock_scheduled
    /\ popper[Work].notify = NoBlocker
    /\ IF ext_blockers_list = {} /\ popper[Work].stop
       THEN /\ ext_unblock_scheduled' = FALSE
            /\ UNCHANGED <<ext_blockers_list, ext_blocking_pending, popper>>
       ELSE PopFrom(Work, ext_blockers_list) /\ UNCHANGED ext_unblock_scheduled
    /\ UNCHANGED <<gateVars, onDevVars, atomicVars, uaVars, ext_blocks_cnt, stpg_ext_blocked,
                   call, woken, word, ext_ops, state, cmdVars>>

(* scst_ext_unblock_dev() up to the end or to the nested call              *)
NothingToUnblockNoStpg(stpg) == ext_blocks_cnt = 0      \* mutant: STPG not checked
NothingToUnblock(stpg) ==
    \/ ext_blocks_cnt = 0
    \/ ext_blocks_cnt = 1 /\ stpg_ext_blocked /\ ~stpg

UnblockExt(e, stpg) ==
    \/ /\ NothingToUnblock(stpg)
       /\ call' = [call EXCEPT ![e].pc = UnblockReturns(e, stpg, call[e].frames),
                                ![e].stpg = stpg]
       /\ UNCHANGED <<ext_blocks_cnt, block_count, blocked_cmd_list, state>>
    \/ /\ ~NothingToUnblock(stpg)
       /\ ext_blocks_cnt' = ext_blocks_cnt - 1
       /\ IF ext_blocks_cnt = 1 /\ ext_blocking_pending
          THEN /\ call[e].frames < MaxDepth
               /\ call' = [call EXCEPT ![e] = [pc |-> "block", stpg |-> stpg,
                                              frames |-> @.frames + 1]]
               /\ UNCHANGED <<block_count, blocked_cmd_list, state>>
          ELSE /\ scst_unblock_dev
               /\ call' = [call EXCEPT ![e].pc = UnblockReturns(e, stpg, call[e].frames),
                                ![e].stpg = stpg]

ExtUnblock(e, stpg) ==
    /\ NewCall(e)
    /\ stpg => stpg_ext_blocked /\ \A f \in Callers : ~call[f].stpg
    /\ UnblockExt(e, stpg)
    /\ UNCHANGED <<strictly_serialized_cmd_waiting, onDevVars, atomicVars, uaVars, stpg_ext_blocked,
                   ext_blockers_list, ext_blocking_pending, woken, word, popper,
                   ext_unblock_scheduled, cmdVars>>

NestedUnblock(e) ==
    /\ call[e].pc = "unblock"
    /\ UnblockExt(e, call[e].stpg)
    /\ UNCHANGED <<strictly_serialized_cmd_waiting, onDevVars, atomicVars, uaVars, stpg_ext_blocked,
                   ext_blockers_list, ext_blocking_pending, woken, word, popper, ext_ops,
                   ext_unblock_scheduled, cmdVars>>

(* The end of a scst_ext_unblock_dev() that made a nested call             *)
FrameReturns(e) ==
    /\ call[e].pc = "return"
    /\ scst_unblock_dev
    /\ call' = [call EXCEPT ![e].pc = UnblockReturns(e, call[e].stpg, call[e].frames - 1),
                            ![e].frames = @ - 1]
    /\ UNCHANGED <<strictly_serialized_cmd_waiting, onDevVars, atomicVars, uaVars, extVars,
                   woken, word, popper, ext_ops, ext_unblock_scheduled, cmdVars>>

(* scst_event_stpg_notify_fn() and __scst_dg_dev_remove() then clear       *)
(* stpg_ext_blocked without dev_lock: a load of the word that holds the    *)
(* device's flags and a store of it.                                       *)
DeviceFlags == [waiting |-> strictly_serialized_cmd_waiting, ua |-> dev_double_ua_possible,
                pending |-> ext_blocking_pending, scheduled |-> ext_unblock_scheduled]

LoadWord(e) ==
    /\ call[e].pc = "clear"
    /\ word' = [word EXCEPT ![e] = DeviceFlags]
    /\ call' = [call EXCEPT ![e].pc = "write"]
    /\ UNCHANGED <<gateVars, onDevVars, atomicVars, uaVars, extVars, woken, popper, ext_ops,
                   ext_unblock_scheduled, state, cmdVars>>

StoreWord(e) ==
    /\ call[e].pc = "write"
    /\ LET w == IF TornWord THEN word[e] ELSE DeviceFlags
       IN /\ strictly_serialized_cmd_waiting' = w.waiting
          /\ dev_double_ua_possible' = w.ua
          /\ ext_blocking_pending' = w.pending
          /\ ext_unblock_scheduled' = w.scheduled
    /\ stpg_ext_blocked' = FALSE
    /\ word' = [word EXCEPT ![e] = NoWord]
    /\ call' = [call EXCEPT ![e].pc = "idle", ![e].stpg = FALSE]
    /\ UNCHANGED <<block_count, blocked_cmd_list, onDevVars, atomicVars, double_ua_possible,
                   ext_blocks_cnt, ext_blockers_list, woken, popper, ext_ops, state, cmdVars>>

-----------------------------------------------------------------------------
Gate(c) ==
    \/ DelayOverlap(c) \/ PassFree(c) \/ PassSerialized(c) \/ PassStrict(c)
    \/ DelayStrict(c) \/ DelayBlocked(c)
Process(c) == Gate(c) \/ LocalEvents(c) \/ Completed(c) \/ DevDone(c)
TmStep(t) == scst_unblock_aborted_cmds(t) \/ TmDone(t)
CallStep(e) ==
    \/ NestedBlock(e) \/ NestedBlockFails(e) \/ Poll(e) \/ SleeperRuns(e) \/ Notify(e)
    \/ NotifierRuns(e) \/ NestedUnblock(e) \/ FrameReturns(e) \/ LoadWord(e) \/ StoreWord(e)
WorkStep == scst_ext_blocking_done_fn \/ Notify(Work)

Next ==
    \/ \E c \in Cmds : Arrive(c) \/ FailAlua(c) \/ Process(c)
    \/ \E t \in Tms : Reset(t) \/ TmStep(t) \/ \E c \in Cmds : AbortTask(t, c)
    \/ \E e \in Callers :
          \/ ExtBlockSync(e) \/ CallStep(e)
          \/ \E stpg \in BOOLEAN : ExtBlockAsync(e, stpg) \/ ExtUnblock(e, stpg)
    \/ WorkStep

Spec == Init /\ [][Next]_vars
Fairness ==
    /\ \A c \in Cmds : WF_vars(Process(c))
    /\ \A t \in Tms : WF_vars(TmStep(t))
    /\ \A e \in Callers : WF_vars(CallStep(e))
    /\ WF_vars(WorkStep)

-----------------------------------------------------------------------------
(* Every block is owned: block_count is the number of commands that will   *)
(* unblock the device when done, of resets in progress, of external blocks *)
(* and of scst_ext_unblock_dev() calls that have yet to unblock, plus one  *)
(* for a waiting strictly serialized command.  So no call of               *)
(* scst_unblock_dev() finds block_count at 0 (its sBUG_ON), and the device *)
(* is never left blocked by nobody.                                        *)
Unblockers == {c \in Cmds : unblock_dev[c]}
Resets == {t \in Tms : tm[t].needs_unblocking}
Frames == {f \in Callers \X (1..MaxDepth) : f[2] <= call[f[1]].frames}
Waiting == IF strictly_serialized_cmd_waiting THEN 1 ELSE 0
BlockCountExact ==
    block_count = Cardinality(Unblockers) + Cardinality(Resets) + ext_blocks_cnt
                  + Cardinality(Frames) + Waiting

(* on_dev_cmd_count counts the commands between the two ends of the gate,  *)
(* so "== 0" (strictly serialized and external blockers wait for it) means *)
(* that no command is executing.                                           *)
OnDev == {c \in Cmds : dec_on_dev_needed[c]}
OnDevExact ==
    /\ on_dev_cmd_count = Cardinality(OnDev)
    /\ \A c \in Cmds : state[c] \in {"passed", "exec", "skip"} => dec_on_dev_needed[c]

(* A strictly serialized command executes alone on its device.             *)
StrictAlone ==
    \A s, c \in Cmds :
        s # c /\ op[s].strict /\ state[s] = "exec" => state[c] # "exec"

(* Two serialized commands never execute together.                         *)
SerializedOneByOne ==
    \A s, c \in Cmds :
        s # c /\ op[s].serialized /\ op[c].serialized => ~(state[s] = "exec" /\ state[c] = "exec")

(* A SCSI atomic command (COMPARE AND WRITE, RESERVE) never executes       *)
(* together with a command it overlaps.                                    *)
AtomicExclusive ==
    \A s, c \in Cmds :
        s # c /\ state[s] = "exec" /\ state[c] = "exec" => ~scst_cmd_overlap(s, c)

(* No two commands wait for each other in the atomicity check.             *)
NoMutualWait ==
    \A c, d \in Cmds :
        ~(c \in scsi_atomic_blocked_cmds[d] /\ d \in scsi_atomic_blocked_cmds[c])

(* Blockers on the list are taken care of: by a command still on the       *)
(* device, which sees ext_blocking_pending, or by the work.  Nobody takes  *)
(* a blocker from an empty list, and two threads never take them at the    *)
(* same time.                                                              *)
BlockersServed ==
    /\ ext_blocking_pending = (ext_blockers_list # {})
    /\ ext_blockers_list # {} => on_dev_cmd_count # 0 \/ ext_unblock_scheduled
    /\ \A p \in Poppers : ~popper[p].stop => ext_blockers_list # {}

(* A blocked device is idle: when the attribute "block" reads as blocked   *)
(* and not pending, no command is being executed or about to be.           *)
Frozen ==
    ext_blocks_cnt > 0 /\ ~ext_blocking_pending =>
        \A c \in Cmds : state[c] # "exec" /\ (state[c] = "passed" => aborted[c])

(* A caller asleep in scst_ext_block_dev() has somebody to wake it up.     *)
SleeperHasWaker ==
    \A e \in Callers : call[e].pc = "sleep" =>
        LET b == [who |-> e, sync |-> TRUE]
        IN b \in ext_blockers_list \/ woken[e] \/ \E p \in Poppers : popper[p].notify = b

(* The external block of an STPG in progress cannot be taken away from it  *)
(* by too many unblock calls from user space.                              *)
StpgBlockKept ==
    stpg_ext_blocked /\ (\A e \in Callers : ~call[e].stpg) => ext_blocks_cnt > 0

(* Every command leaves the device in the end, unless the device is        *)
(* blocked from outside, and a command that such a block has delayed goes  *)
(* on once the device is unblocked: whoever blocks the device, for a       *)
(* serialized command, a reset or an external caller, unblocks it again    *)
(* and restarts all that waits.                                            *)
EveryCmdEnds ==
    \A c \in Cmds : state[c] # "none" ~> state[c] = "gone" \/ ext_blocks_cnt > 0
=============================================================================
