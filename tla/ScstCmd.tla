------------------------------- MODULE ScstCmd -------------------------------
(***************************************************************************)
(* The way of a command through SCST: scst_process_active_cmd() and the    *)
(* stages it calls, the callbacks of the target driver and of the device   *)
(* handler, the processing threads with their two lists, the tasklet, the  *)
(* list of commands to retry with its timer, and the work that watches the *)
(* commands the hardware keeps.                                            *)
(*                                                                         *)
(* One stage is one step.  Where a stage calls the driver or the handler,  *)
(* the answer may come in any context and before the call has returned.    *)
(* Who waits for whom in the task set is the subject of ScstOrder and      *)
(* ScstBlocking: here a command may be held back where those modules hold  *)
(* it, and is released in the end.                                         *)
(***************************************************************************)
EXTENDS Integers, Sequences, FiniteSets, SequencesExt

CONSTANTS
    Cmds,         \* commands
    Threads,      \* the threads of one struct scst_cmd_threads
    NoThread,     \* a NULL cmd_thr, a command nobody processes
    Loads,        \* target template, device handler and faults, see Load
    SlowStart,    \* commands scst_check_retries() moves in one call
    MaxTasklet,   \* scst_max_tasklet_cmd
    MaxCmds,      \* max_tgt_dev_commands
    MaxTime,      \* max_hw_pending_time
    RetryRace,    \* may a double UA be found before the thread that started
                  \* the command has returned from exec()?
    TimeoutRace,  \* may the driver answer between the unlock of the session
                  \* list and on_hw_pending_cmd_timeout()?
    AluaLoop,     \* may ALUA refuse or delay a command that scst_post_exec_sn()
                  \* returned?
    RestartFailed \* may the driver restart a failed command with SUCCESS?

Contexts == {"DIRECT", "DIRECT_ATOMIC", "TASKLET", "THREAD", "SAME"}
(* Who may be inside scst_process_active_cmd(): a thread, the tasklet, or  *)
(* the caller of one of the functions that take a context.                 *)
Runners == Threads \cup ({"tasklet", "init", "rx", "dev", "fin"} \X Cmds)

(* The driver; the handler in exec(), or in parse() or dev_alloc_data_buf()*)
(* where it answered STOP; the deferred list, the blocked list or the ALUA *)
(* work; a REQUEST SENSE on its behalf.                                    *)
Holders == {"driver", "handler", "parse", "alloc", "deferred", "blocked", "sense"}

(* The commands and threads there are, and the HEAD OF QUEUE commands; the *)
(* target template: are there preprocessing_done(), with the SN set when   *)
(* the command is restarted, rdy_to_xfer() and on_hw_pending_cmd_timeout();*)
(* which callbacks run in atomic context; the contexts that are asked for; *)
(* the device: double UAs, inc_expected_sn_on_done; how often the driver   *)
(* is out of resources; are commands aborted, failed, and where are they   *)
(* held back; the WRITEs, and the MODE SELECTs.                            *)
Load == [cmds : SUBSET Cmds, threads : SUBSET Threads, hq : SUBSET Cmds,
         preproc : BOOLEAN, sn_on_restart : BOOLEAN, rdy : BOOLEAN, hw : BOOLEAN,
         atomic : SUBSET {"parse", "rdy_to_xfer", "dev_done", "xmit_response"},
         ctxs : SUBSET Contexts, double_ua : BOOLEAN, on_done : BOOLEAN,
         fulls : Nat, aborts : BOOLEAN, fails : BOOLEAN, holds : SUBSET Holders,
         writes : SUBSET Cmds, selects : SUBSET Cmds]

ASSUME CmdAssumption ==
    /\ IsFiniteSet(Cmds) /\ IsFiniteSet(Threads) /\ NoThread \notin Runners
    /\ Loads \subseteq Load
    /\ SlowStart \in Nat \ {0} /\ MaxTasklet \in Nat /\ MaxCmds \in Nat
    /\ MaxTime \in Nat \ {0}
    /\ {RetryRace, TimeoutRace, AluaLoop, RestartFailed} \subseteq BOOLEAN

VARIABLES
    load,
    cmd,       \* struct scst_cmd
    by,        \* who runs scst_process_active_cmd() for it
    callers,   \* who is inside exec() for it, and holds a reference
    out,       \* who holds it outside of SCST's lists, see Holders
    active, own, tasklet,     \* active_cmd_list, thr_active_cmd_list, tasklet_cmd_list
    retry, timer,             \* retry_cmd_list, retry_timer
    thr,       \* the loop of scst_cmd_thread()
    sess,      \* sess_cmd_list
    hw,        \* hw_pending_work
    tgt_dev_cmd_count,
    fulls      \* SCST_TGT_RES_QUEUE_FULL answers left

queues == <<active, own, tasklet, retry, timer, thr>>
vars == <<load, cmd, by, callers, out, queues, sess, hw, tgt_dev_cmd_count, fulls>>

(* SCST_CMD_STATE_*; the ones scst_process_active_cmd() has a case for.    *)
Active == {"PARSE", "PREPARE_SPACE", "PREPROCESSING_DONE", "RDY_TO_XFER",
           "TGT_PRE_EXEC", "EXEC_CHECK_SN", "EXEC_CHECK_BLOCKING", "LOCAL_EXEC",
           "REAL_EXEC", "PRE_DEV_DONE", "MODE_SELECT_CHECKS", "DEV_DONE",
           "PRE_XMIT_RESP1", "XMIT_RESP", "FINISHED"}
Waiting == {"INIT_WAIT", "PREPROCESSING_DONE_CALLED", "DATA_WAIT", "XMIT_WAIT"}
States == Active \cup Waiting \cup {"EXEC_WAIT", "PRE_XMIT_RESP", "FREED"}
ExecStates == {"TGT_PRE_EXEC", "EXEC_CHECK_SN", "EXEC_CHECK_BLOCKING",
               "LOCAL_EXEC", "REAL_EXEC"}

(* been: where it was held back, whether ALUA has let it pass, whether its *)
(* REQUEST SENSE was sent again.                                           *)
Cmd == [state : States, atomic : BOOLEAN, cmd_thr : Threads \cup {NoThread},
        write : BOOLEAN, tgt_dev : BOOLEAN, preprocessing_only : BOOLEAN,
        ref : 0 .. 3, aborted : BOOLEAN, no_resp : BOOLEAN, undelivered : BOOLEAN,
        status : {"good", "error", "no sense", "UA", "own UA"}, select : BOOLEAN,
        sn : {"unset", "set", "passed", "twice", "out"}, sent_for_exec : BOOLEAN,
        retry : BOOLEAN, finished : BOOLEAN, been : SUBSET (Holders \cup {"alua", "again"}),
        hw_pending : BOOLEAN, started : 0 .. MaxTime, pending : 0 .. 2 * MaxTime]

NewCmd == [state |-> "INIT_WAIT", atomic |-> FALSE, cmd_thr |-> NoThread,
           write |-> FALSE, tgt_dev |-> FALSE, preprocessing_only |-> FALSE,
           ref |-> 1, aborted |-> FALSE, no_resp |-> FALSE, undelivered |-> FALSE,
           status |-> "good", select |-> FALSE, sn |-> "unset",
           sent_for_exec |-> FALSE, retry |-> FALSE, finished |-> FALSE, been |-> {},
           hw_pending |-> FALSE, started |-> 0, pending |-> 0]

ThreadPcs == {"test", "pool", "own2", "own1", "sleep"}

TypeOK ==
    /\ load \in Loads
    /\ cmd \in [Cmds -> Cmd]
    /\ by \in [Cmds -> Runners \cup {NoThread}]
    /\ callers \in [Cmds -> SUBSET Runners]
    /\ out \in [Cmds -> SUBSET Holders]
    /\ active \in Seq(Cmds) /\ own \in [Threads -> Seq(Cmds)]
    /\ tasklet \in Seq(Cmds) /\ retry \in Seq(Cmds) /\ sess \in Seq(Cmds)
    /\ timer \in [active : BOOLEAN, pc : {"idle", "check", "rearm"}]
    /\ thr \in [Threads -> [pc : ThreadPcs, done : BOOLEAN]]
    /\ hw \in [scheduled : BOOLEAN, due : -1 .. MaxTime, pc : {"idle", "scan", "call"},
               cmd : Cmds \cup {NoThread}]
    /\ tgt_dev_cmd_count \in Int /\ fulls \in Nat

Init ==
    /\ load \in Loads
    /\ cmd = [c \in Cmds |-> NewCmd]
    /\ by = [c \in Cmds |-> NoThread]
    /\ callers = [c \in Cmds |-> {}]
    /\ out = [c \in Cmds |-> {"driver"}]
    /\ active = <<>> /\ own = [t \in Threads |-> <<>>] /\ tasklet = <<>>
    /\ retry = <<>> /\ timer = [active |-> FALSE, pc |-> "idle"]
    /\ thr = [t \in Threads |-> [pc |-> "sleep", done |-> FALSE]]
    /\ sess = <<>>
    /\ hw = [scheduled |-> FALSE, due |-> -1, pc |-> "idle", cmd |-> NoThread]
    /\ tgt_dev_cmd_count = 0 /\ fulls = load.fulls
-----------------------------------------------------------------------------
(* wake_up_process() of thread t, if there is one, and n times wake_up()   *)
(* of cmd_list_waitQ, each of which wakes a thread that is still asleep.   *)
Wakes(t, n) ==
    LET asleep == {u \in load.threads : thr[u].pc = "sleep"} \ {t}
        k == IF n < Cardinality(asleep) THEN n ELSE Cardinality(asleep)
    IN {[u \in Threads |-> IF u \in w \cup {t} /\ thr[u].pc = "sleep"
                           THEN [thr[u] EXCEPT !.pc = "test"] ELSE thr[u]]
          : w \in {w \in SUBSET asleep : Cardinality(w) = k}}

\* Mutant: the limit is tested before the command is moved.
RetriedBefore == IF Len(retry) < SlowStart THEN Len(retry) ELSE SlowStart - 1

(* scst_check_retries(): the first commands go to the head of the active   *)
(* list, one by one.                                                       *)
Retried == IF Len(retry) < SlowStart THEN Len(retry) ELSE SlowStart
WithRetried == Reverse(SubSeq(retry, 1, Retried)) \o active

Set(c, r) == cmd' = [cmd EXCEPT ![c] = r]

(* SCST_CMD_STATE_RES_CONT_SAME: the loop goes on with the next stage.     *)
Same(c, r) == Set(c, r) /\ UNCHANGED <<by, out, queues>>

(* SCST_CMD_STATE_RES_CONT_NEXT: somebody else has the command, or nobody. *)
Leave(c, r, holders) ==
    /\ Set(c, r)
    /\ by' = [by EXCEPT ![c] = NoThread]
    /\ out' = [out EXCEPT ![c] = holders]
    /\ UNCHANGED queues

(* SCST_CMD_STATE_RES_NEED_THREAD: to the head of the active list.         *)
NeedThread(c, r) ==
    /\ Set(c, r)
    /\ by' = [by EXCEPT ![c] = NoThread]
    /\ active' = <<c>> \o active
    /\ thr' \in Wakes(NoThread, 1)
    /\ UNCHANGED <<out, own, tasklet, retry, timer>>

(* cpu_cmd_count: every command with a LUN, until it is freed.             *)
CpuCmdCount(c, r) == Cardinality({d \in Cmds \ {c} : cmd[d].tgt_dev})
                       + (IF r.tgt_dev THEN 1 ELSE 0)

Queued(list, c) == IF c \in load.hq THEN <<c>> \o list ELSE Append(list, c)

(* scst_process_redirect_cmd(), called by x: commands to retry first, then *)
(* c, with r as its new contents, goes where the context says: to x, to    *)
(* the tasklet unless it has enough to do, to its thread or to all.        *)
Redirect(c, r, context, x, check_retries) ==
    LET ctx == IF context # "SAME" THEN context
               ELSE IF r.atomic THEN "DIRECT_ATOMIC" ELSE "DIRECT"
        n == IF check_retries THEN Retried ELSE 0
        list == IF check_retries THEN WithRetried ELSE active
        direct == ctx \in {"DIRECT", "DIRECT_ATOMIC"}
        soft == ctx = "TASKLET" /\ CpuCmdCount(c, r) <= MaxTasklet
        full == ctx = "TASKLET" /\ ~soft
        mine == ctx = "THREAD" /\ r.cmd_thr # NoThread
        pool == ctx = "THREAD" /\ ~mine
    IN /\ Set(c, IF direct THEN [r EXCEPT !.atomic = (ctx = "DIRECT_ATOMIC")] ELSE r)
       /\ by' = [by EXCEPT ![c] = IF direct THEN x ELSE NoThread]
       /\ out' = [out EXCEPT ![c] = {}]
       /\ retry' = SubSeq(retry, n + 1, Len(retry))
       /\ active' = IF pool THEN Queued(list, c) ELSE IF full THEN Append(list, c) ELSE list
       /\ tasklet' = IF soft THEN Append(tasklet, c) ELSE tasklet
       /\ own' = IF mine THEN [own EXCEPT ![r.cmd_thr] = Queued(@, c)] ELSE own
       /\ thr' \in Wakes(IF mine THEN r.cmd_thr ELSE NoThread,
                         IF pool \/ full THEN n + 1 ELSE n)
       /\ UNCHANGED timer

(* scst_get_cmd_abnormal_done_state()                                      *)
AbnormalState(r) ==
    CASE r.state \in {"INIT_WAIT", "PARSE", "PREPARE_SPACE"} /\ r.preprocessing_only
           -> "PREPROCESSING_DONE"
      [] r.state \in {"INIT_WAIT", "PARSE", "DEV_DONE"} -> "PRE_XMIT_RESP1"
      [] r.state \in {"PRE_DEV_DONE", "MODE_SELECT_CHECKS"} -> "DEV_DONE"
      [] r.state = "PREPROCESSING_DONE_CALLED" /\ ~r.tgt_dev -> "PRE_XMIT_RESP1"
      [] OTHER -> "PRE_DEV_DONE"

(* scst_set_cmd_abnormal_done_state(), with or without an error set first. *)
Abnormal(r) == [r EXCEPT !.state = AbnormalState(r)]
Failed(r) == [Abnormal(r) EXCEPT !.status = "error"]
(* The driver's *_ERROR_FATAL: no response will be sent.                   *)
Fatal(r) == [Failed(r) EXCEPT !.aborted = TRUE, !.no_resp = TRUE, !.undelivered = TRUE]

(* A command is held back at most once at each place.                      *)
Hold(c, r, place) ==
    /\ place \in load.holds \ r.been
    /\ Leave(c, [r EXCEPT !.been = @ \cup {place}], {place})

Processed(c, s) == by[c] # NoThread /\ cmd[c].state = s
HeldByDriver(c, s) == "driver" \in out[c] /\ cmd[c].state = s
-----------------------------------------------------------------------------
(* The target driver: scst_cmd_init_done() of a command for a LUN that is  *)
(* there or not.  __scst_init_cmd() counts the command, refuses it when    *)
(* there are too many, and gives it an SN, also after a bad CDB.  Only a   *)
(* WRITE may go on in atomic context.                                      *)
InitAtomic == {"parse", "rdy_to_xfer"} \subseteq load.atomic /\ ~load.preproc
InitContext(r, ctx) ==
    IF ctx \in {"TASKLET", "DIRECT_ATOMIC"} /\ ~(r.write /\ InitAtomic) THEN "THREAD" ELSE ctx

Refused == tgt_dev_cmd_count >= MaxCmds

Initialised(c, lun, how) ==
    LET with_sn == IF load.sn_on_restart \/ c \in load.hq THEN lun ELSE [lun EXCEPT !.sn = "set"]
    IN IF Refused THEN Failed(lun)
       ELSE IF how = "bad cdb" THEN Failed(with_sn) ELSE with_sn

scst_cmd_init_done(c, how, ctx) ==
    LET r == [NewCmd EXCEPT !.preprocessing_only = load.preproc, !.write = (c \in load.writes),
                            !.select = (c \in load.selects)]
        lun == [r EXCEPT !.tgt_dev = TRUE, !.state = "PARSE"]
    IN /\ c \in load.cmds /\ HeldByDriver(c, "INIT_WAIT")
       /\ ctx # "SAME" /\ (load.preproc => ctx = "DIRECT")
       /\ how # "ok" => load.fails
       /\ IF how = "no lun"
          THEN Redirect(c, Failed(r), ctx, <<"init", c>>, FALSE) /\ UNCHANGED tgt_dev_cmd_count
          ELSE /\ Redirect(c, Initialised(c, lun, how), InitContext(lun, ctx), <<"init", c>>, FALSE)
               /\ tgt_dev_cmd_count' = tgt_dev_cmd_count + 1
       /\ sess' = Append(sess, c)
       /\ UNCHANGED <<load, callers, hw, fulls>>

(* scst_parse_cmd(): the handler may need a thread or stop, its answer may *)
(* fail the checks.  A buffer length of 0 turns a WRITE into a command     *)
(* without data; no command that skips the transfer goes on in atomic      *)
(* context.                                                                *)
Parse(c) == cmd[c].atomic => "parse" \in load.atomic
ParseNeedsThread(c) == cmd[c].atomic /\ NeedThread(c, cmd[c])
ParseFails(c) == load.fails /\ Same(c, Failed(cmd[c]))

AfterParse(c, write) ==
    LET r == [cmd[c] EXCEPT !.state = "PREPARE_SPACE", !.write = write]
    IN IF r.atomic /\ ~r.write THEN NeedThread(c, r) ELSE Same(c, r)

scst_parse_cmd(c) ==
    /\ Processed(c, "PARSE")
    /\ \/ ParseNeedsThread(c)
       \/ Parse(c) /\ Hold(c, cmd[c], "parse")
       \/ Parse(c) /\ ParseFails(c)
       \/ Parse(c) /\ \E write \in {cmd[c].write, FALSE} : AfterParse(c, write)
    /\ UNCHANGED <<load, callers, sess, hw, tgt_dev_cmd_count, fulls>>

(* scst_prepare_space(): out of memory in atomic context is tried again in *)
(* a thread, where it means BUSY.                                          *)
AfterSpace(r) == [r EXCEPT !.state = IF r.preprocessing_only THEN "PREPROCESSING_DONE"
                                     ELSE IF r.write THEN "RDY_TO_XFER" ELSE "TGT_PRE_EXEC"]

scst_prepare_space(c) ==
    LET r == cmd[c] IN
    /\ Processed(c, "PREPARE_SPACE")
    /\ \/ r.atomic /\ NeedThread(c, r)
       \/ Hold(c, r, "alloc")
       \/ load.fails /\ ~r.atomic /\ Same(c, Failed(r))
       \/ Same(c, AfterSpace(r))
    /\ UNCHANGED <<load, callers, sess, hw, tgt_dev_cmd_count, fulls>>

(* scst_preprocessing_done(): the driver takes over until it calls         *)
(* scst_restart_cmd().                                                     *)
scst_preprocessing_done(c) ==
    /\ Processed(c, "PREPROCESSING_DONE")
    /\ Leave(c, [cmd[c] EXCEPT !.state = "PREPROCESSING_DONE_CALLED",
                               !.preprocessing_only = FALSE], {"driver"})
    /\ UNCHANGED <<load, callers, sess, hw, tgt_dev_cmd_count, fulls>>

(* No stage of execution in atomic context, whatever the driver asks for.  *)
ThreadForExec(r, ctx) ==
    IF ctx \in {"TASKLET", "DIRECT_ATOMIC"} \/ (ctx = "SAME" /\ r.atomic) THEN "THREAD" ELSE ctx

scst_restart_cmd(c, status, ctx) ==
    LET r == cmd[c]
        go == [r EXCEPT !.state = IF r.write THEN "RDY_TO_XFER" ELSE "TGT_PRE_EXEC",
                        !.sn = IF load.sn_on_restart /\ c \notin load.hq THEN "set" ELSE @]
        no_lun == [r EXCEPT !.state = "PRE_XMIT_RESP"]
    IN /\ HeldByDriver(c, "PREPROCESSING_DONE_CALLED")
       /\ CASE status = "SUCCESS" ->
                 /\ r.status = "good" \/ RestartFailed
                 /\ IF r.tgt_dev THEN Redirect(c, go, ThreadForExec(r, ctx), <<"rx", c>>, TRUE)
                    ELSE Redirect(c, no_lun, "THREAD", <<"rx", c>>, TRUE)
            [] status = "ERROR" ->
                 /\ r.status # "good" \/ load.fails
                 /\ Redirect(c, Failed(r), "THREAD", <<"rx", c>>, TRUE)
            [] status = "ERROR_FATAL" ->
                 /\ load.fails
                 /\ Redirect(c, Fatal(r), "THREAD", <<"rx", c>>, TRUE)
       /\ UNCHANGED <<load, callers, sess, hw, tgt_dev_cmd_count, fulls>>
-----------------------------------------------------------------------------
(* The driver is called with the command in state wait.  The work that     *)
(* watches the session is scheduled if it is not.  When the driver is out  *)
(* of resources, or needs a thread, the command is back in its old state.  *)
Watch == hw' = IF load.hw /\ ~hw.scheduled
               THEN [hw EXCEPT !.scheduled = TRUE, !.due = IF @ = -1 THEN MaxTime ELSE @]
               ELSE hw

(* scst_queue_retry_cmd() arms retry_timer.                                *)
scst_queue_retry_cmd(c, r) ==
    /\ Set(c, r)
    /\ by' = [by EXCEPT ![c] = NoThread]
    /\ retry' = Append(retry, c)
    /\ timer' = [timer EXCEPT !.active = TRUE]
    /\ UNCHANGED <<out, active, own, tasklet, thr>>

Restored(r, wait) == r

CallDriver(c, wait, failed) ==
    LET r == cmd[c] IN
    /\ Watch
    /\ \/ /\ Leave(c, [r EXCEPT !.state = wait, !.hw_pending = load.hw, !.pending = 0], {"driver"})
          /\ UNCHANGED fulls
       \/ /\ fulls > 0 /\ fulls' = fulls - 1
          /\ scst_queue_retry_cmd(c, Restored(r, wait))
       \/ r.atomic /\ NeedThread(c, Restored(r, wait)) /\ UNCHANGED fulls
       \/ load.fails /\ Same(c, failed) /\ UNCHANGED fulls

scst_rdy_to_xfer(c) ==
    LET r == cmd[c]
        go == [r EXCEPT !.state = "TGT_PRE_EXEC"]
    IN /\ Processed(c, "RDY_TO_XFER")
       /\ IF r.aborted THEN Same(c, Abnormal(r)) /\ UNCHANGED <<hw, fulls>>
          ELSE IF ~load.rdy
          THEN (IF r.atomic THEN NeedThread(c, go) ELSE Same(c, go)) /\ UNCHANGED <<hw, fulls>>
          ELSE IF r.atomic /\ "rdy_to_xfer" \notin load.atomic
          THEN NeedThread(c, r) /\ UNCHANGED <<hw, fulls>>
          ELSE CallDriver(c, "DATA_WAIT", Failed(r))
       /\ UNCHANGED <<load, callers, sess, tgt_dev_cmd_count>>

(* While the work is between the unlock and on_hw_pending_cmd_timeout() of *)
(* a command, the driver answers it only if TimeoutRace.                   *)
MayAnswer(c) == hw.cmd # c \/ TimeoutRace

RxData(c, status, ctx) ==
    LET r == [cmd[c] EXCEPT !.hw_pending = FALSE, !.pending = 0] IN
    CASE status = "SUCCESS" -> Redirect(c, [r EXCEPT !.state = "TGT_PRE_EXEC"],
                                        ThreadForExec(r, ctx), <<"rx", c>>, TRUE)
      [] status = "ERROR" -> Redirect(c, Failed(r), "THREAD", <<"rx", c>>, TRUE)
      [] status = "ERROR_FATAL" -> Redirect(c, Fatal(r), "THREAD", <<"rx", c>>, TRUE)

scst_rx_data(c, status, ctx) ==
    /\ HeldByDriver(c, "DATA_WAIT") /\ MayAnswer(c)
    /\ status # "SUCCESS" => load.fails
    /\ RxData(c, status, ctx)
    /\ UNCHANGED <<load, callers, sess, hw, tgt_dev_cmd_count, fulls>>

(* scst_tgt_pre_exec()                                                     *)
scst_tgt_pre_exec(c) ==
    /\ Processed(c, "TGT_PRE_EXEC")
    /\ \/ Same(c, [cmd[c] EXCEPT !.state = "EXEC_CHECK_SN"])
       \/ load.fails /\ Same(c, Failed(cmd[c]))
       \/ load.fails /\ Same(c, Fatal(cmd[c]))
    /\ UNCHANGED <<load, callers, sess, hw, tgt_dev_cmd_count, fulls>>

(* scst_exec_check_sn(): a command that is not next in its task set is     *)
(* deferred, an aborted one leaves.                                        *)
scst_exec_check_sn(c) ==
    LET r == cmd[c] IN
    /\ Processed(c, "EXEC_CHECK_SN")
    /\ IF r.aborted /\ c \notin load.hq THEN Same(c, Abnormal(r))
       ELSE \/ c \notin load.hq /\ Hold(c, r, "deferred")
            \/ Same(c, [r EXCEPT !.state = "EXEC_CHECK_BLOCKING"])
    /\ UNCHANGED <<load, callers, sess, hw, tgt_dev_cmd_count, fulls>>

(* Execution, under a reference: the command is done before the caller     *)
(* goes on, by the checks before execution, in SCST or in the handler, or  *)
(* the handler keeps it.                                                   *)
\* Mutant: no reference for the time of the execution.
CmdGetNot(r) == r
CmdGet(r) == [r EXCEPT !.ref = @ + 1]

LocalDone(c, r) ==
    \E s \in IF r.aborted \/ ~load.fails THEN {r.status} ELSE {"good", "error", "own UA"} :
       Same(c, [r EXCEPT !.state = "PRE_DEV_DONE", !.status = s])

Exec(c, r) ==
    /\ callers' = [callers EXCEPT ![c] = @ \cup {by[c]}]
    /\ \/ LocalDone(c, CmdGet(r))
       \/ ~r.aborted /\ Leave(c, [CmdGet(r) EXCEPT !.state = "EXEC_WAIT"], {"handler"})

(* scst_exec_check_blocking(): ALUA refuses or delays the command, or the  *)
(* device is blocked, or the command is executed.                          *)
scst_exec_check_blocking(c) ==
    LET r == cmd[c] IN
    /\ Processed(c, "EXEC_CHECK_BLOCKING")
    /\ \/ load.fails /\ "alua" \notin r.been /\ Same(c, Failed(r)) /\ UNCHANGED callers
       \/ ~r.aborted /\ Hold(c, r, "blocked") /\ UNCHANGED callers
       \/ Exec(c, [r EXCEPT !.sent_for_exec = TRUE])
    /\ UNCHANGED <<load, sess, hw, tgt_dev_cmd_count, fulls>>

(* scst_local_exec() and scst_real_exec(), when a command is tried again:  *)
(* it was not a local one the first time.                                  *)
scst_local_exec(c) ==
    LET r == cmd[c] IN
    /\ Processed(c, "LOCAL_EXEC")
    /\ \/ (r.aborted \/ load.fails) /\ LocalDone(c, r)
       \/ ~r.aborted /\ Same(c, [r EXCEPT !.state = "REAL_EXEC"])
    /\ UNCHANGED <<load, callers, sess, hw, tgt_dev_cmd_count, fulls>>

scst_real_exec(c) ==
    LET r == cmd[c] IN
    /\ Processed(c, "REAL_EXEC")
    /\ IF r.aborted THEN LocalDone(c, r) /\ UNCHANGED callers ELSE Exec(c, r)
    /\ UNCHANGED <<load, sess, hw, tgt_dev_cmd_count, fulls>>

(* scst_cmd_done_local(), scst_pass_through_cmd_done(): the handler is     *)
(* done, in a context of its own.  A device reports a UA once.             *)
PostExecContext(r, ctx) ==
    IF /\ ctx \in {"TASKLET", "DIRECT_ATOMIC"} \/ (ctx = "SAME" /\ r.atomic)
       /\ ~({"dev_done", "xmit_response"} \subseteq load.atomic)
    THEN "THREAD" ELSE ctx

CmdDone(c, status, ctx) ==
    LET r == cmd[c] IN
    /\ "handler" \in out[c] /\ r.state = "EXEC_WAIT"
    /\ status \in {"error", "no sense"} => load.fails
    /\ status = "UA" => ~r.retry /\ (load.fails \/ load.double_ua)
    /\ Redirect(c, [r EXCEPT !.state = "PRE_DEV_DONE", !.status = status],
                PostExecContext(r, ctx), <<"dev", c>>, FALSE)
    /\ UNCHANGED <<load, callers, sess, hw, tgt_dev_cmd_count, fulls>>

(* x returns from the execution of c, and from everything it did for it:   *)
(* scst_post_exec_sn() passes the command's SN on, and may return a        *)
(* deferred command that x goes on with, once ALUA has let it pass.        *)
(* __scst_cmd_put() comes last.                                            *)
Passed(sn) == CASE sn = "set" -> "passed" [] sn = "passed" -> "twice" [] OTHER -> sn

Freed(r) == [NewCmd EXCEPT !.state = "FREED", !.ref = 0, !.finished = TRUE, !.sn = r.sn]
CmdPut(r) == IF r.ref = 1 THEN Freed(r) ELSE [r EXCEPT !.ref = @ - 1]

\* Mutant: a command that is executed again counts again.
PostExecPassesRetry(r) == ~load.on_done /\ r.sn # "unset"
PostExecPasses(r) == ~load.on_done /\ r.sn # "unset" /\ ~r.retry

ExecReturn(c, x) ==
    LET r == IF PostExecPasses(cmd[c]) THEN [cmd[c] EXCEPT !.sn = Passed(@)] ELSE cmd[c]
        found == {d \in Cmds : PostExecPasses(cmd[c]) /\ "deferred" \in out[d]}
        taken(d) == [cmd[d] EXCEPT !.state = "EXEC_CHECK_BLOCKING", !.been = @ \cup {"alua"}]
        not_ok(d, refused) == IF refused THEN Failed(taken(d)) ELSE taken(d)
    IN /\ x \in callers[c] /\ \A d \in Cmds : by[d] # x
       /\ callers' = [callers EXCEPT ![c] = @ \ {x}]
       /\ \/ Set(c, CmdPut(r)) /\ UNCHANGED <<by, out>>
          \/ \E d \in found :
                /\ cmd' = [cmd EXCEPT ![c] = CmdPut(r), ![d] = taken(d)]
                /\ by' = [by EXCEPT ![d] = x]
                /\ out' = [out EXCEPT ![d] = {}]
          \/ \E d \in found, refused \in BOOLEAN :
                /\ AluaLoop
                /\ cmd' = [cmd EXCEPT ![c] = r, ![d] = not_ok(d, refused)]
                /\ by' = IF refused THEN [by EXCEPT ![c] = x] ELSE by
                /\ out' = [out EXCEPT ![d] = IF refused THEN {} ELSE {"blocked"}]
       /\ UNCHANGED <<load, queues, sess, hw, tgt_dev_cmd_count, fulls>>
-----------------------------------------------------------------------------
(* scst_pre_dev_done(): a CHECK CONDITION without sense costs a REQUEST    *)
(* SENSE; scst_check_sense() has a command that met a double UA executed   *)
(* again, in a thread.                                                     *)
scst_check_auto_sense(r) == r.status = "no sense"

scst_check_sense(c) ==
    /\ cmd[c].status = "UA" /\ load.double_ua
    /\ callers[c] = {} \/ RetryRace
    /\ NeedThread(c, [cmd[c] EXCEPT !.state = "LOCAL_EXEC", !.status = "good", !.retry = TRUE])

scst_pre_dev_done(c) ==
    LET r == cmd[c]
        select == r.status \in {"UA", "own UA"} \/ (r.status = "good" /\ r.select)
    IN /\ Processed(c, "PRE_DEV_DONE")
       /\ IF scst_check_auto_sense(r) /\ ~r.aborted
          THEN \/ Leave(c, [r EXCEPT !.been = @ \cup {"sense"}], {"sense"})
               \/ load.fails /\ Same(c, [r EXCEPT !.status = "error"])
          ELSE \/ scst_check_sense(c)
               \/ select /\ Same(c, [r EXCEPT !.state = "MODE_SELECT_CHECKS"])
               \/ ~(r.status = "good" /\ select) /\ Same(c, [r EXCEPT !.state = "DEV_DONE"])
       /\ UNCHANGED <<load, callers, sess, hw, tgt_dev_cmd_count, fulls>>

(* scst_mode_select_checks() asks the device for its parameters.           *)
scst_mode_select_checks(c) ==
    LET r == cmd[c] IN
    /\ Processed(c, "MODE_SELECT_CHECKS")
    /\ IF r.atomic THEN NeedThread(c, r) ELSE Same(c, [r EXCEPT !.state = "DEV_DONE"])
    /\ UNCHANGED <<load, callers, sess, hw, tgt_dev_cmd_count, fulls>>

(* scst_dev_done() passes the SN on where scst_post_exec_sn() does not.    *)
DoneSn(r) == IF load.on_done /\ r.sent_for_exec THEN Passed(r.sn) ELSE r.sn

scst_dev_done(c) ==
    LET r == cmd[c] IN
    /\ Processed(c, "DEV_DONE")
    /\ \/ r.atomic /\ NeedThread(c, r)
       \/ /\ r.atomic => "dev_done" \in load.atomic
          /\ Same(c, [r EXCEPT !.state = "PRE_XMIT_RESP1", !.sn = DoneSn(r)])
    /\ UNCHANGED <<load, callers, sess, hw, tgt_dev_cmd_count, fulls>>

(* scst_pre_xmit_response1() and 2(): the command no longer counts; if it  *)
(* was not sent for execution its SN is passed or put on the skipped list; *)
(* if it is aborted it may get no response.                                *)
SkippedSn(c, r) ==
    IF r.tgt_dev /\ c \notin load.hq /\ ~r.sent_for_exec /\ r.sn # "unset"
    THEN {Passed(r.sn), "out"} ELSE {r.sn}

scst_pre_xmit_response1(c) ==
    LET r == cmd[c] IN
    /\ Processed(c, "PRE_XMIT_RESP1")
    /\ tgt_dev_cmd_count' = IF r.tgt_dev THEN tgt_dev_cmd_count - 1 ELSE tgt_dev_cmd_count
    /\ \E sn \in SkippedSn(c, r), no_resp \in {r.no_resp, r.no_resp \/ r.aborted} :
          Same(c, [r EXCEPT !.state = IF no_resp THEN "FINISHED" ELSE "XMIT_RESP",
                            !.sn = sn, !.no_resp = no_resp])
    /\ UNCHANGED <<load, callers, sess, hw, fulls>>

scst_xmit_response(c) ==
    LET r == cmd[c] IN
    /\ Processed(c, "XMIT_RESP")
    /\ IF r.atomic /\ "xmit_response" \notin load.atomic
       THEN NeedThread(c, r) /\ UNCHANGED <<hw, fulls>>
       ELSE CallDriver(c, "XMIT_WAIT", [r EXCEPT !.state = "FINISHED", !.status = "error"])
    /\ UNCHANGED <<load, callers, sess, tgt_dev_cmd_count>>

(* scst_tgt_cmd_done(), by the driver                                      *)
TgtCmdDone(c, undelivered, ctx) ==
    LET r == [cmd[c] EXCEPT !.state = "FINISHED", !.hw_pending = FALSE, !.pending = 0,
                            !.undelivered = @ \/ undelivered]
    IN Redirect(c, r, IF r.tgt_dev THEN ctx ELSE "THREAD", <<"fin", c>>, TRUE)

scst_tgt_cmd_done(c, undelivered, ctx) ==
    /\ HeldByDriver(c, "XMIT_WAIT") /\ MayAnswer(c)
    /\ undelivered => load.fails
    /\ TgtCmdDone(c, undelivered, ctx)
    /\ UNCHANGED <<load, callers, sess, hw, tgt_dev_cmd_count, fulls>>

(* scst_finish_cmd(): a UA that did not arrive is queued again, which      *)
(* takes a thread if all sessions have to see it.                          *)
scst_finish_cmd(c) ==
    LET r == cmd[c] IN
    /\ Processed(c, "FINISHED")
    /\ \/ /\ r.undelivered /\ r.tgt_dev /\ r.status \in {"UA", "own UA"} /\ r.atomic
          /\ NeedThread(c, r)
          /\ UNCHANGED sess
       \/ /\ Leave(c, CmdPut([r EXCEPT !.finished = TRUE]), {})
          /\ sess' = SelectSeq(sess, LAMBDA d : d # c)
    /\ UNCHANGED <<load, callers, hw, tgt_dev_cmd_count, fulls>>
-----------------------------------------------------------------------------
(* What holds a command back lets it go: scst_process_active_cmd() called  *)
(* by the handler; __scst_check_deferred_commands_locked(); the unblocking *)
(* of the device, or the ALUA work, which puts it first; the end of the    *)
(* REQUEST SENSE: an error if it brings nothing, sent again if it was      *)
(* aborted for itself, which happens to a command once.                    *)
\* Mutant: nobody is woken up.
ToActiveNoWake(c, r, list) ==
    /\ Set(c, r)
    /\ out' = [out EXCEPT ![c] = {}]
    /\ active' = list
    /\ UNCHANGED <<by, own, tasklet, retry, timer, thr>>

ToActive(c, r, list) ==
    /\ Set(c, r)
    /\ out' = [out EXCEPT ![c] = {}]
    /\ active' = list
    /\ thr' \in Wakes(NoThread, 1)
    /\ UNCHANGED <<by, own, tasklet, retry, timer>>

HandlerGoesOn(c) ==
    out[c] \cap {"parse", "alloc"} # {} /\ Redirect(c, cmd[c], "DIRECT", <<"dev", c>>, FALSE)

ReleaseDeferred(c) == "deferred" \in out[c] /\ ToActive(c, cmd[c], Append(active, c))

Unblock(c) ==
    /\ "blocked" \in out[c]
    /\ \E list \in {Queued(active, c), <<c>> \o active} : ToActive(c, cmd[c], list)

RequestSenseDone(c) ==
    /\ "sense" \in out[c]
    /\ \/ \E s \in {"error", "UA"} : ToActive(c, [cmd[c] EXCEPT !.status = s], <<c>> \o active)
       \/ /\ load.aborts /\ ~cmd[c].aborted /\ "again" \notin cmd[c].been
          /\ ToActive(c, [cmd[c] EXCEPT !.been = @ \cup {"again"}], <<c>> \o active)

Released(c) ==
    /\ HandlerGoesOn(c) \/ ReleaseDeferred(c) \/ Unblock(c) \/ RequestSenseDone(c)
    /\ UNCHANGED <<load, callers, sess, hw, tgt_dev_cmd_count, fulls>>

(* scst_abort_cmd(), as far as the way of the command is concerned         *)
scst_abort_cmd(c) ==
    /\ load.aborts /\ c \in ToSet(sess) /\ ~cmd[c].aborted
    /\ Set(c, [cmd[c] EXCEPT !.aborted = TRUE])
    /\ UNCHANGED <<load, by, callers, out, queues, sess, hw, tgt_dev_cmd_count, fulls>>

(* retry_timer: scst_tgt_retry_timer_fn() marks the timer as inactive,     *)
(* moves commands, and arms the timer again if some are left.              *)
TimerFires ==
    /\ timer.active /\ timer.pc = "idle"
    /\ timer' = [active |-> FALSE, pc |-> "check"]
    /\ UNCHANGED <<active, retry, thr>>

scst_check_retries ==
    /\ timer.pc = "check"
    /\ active' = WithRetried
    /\ retry' = SubSeq(retry, Retried + 1, Len(retry))
    /\ thr' \in Wakes(NoThread, Retried)
    /\ timer' = [timer EXCEPT !.pc = "rearm"]

\* Mutant: the timer is not armed again.
TimerRearmsNot ==
    /\ timer.pc = "rearm"
    /\ timer' = [timer EXCEPT !.pc = "idle"]
    /\ UNCHANGED <<active, retry, thr>>

TimerRearms ==
    /\ timer.pc = "rearm"
    /\ timer' = [active |-> timer.active \/ retry # <<>>, pc |-> "idle"]
    /\ UNCHANGED <<active, retry, thr>>

RetryTimer ==
    /\ TimerFires \/ scst_check_retries \/ TimerRearms
    /\ UNCHANGED <<load, cmd, by, callers, out, own, tasklet, sess, hw, tgt_dev_cmd_count, fulls>>
-----------------------------------------------------------------------------
(* scst_cmd_thread(): one command of the common list for two of its own,   *)
(* until a round has found nothing.                                        *)
Take(t, c) ==
    /\ Set(c, [cmd[c] EXCEPT !.atomic = FALSE, !.cmd_thr = IF @ = NoThread THEN t ELSE @])
    /\ by' = [by EXCEPT ![c] = t]

Go(t, pc, done) == thr' = [thr EXCEPT ![t] = [pc |-> pc, done |-> done]]
RoundEnds(t, done) == IF done THEN Go(t, "pool", FALSE) ELSE Go(t, "test", FALSE)

ThreadTests(t) ==
    /\ thr[t].pc = "test"
    /\ Go(t, IF active = <<>> /\ own[t] = <<>> THEN "sleep" ELSE "pool", FALSE)
    /\ UNCHANGED <<cmd, by, active, own>>

ThreadTakesCommon(t) ==
    /\ thr[t].pc = "pool"
    /\ IF active = <<>> THEN Go(t, "own2", FALSE) /\ UNCHANGED <<cmd, by, active>>
       ELSE /\ Take(t, Head(active)) /\ active' = Tail(active)
            /\ Go(t, "own2", TRUE)
    /\ UNCHANGED own

ThreadTakesOwn(t) ==
    /\ thr[t].pc \in {"own2", "own1"}
    /\ IF own[t] = <<>> THEN RoundEnds(t, thr[t].done) /\ UNCHANGED <<cmd, by, own>>
       ELSE /\ Take(t, Head(own[t])) /\ own' = [own EXCEPT ![t] = Tail(@)]
            /\ IF thr[t].pc = "own2" THEN Go(t, "own1", TRUE) ELSE RoundEnds(t, TRUE)
    /\ UNCHANGED active

Busy(t) == \E c \in Cmds : by[c] = t \/ t \in callers[c]

scst_cmd_thread(t) ==
    /\ t \in load.threads /\ ~Busy(t)
    /\ ThreadTests(t) \/ ThreadTakesCommon(t) \/ ThreadTakesOwn(t)
    /\ UNCHANGED <<load, callers, out, tasklet, retry, timer, sess, hw, tgt_dev_cmd_count, fulls>>

(* scst_cmd_tasklet(), of one CPU                                          *)
scst_cmd_tasklet ==
    /\ tasklet # <<>> /\ \A c, d \in Cmds : by[c] # <<"tasklet", d>>
    /\ LET c == Head(tasklet)
       IN /\ Set(c, [cmd[c] EXCEPT !.atomic = TRUE])
          /\ by' = [by EXCEPT ![c] = <<"tasklet", c>>]
    /\ tasklet' = Tail(tasklet)
    /\ UNCHANGED <<load, callers, out, active, own, retry, timer, thr, sess, hw,
                   tgt_dev_cmd_count, fulls>>
-----------------------------------------------------------------------------
(* scst_hw_pending_work_fn(): looks for the first command of the session   *)
(* that has been with the hardware for too long, tells the driver, which   *)
(* ends it, and starts again.  Time stands still while the work runs.      *)
HwWorkStarts ==
    /\ hw.pc = "idle" /\ hw.due = 0
    /\ hw' = [hw EXCEPT !.scheduled = FALSE, !.due = -1, !.pc = "scan"]
    /\ UNCHANGED <<cmd, by, out, queues>>

(* scst_check_hw_pending_cmd(): the list is in the order of start times,   *)
(* so that the first young command ends the search.                        *)
Expired(i) ==
    /\ \A j \in 1 .. i : cmd[sess[j]].started >= MaxTime
    /\ cmd[sess[i]].hw_pending /\ cmd[sess[i]].pending >= MaxTime
ExpiredCmds == {i \in 1 .. Len(sess) : Expired(i)}

\* Mutant: the work is not scheduled again.
HwRescheduleNot == [hw EXCEPT !.pc = "idle"]
HwReschedule == IF sess = <<>> THEN [hw EXCEPT !.pc = "idle"]
                ELSE [hw EXCEPT !.pc = "idle", !.scheduled = TRUE,
                                !.due = IF @ = -1 THEN MaxTime ELSE @]

HwScan ==
    /\ hw.pc = "scan"
    /\ IF ExpiredCmds = {} THEN hw' = HwReschedule /\ UNCHANGED cmd
       ELSE LET c == sess[Min(ExpiredCmds)]
            IN /\ hw' = [hw EXCEPT !.pc = "call", !.cmd = c]
               /\ Set(c, [cmd[c] EXCEPT !.hw_pending = FALSE, !.pending = 0])
    /\ UNCHANGED <<by, out, queues>>

on_hw_pending_cmd_timeout ==
    /\ hw.pc = "call"
    /\ IF cmd[hw.cmd].state = "DATA_WAIT" THEN RxData(hw.cmd, "ERROR", "THREAD")
       ELSE TgtCmdDone(hw.cmd, TRUE, "THREAD")
    /\ hw' = [hw EXCEPT !.pc = "scan", !.cmd = NoThread]

HwWork ==
    /\ HwWorkStarts \/ HwScan \/ on_hw_pending_cmd_timeout
    /\ UNCHANGED <<load, callers, sess, tgt_dev_cmd_count, fulls>>

Tick ==
    /\ hw.pc = "idle" /\ hw.due # 0
    /\ hw.due > 0 \/ \E c \in Cmds : cmd[c].hw_pending
    /\ hw' = [hw EXCEPT !.due = IF @ > 0 THEN @ - 1 ELSE @]
    /\ LET older(age, max) == IF age < max THEN age + 1 ELSE age
       IN cmd' = [c \in Cmds |->
                   [cmd[c] EXCEPT
                      !.started = IF c \in ToSet(sess) THEN older(@, MaxTime) ELSE @,
                      !.pending = IF cmd[c].hw_pending THEN older(@, 2 * MaxTime) ELSE @]]
    /\ UNCHANGED <<load, by, callers, out, queues, sess, tgt_dev_cmd_count, fulls>>
-----------------------------------------------------------------------------
scst_process_active_cmd(c) ==
    \/ scst_parse_cmd(c) \/ scst_prepare_space(c) \/ scst_preprocessing_done(c)
    \/ scst_rdy_to_xfer(c) \/ scst_tgt_pre_exec(c) \/ scst_exec_check_sn(c)
    \/ scst_exec_check_blocking(c) \/ scst_local_exec(c) \/ scst_real_exec(c)
    \/ scst_pre_dev_done(c) \/ scst_mode_select_checks(c) \/ scst_dev_done(c)
    \/ scst_pre_xmit_response1(c) \/ scst_xmit_response(c) \/ scst_finish_cmd(c)

New(c) == \E how \in {"ok", "bad cdb", "no lun"}, ctx \in load.ctxs :
             scst_cmd_init_done(c, how, ctx)

Statuses == {"SUCCESS", "ERROR", "ERROR_FATAL"}
DriverAnswers(c) ==
    \E ctx \in load.ctxs :
       \/ \E status \in Statuses : scst_restart_cmd(c, status, ctx)
       \/ \E status \in Statuses : scst_rx_data(c, status, ctx)
       \/ \E undelivered \in BOOLEAN : scst_tgt_cmd_done(c, undelivered, ctx)

HandlerAnswers(c) ==
    \E ctx \in load.ctxs, status \in {"good", "error", "no sense", "UA"} : CmdDone(c, status, ctx)

Ended == \A c \in load.cmds : cmd[c].state = "FREED"

Next ==
    \/ \E c \in Cmds :
          \/ New(c) \/ DriverAnswers(c) \/ HandlerAnswers(c) \/ Released(c)
          \/ scst_process_active_cmd(c) \/ scst_abort_cmd(c)
          \/ \E x \in callers[c] : ExecReturn(c, x)
    \/ RetryTimer \/ HwWork \/ Tick \/ scst_cmd_tasklet
    \/ \E t \in Threads : scst_cmd_thread(t)
    \/ Ended /\ UNCHANGED vars

(* Threads, tasklets, timers and works are scheduled, the handler answers  *)
(* every command, what holds a command back lets it go.  A driver answers  *)
(* unless SCST watches it with on_hw_pending_cmd_timeout().                *)
Continues(c) ==
    \/ scst_process_active_cmd(c) \/ HandlerAnswers(c) \/ Released(c)
    \/ ~load.hw /\ DriverAnswers(c)
    \/ cmd[c].state = "PREPROCESSING_DONE_CALLED" /\ DriverAnswers(c)

Fairness ==
    /\ \A c \in Cmds : /\ WF_vars(Continues(c))
                       /\ WF_vars(\E x \in callers[c] : ExecReturn(c, x))
    /\ \A t \in Threads : WF_vars(scst_cmd_thread(t))
    /\ WF_vars(scst_cmd_tasklet) /\ WF_vars(RetryTimer) /\ WF_vars(HwWork) /\ WF_vars(Tick)

Spec == Init /\ [][Next]_vars /\ Fairness
-----------------------------------------------------------------------------
Occurrences(list, c) == Cardinality({i \in DOMAIN list : list[i] = c})
Queues(c) == Occurrences(active, c) + Occurrences(tasklet, c) + Occurrences(retry, c)
               + Cardinality({<<t, i>> \in Threads \X (1 .. Cardinality(Cmds)) :
                                i \in DOMAIN own[t] /\ own[t][i] = c})
Owners(c) == Queues(c) + Cardinality(out[c]) + (IF by[c] = NoThread THEN 0 ELSE 1)

(* The variables have their types, tgt_dev_cmd_count is the number of      *)
(* commands of the LUN that have not reached scst_pre_xmit_response1(),    *)
(* and the commands to retry have a timer that will look at them.          *)
CmdSound ==
    /\ TypeOK
    /\ tgt_dev_cmd_count = Cardinality({c \in Cmds : /\ cmd[c].tgt_dev /\ ~cmd[c].finished
                              /\ cmd[c].state \notin {"XMIT_RESP", "XMIT_WAIT", "FINISHED"}})
    /\ retry # <<>> => timer.active \/ timer.pc # "idle"

(* Until it is finished a command is in exactly one place: one of SCST's   *)
(* lists, one context inside scst_process_active_cmd(), the driver, the    *)
(* handler, or what holds it back.  Afterwards it is nowhere, and it is    *)
(* not freed while a caller of exec() still uses it.                       *)
OneOwner ==
    \A c \in Cmds : /\ Owners(c) = IF cmd[c].finished THEN 0 ELSE 1
                    /\ cmd[c].state = "FREED" => callers[c] = {}


(* The SN of a command is passed on exactly once, by scst_post_exec_sn(),  *)
(* scst_dev_done() or scst_unblock_deferred(), whatever way the command    *)
(* takes and however often it is executed: otherwise later commands of the *)
(* task set wait for ever, or overtake others.                             *)
SnOnce == \A c \in Cmds : cmd[c].sn # "twice" /\ (cmd[c].state = "FREED" => cmd[c].sn # "set")

(* A command is with the hardware for less than 2 * max_hw_pending_time,   *)
(* as the documentation of that field promises.                            *)
HwPendingInTime == \A c \in Cmds : cmd[c].hw_pending => cmd[c].pending < 2 * MaxTime

(* No command waits for a busy thread while another thread sleeps: while   *)
(* some thread sleeps, as many threads are awake and idle as commands are  *)
(* on the common list, and none sleeps with a command on its own list.     *)
EnoughAwake ==
    LET asleep == {t \in load.threads : thr[t].pc = "sleep"}
        idle == {t \in load.threads \ asleep : ~Busy(t)}
    IN /\ asleep # {} => Cardinality(idle) >= Len(active)
       /\ \A t \in asleep : own[t] = <<>>

(* Every command a driver has given to SCST is freed in the end, with or   *)
(* without errors, aborts, retries and hardware that does not answer.      *)
EveryCmdFreed == \A c \in Cmds : (cmd[c].state # "INIT_WAIT") ~> (cmd[c].state = "FREED")
=============================================================================
