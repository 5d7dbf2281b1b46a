---------------------------- MODULE ScstActivity ----------------------------
(***************************************************************************)
(* Global suspending of activity and the life of a session.  Commands and  *)
(* task management functions find their device (tgt_dev) without a lock;   *)
(* what protects them is a per-CPU count of references (scst_get,          *)
(* scst_put), and scst_suspend_activity(), which every change of the       *)
(* configuration calls first and which waits until the counters are zero.  *)
(* Commands that come meanwhile wait on scst_init_cmd_list, served by the  *)
(* init thread; task management functions on scst_delayed_mgmt_cmd_list.   *)
(* Before that, commands sent to a session that is still being registered  *)
(* wait on its init_deferred_cmd_list.                                     *)
(*                                                                         *)
(* One session with one LUN.  A section under a spinlock is one step; the  *)
(* counters are read one by one, as scst_get_cmd_counter() does.  What a   *)
(* command does between its initialisation and its end is one step, and a  *)
(* function aborts its commands in one step: ScstOrder, ScstBlocking and   *)
(* ScstTaskMgmt have the detail.                                           *)
(***************************************************************************)
EXTENDS Integers, Sequences, FiniteSets

CONSTANTS
    NCmds,        \* commands the target driver sends, in this order
    Mcmds,        \* task management functions sent to the session
    Unreg,        \* SCST_UNREG_SESS_TM of scst_unregister_session()
    Fns,          \* functions that are used, a subset of AllFns
    Managers,     \* threads that change the configuration
    Timed,        \* those that pass a timeout to scst_suspend_activity()
    MaxSuspends,  \* calls of scst_suspend_activity() in a behaviour
    NCpus,        \* entries of scst_percpu_infos
    CpusOf,       \* the CPUs on which a command or function may be worked on
    Loads,        \* what a behaviour starts with and may contain, see Load
    Preprocessing,\* may a command have preprocessing_only set?
    SendRace,     \* may the driver send a command while scst_init_session()
                  \* passes on the deferred ones?
    PrRace        \* may another session's PREEMPT AND ABORT find the session
                  \* when scst_unregister_session() has been called?

DriverFns == {"ABORT_TASK", "LUN_RESET", "TARGET_RESET", "NEXUS_LOSS_SESS"}
AllFns == DriverFns \cup {"PR_ABORT_ALL"}
LunFns == {"LUN_RESET", "PR_ABORT_ALL"}
Cmds == 1 .. NCmds
Cpus == 1 .. NCpus
AllMcmds == Mcmds \cup {Unreg}

(* At most so many commands, these functions, so many calls of             *)
(* scst_suspend_activity(), and the session's init_phase at the start.     *)
Load == [cmds : 0 .. NCmds, mcmds : SUBSET Mcmds, suspends : 0 .. MaxSuspends,
         phase : {"INITING", "READY"}]

ASSUME ActivityAssumption ==
    /\ NCmds \in Nat /\ NCpus \in Nat \ {0} /\ MaxSuspends \in Nat
    /\ Fns \subseteq AllFns
    /\ IsFiniteSet(Mcmds) /\ Unreg \notin Mcmds
    /\ IsFiniteSet(Managers)
    /\ AllMcmds \cap Cmds = {} /\ 0 \notin AllMcmds \cup Managers
    /\ CpusOf \in [Cmds \cup AllMcmds -> SUBSET Cpus]
    /\ Timed \subseteq Managers
    /\ Loads \subseteq Load
    /\ Preprocessing \in BOOLEAN /\ SendRace \in BOOLEAN /\ PrRace \in BOOLEAN

None == 0
VARIABLES
    \* scst_main.c: scst_flags, suspend_count, the owner of scst_suspend_mutex,
    \* scst_percpu_infos[].cpu_cmd_count, a wake-up of scst_dev_cmd_waitQ
    suspended, suspending, suspend_count, suspend_mutex, cpu_cmd_count, woken,
    \* the threads in scst_suspend_activity() and scst_resume_activity()
    mgr, suspends,
    \* has the session a tgt_dev, i.e. does it see the LUN?
    lun,
    \* struct scst_cmd: where it is, who initialises it, the counter it holds
    \* (0: none), tgt_dev # NULL, SCST_CMD_ABORTED
    cpc, by, ccpu, has_tgt_dev, aborted,
    \* the init thread
    scst_init_cmd_list, scst_init_poll_cnt, init_thread,
    \* struct scst_mgmt_cmd, the lists and the TM thread
    mpc, fn, mcpu, affected, scst_active_mgmt_cmd_list, scst_delayed_mgmt_cmd_list,
    tm_thread,
    \* struct scst_session
    init_phase, init_deferred_cmd_list, init_deferred_mcmd_list, refcnt, sess,
    \* the management thread in scst_init_session()
    mgmt_thread

suspVars == <<suspended, suspending, suspend_count, suspend_mutex, suspends>>
cmdVars == <<cpc, by, ccpu, has_tgt_dev, aborted>>
initVars == <<scst_init_cmd_list, scst_init_poll_cnt, init_thread>>
tmVars == <<mpc, fn, mcpu, affected, scst_active_mgmt_cmd_list,
            scst_delayed_mgmt_cmd_list, tm_thread>>
sessVars == <<init_phase, init_deferred_cmd_list, init_deferred_mcmd_list, refcnt, sess,
              mgmt_thread>>
vars == <<suspVars, mgr, cpu_cmd_count, woken, lun, cmdVars, initVars, tmVars, sessVars>>

(* A command:                                                              *)
(*   deferred  on init_deferred_cmd_list     listed  on scst_init_cmd_list *)
(*   check     in front of the test of scst_init_cmd_list                  *)
(*   get, test, lookup  in scst_translate_lun()                            *)
(*   redirect  must wait for the end of suspending                         *)
(*   active    initialised, or failed, and being processed                 *)
(*   finished  past scst_finish_cmd(), references not yet given back       *)
CmdPcs == {"none", "deferred", "check", "get", "test", "lookup", "redirect",
           "listed", "active", "finished", "gone"}
InInit == {"check", "get", "test", "lookup", "redirect"}
(* A function: deferred, active and delayed are the lists; test, lookup,   *)
(* requeue and exec are steps of the TM thread; wait: for the commands it  *)
(* has aborted.                                                            *)
McmdPcs == {"none", "deferred", "active", "delayed", "test", "lookup", "requeue",
            "exec", "wait", "gone"}
(* A manager: scan and sleep are scst_susp_wait(), pass is which of the    *)
(* two waits it is; inside: scst_suspend_activity() has returned 0; clear, *)
(* wake and splice are __scst_resume_activity().                           *)
MgrPcs == {"idle", "scan", "sleep", "inside", "clear", "wake", "splice"}
Idle == [pc |-> "idle", pass |-> 0, cpu |-> 0, sum |-> 0]

TypeOK ==
    /\ suspended \in BOOLEAN /\ suspending \in BOOLEAN
    /\ suspend_count \in Nat /\ suspends \in Nat
    /\ suspend_mutex \in Managers \cup {None}
    /\ cpu_cmd_count \in [Cpus -> Int] /\ woken \in BOOLEAN
    /\ mgr \in [Managers -> [pc : MgrPcs, pass : 0 .. 2, cpu : 0 .. NCpus + 1, sum : Int]]
    /\ lun \in BOOLEAN
    /\ cpc \in [Cmds -> CmdPcs]
    /\ by \in [Cmds -> {"none", "driver", "mgmt", "init"}]
    /\ ccpu \in [Cmds -> Cpus \cup {0}]
    /\ has_tgt_dev \in [Cmds -> BOOLEAN] /\ aborted \in [Cmds -> BOOLEAN]
    /\ scst_init_cmd_list \in Seq(Cmds) /\ scst_init_poll_cnt \in Nat
    /\ init_thread \in {"run", "busy", "sleep", "woken"}
    /\ mpc \in [AllMcmds -> McmdPcs]
    /\ fn \in [AllMcmds -> AllFns \cup {"UNREG_SESS_TM"}]
    /\ mcpu \in [AllMcmds -> Cpus \cup {0}]
    /\ affected \in [AllMcmds -> SUBSET Cmds]
    /\ scst_active_mgmt_cmd_list \in Seq(AllMcmds)
    /\ scst_delayed_mgmt_cmd_list \in Seq(AllMcmds)
    /\ tm_thread \in AllMcmds \cup {None}
    /\ init_phase \in {"INITING", "SUCCESS", "FAILED", "READY"}
    /\ init_deferred_cmd_list \in Seq(Cmds)
    /\ init_deferred_mcmd_list \in Seq(AllMcmds)
    /\ refcnt \in Int
    /\ sess \in {"registered", "unregistering", "unregistered", "shut_list", "freed"}
    /\ mgmt_thread \in {"init", "success", "failure", "deferred", "done"}

(* A command or function that is not sent is as good as gone.              *)
InitLoad(l) ==
    /\ init_phase = l.phase
    /\ suspends = MaxSuspends - l.suspends
    /\ cpc = [c \in Cmds |-> IF c <= l.cmds THEN "none" ELSE "gone"]
    /\ mpc = [m \in AllMcmds |-> IF m \in l.mcmds \cup {Unreg} THEN "none" ELSE "gone"]
    /\ lun \in (IF l.phase = "READY" THEN BOOLEAN ELSE {FALSE})
    /\ mgmt_thread = IF l.phase = "READY" THEN "done" ELSE "init"
    /\ refcnt = IF l.phase = "READY" THEN 1 ELSE 2

Init ==
    /\ \E l \in Loads : InitLoad(l)
    /\ suspended = FALSE /\ suspending = FALSE
    /\ suspend_count = 0 /\ suspend_mutex = None
    /\ cpu_cmd_count = [k \in Cpus |-> 0] /\ woken = FALSE
    /\ mgr = [t \in Managers |-> Idle]
    /\ by = [c \in Cmds |-> "none"] /\ ccpu = [c \in Cmds |-> 0]
    /\ has_tgt_dev = [c \in Cmds |-> FALSE] /\ aborted = [c \in Cmds |-> FALSE]
    /\ scst_init_cmd_list = <<>> /\ scst_init_poll_cnt = 0 /\ init_thread = "sleep"
    /\ fn = [m \in AllMcmds |-> "UNREG_SESS_TM"]
    /\ mcpu = [m \in AllMcmds |-> 0] /\ affected = [m \in AllMcmds |-> {}]
    /\ scst_active_mgmt_cmd_list = <<>> /\ scst_delayed_mgmt_cmd_list = <<>>
    /\ tm_thread = None
    /\ init_deferred_cmd_list = <<>> /\ init_deferred_mcmd_list = <<>>
    /\ sess = "registered"
-----------------------------------------------------------------------------
(* Reference counts.                                                       *)

scst_get(k) == cpu_cmd_count' = [cpu_cmd_count EXCEPT ![k] = @ + 1]

\* Mutant: the counter is tested before it is decremented.
LastRefBefore(k) == cpu_cmd_count[k] = 0

LastRef(k) == cpu_cmd_count[k] = 1

(* Wakes a thread that waits for the counters when this one gets to zero.  *)
(* The test of SCST_FLAG_SUSPENDED belongs to the step of the decrement:   *)
(* if the flag is set between the two, its setter reads the counters       *)
(* afterwards, and a wake-up more does no harm.                            *)
scst_put(k) ==
    /\ cpu_cmd_count' = [cpu_cmd_count EXCEPT ![k] = @ - 1]
    /\ woken' = \/ woken
                \/ /\ suspended /\ LastRef(k)
                   /\ \E t \in Managers : mgr[t].pc \in {"scan", "sleep"}

scst_put_if(k) ==
    IF k = 0 THEN UNCHANGED <<cpu_cmd_count, woken>> ELSE scst_put(k)

\* Mutant: a function sent to a session being registered takes no reference.
SessGetNotIniting == refcnt' = IF init_phase = "INITING" THEN refcnt ELSE refcnt + 1

scst_sess_get == refcnt' = refcnt + 1

scst_sess_put ==
    /\ refcnt' = refcnt - 1
    /\ sess' = IF refcnt = 1 THEN "shut_list" ELSE sess

WakeInit(thread) == IF thread = "sleep" THEN "woken" ELSE thread

InSessList(c) == cpc[c] \notin {"none", "finished", "gone"}
Busy(thread) == \E c \in Cmds : by[c] = thread
Remove(s, x) == SelectSeq(s, LAMBDA y : y # x)
-----------------------------------------------------------------------------
(* The target driver.                                                      *)

(* scst_rx_cmd() and scst_cmd_init_done() up to scst_init_cmd().  The      *)
(* driver has one thread: it sends a command when it is done with the one  *)
(* before.                                                                 *)
SendCmd(c) ==
    /\ sess = "registered" /\ cpc[c] = "none"
    /\ \A d \in Cmds : d < c => cpc[d] # "none"
    /\ ~Busy("driver")
    /\ init_phase = "SUCCESS" => SendRace
    /\ scst_sess_get
    /\ \/ /\ init_phase = "INITING"
          /\ cpc' = [cpc EXCEPT ![c] = "deferred"]
          /\ init_deferred_cmd_list' = Append(init_deferred_cmd_list, c)
          /\ UNCHANGED by
       \/ /\ init_phase \in {"SUCCESS", "READY"}
          /\ cpc' = [cpc EXCEPT ![c] = "check"]
          /\ by' = [by EXCEPT ![c] = "driver"]
          /\ UNCHANGED init_deferred_cmd_list
    /\ UNCHANGED <<suspVars, mgr, cpu_cmd_count, woken, lun, ccpu, has_tgt_dev,
                   aborted, initVars, tmVars, init_phase,
                   init_deferred_mcmd_list, sess, mgmt_thread>>

(* scst_pre_rx_mgmt_cmd() and scst_post_rx_mgmt_cmd().                     *)
PostMcmd(m) ==
    /\ scst_sess_get
    /\ \/ /\ init_phase = "INITING"
          /\ mpc' = [mpc EXCEPT ![m] = "deferred"]
          /\ init_deferred_mcmd_list' = Append(init_deferred_mcmd_list, m)
          /\ UNCHANGED scst_active_mgmt_cmd_list
       \/ /\ init_phase \in {"SUCCESS", "READY"}
          /\ mpc' = [mpc EXCEPT ![m] = "active"]
          /\ scst_active_mgmt_cmd_list' = Append(scst_active_mgmt_cmd_list, m)
          /\ UNCHANGED init_deferred_mcmd_list

(* scst_rx_mgmt_fn() of a function sent by the initiator.                  *)
SendMcmd(m) ==
    /\ sess = "registered" /\ mpc[m] = "none"
    /\ PostMcmd(m)
    /\ \E f \in Fns \cap DriverFns, c \in Cmds :
        /\ fn' = [fn EXCEPT ![m] = f]
        /\ f # "ABORT_TASK" => c = 1
        /\ affected' = [affected EXCEPT ![m] = IF f = "ABORT_TASK" THEN {c} ELSE {}]
    /\ UNCHANGED <<suspVars, mgr, cpu_cmd_count, woken, lun, cmdVars, initVars, mcpu,
                   scst_delayed_mgmt_cmd_list, tm_thread, init_phase,
                   init_deferred_cmd_list, sess, mgmt_thread>>

(* scst_pr_abort_reg() of a PREEMPT AND ABORT in another session: it finds *)
(* the session through the tgt_dev of the registrant.                      *)
PrAbortReg(m) ==
    /\ "PR_ABORT_ALL" \in Fns
    /\ lun /\ mpc[m] = "none"
    /\ sess = "registered" \/ PrRace
    /\ PostMcmd(m)
    /\ fn' = [fn EXCEPT ![m] = "PR_ABORT_ALL"]
    /\ UNCHANGED <<suspVars, mgr, cpu_cmd_count, woken, lun, cmdVars, initVars, mcpu,
                   affected, scst_delayed_mgmt_cmd_list, tm_thread, init_phase,
                   init_deferred_cmd_list, sess, mgmt_thread>>

(* scst_unregister_session(): the function that aborts what is left, then  *)
(* shut_phase and the reference of the registration.  When registration    *)
(* has failed the driver does it inside init_result_fn().                  *)
UnregisterPost ==
    /\ sess = "registered" /\ ~Busy("driver")
    /\ PostMcmd(Unreg)
    /\ sess' = "unregistering"
    /\ UNCHANGED <<suspVars, mgr, cpu_cmd_count, woken, lun, cmdVars, initVars, fn, mcpu,
                   affected, scst_delayed_mgmt_cmd_list, tm_thread, init_phase,
                   init_deferred_cmd_list, mgmt_thread>>
UnregisterPut ==
    /\ sess = "unregistering"
    /\ refcnt' = refcnt - 1
    /\ sess' = IF refcnt = 1 THEN "shut_list" ELSE "unregistered"
    /\ UNCHANGED <<suspVars, mgr, cpu_cmd_count, woken, lun, cmdVars, initVars, tmVars,
                   init_phase, init_deferred_cmd_list, init_deferred_mcmd_list, mgmt_thread>>
-----------------------------------------------------------------------------
(* The management thread: scst_init_session() and scst_free_session().     *)

(* The section under scst_mutex.  It may fail; the session then has no     *)
(* tgt_dev, but it is on the lists and a new LUN will reach it.            *)
InitSession ==
    /\ mgmt_thread = "init"
    /\ \/ mgmt_thread' = "success" /\ lun' \in BOOLEAN
       \/ mgmt_thread' = "failure" /\ lun' = FALSE
    /\ UNCHANGED <<suspVars, mgr, cpu_cmd_count, woken, cmdVars, initVars, tmVars,
                   init_phase, init_deferred_cmd_list, init_deferred_mcmd_list, refcnt, sess>>

(* init_result_fn() has returned.                                          *)
InitResult ==
    /\ \/ /\ mgmt_thread = "success" /\ init_phase' = "SUCCESS"
       \/ /\ mgmt_thread = "failure" /\ init_phase' = "FAILED"
          /\ sess \notin {"registered", "unregistering"}
    /\ mgmt_thread' = "deferred"
    /\ UNCHANGED <<suspVars, mgr, cpu_cmd_count, woken, lun, cmdVars, initVars, tmVars,
                   init_deferred_cmd_list, init_deferred_mcmd_list, refcnt, sess>>

(* The next deferred command: scst_cmd_init_done() up to scst_init_cmd().  *)
InitDeferred ==
    /\ mgmt_thread = "deferred" /\ ~Busy("mgmt")
    /\ init_deferred_cmd_list # <<>>
    /\ LET c == Head(init_deferred_cmd_list) IN
        /\ cpc[c] = "deferred"
        /\ \/ /\ init_phase = "SUCCESS"
              /\ cpc' = [cpc EXCEPT ![c] = "check"]
              /\ by' = [by EXCEPT ![c] = "mgmt"]
           \/ /\ init_phase = "FAILED"
              /\ cpc' = [cpc EXCEPT ![c] = "active"]
              /\ UNCHANGED by
    /\ init_deferred_cmd_list' = Tail(init_deferred_cmd_list)
    /\ UNCHANGED <<suspVars, mgr, cpu_cmd_count, woken, lun, ccpu, has_tgt_dev, aborted, initVars, tmVars, init_phase, init_deferred_mcmd_list, refcnt,
                   sess, mgmt_thread>>

(* The rest of scst_init_session().                                        *)
InitDone ==
    /\ mgmt_thread = "deferred" /\ ~Busy("mgmt")
    /\ init_deferred_cmd_list = <<>>
    /\ scst_active_mgmt_cmd_list' = scst_active_mgmt_cmd_list \o init_deferred_mcmd_list
    /\ mpc' = [m \in AllMcmds |-> IF mpc[m] = "deferred" THEN "active" ELSE mpc[m]]
    /\ init_deferred_mcmd_list' = <<>>
    /\ init_phase' = "READY"
    /\ scst_sess_put
    /\ mgmt_thread' = "done"
    /\ UNCHANGED <<suspVars, mgr, cpu_cmd_count, woken, lun, cmdVars, initVars, fn, mcpu,
                   affected, scst_delayed_mgmt_cmd_list, tm_thread, init_deferred_cmd_list>>

FreeSession ==
    /\ sess = "shut_list" /\ mgmt_thread = "done"
    /\ sess' = "freed"
    /\ lun' = FALSE
    /\ UNCHANGED <<suspVars, mgr, cpu_cmd_count, woken, cmdVars, initVars, tmVars,
                   init_phase, init_deferred_cmd_list, init_deferred_mcmd_list, refcnt,
                   mgmt_thread>>
-----------------------------------------------------------------------------
(* scst_init_cmd(), __scst_init_cmd() and scst_translate_lun().            *)

cmdRest == <<suspVars, mgr, lun, tmVars, sessVars>>

\* Mutant: only the flag makes a command wait.
InitListBusyNot == FALSE

InitListBusy == scst_init_cmd_list # <<>>

CheckInitList(c) ==
    /\ cpc[c] = "check"
    /\ cpc' = [cpc EXCEPT ![c] = IF InitListBusy THEN "redirect" ELSE "get"]
    /\ UNCHANGED <<cmdRest, cpu_cmd_count, woken, by, ccpu, has_tgt_dev, aborted, initVars>>

(* A preprocessing_only command is answered BUSY.                          *)
Redirect(c) ==
    /\ cpc[c] = "redirect"
    /\ \/ /\ Preprocessing /\ by[c] = "driver"
          /\ cpc' = [cpc EXCEPT ![c] = "active"]
          /\ UNCHANGED initVars
       \/ /\ cpc' = [cpc EXCEPT ![c] = "listed"]
          /\ scst_init_cmd_list' = Append(scst_init_cmd_list, c)
          /\ scst_init_poll_cnt' = scst_init_poll_cnt + (IF aborted[c] THEN 1 ELSE 0)
          /\ init_thread' = WakeInit(init_thread)
    /\ by' = [by EXCEPT ![c] = "none"]
    /\ UNCHANGED <<cmdRest, cpu_cmd_count, woken, ccpu, has_tgt_dev, aborted>>

TranslateLunGet(c, k) ==
    /\ cpc[c] = "get" /\ k \in CpusOf[c]
    /\ scst_get(k)
    /\ ccpu' = [ccpu EXCEPT ![c] = k]
    /\ cpc' = [cpc EXCEPT ![c] = "test"]
    /\ UNCHANGED <<cmdRest, woken, by, has_tgt_dev, aborted, initVars>>

(* The init thread leaves the command on the list and starts again.        *)
TranslateLunTest(c) ==
    /\ cpc[c] = "test"
    /\ \/ /\ ~suspended
          /\ cpc' = [cpc EXCEPT ![c] = "lookup"]
          /\ UNCHANGED <<cpu_cmd_count, woken, ccpu, by, init_thread>>
       \/ /\ suspended
          /\ scst_put(ccpu[c])
          /\ ccpu' = [ccpu EXCEPT ![c] = 0]
          /\ \/ /\ by[c] = "init"
                /\ cpc' = [cpc EXCEPT ![c] = "listed"]
                /\ by' = [by EXCEPT ![c] = "none"]
                /\ init_thread' = "run"
             \/ /\ by[c] # "init"
                /\ cpc' = [cpc EXCEPT ![c] = "redirect"]
                /\ UNCHANGED <<by, init_thread>>
    /\ UNCHANGED <<cmdRest, has_tgt_dev, aborted, scst_init_cmd_list, scst_init_poll_cnt>>

(* scst_lookup_tgt_dev().  In both cases the command becomes active; the   *)
(* init thread takes it off its list only now.                             *)
TranslateLunLookup(c) ==
    /\ cpc[c] = "lookup"
    /\ cpc' = [cpc EXCEPT ![c] = "active"]
    /\ \/ /\ lun
          /\ has_tgt_dev' = [has_tgt_dev EXCEPT ![c] = TRUE]
          /\ UNCHANGED <<cpu_cmd_count, woken, ccpu>>
       \/ /\ ~lun
          /\ scst_put(ccpu[c])
          /\ ccpu' = [ccpu EXCEPT ![c] = 0]
          /\ UNCHANGED has_tgt_dev
    /\ scst_init_cmd_list' = Remove(scst_init_cmd_list, c)
    /\ init_thread' = IF by[c] = "init" THEN "run" ELSE init_thread
    /\ by' = [by EXCEPT ![c] = "none"]
    /\ UNCHANGED <<cmdRest, aborted, scst_init_poll_cnt>>

(* The command is processed and leaves its session's list.                 *)
FinishCmd(c) ==
    /\ cpc[c] = "active"
    /\ cpc' = [cpc EXCEPT ![c] = "finished"]
    /\ UNCHANGED <<cmdRest, cpu_cmd_count, woken, by, ccpu, has_tgt_dev, aborted, initVars>>

(* scst_destroy_cmd(), not before ABORT TASK has given its cmd_ref back.   *)
DestroyCmd(c) ==
    /\ cpc[c] = "finished"
    /\ \A m \in AllMcmds : mpc[m] = "exec" => c \notin affected[m]
    /\ cpc' = [cpc EXCEPT ![c] = "gone"]
    /\ scst_sess_put
    /\ scst_put_if(ccpu[c])
    /\ ccpu' = [ccpu EXCEPT ![c] = 0]
    /\ has_tgt_dev' = [has_tgt_dev EXCEPT ![c] = FALSE]
    /\ aborted' = [aborted EXCEPT ![c] = FALSE]
    /\ UNCHANGED <<suspVars, mgr, lun, by, initVars, tmVars,
                   init_phase, init_deferred_cmd_list, init_deferred_mcmd_list, mgmt_thread>>
-----------------------------------------------------------------------------
(* The init thread, under scst_init_lock.                                  *)

threadRest == <<suspVars, mgr, cpu_cmd_count, woken, lun, ccpu, has_tgt_dev, aborted,
                tmVars, sessVars>>

PollCnt(n) == IF n > 0 THEN n - 1 ELSE 0

(* The commands scst_do_job_init() does not pass over.                     *)
ReadyAt(i) == cpc[scst_init_cmd_list[i]] = "listed" /\
              (~suspended \/ aborted[scst_init_cmd_list[i]])
NoneReadyBefore(n) == \A i \in 1 .. n - 1 : ~ReadyAt(i)

(* scst_do_job_init() up to the call of __scst_init_cmd(), or back to the  *)
(* wait in scst_init_thread().                                             *)
DoJobInit ==
    /\ init_thread = "run"
    /\ scst_init_poll_cnt' = PollCnt(scst_init_poll_cnt)
    /\ \/ /\ NoneReadyBefore(Len(scst_init_cmd_list) + 1)
          /\ init_thread' = IF scst_init_poll_cnt' > 0 THEN "run" ELSE "sleep"
          /\ UNCHANGED <<cpc, by, scst_init_cmd_list>>
       \/ \E i \in 1 .. Len(scst_init_cmd_list) :
          /\ ReadyAt(i) /\ NoneReadyBefore(i)
          /\ LET c == scst_init_cmd_list[i] IN
             \/ /\ aborted[c]
                /\ cpc' = [cpc EXCEPT ![c] = "active"]
                /\ scst_init_cmd_list' = Remove(scst_init_cmd_list, c)
                /\ UNCHANGED <<by, init_thread>>
             \/ /\ ~aborted[c]
                /\ cpc' = [cpc EXCEPT ![c] = "get"]
                /\ by' = [by EXCEPT ![c] = "init"]
                /\ init_thread' = "busy"
                /\ UNCHANGED scst_init_cmd_list
    /\ UNCHANGED threadRest

(* test_init_cmd_list() after a wake-up.                                   *)
TestInitCmdList ==
    /\ init_thread = "woken"
    /\ init_thread' = IF \/ scst_init_cmd_list # <<>> /\ ~suspended
                         \/ scst_init_poll_cnt > 0
                      THEN "run" ELSE "sleep"
    /\ UNCHANGED <<threadRest, cpc, by, scst_init_cmd_list, scst_init_poll_cnt>>
-----------------------------------------------------------------------------
(* The task management thread.                                             *)

tmRest == <<suspVars, mgr, lun, cpc, by, ccpu, has_tgt_dev, scst_init_cmd_list,
            init_phase, init_deferred_cmd_list, init_deferred_mcmd_list, mgmt_thread>>

(* The next function: scst_mgmt_cmd_init() up to its first scst_get().     *)
(* ABORT TASK takes a reference because the command it has found has one.  *)
McmdInit(k) ==
    /\ tm_thread = None /\ scst_active_mgmt_cmd_list # <<>>
    /\ LET m == Head(scst_active_mgmt_cmd_list)
           found == {c \in affected[m] : InSessList(c)}
           gets == \/ fn[m] \in LunFns \cup {"TARGET_RESET"}
                   \/ fn[m] = "ABORT_TASK" /\ \E c \in found : has_tgt_dev[c]
       IN /\ mpc[m] = "active" /\ k \in CpusOf[m]
          /\ tm_thread' = m
          /\ mpc' = [mpc EXCEPT ![m] =
                 IF fn[m] \in LunFns \cup {"TARGET_RESET"} THEN "test" ELSE "exec"]
          /\ affected' = [affected EXCEPT ![m] = found]
          /\ IF gets
             THEN scst_get(k) /\ mcpu' = [mcpu EXCEPT ![m] = k]
             ELSE UNCHANGED <<cpu_cmd_count, mcpu>>
    /\ scst_active_mgmt_cmd_list' = Tail(scst_active_mgmt_cmd_list)
    /\ UNCHANGED <<tmRest, woken, aborted, scst_init_poll_cnt, init_thread, fn,
                   scst_delayed_mgmt_cmd_list, refcnt, sess>>

(* scst_get_mgmt().                                                        *)
McmdTest ==
    LET m == tm_thread IN
    /\ m # None /\ mpc[m] = "test"
    /\ IF suspended /\ ~suspending
       THEN /\ scst_put(mcpu[m])
            /\ mcpu' = [mcpu EXCEPT ![m] = 0]
            /\ mpc' = [mpc EXCEPT ![m] = "requeue"]
       ELSE /\ mpc' = [mpc EXCEPT ![m] = IF fn[m] \in LunFns THEN "lookup" ELSE "exec"]
            /\ UNCHANGED <<cpu_cmd_count, woken, mcpu>>
    /\ UNCHANGED <<tmRest, aborted, scst_init_poll_cnt, init_thread, fn, affected,
                   scst_active_mgmt_cmd_list, scst_delayed_mgmt_cmd_list, tm_thread,
                   refcnt, sess>>

(* scst_mgmt_translate_lun().                                              *)
McmdLookup ==
    LET m == tm_thread IN
    /\ m # None /\ mpc[m] = "lookup"
    /\ \/ /\ lun
          /\ mpc' = [mpc EXCEPT ![m] = "exec"]
          /\ UNCHANGED <<cpu_cmd_count, woken, mcpu, tm_thread>>
       \/ /\ ~lun
          /\ scst_put(mcpu[m])
          /\ mcpu' = [mcpu EXCEPT ![m] = 0]
          /\ mpc' = [mpc EXCEPT ![m] = "wait"]
          /\ tm_thread' = None
    /\ UNCHANGED <<tmRest, aborted, scst_init_poll_cnt, init_thread, fn, affected,
                   scst_active_mgmt_cmd_list, scst_delayed_mgmt_cmd_list, refcnt, sess>>

\* Mutant: the flags are not tested again.
MustDelayAlways == TRUE

MustDelay == suspended /\ ~suspending

(* scst_tm_thread() when scst_process_mgmt_cmd() has returned > 0.         *)
McmdRequeue ==
    LET m == tm_thread IN
    /\ m # None /\ mpc[m] = "requeue"
    /\ \/ /\ MustDelay
          /\ mpc' = [mpc EXCEPT ![m] = "delayed"]
          /\ scst_delayed_mgmt_cmd_list' = <<m>> \o scst_delayed_mgmt_cmd_list
          /\ UNCHANGED scst_active_mgmt_cmd_list
       \/ /\ ~MustDelay
          /\ mpc' = [mpc EXCEPT ![m] = "active"]
          /\ scst_active_mgmt_cmd_list' = <<m>> \o scst_active_mgmt_cmd_list
          /\ UNCHANGED scst_delayed_mgmt_cmd_list
    /\ tm_thread' = None
    /\ UNCHANGED <<tmRest, cpu_cmd_count, woken, aborted, scst_init_poll_cnt, init_thread, fn,
                   mcpu, affected, refcnt, sess>>

\* Mutant: the init thread is not told.
UninitedNone(cs) == {}

Uninited(cs) == {c \in cs : ~has_tgt_dev[c]}

(* scst_mgmt_cmd_exec(): the commands it aborts, of all tgt_devs of the    *)
(* session, and scst_abort_cmd() for those that have no tgt_dev yet.       *)
McmdExec ==
    LET m == tm_thread
        hit == IF fn[m] = "ABORT_TASK" THEN {c \in affected[m] : InSessList(c)}
               ELSE IF lun THEN {c \in Cmds : InSessList(c)} ELSE {}
        uninited == Uninited(hit)
    IN
    /\ m # None /\ mpc[m] = "exec"
    /\ mpc' = [mpc EXCEPT ![m] = "wait"]
    /\ affected' = [affected EXCEPT ![m] = hit]
    /\ aborted' = [c \in Cmds |-> aborted[c] \/ c \in hit]
    /\ scst_init_poll_cnt' = scst_init_poll_cnt + Cardinality(uninited)
    /\ init_thread' = IF uninited = {} THEN init_thread ELSE WakeInit(init_thread)
    /\ tm_thread' = None
    /\ UNCHANGED <<tmRest, cpu_cmd_count, woken, fn, mcpu, scst_active_mgmt_cmd_list,
                   scst_delayed_mgmt_cmd_list, refcnt, sess>>

\* Mutant: scst_get_called is not looked at.
McmdRefTgtDev(m) == IF fn[m] = "TARGET_RESET" THEN 0 ELSE mcpu[m]

McmdRef(m) == mcpu[m]

(* The commands have finished; scst_mgmt_cmd_send_done() and               *)
(* scst_free_mgmt_cmd().                                                   *)
McmdDone(m) ==
    /\ tm_thread = None /\ mpc[m] = "wait"
    /\ \A c \in affected[m] : ~InSessList(c)
    /\ mpc' = [mpc EXCEPT ![m] = "gone"]
    /\ scst_sess_put
    /\ scst_put_if(McmdRef(m))
    /\ mcpu' = [mcpu EXCEPT ![m] = 0]
    /\ fn' = [fn EXCEPT ![m] = "UNREG_SESS_TM"] /\ affected' = [affected EXCEPT ![m] = {}]
    /\ UNCHANGED <<tmRest, aborted, scst_init_poll_cnt, init_thread, scst_active_mgmt_cmd_list, scst_delayed_mgmt_cmd_list, tm_thread>>
-----------------------------------------------------------------------------
(* scst_suspend_activity().                                                *)

mgrRest == <<cpu_cmd_count, cmdVars, initVars, tmVars, sessVars>>

(* Up to the first wait.  Only one thread at a time gets past              *)
(* scst_suspend_mutex; if activity is suspended already it is done.        *)
SuspendStart(t) ==
    /\ mgr[t].pc = "idle" /\ suspend_mutex = None /\ suspends < MaxSuspends
    /\ suspends' = suspends + 1
    /\ suspend_count' = suspend_count + 1
    /\ \/ /\ suspend_count > 0
          /\ mgr' = [mgr EXCEPT ![t].pc = "inside"]
          /\ UNCHANGED <<suspended, suspending, suspend_mutex, woken>>
       \/ /\ suspend_count = 0
          /\ suspended' = TRUE /\ suspending' = TRUE
          /\ suspend_mutex' = t
          /\ woken' = FALSE
          /\ mgr' = [mgr EXCEPT ![t] = [pc |-> "scan", pass |-> 1, cpu |-> 1, sum |-> 0]]
    /\ UNCHANGED <<mgrRest, lun>>

(* One atomic_read() of scst_get_cmd_counter().                            *)
ScanCpu(t) ==
    /\ mgr[t].pc = "scan" /\ mgr[t].cpu <= NCpus
    /\ mgr' = [mgr EXCEPT ![t].sum = @ + cpu_cmd_count[mgr[t].cpu], ![t].cpu = @ + 1]
    /\ UNCHANGED <<mgrRest, suspVars, woken, lun>>

\* Mutant: the second wait is missing.
WaitsOne == 1

Waits == 2

(* The sum is known.                                                       *)
ScanEnd(t) ==
    /\ mgr[t].pc = "scan" /\ mgr[t].cpu = NCpus + 1
    /\ \/ /\ mgr[t].sum # 0
          /\ mgr' = [mgr EXCEPT ![t] = [Idle EXCEPT !.pc = "sleep", !.pass = mgr[t].pass]]
          /\ UNCHANGED <<suspending, suspend_mutex, woken>>
       \/ /\ mgr[t].sum = 0 /\ mgr[t].pass < Waits
          /\ suspending' = FALSE
          /\ woken' = FALSE
          /\ mgr' = [mgr EXCEPT ![t] = [pc |-> "scan", pass |-> mgr[t].pass + 1, cpu |-> 1,
                                       sum |-> 0]]
          /\ UNCHANGED suspend_mutex
       \/ /\ mgr[t].sum = 0 /\ mgr[t].pass = Waits
          /\ suspend_mutex' = None
          /\ woken' = FALSE
          /\ suspending' = FALSE
          /\ mgr' = [mgr EXCEPT ![t] = [Idle EXCEPT !.pc = "inside"]]
    /\ UNCHANGED <<mgrRest, suspended, suspend_count, suspends, lun>>

(* A wake-up of scst_dev_cmd_waitQ: the condition is computed again.       *)
SuspendWoken(t) ==
    /\ mgr[t].pc = "sleep" /\ woken
    /\ woken' = FALSE
    /\ mgr' = [mgr EXCEPT ![t].pc = "scan", ![t].cpu = 1, ![t].sum = 0]
    /\ UNCHANGED <<mgrRest, suspVars, lun>>

(* The time is over, or a signal has come, or the time was over before the *)
(* second wait.                                                            *)
SuspendFails(t) ==
    /\ t \in Timed
    /\ \/ mgr[t].pc = "sleep"
       \/ mgr[t].pc = "scan" /\ mgr[t].pass = 2 /\ mgr[t].cpu = 1
    /\ suspending' = FALSE
    /\ woken' = FALSE
    /\ mgr' = [mgr EXCEPT ![t] = [Idle EXCEPT !.pc = "clear"]]
    /\ UNCHANGED <<mgrRest, suspended, suspend_count, suspend_mutex, suspends, lun>>

(* What the caller has suspended for: scst_acg_add_lun() and               *)
(* scst_acg_del_lun(), which give a tgt_dev to the sessions that exist or  *)
(* take it from them.                                                      *)
ChangeConfig(t) ==
    /\ mgr[t].pc = "inside"
    /\ mgmt_thread # "init" /\ sess # "freed"
    /\ UNCHANGED <<mgrRest, suspVars, mgr, woken>>
AddLun(t) == ChangeConfig(t) /\ ~lun /\ lun' = TRUE
DelLun(t) == ChangeConfig(t) /\ lun /\ lun' = FALSE

(* scst_resume_activity().                                                 *)
ResumeStart(t) ==
    /\ mgr[t].pc = "inside" /\ suspend_mutex = None
    /\ suspend_mutex' = t
    /\ mgr' = [mgr EXCEPT ![t].pc = "clear"]
    /\ UNCHANGED <<mgrRest, suspended, suspending, suspend_count, suspends, woken, lun>>

(* __scst_resume_activity() up to the first wake-up ...                    *)
ResumeClear(t) ==
    /\ mgr[t].pc = "clear"
    /\ suspend_count' = suspend_count - 1
    /\ \/ /\ suspend_count > 1
          /\ mgr' = [mgr EXCEPT ![t] = Idle]
          /\ suspend_mutex' = None
          /\ UNCHANGED suspended
       \/ /\ suspend_count = 1
          /\ suspended' = FALSE
          /\ mgr' = [mgr EXCEPT ![t].pc = "wake"]
          /\ UNCHANGED suspend_mutex
    /\ UNCHANGED <<mgrRest, suspending, suspends, woken, lun>>

(* ... the wake-up of the init thread ...                                  *)
ResumeWakeInit(t) ==
    /\ mgr[t].pc = "wake"
    /\ init_thread' = WakeInit(init_thread)
    /\ mgr' = [mgr EXCEPT ![t].pc = "splice"]
    /\ UNCHANGED <<cpu_cmd_count, cmdVars, scst_init_cmd_list, scst_init_poll_cnt, tmVars,
                   sessVars, suspVars, woken, lun>>

DelayedAfterSplice == <<>>

(* ... and the delayed functions.                                          *)
ResumeSplice(t) ==
    /\ mgr[t].pc = "splice"
    /\ scst_active_mgmt_cmd_list' = scst_delayed_mgmt_cmd_list \o scst_active_mgmt_cmd_list
    /\ scst_delayed_mgmt_cmd_list' = DelayedAfterSplice
    /\ mpc' = [m \in AllMcmds |-> IF mpc[m] = "delayed" THEN "active" ELSE mpc[m]]
    /\ suspend_mutex' = None
    /\ mgr' = [mgr EXCEPT ![t] = Idle]
    /\ UNCHANGED <<cpu_cmd_count, cmdVars, initVars, fn, mcpu, affected, tm_thread, sessVars,
                   suspended, suspending, suspend_count, suspends, woken, lun>>
-----------------------------------------------------------------------------
InitCmd(c) ==
    \/ CheckInitList(c) \/ Redirect(c)
    \/ \E k \in Cpus : TranslateLunGet(c, k)
    \/ TranslateLunTest(c) \/ TranslateLunLookup(c)
CmdStep(c) == InitCmd(c) \/ FinishCmd(c) \/ DestroyCmd(c)
InitThread == DoJobInit \/ TestInitCmdList
TmThread ==
    \/ \E k \in Cpus : McmdInit(k)
    \/ McmdTest \/ McmdLookup \/ McmdRequeue \/ McmdExec
    \/ \E m \in AllMcmds : McmdDone(m)
MgmtThread == InitSession \/ InitResult \/ InitDeferred \/ InitDone \/ FreeSession
MgrWait(t) == ScanCpu(t) \/ ScanEnd(t) \/ SuspendWoken(t)
MgrResume(t) == ResumeClear(t) \/ ResumeWakeInit(t) \/ ResumeSplice(t)
Driver ==
    \/ \E c \in Cmds : SendCmd(c)
    \/ \E m \in Mcmds : SendMcmd(m) \/ PrAbortReg(m)
    \/ UnregisterPost
Next ==
    \/ Driver \/ UnregisterPut
    \/ \E c \in Cmds : CmdStep(c)
    \/ InitThread \/ TmThread \/ MgmtThread
    \/ \E t \in Managers :
        \/ SuspendStart(t) \/ MgrWait(t) \/ SuspendFails(t)
        \/ AddLun(t) \/ DelLun(t) \/ ResumeStart(t) \/ MgrResume(t)

Spec == Init /\ [][Next]_vars

(* Every thread runs when it can, the wake-ups included, and the driver    *)
(* ends its session.  Nothing is assumed of the caller of                  *)
(* scst_suspend_activity(): it may stay inside for ever.                   *)
FairSpec ==
    /\ Spec
    /\ WF_vars(UnregisterPost \/ UnregisterPut)
    /\ \A c \in Cmds : WF_vars(CmdStep(c))
    /\ WF_vars(InitThread) /\ WF_vars(TmThread) /\ WF_vars(MgmtThread)
    /\ \A t \in Managers : WF_vars(MgrWait(t) \/ MgrResume(t))
-----------------------------------------------------------------------------
(* Who holds a reference of counter k.                                     *)
Holders(k) == {c \in Cmds : ccpu[c] = k} \cup {m \in AllMcmds : mcpu[m] = k}

(* cpu_cmd_count is exactly the references held: every scst_get() has one  *)
(* scst_put() with the counter it has used, on every path.                 *)
CountersExact == \A k \in Cpus : cpu_cmd_count[k] = Cardinality(Holders(k))

(* While a caller of scst_suspend_activity() that returned 0 has not       *)
(* called scst_resume_activity(), nobody looks a tgt_dev up and nobody     *)
(* holds one: the configuration may be changed without a lock.  This is    *)
(* the reason for the two waits, for the test of the flags after           *)
(* scst_get(), and for the re-test under scst_mcmd_lock.                   *)
Exclusive ==
    (\E t \in Managers : mgr[t].pc = "inside") =>
        /\ suspended
        /\ \A c \in Cmds : cpc[c] # "lookup" /\ ~has_tgt_dev[c]
        /\ \A m \in AllMcmds : mpc[m] # "lookup" /\
              (mcpu[m] # 0 => mpc[m] = "test")

(* Commands become initialised in the order they came, also those that had *)
(* to wait for the registration or the end of suspending ("to preserve the *)
(* commands order", scst_do_job_init()).                                   *)
InitOrder ==
    \A c, d \in Cmds :
        d < c /\ has_tgt_dev[c] => cpc[d] \notin InInit \cup {"deferred", "listed"}

(* The session's reference count is what is outstanding, so it reaches     *)
(* zero once, when the last user is done: nothing runs in a freed session. *)
SessionLife ==
    /\ sess \in {"registered", "unregistering", "unregistered"} =>
        refcnt = Cardinality({c \in Cmds : cpc[c] \notin {"none", "gone"}})
               + Cardinality({m \in AllMcmds : mpc[m] \notin {"none", "gone"}})
               + (IF mgmt_thread # "done" THEN 1 ELSE 0)
               + (IF sess # "unregistered" THEN 1 ELSE 0)
    /\ sess \in {"shut_list", "freed"} =>
        /\ refcnt = 0 /\ mgmt_thread = "done" /\ mpc[Unreg] = "gone"
        /\ \A c \in Cmds : cpc[c] \in {"none", "gone"}
        /\ \A m \in Mcmds : mpc[m] \in {"none", "gone"}

(* A command or a function is on the list of its state, once, and on no    *)
(* other.  (The init thread leaves a command on its list until it is       *)
(* initialised.)                                                           *)
On(list, x) == Cardinality({i \in 1 .. Len(list) : list[i] = x})
ListsExact ==
    /\ \A c \in Cmds :
        /\ On(init_deferred_cmd_list, c) = (IF cpc[c] = "deferred" THEN 1 ELSE 0)
        /\ On(scst_init_cmd_list, c) =
             (IF cpc[c] = "listed" \/ by[c] = "init" THEN 1 ELSE 0)
    /\ \A m \in AllMcmds :
        /\ On(init_deferred_mcmd_list, m) = (IF mpc[m] = "deferred" THEN 1 ELSE 0)
        /\ On(scst_active_mgmt_cmd_list, m) = (IF mpc[m] = "active" THEN 1 ELSE 0)
        /\ On(scst_delayed_mgmt_cmd_list, m) = (IF mpc[m] = "delayed" THEN 1 ELSE 0)

(* No function is sent to a session that is shutting down: the assertion   *)
(* of scst_post_rx_mgmt_cmd().                                             *)
NoLateMcmd ==
    [][\A m \in AllMcmds : mpc[m] = "none" /\ mpc'[m] # "none" =>
          sess \in {"registered", "unregistering"}]_vars

(* The five lists hold what the states of commands and functions say, and  *)
(* a function on the delayed list has somebody who will move it: activity  *)
(* is suspended, or the one who resumes it has not yet spliced the list.   *)
ListsServed ==
    /\ ListsExact
    /\ scst_delayed_mgmt_cmd_list # <<>> =>
        \/ suspended /\ ~suspending
        \/ \E t \in Managers : mgr[t].pc \in {"wake", "splice"}

(* If the callers of scst_suspend_activity() come back every time, the     *)
(* session ends: nothing stays on the init list, the delayed list or the   *)
(* deferred lists for ever, no wake-up is lost, and a suspender that waits *)
(* gets its turn.                                                          *)
Settles ==
    []<>(\A t \in Managers : mgr[t].pc # "inside") =>
        []<>(sess = "freed" /\ \A t \in Managers : mgr[t].pc \in {"idle", "inside"})

(* A command aborted before it is initialised does not stay on the init    *)
(* list, even if activity stays suspended for ever (scst_init_poll_cnt).   *)
AbortedLeave == []<>(\A c \in Cmds : aborted[c] => cpc[c] # "listed")
=============================================================================
