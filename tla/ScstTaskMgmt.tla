---------------------------- MODULE ScstTaskMgmt ----------------------------
(***************************************************************************)
(* Task management (TM) functions against the commands they abort, on one  *)
(* device: scst_abort_cmd(), the stubs that tie an aborted command to the  *)
(* functions that wait for it, the single TM thread, the two waits of a    *)
(* function (affected commands done, affected commands finished) and       *)
(* PERSISTENT RESERVE OUT/PREEMPT AND ABORT, which sends a TM function to  *)
(* every session it preempts and sleeps, with dev_pr_mutex held, until     *)
(* those have marked the commands.                                         *)
(*                                                                         *)
(* Sections under a spinlock are one step.  sess_list_lock is held by the  *)
(* TM thread over a whole session's list (tm.sess), scst_abort_cmd()       *)
(* inside it is two steps: the flags are set first, the stub is made       *)
(* later, and the command goes on in between.                              *)
(***************************************************************************)
EXTENDS Integers, FiniteSets, Sequences, SequencesExt

CONSTANTS
  Sess,        \* the sessions that have the device as a LUN
  Cmds,        \* the commands
  SessOf,      \* the session of a command
  Preempts,    \* the commands that are PREEMPT AND ABORT
  Mcmds,       \* the TM functions drivers may ask for
  Fns,         \* what they may ask for
  Tas,         \* dev->tas: aborted commands of others get TASK ABORTED
  Async,       \* the dev handler completes TM functions asynchronously
  InitRace,    \* a command may get its device while ABORT TASK is under way
  Registration,\* whether a session is registered meanwhile: "none", "any" time,
               \* or "quiet", not during PREEMPT AND ABORT
  None

ASSUME ConstantsOK ==
  /\ IsFiniteSet(Sess) /\ IsFiniteSet(Cmds)
  /\ \A c \in Cmds : SessOf[c] \in Sess
  /\ Preempts \subseteq Cmds
  /\ {Tas, Async, InitRace} \subseteq BOOLEAN
  /\ Registration \in {"none", "quiet", "any"}
  /\ None \notin Cmds \cup Sess \cup Mcmds

VARIABLES
  st,       \* how far a command is
  fl,       \* its flags: tgt_dev set, sent_for_exec, completed, ABORTED...
  resp,     \* what its initiator got
  mc,       \* the management commands
  stubs,    \* the commands' mgmt_cmd_list of struct scst_mgmt_cmd_stub
  active,   \* scst_active_mgmt_cmd_list
  tm,       \* the TM thread
  pr,       \* dev_pr_mutex, the registrants and the PR abort counters
  reg,      \* a thread that registers a session
  ua,       \* the Unit Attentions set on behalf of a TM function
  hits      \* history: which function aborted which command, and how

vars == <<st, fl, resp, mc, stubs, active, tm, pr, reg, ua, hits>>

CmdStates ==
  {"none", "init", "ready", "sent", "exec", "pr_post", "pr_wait", "pr_pend",
   "ended", "done", "xmit", "xmitted", "finished", "gone"}

Flags == {"tgt_dev", "sent_for_exec", "completed", "ABORTED", "OTHER",
          "TAS", "status_TA"}

\* The TM functions of PREEMPT AND ABORT: one per session it preempts.
PrMcmds == Preempts \X Sess
Mgmt == Mcmds \cup PrMcmds
Origin(m) == m[1]

\* The functions that are for every session of the device, not for one.
DeviceFns == {"CLEAR_TASK_SET", "LUN_RESET", "TARGET_RESET", "NEXUS_LOSS",
              "ABORT_ALL_TASKS"}
\* The functions executed with scst_mutex held all the time.
MutexFns == {"TARGET_RESET", "NEXUS_LOSS", "ABORT_ALL_TASKS",
             "NEXUS_LOSS_SESS", "ABORT_ALL_TASKS_SESS"}
AllFns == DeviceFns \cup MutexFns \cup {"ABORT_TASK", "ABORT_TASK_SET",
                                        "PR_ABORT_ALL"}

McmdStates == {"none", "INIT", "EXEC", "WAITING_AFFECTED_CMDS_DONE",
               "AFFECTED_CMDS_DONE", "WAITING_AFFECTED_CMDS_FINISHED", "DONE",
               "freed"}

Stub == [mcmd: Mgmt, done: BOOLEAN, finish: BOOLEAN]

NewMcmd(fn, s, tag) ==
  [st |-> "INIT", fn |-> fn, sess |-> s, tag |-> tag, tgt_dev |-> FALSE,
   received |-> FALSE, async |-> FALSE, done |-> 0, finish |-> 0]

\* Not allocated yet, or freed
NoMcmd(state) ==
  [NewMcmd("PR_ABORT_ALL", CHOOSE s \in Sess : TRUE, None) EXCEPT !.st = state]

Idle == [m |-> None, begun |-> FALSE, mutex |-> FALSE, todo |-> {},
         sess |-> None, cmds |-> {}, cur |-> None]

TypeOK ==
  /\ st \in [Cmds -> CmdStates]
  /\ fl \in [Cmds -> SUBSET Flags]
  /\ resp \in [Cmds -> {"none", "status", "TASK_ABORTED"}]
  /\ mc \in [Mgmt -> [st: McmdStates, fn: AllFns, sess: Sess,
                      tag: Cmds \cup {None}, tgt_dev: BOOLEAN,
                      received: BOOLEAN, async: BOOLEAN,
                      done: Nat, finish: Nat]]
  /\ stubs \in [Cmds -> Seq(Stub)]
  /\ active \in Seq(Mgmt)
  /\ tm \in [m: Mgmt \cup {None}, begun: BOOLEAN, mutex: BOOLEAN,
             todo: SUBSET Sess, sess: Sess \cup {None}, cmds: SUBSET Cmds,
             cur: Cmds \cup {None}]
  /\ pr \in [mutex: Cmds \cup {None, "registering"}, registered: SUBSET Sess,
             pending: [Preempts -> Nat], aborting: [Preempts -> Nat],
             left: [Preempts -> SUBSET Sess]]
  /\ reg \in {"idle", "scst_mutex", "both"}
  /\ ua \subseteq Mgmt \X Sess
  /\ hits \subseteq [cmd: Cmds, mcmd: Mgmt, other: BOOLEAN]

Init ==
  /\ st = [c \in Cmds |-> "none"]
  /\ fl = [c \in Cmds |-> {}]
  /\ resp = [c \in Cmds |-> "none"]
  /\ mc = [m \in Mgmt |-> NoMcmd("none")]
  /\ stubs = [c \in Cmds |-> <<>>]
  /\ active = <<>>
  /\ tm = Idle
  /\ pr = [mutex |-> None, registered |-> Sess,
           pending |-> [c \in Preempts |-> 0],
           aborting |-> [c \in Preempts |-> 0],
           left |-> [c \in Preempts |-> {}]]
  /\ reg = "idle"
  /\ ua = {}
  /\ hits = {}

(***************************************************************************)
(* Commands                                                                *)
(***************************************************************************)
OnList(c) == st[c] \notin {"none", "finished", "gone"}
Finished(c) == st[c] \in {"finished", "gone"}
Done(c) == st[c] \in {"done", "xmit", "xmitted", "finished", "gone"}
Aborted(c) == "ABORTED" \in fl[c]

\* The sess_list_lock of the command's session is not held by the TM thread.
ListFree(c) == tm.sess # SessOf[c]

Move(c, from, to) == st[c] = from /\ st' = [st EXCEPT ![c] = to]
Raise(c, bits) == fl' = [fl EXCEPT ![c] = @ \cup bits]

\* scst_cmd_init_stage1_done(): the command is on its session's list.
Receive(c) ==
  /\ ListFree(c)
  /\ Move(c, "none", "init")
  /\ UNCHANGED <<fl, resp, mc, stubs, active, tm, pr, reg, ua, hits>>

\* ABORT TASK has looked the command up and found it without a device.
AbortInFlight(c) ==
  \E m \in Mgmt : /\ mc[m].st = "EXEC" /\ mc[m].fn = "ABORT_TASK"
                  /\ mc[m].tag = c /\ ~mc[m].tgt_dev

\* scst_translate_lun(): the command gets its tgt_dev.
TranslateLun(c) ==
  /\ InitRace \/ ~AbortInFlight(c)
  /\ Move(c, "init", "ready")
  /\ Raise(c, {"tgt_dev"})
  /\ UNCHANGED <<resp, mc, stubs, active, tm, pr, reg, ua, hits>>

\* scst_do_job_init(): an aborted command is not initialized any more.
InitAborted(c) ==
  /\ Aborted(c)
  /\ Move(c, "init", "ended")
  /\ UNCHANGED <<fl, resp, mc, stubs, active, tm, pr, reg, ua, hits>>

\* A command that fails, or notices that it is aborted, before execution.
EndEarly(c) ==
  /\ Move(c, "ready", "ended")
  /\ \/ Raise(c, {"completed"})
     \/ Aborted(c) /\ UNCHANGED fl
  /\ UNCHANGED <<resp, mc, stubs, active, tm, pr, reg, ua, hits>>

\* scst_exec_check_blocking(): sent_for_exec, then a barrier.
SendForExec(c) ==
  /\ Move(c, "ready", "sent")
  /\ Raise(c, {"sent_for_exec"})
  /\ UNCHANGED <<resp, mc, stubs, active, tm, pr, reg, ua, hits>>

\* Mutant: the ABORTED test after sent_for_exec is missing.
PassesEventsAlways(c) == TRUE

\* __scst_check_local_events(): not executed if aborted.
PassesEvents(c) == ~Aborted(c)

Exec(c) ==
  /\ PassesEvents(c)
  /\ Move(c, "sent", "exec")
  /\ UNCHANGED <<fl, resp, mc, stubs, active, tm, pr, reg, ua, hits>>

\* A local event, a reservation conflict or a pending UA, ends the command,
\* or it is found aborted.
LocalEvent(c) ==
  /\ Move(c, "sent", "ended")
  /\ \/ Raise(c, {"completed"})
     \/ ~PassesEvents(c) /\ UNCHANGED fl
  /\ UNCHANGED <<resp, mc, stubs, active, tm, pr, reg, ua, hits>>

\* The dev handler has executed the command, or given up an aborted one.
Complete(c) ==
  /\ c \notin Preempts
  /\ Move(c, "exec", "ended")
  /\ \/ Raise(c, {"completed"})
     \/ Aborted(c) /\ UNCHANGED fl
  /\ UNCHANGED <<resp, mc, stubs, active, tm, pr, reg, ua, hits>>

\* scst_pre_xmit_response1(): done, then a barrier.
PreXmit1(c) ==
  /\ Move(c, "ended", "done")
  /\ UNCHANGED <<fl, resp, mc, stubs, active, tm, pr, reg, ua, hits>>

DoneCounted(x) == x.done

\* What scst_done_cmd_mgmt() leaves of a command's stubs
KeptStubs(s) == SelectSeq(s, LAMBDA x : x.finish)

\* scst_done_cmd_mgmt(): a function whose last affected command is done goes on.
DoneMgmt(c) ==
  LET counted == {x.mcmd : x \in {y \in Range(stubs[c]) : DoneCounted(y)}}
      after == [m \in Mgmt |->
                  IF m \notin counted THEN mc[m]
                  ELSE [mc[m] EXCEPT
                          !.done = @ - 1,
                          !.st = IF mc[m].done = 1 /\ @ = "WAITING_AFFECTED_CMDS_DONE"
                                 THEN "AFFECTED_CMDS_DONE" ELSE @]]
      woken == SelectSeq(stubs[c], LAMBDA x : after[x.mcmd].st # mc[x.mcmd].st)
  IN /\ mc' = after
     /\ active' = active \o [i \in DOMAIN woken |-> woken[i].mcmd]
     /\ stubs' = [stubs EXCEPT ![c] = KeptStubs(@)]

\* scst_xmit_process_aborted_cmd(): what becomes of the response.
AbortedFlags(f) ==
  IF "OTHER" \notin f \/ "completed" \in f THEN f
  ELSE IF "TAS" \in f THEN f \cup {"completed", "status_TA"} ELSE f \ {"OTHER"}

\* scst_pre_xmit_response2()
PreXmit2(c) ==
  /\ Move(c, "done", "xmit")
  /\ IF Aborted(c)
     THEN /\ DoneMgmt(c)
          /\ fl' = [fl EXCEPT ![c] = AbortedFlags(@)]
     ELSE UNCHANGED <<fl, mc, active, stubs>>
  /\ UNCHANGED <<resp, tm, pr, reg, ua, hits>>

\* xmit_response() of the target driver: scst_cmd_aborted_on_xmit() tells it
\* not to answer a command that its own initiator aborted.
NoResponse(c) == Aborted(c) /\ "OTHER" \notin fl[c]

Xmit(c) ==
  /\ Move(c, "xmit", "xmitted")
  /\ resp' = [resp EXCEPT ![c] = IF NoResponse(c) THEN "none"
                                 ELSE IF "status_TA" \in fl[c] THEN "TASK_ABORTED"
                                 ELSE "status"]
  /\ UNCHANGED <<fl, mc, stubs, active, tm, pr, reg, ua, hits>>

\* scst_finish_cmd(), under sess_list_lock
Finish(c) ==
  /\ ListFree(c)
  /\ Move(c, "xmitted", "finished")
  /\ UNCHANGED <<fl, resp, mc, stubs, active, tm, pr, reg, ua, hits>>

\* Mutant: the state of the function is not looked at.
DecFinishAnyState(r) ==
  [r EXCEPT !.finish = @ - 1,
            !.st = IF r.finish = 1 /\ r.done = 0 THEN "DONE" ELSE @]

\* __scst_dec_finish_wait_count()
DecFinish(r) ==
  [r EXCEPT !.finish = @ - 1,
            !.st = IF r.finish = 1 /\ r.done = 0 /\ @ = "WAITING_AFFECTED_CMDS_FINISHED"
                   THEN "DONE" ELSE @]

\* scst_finish_cmd_mgmt()
FinishMgmt(c) ==
  LET counted == {x.mcmd : x \in Range(stubs[c])}
      after == [m \in Mgmt |-> IF m \in counted THEN DecFinish(mc[m]) ELSE mc[m]]
      woken == SelectSeq(stubs[c], LAMBDA x : after[x.mcmd].st # mc[x.mcmd].st)
  IN /\ mc' = after
     /\ active' = active \o [i \in DOMAIN woken |-> woken[i].mcmd]
     /\ stubs' = [stubs EXCEPT ![c] = <<>>]

\* The end of scst_finish_cmd()
Free(c) ==
  /\ Move(c, "finished", "gone")
  /\ IF Aborted(c) THEN FinishMgmt(c) ELSE UNCHANGED <<mc, active, stubs>>
  /\ UNCHANGED <<fl, resp, tm, pr, reg, ua, hits>>

(***************************************************************************)
(* PREEMPT AND ABORT                                                       *)
(***************************************************************************)
\* scst_persistent_reserve_out_local() once it has dev_pr_mutex: a command
\* that was preempted or aborted while it waited does nothing.
PrRefused(c) ==
  /\ c \in Preempts
  /\ pr.mutex = None
  /\ Move(c, "exec", "ended")
  /\ \/ SessOf[c] \notin pr.registered /\ Raise(c, {"completed"})
     \/ SessOf[c] \in pr.registered /\ Aborted(c) /\ UNCHANGED fl
  /\ UNCHANGED <<resp, mc, stubs, active, tm, pr, reg, ua, hits>>

\* Mutant: pr_abort_pending_cnt starts from 0.
PendingFirstNone == 0

\* "1 to protect cmd from be done by the TM thread too early"
PendingFirst == 1

\* scst_pr_preempt_and_abort() up to scst_pr_do_preempt(): the victims are the
\* sessions registered with the key, and none if the parameters are wrong.
PrPreempt(c) ==
  /\ c \in Preempts
  /\ pr.mutex = None
  /\ SessOf[c] \in pr.registered /\ ~Aborted(c)
  /\ Registration = "quiet" => reg # "scst_mutex"
  /\ Move(c, "exec", "pr_post")
  /\ \E victims \in SUBSET pr.registered :
       pr' = [pr EXCEPT !.mutex = c, !.left[c] = victims,
                        !.pending[c] = PendingFirst, !.aborting[c] = 1]
  /\ UNCHANGED <<fl, resp, mc, stubs, active, tm, reg, ua, hits>>

\* scst_pr_abort_reg() and the removal of the registrant
PrAbortReg(c, s) ==
  LET m == <<c, s>> IN
  /\ c \in Preempts /\ st[c] = "pr_post" /\ s \in pr.left[c]
  /\ mc' = [mc EXCEPT ![m] = NewMcmd("PR_ABORT_ALL", s, None)]
  /\ active' = Append(active, m)
  /\ pr' = [pr EXCEPT !.left[c] = @ \ {s}, !.pending[c] = @ + 1,
                      !.aborting[c] = @ + 1,
                      !.registered = IF s = SessOf[c] THEN @ ELSE @ \ {s}]
  /\ ua' = IF s = SessOf[c] \/ Tas THEN ua ELSE ua \cup {<<m, s>>}
  /\ UNCHANGED <<st, fl, resp, stubs, tm, reg, hits>>

\* All functions are sent; sleep until pr_aborting_cnt is 0.
PrSent(c) ==
  /\ c \in Preempts /\ pr.left[c] = {}
  /\ Move(c, "pr_post", "pr_wait")
  /\ pr' = [pr EXCEPT !.aborting[c] = @ - 1]
  /\ UNCHANGED <<fl, resp, mc, stubs, active, tm, reg, ua, hits>>

\* scst_cmd_done_pr_preempt(): the last of the command and its functions ends it.
PrDec(c, p) == [p EXCEPT !.pending[c] = @ - 1]
PrState(c, other) == IF pr.pending[c] = 1 THEN "ended" ELSE other

\* Mutant: dev_pr_mutex is not released.
UnlockedPrNot(c) == c

UnlockedPr(c) == None

\* Awake: dev_pr_mutex is released, and the command is done for its part.
PrRelease(c) ==
  /\ st[c] = "pr_wait" /\ pr.aborting[c] = 0
  /\ st' = [st EXCEPT ![c] = PrState(c, "pr_pend")]
  /\ Raise(c, {"completed"})
  /\ pr' = PrDec(c, [pr EXCEPT !.mutex = UnlockedPr(c)])
  /\ UNCHANGED <<resp, mc, stubs, active, tm, reg, ua, hits>>

(***************************************************************************)
(* The TM thread                                                           *)
(***************************************************************************)
\* scst_rx_mgmt_fn()
RxMgmt(m) ==
  /\ mc[m].st = "none" /\ m \in Mcmds
  /\ \E fn \in Fns, s \in Sess :
       \E tag \in IF fn = "ABORT_TASK" THEN {c \in Cmds : SessOf[c] = s} ELSE {None} :
         mc' = [mc EXCEPT ![m] = NewMcmd(fn, s, tag)]
  /\ active' = Append(active, m)
  /\ UNCHANGED <<st, fl, resp, stubs, tm, pr, reg, ua, hits>>

\* scst_tm_thread() takes the first function of the active list.
TakeMcmd ==
  /\ tm.m = None /\ active # <<>>
  /\ tm' = [Idle EXCEPT !.m = Head(active)]
  /\ active' = Tail(active)
  /\ UNCHANGED <<st, fl, resp, mc, stubs, pr, reg, ua, hits>>

\* scst_set_mcmd_next_state()
NextState(r) ==
  [r EXCEPT !.st =
     IF @ = "AFFECTED_CMDS_DONE"
     THEN IF r.finish = 0 THEN "DONE" ELSE "WAITING_AFFECTED_CMDS_FINISHED"
     ELSE IF r.done = 0 THEN "AFFECTED_CMDS_DONE" ELSE "WAITING_AFFECTED_CMDS_DONE"]

\* The function r of the TM thread changes its state; if it has to wait the
\* thread leaves it.
Step(r) ==
  /\ mc' = [mc EXCEPT ![tm.m] = NextState(r)]
  /\ tm' = IF NextState(r).st \in {"AFFECTED_CMDS_DONE", "DONE"}
           THEN [Idle EXCEPT !.m = tm.m] ELSE Idle

Running(m, state) == tm.m = m /\ mc[m].st = state

\* scst_mgmt_cmd_init(): ABORT TASK looks its command up by tag, the functions
\* for a LUN may name one that does not exist.
Found(m) ==
  CASE mc[m].fn = "ABORT_TASK" -> {OnList(mc[m].tag)}
    [] mc[m].fn \in {"ABORT_TASK_SET", "CLEAR_TASK_SET", "LUN_RESET"} -> BOOLEAN
    [] OTHER -> {TRUE}

McmdInit(m) ==
  /\ Running(m, "INIT")
  /\ \E found \in Found(m) :
       IF found
       THEN /\ mc' = [mc EXCEPT ![m].st = "EXEC",
                                ![m].tgt_dev = mc[m].fn # "ABORT_TASK"
                                               \/ "tgt_dev" \in fl[mc[m].tag]]
            /\ UNCHANGED tm
       ELSE Step(mc[m])
  /\ UNCHANGED <<st, fl, resp, stubs, active, pr, reg, ua, hits>>

\* scst_mutex is free for the TM thread.
MutexFree == reg \notin {"scst_mutex", "both"}

\* ABORT TASK whose LUN or CmdSN does not match its command aborts nothing.
Rejected(m) == IF mc[m].fn = "ABORT_TASK" THEN {{}} ELSE {}

\* scst_mgmt_cmd_exec(): which sessions the function is for.  CLEAR TASK SET
\* takes its own session first, and scst_mutex only for the others.
ExecBegin(m) ==
  /\ Running(m, "EXEC") /\ ~tm.begun
  /\ mc[m].fn \in MutexFns => MutexFree
  /\ \E todo \in {{mc[m].sess}} \cup Rejected(m) :
       tm' = [tm EXCEPT !.begun = TRUE, !.mutex = mc[m].fn \in MutexFns,
                        !.todo = IF mc[m].fn \in DeviceFns \ {"CLEAR_TASK_SET"}
                                 THEN Sess ELSE todo]
  /\ UNCHANGED <<st, fl, resp, mc, stubs, active, pr, reg, ua, hits>>

ClearOthers(m) ==
  /\ Running(m, "EXEC") /\ tm.begun /\ mc[m].fn = "CLEAR_TASK_SET"
  /\ tm.todo = {} /\ tm.sess = None /\ ~tm.mutex /\ MutexFree
  /\ tm' = [tm EXCEPT !.mutex = TRUE, !.todo = Sess \ {mc[m].sess}]
  /\ UNCHANGED <<st, fl, resp, mc, stubs, active, pr, reg, ua, hits>>

\* The commands of a session the function aborts: not the PREEMPT AND ABORT
\* it comes from.
Affected(m, s) ==
  IF mc[m].fn = "ABORT_TASK" THEN {mc[m].tag}
  ELSE {c \in Cmds : SessOf[c] = s /\ OnList(c)} \
       (IF m \in PrMcmds THEN {Origin(m)} ELSE {})

LockList(m, s) ==
  /\ Running(m, "EXEC") /\ s \in tm.todo /\ tm.sess = None
  /\ tm' = [tm EXCEPT !.todo = @ \ {s}, !.sess = s, !.cmds = Affected(m, s)]
  /\ UNCHANGED <<st, fl, resp, mc, stubs, active, pr, reg, ua, hits>>

\* other_ini: the command's initiator is not the one that asked.
OtherIni(m, s) ==
  CASE m \in PrMcmds -> s # SessOf[Origin(m)]
    [] mc[m].fn \in {"CLEAR_TASK_SET", "LUN_RESET", "TARGET_RESET"} -> s # mc[m].sess
    [] OTHER -> FALSE

\* scst_abort_cmd(), under other_ini_lock
MarkedFlags(f, other) ==
  {"ABORTED"} \cup
  IF other THEN f \cup (IF "ABORTED" \in f THEN {} ELSE {"OTHER"})
                  \cup (IF Tas THEN {"TAS"} ELSE {})
           ELSE f \ {"OTHER"}

Mark(m, c) ==
  LET other == OtherIni(m, SessOf[c]) IN
  /\ Running(m, "EXEC") /\ c \in tm.cmds /\ tm.cur = None
  /\ fl' = [fl EXCEPT ![c] = MarkedFlags(@, other)]
  /\ tm' = [tm EXCEPT !.cmds = @ \ {c}, !.cur = c]
  /\ hits' = IF Finished(c) THEN hits
             ELSE hits \cup {[cmd |-> c, mcmd |-> m, other |-> other]}
  /\ UNCHANGED <<st, resp, mc, stubs, active, pr, reg, ua>>

\* scst_abort_cmd(), under scst_mcmd_lock: what the function waits for.
WaitsDone(c) == "sent_for_exec" \in fl[c] /\ ~Done(c)
WaitsFinish(m, c) == ~OtherIni(m, SessOf[c])

\* Mutant: the function counts the finish of any command.
CountedFinishAny(x, n) == n + 1

CountedFinish(x, n) == IF x.finish THEN n + 1 ELSE n

Count(m, c) ==
  LET x == [mcmd |-> m, done |-> WaitsDone(c), finish |-> WaitsFinish(m, c)] IN
  /\ Running(m, "EXEC") /\ tm.cur = c
  /\ tm' = [tm EXCEPT !.cur = None]
  /\ IF Finished(c) THEN UNCHANGED <<mc, stubs>>
     ELSE /\ mc' = [mc EXCEPT
                      ![m].done = IF x.done THEN @ + 1 ELSE @,
                      ![m].finish = CountedFinish(x, @),
                      ![m].received = mc[m].fn = "ABORT_TASK" /\ "tgt_dev" \in fl[c]]
          /\ stubs' = IF x.done \/ x.finish
                      THEN [stubs EXCEPT ![c] = Append(@, x)] ELSE stubs
  /\ UNCHANGED <<st, fl, resp, active, pr, reg, ua, hits>>

UnlockList(m) ==
  /\ Running(m, "EXEC") /\ tm.sess # None /\ tm.cmds = {} /\ tm.cur = None
  /\ tm' = [tm EXCEPT !.sess = None]
  /\ UNCHANGED <<st, fl, resp, mc, stubs, active, pr, reg, ua, hits>>

\* Mutant: CLEAR TASK SET leaves no UA.
UaAfterExecResets(m) ==
  IF mc[m].fn \in {"LUN_RESET", "TARGET_RESET"} THEN Sess ELSE {}

\* The sessions that get a UA at the end of the execution.
UaAfterExec(m) ==
  CASE mc[m].fn \in {"LUN_RESET", "TARGET_RESET"} -> Sess
    [] mc[m].fn = "CLEAR_TASK_SET" /\ ~Tas ->
         {SessOf[h.cmd] : h \in {g \in hits : g.mcmd = m}} \ {mc[m].sess}
    [] OTHER -> {}

\* Mutant: the sleeping PREEMPT AND ABORT is not woken.
AbortedForNot(m) == pr

\* The function of a PREEMPT AND ABORT has marked the commands.
AbortedFor(m) ==
  IF m \in PrMcmds THEN [pr EXCEPT !.aborting[Origin(m)] = @ - 1] ELSE pr

\* The end of scst_abort_task(), scst_abort_task_set(), scst_clear_task_set(),
\* scst_lun_reset()...: UAs, the dev handler's task_mgmt_fn_received(), and
\* the sleeping PREEMPT AND ABORT.
ExecEnd(m) ==
  LET received == mc[m].fn # "ABORT_TASK" \/ mc[m].received IN
  /\ Running(m, "EXEC") /\ tm.begun /\ tm.todo = {} /\ tm.sess = None
  /\ mc[m].fn = "CLEAR_TASK_SET" => tm.mutex
  /\ Step([mc[m] EXCEPT !.received = received,
                        !.async = Async /\ received,
                        !.finish = IF Async /\ received THEN @ + 1 ELSE @])
  /\ ua' = ua \cup ({m} \X UaAfterExec(m))
  /\ pr' = AbortedFor(m)
  /\ UNCHANGED <<st, fl, resp, stubs, active, reg, hits>>

\* scst_mgmt_affected_cmds_done(), which takes scst_mutex for any function
AffectedDone(m) ==
  /\ Running(m, "AFFECTED_CMDS_DONE") /\ MutexFree
  /\ Step(mc[m])
  /\ ua' = ua \cup ({m} \X (CASE mc[m].fn = "NEXUS_LOSS" -> Sess
                              [] mc[m].fn = "NEXUS_LOSS_SESS" -> {mc[m].sess}
                              [] OTHER -> {}))
  /\ UNCHANGED <<st, fl, resp, stubs, active, pr, reg, hits>>

\* scst_mgmt_cmd_send_done() and scst_free_mgmt_cmd()
SendDone(m) ==
  /\ Running(m, "DONE")
  /\ mc' = [mc EXCEPT ![m] = NoMcmd("freed")]
  /\ tm' = Idle
  /\ IF m \in PrMcmds
     THEN /\ pr' = PrDec(Origin(m), pr)
          /\ st' = [st EXCEPT ![Origin(m)] = PrState(Origin(m), @)]
     ELSE UNCHANGED <<pr, st>>
  /\ UNCHANGED <<fl, resp, stubs, active, reg, ua, hits>>

\* scst_async_mcmd_completed(), called by the dev handler
AsyncCompleted(m) ==
  /\ mc[m].async
  /\ mc' = [mc EXCEPT ![m] = DecFinish([@ EXCEPT !.async = FALSE])]
  /\ active' = IF mc'[m].st # mc[m].st THEN Append(active, m) ELSE active
  /\ UNCHANGED <<st, fl, resp, stubs, tm, pr, reg, ua, hits>>

(***************************************************************************)
(* A session that is registered meanwhile                                  *)
(***************************************************************************)
\* scst_init_session() takes scst_mutex, scst_pr_init_tgt_dev() in it
\* dev_pr_mutex.
RegLock ==
  /\ reg = "idle" /\ ~tm.mutex /\ Registration # "none"
  /\ Registration = "quiet" => pr.mutex = None
  /\ reg' = "scst_mutex"
  /\ UNCHANGED <<st, fl, resp, mc, stubs, active, tm, pr, ua, hits>>

RegPrLock ==
  /\ reg = "scst_mutex" /\ pr.mutex = None
  /\ reg' = "both"
  /\ pr' = [pr EXCEPT !.mutex = "registering"]
  /\ UNCHANGED <<st, fl, resp, mc, stubs, active, tm, ua, hits>>

RegEnd ==
  /\ reg = "both"
  /\ reg' = "idle"
  /\ pr' = [pr EXCEPT !.mutex = None]
  /\ UNCHANGED <<st, fl, resp, mc, stubs, active, tm, ua, hits>>

CmdStep(c) ==
  \/ TranslateLun(c) \/ InitAborted(c) \/ EndEarly(c) \/ SendForExec(c)
  \/ Exec(c) \/ LocalEvent(c) \/ Complete(c) \/ PreXmit1(c) \/ PreXmit2(c)
  \/ Xmit(c) \/ Finish(c) \/ Free(c)
  \/ PrRefused(c) \/ PrPreempt(c) \/ (\E s \in Sess : PrAbortReg(c, s))
  \/ PrSent(c) \/ PrRelease(c)

McmdStep(m) ==
  \/ McmdInit(m) \/ ExecBegin(m) \/ ClearOthers(m) \/ UnlockList(m)
  \/ (\E s \in Sess : LockList(m, s))
  \/ (\E c \in Cmds : Mark(m, c) \/ Count(m, c))
  \/ ExecEnd(m) \/ AffectedDone(m) \/ SendDone(m)

TmStep == TakeMcmd \/ \E m \in Mgmt : McmdStep(m)

RegStep == RegPrLock \/ RegEnd

Settled ==
  /\ \A c \in Cmds : st[c] = "gone"
  /\ \A m \in Mcmds : mc[m].st = "freed"
  /\ UNCHANGED vars

Next ==
  \/ \E c \in Cmds : Receive(c) \/ CmdStep(c)
  \/ \E m \in Mcmds : RxMgmt(m)
  \/ TmStep
  \/ \E m \in Mgmt : AsyncCompleted(m)
  \/ RegLock \/ RegStep
  \/ Settled

Fairness ==
  /\ \A c \in Cmds : WF_vars(CmdStep(c))
  /\ WF_vars(TmStep)
  /\ WF_vars(\E m \in Mgmt : AsyncCompleted(m))
  /\ WF_vars(RegStep)

Spec == Init /\ [][Next]_vars
FairSpec == Spec /\ Fairness

(***************************************************************************)
(* Properties                                                              *)
(***************************************************************************)
\* The counters of a function are exactly the stubs that will decrement them:
\* cmd_done_wait_count those of commands that have not passed
\* scst_done_cmd_mgmt(), cmd_finish_wait_count those of commands that have not
\* passed scst_finish_cmd_mgmt() and the dev handler's asynchronous part.
CountsExact ==
  \A m \in Mgmt :
    LET On(c) == {x \in Range(stubs[c]) : x.mcmd = m} IN
    /\ mc[m].done = Cardinality({c \in Cmds : /\ ~Done(c) \/ st[c] = "done"
                                              /\ \E x \in On(c) : x.done})
    /\ mc[m].finish = Cardinality({c \in Cmds : \E x \in On(c) : x.finish})
                      + (IF mc[m].async THEN 1 ELSE 0)

\* The function the TM thread works on, those on scst_active_mgmt_cmd_list and
\* those that wait for commands are different functions, and a function waits
\* only while there is somebody to wake it: no wake up is lost or doubled.
NoLostMcmd ==
  \A m \in Mgmt :
    LET Queued == {i \in DOMAIN active : active[i] = m} IN
    CASE mc[m].st \in {"none", "freed"} -> Queued = {} /\ tm.m # m
      [] mc[m].st = "WAITING_AFFECTED_CMDS_DONE" ->
           Queued = {} /\ tm.m # m /\ mc[m].done > 0
      [] mc[m].st = "WAITING_AFFECTED_CMDS_FINISHED" ->
           Queued = {} /\ tm.m # m /\ mc[m].finish > 0
      [] OTHER -> Cardinality(Queued) + (IF tm.m = m THEN 1 ELSE 0) = 1

\* A stub never outlives its function (stub->mcmd would point to freed
\* memory), and a command is finished only with stubs whose finish is counted,
\* what scst_finish_cmd_mgmt() asserts.
StubsSound ==
  \A c \in Cmds : \A x \in Range(stubs[c]) :
    /\ mc[x.mcmd].st \notin {"none", "DONE", "freed"}
    /\ Finished(c) => x.finish

\* The records of task management are right: the variables have their types,
\* what a function waits for is exactly what will be reported to it, and no
\* stub outlives its function.
McmdSound == TypeOK /\ CountsExact /\ StubsSound

\* scst_abort_cmd(): when a function is answered, no command it aborted is
\* executed or will be, and one of the same initiator is finished, so that no
\* response of it can follow the answer.
Quiescent ==
  \A h \in hits :
    mc[h.mcmd].st \in {"DONE", "freed"} =>
      /\ st[h.cmd] \notin {"exec", "pr_post", "pr_wait"}
      /\ h.other \/ Finished(h.cmd)

\* A command that ended without a response is accounted for to its initiator:
\* by the answer to its own function, or by a Unit Attention.
InitiatorTold ==
  \A c \in Cmds :
    Finished(c) /\ resp[c] = "none" =>
      \E h \in hits : /\ h.cmd = c
                      /\ \/ ~h.other
                         \/ <<h.mcmd, SessOf[c]>> \in ua
                         \/ mc[h.mcmd].st = "EXEC"

\* PREEMPT AND ABORT ends once, after all its functions are answered:
\* pr_abort_pending_cnt is what is left to do.
PreemptEndsLast ==
  \A c \in Preempts :
    LET left == Cardinality({s \in Sess : mc[<<c, s>>].st \notin {"none", "freed"}}) IN
    pr.pending[c] = left + (IF st[c] \in {"pr_post", "pr_wait"} THEN 1 ELSE 0)
    /\ (st[c] = "pr_pend" => left > 0)
    /\ (left > 0 => st[c] \in {"pr_post", "pr_wait", "pr_pend"})

\* The TM thread is at a place where it takes scst_mutex.
TmWantsMutex ==
  /\ tm.m # None
  /\ \/ mc[tm.m].st = "AFFECTED_CMDS_DONE"
     \/ mc[tm.m].st = "EXEC" /\ mc[tm.m].fn \in MutexFns /\ ~tm.begun

\* scst_mutex and dev_pr_mutex are not waited for in a circle: no session is
\* registered that holds scst_mutex and waits for dev_pr_mutex, held by a
\* PREEMPT AND ABORT that sleeps until the TM thread, which waits for
\* scst_mutex, has executed its functions.
NoCircularWait ==
  ~ /\ reg = "scst_mutex"
    /\ \E c \in Preempts : /\ pr.mutex = c /\ st[c] = "pr_wait"
                           /\ \E s \in Sess : mc[<<c, s>>].st = "INIT" /\ tm.m # <<c, s>>
    /\ TmWantsMutex

\* scst_mgmt_affected_cmds_done() has the device whose handler it calls.
DeviceKnown ==
  \A m \in Mgmt : mc[m].st = "AFFECTED_CMDS_DONE" /\ mc[m].received => mc[m].tgt_dev

\* Every TM function is answered and freed, those of PREEMPT AND ABORT too:
\* again and again there is none left.
McmdsAnswered == []<>(\A m \in Mgmt : mc[m].st \in {"none", "freed"})

\* Every command is finished and freed, aborted or not, also two PREEMPT AND
\* ABORT commands that wait for dev_pr_mutex and preempt each other.
CmdsEnd == []<>(\A c \in Cmds : st[c] \in {"none", "gone"})
=============================================================================
