----------------------------- MODULE MCScstCmd -----------------------------
(* The instances of ScstCmd that TLC checks: kinds of target and device,   *)
(* each from initial states of its own in one run.                         *)
EXTENDS ScstCmd

CONSTANTS c1, c2, t1, t2

(* No faults, nothing held back: the record the loads differ from.         *)
Plain == [cmds |-> {c1, c2}, threads |-> {t1, t2}, hq |-> {}, preproc |-> FALSE,
          sn_on_restart |-> FALSE, rdy |-> FALSE, hw |-> FALSE, atomic |-> {},
          ctxs |-> {"THREAD"}, double_ua |-> FALSE, on_done |-> FALSE, fulls |-> 0,
          aborts |-> FALSE, fails |-> FALSE, holds |-> {}, writes |-> {c1}, selects |-> {}]

(* A driver with preprocessing, with everything that can fail or hold a    *)
(* command back.                                                           *)
Network == [Plain EXCEPT !.cmds = {c1}, !.threads = {t1}, !.preproc = TRUE,
                         !.sn_on_restart = TRUE, !.ctxs = {"DIRECT", "THREAD"},
                         !.aborts = TRUE, !.fails = TRUE, !.selects = {c1},
                         !.holds = {"parse", "alloc", "deferred", "blocked"}]
(* Hardware, with callbacks in atomic context: it may keep each of two     *)
(* commands, be out of resources for both, or fail a single one.           *)
AllAtomic == {"parse", "rdy_to_xfer", "dev_done", "xmit_response"}
Adapter == [Plain EXCEPT !.threads = {t1}, !.rdy = TRUE, !.atomic = AllAtomic,
                         !.ctxs = {"TASKLET"}]
Slow == [Adapter EXCEPT !.hw = TRUE]
Full == [Adapter EXCEPT !.fulls = 2, !.hq = {c2}]
Faulty == [Adapter EXCEPT !.cmds = {c1}, !.hw = TRUE, !.fails = TRUE, !.aborts = TRUE,
                          !.atomic = @ \ {"xmit_response"},
                          !.ctxs = {"DIRECT_ATOMIC", "SAME"}]
(* Two threads: commands in order, and a pass-through device with double   *)
(* UAs, whose SN is passed on by scst_post_exec_sn() or scst_dev_done().   *)
Ordered == [Plain EXCEPT !.holds = {"deferred"}]
PassThrough == {[Plain EXCEPT !.cmds = {c1}, !.double_ua = TRUE, !.on_done = b, !.aborts = TRUE,
                              !.ctxs = {"DIRECT_ATOMIC", "TASKLET"},
                              !.atomic = {"dev_done", "xmit_response"}] : b \in BOOLEAN}

MCLoads == {Network, Slow, Full, Faulty, Ordered} \cup PassThrough
=============================================================================
