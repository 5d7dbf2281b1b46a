-------------------------- MODULE ScstActivityRefs --------------------------
(***************************************************************************)
(* The references of ScstActivity: which step takes or gives back which,   *)
(* that the counters are exact whatever the number of commands, functions  *)
(* and CPUs, and who may start to use what a reference protects.           *)
(***************************************************************************)
EXTENDS ScstActivity, FiniteSetTheorems, TLAPS

(* The types that the proofs need.                                         *)
RefTypes ==
    /\ cpu_cmd_count \in [Cpus -> Int]
    /\ cpc \in [Cmds -> CmdPcs] /\ ccpu \in [Cmds -> Cpus \cup {0}]
    /\ has_tgt_dev \in [Cmds -> BOOLEAN]
    /\ mpc \in [AllMcmds -> McmdPcs] /\ mcpu \in [AllMcmds -> Cpus \cup {0}]
    /\ affected \in [AllMcmds -> SUBSET Cmds] /\ tm_thread \in AllMcmds \cup {None}
    /\ scst_active_mgmt_cmd_list \in Seq(AllMcmds)
    /\ scst_delayed_mgmt_cmd_list \in Seq(AllMcmds)
    /\ init_deferred_mcmd_list \in Seq(AllMcmds)

(* Where a command or a function is when it holds a reference.             *)
CmdRefs ==
    \A c \in Cmds :
        /\ ccpu[c] # 0 => cpc[c] \in {"test", "lookup"} \/ has_tgt_dev[c]
        /\ cpc[c] \in {"test", "lookup"} => ccpu[c] # 0
        /\ has_tgt_dev[c] => ccpu[c] # 0 /\ cpc[c] \in {"active", "finished"}
McmdRefs ==
    /\ \A m \in AllMcmds :
        /\ mcpu[m] # 0 => mpc[m] \in {"test", "lookup", "exec", "wait"}
        /\ mpc[m] \in {"test", "lookup"} => mcpu[m] # 0
    /\ sess = "registered" => mpc[Unreg] = "none"
RefInv == RefTypes /\ CmdRefs /\ McmdRefs /\ CountersExact

(* Who uses what a reference protects.                                     *)
UsesCmd(c) == cpc[c] = "lookup" \/ has_tgt_dev[c]
UsesMcmd(m) == mcpu[m] # 0 /\ mpc[m] # "test"

-----------------------------------------------------------------------------
(* The counters.                                                           *)

(* Only finitely many references can be held at a time.                    *)
LEMMA HoldersFinite ==
    \A k : IsFiniteSet(Holders(k)) /\ IsFiniteSet(Holders(k)')
<1>1. IsFiniteSet(Cmds)
  BY FS_Interval, ActivityAssumption DEF Cmds
<1>2. IsFiniteSet(AllMcmds)
  BY FS_AddElement, ActivityAssumption DEF AllMcmds
<1>3. IsFiniteSet(Cmds \cup AllMcmds)
  BY Zenon, <1>1, <1>2, FS_Union
<1>4. \A k : Holders(k) \subseteq Cmds \cup AllMcmds /\ Holders(k)' \subseteq Cmds \cup AllMcmds
  BY DEF Holders
<1> QED
  BY <1>3, <1>4, FS_Subset

(* scst_get() and scst_put() count.                                        *)
LEMMA CounterType ==
    ASSUME cpu_cmd_count \in [Cpus -> Int], NEW k \in Cpus, scst_get(k) \/ scst_put(k)
    PROVE  cpu_cmd_count' \in [Cpus -> Int]
<1>1. cpu_cmd_count' \in {[cpu_cmd_count EXCEPT ![k] = @ + 1], [cpu_cmd_count EXCEPT ![k] = @ - 1]}
  BY Zenon DEF scst_get, scst_put
<1> QED
  BY <1>1

(* scst_get() by x, which holds nothing yet.                               *)
LEMMA GetCounts ==
    ASSUME RefTypes, CountersExact, NEW k \in Cpus, NEW x,
           scst_get(k), x \notin Holders(k), Holders(k)' = Holders(k) \cup {x},
           \A j \in Cpus \ {k} : Holders(j)' = Holders(j)
    PROVE  CountersExact'
<1>1. ASSUME NEW j \in Cpus
      PROVE  cpu_cmd_count'[j] = Cardinality(Holders(j)')
  <2>1. CASE j = k
    <3>1. Cardinality(Holders(k) \cup {x}) = Cardinality(Holders(k)) + 1
      BY Zenon, HoldersFinite, FS_AddElement
    <3>2. cpu_cmd_count'[k] = cpu_cmd_count[k] + 1
      BY DEF scst_get, RefTypes
    <3> QED
      BY <2>1, <3>1, <3>2 DEF CountersExact
  <2>2. CASE j # k
    <3>1. cpu_cmd_count'[j] = cpu_cmd_count[j]
      BY <2>2 DEF scst_get, RefTypes
    <3> QED
      BY <2>2, <3>1 DEF CountersExact
  <2> QED
    BY <2>1, <2>2
<1> QED
  BY <1>1 DEF CountersExact, Holders

(* scst_put() by x, of the counter it has used.                            *)
LEMMA PutCounts ==
    ASSUME RefTypes, CountersExact, NEW k \in Cpus, NEW x,
           scst_put(k), x \in Holders(k), Holders(k)' = Holders(k) \ {x},
           \A j \in Cpus \ {k} : Holders(j)' = Holders(j)
    PROVE  CountersExact'
<1>1. ASSUME NEW j \in Cpus
      PROVE  cpu_cmd_count'[j] = Cardinality(Holders(j)')
  <2>1. CASE j = k
    <3>1. Cardinality(Holders(k) \ {x}) = Cardinality(Holders(k)) - 1
      BY Zenon, HoldersFinite, FS_RemoveElement
    <3>2. cpu_cmd_count'[k] = cpu_cmd_count[k] - 1
      BY DEF scst_put, RefTypes
    <3> QED
      BY <2>1, <3>1, <3>2 DEF CountersExact
  <2>2. CASE j # k
    <3>1. cpu_cmd_count'[j] = cpu_cmd_count[j]
      BY <2>2 DEF scst_put, RefTypes
    <3> QED
      BY <2>2, <3>1 DEF CountersExact
  <2> QED
    BY <2>1, <2>2
<1> QED
  BY <1>1 DEF CountersExact, Holders

(* A command takes a reference.                                            *)
LEMMA CmdGets ==
    ASSUME RefTypes, CountersExact, NEW c \in Cmds, NEW k \in Cpus, ccpu[c] = 0,
           ccpu' = [ccpu EXCEPT ![c] = k], mcpu' = mcpu, scst_get(k)
    PROVE  CountersExact'
<1>0. c \notin AllMcmds /\ 0 \notin Cpus
  BY ActivityAssumption DEF Cpus
<1>1. \A d \in Cmds : ccpu'[d] = IF d = c THEN k ELSE ccpu[d]
  BY DEF RefTypes
<1>2. c \notin Holders(k) /\ Holders(k)' = Holders(k) \cup {c}
  BY <1>0, <1>1 DEF Holders
<1>3. \A j \in Cpus \ {k} : Holders(j)' = Holders(j)
  BY <1>0, <1>1 DEF Holders
<1> QED
  BY <1>2, <1>3, GetCounts

(* A command gives its reference back.                                     *)
LEMMA CmdPuts ==
    ASSUME RefTypes, CountersExact, NEW c \in Cmds, NEW k \in Cpus, ccpu[c] = k,
           ccpu' = [ccpu EXCEPT ![c] = 0], mcpu' = mcpu, scst_put(k)
    PROVE  CountersExact'
<1>0. c \notin AllMcmds /\ 0 \notin Cpus
  BY ActivityAssumption DEF Cpus
<1>1. \A d \in Cmds : ccpu'[d] = IF d = c THEN 0 ELSE ccpu[d]
  BY DEF RefTypes
<1>2. c \in Holders(k) /\ Holders(k)' = Holders(k) \ {c}
  BY <1>0, <1>1 DEF Holders
<1>3. \A j \in Cpus \ {k} : Holders(j)' = Holders(j)
  BY <1>0, <1>1 DEF Holders
<1> QED
  BY <1>2, <1>3, PutCounts

(* The same for a function that takes one, ...                             *)
LEMMA McmdGets ==
    ASSUME RefTypes, CountersExact, NEW m \in AllMcmds, NEW k \in Cpus, mcpu[m] = 0,
           mcpu' = [mcpu EXCEPT ![m] = k], ccpu' = ccpu, scst_get(k)
    PROVE  CountersExact'
<1>0. m \notin Cmds /\ 0 \notin Cpus
  BY ActivityAssumption DEF Cpus
<1>1. \A n \in AllMcmds : mcpu'[n] = IF n = m THEN k ELSE mcpu[n]
  BY DEF RefTypes
<1>2. m \notin Holders(k) /\ Holders(k)' = Holders(k) \cup {m}
  BY <1>0, <1>1 DEF Holders
<1>3. \A j \in Cpus \ {k} : Holders(j)' = Holders(j)
  BY <1>0, <1>1 DEF Holders
<1> QED
  BY <1>2, <1>3, GetCounts

(* ... and one that gives it back.                                         *)
LEMMA McmdPuts ==
    ASSUME RefTypes, CountersExact, NEW m \in AllMcmds, NEW k \in Cpus, mcpu[m] = k,
           mcpu' = [mcpu EXCEPT ![m] = 0], ccpu' = ccpu, scst_put(k)
    PROVE  CountersExact'
<1>0. m \notin Cmds /\ 0 \notin Cpus
  BY ActivityAssumption DEF Cpus
<1>1. \A n \in AllMcmds : mcpu'[n] = IF n = m THEN 0 ELSE mcpu[n]
  BY DEF RefTypes
<1>2. m \in Holders(k) /\ Holders(k)' = Holders(k) \ {m}
  BY <1>0, <1>1 DEF Holders
<1>3. \A j \in Cpus \ {k} : Holders(j)' = Holders(j)
  BY <1>0, <1>1 DEF Holders
<1> QED
  BY <1>2, <1>3, PutCounts

(* Nobody takes a reference or gives one back.                             *)
LEMMA CountersStay ==
    ASSUME CountersExact, UNCHANGED <<ccpu, mcpu, cpu_cmd_count>>
    PROVE  CountersExact'
BY DEF CountersExact, Holders

-----------------------------------------------------------------------------
(* The steps of commands, functions and the session.                       *)

(* Nobody starts to use what a reference protects, except a command while  *)
(* activity is not suspended, a function that is let through by the flags, *)
(* and ABORT TASK on account of a command that does.                       *)
NoNewUse ==
    /\ \A c \in Cmds : UsesCmd(c)' => ~suspended \/ (UsesCmd(c) /\ ccpu'[c] = ccpu[c])
    /\ \A m \in AllMcmds : UsesMcmd(m)' =>
        \/ UsesMcmd(m) /\ mcpu'[m] = mcpu[m]
        \/ ~suspended \/ suspending
        \/ \E c \in Cmds : UsesCmd(c)
UserStep ==
    /\ RefInv' /\ NoNewUse
    /\ UNCHANGED <<suspended, suspending, suspend_count, suspend_mutex, mgr>>

(* The target driver and the management thread hold no reference.          *)
LEMMA SessionSteps ==
    ASSUME RefInv,
           \/ \E c \in Cmds : SendCmd(c)
           \/ \E m \in Mcmds : SendMcmd(m) \/ PrAbortReg(m)
           \/ UnregisterPost \/ UnregisterPut \/ MgmtThread
    PROVE  UserStep
<1> USE DEF RefInv, RefTypes
<1>1. ASSUME NEW c \in Cmds, SendCmd(c)
      PROVE  UserStep
  <2>1. RefTypes' /\ CmdRefs' /\ McmdRefs' /\ NoNewUse
    BY Zenon, <1>1 DEF SendCmd, tmVars, sessVars, CmdPcs, CmdRefs, McmdRefs, NoNewUse, UsesCmd, UsesMcmd
  <2>2. CountersExact'
    BY <1>1, CountersStay DEF SendCmd, tmVars
  <2> QED
    BY <1>1, <2>1, <2>2 DEF SendCmd, suspVars, UserStep
<1>2. ASSUME NEW m \in AllMcmds, PostMcmd(m), mpc[m] = "none",
             UNCHANGED <<suspVars, mgr, cpu_cmd_count, cmdVars, mcpu, tm_thread,
                         scst_delayed_mgmt_cmd_list>>,
             affected' \in [AllMcmds -> SUBSET Cmds],
             sess' = "registered" => sess = "registered" /\ m # Unreg
      PROVE  UserStep
  <2>1. /\ mpc' \in [AllMcmds -> McmdPcs]
        /\ \A n \in AllMcmds : n # m => mpc'[n] = mpc[n]
        /\ mpc'[m] \in {"active", "deferred"}
    BY Zenon, <1>2 DEF PostMcmd, McmdPcs
  <2>2. /\ scst_active_mgmt_cmd_list' \in Seq(AllMcmds)
        /\ init_deferred_mcmd_list' \in Seq(AllMcmds)
    <3>1. /\ scst_active_mgmt_cmd_list' \in
                 {scst_active_mgmt_cmd_list, Append(scst_active_mgmt_cmd_list, m)}
          /\ init_deferred_mcmd_list' \in
                 {init_deferred_mcmd_list, Append(init_deferred_mcmd_list, m)}
      BY Zenon, <1>2 DEF PostMcmd
    <3>2. \A s \in Seq(AllMcmds) : Append(s, m) \in Seq(AllMcmds)
      OBVIOUS
    <3> QED
      BY Zenon, <3>1, <3>2
  <2>3. RefTypes'
    BY <1>2, <2>1, <2>2 DEF cmdVars
  <2>4. CmdRefs' /\ McmdRefs' /\ NoNewUse
    BY Zenon, <1>2, <2>1 DEF cmdVars, CmdRefs, McmdRefs, NoNewUse, UsesCmd, UsesMcmd, AllMcmds
  <2>5. CountersExact'
    BY <1>2, CountersStay DEF cmdVars
  <2> QED
    BY <1>2, <2>3, <2>4, <2>5 DEF suspVars, UserStep
<1>3. ASSUME NEW m \in Mcmds, SendMcmd(m) \/ PrAbortReg(m)
      PROVE  UserStep
  <2>1. m \in AllMcmds /\ m # Unreg
    BY ActivityAssumption DEF AllMcmds
  <2>2. affected' \in [AllMcmds -> SUBSET Cmds]
    <3>1. CASE SendMcmd(m)
      <4>1. PICK A \in SUBSET Cmds : affected' = [affected EXCEPT ![m] = A]
        BY Zenon, <3>1 DEF SendMcmd
      <4> QED
        BY <2>1, <4>1
    <3>2. CASE PrAbortReg(m)
      BY <3>2 DEF PrAbortReg
    <3> QED
      BY <1>3, <3>1, <3>2
  <2>3. PostMcmd(m) /\ mpc[m] = "none" /\ sess' = sess
        /\ UNCHANGED <<suspVars, mgr, cpu_cmd_count, cmdVars, mcpu, tm_thread,
                       scst_delayed_mgmt_cmd_list>>
    BY Zenon, <1>3 DEF SendMcmd, PrAbortReg
  <2> QED
    BY Zenon, <1>2, <2>1, <2>2, <2>3
<1>4. CASE UnregisterPost
  <2>1. Unreg \in AllMcmds /\ mpc[Unreg] = "none"
    BY <1>4 DEF UnregisterPost, AllMcmds, McmdRefs
  <2>2. PostMcmd(Unreg) /\ sess' = "unregistering" /\ affected' = affected
        /\ UNCHANGED <<suspVars, mgr, cpu_cmd_count, cmdVars, mcpu, tm_thread,
                       scst_delayed_mgmt_cmd_list>>
    BY Zenon, <1>4 DEF UnregisterPost
  <2> QED
    BY <1>2, <2>1, <2>2
<1>5. CASE UnregisterPut \/ InitSession \/ InitResult \/ FreeSession
  <2>1. UNCHANGED <<suspVars, mgr, cpu_cmd_count, cmdVars, tmVars, init_deferred_mcmd_list>>
    BY <1>5 DEF UnregisterPut, InitSession, InitResult, FreeSession
  <2>2. sess' = "registered" => sess = "registered"
    BY <1>5 DEF UnregisterPut, InitSession, InitResult, FreeSession
  <2>3. RefTypes' /\ CmdRefs' /\ McmdRefs' /\ NoNewUse
    BY <2>1, <2>2 DEF cmdVars, tmVars, CmdRefs, McmdRefs, NoNewUse, UsesCmd, UsesMcmd
  <2>4. CountersExact'
    BY <2>1, CountersStay DEF cmdVars, tmVars
  <2> QED
    BY <2>1, <2>3, <2>4 DEF suspVars, UserStep
<1>6. CASE InitDeferred
  <2>1. \A c \in Cmds : cpc'[c] = cpc[c] \/ (cpc[c] = "deferred" /\ cpc'[c] \in {"check", "active"})
    BY <1>6 DEF InitDeferred
  <2>2. cpc' \in [Cmds -> CmdPcs]
    BY <1>6 DEF InitDeferred, CmdPcs
  <2>3. UNCHANGED <<suspVars, mgr, cpu_cmd_count, ccpu, has_tgt_dev, tmVars,
                    init_deferred_mcmd_list, sess>>
    BY <1>6 DEF InitDeferred
  <2>4. RefTypes' /\ CmdRefs' /\ McmdRefs' /\ NoNewUse
    BY Zenon, <2>1, <2>2, <2>3 DEF tmVars, CmdRefs, McmdRefs, NoNewUse, UsesCmd, UsesMcmd
  <2>5. CountersExact'
    BY <2>3, CountersStay DEF tmVars
  <2> QED
    BY <2>3, <2>4, <2>5 DEF suspVars, UserStep
<1>7. CASE InitDone
  <2>1. /\ mpc' = [m \in AllMcmds |-> IF mpc[m] = "deferred" THEN "active" ELSE mpc[m]]
        /\ scst_active_mgmt_cmd_list' = scst_active_mgmt_cmd_list \o init_deferred_mcmd_list
        /\ init_deferred_mcmd_list' = <<>>
        /\ sess' \in {"shut_list", sess}
        /\ UNCHANGED <<suspVars, mgr, cpu_cmd_count, cmdVars, mcpu, affected,
                       scst_delayed_mgmt_cmd_list, tm_thread>>
    BY <1>7 DEF InitDone, scst_sess_put
  <2>2. RefTypes' /\ CmdRefs' /\ NoNewUse
    BY <2>1 DEF cmdVars, McmdPcs, CmdRefs, NoNewUse, UsesCmd, UsesMcmd
  <2>3. McmdRefs'
    BY <2>1 DEF McmdRefs, AllMcmds
  <2>4. CountersExact'
    BY <2>1, CountersStay DEF cmdVars
  <2> QED
    BY <2>1, <2>2, <2>3, <2>4 DEF suspVars, UserStep
<1> QED
  BY <1>1, <1>3, <1>4, <1>5, <1>6, <1>7 DEF MgmtThread

(* A command: scst_translate_lun() takes a reference and tests the flag,   *)
(* in this order; scst_destroy_cmd() gives it back.                        *)
LEMMA CmdSteps ==
    ASSUME RefInv, NEW c \in Cmds, CmdStep(c)
    PROVE  UserStep
<1> USE DEF RefInv, RefTypes
<1>0. ccpu[c] # 0 => ccpu[c] \in Cpus
  OBVIOUS
<1>1. CASE CheckInitList(c) \/ Redirect(c) \/ FinishCmd(c)
  <2>1. /\ cpc' \in [Cmds -> CmdPcs]
        /\ \A d \in Cmds : d # c => cpc'[d] = cpc[d]
        /\ \/ cpc[c] \in {"check", "redirect"} /\ cpc'[c] \in {"redirect", "get", "active", "listed"}
           \/ cpc[c] = "active" /\ cpc'[c] = "finished"
    BY SMTT(30), <1>1 DEF CheckInitList, Redirect, FinishCmd, CmdPcs
  <2>2. UNCHANGED <<cmdRest, cpu_cmd_count, ccpu, has_tgt_dev>>
    BY <1>1 DEF CheckInitList, Redirect, FinishCmd
  <2>3. RefTypes' /\ CmdRefs' /\ McmdRefs' /\ NoNewUse
    BY <2>1, <2>2 DEF cmdRest, tmVars, sessVars, CmdRefs, McmdRefs, NoNewUse, UsesCmd, UsesMcmd
  <2>4. CountersExact'
    BY <2>2, CountersStay DEF cmdRest, tmVars
  <2> QED
    BY <2>2, <2>3, <2>4 DEF cmdRest, suspVars, UserStep
<1>2. ASSUME NEW k \in Cpus, TranslateLunGet(c, k)
      PROVE  UserStep
  <2>1. /\ cpc[c] = "get" /\ cpc' = [cpc EXCEPT ![c] = "test"]
        /\ ccpu' = [ccpu EXCEPT ![c] = k] /\ scst_get(k)
        /\ UNCHANGED <<cmdRest, has_tgt_dev>>
    BY <1>2 DEF TranslateLunGet
  <2>2. ccpu[c] = 0 /\ ~has_tgt_dev[c]
    BY SMTT(30), <2>1 DEF CmdRefs
  <2>3. cpu_cmd_count' \in [Cpus -> Int]
    BY <2>1, CounterType
  <2>4. RefTypes'
    BY <2>1, <2>3 DEF cmdRest, tmVars, sessVars, CmdPcs
  <2>5. CmdRefs' /\ McmdRefs' /\ NoNewUse
    BY <2>1, <2>2, ActivityAssumption
       DEF cmdRest, tmVars, sessVars, CmdRefs, McmdRefs, NoNewUse, UsesCmd, UsesMcmd, Cpus
  <2>6. CountersExact'
    BY Zenon, <2>1, <2>2, CmdGets DEF cmdRest, tmVars
  <2> QED
    BY <2>1, <2>4, <2>5, <2>6 DEF cmdRest, suspVars, UserStep
<1>3. ASSUME NEW k \in Cpus, ccpu[c] = k, scst_put(k), ccpu' = [ccpu EXCEPT ![c] = 0],
             cpc' \in [Cmds -> CmdPcs], \A d \in Cmds : d # c => cpc'[d] = cpc[d],
             cpc'[c] \notin {"test", "lookup"},
             \A d \in Cmds : has_tgt_dev'[d] = (has_tgt_dev[d] /\ d # c),
             has_tgt_dev' \in [Cmds -> BOOLEAN],
             sess' = "registered" => sess = "registered",
             UNCHANGED <<suspVars, mgr, tmVars, init_deferred_mcmd_list>>
      PROVE  UserStep
  <2>1. cpu_cmd_count' \in [Cpus -> Int]
    BY <1>3, CounterType
  <2>2. RefTypes'
    BY <1>3, <2>1 DEF tmVars
  <2>3. CmdRefs' /\ McmdRefs' /\ NoNewUse
    BY <1>3 DEF tmVars, CmdRefs, McmdRefs, NoNewUse, UsesCmd, UsesMcmd
  <2>4. CountersExact'
    BY Zenon, <1>3, CmdPuts DEF tmVars
  <2> QED
    BY <1>3, <2>2, <2>3, <2>4 DEF suspVars, UserStep
<1>4. CASE TranslateLunTest(c)
  <2>1. ccpu[c] \in Cpus /\ ~has_tgt_dev[c]
    BY Zenon, <1>0, <1>4 DEF TranslateLunTest, CmdRefs
  <2>2. UNCHANGED <<cmdRest, has_tgt_dev>> /\ cpc[c] = "test"
    BY <1>4 DEF TranslateLunTest
  <2>3. CASE suspended
    <3>1. /\ scst_put(ccpu[c]) /\ ccpu' = [ccpu EXCEPT ![c] = 0]
          /\ \E s \in {"listed", "redirect"} : cpc' = [cpc EXCEPT ![c] = s]
      BY <1>4, <2>3 DEF TranslateLunTest
    <3> QED
      BY <1>3, <2>1, <2>2, <3>1 DEF cmdRest, sessVars, CmdPcs
  <2>4. CASE ~suspended
    <3>1. cpc' = [cpc EXCEPT ![c] = "lookup"] /\ UNCHANGED <<cpu_cmd_count, ccpu>>
      BY <1>4, <2>4 DEF TranslateLunTest
    <3>2. RefTypes' /\ CmdRefs' /\ McmdRefs' /\ NoNewUse
      BY <2>1, <2>2, <2>4, <3>1, ActivityAssumption
         DEF cmdRest, tmVars, sessVars, CmdPcs, CmdRefs, McmdRefs, NoNewUse, UsesCmd, UsesMcmd
    <3>3. CountersExact'
      BY <2>2, <3>1, CountersStay DEF cmdRest, tmVars
    <3> QED
      BY <2>2, <3>2, <3>3 DEF cmdRest, suspVars, UserStep
  <2> QED
    BY <2>3, <2>4
<1>5. CASE TranslateLunLookup(c)
  <2>1. ccpu[c] \in Cpus /\ ~has_tgt_dev[c]
    BY <1>0, <1>5 DEF TranslateLunLookup, CmdRefs
  <2>2. UNCHANGED cmdRest /\ cpc[c] = "lookup" /\ cpc' = [cpc EXCEPT ![c] = "active"]
    BY <1>5 DEF TranslateLunLookup
  <2>3. CASE ~lun
    <3>1. scst_put(ccpu[c]) /\ ccpu' = [ccpu EXCEPT ![c] = 0] /\ has_tgt_dev' = has_tgt_dev
      BY <1>5, <2>3 DEF TranslateLunLookup
    <3> QED
      BY <1>3, <2>1, <2>2, <3>1 DEF cmdRest, sessVars, CmdPcs
  <2>4. CASE lun
    <3>1. has_tgt_dev' = [has_tgt_dev EXCEPT ![c] = TRUE] /\ UNCHANGED <<cpu_cmd_count, ccpu>>
      BY <1>5, <2>4 DEF TranslateLunLookup
    <3>2. RefTypes' /\ CmdRefs' /\ McmdRefs' /\ NoNewUse
      BY <2>1, <2>2, <3>1, ActivityAssumption
         DEF cmdRest, tmVars, sessVars, CmdPcs, CmdRefs, McmdRefs, NoNewUse, UsesCmd, UsesMcmd, Cpus
    <3>3. CountersExact'
      BY <2>2, <3>1, CountersStay DEF cmdRest, tmVars
    <3> QED
      BY <2>2, <3>2, <3>3 DEF cmdRest, suspVars, UserStep
  <2> QED
    BY <2>3, <2>4
<1>6. CASE DestroyCmd(c)
  <2>1. /\ cpc' = [cpc EXCEPT ![c] = "gone"] /\ ccpu' = [ccpu EXCEPT ![c] = 0]
        /\ has_tgt_dev' = [has_tgt_dev EXCEPT ![c] = FALSE]
        /\ sess' \in {"shut_list", sess}
        /\ UNCHANGED <<suspVars, mgr, tmVars, init_deferred_mcmd_list>>
    BY <1>6 DEF DestroyCmd, scst_sess_put
  <2>2. CASE ccpu[c] # 0
    <3>1. scst_put(ccpu[c])
      BY <1>6, <2>2 DEF DestroyCmd, scst_put_if
    <3> QED
      BY Zenon, <1>0, <1>3, <2>1, <2>2, <3>1 DEF CmdPcs
  <2>3. CASE ccpu[c] = 0
    <3>1. UNCHANGED <<cpu_cmd_count, ccpu>>
      BY <1>6, <2>1, <2>3 DEF DestroyCmd, scst_put_if
    <3>2. RefTypes' /\ CmdRefs' /\ McmdRefs' /\ NoNewUse
      BY <2>1, <3>1 DEF tmVars, CmdPcs, CmdRefs, McmdRefs, NoNewUse, UsesCmd, UsesMcmd
    <3>3. CountersExact'
      BY <2>1, <3>1, CountersStay DEF tmVars
    <3> QED
      BY <2>1, <3>2, <3>3 DEF suspVars, UserStep
  <2> QED
    BY <2>2, <2>3
<1> QED
  BY <1>1, <1>2, <1>4, <1>5, <1>6 DEF CmdStep, InitCmd

(* The init thread takes no reference itself.                              *)
LEMMA InitThreadSteps ==
    ASSUME RefInv, InitThread
    PROVE  UserStep
<1> USE DEF RefInv, RefTypes
<1>1. UNCHANGED threadRest
  BY DEF InitThread, DoJobInit, TestInitCmdList
<1>2. /\ cpc' \in [Cmds -> CmdPcs]
      /\ \A c \in Cmds : cpc'[c] = cpc[c] \/ (cpc[c] = "listed" /\ cpc'[c] \in {"active", "get"})
  <2>1. CASE DoJobInit
    <3>1. \/ cpc' = cpc
          \/ \E i \in 1 .. Len(scst_init_cmd_list), s \in {"active", "get"} :
                /\ cpc[scst_init_cmd_list[i]] = "listed"
                /\ cpc' = [cpc EXCEPT ![scst_init_cmd_list[i]] = s]
      BY Zenon, <2>1 DEF DoJobInit, ReadyAt
    <3> QED
      BY Zenon, <3>1 DEF CmdPcs
  <2>2. CASE TestInitCmdList
    BY <2>2 DEF TestInitCmdList
  <2> QED
    BY <2>1, <2>2 DEF InitThread
<1>3. RefTypes' /\ CmdRefs' /\ McmdRefs' /\ NoNewUse
  BY Zenon, <1>1, <1>2 DEF threadRest, tmVars, sessVars, CmdRefs, McmdRefs, NoNewUse, UsesCmd, UsesMcmd
<1>4. CountersExact'
  BY <1>1, CountersStay DEF threadRest, tmVars
<1> QED
  BY <1>1, <1>3, <1>4 DEF threadRest, suspVars, UserStep

(* The TM thread: scst_get() before the test of the flags again, and       *)
(* without one for ABORT TASK, whose command holds a reference itself.     *)
LEMMA TmSteps ==
    ASSUME RefInv, TmThread
    PROVE  UserStep
<1> USE DEF RefInv, RefTypes
<1>0. Unreg \in AllMcmds /\ None \notin AllMcmds /\ 0 \notin Cpus
  BY ActivityAssumption DEF AllMcmds, None, Cpus
<1>1. ASSUME NEW m \in AllMcmds, NEW k \in Cpus, mcpu[m] = k, scst_put(k),
             mcpu' = [mcpu EXCEPT ![m] = 0], mpc[m] # "none",
             \E s \in {"requeue", "wait", "gone"} : mpc' = [mpc EXCEPT ![m] = s],
             affected' \in [AllMcmds -> SUBSET Cmds], tm_thread' \in AllMcmds \cup {None},
             sess' \in {"shut_list", sess},
             UNCHANGED <<tmRest, scst_active_mgmt_cmd_list, scst_delayed_mgmt_cmd_list>>
      PROVE  UserStep
  <2>1. cpu_cmd_count' \in [Cpus -> Int]
    BY <1>1, CounterType
  <2>2. mpc' \in [AllMcmds -> McmdPcs]
        /\ \A n \in AllMcmds : mpc'[n] = mpc[n] \/ (n = m /\ mpc'[n] \in {"requeue", "wait", "gone"})
    BY <1>1 DEF McmdPcs
  <2>3. RefTypes'
    BY <1>1, <2>1, <2>2 DEF tmRest
  <2>4. CmdRefs' /\ McmdRefs' /\ NoNewUse
    BY <1>0, <1>1, <2>2 DEF tmRest, CmdRefs, McmdRefs, NoNewUse, UsesCmd, UsesMcmd
  <2>5. CountersExact'
    BY Zenon, <1>1, McmdPuts DEF tmRest
  <2> QED
    BY <1>1, <2>3, <2>4, <2>5 DEF tmRest, suspVars, UserStep
<1>2. ASSUME NEW m \in AllMcmds, mpc[m] # "none",
             \E s \in McmdPcs : mpc' = [mpc EXCEPT ![m] = s],
             mpc'[m] = "lookup" => mcpu[m] # 0, mpc'[m] # "test",
             mcpu[m] # 0 => mpc'[m] \in {"lookup", "exec", "wait"},
             mcpu[m] # 0 /\ mpc[m] = "test" => ~suspended \/ suspending,
             affected' \in [AllMcmds -> SUBSET Cmds], tm_thread' \in AllMcmds \cup {None},
             scst_active_mgmt_cmd_list' \in Seq(AllMcmds),
             scst_delayed_mgmt_cmd_list' \in Seq(AllMcmds),
             sess' \in {"shut_list", sess},
             UNCHANGED <<tmRest, cpu_cmd_count, mcpu>>
      PROVE  UserStep
  <2>1. mpc' \in [AllMcmds -> McmdPcs] /\ \A n \in AllMcmds : n # m => mpc'[n] = mpc[n]
    BY <1>2
  <2>2. RefTypes'
    BY <1>2, <2>1 DEF tmRest
  <2>3. CmdRefs' /\ McmdRefs' /\ NoNewUse
    BY <1>0, <1>2, <2>1 DEF tmRest, CmdRefs, McmdRefs, NoNewUse, UsesCmd, UsesMcmd
  <2>4. CountersExact'
    BY <1>2, CountersStay DEF tmRest
  <2> QED
    BY <1>2, <2>2, <2>3, <2>4 DEF tmRest, suspVars, UserStep
<1>3. ASSUME NEW k \in Cpus, McmdInit(k)
      PROVE  UserStep
  <2> DEFINE m == Head(scst_active_mgmt_cmd_list)
             found == {c \in affected[m] : InSessList(c)}
             starts == fn[m] \in LunFns \cup {"TARGET_RESET"}
  <2>1. m \in AllMcmds /\ scst_active_mgmt_cmd_list' \in Seq(AllMcmds)
    BY <1>3 DEF McmdInit
  <2>2. /\ mpc[m] = "active" /\ tm_thread' = m
        /\ mpc' = [mpc EXCEPT ![m] = IF starts THEN "test" ELSE "exec"]
        /\ affected' = [affected EXCEPT ![m] = found]
        /\ UNCHANGED <<tmRest, scst_delayed_mgmt_cmd_list, sess>>
        /\ \/ /\ scst_get(k) /\ mcpu' = [mcpu EXCEPT ![m] = k]
              /\ starts \/ \E c \in found : has_tgt_dev[c]
           \/ UNCHANGED <<cpu_cmd_count, mcpu>> /\ ~starts
    BY Zenon, <1>3 DEF McmdInit
  <2>3. mcpu[m] = 0 /\ found \subseteq Cmds
    BY Zenon, <2>1, <2>2 DEF McmdRefs
  <2> HIDE DEF m, found, starts
  <2>4. affected' \in [AllMcmds -> SUBSET Cmds]
    BY <2>1, <2>2, <2>3
  <2>5. CASE UNCHANGED <<cpu_cmd_count, mcpu>> /\ ~starts
    BY Zenon, <1>2, <2>1, <2>2, <2>3, <2>4, <2>5 DEF McmdPcs
  <2>6. CASE /\ scst_get(k) /\ mcpu' = [mcpu EXCEPT ![m] = k]
             /\ starts \/ \E c \in found : has_tgt_dev[c]
    <3>1. cpu_cmd_count' \in [Cpus -> Int]
      BY <2>6, CounterType
    <3>2. mpc' \in [AllMcmds -> McmdPcs]
          /\ \A n \in AllMcmds : n # m => mpc'[n] = mpc[n] /\ mcpu'[n] = mcpu[n]
      BY <2>1, <2>2, <2>6 DEF McmdPcs
    <3>3. mcpu'[m] = k /\ mpc'[m] = IF starts THEN "test" ELSE "exec"
      BY <2>1, <2>2, <2>6
    <3>4. RefTypes'
      BY <2>1, <2>2, <2>4, <2>6, <3>1, <3>2 DEF tmRest
    <3>5. CmdRefs' /\ McmdRefs'
      BY <1>0, <2>1, <2>2, <3>2, <3>3 DEF tmRest, CmdRefs, McmdRefs
    <3>6. NoNewUse
      BY <2>1, <2>2, <2>3, <2>6, <3>2, <3>3 DEF tmRest, NoNewUse, UsesCmd, UsesMcmd
    <3>7. CountersExact'
      BY Zenon, <2>1, <2>2, <2>3, <2>6, McmdGets DEF tmRest
    <3> QED
      BY <2>2, <3>4, <3>5, <3>6, <3>7 DEF tmRest, suspVars, UserStep
  <2> QED
    BY <2>2, <2>5, <2>6
<1>4. CASE McmdTest
  <2> DEFINE m == tm_thread
  <2>1. m \in AllMcmds /\ mpc[m] = "test" /\ mcpu[m] \in Cpus
    BY <1>4 DEF McmdTest, McmdRefs
  <2>2. UNCHANGED <<tmRest, affected, scst_active_mgmt_cmd_list, scst_delayed_mgmt_cmd_list,
                    tm_thread, sess>>
    BY Zenon, <1>4 DEF McmdTest
  <2>3. CASE suspended /\ ~suspending
    <3>1. scst_put(mcpu[m]) /\ mcpu' = [mcpu EXCEPT ![m] = 0] /\ mpc' = [mpc EXCEPT ![m] = "requeue"]
      BY <1>4, <2>3 DEF McmdTest
    <3> QED
      BY Zenon, <1>1, <2>1, <2>2, <3>1
  <2>4. CASE ~(suspended /\ ~suspending)
    <3>1. /\ \E s \in {"lookup", "exec"} : mpc' = [mpc EXCEPT ![m] = s]
          /\ UNCHANGED <<cpu_cmd_count, mcpu>>
      BY <1>4, <2>4 DEF McmdTest
    <3> QED
      BY Zenon, <1>0, <1>2, <2>1, <2>2, <2>4, <3>1 DEF McmdPcs
  <2> QED
    BY <2>3, <2>4
<1>5. CASE McmdLookup
  <2> DEFINE m == tm_thread
  <2>1. m \in AllMcmds /\ mpc[m] = "lookup" /\ mcpu[m] \in Cpus
    BY <1>5 DEF McmdLookup, McmdRefs
  <2>2. UNCHANGED <<tmRest, affected, scst_active_mgmt_cmd_list, scst_delayed_mgmt_cmd_list, sess>>
    BY Zenon, <1>5 DEF McmdLookup
  <2>3. CASE ~lun
    <3>1. /\ scst_put(mcpu[m]) /\ mcpu' = [mcpu EXCEPT ![m] = 0]
          /\ mpc' = [mpc EXCEPT ![m] = "wait"] /\ tm_thread' = None
      BY <1>5, <2>3 DEF McmdLookup
    <3> QED
      BY Zenon, <1>1, <2>1, <2>2, <3>1
  <2>4. CASE lun
    <3>1. mpc' = [mpc EXCEPT ![m] = "exec"] /\ UNCHANGED <<cpu_cmd_count, mcpu, tm_thread>>
      BY <1>5, <2>4 DEF McmdLookup
    <3> QED
      BY Zenon, <1>2, <2>1, <2>2, <3>1 DEF McmdPcs
  <2> QED
    BY <2>3, <2>4
<1>6. CASE McmdRequeue
  <2> DEFINE m == tm_thread
  <2>1. m \in AllMcmds /\ mpc[m] = "requeue" /\ mcpu[m] = 0
    BY Zenon, <1>6 DEF McmdRequeue, McmdRefs
  <2>2. /\ \E s \in {"delayed", "active"} : mpc' = [mpc EXCEPT ![m] = s]
        /\ scst_active_mgmt_cmd_list' \in
              {scst_active_mgmt_cmd_list, <<m>> \o scst_active_mgmt_cmd_list}
        /\ scst_delayed_mgmt_cmd_list' \in
              {scst_delayed_mgmt_cmd_list, <<m>> \o scst_delayed_mgmt_cmd_list}
        /\ tm_thread' = None
        /\ UNCHANGED <<tmRest, cpu_cmd_count, mcpu, affected, sess>>
    BY Zenon, <1>6 DEF McmdRequeue
  <2>3. \A s \in Seq(AllMcmds) : <<m>> \o s \in Seq(AllMcmds)
    BY <2>1
  <2> QED
    BY Zenon, <1>2, <2>1, <2>2, <2>3 DEF McmdPcs
<1>7. CASE McmdExec
  <2> DEFINE m == tm_thread
  <2>1. m \in AllMcmds /\ mpc[m] = "exec"
    BY <1>7 DEF McmdExec
  <2>2. affected[m] \in SUBSET Cmds
    BY <2>1
  <2>3. PICK hit \in SUBSET Cmds : affected' = [affected EXCEPT ![m] = hit]
    BY Zenon, <1>7, <2>2 DEF McmdExec
  <2>4. /\ mpc' = [mpc EXCEPT ![m] = "wait"] /\ tm_thread' = None
        /\ UNCHANGED <<tmRest, cpu_cmd_count, mcpu, scst_active_mgmt_cmd_list,
                       scst_delayed_mgmt_cmd_list, sess>>
    BY Zenon, <1>7 DEF McmdExec
  <2> QED
    BY Zenon, <1>2, <2>1, <2>3, <2>4 DEF McmdPcs
<1>8. ASSUME NEW m \in AllMcmds, McmdDone(m)
      PROVE  UserStep
  <2>1. /\ mpc[m] = "wait" /\ mpc' = [mpc EXCEPT ![m] = "gone"]
        /\ mcpu' = [mcpu EXCEPT ![m] = 0] /\ affected' = [affected EXCEPT ![m] = {}]
        /\ sess' \in {"shut_list", sess}
        /\ UNCHANGED <<tmRest, scst_active_mgmt_cmd_list, scst_delayed_mgmt_cmd_list, tm_thread>>
    BY <1>8 DEF McmdDone, scst_sess_put
  <2>2. CASE mcpu[m] # 0
    <3>1. scst_put(mcpu[m])
      BY <1>8, <2>2 DEF McmdDone, McmdRef, scst_put_if
    <3> QED
      BY Zenon, <1>1, <2>1, <2>2, <3>1
  <2>3. CASE mcpu[m] = 0
    <3>1. UNCHANGED <<cpu_cmd_count, mcpu>>
      BY <1>8, <2>1, <2>3 DEF McmdDone, McmdRef, scst_put_if
    <3> QED
      BY Zenon, <1>2, <2>1, <2>3, <3>1 DEF McmdPcs
  <2> QED
    BY <2>2, <2>3
<1> QED
  BY <1>3, <1>4, <1>5, <1>6, <1>7, <1>8 DEF TmThread
=============================================================================
