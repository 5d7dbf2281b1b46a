------------------------- MODULE ScstActivityProofs -------------------------
(***************************************************************************)
(* Proofs that, for any number of commands, functions, CPUs and threads    *)
(* that suspend activity, the per-CPU counters are exact (CountersExact)   *)
(* and a thread for which scst_suspend_activity() has returned is alone    *)
(* with the configuration (Exclusive).                                     *)
(*                                                                         *)
(* The argument is the one of the two waits.  A reference that protects    *)
(* something is one whose holder has got past its test of the flags        *)
(* (UsesCmd, UsesMcmd); the others are about to be given back.  While      *)
(* activity is suspended no command starts to use one, so that a scan of   *)
(* the counters that adds up to zero has seen the last command go, though  *)
(* it reads them one by one.  Functions go on until the first wait is      *)
(* over; then suspending is cleared, and the second scan sees the last of  *)
(* them go.                                                                *)
(***************************************************************************)
EXTENDS ScstActivityRefs

(* The types of the threads that suspend and resume.                       *)
Thread == [pc : MgrPcs, pass : 0 .. 2, cpu : 0 .. NCpus + 1, sum : Int]
MgrTypes ==
    /\ suspended \in BOOLEAN /\ suspending \in BOOLEAN
    /\ suspend_count \in Nat /\ suspend_mutex \in Managers \cup {None}
    /\ mgr \in [Managers -> Thread]

(* The threads that have counted themselves in suspend_count, and those    *)
(* that wait for the counters.                                             *)
Waiting(t) == mgr[t].pc \in {"scan", "sleep"}
Counted == {t \in Managers : mgr[t].pc \in {"scan", "sleep", "inside", "clear"}}

OwnsMutex(t) ==
    mgr[t].pc \in {"scan", "sleep", "clear", "wake", "splice"} => suspend_mutex = t
WaitsAlone(t) ==
    Waiting(t) =>
        /\ Counted = {t}
        /\ mgr[t].pass \in {1, 2} /\ (suspending <=> mgr[t].pass = 1)
        /\ mgr[t].sum >= 0 /\ (mgr[t].pc = "scan" => mgr[t].cpu >= 1)
MgrInv ==
    /\ MgrTypes
    /\ suspend_count = Cardinality(Counted)
    /\ suspended <=> Counted # {}
    /\ \A t \in Managers : OwnsMutex(t) /\ WaitsAlone(t)
    /\ suspending => \E t \in Managers : Waiting(t)

(* What a scan that has found zero so far says about the counters that it  *)
(* has read, and what is left when a wait is over.                         *)
NoCmdUses == \A c \in Cmds : ~UsesCmd(c)
NoMcmdUses == \A m \in AllMcmds : ~UsesMcmd(m)
Scanned(t) ==
    /\ mgr[t].pc = "scan" /\ mgr[t].pass = 1 /\ mgr[t].sum = 0 =>
         \A c \in Cmds : UsesCmd(c) => ccpu[c] >= mgr[t].cpu
    /\ Waiting(t) /\ mgr[t].pass = 2 => NoCmdUses
    /\ mgr[t].pc = "scan" /\ mgr[t].pass = 2 /\ mgr[t].sum = 0 =>
         \A m \in AllMcmds : UsesMcmd(m) => mcpu[m] >= mgr[t].cpu
    /\ mgr[t].pc = "inside" => NoCmdUses /\ NoMcmdUses
ScanInv == \A t \in Managers : Scanned(t)

IInv == RefInv /\ MgrInv /\ ScanInv

-----------------------------------------------------------------------------
(* The threads that suspend and resume.                                    *)

(* Finitely many threads suspend.                                          *)
LEMMA CountedFinite == IsFiniteSet(Counted) /\ IsFiniteSet(Counted')
<1>1. Counted \subseteq Managers /\ Counted' \subseteq Managers
  BY DEF Counted
<1> QED
  BY <1>1, FS_Subset, ActivityAssumption

(* What a scan has found is not undone by the steps of the others.         *)
LEMMA UserKeeps ==
    ASSUME IInv, UserStep
    PROVE  IInv'
<1>1. UNCHANGED <<suspended, suspending, suspend_count, suspend_mutex, mgr>> /\ RefInv' /\ NoNewUse
  BY DEF UserStep
<1>2. MgrInv'
  BY <1>1 DEF IInv, MgrInv, MgrTypes, OwnsMutex, WaitsAlone, Counted, Waiting
<1>3. ASSUME NEW t \in Managers
      PROVE  Scanned(t)'
  <2>1. Waiting(t) \/ mgr[t].pc = "inside" => suspended
    BY DEF IInv, MgrInv, Counted, Waiting
  <2>2. Waiting(t) /\ mgr[t].pass = 2 => ~suspending
    BY DEF IInv, MgrInv, WaitsAlone
  <2>3. mgr[t].pc = "inside" => ~suspending
    <3>1. mgr[t].pc = "inside" => t \in Counted /\ ~Waiting(t)
      BY DEF Counted, Waiting
    <3> QED
      BY <3>1 DEF IInv, MgrInv, WaitsAlone
  <2>4. mgr[t].pc = "scan" => Waiting(t)
    BY DEF Waiting
  <2>5. (Waiting(t) <=> Waiting(t)') /\ Scanned(t)
    BY <1>1 DEF Waiting, IInv, ScanInv
  <2> QED
    BY <1>1, <2>1, <2>2, <2>3, <2>4, <2>5 DEF NoNewUse, Scanned, NoCmdUses, NoMcmdUses
<1> QED
  BY <1>1, <1>2, <1>3 DEF IInv, ScanInv

(* A thread that suspends or resumes moves nobody's reference; at most the *)
(* delayed functions become active.                                        *)
LEMMA MgrKeepsRefs ==
    ASSUME RefInv, UNCHANGED <<cpu_cmd_count, cmdVars, mcpu, affected, tm_thread, sessVars>>,
           \/ UNCHANGED <<mpc, scst_active_mgmt_cmd_list, scst_delayed_mgmt_cmd_list>>
           \/ /\ mpc' = [m \in AllMcmds |-> IF mpc[m] = "delayed" THEN "active" ELSE mpc[m]]
              /\ scst_active_mgmt_cmd_list' =
                    scst_delayed_mgmt_cmd_list \o scst_active_mgmt_cmd_list
              /\ scst_delayed_mgmt_cmd_list' = <<>>
    PROVE  /\ RefInv'
           /\ \A c \in Cmds : UsesCmd(c)' <=> UsesCmd(c)
           /\ \A m \in AllMcmds : UsesMcmd(m)' <=> UsesMcmd(m)
<1>1. CountersExact'
  BY CountersStay DEF RefInv, cmdVars
<1>2. RefTypes'
  <2>1. \A s, u \in Seq(AllMcmds) : s \o u \in Seq(AllMcmds) /\ <<>> \in Seq(AllMcmds)
    OBVIOUS
  <2>2. /\ scst_active_mgmt_cmd_list' \in Seq(AllMcmds)
        /\ scst_delayed_mgmt_cmd_list' \in Seq(AllMcmds)
    BY Zenon, <2>1 DEF RefInv, RefTypes
  <2>3. mpc' \in [AllMcmds -> McmdPcs]
    BY DEF RefInv, RefTypes, McmdPcs
  <2> QED
    BY <2>2, <2>3 DEF RefInv, RefTypes, cmdVars, sessVars
<1>3. CmdRefs'
  BY DEF RefInv, CmdRefs, cmdVars
<1>4. \A c \in Cmds : UsesCmd(c)' <=> UsesCmd(c)
  BY DEF cmdVars, UsesCmd
<1>5. McmdRefs' /\ \A m \in AllMcmds : UsesMcmd(m)' <=> UsesMcmd(m)
  <2>1. Unreg \in AllMcmds
    BY DEF AllMcmds
  <2>2. \A m \in AllMcmds : mpc'[m] = mpc[m] \/ (mpc[m] = "delayed" /\ mpc'[m] = "active")
    OBVIOUS
  <2> QED
    BY <2>1, <2>2 DEF RefInv, RefTypes, McmdRefs, sessVars, UsesMcmd
<1> QED
  BY <1>1, <1>2, <1>3, <1>4, <1>5 DEF RefInv

(* One thread moves, the references stay: what is said of the other        *)
(* threads holds on, and Counted changes by this thread.                   *)
RefsStay ==
    /\ UNCHANGED <<ccpu, mcpu>>
    /\ \A c \in Cmds : UsesCmd(c)' <=> UsesCmd(c)
    /\ \A m \in AllMcmds : UsesMcmd(m)' <=> UsesMcmd(m)
LEMMA OneMoves ==
    ASSUME IInv, NEW t \in Managers, NEW r \in Thread, mgr' = [mgr EXCEPT ![t] = r], RefsStay
    PROVE  /\ mgr' \in [Managers -> Thread] /\ mgr'[t] = r
           /\ \A u \in Managers \ {t} : mgr'[u] = mgr[u] /\ Scanned(u)'
           /\ r.pc \in {"scan", "sleep", "inside", "clear"} => Counted' = Counted \cup {t}
           /\ r.pc \notin {"scan", "sleep", "inside", "clear"} => Counted' = Counted \ {t}
<1>1. mgr' \in [Managers -> Thread] /\ mgr'[t] = r /\ \A u \in Managers \ {t} : mgr'[u] = mgr[u]
  BY DEF IInv, MgrInv, MgrTypes
<1>2. ASSUME NEW u \in Managers \ {t}
      PROVE  Scanned(u)'
  <2>1. Scanned(u) /\ mgr'[u] = mgr[u]
    BY <1>1 DEF IInv, ScanInv
  <2> QED
    BY <2>1 DEF RefsStay, Scanned, Waiting, NoCmdUses, NoMcmdUses
<1>3. /\ r.pc \in {"scan", "sleep", "inside", "clear"} => Counted' = Counted \cup {t}
      /\ r.pc \notin {"scan", "sleep", "inside", "clear"} => Counted' = Counted \ {t}
  BY <1>1 DEF Counted
<1> QED
  BY <1>1, <1>2, <1>3

(* A free mutex means that nobody waits, and that those who are counted    *)
(* are inside.                                                             *)
LEMMA MutexFree ==
    ASSUME IInv, suspend_mutex = None
    PROVE  /\ ~suspending /\ \A u \in Managers : ~Waiting(u)
           /\ \A u \in Counted : mgr[u].pc = "inside"
<1>1. None \notin Managers
  BY ActivityAssumption DEF None
<1> QED
  BY <1>1 DEF IInv, MgrInv, OwnsMutex, Waiting, Counted

(* An owner of the mutex means that nobody else waits or resumes.          *)
LEMMA MutexTaken ==
    ASSUME IInv, NEW t \in Managers, suspend_mutex = t
    PROVE  \A u \in Managers \ {t} : ~Waiting(u) /\ mgr[u].pc \in {"idle", "inside"}
BY DEF IInv, MgrInv, MgrTypes, Thread, MgrPcs, OwnsMutex, Waiting

(* There is a counter, and a reference is of one of them.                  *)
LEMMA RefRange ==
    /\ NCpus \in Nat \ {0} /\ 1 \in 0 .. NCpus + 1 /\ 0 \in 0 .. NCpus + 1
    /\ IInv => \A c \in Cmds : ccpu[c] \in 0 .. NCpus
    /\ IInv => \A m \in AllMcmds : mcpu[m] \in 0 .. NCpus
<1>1. NCpus \in Nat \ {0}
  BY ActivityAssumption
<1> QED
  BY <1>1 DEF IInv, RefInv, RefTypes, Cpus

(* The records of a thread that goes to sleep, and of one that is woken.   *)
Sleeper(q, pass) == [q EXCEPT !.pc = "sleep", !.pass = pass]
LEMMA SleeperThread ==
    ASSUME NEW q \in Thread, NEW pass \in 0 .. 2
    PROVE  /\ Sleeper(q, pass) \in Thread /\ Sleeper(q, pass).pc = "sleep"
           /\ Sleeper(q, pass).pass = pass /\ Sleeper(q, pass).sum = q.sum
<1>1. "sleep" \in MgrPcs
  BY DEF MgrPcs
<1> QED
  BY Zenon, <1>1 DEF Thread, Sleeper

Woken(q) == [q EXCEPT !.pc = "scan", !.cpu = 1, !.sum = 0]
LEMMA WokenThread ==
    ASSUME NEW q \in Thread
    PROVE  /\ Woken(q) \in Thread /\ Woken(q).pc = "scan" /\ Woken(q).pass = q.pass
           /\ Woken(q).cpu = 1 /\ Woken(q).sum = 0
<1> DEFINE r == [q EXCEPT !.pc = "scan", !.cpu = 1]
<1>1. "scan" \in MgrPcs /\ 1 \in 0 .. NCpus + 1
  BY RefRange DEF MgrPcs
<1>2. r \in Thread
  BY Zenon, <1>1 DEF Thread
<1>3. Woken(q) = [r EXCEPT !.sum = 0]
  BY DEF Woken
<1>4. Woken(q) \in Thread
  <2> HIDE DEF r
  <2> QED
    BY <1>2, <1>3 DEF Thread
<1>5. /\ Woken(q).pc = "scan" /\ Woken(q).pass = q.pass
      /\ Woken(q).cpu = 1 /\ Woken(q).sum = 0
  BY DEF Thread, Woken
<1> QED
  BY <1>4, <1>5

(* Only the first one to suspend sets the flags and waits; who comes later *)
(* relies on those who are inside.                                         *)
LEMMA SuspendStartStep ==
    ASSUME IInv, NEW t \in Managers, SuspendStart(t), RefsStay
    PROVE  MgrInv' /\ ScanInv'
<1>1. mgr[t] \in Thread /\ t \notin Counted /\ suspend_mutex = None /\ t # None
      /\ suspend_count' = suspend_count + 1 /\ suspend_count \in Nat
  BY ActivityAssumption DEF SuspendStart, IInv, MgrInv, MgrTypes, Counted, None
<1>2. Cardinality(Counted \cup {t}) = suspend_count + 1
  BY Zenon, <1>1, CountedFinite, FS_AddElement DEF IInv, MgrInv
<1>3. CASE suspend_count > 0
  <2> DEFINE r == [mgr[t] EXCEPT !.pc = "inside"]
  <2>1. r \in Thread /\ r.pc = "inside"
    BY <1>1 DEF Thread, MgrPcs
  <2>2. mgr' = [mgr EXCEPT ![t] = r] /\ UNCHANGED <<suspended, suspending, suspend_mutex>>
    BY <1>3 DEF SuspendStart
  <2> HIDE DEF r
  <2>3. /\ mgr' \in [Managers -> Thread] /\ mgr'[t] = r
        /\ \A u \in Managers \ {t} : mgr'[u] = mgr[u] /\ Scanned(u)'
        /\ Counted' = Counted \cup {t}
    BY Zenon, <2>1, <2>2, OneMoves
  <2>4. Counted # {}
    BY <1>3, FS_EmptySet DEF IInv, MgrInv
  <2>5. NoCmdUses /\ NoMcmdUses
    BY <1>1, <2>4, MutexFree DEF IInv, ScanInv, Scanned, Counted
  <2>6. Scanned(t)'
    BY <2>1, <2>3, <2>5 DEF Scanned, Waiting, RefsStay, NoCmdUses, NoMcmdUses
  <2>7. \A u \in Managers : OwnsMutex(u)' /\ ~Waiting(u)'
    BY <1>1, <2>1, <2>2, <2>3, MutexFree DEF OwnsMutex, Waiting, IInv, MgrInv
  <2>8. MgrTypes'
    BY <1>1, <2>2, <2>3 DEF IInv, MgrInv, MgrTypes
  <2>9. suspended' /\ ~suspending'
    BY <1>1, <2>2, <2>4, MutexFree DEF IInv, MgrInv
  <2> QED
    BY <1>1, <1>2, <2>3, <2>6, <2>7, <2>8, <2>9 DEF MgrInv, ScanInv, WaitsAlone
<1>4. CASE suspend_count = 0
  <2> DEFINE r == [pc |-> "scan", pass |-> 1, cpu |-> 1, sum |-> 0]
  <2>1. r \in Thread
    BY RefRange DEF Thread, MgrPcs
  <2>2. /\ mgr' = [mgr EXCEPT ![t] = r] /\ suspended' = TRUE /\ suspending' = TRUE
        /\ suspend_mutex' = t
    BY <1>4 DEF SuspendStart
  <2>3. /\ mgr' \in [Managers -> Thread] /\ mgr'[t] = r
        /\ \A u \in Managers \ {t} : mgr'[u] = mgr[u] /\ Scanned(u)'
        /\ Counted' = Counted \cup {t}
    BY Zenon, <2>1, <2>2, OneMoves
  <2>4. Counted' = {t}
    BY Zenon, <1>4, <2>3, FS_EmptySet, CountedFinite DEF IInv, MgrInv
  <2>5. \A c \in Cmds : UsesCmd(c) => ccpu[c] >= 1
    BY ActivityAssumption DEF IInv, RefInv, RefTypes, CmdRefs, UsesCmd, Cpus
  <2>6. Scanned(t)'
    BY <2>3, <2>5 DEF Scanned, Waiting, RefsStay
  <2>7. \A u \in Managers : OwnsMutex(u)'
    BY <1>1, <2>2, <2>3, MutexFree, ActivityAssumption DEF OwnsMutex, IInv, MgrInv, None
  <2>8. \A u \in Managers : u # t => ~Waiting(u)'
    BY <1>1, <2>3, MutexFree DEF Waiting
  <2>9. WaitsAlone(t)' /\ Waiting(t)'
    BY <2>2, <2>3, <2>4 DEF WaitsAlone, Waiting
  <2>10. MgrTypes'
    BY <1>1, <2>2, <2>3 DEF IInv, MgrInv, MgrTypes
  <2> QED
    BY <1>1, <1>2, <2>2, <2>3, <2>4, <2>6, <2>7, <2>8, <2>9, <2>10
       DEF MgrInv, ScanInv, WaitsAlone
<1> QED
  BY <1>1, <1>3, <1>4

(* A step of the thread that waits, after which it still does.             *)
LEMMA KeepsWaiting ==
    ASSUME IInv, NEW t \in Managers, Waiting(t), RefsStay,
           NEW r \in Thread, mgr' = [mgr EXCEPT ![t] = r],
           r.pc \in {"scan", "sleep"}, r.pass \in {1, 2}, r.sum >= 0, r.pc = "scan" => r.cpu >= 1,
           UNCHANGED <<suspended, suspend_count, suspend_mutex>>,
           suspending' \in BOOLEAN, suspending' <=> r.pass = 1,
           r.pc = "scan" /\ r.pass = 1 /\ r.sum = 0 =>
              \A c \in Cmds : UsesCmd(c) => ccpu[c] >= r.cpu,
           r.pass = 2 => NoCmdUses,
           r.pc = "scan" /\ r.pass = 2 /\ r.sum = 0 =>
              \A m \in AllMcmds : UsesMcmd(m) => mcpu[m] >= r.cpu
    PROVE  MgrInv' /\ ScanInv'
<1>1. Counted = {t} /\ suspend_mutex = t
  BY DEF IInv, MgrInv, WaitsAlone, OwnsMutex, Waiting
<1>2. /\ mgr' \in [Managers -> Thread] /\ mgr'[t] = r
      /\ \A u \in Managers \ {t} : mgr'[u] = mgr[u] /\ Scanned(u)'
      /\ Counted' = Counted \cup {t}
  BY Zenon, OneMoves
<1>3. Counted' = Counted
  BY <1>1, <1>2
<1>4. \A u \in Managers \ {t} : ~Waiting(u)' /\ OwnsMutex(u)'
  BY <1>1, <1>2, MutexTaken DEF Waiting, OwnsMutex
<1>5. OwnsMutex(t)' /\ WaitsAlone(t)' /\ Waiting(t)'
  BY <1>1, <1>2, <1>3 DEF Waiting, OwnsMutex, WaitsAlone
<1>6. Scanned(t)'
  BY <1>2 DEF Scanned, Waiting, RefsStay, NoCmdUses, NoMcmdUses
<1>7. MgrTypes'
  BY <1>2 DEF IInv, MgrInv, MgrTypes
<1>8. suspend_count' = Cardinality(Counted') /\ (suspended' <=> Counted' # {})
  BY <1>3 DEF IInv, MgrInv
<1> QED
  BY <1>2, <1>4, <1>5, <1>6, <1>7, <1>8 DEF MgrInv, ScanInv, WaitsAlone

(* A counter that is read as zero has no holder.                           *)
LEMMA ScanCpuStep ==
    ASSUME IInv, NEW t \in Managers, ScanCpu(t), RefsStay
    PROVE  MgrInv' /\ ScanInv'
<1> DEFINE k == mgr[t].cpu
           r == [mgr[t] EXCEPT !.sum = @ + cpu_cmd_count[k], !.cpu = @ + 1]
<1>1. Waiting(t) /\ mgr[t] \in Thread /\ Scanned(t) /\ mgr[t].pc = "scan" /\ k <= NCpus
  BY DEF ScanCpu, IInv, MgrInv, MgrTypes, ScanInv, Waiting
<1>2. /\ mgr[t].pass \in {1, 2} /\ (suspending <=> mgr[t].pass = 1)
      /\ mgr[t].sum >= 0 /\ k >= 1
  BY <1>1 DEF IInv, MgrInv, WaitsAlone
<1>3. k \in Cpus /\ k + 1 \in 0 .. NCpus + 1 /\ k \in Nat /\ mgr[t].sum \in Int
  BY <1>1, <1>2, ActivityAssumption DEF Cpus, Thread
<1>4. cpu_cmd_count[k] = Cardinality(Holders(k)) /\ cpu_cmd_count[k] \in Nat
  BY <1>3, HoldersFinite, FS_CardinalityType DEF IInv, RefInv, CountersExact
<1>5. cpu_cmd_count[k] = 0 => Holders(k) = {}
  BY Zenon, <1>4, HoldersFinite, FS_EmptySet
<1>6. /\ r \in Thread /\ r.pc = mgr[t].pc /\ r.pass = mgr[t].pass
      /\ r.sum = mgr[t].sum + cpu_cmd_count[k] /\ r.cpu = k + 1
  <2> DEFINE n == mgr[t].sum + cpu_cmd_count[k]
  <2>1. n \in Int /\ r = [mgr[t] EXCEPT !.sum = n, !.cpu = k + 1]
    BY <1>3, <1>4
  <2> HIDE DEF n, k, r
  <2>2. r \in Thread /\ r.pc = mgr[t].pc /\ r.pass = mgr[t].pass /\ r.sum = n /\ r.cpu = k + 1
    BY Zenon, <1>1, <1>3, <2>1 DEF Thread
  <2> QED
    BY <2>2 DEF n
<1>7. mgr' = [mgr EXCEPT ![t] = r] /\ UNCHANGED suspVars
  BY Zenon DEF ScanCpu
<1> HIDE DEF r, k
<1>8. r.sum = 0 => mgr[t].sum = 0 /\ Holders(k) = {}
  BY <1>2, <1>3, <1>4, <1>5, <1>6
<1>9. r.pass = 1 /\ r.sum = 0 => \A c \in Cmds : UsesCmd(c) => ccpu[c] >= r.cpu
  <2>1. r.pass = 1 /\ r.sum = 0 => \A c \in Cmds : UsesCmd(c) => ccpu[c] >= k /\ ccpu[c] # k
    BY <1>1, <1>6, <1>8 DEF Scanned, Holders, k
  <2>2. \A c \in Cmds : ccpu[c] \in Nat
    BY DEF IInv, RefInv, RefTypes, Cpus
  <2> QED
    BY <1>3, <1>6, <2>1, <2>2
<1>10. r.pass = 2 /\ r.sum = 0 => \A m \in AllMcmds : UsesMcmd(m) => mcpu[m] >= r.cpu
  <2>1. r.pass = 2 /\ r.sum = 0 => \A m \in AllMcmds : UsesMcmd(m) => mcpu[m] >= k /\ mcpu[m] # k
    BY <1>1, <1>6, <1>8 DEF Scanned, Holders, k
  <2>2. \A m \in AllMcmds : mcpu[m] \in Nat
    BY DEF IInv, RefInv, RefTypes, Cpus
  <2> QED
    BY <1>3, <1>6, <2>1, <2>2
<1>11. r.pass = 2 => NoCmdUses
  BY <1>1, <1>6 DEF Scanned
<1>12. suspending' \in BOOLEAN /\ (suspending' <=> r.pass = 1) /\ r.sum >= 0 /\ r.cpu >= 1
       /\ UNCHANGED <<suspended, suspend_count, suspend_mutex>>
  BY <1>2, <1>3, <1>4, <1>6, <1>7 DEF suspVars, IInv, MgrInv, MgrTypes
<1> QED
  BY Zenon, <1>1, <1>2, <1>6, <1>7, <1>9, <1>10, <1>11, <1>12, KeepsWaiting

(* A scan that has read every counter and found zero: after the first wait *)
(* there is no command left, after the second no function.                 *)
LEMMA ScanEndStep ==
    ASSUME IInv, NEW t \in Managers, ScanEnd(t), RefsStay
    PROVE  MgrInv' /\ ScanInv'
<1>1. Waiting(t) /\ mgr[t] \in Thread /\ Scanned(t) /\ mgr[t].pc = "scan" /\ mgr[t].cpu = NCpus + 1
  BY DEF ScanEnd, IInv, MgrInv, MgrTypes, ScanInv, Waiting
<1>2. /\ mgr[t].pass \in {1, 2} /\ (suspending <=> mgr[t].pass = 1) /\ suspending \in BOOLEAN
      /\ Counted = {t} /\ suspend_mutex = t
  BY <1>1 DEF IInv, MgrInv, MgrTypes, WaitsAlone, OwnsMutex
<1>3. /\ \A c \in Cmds : ~(ccpu[c] >= NCpus + 1)
      /\ \A m \in AllMcmds : ~(mcpu[m] >= NCpus + 1)
  BY RefRange
<1>4. UNCHANGED <<suspended, suspend_count>>
  BY Zenon DEF ScanEnd
<1>5. CASE mgr[t].sum # 0
  <2> DEFINE r == Sleeper(Idle, mgr[t].pass)
  <2>1. Idle \in Thread /\ Idle.sum = 0 /\ mgr[t].pass \in 0 .. 2
    BY <1>1, RefRange DEF Idle, Thread, MgrPcs
  <2>2. mgr' = [mgr EXCEPT ![t] = r] /\ UNCHANGED <<suspending, suspend_mutex>>
    BY <1>5 DEF ScanEnd, Sleeper
  <2>3. r \in Thread /\ r.pc = "sleep" /\ r.pass = mgr[t].pass /\ r.sum >= 0 /\ r.pc # "scan"
    BY <2>1, SleeperThread
  <2> HIDE DEF r
  <2>4. r.pass = 2 => NoCmdUses
    BY <1>1, <2>3 DEF Scanned
  <2> QED
    BY Zenon, <1>1, <1>2, <1>4, <2>2, <2>3, <2>4, KeepsWaiting
<1>6. CASE mgr[t].sum = 0 /\ mgr[t].pass = 1
  <2> DEFINE r == [pc |-> "scan", pass |-> 2, cpu |-> 1, sum |-> 0]
  <2>1. /\ r \in Thread /\ r.pc = "scan" /\ r.pass = 2 /\ r.pass # 1 /\ r.cpu = 1
        /\ r.sum >= 0 /\ r.cpu >= 1
    BY RefRange DEF Thread, MgrPcs
  <2>2. mgr' = [mgr EXCEPT ![t] = r] /\ suspending' = FALSE /\ UNCHANGED suspend_mutex
    BY <1>6 DEF ScanEnd, Waits
  <2> HIDE DEF r
  <2>3. NoCmdUses
    BY <1>1, <1>3, <1>6 DEF Scanned, NoCmdUses
  <2>4. \A m \in AllMcmds : UsesMcmd(m) => mcpu[m] >= 1
    BY DEF IInv, RefInv, RefTypes, UsesMcmd, Cpus
  <2> QED
    BY Zenon, <1>1, <1>4, <2>1, <2>2, <2>3, <2>4, KeepsWaiting
<1>7. CASE mgr[t].sum = 0 /\ mgr[t].pass = 2
  <2> DEFINE r == [Idle EXCEPT !.pc = "inside"]
  <2>1. r \in Thread /\ r.pc = "inside"
    BY RefRange DEF Idle, Thread, MgrPcs
  <2>2. mgr' = [mgr EXCEPT ![t] = r] /\ suspending' = FALSE /\ suspend_mutex' = None
    BY <1>7 DEF ScanEnd, Waits
  <2> HIDE DEF r
  <2>3. /\ mgr' \in [Managers -> Thread] /\ mgr'[t] = r
        /\ \A u \in Managers \ {t} : mgr'[u] = mgr[u] /\ Scanned(u)'
        /\ Counted' = Counted \cup {t}
    BY Zenon, <2>1, <2>2, OneMoves
  <2>4. NoCmdUses /\ NoMcmdUses
    BY <1>1, <1>3, <1>7 DEF Scanned, NoMcmdUses
  <2>5. Scanned(t)'
    BY <2>1, <2>3, <2>4 DEF Scanned, Waiting, RefsStay, NoCmdUses, NoMcmdUses
  <2>6. \A u \in Managers : OwnsMutex(u)' /\ ~Waiting(u)'
    BY <1>2, <2>1, <2>3, MutexTaken DEF OwnsMutex, Waiting
  <2>7. MgrTypes'
    BY Zenon, <1>4, <2>2, <2>3 DEF IInv, MgrInv, MgrTypes
  <2>8. suspend_count' = Cardinality(Counted') /\ suspended' /\ Counted' # {}
    BY <1>2, <1>4, <2>3 DEF IInv, MgrInv
  <2> QED
    BY <2>2, <2>3, <2>5, <2>6, <2>7, <2>8 DEF MgrInv, ScanInv, WaitsAlone
<1> QED
  BY <1>2, <1>5, <1>6, <1>7

(* A wake-up starts the scan again.                                        *)
LEMMA SuspendWokenStep ==
    ASSUME IInv, NEW t \in Managers, SuspendWoken(t), RefsStay
    PROVE  MgrInv' /\ ScanInv'
<1> DEFINE r == Woken(mgr[t])
<1>1. Waiting(t) /\ mgr[t] \in Thread /\ Scanned(t)
  BY DEF SuspendWoken, IInv, MgrInv, MgrTypes, ScanInv, Waiting
<1>2. mgr[t].pass \in {1, 2} /\ (suspending <=> mgr[t].pass = 1) /\ suspending \in BOOLEAN
  BY <1>1 DEF IInv, MgrInv, MgrTypes, WaitsAlone
<1>3. /\ r \in Thread /\ r.pc = "scan" /\ r.pass = mgr[t].pass /\ r.cpu = 1
      /\ r.sum >= 0 /\ r.cpu >= 1
  BY <1>1, WokenThread
<1>4. /\ mgr' = [mgr EXCEPT ![t] = r]
      /\ UNCHANGED <<suspended, suspending, suspend_count, suspend_mutex>>
  BY Zenon DEF SuspendWoken, suspVars, Woken
<1> HIDE DEF r
<1>5. \A c \in Cmds : UsesCmd(c) => ccpu[c] >= 1
  BY DEF IInv, RefInv, RefTypes, CmdRefs, UsesCmd, Cpus
<1>6. \A m \in AllMcmds : UsesMcmd(m) => mcpu[m] >= 1
  BY DEF IInv, RefInv, RefTypes, UsesMcmd, Cpus
<1>7. r.pass = 2 => NoCmdUses
  BY <1>1, <1>3 DEF Scanned
<1> QED
  BY Zenon, <1>1, <1>2, <1>3, <1>4, <1>5, <1>6, <1>7, KeepsWaiting

(* A step of the owner of the mutex after which nobody waits.              *)
LEMMA StopsWaiting ==
    ASSUME IInv, NEW t \in Managers, suspend_mutex = t, RefsStay,
           NEW r \in Thread, mgr' = [mgr EXCEPT ![t] = r],
           r.pc \in {"idle", "clear", "wake", "splice"},
           suspend_mutex' = IF r.pc = "idle" THEN None ELSE t,
           suspending' = FALSE,
           suspend_count' \in Nat, suspend_count' = Cardinality(Counted'),
           suspended' \in BOOLEAN, suspended' <=> Counted' # {}
    PROVE  MgrInv' /\ ScanInv'
<1>1. /\ mgr' \in [Managers -> Thread] /\ mgr'[t] = r
      /\ \A u \in Managers \ {t} : mgr'[u] = mgr[u] /\ Scanned(u)'
  BY Zenon, OneMoves
<1>2. Scanned(t)'
  BY <1>1 DEF Scanned, Waiting
<1>3. \A u \in Managers : ~Waiting(u)'
  BY <1>1, MutexTaken DEF Waiting
<1>4. \A u \in Managers : OwnsMutex(u)'
  BY <1>1, MutexTaken DEF OwnsMutex
<1>5. MgrTypes'
  BY Zenon, <1>1 DEF MgrTypes
<1> QED
  BY <1>1, <1>2, <1>3, <1>4, <1>5 DEF MgrInv, ScanInv, WaitsAlone

(* Suspending fails, and __scst_resume_activity() is about to undo it.     *)
LEMMA SuspendFailsStep ==
    ASSUME IInv, NEW t \in Managers, SuspendFails(t), RefsStay
    PROVE  MgrInv' /\ ScanInv'
<1> DEFINE r == [Idle EXCEPT !.pc = "clear"]
<1>1. r \in Thread /\ r.pc = "clear"
  BY RefRange DEF Idle, Thread, MgrPcs
<1>2. /\ mgr' = [mgr EXCEPT ![t] = r] /\ suspending' = FALSE
      /\ UNCHANGED <<suspended, suspend_count, suspend_mutex>>
  BY DEF SuspendFails
<1>3. Waiting(t)
  BY DEF SuspendFails, Waiting
<1> HIDE DEF r
<1>4. Counted = {t} /\ suspend_mutex = t
  BY <1>3 DEF IInv, MgrInv, WaitsAlone, OwnsMutex, Waiting
<1>5. Counted' = Counted \cup {t}
  BY Zenon, <1>1, <1>2, OneMoves
<1>6. Counted' = Counted
  BY <1>4, <1>5
<1>7. /\ suspend_count' \in Nat /\ suspend_count' = Cardinality(Counted')
      /\ suspended' \in BOOLEAN /\ (suspended' <=> Counted' # {})
  BY <1>2, <1>6 DEF IInv, MgrInv, MgrTypes
<1>8. suspend_mutex' = IF r.pc = "idle" THEN None ELSE t
  BY <1>1, <1>2, <1>4
<1> QED
  BY Zenon, <1>1, <1>2, <1>4, <1>7, <1>8, StopsWaiting

(* The steps of scst_resume_activity() and __scst_resume_activity().       *)
LEMMA ResumeStartStep ==
    ASSUME IInv, NEW t \in Managers, ResumeStart(t), RefsStay
    PROVE  MgrInv' /\ ScanInv'
<1> DEFINE r == [mgr[t] EXCEPT !.pc = "clear"]
<1>1. mgr[t] \in Thread /\ t \in Counted /\ suspend_mutex = None
  BY DEF ResumeStart, IInv, MgrInv, MgrTypes, Counted
<1>2. r \in Thread /\ r.pc = "clear"
  BY <1>1 DEF Thread, MgrPcs
<1>3. /\ mgr' = [mgr EXCEPT ![t] = r] /\ suspend_mutex' = t
      /\ UNCHANGED <<suspended, suspending, suspend_count>>
  BY DEF ResumeStart
<1> HIDE DEF r
<1>4. /\ mgr' \in [Managers -> Thread] /\ mgr'[t] = r
      /\ \A u \in Managers \ {t} : mgr'[u] = mgr[u] /\ Scanned(u)'
      /\ Counted' = Counted \cup {t}
  BY Zenon, <1>2, <1>3, OneMoves
<1>5. Counted' = Counted
  BY <1>1, <1>4
<1>6. Scanned(t)' /\ OwnsMutex(t)' /\ ~Waiting(t)'
  BY <1>2, <1>3, <1>4 DEF Scanned, OwnsMutex, Waiting
<1>7. t # None
  BY ActivityAssumption DEF None
<1>8. \A u \in Managers \ {t} : OwnsMutex(u)' /\ ~Waiting(u)'
  <2>1. \A u \in Managers \ {t} : OwnsMutex(u) /\ u # None
    BY ActivityAssumption DEF IInv, MgrInv, None
  <2> QED
    BY <1>1, <1>4, <2>1 DEF OwnsMutex, Waiting
<1>9. MgrTypes'
  BY <1>3, <1>4 DEF IInv, MgrInv, MgrTypes
<1>10. ~suspending' /\ suspend_count' = Cardinality(Counted') /\ (suspended' <=> Counted' # {})
  BY <1>1, <1>3, <1>5, MutexFree DEF IInv, MgrInv
<1> QED
  BY <1>4, <1>6, <1>8, <1>9, <1>10 DEF MgrInv, ScanInv, WaitsAlone

(* The last one to resume clears the flag, and only then.                  *)
LEMMA ResumeClearStep ==
    ASSUME IInv, NEW t \in Managers, ResumeClear(t), RefsStay
    PROVE  MgrInv' /\ ScanInv'
<1>1. mgr[t] \in Thread /\ t \in Counted /\ suspend_mutex = t /\ mgr[t].pc = "clear"
  BY DEF ResumeClear, IInv, MgrInv, MgrTypes, Counted, OwnsMutex
<1>2. ~suspending /\ suspending' = suspending /\ suspending \in BOOLEAN
  <2>1. \A u \in Managers : ~Waiting(u)
    BY <1>1, MutexTaken DEF Waiting
  <2> QED
    BY <2>1 DEF ResumeClear, IInv, MgrInv, MgrTypes
<1>3. /\ Cardinality(Counted \ {t}) = suspend_count - 1 /\ suspend_count' = suspend_count - 1
      /\ suspend_count \in Nat /\ suspend_count - 1 \in Nat
  <2>1. Cardinality(Counted \ {t}) = suspend_count - 1 /\ suspend_count \in Nat
    BY Zenon, <1>1, CountedFinite, FS_RemoveElement DEF IInv, MgrInv, MgrTypes
  <2>2. IsFiniteSet(Counted \ {t})
    BY CountedFinite, FS_RemoveElement
  <2> QED
    BY <2>1, <2>2, FS_CardinalityType DEF ResumeClear
<1>4. suspend_count = 1 <=> Counted \ {t} = {}
  <2>1. IsFiniteSet(Counted \ {t})
    BY CountedFinite, FS_RemoveElement
  <2> QED
    BY <1>3, <2>1, FS_EmptySet
<1>5. CASE suspend_count > 1
  <2>1. Idle \in Thread /\ Idle.pc = "idle"
    BY RefRange DEF Idle, Thread, MgrPcs
  <2>2. mgr' = [mgr EXCEPT ![t] = Idle] /\ suspend_mutex' = None /\ suspended' = suspended
    BY <1>5 DEF ResumeClear
  <2>3. Counted' = Counted \ {t}
    BY Zenon, <2>1, <2>2, OneMoves
  <2>4. suspended' \in BOOLEAN /\ (suspended' <=> Counted' # {})
    BY <1>1, <1>4, <1>5, <2>2, <2>3 DEF IInv, MgrInv, MgrTypes
  <2>5. /\ suspend_count' \in Nat /\ suspend_count' = Cardinality(Counted')
        /\ suspend_mutex' = IF Idle.pc = "idle" THEN None ELSE t
        /\ suspending' = FALSE
    BY <1>2, <1>3, <2>1, <2>2, <2>3
  <2> QED
    BY Zenon, <1>1, <2>1, <2>2, <2>4, <2>5, StopsWaiting
<1>6. CASE suspend_count = 1
  <2> DEFINE r == [mgr[t] EXCEPT !.pc = "wake"]
  <2>1. r \in Thread /\ r.pc = "wake"
    BY <1>1 DEF Thread, MgrPcs
  <2>2. mgr' = [mgr EXCEPT ![t] = r] /\ suspend_mutex' = suspend_mutex /\ suspended' = FALSE
    BY <1>6 DEF ResumeClear
  <2> HIDE DEF r
  <2>3. Counted' = Counted \ {t}
    BY Zenon, <2>1, <2>2, OneMoves
  <2>4. suspended' \in BOOLEAN /\ (suspended' <=> Counted' # {})
    BY Zenon, <1>4, <1>6, <2>2, <2>3
  <2>5. /\ suspend_count' \in Nat /\ suspend_count' = Cardinality(Counted')
        /\ suspend_mutex' = IF r.pc = "idle" THEN None ELSE t
        /\ suspending' = FALSE
    BY <1>1, <1>2, <1>3, <2>1, <2>2, <2>3
  <2> QED
    BY Zenon, <1>1, <2>1, <2>2, <2>4, <2>5, StopsWaiting
<1> QED
  BY <1>3, <1>5, <1>6 DEF ResumeClear

(* The wake-ups of __scst_resume_activity(), and its return.               *)
LEMMA ResumeEndStep ==
    ASSUME IInv, NEW t \in Managers, ResumeWakeInit(t) \/ ResumeSplice(t), RefsStay
    PROVE  MgrInv' /\ ScanInv'
<1>1. mgr[t] \in Thread /\ t \notin Counted /\ suspend_mutex = t
  BY DEF ResumeWakeInit, ResumeSplice, IInv, MgrInv, MgrTypes, Counted, OwnsMutex
<1>2. UNCHANGED <<suspended, suspending, suspend_count>>
  BY DEF ResumeWakeInit, ResumeSplice, suspVars
<1>3. ~suspending /\ suspending \in BOOLEAN
  <2>1. ~Waiting(t)
    BY <1>1 DEF Counted, Waiting
  <2> QED
    BY <1>1, <2>1, MutexTaken DEF IInv, MgrInv, MgrTypes
<1>4. PICK r \in Thread :
        /\ r.pc \in {"splice", "idle"} /\ mgr' = [mgr EXCEPT ![t] = r]
        /\ suspend_mutex' = IF r.pc = "idle" THEN None ELSE t
  <2>1. CASE ResumeWakeInit(t)
    <3> DEFINE r == [mgr[t] EXCEPT !.pc = "splice"]
    <3>1. r \in Thread /\ r.pc = "splice"
      BY <1>1 DEF Thread, MgrPcs
    <3>2. mgr' = [mgr EXCEPT ![t] = r] /\ suspend_mutex' = t
      BY <1>1, <2>1 DEF ResumeWakeInit, suspVars
    <3> HIDE DEF r
    <3> QED
      BY Zenon, <3>1, <3>2
  <2>2. CASE ResumeSplice(t)
    <3>1. Idle \in Thread /\ Idle.pc = "idle"
      BY RefRange DEF Idle, Thread, MgrPcs
    <3>2. mgr' = [mgr EXCEPT ![t] = Idle] /\ suspend_mutex' = None
      BY <2>2 DEF ResumeSplice
    <3> QED
      BY Zenon, <3>1, <3>2
  <2> QED
    BY <2>1, <2>2
<1>5. Counted' = Counted \ {t}
  BY Zenon, <1>4, OneMoves
<1>6. Counted' = Counted
  BY <1>1, <1>5
<1>7. /\ suspend_count' \in Nat /\ suspend_count' = Cardinality(Counted')
      /\ suspended' \in BOOLEAN /\ (suspended' <=> Counted' # {}) /\ suspending' = FALSE
  BY <1>2, <1>3, <1>6 DEF IInv, MgrInv, MgrTypes
<1> QED
  BY Zenon, <1>1, <1>4, <1>7, StopsWaiting

(* Every step of a thread that suspends or resumes.                        *)
LEMMA MgrSteps ==
    ASSUME IInv, NEW t \in Managers,
           \/ SuspendStart(t) \/ MgrWait(t) \/ SuspendFails(t)
           \/ AddLun(t) \/ DelLun(t) \/ ResumeStart(t) \/ MgrResume(t)
    PROVE  IInv'
<1>1. /\ UNCHANGED <<cpu_cmd_count, cmdVars, mcpu, affected, tm_thread, sessVars>>
      /\ \/ UNCHANGED <<mpc, scst_active_mgmt_cmd_list, scst_delayed_mgmt_cmd_list>>
         \/ /\ mpc' = [m \in AllMcmds |-> IF mpc[m] = "delayed" THEN "active" ELSE mpc[m]]
            /\ scst_active_mgmt_cmd_list' =
                  scst_delayed_mgmt_cmd_list \o scst_active_mgmt_cmd_list
            /\ scst_delayed_mgmt_cmd_list' = <<>>
  <2>1. CASE UNCHANGED mgrRest
    BY <2>1 DEF mgrRest, tmVars
  <2>2. CASE ResumeWakeInit(t)
    BY <2>2 DEF ResumeWakeInit, tmVars
  <2>3. CASE ResumeSplice(t)
    BY <2>3 DEF ResumeSplice, DelayedAfterSplice
  <2>4. UNCHANGED mgrRest \/ ResumeWakeInit(t) \/ ResumeSplice(t)
    BY Zenon DEF SuspendStart, MgrWait, ScanCpu, ScanEnd, SuspendWoken, SuspendFails, AddLun,
                 DelLun, ChangeConfig, ResumeStart, MgrResume, ResumeClear
  <2> QED
    BY <2>1, <2>2, <2>3, <2>4
<1>2. /\ RefInv'
      /\ \A c \in Cmds : UsesCmd(c)' <=> UsesCmd(c)
      /\ \A m \in AllMcmds : UsesMcmd(m)' <=> UsesMcmd(m)
  BY Zenon, <1>1, MgrKeepsRefs DEF IInv
<1>3. RefsStay
  BY <1>1, <1>2 DEF RefsStay, cmdVars
<1>4. CASE AddLun(t) \/ DelLun(t)
  <2>1. UNCHANGED <<suspended, suspending, suspend_count, suspend_mutex, mgr>>
    BY <1>4 DEF AddLun, DelLun, ChangeConfig, suspVars
  <2>2. MgrInv'
    BY <2>1 DEF IInv, MgrInv, MgrTypes, OwnsMutex, WaitsAlone, Counted, Waiting
  <2>3. ScanInv'
    BY <1>3, <2>1 DEF IInv, ScanInv, Scanned, RefsStay, NoCmdUses, NoMcmdUses, Waiting
  <2> QED
    BY <1>2, <2>2, <2>3 DEF IInv
<1>5. (MgrInv' /\ ScanInv') \/ AddLun(t) \/ DelLun(t)
  BY Zenon, <1>3, SuspendStartStep, ScanCpuStep, ScanEndStep, SuspendWokenStep,
     SuspendFailsStep, ResumeStartStep, ResumeClearStep, ResumeEndStep DEF MgrWait, MgrResume
<1> QED
  BY <1>2, <1>4, <1>5 DEF IInv

-----------------------------------------------------------------------------
(* The invariant.                                                          *)

(* It holds when no command has been sent and nobody suspends.             *)
LEMMA InvInit == Init => IInv
<1> SUFFICES ASSUME Init PROVE IInv
  OBVIOUS
<1>1. PICK l \in Loads : InitLoad(l)
  BY DEF Init
<1>2. RefTypes
  <2>1. cpc \in [Cmds -> CmdPcs] /\ mpc \in [AllMcmds -> McmdPcs]
    BY <1>1 DEF InitLoad, CmdPcs, McmdPcs
  <2>2. cpu_cmd_count \in [Cpus -> Int]
    BY DEF Init
  <2> QED
    BY <2>1, <2>2 DEF Init, RefTypes
<1>3. CmdRefs
  BY <1>1 DEF Init, InitLoad, CmdRefs
<1>4. McmdRefs
  BY <1>1 DEF Init, InitLoad, McmdRefs, AllMcmds
<1>5. CountersExact
  <2>1. \A k \in Cpus : Holders(k) = {} /\ cpu_cmd_count[k] = 0
    BY RefRange DEF Init, Holders, Cpus
  <2> QED
    BY <2>1, FS_EmptySet DEF CountersExact
<1>6. \A t \in Managers : mgr[t] = Idle /\ Idle.pc = "idle"
  BY DEF Init, Idle
<1>7. MgrInv
  <2>1. Counted = {}
    BY <1>6 DEF Counted
  <2>2. suspend_count = Cardinality(Counted)
    BY <2>1, FS_EmptySet DEF Init
  <2>3. MgrTypes
    <3>1. Idle \in Thread
      BY RefRange DEF Thread, Idle, MgrPcs
    <3>2. mgr \in [Managers -> Thread]
      BY <3>1 DEF Init
    <3> QED
      BY Zenon, <3>2 DEF Init, MgrTypes
  <2>4. ~suspended /\ ~suspending
    BY DEF Init
  <2> QED
    BY <1>6, <2>1, <2>2, <2>3, <2>4 DEF MgrInv, OwnsMutex, WaitsAlone, Waiting
<1>8. ScanInv
  BY <1>6 DEF ScanInv, Scanned, Waiting
<1> QED
  BY <1>2, <1>3, <1>4, <1>5, <1>7, <1>8 DEF IInv, RefInv

(* Every step keeps it.                                                    *)
LEMMA InvStep == IInv /\ [Next]_vars => IInv'
<1> SUFFICES ASSUME IInv, [Next]_vars PROVE IInv'
  OBVIOUS
<1>1. RefInv
  BY DEF IInv
<1>2. CASE Driver \/ UnregisterPut \/ MgmtThread
  BY Zenon, <1>1, <1>2, SessionSteps, UserKeeps DEF Driver
<1>3. CASE \E c \in Cmds : CmdStep(c)
  BY Zenon, <1>1, <1>3, CmdSteps, UserKeeps
<1>4. CASE InitThread
  BY Zenon, <1>1, <1>4, InitThreadSteps, UserKeeps
<1>5. CASE TmThread
  BY Zenon, <1>1, <1>5, TmSteps, UserKeeps
<1>6. ASSUME NEW t \in Managers,
             \/ SuspendStart(t) \/ MgrWait(t) \/ SuspendFails(t)
             \/ AddLun(t) \/ DelLun(t) \/ ResumeStart(t) \/ MgrResume(t)
      PROVE  IInv'
  BY Zenon, <1>6, MgrSteps
<1>7. CASE UNCHANGED vars
  <2>1. UNCHANGED <<suspended, suspending, suspend_count, suspend_mutex, mgr, ccpu, mcpu, cpc,
                    mpc, has_tgt_dev>>
    BY <1>7 DEF vars, suspVars, cmdVars, tmVars
  <2>2. RefInv' /\ RefsStay
    <3>1. RefInv'
      BY <1>1, <1>7, MgrKeepsRefs DEF vars, tmVars
    <3> QED
      BY <2>1, <3>1 DEF RefsStay, UsesCmd, UsesMcmd
  <2>3. NoNewUse
    BY <2>1, <2>2 DEF NoNewUse, RefsStay
  <2> QED
    BY <2>1, <2>2, <2>3, UserKeeps DEF UserStep
<1> QED
  BY Zenon, <1>2, <1>3, <1>4, <1>5, <1>6, <1>7 DEF Next

(* What the invariant says to a caller of scst_suspend_activity().         *)
LEMMA InvExclusive == IInv => Exclusive
<1> SUFFICES ASSUME IInv, NEW t \in Managers, mgr[t].pc = "inside"
             PROVE  /\ suspended
                    /\ \A c \in Cmds : cpc[c] # "lookup" /\ ~has_tgt_dev[c]
                    /\ \A m \in AllMcmds : mpc[m] # "lookup" /\
                          (mcpu[m] # 0 => mpc[m] = "test")
  BY DEF Exclusive
<1>1. suspended
  BY DEF IInv, MgrInv, Counted
<1>2. NoCmdUses /\ NoMcmdUses
  BY DEF IInv, ScanInv, Scanned
<1> QED
  BY <1>1, <1>2 DEF NoCmdUses, NoMcmdUses, UsesCmd, UsesMcmd, IInv, RefInv, McmdRefs

(* The counters that scst_get_cmd_counter() adds up are the references     *)
(* that commands and functions hold, on every path of every thread.        *)
THEOREM CountersCorrect == Spec => []CountersExact
<1>1. IInv => CountersExact
  BY DEF IInv, RefInv
<1> QED
  BY <1>1, InvInit, InvStep, PTL DEF Spec

(* scst_suspend_activity() keeps what it promises: while one of its        *)
(* callers is inside, nobody looks a tgt_dev up and nobody holds one.      *)
THEOREM ExclusiveCorrect == Spec => []Exclusive
<1>1. IInv => Exclusive
  BY InvExclusive
<1> QED
  BY <1>1, InvInit, InvStep, PTL DEF Spec

=============================================================================
