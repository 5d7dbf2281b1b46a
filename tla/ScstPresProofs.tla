--------------------------- MODULE ScstPresProofs ---------------------------
(***************************************************************************)
(* Proofs about ScstPres for any number of initiator ports, target ports,  *)
(* sessions and keys, and any power failures: the links and the holder are *)
(* sound whatever races with a PERSISTENT RESERVE OUT (LinksSound,         *)
(* HolderSound); and if no session is set up in its windows, access rights *)
(* are what the table says (AccessRight) and nothing that persistent       *)
(* reservations exclude is mixed with them (NoMixing).                     *)
(***************************************************************************)
EXTENDS ScstPresTable

(* A file holds a table without links, or nothing of use.                  *)
File(x) ==
    \/ x \in {NoFile, Torn}
    \/ /\ x \in Table /\ Held(x)
       /\ x.tgt_dev = Empty.tgt_dev /\ x.registrant = Empty.registrant
FileInv == File(main) /\ File(bak)

SettingUp(s) == st[s] \in {"inited", "unlisted"}
SessInv ==
    /\ st \in [Sess -> {"none", "inited", "listed", "unlisted"}]
    /\ \A s, t \in Sess : SettingUp(s) /\ SettingUp(t) => s = t
    /\ up # "up" => reserved_by = None /\ pr.pc = "idle" /\ \A s \in Sess : st[s] = "none"

Mixed == reserved_by # None \/ (~LoginRace /\ NoPrTransport)
PrInv ==
    /\ pr \in [sess : Sess \cup {None},
              pc : {"idle", "checked", "reserve", "rm_main", "rm_bak", "copy", "data", "sign"}]
    /\ pr.pc = "idle" <=> pr.sess = None
    /\ pr.pc = "checked" => NexusOf[pr.sess] \in Nexus /\ ~Mixed
    /\ pr.pc = "reserve" => Registered(dev) = {}
    /\ Registered(dev) # {} => ~Mixed

PInv == Fit(dev) /\ FileInv /\ SessInv /\ PrInv

(* The table has changed, the sessions have not.                           *)
LEMMA FitMoves ==
    ASSUME NEW e, Fit(e), dev' = e, st' = st
    PROVE  Fit(dev)'
BY DEF Fit, Linked, Held, Served

(* A service action that gives a sound table.                              *)
LEMMA GoodKeeps ==
    ASSUME PInv, NEW e, Fit(e), NEW told, Good(e, told), pr.pc = "checked"
    PROVE  PInv'
<1>1. /\ dev' = e /\ UNCHANGED <<st, reserved_by, main, bak, durable, up>>
      /\ pr' = [pr EXCEPT !.pc = IF MustSave(e) THEN "copy" ELSE "rm_main"]
  BY DEF Good
<1>2. Fit(dev)'
  BY <1>1, FitMoves
<1>3. FileInv'
  BY <1>1 DEF PInv, FileInv, File, Held
<1>4. SessInv'
  BY <1>1 DEF PInv, SessInv, SettingUp
<1>5. pr'.sess = pr.sess /\ pr.sess \in Sess /\ pr'.pc \in {"copy", "rm_main"}
  BY <1>1, ConstFacts DEF PInv, PrInv
<1>6. ~Mixed'
  BY <1>1 DEF PInv, PrInv, Mixed, NoPrTransport
<1>7. pr' \in [sess : Sess \cup {None},
              pc : {"idle", "checked", "reserve", "rm_main", "rm_bak", "copy", "data", "sign"}]
  BY <1>1, <1>5 DEF PInv, PrInv
<1>8. PrInv'
  BY <1>5, <1>6, <1>7, ConstFacts DEF PrInv
<1> QED
  BY <1>2, <1>3, <1>4, <1>8 DEF PInv

(* The sender of a PERSISTENT RESERVE OUT, and its registrant.             *)
LEMMA Sender ==
    ASSUME PInv, pr.pc = "checked"
    PROVE  /\ pr.sess \in Sess /\ Me \in Nexus /\ Me[1] \in Tid /\ Me[2] \in Rel
           /\ dev \in Table /\ dev.registrant[pr.sess] \in Nexus \cup {None}
           /\ dev.registrant[pr.sess] # None =>
                dev.registrant[pr.sess] \in Nexus /\ dev.key[dev.registrant[pr.sess]] # 0
<1>1. pr.sess \in Sess /\ Me \in Nexus
  BY DEF PInv, PrInv, Me
<1>2. Me[1] \in Tid /\ Me[2] \in Rel
  BY <1>1 DEF Nexus
<1>3. dev \in Table /\ Linked(dev)
  BY DEF PInv, Fit
<1>4. dev.registrant[pr.sess] \in Nexus \cup {None}
  BY <1>1, <1>3 DEF Table
<1>5. dev.registrant[pr.sess] # None => dev.tgt_dev[dev.registrant[pr.sess]] = pr.sess
  BY <1>1, <1>3 DEF Linked
<1> QED
  BY <1>1, <1>2, <1>3, <1>4, <1>5, ConstFacts DEF Linked

(* The nexuses of a REGISTER.                                              *)
LEMMA RegisterSets ==
    ASSUME PInv, pr.pc = "checked", NEW k \in Keys \cup {0}, NEW spec \in SUBSET Tid,
           NEW all_tg_pt \in BOOLEAN
    PROVE  /\ ToAdd(dev, spec, all_tg_pt) \in SUBSET Nexus
           /\ \A n \in ToAdd(dev, spec, all_tg_pt) : dev.key[n] = 0
           /\ ToChange(dev, spec, all_tg_pt, k) \in SUBSET Nexus
           /\ \A n \in ToChange(dev, spec, all_tg_pt, k) : dev.key[n] # 0
<1>1. Me[1] \in Tid /\ Me[2] \in Rel
  BY Sender
<1>2. Ports(all_tg_pt) \in SUBSET Rel
  BY <1>1 DEF Ports
<1> QED
  BY <1>1, <1>2 DEF ToAdd, ToChange, Nexus

(* REGISTER: the sender is registered already and unregisters or changes   *)
(* its key, or it and others are registered.                               *)
LEMMA RegisterStep ==
    ASSUME PInv, NEW k \in Keys \cup {0}, NEW spec \in SUBSET Tid,
           NEW all_tg_pt \in BOOLEAN, NEW aptpl \in BOOLEAN,
           Register(k, spec, all_tg_pt, aptpl)
    PROVE  PInv'
<1>1. pr.pc = "checked" /\ Fit(dev)
  BY DEF Register, PInv
<1> DEFINE n == dev.registrant[pr.sess]
<1>2. CASE n # None
  <2> DEFINE R == IF all_tg_pt THEN Registered(dev) \cap ({Me[1]} \X Rel) ELSE {n}
             u == scst_pr_unregister(dev, R)
             c == SetKeys(dev, {n}, k)
  <2>1. n \in Nexus /\ dev.key[n] # 0
    BY <1>1, <1>2, Sender
  <2>2. CASE k = 0
    <3>1. Good(WithAptpl(u.d, aptpl), u.told)
      BY <1>2, <2>2 DEF Register, RegisterAgain
    <3>2. R \in SUBSET Nexus
      BY <2>1 DEF Registered
    <3>3. u.d = scst_pr_remove_registrant(dev, R)
      BY DEF scst_pr_unregister
    <3> HIDE DEF R
    <3>4. Fit(scst_pr_remove_registrant(dev, R))
      BY Zenon, <1>1, <3>2, RemoveFit
    <3>5. Fit(u.d)
      BY <3>3, <3>4
    <3> HIDE DEF u
    <3>6. Fit(WithAptpl(u.d, aptpl))
      BY <3>5, AptplFit
    <3> QED
      BY <1>1, <3>1, <3>6, GoodKeeps
  <2>3. CASE k # 0
    <3>1. Good(WithAptpl(c, aptpl), {})
      BY <1>2, <2>3 DEF Register, RegisterAgain
    <3> HIDE DEF n
    <3>2. Fit(c)
      BY <1>1, <2>1, <2>3, KeysFit
    <3> HIDE DEF c
    <3>3. Fit(WithAptpl(c, aptpl))
      BY <3>2, AptplFit
    <3> QED
      BY <1>1, <3>1, <3>3, GoodKeeps
  <2> QED
    BY <2>2, <2>3
<1>3. CASE n = None /\ k = 0
  <2>1. Good(WithAptpl(dev, aptpl), {})
    BY <1>3 DEF Register
  <2> QED
    BY <1>1, <2>1, AptplFit, GoodKeeps
<1>4. CASE n = None /\ k # 0
  <2> DEFINE A == ToAdd(dev, spec, all_tg_pt)
             C == ToChange(dev, spec, all_tg_pt, k)
             added(f) == scst_pr_add_registrant(dev, A, k, f)
             set(f) == SetKeys(added(f), C, k)
  <2>1. PICK f \in Links(dev, A) : NotBeingSetUp(A) /\ Good(WithAptpl(set(f), aptpl), {})
    BY <1>4 DEF Register, RegisterNew
  <2>2. /\ A \in SUBSET Nexus /\ (\A m \in A : dev.key[m] = 0)
        /\ C \in SUBSET Nexus /\ (\A m \in C : dev.key[m] # 0) /\ k \in Keys
    BY Zenon, <1>1, <1>4, RegisterSets
  <2> HIDE DEF A, C
  <2>3. Fit(added(f)) /\ added(f).key = [m \in Nexus |-> IF m \in A THEN k ELSE dev.key[m]]
    BY <1>1, <2>1, <2>2, AddFit
  <2>4. \A m \in C : added(f).key[m] # 0
    BY <2>2, <2>3, ConstFacts
  <2> HIDE DEF added
  <2>5. Fit(set(f))
    BY Zenon, <2>2, <2>3, <2>4, KeysFit
  <2> HIDE DEF set
  <2>6. Fit(WithAptpl(set(f), aptpl))
    BY <2>5, AptplFit
  <2> QED
    BY <1>1, <2>1, <2>6, GoodKeeps
<1> QED
  BY <1>2, <1>3, <1>4

(* The command is over without having changed the table for good.          *)
LEMMA EndKeeps ==
    ASSUME PInv, Fit(dev)', pr' = [sess |-> None, pc |-> "idle"], File(main)', File(bak)',
           UNCHANGED <<st, reserved_by, up>>,
           (Registered(dev) # {})' => Registered(dev) # {} \/ ~Mixed
    PROVE  PInv'
<1>1. SessInv'
  BY DEF PInv, SessInv, SettingUp
<1>2. Mixed' = Mixed
  BY DEF Mixed, NoPrTransport
<1>3. PrInv'
  BY <1>2 DEF PInv, PrInv
<1> QED
  BY <1>1, <1>3 DEF PInv, FileInv

(* REGISTER that runs out of memory.                                       *)
LEMMA RegisterFailsStep ==
    ASSUME PInv, NEW k \in Keys, NEW spec \in SUBSET Tid, NEW all_tg_pt \in BOOLEAN,
           RegisterFails(k, spec, all_tg_pt)
    PROVE  PInv'
<1> DEFINE A == ToAdd(dev, spec, all_tg_pt)
           C == ToChange(dev, spec, all_tg_pt, k)
           added(A1, f) == scst_pr_add_registrant(dev, A1, k, f)
           set(A1, C1, f) == SetKeys(added(A1, f), C1, k)
           old(A1, C1) == [n \in A1 \cup C1 |-> dev.key[n]]
<1>1. /\ pr.pc = "checked" /\ pr' = [sess |-> None, pc |-> "idle"]
      /\ UNCHANGED <<st, reserved_by, main, bak, durable, up>>
  BY DEF RegisterFails
<1>2. PICK A1 \in SUBSET A, C1 \in SUBSET C :
        /\ NotBeingSetUp(A1)
        /\ \E f \in Links(dev, A1) : dev' = Rollback(set(A1, C1, f), old(A1, C1))
  BY DEF RegisterFails
<1>3. PICK f \in Links(dev, A1) : dev' = Rollback(set(A1, C1, f), old(A1, C1))
  BY <1>2
<1>4. /\ A1 \in SUBSET Nexus /\ (\A m \in A1 : dev.key[m] = 0)
      /\ C1 \in SUBSET Nexus /\ (\A m \in C1 : dev.key[m] # 0)
  BY <1>1, <1>2, RegisterSets
<1>5. Fit(added(A1, f))
      /\ added(A1, f).key = [m \in Nexus |-> IF m \in A1 THEN k ELSE dev.key[m]]
  BY <1>2, <1>3, <1>4, AddFit DEF PInv
<1>6. \A m \in A1 \cup C1 : added(A1, f).key[m] # 0
  BY <1>4, <1>5, ConstFacts
<1> HIDE DEF A, C, added
<1>7. Fit(set(A1, C1, f)) /\ \A m \in A1 \cup C1 : set(A1, C1, f).key[m] # 0
  BY <1>4, <1>5, <1>6, KeysFit
<1>8. old(A1, C1) \in [A1 \cup C1 -> Keys \cup {0}]
  BY <1>4 DEF PInv, Fit, Table
<1> HIDE DEF set, old
<1>9. Fit(Rollback(set(A1, C1, f), old(A1, C1)))
  BY <1>4, <1>7, <1>8, RollbackFit
<1>10. Fit(dev)'
  BY <1>1, <1>3, <1>9, FitMoves
<1>11. File(main)' /\ File(bak)' /\ ~Mixed
  BY <1>1 DEF PInv, FileInv, File, Held, PrInv
<1> QED
  BY <1>1, <1>10, <1>11, EndKeeps

(* The service actions of a registered initiator.                          *)
LEMMA LockedReg ==
    ASSUME PInv, Locked
    PROVE  /\ pr.pc = "checked" /\ Fit(dev) /\ dev \in Table
           /\ reg \in Nexus /\ dev.key[reg] # 0
BY Sender DEF Locked, reg, PInv

(* REGISTER AND MOVE makes another registrant the holder, and may then     *)
(* unregister the sender, who holds nothing any more.                      *)
LEMMA MoveStep ==
    ASSUME PInv, NEW n \in Nexus, NEW k \in Keys, NEW unreg \in BOOLEAN, NEW aptpl \in BOOLEAN,
           RegisterAndMove(n, k, unreg, aptpl)
    PROVE  PInv'
<1>1. /\ pr.pc = "checked" /\ Fit(dev) /\ dev \in Table /\ reg \in Nexus /\ dev.key[reg] # 0
      /\ scst_pr_is_holder(dev, reg)
  BY LockedReg DEF RegisterAndMove
<1>2. dev.pr_type \in Types
  BY <1>1 DEF scst_pr_is_holder, Fit, Held, Table
<1> DEFINE A == {n} \ Registered(dev)
           add(f) == scst_pr_add_registrant(dev, A, k, f)
           added(f) == SetKeys(add(f), {n}, k)
           moved(f) == scst_pr_set_holder(added(f), n, dev.pr_type)
           d(f) == IF unreg THEN scst_pr_remove_registrant(moved(f), {reg}) ELSE moved(f)
<1>3. NotBeingSetUp(A) /\ \E f \in Links(dev, A) : Good(WithAptpl(d(f), aptpl), {})
  BY DEF RegisterAndMove
<1>4. PICK f \in Links(dev, A) : Good(WithAptpl(d(f), aptpl), {})
  BY <1>3
<1>5. A \in SUBSET Nexus /\ \A m \in A : dev.key[m] = 0
  BY DEF Registered
<1>6. n \in A \/ dev.key[n] # 0
  BY DEF Registered
<1> HIDE DEF A
<1>7. Fit(add(f)) /\ add(f).key = [m \in Nexus |-> IF m \in A THEN k ELSE dev.key[m]]
  BY <1>1, <1>3, <1>5, AddFit
<1>8. add(f).key[n] # 0
  BY <1>6, <1>7, ConstFacts
<1> HIDE DEF add
<1>9. Fit(added(f)) /\ added(f).key[n] # 0
  BY <1>7, <1>8, KeysFit
<1> HIDE DEF added
<1>10. Fit(moved(f))
  BY <1>2, <1>9, SetHolderFit
<1> HIDE DEF moved
<1>11. Fit(d(f))
  BY Zenon, <1>1, <1>10, RemoveFit
<1> HIDE DEF d
<1>12. Fit(WithAptpl(d(f), aptpl))
  BY <1>11, AptplFit
<1> QED
  BY <1>1, <1>4, <1>12, GoodKeeps

(* RESERVE, RELEASE and CLEAR.                                             *)
LEMMA ReserveSteps ==
    ASSUME PInv, NEW type \in Types, Reserve(type) \/ Release(type) \/ Clear
    PROVE  PInv'
<1>1. pr.pc = "checked" /\ Fit(dev) /\ dev \in Table /\ reg \in Nexus /\ dev.key[reg] # 0
  BY LockedReg DEF Reserve, Release, Clear
<1>2. Fit(scst_pr_set_holder(dev, reg, type)) /\ Fit(scst_pr_clear_reservation(dev))
  BY <1>1, SetHolderFit, ClearFit
<1>3. Fit(scst_pr_remove_registrant(dev, Registered(dev)))
  BY Zenon, <1>1, RemoveFit DEF Registered
<1> QED
  BY <1>1, <1>2, <1>3, GoodKeeps DEF Reserve, Release, Clear

(* PREEMPT: the sender is never among the registrants removed when it      *)
(* becomes the holder.                                                     *)
LEMMA PreemptStep ==
    ASSUME PInv, NEW k \in Keys \cup {0}, NEW type \in Types,
           Preempt(k, type) \/ PreemptAndAbort(k, type)
    PROVE  PInv'
<1>1. pr.pc = "checked" /\ Fit(dev) /\ dev \in Table /\ reg \in Nexus /\ dev.key[reg] # 0
  BY Zenon, LockedReg DEF Preempt, PreemptAndAbort
<1> DEFINE found == IF dev.pr_type \in AllReg /\ k = 0 THEN Others ELSE WithKey(dev, k)
           others == found \ {reg}
           rest == scst_pr_remove_registrant(dev, others)
           all == scst_pr_remove_registrant(dev, found)
           held == scst_pr_set_holder(rest, reg, type)
<1>2. \E told : Good(rest, told) \/ Good(all, told) \/ Good(held, told)
  <2>1. CASE Preempt(k, type)
    BY Zenon, <2>1 DEF Preempt, scst_pr_do_preempt
  <2>2. CASE PreemptAndAbort(k, type)
    BY Zenon, <2>2 DEF PreemptAndAbort, scst_pr_do_preempt
  <2> QED
    BY <2>1, <2>2
<1>3. found \in SUBSET Nexus
  BY DEF Others, WithKey, Registered
<1>4. others \in SUBSET Nexus /\ reg \notin others
  BY <1>3
<1> HIDE DEF found, others
<1>5. Fit(all)
  BY Zenon, <1>1, <1>3, RemoveFit
<1>6. Fit(rest) /\ rest.key = [n \in Nexus |-> IF n \in others THEN 0 ELSE dev.key[n]]
  BY <1>1, <1>4, RemoveFit
<1>7. rest.key[reg] # 0
  BY <1>1, <1>4, <1>6
<1> HIDE DEF rest, all
<1>8. Fit(held)
  BY <1>1, <1>6, <1>7, SetHolderFit
<1> HIDE DEF held
<1> QED
  BY <1>1, <1>2, <1>5, <1>6, <1>8, GoodKeeps

(* The service actions, all together.                                      *)
LEMMA PrOutStep ==
    ASSUME PInv, PrOut
    PROVE  PInv'
<1>1. CASE RefusePrOut
  <2>1. /\ pr.pc = "checked" /\ pr' = [sess |-> None, pc |-> "idle"]
        /\ UNCHANGED <<dev, st, reserved_by, main, bak, durable, up>>
    BY <1>1 DEF RefusePrOut
  <2>2. Fit(dev)' /\ File(main)' /\ File(bak)'
    BY <2>1, FitMoves DEF PInv, FileInv, File, Held
  <2> QED
    BY <2>1, <2>2, EndKeeps DEF Registered
<1>2. ASSUME NEW k \in Keys \cup {0}, NEW all_tg_pt \in BOOLEAN, NEW aptpl \in BOOLEAN,
             NEW spec \in SUBSET Tid, Register(k, spec, all_tg_pt, aptpl)
      PROVE  PInv'
  BY <1>2, RegisterStep
<1>3. ASSUME NEW k \in Keys \cup {0}, NEW all_tg_pt \in BOOLEAN, NEW aptpl \in BOOLEAN,
             RegisterAndIgnore(k, all_tg_pt, aptpl)
      PROVE  PInv'
  BY <1>3, <1>2 DEF RegisterAndIgnore
<1>4. ASSUME NEW k \in Keys, NEW all_tg_pt \in BOOLEAN, NEW spec \in SUBSET Tid,
             RegisterFails(k, spec, all_tg_pt)
      PROVE  PInv'
  BY <1>4, RegisterFailsStep
<1>5. ASSUME NEW n \in Nexus, NEW k \in Keys, NEW unreg \in BOOLEAN, NEW aptpl \in BOOLEAN,
             RegisterAndMove(n, k, unreg, aptpl)
      PROVE  PInv'
  BY <1>5, MoveStep
<1>6. ASSUME NEW type \in Types, Reserve(type) \/ Release(type)
      PROVE  PInv'
  BY <1>6, ReserveSteps
<1>7. CASE Clear
  <2>1. pr.pc = "checked" /\ Fit(dev) /\ dev \in Table
    BY <1>7, LockedReg DEF Clear
  <2>2. Fit(scst_pr_remove_registrant(dev, Registered(dev)))
    BY Zenon, <2>1, RemoveFit DEF Registered
  <2> QED
    BY <1>7, <2>1, <2>2, GoodKeeps DEF Clear
<1>8. ASSUME NEW k \in Keys \cup {0}, NEW type \in Types,
             Preempt(k, type) \/ PreemptAndAbort(k, type)
      PROVE  PInv'
  BY <1>8, PreemptStep
<1> QED
  BY <1>1, <1>2, <1>3, <1>4, <1>5, <1>6, <1>7, <1>8 DEF PrOut

-----------------------------------------------------------------------------
(* Files and power failures.                                               *)

(* What a save writes is a file.                                           *)
LEMMA SavedFile ==
    ASSUME NEW d, Fit(d)
    PROVE  File(Saved(d))
BY SavedFit DEF File

(* The steps of saving touch the files only.                               *)
LEMMA SyncStep ==
    ASSUME PInv, Sync
    PROVE  PInv'
<1>1. UNCHANGED <<dev, st, reserved_by, up>> /\ Saving
  BY DEF Sync, RemoveMain, RemoveBackup, CopyBackup, WriteData, WriteSignature, SaveFails, Saving
<1>2. PICK x, y : main' = x /\ bak' = y
  OBVIOUS
<1>3. File(x) /\ File(y)
  <2>1. File(main) /\ File(bak) /\ File(NoFile) /\ File(Torn) /\ File(Saved(dev))
    BY SavedFile DEF PInv, FileInv, File
  <2>2. /\ x \in {main, NoFile, Torn, Saved(dev)}
        /\ y \in {main, bak, NoFile, Torn}
    BY <1>2 DEF Sync, RemoveMain, RemoveBackup, CopyBackup, WriteData, WriteSignature, SaveFails
  <2> QED
    BY <2>1, <2>2
<1>4. FileInv'
  BY <1>2, <1>3 DEF FileInv, File, Held
<1>5. Fit(dev)'
  BY <1>1, FitMoves DEF PInv
<1>6. SessInv'
  <2>1. up = "up"
    BY <1>1 DEF PInv, SessInv, Saving
  <2> QED
    BY <1>1, <2>1 DEF PInv, SessInv, SettingUp
<1>7. pr.sess \in Sess
  BY <1>1 DEF PInv, PrInv, Saving
<1>8. \/ pr' = [sess |-> None, pc |-> "idle"]
      \/ pr' \in [sess : Sess, pc : {"rm_bak", "data", "sign"}]
  <2>1. \A pc \in {"rm_bak", "data", "sign"} :
           [pr EXCEPT !.pc = pc] \in [sess : Sess, pc : {"rm_bak", "data", "sign"}]
    BY <1>7 DEF PInv, PrInv
  <2> QED
    BY <2>1 DEF Sync, RemoveMain, RemoveBackup, CopyBackup, WriteData, WriteSignature,
                SaveFails, To, Finish
<1>9. Mixed' = Mixed /\ Registered(dev)' = Registered(dev)
  BY <1>1 DEF Mixed, NoPrTransport, Registered
<1>10. PrInv'
  BY <1>8, <1>9, ConstFacts DEF PInv, PrInv
<1> QED
  BY <1>4, <1>5, <1>6, <1>10 DEF PInv

(* After a power failure the table is empty and there are no sessions.     *)
LEMMA PowerStep ==
    ASSUME PInv, PowerLoss
    PROVE  PInv'
<1>1. /\ dev' = Empty /\ st' = [s \in Sess |-> "none"] /\ reserved_by' = None
      /\ pr' = [sess |-> None, pc |-> "idle"] /\ up' = "down"
  BY DEF PowerLoss
<1>2. PICK x, y : main' = x /\ bak' = y
  OBVIOUS
<1>3. File(x) /\ File(y)
  <2>1. File(main) /\ File(bak) /\ File(NoFile) /\ File(Torn) /\ File(Saved(dev))
    BY SavedFile DEF PInv, FileInv, File
  <2>2. /\ x \in {main, NoFile, Torn, Saved(dev)}
        /\ y \in {main, bak, NoFile, Torn}
    BY <1>2 DEF PowerLoss
  <2> QED
    BY <2>1, <2>2
<1>4. FileInv'
  BY <1>2, <1>3 DEF FileInv, File, Held
<1>5. Fit(dev)'
  <2>1. Empty \in Table
    BY EmptyFit DEF Fit
  <2>2. Linked(dev)' /\ Held(dev)' /\ Served(dev)'
    BY <1>1 DEF Empty, Linked, Held, Served
  <2> QED
    BY <1>1, <2>1, <2>2 DEF Fit
<1>6. SessInv'
  BY <1>1 DEF SessInv, SettingUp
<1>7. Registered(dev)' = {}
  BY <1>1 DEF Registered, Empty
<1>8. PrInv'
  BY <1>1, <1>7 DEF PrInv
<1> QED
  BY <1>4, <1>5, <1>6, <1>8 DEF PInv

(* scst_pr_load_device_file() at the registration of the device.           *)
LEMMA LoadStep ==
    ASSUME PInv, RegisterDevice
    PROVE  PInv'
<1>1. /\ up = "down" /\ UNCHANGED <<st, pr, reserved_by, ua, main, bak>>
      /\ dev' = dev \/ (dev' \in scst_pr_load_device_file)
  BY DEF RegisterDevice
<1>2. reserved_by = None /\ pr.pc = "idle" /\ \A s \in Sess : st[s] = "none"
  BY <1>1 DEF PInv, SessInv
<1>3. PICK e : dev' = e
  OBVIOUS
<1>4. Fit(e)
  <2>1. CASE e = dev
    BY <2>1 DEF PInv
  <2>2. CASE e = Empty
    BY <2>2, EmptyFit
  <2>3. CASE Valid(e) /\ e \in {main, bak}
    <3>1. /\ e \in Table /\ Held(e)
          /\ e.tgt_dev = Empty.tgt_dev /\ e.registrant = Empty.registrant
      BY <2>3 DEF PInv, FileInv, File, Valid
    <3>2. Linked(e) /\ Served(e)
      BY <1>2, <3>1 DEF Linked, Served, Empty
    <3> QED
      BY <3>1, <3>2 DEF Fit
  <2> QED
    BY <1>1, <1>3, <2>1, <2>2, <2>3 DEF scst_pr_load_device_file
<1>5. Fit(dev)'
  BY <1>1, <1>3, <1>4, FitMoves
<1>6. FileInv' /\ SessInv'
  BY <1>1, <1>2 DEF PInv, FileInv, File, Held, SessInv, SettingUp
<1>7. ~Mixed'
  BY <1>1, <1>2 DEF Mixed, NoPrTransport
<1>8. PrInv'
  BY <1>1, <1>2, <1>7 DEF PInv, PrInv
<1> QED
  BY <1>5, <1>6, <1>8 DEF PInv

-----------------------------------------------------------------------------
(* Sessions.                                                               *)

(* A session changes, the command in progress does not.                    *)
LEMMA SessKeeps ==
    ASSUME PInv, Fit(dev)', SessInv', UNCHANGED <<pr, main, bak, up>>,
           Registered(dev)' = Registered(dev),
           reserved_by = None => reserved_by' = None,
           \/ ~LoginRace /\ NoPrTransport' => NoPrTransport
           \/ Registered(dev) = {} /\ (LoginRace \/ pr.pc # "checked")
    PROVE  PInv'
<1>1. FileInv'
  BY DEF PInv, FileInv, File, Held
<1>2. Mixed' => Mixed \/ (Registered(dev) = {} /\ pr.pc # "checked")
  BY DEF Mixed
<1>3. PrInv'
  BY <1>2 DEF PInv, PrInv
<1> QED
  BY <1>1, <1>3 DEF PInv

(* scst_pr_init_tgt_dev() links the session to a registrant of its nexus   *)
(* that has none.                                                          *)
LEMMA InitStep ==
    ASSUME PInv, NEW s \in Sess, InitTgtDev(s)
    PROVE  PInv'
<1> DEFINE n == NexusOf[s]
<1>0. /\ dev \in Table /\ Linked(dev) /\ Held(dev) /\ Served(dev)
      /\ st \in [Sess -> {"none", "inited", "listed", "unlisted"}]
  BY DEF PInv, Fit, SessInv
<1>1. /\ MutexFree /\ st[s] = "none" /\ st' = [st EXCEPT ![s] = "inited"]
      /\ UNCHANGED <<pr, reserved_by, ua, main, bak, durable, up>>
  BY DEF InitTgtDev
<1>2. SessInv'
  BY <1>0, <1>1 DEF SessInv, SettingUp, MutexFree
<1>3. dev.registrant[s] = None
  BY <1>0, <1>1 DEF Linked
<1>4. CASE n \in Registered(dev) /\ dev.tgt_dev[n] = None
  <2>1. dev' = [dev EXCEPT !.tgt_dev[n] = s, !.registrant[s] = n]
    BY <1>4 DEF InitTgtDev
  <2>2. n \in Nexus /\ dev.key[n] # 0
    BY <1>4 DEF Registered
  <2> HIDE DEF n
  <2>3. /\ dev' \in Table /\ dev'.key = dev.key
        /\ dev'.tgt_dev = [dev.tgt_dev EXCEPT ![n] = s]
        /\ dev'.registrant = [dev.registrant EXCEPT ![s] = n]
        /\ dev'.pr_is_set = dev.pr_is_set /\ dev'.pr_type = dev.pr_type
        /\ dev'.pr_holder = dev.pr_holder
    BY Zenon, <1>0, <2>1, <2>2 DEF Table
  <2>4. Linked(dev)'
    <3>1. \A m \in Nexus : dev.tgt_dev[m] # s
      BY <1>0, <1>3, ConstFacts DEF Linked
    <3>2. \A t \in Sess \ {s} : dev.registrant[t] # n
      BY <1>0, <1>4, <2>2, ConstFacts DEF Linked
    <3>3. /\ dev.tgt_dev \in [Nexus -> Sess \cup {None}]
          /\ dev.registrant \in [Sess -> Nexus \cup {None}]
      BY <1>0 DEF Table
    <3>4. \A m \in Nexus : dev'.tgt_dev[m] # None =>
            dev'.key[m] # 0 /\ dev'.registrant[dev'.tgt_dev[m]] = m
      BY <1>0, <2>2, <2>3, <3>1, <3>3 DEF Linked
    <3>5. \A t \in Sess : dev'.registrant[t] # None =>
            /\ dev'.tgt_dev[dev'.registrant[t]] = t /\ NexusOf[t] = dev'.registrant[t]
            /\ st'[t] # "none"
      BY <1>0, <1>1, <2>2, <2>3, <3>2, <3>3 DEF Linked, n
    <3> QED
      BY <3>4, <3>5 DEF Linked
  <2>5. Held(dev)'
    BY <1>0, <2>3 DEF Held
  <2>6. Served(dev)'
    BY <1>0, <1>1, <2>2, <2>3, ConstFacts DEF Served, Table, n
  <2>7. Registered(dev)' = Registered(dev)
    BY <2>3 DEF Registered
  <2>8. NoPrTransport' => NoPrTransport
    BY <1>0, <1>1, <2>2, ConstFacts DEF NoPrTransport, n
  <2> QED
    BY <1>1, <1>2, <2>3, <2>4, <2>5, <2>6, <2>7, <2>8, SessKeeps DEF Fit
<1>5. CASE ~(n \in Registered(dev) /\ dev.tgt_dev[n] = None)
  <2>1. dev' = dev
    BY <1>5 DEF InitTgtDev
  <2>2. Linked(dev)' /\ Held(dev)'
    BY <1>0, <1>1, <2>1 DEF Linked, Held
  <2>3. Served(dev)'
    BY <1>0, <1>1, <1>5, <2>1 DEF Served, Registered
  <2>4. Registered(dev)' = Registered(dev)
    BY <2>1 DEF Registered
  <2>5. CASE n # None
    <3>1. NoPrTransport' => NoPrTransport
      BY <1>0, <1>1, <2>5 DEF NoPrTransport
    <3> QED
      BY <1>0, <1>1, <1>2, <2>1, <2>2, <2>3, <2>4, <3>1, SessKeeps DEF Fit
  <2>6. CASE n = None
    <3>1. Registered(dev) = {} /\ (LoginRace \/ pr.pc # "checked")
      BY <2>6 DEF InitTgtDev
    <3> QED
      BY <1>0, <1>1, <1>2, <2>1, <2>2, <2>3, <2>4, <3>1, SessKeeps DEF Fit
  <2> QED
    BY <2>5, <2>6
<1> QED
  BY <1>4, <1>5

(* A tgt_dev enters or leaves dev_tgt_dev_list; its link stays.            *)
LEMMA ListSteps ==
    ASSUME PInv, NEW s \in Sess, ListTgtDev(s) \/ UnlistTgtDev(s)
    PROVE  PInv'
<1>0. /\ dev \in Table /\ Linked(dev) /\ Held(dev) /\ Served(dev)
      /\ st \in [Sess -> {"none", "inited", "listed", "unlisted"}]
  BY DEF PInv, Fit, SessInv
<1>1. /\ UNCHANGED <<dev, pr, main, bak, up>> /\ (reserved_by = None => reserved_by' = None)
      /\ \/ st[s] = "inited" /\ st' = [st EXCEPT ![s] = "listed"]
         \/ st[s] = "listed" /\ st' = [st EXCEPT ![s] = "unlisted"] /\ MutexFree
  BY DEF ListTgtDev, UnlistTgtDev
<1>2. up = "up"
  BY <1>1 DEF PInv, SessInv
<1>3. SessInv'
  BY <1>0, <1>1, <1>2 DEF PInv, SessInv, SettingUp, MutexFree
<1>4. Linked(dev)' /\ Held(dev)' /\ Served(dev)'
  BY <1>0, <1>1 DEF Linked, Held, Served
<1>5. Registered(dev)' = Registered(dev) /\ (NoPrTransport' => NoPrTransport)
  BY <1>0, <1>1 DEF Registered, NoPrTransport
<1> QED
  BY <1>0, <1>1, <1>3, <1>4, <1>5, SessKeeps DEF Fit

(* scst_pr_clear_tgt_dev() and scst_reassign_retained_sess_states() move a *)
(* registrant from a session to another one of its nexus, or to none.      *)
LEMMA MoveLink ==
    ASSUME NEW d \in Table, Linked(d), Held(d), NEW s \in Sess, NEW n \in Nexus,
           d.registrant[s] = n, NEW t \in Sess \cup {None}, t # s,
           t # None => NexusOf[t] = n /\ st[t] # "none",
           NEW e \in Table, e.key = d.key, e.tgt_dev = [d.tgt_dev EXCEPT ![n] = t],
           e.registrant = [x \in Sess |-> IF x = s THEN None ELSE IF x = t THEN n
                                          ELSE d.registrant[x]],
           e.pr_is_set = d.pr_is_set, e.pr_type = d.pr_type, e.pr_holder = d.pr_holder
    PROVE  Linked(e) /\ Held(e) /\ e.registrant[s] = None
<1>1. /\ d.tgt_dev \in [Nexus -> Sess \cup {None}]
      /\ d.registrant \in [Sess -> Nexus \cup {None}]
  BY DEF Table
<1>2. d.tgt_dev[n] = s /\ NexusOf[s] = n /\ d.key[n] # 0
  BY ConstFacts DEF Linked
<1>3. \A x \in Sess \ {s} : d.registrant[x] # n
  BY <1>2, ConstFacts DEF Linked
<1>4. \A m \in Nexus : e.tgt_dev[m] # None => e.key[m] # 0 /\ e.registrant[e.tgt_dev[m]] = m
  <2> SUFFICES ASSUME NEW m \in Nexus, e.tgt_dev[m] # None
               PROVE  e.key[m] # 0 /\ e.registrant[e.tgt_dev[m]] = m
    OBVIOUS
  <2>1. CASE m = n
    BY <1>1, <1>2, <2>1
  <2>2. CASE m # n
    <3>1. d.tgt_dev[m] \in Sess /\ d.key[m] # 0 /\ d.registrant[d.tgt_dev[m]] = m
      BY <1>1, <2>2 DEF Linked
    <3>2. d.tgt_dev[m] # s
      BY <2>2, <3>1
    <3>3. d.tgt_dev[m] # t
      BY <2>2, <3>1, ConstFacts DEF Linked
    <3> QED
      BY <1>1, <2>2, <3>1, <3>2, <3>3
  <2> QED
    BY <2>1, <2>2
<1>5. ASSUME NEW x \in Sess, e.registrant[x] # None
      PROVE  e.tgt_dev[e.registrant[x]] = x /\ NexusOf[x] = e.registrant[x] /\ st[x] # "none"
  <2>1. CASE x = t
    BY <1>1, <2>1, ConstFacts
  <2>2. CASE x # t
    <3>1. x # s /\ e.registrant[x] = d.registrant[x]
      BY <1>5, <2>2
    <3>2. /\ d.registrant[x] \in Nexus /\ d.registrant[x] # n
          /\ d.tgt_dev[d.registrant[x]] = x /\ NexusOf[x] = d.registrant[x] /\ st[x] # "none"
      BY <1>1, <1>3, <1>5, <3>1 DEF Linked
    <3> QED
      BY <1>1, <3>1, <3>2
  <2> QED
    BY <2>1, <2>2
<1>6. Held(e)
  BY DEF Held
<1>7. e.registrant[s] = None
  OBVIOUS
<1> QED
  BY <1>4, <1>5, <1>6, <1>7 DEF Linked

(* scst_pr_clear_tgt_dev() passes the registrant on to another listed      *)
(* session of the nexus, if there is one.                                  *)
LEMMA ClearStep ==
    ASSUME PInv, NEW s \in Sess, ClearTgtDev(s)
    PROVE  PInv'
<1> DEFINE n == dev.registrant[s]
<1>0. /\ dev \in Table /\ Linked(dev) /\ Held(dev) /\ Served(dev)
      /\ st \in [Sess -> {"none", "inited", "listed", "unlisted"}]
      /\ \A x, y \in Sess : SettingUp(x) /\ SettingUp(y) => x = y
  BY DEF PInv, Fit, SessInv
<1>1. /\ SettingUp(s) /\ st' = [st EXCEPT ![s] = "none"]
      /\ UNCHANGED <<pr, reserved_by, ua, main, bak, durable, up>>
  BY Zenon DEF ClearTgtDev, SettingUp
<1>2. up = "up"
  BY <1>1 DEF PInv, SessInv, SettingUp
<1>3. SessInv'
  BY <1>0, <1>1, <1>2 DEF PInv, SessInv, SettingUp
<1>4. NoPrTransport' => NoPrTransport
  BY <1>0, <1>1 DEF NoPrTransport
<1>5. CASE n = None
  <2>1. dev' = dev
    BY <1>5 DEF ClearTgtDev
  <2>2. Linked(dev)' /\ Held(dev)' /\ Served(dev)' /\ Registered(dev)' = Registered(dev)
    BY <1>0, <1>1, <1>5, <2>1 DEF Linked, Held, Served, Registered
  <2> QED
    BY <1>0, <1>1, <1>3, <1>4, <2>1, <2>2, SessKeeps DEF Fit
<1>6. CASE n # None
  <2>1. n \in Nexus /\ dev.tgt_dev[n] = s /\ NexusOf[s] = n /\ n = dev.registrant[s]
    BY <1>0, <1>6 DEF Linked, Table
  <2>2. PICK t \in Heirs(s) \cup {None} :
          /\ t = None => Heirs(s) = {}
          /\ dev' = IF t = None
                    THEN [dev EXCEPT !.tgt_dev[n] = None, !.registrant[s] = None]
                    ELSE [dev EXCEPT !.tgt_dev[n] = t, !.registrant[s] = None,
                                     !.registrant[t] = n]
    BY Zenon, <1>6, ConstFacts DEF ClearTgtDev, Heirs, Listed
  <2>3. /\ t \in Sess \cup {None} /\ t # s
        /\ t # None => t \in Sess /\ NexusOf[t] = n /\ st[t] = "listed"
    BY <2>2, ConstFacts DEF Heirs, Listed
  <2> HIDE DEF n
  <2>4. /\ dev' \in Table /\ dev'.key = dev.key
        /\ dev'.tgt_dev = [dev.tgt_dev EXCEPT ![n] = t]
        /\ dev'.registrant = [x \in Sess |-> IF x = s THEN None ELSE IF x = t THEN n
                                             ELSE dev.registrant[x]]
        /\ dev'.pr_is_set = dev.pr_is_set /\ dev'.pr_type = dev.pr_type
        /\ dev'.pr_holder = dev.pr_holder
    <3>1. CASE t = None
      <4>1. dev' = [dev EXCEPT !.tgt_dev[n] = None, !.registrant[s] = None]
        BY <2>2, <3>1
      <4>2. /\ dev' \in Table /\ dev'.key = dev.key /\ dev'.pr_is_set = dev.pr_is_set
            /\ dev'.pr_type = dev.pr_type /\ dev'.pr_holder = dev.pr_holder
            /\ dev'.tgt_dev = [dev.tgt_dev EXCEPT ![n] = None]
            /\ dev'.registrant = [dev.registrant EXCEPT ![s] = None]
        BY Zenon, <1>0, <4>1 DEF Table
      <4>3. dev.registrant \in [Sess -> Nexus \cup {None}]
        BY <1>0 DEF Table
      <4>4. dev'.registrant = [x \in Sess |-> IF x = s THEN None ELSE IF x = t THEN n
                                              ELSE dev.registrant[x]]
        BY <3>1, <4>2, <4>3, ConstFacts
      <4> QED
        BY <3>1, <4>2, <4>4
    <3>2. CASE t # None
      <4>1. dev' = [dev EXCEPT !.tgt_dev[n] = t, !.registrant[s] = None, !.registrant[t] = n]
        BY <2>2, <3>2
      <4>2. /\ dev.tgt_dev \in [Nexus -> Sess \cup {None}]
            /\ dev.registrant \in [Sess -> Nexus \cup {None}]
        BY <1>0 DEF Table
      <4>3. /\ dev'.key = dev.key /\ dev'.pr_is_set = dev.pr_is_set
            /\ dev'.pr_type = dev.pr_type /\ dev'.pr_holder = dev.pr_holder
            /\ dev'.tgt_dev = [dev.tgt_dev EXCEPT ![n] = t]
            /\ dev'.registrant = [dev.registrant EXCEPT ![s] = None, ![t] = n]
        BY <1>0, <4>1 DEF Table
      <4>4. dev' \in Table
        BY Zenon, <1>0, <2>1, <2>3, <3>2, <4>1 DEF Table
      <4>5. dev'.registrant = [x \in Sess |-> IF x = s THEN None ELSE IF x = t THEN n
                                              ELSE dev.registrant[x]]
        BY <2>3, <3>2, <4>2, <4>3
      <4> QED
        BY <4>3, <4>4, <4>5
    <3> QED
      BY <3>1, <3>2
  <2>5. PICK e : dev' = e
    OBVIOUS
  <2>6. Linked(e) /\ Held(e) /\ e.registrant[s] = None
    <3>1. /\ dev \in Table /\ Linked(dev) /\ Held(dev) /\ s \in Sess /\ n \in Nexus
          /\ dev.registrant[s] = n /\ t \in Sess \cup {None} /\ t # s
          /\ t # None => NexusOf[t] = n /\ st[t] # "none"
      BY <1>0, <2>1, <2>3
    <3>2. /\ e \in Table /\ e.key = dev.key /\ e.tgt_dev = [dev.tgt_dev EXCEPT ![n] = t]
          /\ e.registrant = [x \in Sess |-> IF x = s THEN None ELSE IF x = t THEN n
                                            ELSE dev.registrant[x]]
          /\ e.pr_is_set = dev.pr_is_set /\ e.pr_type = dev.pr_type
          /\ e.pr_holder = dev.pr_holder
      BY <2>4, <2>5
    <3> QED
      BY ONLY <3>1, <3>2, MoveLink
  <2>7. Linked(dev)' /\ Held(dev)'
    BY <1>0, <1>1, <2>5, <2>6 DEF Linked, Held
  <2>8. Served(dev)'
    <3> SUFFICES ASSUME ~LoginRace, NEW x \in Sess, NEW m \in Nexus,
                        st'[x] \in {"inited", "listed"}, NexusOf[x] = m, dev'.key[m] # 0
                 PROVE  dev'.tgt_dev[m] # None
      BY DEF Served
    <3>1. x # s /\ st[x] = st'[x]
      BY <1>0, <1>1
    <3>2. st[x] = "listed"
      BY <1>0, <1>1, <3>1 DEF SettingUp
    <3>3. CASE m = n
      <4>1. x \in Heirs(s)
        BY <2>1, <3>1, <3>2, <3>3 DEF Heirs, Listed
      <4>2. t # None
        BY <2>2, <4>1
      <4> QED
        BY <1>0, <2>1, <2>4, <3>3, <4>2 DEF Table
    <3>4. CASE m # n
      <4>1. dev.tgt_dev[m] # None
        BY <1>0, <2>4, <3>2 DEF Served
      <4> QED
        BY <1>0, <2>4, <3>4, <4>1 DEF Table
    <3> QED
      BY <3>3, <3>4
  <2>9. Registered(dev)' = Registered(dev)
    BY <2>4 DEF Registered
  <2> QED
    BY <1>1, <1>3, <1>4, <2>4, <2>7, <2>8, <2>9, SessKeeps DEF Fit
<1> QED
  BY <1>5, <1>6

(* scst_reassign_retained_sess_states(): both sessions have the same       *)
(* nexus, so new has no registrant of its own if old has one.              *)
LEMMA ReassignStep ==
    ASSUME PInv, NEW new \in Sess, NEW old \in Sess, Reassign(new, old)
    PROVE  PInv'
<1> DEFINE n == dev.registrant[old]
<1>0. dev \in Table /\ Linked(dev) /\ Held(dev) /\ Served(dev)
  BY DEF PInv, Fit
<1>1. /\ UNCHANGED <<st, pr, ua, main, bak, durable, up>> /\ new # old
      /\ st[new] = "listed" /\ NexusOf[new] = NexusOf[old]
      /\ reserved_by' = IF reserved_by = old THEN new ELSE reserved_by
  BY DEF Reassign, Listed
<1>2. reserved_by = None => reserved_by' = None
  BY <1>1, ConstFacts
<1>3. SessInv' /\ NoPrTransport' = NoPrTransport
  <2>1. up = "up"
    BY DEF Reassign, MutexFree
  <2> QED
    BY <1>1, <2>1 DEF PInv, SessInv, SettingUp, NoPrTransport
<1>4. CASE n = None
  <2>1. dev' = dev
    BY <1>4 DEF Reassign
  <2>2. Fit(dev)' /\ Registered(dev)' = Registered(dev)
    BY <1>1, <2>1, FitMoves DEF PInv, Registered
  <2> QED
    BY <1>1, <1>2, <1>3, <2>2, SessKeeps
<1>5. CASE n # None
  <2>1. n \in Nexus /\ dev.tgt_dev[n] = old /\ NexusOf[old] = n /\ n = dev.registrant[old]
    BY <1>0, <1>5 DEF Linked, Table
  <2>2. dev.registrant[new] = None
    BY <1>0, <1>1, <2>1 DEF Linked
  <2>3. dev' = [dev EXCEPT
                  !.tgt_dev = [m \in Nexus |-> IF m = n THEN new
                                               ELSE IF m = dev.registrant[new] THEN None
                                               ELSE @[m]],
                  !.registrant[new] = n, !.registrant[old] = None]
    BY <1>5 DEF Reassign
  <2> HIDE DEF n
  <2>4. /\ dev' \in Table /\ dev'.key = dev.key
        /\ dev'.tgt_dev = [dev.tgt_dev EXCEPT ![n] = new]
        /\ dev'.registrant = [x \in Sess |-> IF x = old THEN None ELSE IF x = new THEN n
                                             ELSE dev.registrant[x]]
        /\ dev'.pr_is_set = dev.pr_is_set /\ dev'.pr_type = dev.pr_type
        /\ dev'.pr_holder = dev.pr_holder
    <3>1. /\ dev.tgt_dev \in [Nexus -> Sess \cup {None}]
          /\ dev.registrant \in [Sess -> Nexus \cup {None}]
      BY <1>0 DEF Table
    <3>2. /\ dev'.key = dev.key /\ dev'.pr_is_set = dev.pr_is_set
          /\ dev'.pr_type = dev.pr_type /\ dev'.pr_holder = dev.pr_holder
          /\ dev'.tgt_dev = [m \in Nexus |-> IF m = n THEN new
                                            ELSE IF m = dev.registrant[new] THEN None
                                            ELSE dev.tgt_dev[m]]
          /\ dev'.registrant = [dev.registrant EXCEPT ![new] = n, ![old] = None]
      BY <1>0, <2>3 DEF Table
    <3>3. dev' \in Table
      BY Zenon, <1>0, <2>1, <2>3 DEF Table
    <3>4. dev'.tgt_dev = [dev.tgt_dev EXCEPT ![n] = new]
      BY <2>1, <2>2, <3>1, <3>2, ConstFacts
    <3>5. dev'.registrant = [x \in Sess |-> IF x = old THEN None ELSE IF x = new THEN n
                                            ELSE dev.registrant[x]]
      BY <1>1, <3>1, <3>2
    <3> QED
      BY <3>2, <3>3, <3>4, <3>5
  <2>5. PICK e : dev' = e
    OBVIOUS
  <2>6. Linked(e) /\ Held(e)
    <3>1. /\ dev \in Table /\ Linked(dev) /\ Held(dev) /\ old \in Sess /\ n \in Nexus
          /\ dev.registrant[old] = n /\ new \in Sess \cup {None} /\ new # old
          /\ new # None => NexusOf[new] = n /\ st[new] # "none"
      BY <1>0, <1>1, <2>1
    <3>2. /\ e \in Table /\ e.key = dev.key /\ e.tgt_dev = [dev.tgt_dev EXCEPT ![n] = new]
          /\ e.registrant = [x \in Sess |-> IF x = old THEN None ELSE IF x = new THEN n
                                            ELSE dev.registrant[x]]
          /\ e.pr_is_set = dev.pr_is_set /\ e.pr_type = dev.pr_type
          /\ e.pr_holder = dev.pr_holder
      BY <2>4, <2>5
    <3> QED
      BY ONLY <3>1, <3>2, MoveLink
  <2>7. Served(e)
    BY <1>0, <2>1, <2>4, <2>5, ConstFacts DEF Served, Table
  <2>8. Fit(dev)'
    BY <1>1, <2>4, <2>5, <2>6, <2>7, FitMoves DEF Fit
  <2>9. Registered(dev)' = Registered(dev)
    BY <2>4 DEF Registered
  <2> QED
    BY <1>1, <1>2, <1>3, <2>8, <2>9, SessKeeps
<1> QED
  BY <1>4, <1>5

-----------------------------------------------------------------------------
(* The start of commands, and SPC-2 reservations.                          *)

(* A command passes the checks made before dev_pr_mutex.                   *)
LEMMA StartSteps ==
    ASSUME PInv, NEW s \in Sess, StartPrOut(s) \/ StartReserve6(s) \/ Release6(s)
    PROVE  PInv'
<1>1. /\ UNCHANGED <<dev, st, ua, main, bak, durable, up>> /\ up = "up" /\ pr.pc = "idle"
      /\ s \in Listed
  BY DEF StartPrOut, StartPrOutReserved, StartReserve6, Release6
<1>2. Fit(dev)' /\ FileInv'
  BY <1>1, FitMoves DEF PInv, FileInv, File, Held
<1>3. SessInv'
  BY <1>1 DEF PInv, SessInv, SettingUp
<1>4. Registered(dev)' = Registered(dev) /\ NoPrTransport' = NoPrTransport
  BY <1>1 DEF Registered, NoPrTransport
<1>5. CASE StartPrOut(s)
  <2>1. /\ reserved_by = None /\ reserved_by' = None /\ ~NoPrTransport
        /\ pr' = [sess |-> s, pc |-> "checked"]
    BY <1>5 DEF StartPrOut, StartPrOutReserved
  <2>2. NexusOf[s] \in Nexus
    BY <1>1, <2>1, ConstFacts DEF NoPrTransport, Listed
  <2> QED
    BY <1>2, <1>3, <1>4, <2>1, <2>2, ConstFacts DEF PInv, PrInv, Mixed
<1>6. CASE StartReserve6(s)
  <2>1. Registered(dev) = {} /\ pr' = [sess |-> s, pc |-> "reserve"]
    BY <1>6 DEF StartReserve6
  <2> QED
    BY <1>2, <1>3, <1>4, <2>1, ConstFacts DEF PInv, PrInv
<1>7. CASE Release6(s)
  <2>1. reserved_by' = None /\ pr' = pr /\ Registered(dev) = {}
    BY <1>7 DEF Release6
  <2> QED
    BY <1>1, <1>2, <1>3, <1>4, <2>1 DEF PInv, PrInv, Mixed
<1> QED
  BY <1>5, <1>6, <1>7

(* RESERVE sets reserved_by while there are still no registrants.          *)
LEMMA Reserve6Steps ==
    ASSUME PInv, Reserve6 \/ Reset6
    PROVE  PInv'
<1>1. UNCHANGED <<dev, st, main, bak, durable, up>>
  BY DEF Reserve6, Reset6
<1>2. Fit(dev)' /\ FileInv'
  BY <1>1, FitMoves DEF PInv, FileInv, File, Held
<1>3. Registered(dev)' = Registered(dev) /\ NoPrTransport' = NoPrTransport
  BY <1>1 DEF Registered, NoPrTransport
<1>4. up = "up"
  BY DEF Reserve6, Reset6, PInv, SessInv
<1>5. SessInv'
  BY <1>1, <1>4 DEF PInv, SessInv, SettingUp
<1>6. CASE Reserve6
  <2>1. Registered(dev) = {} /\ pr' = [sess |-> None, pc |-> "idle"]
    BY <1>6 DEF Reserve6, PInv, PrInv
  <2> QED
    BY <1>2, <1>3, <1>5, <2>1 DEF PInv, PrInv
<1>7. CASE Reset6
  <2>1. reserved_by' = None /\ pr' = pr
    BY <1>7 DEF Reset6
  <2> QED
    BY <1>2, <1>3, <1>5, <2>1 DEF PInv, PrInv, Mixed
<1> QED
  BY <1>6, <1>7

-----------------------------------------------------------------------------
(* The invariant and the theorems.                                         *)

(* PInv is an invariant: it holds initially, ...                           *)
LEMMA PInvInit == Init => PInv
<1> SUFFICES ASSUME Init PROVE PInv
  OBVIOUS
<1>1. Fit(dev)
  BY EmptyFit DEF Init
<1>2. Registered(dev) = {}
  BY DEF Init, Empty, Registered
<1>3. FileInv
  BY DEF Init, FileInv, File
<1>4. SessInv
  BY DEF Init, SessInv, SettingUp
<1>5. PrInv
  BY <1>2 DEF Init, PrInv
<1> QED
  BY <1>1, <1>3, <1>4, <1>5 DEF PInv

(* ... and every step keeps it.                                            *)
LEMMA PInvStep == PInv /\ [Next]_vars => PInv'
<1> SUFFICES ASSUME PInv, [Next]_vars PROVE PInv'
  OBVIOUS
<1>1. ASSUME NEW s \in Sess, StartPrOut(s) \/ StartReserve6(s) \/ Release6(s)
      PROVE  PInv'
  BY <1>1, StartSteps
<1>2. CASE PrOut \/ Sync \/ PowerLoss \/ RegisterDevice \/ Reserve6 \/ Reset6
  BY <1>2, PrOutStep, SyncStep, PowerStep, LoadStep, Reserve6Steps
<1>3. ASSUME NEW s \in Sess,
             InitTgtDev(s) \/ ListTgtDev(s) \/ UnlistTgtDev(s) \/ ClearTgtDev(s)
      PROVE  PInv'
  BY <1>3, InitStep, ListSteps, ClearStep
<1>4. ASSUME NEW new \in Sess, NEW old \in Sess, Reassign(new, old)
      PROVE  PInv'
  BY <1>4, ReassignStep
<1>5. CASE UNCHANGED vars
  <2>1. UNCHANGED <<dev, st, pr, reserved_by, main, bak, up>>
    BY <1>5 DEF vars
  <2>2. Fit(dev)'
    BY <2>1, FitMoves DEF PInv
  <2>3. FileInv' /\ SessInv'
    BY <2>1 DEF PInv, FileInv, File, Held, SessInv, SettingUp
  <2>4. PrInv'
    BY <2>1 DEF PInv, PrInv, Mixed, NoPrTransport, Registered
  <2> QED
    BY <2>2, <2>3, <2>4 DEF PInv
<1> QED
  BY <1>1, <1>2, <1>3, <1>4, <1>5 DEF Next

(* Whatever sessions and commands do, and whenever the power fails: the    *)
(* pointers between a registrant and its tgt_dev agree, so that neither is *)
(* used after it has been freed.                                           *)
THEOREM LinksCorrect == Spec => []LinksSound
<1>1. PInv => LinksSound
  BY DEF PInv, Fit, Linked, LinksSound, Registered, Table
<1> QED
  BY <1>1, PInvInit, PInvStep, PTL DEF Spec

(* A reservation has a holder that is registered.                          *)
THEOREM HolderCorrect == Spec => []HolderSound
<1>1. PInv => HolderSound
  BY DEF PInv, Fit, Held, HolderSound, Registered, Table
<1> QED
  BY <1>1, PInvInit, PInvStep, PTL DEF Spec

(* If no session is set up while a PERSISTENT RESERVE OUT registers its    *)
(* nexus, scst_pr_is_cmd_allowed() lets past a reservation exactly those   *)
(* who are entitled to it.                                                 *)
THEOREM AccessCorrect ==
    ASSUME ~LoginRace
    PROVE  Spec => []AccessRight
<1>1. PInv => AccessRight
  <2> SUFFICES ASSUME PInv, dev.pr_is_set
               PROVE  /\ \A s \in Listed :
                            scst_pr_is_cmd_allowed(s, "none") => Entitled(NexusOf[s])
                      /\ \A s \in Listed : Entitled(NexusOf[s]) =>
                            \E t \in Sess : /\ NexusOf[t] = NexusOf[s] /\ st[t] # "none"
                                           /\ scst_pr_is_cmd_allowed(t, "none")
    BY DEF AccessRight
  <2>1. dev \in Table /\ Linked(dev) /\ Held(dev) /\ Served(dev)
    BY DEF PInv, Fit
  <2>2. ASSUME NEW s \in Listed, scst_pr_is_cmd_allowed(s, "none")
        PROVE  Entitled(NexusOf[s])
    <3>1. s \in Sess /\ dev.registrant[s] # None
          /\ (dev.pr_type \in HolderOnly => dev.registrant[s] = dev.pr_holder)
      BY <2>2 DEF scst_pr_is_cmd_allowed, Listed
    <3>2. NexusOf[s] = dev.registrant[s] /\ NexusOf[s] \in Nexus /\ dev.key[NexusOf[s]] # 0
      BY <2>1, <3>1, ConstFacts DEF Linked, Table
    <3> QED
      BY <3>1, <3>2 DEF Entitled, Registered
  <2>3. ASSUME NEW s \in Listed, Entitled(NexusOf[s])
        PROVE  \E t \in Sess : /\ NexusOf[t] = NexusOf[s] /\ st[t] # "none"
                              /\ scst_pr_is_cmd_allowed(t, "none")
    <3> DEFINE n == NexusOf[s]
               t == dev.tgt_dev[n]
    <3>1. n \in Nexus /\ dev.key[n] # 0 /\ (dev.pr_type \in HolderOnly => dev.pr_holder = n)
      BY <2>3 DEF Entitled, Registered
    <3>2. s \in Sess /\ st[s] = "listed"
      BY DEF Listed
    <3>3. t # None
      BY <2>1, <3>1, <3>2 DEF Served
    <3>4. t \in Sess
      BY <2>1, <3>1, <3>3 DEF Table
    <3>5. dev.registrant[t] = n /\ n # None
      BY <2>1, <3>1, <3>3, ConstFacts DEF Linked
    <3>6. NexusOf[t] = n /\ st[t] # "none"
      BY <2>1, <3>4, <3>5 DEF Linked
    <3> HIDE DEF t, n
    <3>7. scst_pr_is_cmd_allowed(t, "none")
      BY <3>1, <3>5 DEF scst_pr_is_cmd_allowed
    <3> QED
      BY <3>4, <3>6, <3>7 DEF n
  <2> QED
    BY <2>2, <2>3
<1> QED
  BY <1>1, PInvInit, PInvStep, PTL DEF Spec

(* Under the same condition there is neither an SPC-2 reservation nor a    *)
(* session without TransportIDs on a device with registrants.              *)
THEOREM NoMixingCorrect ==
    ASSUME ~LoginRace
    PROVE  Spec => []NoMixing
<1>1. PInv => NoMixing
  BY DEF PInv, PrInv, Mixed, NoMixing
<1> QED
  BY <1>1, PInvInit, PInvStep, PTL DEF Spec

=============================================================================
