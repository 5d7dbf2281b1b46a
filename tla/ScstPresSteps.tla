---------------------------- MODULE ScstPresSteps ----------------------------
(***************************************************************************)
(* Proofs of what no step of ScstPres does: a REGISTER that fails leaves   *)
(* nothing behind (FailureUndone), nobody loses a registration or access   *)
(* without a unit attention (PeersTold), and the file and its backup       *)
(* survive power failures, any number of them and at any step of a save    *)
(* but the ones Unrecoverable names (Recovered).                           *)
(***************************************************************************)
EXTENDS ScstPresProofs

(* Only a service action ends or advances a PERSISTENT RESERVE OUT that    *)
(* has not changed the table yet.                                          *)
LEMMA CheckedStep ==
    ASSUME PInv, [Next]_vars, pr.pc = "checked", up' = "up"
    PROVE  PrOut \/ (pr' = pr /\ dev'.key = dev.key /\ dev'.pr_type = dev.pr_type)
<1>1. CASE \E s \in Sess : StartPrOut(s) \/ StartReserve6(s) \/ Release6(s)
  BY <1>1 DEF StartPrOut, StartPrOutReserved, StartReserve6, Release6
<1>2. CASE Sync \/ PowerLoss \/ RegisterDevice \/ Reserve6
  <2>1. up = "up"
    BY DEF PInv, SessInv
  <2> QED
    BY <1>2, <2>1 DEF Sync, RemoveMain, RemoveBackup, CopyBackup, WriteData, WriteSignature,
         SaveFails, PowerLoss, RegisterDevice, Reserve6
<1>3. ASSUME NEW s \in Sess, InitTgtDev(s)
      PROVE  pr' = pr /\ dev'.key = dev.key /\ dev'.pr_type = dev.pr_type
  BY <1>3 DEF InitTgtDev, PInv, Fit, Table
<1>4. ASSUME NEW s \in Sess, ClearTgtDev(s)
      PROVE  pr' = pr /\ dev'.key = dev.key /\ dev'.pr_type = dev.pr_type
  BY Zenon, <1>4 DEF ClearTgtDev, PInv, Fit, Table
<1>5. ASSUME NEW new \in Sess, NEW old \in Sess, Reassign(new, old)
      PROVE  pr' = pr /\ dev'.key = dev.key /\ dev'.pr_type = dev.pr_type
  BY <1>5 DEF Reassign, PInv, Fit, Table
<1>6. ASSUME NEW s \in Sess, ListTgtDev(s) \/ UnlistTgtDev(s)
      PROVE  pr' = pr /\ dev' = dev
  BY <1>6 DEF ListTgtDev, UnlistTgtDev
<1>7. CASE Reset6 \/ UNCHANGED vars
  BY <1>7 DEF Reset6, vars
<1> QED
  BY <1>1, <1>2, <1>3, <1>4, <1>5, <1>6, <1>7 DEF Next

(* A service action succeeds, is refused or is rolled back.                *)
LEMMA PrOutEnds ==
    ASSUME PrOut
    PROVE  \/ \E d, told : Good(d, told)
           \/ RefusePrOut
           \/ \E k \in Keys, all_tg_pt \in BOOLEAN, spec \in SUBSET Tid :
                 RegisterFails(k, spec, all_tg_pt)
<1>1. ASSUME NEW k, NEW spec, NEW all_tg_pt, NEW aptpl, Register(k, spec, all_tg_pt, aptpl)
      PROVE  \E d, told : Good(d, told)
  BY <1>1 DEF Register, RegisterAgain, RegisterNew
<1>2. ASSUME NEW n, NEW k, NEW unreg, NEW aptpl, RegisterAndMove(n, k, unreg, aptpl)
      PROVE  \E d, told : Good(d, told)
  BY <1>2 DEF RegisterAndMove
<1>3. ASSUME NEW type, Reserve(type) \/ Release(type) \/ Clear
      PROVE  \E d, told : Good(d, told)
  BY <1>3 DEF Reserve, Release, Clear
<1>4. ASSUME NEW k, NEW type, Preempt(k, type) \/ PreemptAndAbort(k, type)
      PROVE  \E d, told : Good(d, told)
  BY Zenon, <1>4 DEF Preempt, PreemptAndAbort, scst_pr_do_preempt
<1> QED
  BY <1>1, <1>2, <1>3, <1>4 DEF PrOut, RegisterAndIgnore

(* RegisterFails() has rolled everything back.                             *)
LEMMA FailsUndone ==
    ASSUME PInv, NEW k \in Keys, NEW spec \in SUBSET Tid, NEW all_tg_pt \in BOOLEAN,
           RegisterFails(k, spec, all_tg_pt)
    PROVE  Meaning(dev') = Meaning(dev)
<1> DEFINE A == ToAdd(dev, spec, all_tg_pt)
           C == ToChange(dev, spec, all_tg_pt, k)
<1>1. pr.pc = "checked" /\ Fit(dev)
  BY DEF RegisterFails, PInv
<1>2. /\ A \in SUBSET Nexus /\ C \in SUBSET Nexus
      /\ \A n \in A : dev.key[n] = 0
      /\ \A n \in C : dev.key[n] # 0
  BY <1>1, RegisterSets
<1>3. PICK A1 \in SUBSET A, C1 \in SUBSET C :
        \E f \in Links(dev, A1) :
           dev' = Rollback(SetKeys(scst_pr_add_registrant(dev, A1, k, f), C1, k),
                           [n \in A1 \cup C1 |-> dev.key[n]])
  BY DEF RegisterFails
<1> HIDE DEF A, C
<1>4. /\ A1 \in SUBSET Nexus /\ C1 \in SUBSET Nexus
      /\ \A n \in A1 : dev.key[n] = 0
      /\ \A n \in C1 : dev.key[n] # 0
  BY <1>2
<1>5. PICK f \in Links(dev, A1) :
        dev' = Rollback(SetKeys(scst_pr_add_registrant(dev, A1, k, f), C1, k),
                        [n \in A1 \cup C1 |-> dev.key[n]])
  BY <1>3
<1>6. Meaning(Rollback(SetKeys(scst_pr_add_registrant(dev, A1, k, f), C1, k),
                       [n \in A1 \cup C1 |-> dev.key[n]])) = Meaning(dev)
  <2>1. /\ Fit(dev) /\ k \in Keys /\ f \in Links(dev, A1)
        /\ A1 \in SUBSET Nexus /\ C1 \in SUBSET Nexus
        /\ \A n \in A1 : dev.key[n] = 0
        /\ \A n \in C1 : dev.key[n] # 0
    BY <1>1, <1>4
  <2> QED
    BY ONLY <2>1, RollbackExact
<1> QED
  BY <1>5, <1>6

-----------------------------------------------------------------------------
(* Unit attentions.                                                        *)

(* n is another initiator port's registrant, with a session.               *)
Peer(n) == n \in Registered(dev) /\ n[1] # Me[1] /\ dev.tgt_dev[n] # None
(* Good() with this table and these unit attentions tells n.               *)
TellsOf(n, d, told) ==
    LET heard == \E what \in {"released", "preempted"} : <<dev.tgt_dev[n], what>> \in told
    IN /\ d.key[n] = 0 => heard
       /\ dev.pr_type \in RegOnly \cup AllReg /\ d.pr_type # dev.pr_type => heard

(* TellsOf() is what PeersTold asks for.                                   *)
LEMMA GoodTells ==
    ASSUME NEW n \in Nexus, NEW d, NEW told, Good(d, told), TellsOf(n, d, told)
    PROVE  /\ n \notin Registered(dev)' => Told(dev.tgt_dev[n])
           /\ dev.pr_type \in RegOnly \cup AllReg /\ dev'.pr_type # dev.pr_type
                 => Told(dev.tgt_dev[n])
BY DEF Good, TellsOf, Told, Registered

(* The sender's registrant is not a peer.                                  *)
LEMMA NotPeer ==
    ASSUME PInv, pr.pc = "checked", NEW n \in Nexus, Peer(n)
    PROVE  /\ n # Me /\ dev.key[n] # 0 /\ dev.registrant[pr.sess] \in {None, Me}
           /\ dev.tgt_dev[n] # pr.sess
<1>1. dev \in Table /\ Linked(dev) /\ pr.sess \in Sess
  BY Sender DEF PInv, Fit
<1>2. dev.registrant[pr.sess] \in {None, Me}
  BY <1>1 DEF Linked, Me
<1>3. dev.key[n] # 0 /\ dev.registrant[dev.tgt_dev[n]] = n /\ n # Me
  BY <1>1 DEF Linked, Peer, Registered
<1> QED
  BY <1>2, <1>3, ConstFacts

(* What removing registrants leaves of the reservation.                    *)
LEMMA RemoveType ==
    ASSUME NEW d, Fit(d), NEW R \in SUBSET Nexus
    PROVE  LET e == scst_pr_remove_registrant(d, R) IN
           /\ e.tgt_dev = [n \in Nexus |-> IF n \in R THEN None ELSE d.tgt_dev[n]]
           /\ e.pr_type = d.pr_type \/ (e.pr_type = None /\ ~e.pr_is_set)
           /\ e.pr_type # d.pr_type =>
                 /\ d.pr_is_set /\ \E n \in R : scst_pr_is_holder(d, n)
                 /\ d.pr_type \in AllReg => \A n \in Nexus \ R : d.key[n] = 0
<1> DEFINE rest == RemoveKeepsHolder(d, R)
           e == scst_pr_remove_registrant(d, R)
<1>1. d \in Table
  BY DEF Fit
<1>2. /\ rest \in Table
      /\ rest.key = [n \in Nexus |-> IF n \in R THEN 0 ELSE d.key[n]]
      /\ rest.tgt_dev = [n \in Nexus |-> IF n \in R THEN None ELSE d.tgt_dev[n]]
      /\ rest.pr_type = d.pr_type
  BY Zenon, <1>1, RemoveFields
<1>3. e = IF \E n \in R : scst_pr_is_holder(d, n) THEN scst_pr_clear_holder(rest) ELSE rest
  BY DEF scst_pr_remove_registrant
<1> HIDE DEF rest, e
<1>4. CASE ~\E n \in R : scst_pr_is_holder(d, n)
  BY <1>2, <1>3, <1>4 DEF e
<1>5. CASE \E n \in R : scst_pr_is_holder(d, n)
  <2>1. d.pr_is_set
    BY <1>5 DEF scst_pr_is_holder
  <2>2. CASE rest.pr_type \in AllReg /\ Registered(rest) # {}
    <3>1. e = [rest EXCEPT !.pr_holder = None]
      BY <1>3, <1>5, <2>2 DEF scst_pr_clear_holder
    <3>2. e.tgt_dev = rest.tgt_dev /\ e.pr_type = rest.pr_type
      BY <1>2, <3>1, NoHolderFields
    <3> QED
      BY <1>2, <3>2 DEF e
  <2>3. CASE ~(rest.pr_type \in AllReg /\ Registered(rest) # {})
    <3>1. e = scst_pr_clear_reservation(rest)
      BY <1>3, <1>5, <2>3 DEF scst_pr_clear_holder
    <3>2. e.tgt_dev = rest.tgt_dev /\ e.pr_type = None /\ e.pr_is_set = FALSE
      BY Zenon, <1>2, <3>1, ClearFields
    <3>3. d.pr_type \in AllReg => \A n \in Nexus \ R : d.key[n] = 0
      BY <1>2, <2>3 DEF Registered
    <3> QED
      BY <1>2, <1>5, <2>1, <3>2, <3>3 DEF e
  <2> QED
    BY <2>2, <2>3
<1> QED
  BY <1>4, <1>5

(* REGISTER unregisters nexuses of the sender's initiator port only; what  *)
(* that releases it tells.                                                 *)
LEMMA RegisterTells ==
    ASSUME PInv, NEW k \in Keys \cup {0}, NEW spec \in SUBSET Tid,
           NEW all_tg_pt \in BOOLEAN, NEW aptpl \in BOOLEAN,
           Register(k, spec, all_tg_pt, aptpl), NEW n \in Nexus, Peer(n)
    PROVE  \E d, told : Good(d, told) /\ TellsOf(n, d, told)
<1>0. pr.pc = "checked" /\ Fit(dev) /\ dev \in Table
  BY DEF Register, PInv, Fit
<1>1. n # Me /\ dev.key[n] # 0 /\ dev.registrant[pr.sess] \in {None, Me} /\ Me \in Nexus
  BY <1>0, NotPeer, Sender
<1>2. CASE dev.registrant[pr.sess] # None /\ k = 0
  <2> DEFINE R == IF all_tg_pt THEN Registered(dev) \cap ({Me[1]} \X Rel)
                               ELSE {dev.registrant[pr.sess]}
             u == scst_pr_unregister(dev, R)
             rest == scst_pr_remove_registrant(dev, R)
  <2>1. Good(WithAptpl(u.d, aptpl), u.told)
    BY <1>2 DEF Register, RegisterAgain
  <2>2. R \in SUBSET Nexus /\ n \notin R
    BY <1>1, <1>2 DEF Registered, Peer, Nexus
  <2> HIDE DEF R
  <2>3. /\ Fit(rest) /\ rest.key = [m \in Nexus |-> IF m \in R THEN 0 ELSE dev.key[m]]
        /\ rest.tgt_dev = [m \in Nexus |-> IF m \in R THEN None ELSE dev.tgt_dev[m]]
        /\ rest.pr_type = dev.pr_type \/ (rest.pr_type = None /\ ~rest.pr_is_set)
        /\ rest.pr_type # dev.pr_type =>
              dev.pr_is_set /\ (dev.pr_type \in AllReg => \A m \in Nexus \ R : dev.key[m] = 0)
    BY <1>0, <2>2, RemoveFit, RemoveType
  <2>4. /\ u.d = rest
        /\ u.told = IF dev.pr_is_set /\ ~rest.pr_is_set /\ dev.pr_type \in RegOnly
                    THEN Tell(rest, Registered(rest), "released") ELSE {}
    BY DEF scst_pr_unregister
  <2> HIDE DEF rest, u
  <2>5. rest.key[n] # 0 /\ rest.tgt_dev[n] = dev.tgt_dev[n] /\ rest.tgt_dev[n] # None
    BY <1>1, <2>2, <2>3 DEF Peer
  <2>6. dev.pr_type \in RegOnly \cup AllReg /\ rest.pr_type # dev.pr_type =>
           u.told = Tell(rest, Registered(rest), "released")
    BY <1>1, <2>2, <2>3, <2>4
  <2>7. <<dev.tgt_dev[n], "released">> \in Tell(rest, Registered(rest), "released")
    BY <2>5 DEF Tell, Registered
  <2>8. WithAptpl(rest, aptpl).key = rest.key /\ WithAptpl(rest, aptpl).pr_type = rest.pr_type
    BY <2>3, AptplFields DEF Fit
  <2>9. TellsOf(n, WithAptpl(rest, aptpl), u.told)
    BY <2>5, <2>6, <2>7, <2>8 DEF TellsOf
  <2> QED
    BY <2>1, <2>4, <2>9
<1>3. CASE ~(dev.registrant[pr.sess] # None /\ k = 0)
  <2>1. PICK d : Good(d, {}) /\ d.key[n] # 0 /\ d.pr_type = dev.pr_type
    <3>1. ASSUME NEW e \in Table, e.key[n] # 0, e.pr_type = dev.pr_type,
                 Good(WithAptpl(e, aptpl), {})
          PROVE  \E d : Good(d, {}) /\ d.key[n] # 0 /\ d.pr_type = dev.pr_type
      <4>1. /\ WithAptpl(e, aptpl).key = e.key
            /\ WithAptpl(e, aptpl).pr_type = e.pr_type
        BY AptplFields
      <4> QED
        BY <3>1, <4>1
    <3>2. CASE dev.registrant[pr.sess] # None
      <4> DEFINE c == SetKeys(dev, {dev.registrant[pr.sess]}, k)
      <4>1. Good(WithAptpl(c, aptpl), {}) /\ k \in Keys
        BY <1>3, <3>2 DEF Register, RegisterAgain
      <4>2. {dev.registrant[pr.sess]} \in SUBSET Nexus
        BY <1>1, <3>2
      <4>3. /\ c \in Table /\ c.pr_type = dev.pr_type
            /\ c.key = [m \in Nexus |-> IF m \in {dev.registrant[pr.sess]} THEN k
                                        ELSE dev.key[m]]
        BY <1>0, <4>1, <4>2, KeysFields
      <4> HIDE DEF c
      <4>4. c.key[n] # 0
        BY <1>1, <3>2, <4>3
      <4> QED
        BY <3>1, <4>1, <4>3, <4>4
    <3>3. CASE dev.registrant[pr.sess] = None /\ k = 0
      <4>1. Good(WithAptpl(dev, aptpl), {})
        BY <3>3 DEF Register
      <4> QED
        BY <1>0, <1>1, <3>1, <4>1
    <3>4. CASE dev.registrant[pr.sess] = None /\ k # 0
      <4> DEFINE A == ToAdd(dev, spec, all_tg_pt)
                 C == ToChange(dev, spec, all_tg_pt, k)
      <4>1. A \in SUBSET Nexus /\ C \in SUBSET Nexus /\ k \in Keys /\ 0 \notin Keys
        BY Zenon, <1>0, <3>4, RegisterSets, ConstFacts
      <4>2. PICK f \in Links(dev, A) :
              Good(WithAptpl(SetKeys(scst_pr_add_registrant(dev, A, k, f), C, k), aptpl), {})
        BY <3>4 DEF Register, RegisterNew
      <4>3. f \in [A -> Sess \cup {None}]
        BY DEF Links
      <4> HIDE DEF A, C
      <4> DEFINE a == scst_pr_add_registrant(dev, A, k, f)
                 c == SetKeys(a, C, k)
      <4>4. /\ a \in Table
            /\ a.key = [m \in Nexus |-> IF m \in A THEN k ELSE dev.key[m]]
            /\ a.tgt_dev = [m \in Nexus |-> IF m \in A THEN f[m] ELSE dev.tgt_dev[m]]
            /\ a.registrant = [s \in Sess |->
                   IF \E m \in A : f[m] = s THEN NexusOf[s] ELSE dev.registrant[s]]
            /\ a.pr_is_set = dev.pr_is_set /\ a.pr_type = dev.pr_type
            /\ a.pr_holder = dev.pr_holder
            /\ a.pr_aptpl = dev.pr_aptpl
        BY <1>0, <4>1, <4>3, AddFields
      <4> HIDE DEF a
      <4>5. /\ c \in Table /\ c.pr_type = dev.pr_type
            /\ c.key = [m \in Nexus |-> IF m \in C THEN k ELSE a.key[m]]
        BY <4>1, <4>4, KeysFields
      <4> HIDE DEF c
      <4>6. c.key[n] # 0
        BY <1>1, <4>1, <4>4, <4>5
      <4> QED
        BY <3>1, <4>2, <4>5, <4>6 DEF a, c
    <3> QED
      BY <3>2, <3>3, <3>4
  <2> QED
    BY <2>1 DEF TellsOf
<1> QED
  BY <1>2, <1>3

(* REGISTER AND MOVE removes at most the sender, who holds nothing then.   *)
LEMMA MoveTells ==
    ASSUME PInv, NEW m \in Nexus, NEW k \in Keys, NEW unreg \in BOOLEAN,
           NEW aptpl \in BOOLEAN, RegisterAndMove(m, k, unreg, aptpl),
           NEW n \in Nexus, Peer(n)
    PROVE  \E d, told : Good(d, told) /\ TellsOf(n, d, told)
<1> DEFINE A == {m} \ Registered(dev)
<1>0. pr.pc = "checked" /\ Fit(dev) /\ dev \in Table /\ reg # None
  BY DEF RegisterAndMove, Locked, PInv, Fit
<1>1. n # Me /\ dev.key[n] # 0 /\ reg = Me /\ Me \in Nexus /\ 0 \notin Keys /\ m # Me
  BY <1>0, NotPeer, Sender, ConstFacts DEF reg, RegisterAndMove
<1>2. dev.pr_type \in Types \ AllReg
  <2>1. dev.pr_is_set /\ dev.pr_type \notin AllReg
    BY DEF RegisterAndMove, scst_pr_is_holder
  <2> QED
    BY <1>0, <2>1 DEF Fit, Held, Table
<1>3. PICK f \in Links(dev, A) :
        LET added == SetKeys(scst_pr_add_registrant(dev, A, k, f), {m}, k)
            moved == scst_pr_set_holder(added, m, dev.pr_type)
            d == IF unreg THEN scst_pr_remove_registrant(moved, {reg}) ELSE moved
        IN NotBeingSetUp(A) /\ Good(WithAptpl(d, aptpl), {})
  BY DEF RegisterAndMove
<1> DEFINE a == scst_pr_add_registrant(dev, A, k, f)
           c == SetKeys(a, {m}, k)
           h == scst_pr_set_holder(c, m, dev.pr_type)
           d == IF unreg THEN scst_pr_remove_registrant(h, {reg}) ELSE h
<1>4. Good(WithAptpl(d, aptpl), {})
  BY <1>3
<1>5. A \in SUBSET Nexus /\ \A x \in A : dev.key[x] = 0
  BY DEF Registered
<1>6. Fit(a) /\ a.key[n] # 0 /\ a.pr_type = dev.pr_type /\ a.key[m] # 0
  <2>1. m \in A \/ dev.key[m] # 0
    BY DEF Registered
  <2> HIDE DEF A
  <2>2. /\ Fit(a) /\ a.pr_type = dev.pr_type
        /\ a.key = [x \in Nexus |-> IF x \in A THEN k ELSE dev.key[x]]
    BY <1>0, <1>3, <1>5, AddFit
  <2> HIDE DEF a
  <2> QED
    BY <1>1, <2>1, <2>2
<1> HIDE DEF A, a
<1>7. Fit(c) /\ c.key[n] # 0 /\ c.key[m] # 0
  BY <1>6, KeysFit
<1> HIDE DEF c
<1>8. Fit(h) /\ h.key = c.key /\ h.pr_type = dev.pr_type /\ h.pr_holder = m
  <2>1. Fit(h)
    BY <1>2, <1>7, SetHolderFit
  <2>2. c \in Table
    BY <1>7 DEF Fit
  <2>3. /\ h.key = c.key /\ h.pr_type = dev.pr_type
        /\ h.pr_holder = IF dev.pr_type \in AllReg THEN c.pr_holder ELSE m
    BY <2>2 DEF scst_pr_set_holder, Table, h
  <2> QED
    BY <1>2, <2>1, <2>3
<1> HIDE DEF h
<1>9. Fit(d) /\ d.key[n] # 0 /\ d.pr_type = dev.pr_type
  <2>1. CASE ~unreg
    BY <1>7, <1>8, <2>1
  <2>2. CASE unreg
    <3>1. d = scst_pr_remove_registrant(h, {reg}) /\ {reg} \in SUBSET Nexus
      BY <1>1, <2>2
    <3>2. ~\E x \in {reg} : scst_pr_is_holder(h, x)
      BY <1>1, <1>2, <1>8 DEF scst_pr_is_holder
    <3>3. d.pr_type = h.pr_type
      BY Zenon, <1>8, <3>1, <3>2, RemoveType
    <3>4. Fit(d) /\ d.key = [x \in Nexus |-> IF x \in {reg} THEN 0 ELSE h.key[x]]
      BY <1>8, <3>1, RemoveFit
    <3> QED
      BY <1>1, <1>7, <1>8, <3>3, <3>4
  <2> QED
    BY <2>1, <2>2
<1> HIDE DEF d
<1>10. TellsOf(n, WithAptpl(d, aptpl), {})
  BY <1>9, AptplFields DEF Fit, TellsOf
<1> QED
  BY <1>4, <1>10

(* RESERVE and RELEASE.                                                    *)
LEMMA ReserveTells ==
    ASSUME PInv, NEW type \in Types, Reserve(type) \/ Release(type),
           NEW n \in Nexus, Peer(n)
    PROVE  \E d, told : Good(d, told) /\ TellsOf(n, d, told)
<1>0. pr.pc = "checked" /\ Fit(dev) /\ dev \in Table /\ Held(dev) /\ reg # None
  BY DEF Reserve, Release, Locked, PInv, Fit
<1>1. n # Me /\ dev.key[n] # 0 /\ reg = Me /\ Me \in Nexus
  BY <1>0, NotPeer, Sender DEF reg
<1>2. n \in Others /\ dev.tgt_dev[n] # None
  BY <1>1 DEF Others, Peer
<1>3. \A what : <<dev.tgt_dev[n], what>> \in Tell(dev, Others, what)
  BY <1>2 DEF Tell
<1>4. CASE Reserve(type)
  <2>1. CASE ~dev.pr_is_set /\ Good(scst_pr_set_holder(dev, reg, type), {})
    <3>1. scst_pr_set_holder(dev, reg, type).key = dev.key
      BY <1>0 DEF scst_pr_set_holder, Table
    <3>2. dev.pr_type = None
      BY <1>0, <2>1 DEF Held
    <3>3. TellsOf(n, scst_pr_set_holder(dev, reg, type), {})
      BY <1>1, <3>1, <3>2, ConstFacts DEF TellsOf
    <3> QED
      BY <2>1, <3>3
  <2>2. CASE Good(dev, {})
    BY <1>1, <2>2 DEF TellsOf
  <2> QED
    BY <1>4, <2>1, <2>2 DEF Reserve
<1>5. CASE Release(type)
  <2> DEFINE told == IF type \in RegOnly \cup AllReg THEN Tell(dev, Others, "released") ELSE {}
  <2>1. CASE Good(dev, {})
    BY <1>1, <2>1 DEF TellsOf
  <2>2. CASE dev.pr_type = type /\ Good(scst_pr_clear_reservation(dev), told)
    <3>1. scst_pr_clear_reservation(dev).key = dev.key
      BY Zenon, <1>0, ClearFields
    <3>2. TellsOf(n, scst_pr_clear_reservation(dev), told)
      BY <1>1, <1>3, <2>2, <3>1 DEF TellsOf
    <3> QED
      BY <2>2, <3>2
  <2> QED
    BY <1>5, <2>1, <2>2 DEF Release
<1> QED
  BY <1>4, <1>5

(* CLEAR.                                                                  *)
LEMMA ClearTells ==
    ASSUME PInv, Clear, NEW n \in Nexus, Peer(n)
    PROVE  \E d, told : Good(d, told) /\ TellsOf(n, d, told)
<1> DEFINE told == Tell(dev, Others, "preempted")
           d == scst_pr_remove_registrant(dev, Registered(dev))
<1>1. Good(d, told) /\ pr.pc = "checked" /\ reg # None
  BY DEF Clear, Locked
<1>2. n # Me /\ reg = Me
  BY <1>1, NotPeer DEF reg
<1>3. <<dev.tgt_dev[n], "preempted">> \in told
  BY <1>2 DEF Tell, Others, Peer
<1>4. TellsOf(n, d, told)
  BY <1>3 DEF TellsOf
<1> QED
  BY <1>1, <1>4

(* PREEMPT and PREEMPT AND ABORT.                                          *)
LEMMA PreemptTells ==
    ASSUME PInv, NEW k \in Keys \cup {0}, NEW type \in Types,
           Preempt(k, type) \/ PreemptAndAbort(k, type), NEW n \in Nexus, Peer(n)
    PROVE  \E d, told : Good(d, told) /\ TellsOf(n, d, told)
<1>0. pr.pc = "checked" /\ Fit(dev) /\ dev \in Table /\ Held(dev) /\ reg # None
  BY Zenon DEF Preempt, PreemptAndAbort, Locked, PInv, Fit
<1>1. n # reg /\ dev.key[n] # 0 /\ reg \in Nexus /\ dev.key[reg] # 0 /\ dev.tgt_dev[n] # None
  BY <1>0, NotPeer, Sender DEF reg, Peer
<1>2. PICK cleared \in BOOLEAN : scst_pr_do_preempt(k, type, cleared)
  BY Zenon DEF Preempt, PreemptAndAbort
<1> DEFINE found == IF dev.pr_type \in AllReg /\ k = 0 THEN Others ELSE WithKey(dev, k)
           others == found \ {reg}
           rest == scst_pr_remove_registrant(dev, others)
           told == Preempted(found, others, cleared)
<1>3. others \in SUBSET Nexus /\ found \in SUBSET Nexus
  BY DEF Others, WithKey, Registered
<1>4. n \in others => <<dev.tgt_dev[n], "preempted">> \in told
  BY <1>1 DEF Preempted, Tell
<1>5. \/ ~dev.pr_is_set /\ Good(rest, told)
      \/ dev.pr_type \in AllReg /\ k = 0 /\ Good(scst_pr_set_holder(rest, reg, type), told)
      \/ dev.pr_type \in AllReg /\ k # 0 /\ Good(rest, told)
      \/ /\ dev.pr_is_set /\ dev.pr_type \notin AllReg /\ dev.key[dev.pr_holder] # k
         /\ Good(scst_pr_remove_registrant(dev, found), told)
      \/ Good(scst_pr_set_holder(rest, reg, type),
              told \cup (IF dev.pr_type # type
                         THEN Tell(rest, Registered(rest) \ {reg}, "released") ELSE {}))
  BY <1>2 DEF scst_pr_do_preempt
<1>6. dev.pr_type \in AllReg /\ k = 0 => n \in others
  BY <1>1 DEF Others, Registered
<1>7. dev.pr_type \notin AllReg /\ dev.key[dev.pr_holder] # k => dev.pr_holder \notin found
  BY DEF WithKey
<1> HIDE DEF told
<1>8. /\ Fit(rest) /\ rest.key = [m \in Nexus |-> IF m \in others THEN 0 ELSE dev.key[m]]
      /\ rest.tgt_dev = [m \in Nexus |-> IF m \in others THEN None ELSE dev.tgt_dev[m]]
      /\ rest.pr_type # dev.pr_type =>
            dev.pr_is_set /\ (dev.pr_type \in AllReg => \A m \in Nexus \ others : dev.key[m] = 0)
  <2> HIDE DEF others
  <2> QED
    BY <1>0, <1>3, RemoveFit, RemoveType
<1>9. rest.key[reg] # 0 /\ reg \notin others
  BY <1>1, <1>8
<1> HIDE DEF rest, others
<1>10. (rest.key[n] = 0 => n \in others) /\ (rest.key[n] # 0 => n \notin others)
  BY <1>1, <1>8
<1>11. /\ scst_pr_set_holder(rest, reg, type).key = rest.key
       /\ scst_pr_set_holder(rest, reg, type).pr_type = type
  <2>1. rest \in Table
    BY <1>8 DEF Fit
  <2> QED
    BY <2>1 DEF scst_pr_set_holder, Table
<1>12. CASE ~dev.pr_is_set /\ Good(rest, told)
  <2>1. TellsOf(n, rest, told)
    BY <1>4, <1>8, <1>10, <1>12 DEF TellsOf
  <2> QED
    BY <1>12, <2>1
<1>13. CASE /\ dev.pr_type \in AllReg /\ k = 0
            /\ Good(scst_pr_set_holder(rest, reg, type), told)
  <2>1. TellsOf(n, scst_pr_set_holder(rest, reg, type), told)
    BY <1>4, <1>6, <1>13 DEF TellsOf
  <2> QED
    BY <1>13, <2>1
<1>14. CASE dev.pr_type \in AllReg /\ k # 0 /\ Good(rest, told)
  <2>1. rest.pr_type = dev.pr_type
    BY <1>1, <1>8, <1>9, <1>14
  <2>2. TellsOf(n, rest, told)
    BY <1>4, <1>10, <2>1 DEF TellsOf
  <2> QED
    BY <1>14, <2>2
<1>15. CASE /\ dev.pr_is_set /\ dev.pr_type \notin AllReg /\ dev.key[dev.pr_holder] # k
            /\ Good(scst_pr_remove_registrant(dev, found), told)
  <2> DEFINE e == scst_pr_remove_registrant(dev, found)
  <2>1. ~\E m \in found : scst_pr_is_holder(dev, m)
    BY <1>7, <1>15 DEF scst_pr_is_holder
  <2>2. n \in found => n \in others
    BY <1>1 DEF others
  <2> HIDE DEF found
  <2>3. e.pr_type = dev.pr_type
    BY Zenon, <1>0, <1>3, <2>1, RemoveType
  <2>4. e.key = [m \in Nexus |-> IF m \in found THEN 0 ELSE dev.key[m]]
    BY <1>0, <1>3, RemoveFit
  <2> HIDE DEF e
  <2>5. TellsOf(n, e, told)
    BY <1>1, <1>4, <2>2, <2>3, <2>4 DEF TellsOf
  <2> QED
    BY <1>15, <2>5 DEF e
<1>16. ASSUME NEW more, Good(scst_pr_set_holder(rest, reg, type), told \cup more),
              more = IF dev.pr_type # type
                     THEN Tell(rest, Registered(rest) \ {reg}, "released") ELSE {}
       PROVE  \E d, t : Good(d, t) /\ TellsOf(n, d, t)
  <2>1. rest.key[n] # 0 /\ dev.pr_type # type => <<dev.tgt_dev[n], "released">> \in more
    <3> SUFFICES ASSUME rest.key[n] # 0, dev.pr_type # type
                 PROVE  <<dev.tgt_dev[n], "released">> \in more
      OBVIOUS
    <3>1. n \in Registered(rest) \ {reg} /\ rest.tgt_dev[n] = dev.tgt_dev[n]
      BY <1>1, <1>8, <1>10 DEF Registered
    <3> QED
      BY <1>1, <1>16, <3>1 DEF Tell
  <2>2. TellsOf(n, scst_pr_set_holder(rest, reg, type), told \cup more)
    BY <1>4, <1>10, <1>11, <2>1 DEF TellsOf
  <2> QED
    BY <1>16, <2>2
<1> QED
  BY Zenon, <1>5, <1>12, <1>13, <1>14, <1>15, <1>16

-----------------------------------------------------------------------------
(* The files.                                                              *)

(* What a reload would give is a table that it may give.                   *)
Reloads == \E x \in scst_pr_load_device_file : Image(x) \in durable

(* How far the save in progress is, and which of the two files is good     *)
(* meanwhile: until the copy is made whichever the reload takes, while the *)
(* file is being written the backup.                                       *)
SaveInv ==
    /\ pr.pc \in {"copy", "data", "sign"} => MustSave(dev)
    /\ pr.pc \in {"rm_main", "rm_bak"} => ~MustSave(dev)
    /\ (pr.pc = "rm_bak" => main = NoFile) /\ (pr.pc = "sign" => main = Torn)
    /\ durable # {} =>
        /\ pr.pc \notin {"rm_bak", "data", "sign"} => Reloads
        /\ pr.pc \in {"data", "sign"} /\ Valid(bak) => Image(bak) \in durable
        /\ pr.pc = "data" => main \in {NoFile, bak}

(* What is saved is read back as it was saved.                             *)
LEMMA SavedImage ==
    ASSUME NEW d \in Table, MustSave(d)
    PROVE  Saved(d) \in Table /\ Image(Saved(d)) = Saved(d) /\ Image(d) = Saved(d)
<1> DEFINE e == Saved(d)
<1>1. Empty.tgt_dev \in [Nexus -> Sess \cup {None}]
      /\ Empty.registrant \in [Sess -> Nexus \cup {None}]
  BY DEF Empty
<1>2. /\ e \in Table /\ e.key = d.key /\ e.pr_aptpl = d.pr_aptpl
      /\ e.tgt_dev = Empty.tgt_dev /\ e.registrant = Empty.registrant
  BY Zenon, <1>1 DEF Saved, Table
<1> HIDE DEF e
<1>3. MustSave(e)
  BY <1>2 DEF MustSave, Registered
<1>4. Saved(e) = e
  BY Zenon, <1>2 DEF Saved, Table
<1> QED
  BY <1>2, <1>3, <1>4 DEF Image, e

(* The empty table is saved as no file.                                    *)
LEMMA EmptyImage == Image(Empty) = Empty
BY DEF Image, MustSave, Empty

(* A table is not one of the files without a signature.                    *)
LEMMA FileFacts ==
    /\ NoFile # Torn /\ ~Valid(NoFile) /\ ~Valid(Torn)
    /\ \A x \in Table : Valid(x)
BY PresAssumption DEF Valid

(* Steps that touch neither file, outside a save or without progress of    *)
(* it.                                                                     *)
LEMMA QuietSave ==
    ASSUME SaveInv, UNCHANGED <<main, bak, durable>>,
           \/ ~Saving /\ ~Saving'
           \/ dev' = dev /\ pr' = pr
    PROVE  SaveInv'
<1>1. Reloads' = Reloads
  BY DEF Reloads, scst_pr_load_device_file, Valid
<1> QED
  BY <1>1 DEF SaveInv, Saving, Valid

(* A service action has succeeded: its save begins.                        *)
LEMMA BeginSave ==
    ASSUME SaveInv, PInv, pr.pc = "checked", NEW d, NEW told, Good(d, told)
    PROVE  SaveInv'
<1>1. /\ UNCHANGED <<main, bak, durable>> /\ dev' = d
      /\ pr'.pc = IF MustSave(d) THEN "copy" ELSE "rm_main"
  BY DEF Good, PInv, PrInv
<1>2. Reloads' = Reloads
  BY <1>1 DEF Reloads, scst_pr_load_device_file, Valid
<1> QED
  BY <1>1, <1>2 DEF SaveInv

(* Service actions touch neither file.                                     *)
LEMMA PrOutSave ==
    ASSUME SaveInv, PInv, PrOut
    PROVE  SaveInv'
<1>1. pr.pc = "checked"
  BY Zenon DEF PrOut, RefusePrOut, Register, RegisterAndIgnore, RegisterFails, RegisterAndMove,
         Reserve, Release, Clear, Preempt, PreemptAndAbort, Locked
<1>2. \/ \E d, told : Good(d, told)
      \/ pr'.pc = "idle" /\ UNCHANGED <<main, bak, durable>>
  BY PrOutEnds DEF RefusePrOut, RegisterFails
<1> QED
  BY <1>1, <1>2, BeginSave, QuietSave DEF Saving

(* The steps of a save.                                                    *)
LEMMA SyncSave ==
    ASSUME SaveInv, PInv, ~SaveGaps, Sync
    PROVE  SaveInv'
<1>0. dev \in Table /\ pr \in [sess : Sess \cup {None},
         pc : {"idle", "checked", "reserve", "rm_main", "rm_bak", "copy", "data", "sign"}]
  BY DEF PInv, Fit, PrInv
<1>1. CASE RemoveMain
  BY <1>0, <1>1 DEF RemoveMain, To, SaveInv
<1>2. CASE RemoveBackup
  <2>1. main' = NoFile /\ bak' = NoFile /\ durable' = {Empty} /\ pr'.pc = "idle"
    BY <1>2 DEF RemoveBackup, Finish, SaveInv
  <2>2. scst_pr_load_device_file' = {Empty}
    BY <2>1 DEF scst_pr_load_device_file, Valid
  <2>3. Reloads'
    BY <2>1, <2>2, EmptyImage DEF Reloads
  <2> QED
    BY <2>1, <2>3 DEF SaveInv
<1>3. CASE CopyBackup
  <2>1. /\ pr.pc = "copy" /\ pr'.pc = "data" /\ UNCHANGED <<dev, main, durable>>
        /\ bak' = IF main = NoFile THEN bak ELSE main
    BY <1>0, <1>3 DEF CopyBackup, To
  <2>2. ASSUME durable # {}, Valid(bak')
        PROVE  Image(bak') \in durable
    <3>1. PICK x \in scst_pr_load_device_file : Image(x) \in durable
      BY <2>1, <2>2 DEF SaveInv, Reloads
    <3>2. scst_pr_load_device_file = {bak'}
      BY <2>1, <2>2, FileFacts DEF scst_pr_load_device_file
    <3> QED
      BY <3>1, <3>2
  <2>3. (Valid(bak) => Image(bak) \in durable)' \/ durable = {}
    BY <2>1, <2>2 DEF Valid
  <2> QED
    BY <2>1, <2>3 DEF SaveInv
<1>4. CASE WriteData
  BY <1>0, <1>4 DEF WriteData, To, SaveInv
<1>5. CASE WriteSignature
  <2>1. /\ main' = Saved(dev) /\ durable' = {Saved(dev)} /\ pr'.pc = "idle"
        /\ MustSave(dev)
    BY <1>5 DEF WriteSignature, Finish, SaveInv
  <2>2. Saved(dev) \in Table /\ Image(Saved(dev)) = Saved(dev)
    BY <1>0, <2>1, SavedImage
  <2>3. scst_pr_load_device_file' = {Saved(dev)}
    BY <2>1, <2>2, FileFacts DEF scst_pr_load_device_file, Valid
  <2>4. Reloads'
    BY <2>1, <2>2, <2>3 DEF Reloads
  <2> QED
    BY <2>1, <2>4 DEF SaveInv
<1>6. CASE SaveFails
  BY <1>6 DEF SaveFails, Finish, SaveInv
<1> QED
  BY <1>1, <1>2, <1>3, <1>4, <1>5, <1>6 DEF Sync

(* A power failure leaves a file that can be reloaded, or had nothing to   *)
(* lose.                                                                   *)
LEMMA PowerSave ==
    ASSUME SaveInv, PInv, ~SaveGaps, PowerLoss
    PROVE  SaveInv'
<1>1. /\ ~Unrecoverable /\ pr'.pc = "idle"
      /\ main' \in CASE pr.pc = "data" -> {main, Torn}
                     [] pr.pc = "sign" -> {main, Saved(dev)}
                     [] OTHER -> {main}
      /\ bak' \in IF pr.pc = "copy" /\ main # NoFile THEN {bak, Torn, main} ELSE {bak}
      /\ durable' = IF Saving /\ durable # {} THEN durable \cup {Image(dev)} ELSE durable
  BY DEF PowerLoss
<1>2. durable \subseteq durable' /\ (durable' # {} => durable # {})
      /\ (Saving /\ durable # {} => Image(dev) \in durable')
  BY <1>1
<1>3. dev \in Table
  BY DEF PInv, Fit
<1> SUFFICES ASSUME durable # {}
             PROVE  Reloads'
  BY <1>1, <1>2 DEF SaveInv
<1>4. ASSUME NEW x, x \in scst_pr_load_device_file', Image(x) \in durable'
      PROVE  Reloads'
  BY <1>4 DEF Reloads
<1>5. CASE pr.pc \notin {"rm_bak", "copy", "data", "sign"}
  <2>1. main' = main /\ bak' = bak
    BY <1>1, <1>5
  <2>2. scst_pr_load_device_file' = scst_pr_load_device_file
    BY <2>1 DEF scst_pr_load_device_file, Valid
  <2>3. PICK x \in scst_pr_load_device_file : Image(x) \in durable
    BY <1>5 DEF SaveInv, Reloads
  <2> QED
    BY <1>2, <1>4, <2>2, <2>3
<1>6. CASE pr.pc = "rm_bak"
  <2>1. main' = NoFile /\ bak' = NoFile /\ ~MustSave(dev)
    BY <1>1, <1>6 DEF SaveInv, Unrecoverable
  <2>2. scst_pr_load_device_file' = {Empty} /\ Image(dev) = Empty
    BY <2>1 DEF scst_pr_load_device_file, Valid, Image
  <2> QED
    BY <1>2, <1>4, <1>6, <2>2, EmptyImage DEF Saving
<1>7. CASE pr.pc = "copy"
  <2>1. main' = main /\ main # Torn
    BY <1>1, <1>7 DEF Unrecoverable
  <2>2. PICK x \in scst_pr_load_device_file : Image(x) \in durable
    BY <1>7 DEF SaveInv, Reloads
  <2>3. CASE main = NoFile
    <3>1. bak' = bak
      BY <1>1, <2>3
    <3>2. scst_pr_load_device_file' = scst_pr_load_device_file
      BY <2>1, <3>1 DEF scst_pr_load_device_file, Valid
    <3> QED
      BY <1>2, <1>4, <2>2, <3>2
  <2>4. CASE main # NoFile
    <3>1. scst_pr_load_device_file' = {main} /\ scst_pr_load_device_file = {main}
      BY <2>1, <2>4 DEF scst_pr_load_device_file, Valid
    <3> QED
      BY <1>2, <1>4, <2>2, <3>1
  <2> QED
    BY <2>3, <2>4
<1>8. CASE pr.pc \in {"data", "sign"}
  <2>1. bak' = bak /\ Valid(bak) /\ Image(bak) \in durable
    BY <1>1, <1>8 DEF SaveInv, Unrecoverable, Valid
  <2>2. CASE main' = Saved(dev) /\ pr.pc = "sign"
    <3>1. Saved(dev) \in Table /\ Image(Saved(dev)) = Image(dev)
      BY <1>3, <2>2, SavedImage DEF SaveInv
    <3>2. scst_pr_load_device_file' = {Saved(dev)}
      BY <2>2, <3>1, FileFacts DEF scst_pr_load_device_file, Valid
    <3> QED
      BY <1>2, <1>4, <2>2, <3>1, <3>2 DEF Saving
  <2>3. CASE main' \in {NoFile, Torn, bak}
    <3>1. scst_pr_load_device_file' = {bak}
      BY <2>1, <2>3 DEF scst_pr_load_device_file, Valid
    <3> QED
      BY <1>2, <1>4, <2>1, <3>1
  <2> QED
    BY <1>1, <1>8, <2>2, <2>3 DEF SaveInv
<1> QED
  BY <1>5, <1>6, <1>7, <1>8

(* The registration of the device.                                         *)
LEMMA LoadSave ==
    ASSUME SaveInv, PInv, RegisterDevice
    PROVE  SaveInv' /\ (durable # {} => up' = "up" /\ Image(dev') \in durable)
<1>1. /\ UNCHANGED <<pr, main, bak>> /\ pr.pc = "idle"
  BY DEF RegisterDevice, PInv, SessInv
<1>2. scst_pr_load_device_file' = scst_pr_load_device_file
  BY <1>1 DEF scst_pr_load_device_file, Valid
<1>3. CASE scst_pr_load_device_file = {}
  <2>1. durable' = durable
    BY <1>3 DEF RegisterDevice
  <2>2. durable = {}
    BY <1>1, <1>3 DEF SaveInv, Reloads
  <2> QED
    BY <1>1, <2>1, <2>2 DEF SaveInv
<1>4. CASE scst_pr_load_device_file # {}
  <2>1. up' = "up" /\ dev' \in scst_pr_load_device_file /\ durable' = {Image(dev')}
    BY <1>4 DEF RegisterDevice
  <2>2. PICK x : scst_pr_load_device_file = {x}
    BY <1>4 DEF scst_pr_load_device_file
  <2>3. dev' = x
    BY <2>1, <2>2
  <2>4. Reloads'
    BY <1>2, <2>1, <2>2, <2>3 DEF Reloads
  <2>5. SaveInv'
    BY <1>1, <2>4 DEF SaveInv
  <2>6. durable # {} => Image(dev') \in durable
    BY <1>1, <2>2, <2>3 DEF SaveInv, Reloads
  <2> QED
    BY <2>1, <2>5, <2>6
<1> QED
  BY <1>3, <1>4

(* Sessions and SPC-2 reservations: while a save is in progress they leave *)
(* the table alone.                                                        *)
LEMMA OtherSave ==
    ASSUME SaveInv, PInv,
           \/ \E s \in Sess : \/ StartPrOut(s) \/ StartReserve6(s) \/ Release6(s)
                              \/ InitTgtDev(s) \/ ListTgtDev(s) \/ UnlistTgtDev(s)
                              \/ ClearTgtDev(s)
           \/ \E new, old \in Sess : Reassign(new, old)
           \/ Reserve6 \/ Reset6 \/ UNCHANGED vars
    PROVE  SaveInv'
<1>1. UNCHANGED <<main, bak, durable>>
  BY Zenon DEF StartPrOut, StartPrOutReserved, StartReserve6, Release6, InitTgtDev, ListTgtDev,
         UnlistTgtDev, ClearTgtDev, Reassign, Reserve6, Reset6, vars
<1>2. (~Saving /\ ~Saving') \/ (dev' = dev /\ pr' = pr)
  <2>1. ASSUME NEW s \in Sess, InitTgtDev(s)
        PROVE  pr' = pr /\ (~Saving \/ dev' = dev)
    BY Zenon, <2>1, ConstFacts DEF InitTgtDev, Registered
  <2>2. ASSUME NEW s \in Sess, ClearTgtDev(s)
        PROVE  pr' = pr /\ ~Saving
    BY Zenon, <2>2 DEF ClearTgtDev
  <2>3. ASSUME NEW new \in Sess, NEW old \in Sess, Reassign(new, old)
        PROVE  pr' = pr /\ ~Saving
    BY Zenon, <2>3 DEF Reassign
  <2>4. ASSUME NEW s \in Sess, StartPrOut(s) \/ StartReserve6(s)
        PROVE  ~Saving /\ ~Saving'
    BY <2>4 DEF StartPrOut, StartPrOutReserved, StartReserve6, Saving
  <2>5. CASE Reserve6
    BY <2>5 DEF Reserve6, Saving
  <2>6. ASSUME NEW s \in Sess, Release6(s) \/ ListTgtDev(s) \/ UnlistTgtDev(s)
        PROVE  dev' = dev /\ pr' = pr
    BY <2>6 DEF Release6, ListTgtDev, UnlistTgtDev
  <2>7. CASE Reset6 \/ UNCHANGED vars
    BY <2>7 DEF Reset6, vars
  <2>8. pr' = pr => Saving' = Saving
    BY DEF Saving
  <2> QED
    BY <2>1, <2>2, <2>3, <2>4, <2>5, <2>6, <2>7, <2>8
<1> QED
  BY <1>1, <1>2, QuietSave

(* SaveInv is kept by every step, in the states of PInv.                   *)
LEMMA SaveInvStep ==
    ASSUME ~SaveGaps, SaveInv, PInv, [Next]_vars
    PROVE  SaveInv'
BY PrOutSave, SyncSave, PowerSave, LoadSave, OtherSave DEF Next

(* While the device is down only its registration can happen.              *)
LEMMA DownStep ==
    ASSUME SaveInv, PInv, Next, up = "down", durable # {}
    PROVE  up' = "up" /\ Image(dev') \in durable
<1>1. pr.pc = "idle" /\ \A s \in Sess : st[s] = "none"
  BY DEF PInv, SessInv
<1>2. ~\E s \in Sess : StartPrOut(s) \/ StartReserve6(s) \/ Release6(s)
  BY DEF StartPrOut, StartPrOutReserved, StartReserve6, Release6
<1>3. ~PrOut
  BY <1>1 DEF PrOut, RefusePrOut, Register, RegisterAndIgnore, RegisterFails, RegisterAndMove,
              Reserve, Release, Clear, Preempt, PreemptAndAbort, Locked
<1>4. ~Sync /\ ~PowerLoss
  BY <1>1 DEF Sync, RemoveMain, RemoveBackup, CopyBackup, WriteData, WriteSignature,
              SaveFails, PowerLoss
<1>5. ~\E s \in Sess : InitTgtDev(s) \/ ListTgtDev(s) \/ UnlistTgtDev(s) \/ ClearTgtDev(s)
  BY Zenon, <1>1 DEF InitTgtDev, ListTgtDev, UnlistTgtDev, ClearTgtDev, MutexFree
<1>6. ~Reserve6 /\ ~Reset6 /\ ~\E new, old \in Sess : Reassign(new, old)
  BY <1>1 DEF Reserve6, Reset6, Reassign, MutexFree
<1>7. RegisterDevice
  BY <1>2, <1>3, <1>4, <1>5, <1>6 DEF Next
<1> QED
  BY <1>7, LoadSave

(* However often and at whatever step of scst_pr_sync_device_file() the    *)
(* power fails, outside the windows of Unrecoverable, the device comes up  *)
(* with the table of the last command that had ended or of the one whose   *)
(* file was being saved.                                                   *)
THEOREM RecoveredCorrect ==
    ASSUME ~SaveGaps
    PROVE  Spec => Recovered
<1>1. Init => SaveInv
  <2> SUFFICES ASSUME Init PROVE SaveInv
    OBVIOUS
  <2>1. scst_pr_load_device_file = {Empty}
    BY DEF Init, scst_pr_load_device_file, Valid
  <2>2. Reloads
    BY <2>1, EmptyImage DEF Init, Reloads
  <2> QED
    BY <2>2 DEF Init, SaveInv
<1>2. SaveInv /\ PInv /\ [Next]_vars => SaveInv'
  BY SaveInvStep
<1>3. SaveInv /\ PInv /\ [Next]_vars =>
        [up = "down" /\ durable # {} => up' = "up" /\ Image(dev') \in durable]_vars
  BY DownStep
<1> QED
  BY <1>1, <1>2, <1>3, PInvInit, PInvStep, PTL DEF Spec, Recovered

(* A REGISTER that fails for lack of memory after any number of            *)
(* registrants and keys leaves the table, the links and the reservation as *)
(* they were.                                                              *)
THEOREM FailureUndoneCorrect == Spec => FailureUndone
<1>1. ASSUME PInv, [Next]_vars, pr.pc = "checked", pr'.pc = "idle", up' = "up"
      PROVE  Meaning(dev') = Meaning(dev)
  <2>1. PrOut
    BY <1>1, CheckedStep
  <2>2. ASSUME NEW d, NEW told, Good(d, told)
        PROVE  FALSE
    BY <1>1, <2>2 DEF Good, PInv, PrInv
  <2>3. RefusePrOut \/ \E k \in Keys, all_tg_pt \in BOOLEAN, spec \in SUBSET Tid :
                          RegisterFails(k, spec, all_tg_pt)
    BY <2>1, <2>2, PrOutEnds
  <2> QED
    BY <1>1, <2>3, FailsUndone DEF RefusePrOut
<1>2. PInv /\ [Next]_vars =>
        [pr.pc = "checked" /\ pr'.pc = "idle" /\ up' = "up" => Meaning(dev') = Meaning(dev)]_vars
  BY <1>1
<1> QED
  BY <1>2, PInvInit, PInvStep, PTL DEF Spec, FailureUndone

(* Whatever service actions other initiator ports send: who loses a        *)
(* registration, or a reservation for registrants, and has a session is    *)
(* sent a unit attention.                                                  *)
THEOREM PeersToldCorrect == Spec => PeersTold
<1>1. ASSUME PInv, [Next]_vars, pr.pc = "checked", up' = "up",
             NEW n \in Registered(dev), n[1] # Me[1], dev.tgt_dev[n] # None
      PROVE  /\ n \notin Registered(dev)' => Told(dev.tgt_dev[n])
             /\ dev.pr_type \in RegOnly \cup AllReg /\ dev'.pr_type # dev.pr_type
                   => Told(dev.tgt_dev[n])
  <2>1. n \in Nexus /\ dev.key[n] # 0 /\ Peer(n)
    BY <1>1 DEF Registered, Peer
  <2>2. CASE dev'.key = dev.key /\ dev'.pr_type = dev.pr_type
    BY <2>1, <2>2 DEF Registered
  <2>3. CASE \E d, told : Good(d, told) /\ TellsOf(n, d, told)
    BY <2>1, <2>3, GoodTells
  <2>4. CASE PrOut
    <3>1. CASE RefusePrOut
      BY <2>2, <3>1 DEF RefusePrOut
    <3>2. ASSUME NEW k \in Keys, NEW all_tg_pt \in BOOLEAN, NEW spec \in SUBSET Tid,
                 RegisterFails(k, spec, all_tg_pt)
          PROVE  dev'.key = dev.key /\ dev'.pr_type = dev.pr_type
      <4>1. Meaning(dev') = Meaning(dev)
        BY <1>1, <3>2, FailsUndone
      <4>2. dev \in Table /\ dev' \in Table
        BY <1>1, PInvStep DEF PInv, Fit
      <4>3. \A d \in Table : Meaning(d).key = d.key /\ Meaning(d).pr_type = d.pr_type
        BY DEF Meaning, Table
      <4> QED
        BY <4>1, <4>2, <4>3
    <3>3. ASSUME NEW k \in Keys \cup {0}, NEW spec \in SUBSET Tid, NEW all_tg_pt \in BOOLEAN,
                 NEW aptpl \in BOOLEAN, Register(k, spec, all_tg_pt, aptpl)
          PROVE  \E d, told : Good(d, told) /\ TellsOf(n, d, told)
      BY <1>1, <2>1, <3>3, RegisterTells
    <3>4. ASSUME NEW m \in Nexus, NEW k \in Keys, NEW unreg \in BOOLEAN, NEW aptpl \in BOOLEAN,
                 RegisterAndMove(m, k, unreg, aptpl)
          PROVE  \E d, told : Good(d, told) /\ TellsOf(n, d, told)
      BY <1>1, <2>1, <3>4, MoveTells
    <3>5. ASSUME NEW type \in Types, Reserve(type) \/ Release(type)
          PROVE  \E d, told : Good(d, told) /\ TellsOf(n, d, told)
      BY <1>1, <2>1, <3>5, ReserveTells
    <3>6. ASSUME Clear
          PROVE  \E d, told : Good(d, told) /\ TellsOf(n, d, told)
      BY <1>1, <2>1, <3>6, ClearTells
    <3>7. ASSUME NEW k \in Keys \cup {0}, NEW type \in Types,
                 Preempt(k, type) \/ PreemptAndAbort(k, type)
          PROVE  \E d, told : Good(d, told) /\ TellsOf(n, d, told)
      BY <1>1, <2>1, <3>7, PreemptTells
    <3>8. {} \in SUBSET Tid
      OBVIOUS
    <3> QED
      BY <2>2, <2>3, <2>4, <3>1, <3>2, <3>3, <3>4, <3>5, <3>6, <3>7, <3>8
         DEF PrOut, RegisterAndIgnore
  <2> QED
    BY <1>1, <2>2, <2>4, CheckedStep
<1>2. PInv /\ [Next]_vars =>
        [pr.pc = "checked" /\ up' = "up" =>
           \A n \in Registered(dev) : (n[1] # Me[1] /\ dev.tgt_dev[n] # None) =>
              /\ n \notin Registered(dev)' => Told(dev.tgt_dev[n])
              /\ dev.pr_type \in RegOnly \cup AllReg /\ dev'.pr_type # dev.pr_type
                    => Told(dev.tgt_dev[n])]_vars
  BY <1>1
<1> QED
  BY <1>2, PInvInit, PInvStep, PTL DEF Spec, PeersTold
=============================================================================
