--------------------------- MODULE ScstPresTable ---------------------------
(***************************************************************************)
(* What the operations on the table of ScstPres keep, for any number of    *)
(* initiator ports, target ports, sessions and keys: links whose two       *)
(* pointers agree, a reservation that has a holder, and a link for every   *)
(* registrant that has a session on the device.                            *)
(***************************************************************************)
EXTENDS ScstPres, TLAPS

(* LinksSound of a table d, ...                                            *)
Linked(d) ==
    /\ \A n \in Nexus : d.tgt_dev[n] # None =>
          d.key[n] # 0 /\ d.registrant[d.tgt_dev[n]] = n
    /\ \A s \in Sess : d.registrant[s] # None =>
          /\ d.tgt_dev[d.registrant[s]] = s /\ NexusOf[s] = d.registrant[s]
          /\ st[s] # "none"

(* ... HolderSound, ...                                                    *)
Held(d) ==
    /\ d.pr_is_set <=> d.pr_type # None
    /\ d.pr_is_set => \E n \in Nexus : d.key[n] # 0
    /\ d.pr_is_set /\ d.pr_type \notin AllReg => d.pr_holder # None
    /\ d.pr_holder # None => d.pr_is_set /\ d.key[d.pr_holder] # 0

(* ... and that a registrant with a session has one of them as its         *)
(* tgt_dev, which fails if a session is set up beside a PR OUT.            *)
Served(d) ==
    ~LoginRace =>
        \A s \in Sess, n \in Nexus :
            st[s] \in {"inited", "listed"} /\ NexusOf[s] = n /\ d.key[n] # 0 =>
                d.tgt_dev[n] # None
Fit(d) == d \in Table /\ Linked(d) /\ Held(d) /\ Served(d)

(* What the proofs need of the constants.                                  *)
LEMMA ConstFacts ==
    /\ 0 \notin Keys /\ None \notin Sess /\ None \notin Nexus /\ None \notin Types
    /\ None \notin AllReg \cup RegOnly
    /\ NexusOf \in [Sess -> Nexus \cup {None}]
BY PresAssumption

(* The empty table.                                                        *)
LEMMA EmptyFit == Fit(Empty)
<1>1. Empty \in Table
  BY DEF Empty, Table
<1>2. Linked(Empty) /\ Held(Empty) /\ Served(Empty)
  BY DEF Empty, Linked, Held, Served
<1> QED
  BY <1>1, <1>2 DEF Fit

(* The registrants of R are removed, and nothing else is done.             *)
LEMMA RemoveFields ==
    ASSUME NEW d \in Table, NEW R \in SUBSET Nexus
    PROVE  LET e == RemoveKeepsHolder(d, R) IN
           /\ e \in Table
           /\ e.key = [n \in Nexus |-> IF n \in R THEN 0 ELSE d.key[n]]
           /\ e.tgt_dev = [n \in Nexus |-> IF n \in R THEN None ELSE d.tgt_dev[n]]
           /\ e.registrant = [s \in Sess |->
                  IF \E n \in R : d.tgt_dev[n] = s THEN None ELSE d.registrant[s]]
           /\ e.pr_is_set = d.pr_is_set /\ e.pr_type = d.pr_type
           /\ e.pr_holder = d.pr_holder /\ e.pr_aptpl = d.pr_aptpl
BY Zenon DEF Table, RemoveKeepsHolder

(* The operations that touch neither keys nor links.                       *)
LEMMA HolderFields ==
    ASSUME NEW d \in Table, NEW n \in Nexus, NEW type \in Types
    PROVE  LET e == scst_pr_set_holder(d, n, type) IN
           /\ e \in Table
           /\ e.key = d.key /\ e.tgt_dev = d.tgt_dev /\ e.registrant = d.registrant
           /\ e.pr_is_set = TRUE /\ e.pr_type = type
           /\ e.pr_holder = IF type \in AllReg THEN d.pr_holder ELSE n
BY Zenon DEF Table, scst_pr_set_holder

(* There is no reservation any more.                                       *)
LEMMA ClearFields ==
    ASSUME NEW d \in Table
    PROVE  LET e == scst_pr_clear_reservation(d) IN
           /\ e \in Table
           /\ e.key = d.key /\ e.tgt_dev = d.tgt_dev /\ e.registrant = d.registrant
           /\ e.pr_is_set = FALSE /\ e.pr_type = None /\ e.pr_holder = None
BY Zenon DEF Table, scst_pr_clear_reservation

(* All registrants hold it.                                                *)
LEMMA NoHolderFields ==
    ASSUME NEW d \in Table
    PROVE  LET e == [d EXCEPT !.pr_holder = None] IN
           /\ e \in Table
           /\ e.key = d.key /\ e.tgt_dev = d.tgt_dev /\ e.registrant = d.registrant
           /\ e.pr_is_set = d.pr_is_set /\ e.pr_type = d.pr_type /\ e.pr_holder = None
           /\ e.pr_aptpl = d.pr_aptpl
BY DEF Table

(* The APTPL flag is all that changes.                                     *)
LEMMA AptplFields ==
    ASSUME NEW d \in Table, NEW aptpl \in BOOLEAN
    PROVE  LET e == WithAptpl(d, aptpl) IN
           /\ e \in Table
           /\ e.key = d.key /\ e.tgt_dev = d.tgt_dev /\ e.registrant = d.registrant
           /\ e.pr_is_set = d.pr_is_set /\ e.pr_type = d.pr_type /\ e.pr_holder = d.pr_holder
BY DEF Table, WithAptpl

(* The nexuses of C get the key k.                                         *)
LEMMA KeysFields ==
    ASSUME NEW d \in Table, NEW C \in SUBSET Nexus, NEW k \in Keys
    PROVE  LET e == SetKeys(d, C, k) IN
           /\ e \in Table
           /\ e.key = [n \in Nexus |-> IF n \in C THEN k ELSE d.key[n]]
           /\ e.tgt_dev = d.tgt_dev /\ e.registrant = d.registrant
           /\ e.pr_is_set = d.pr_is_set /\ e.pr_type = d.pr_type /\ e.pr_holder = d.pr_holder
           /\ e.pr_aptpl = d.pr_aptpl
BY DEF Table, SetKeys

(* The nexuses of A are registered, linked as f says.                      *)
LEMMA AddFields ==
    ASSUME NEW d \in Table, NEW A \in SUBSET Nexus, NEW k \in Keys,
           NEW f \in [A -> Sess \cup {None}]
    PROVE  LET e == scst_pr_add_registrant(d, A, k, f) IN
           /\ e \in Table
           /\ e.key = [n \in Nexus |-> IF n \in A THEN k ELSE d.key[n]]
           /\ e.tgt_dev = [n \in Nexus |-> IF n \in A THEN f[n] ELSE d.tgt_dev[n]]
           /\ e.registrant = [s \in Sess |->
                  IF \E n \in A : f[n] = s THEN NexusOf[s] ELSE d.registrant[s]]
           /\ e.pr_is_set = d.pr_is_set /\ e.pr_type = d.pr_type /\ e.pr_holder = d.pr_holder
           /\ e.pr_aptpl = d.pr_aptpl
BY Zenon, ConstFacts DEF Table, AddHalfLinked, scst_pr_add_registrant

-----------------------------------------------------------------------------
(* scst_pr_set_holder() for a registrant, scst_pr_clear_reservation().     *)
LEMMA SetHolderFit ==
    ASSUME NEW d, Fit(d), NEW n \in Nexus, d.key[n] # 0, NEW type \in Types
    PROVE  Fit(scst_pr_set_holder(d, n, type))
<1> DEFINE e == scst_pr_set_holder(d, n, type)
<1>1. /\ e \in Table
      /\ e.key = d.key /\ e.tgt_dev = d.tgt_dev /\ e.registrant = d.registrant
      /\ e.pr_is_set = TRUE /\ e.pr_type = type
      /\ e.pr_holder = IF type \in AllReg THEN d.pr_holder ELSE n
  <2>1. d \in Table
    BY DEF Fit
  <2> QED
    BY ONLY Zenon, <2>1, n \in Nexus, type \in Types, HolderFields
<1> HIDE DEF e
<1>2. Linked(e) /\ Served(e)
  BY <1>1 DEF Fit, Linked, Served
<1>3. Held(e)
  BY <1>1, ConstFacts DEF Fit, Held
<1> QED
  BY <1>1, <1>2, <1>3 DEF Fit, e

(* scst_pr_clear_reservation() needs nothing of the table.                 *)
LEMMA ClearFit ==
    ASSUME NEW d, Fit(d)
    PROVE  Fit(scst_pr_clear_reservation(d))
<1> DEFINE e == scst_pr_clear_reservation(d)
<1>1. /\ e \in Table
      /\ e.key = d.key /\ e.tgt_dev = d.tgt_dev /\ e.registrant = d.registrant
      /\ e.pr_is_set = FALSE /\ e.pr_type = None /\ e.pr_holder = None
  BY Zenon, ClearFields DEF Fit
<1> HIDE DEF e
<1>2. Linked(e) /\ Served(e) /\ Held(e)
  BY <1>1 DEF Fit, Linked, Served, Held
<1> QED
  BY <1>1, <1>2 DEF Fit, e

(* Neither does setting the APTPL flag.                                    *)
LEMMA AptplFit ==
    ASSUME NEW d, Fit(d), NEW aptpl \in BOOLEAN
    PROVE  Fit(WithAptpl(d, aptpl))
<1> DEFINE e == WithAptpl(d, aptpl)
<1>1. /\ e \in Table
      /\ e.key = d.key /\ e.tgt_dev = d.tgt_dev /\ e.registrant = d.registrant
      /\ e.pr_is_set = d.pr_is_set /\ e.pr_type = d.pr_type /\ e.pr_holder = d.pr_holder
  BY AptplFields DEF Fit
<1> HIDE DEF e
<1>2. Linked(e) /\ Served(e) /\ Held(e)
  BY <1>1 DEF Fit, Linked, Served, Held
<1> QED
  BY <1>1, <1>2 DEF Fit, e

(* scst_pr_remove_registrant(): a reservation goes with its holder, and    *)
(* one of all registrants with the last of them.                           *)
LEMMA RemoveFit ==
    ASSUME NEW d, Fit(d), NEW R \in SUBSET Nexus
    PROVE  LET e == scst_pr_remove_registrant(d, R) IN
           Fit(e) /\ e.key = [n \in Nexus |-> IF n \in R THEN 0 ELSE d.key[n]]
<1> DEFINE rest == RemoveKeepsHolder(d, R)
           e == scst_pr_remove_registrant(d, R)
<1>1. d \in Table /\ Linked(d) /\ Held(d) /\ Served(d)
  BY DEF Fit
<1>2. /\ rest \in Table
      /\ rest.key = [n \in Nexus |-> IF n \in R THEN 0 ELSE d.key[n]]
      /\ rest.tgt_dev = [n \in Nexus |-> IF n \in R THEN None ELSE d.tgt_dev[n]]
      /\ rest.registrant = [s \in Sess |->
             IF \E n \in R : d.tgt_dev[n] = s THEN None ELSE d.registrant[s]]
      /\ rest.pr_is_set = d.pr_is_set /\ rest.pr_type = d.pr_type
      /\ rest.pr_holder = d.pr_holder
  BY <1>1, RemoveFields
<1>3. e = IF \E n \in R : scst_pr_is_holder(d, n) THEN scst_pr_clear_holder(rest) ELSE rest
  BY DEF scst_pr_remove_registrant
<1> HIDE DEF rest, e
<1>4. \/ e = rest \/ e = [rest EXCEPT !.pr_holder = None]
      \/ e = scst_pr_clear_reservation(rest)
  BY <1>3 DEF scst_pr_clear_holder
<1>5. /\ e \in Table /\ e.key = rest.key /\ e.tgt_dev = rest.tgt_dev
      /\ e.registrant = rest.registrant
  <2>1. CASE e = [rest EXCEPT !.pr_holder = None]
    BY <1>2, <2>1, NoHolderFields
  <2>2. CASE e = scst_pr_clear_reservation(rest)
    BY Zenon, <1>2, <2>2, ClearFields
  <2> QED
    BY <1>2, <1>4, <2>1, <2>2
<1>6. Held(e)
  <2>1. CASE ~\E n \in R : scst_pr_is_holder(d, n)
    <3>1. e = rest
      BY <1>3, <2>1
    <3> QED
      BY <1>1, <1>2, <2>1, <3>1, ConstFacts DEF Held, scst_pr_is_holder, Table
  <2>2. CASE \E n \in R : scst_pr_is_holder(d, n)
    <3>1. CASE rest.pr_type \in AllReg /\ Registered(rest) # {}
      <4>1. e = [rest EXCEPT !.pr_holder = None]
        BY <1>3, <2>2, <3>1 DEF scst_pr_clear_holder
      <4>2. e.pr_is_set = rest.pr_is_set /\ e.pr_type = rest.pr_type /\ e.pr_holder = None
        BY <1>2, <4>1, NoHolderFields
      <4> QED
        BY <1>1, <1>2, <1>5, <3>1, <4>2 DEF Held, Registered
    <3>2. CASE ~(rest.pr_type \in AllReg /\ Registered(rest) # {})
      <4>1. e = scst_pr_clear_reservation(rest)
        BY <1>3, <2>2, <3>2 DEF scst_pr_clear_holder
      <4>2. e.pr_is_set = FALSE /\ e.pr_type = None /\ e.pr_holder = None
        BY Zenon, <1>2, <4>1, ClearFields
      <4> QED
        BY <4>2 DEF Held
    <3> QED
      BY <3>1, <3>2
  <2> QED
    BY <2>1, <2>2
<1>7. Linked(e)
  BY <1>1, <1>2, <1>5, ConstFacts DEF Linked, Table
<1>8. Served(e)
  BY <1>1, <1>2, <1>5 DEF Served
<1> QED
  BY <1>2, <1>5, <1>6, <1>7, <1>8 DEF Fit, e

(* Registrants get another key.                                            *)
LEMMA KeysFit ==
    ASSUME NEW d, Fit(d), NEW C \in SUBSET Nexus, NEW k \in Keys,
           \A n \in C : d.key[n] # 0
    PROVE  LET e == SetKeys(d, C, k) IN
           /\ Fit(e)
           /\ \A n \in Nexus : e.key[n] # 0 <=> d.key[n] # 0
<1> DEFINE e == SetKeys(d, C, k)
<1>1. /\ e \in Table
      /\ e.key = [n \in Nexus |-> IF n \in C THEN k ELSE d.key[n]]
      /\ e.tgt_dev = d.tgt_dev /\ e.registrant = d.registrant
      /\ e.pr_is_set = d.pr_is_set /\ e.pr_type = d.pr_type /\ e.pr_holder = d.pr_holder
  BY KeysFields DEF Fit
<1> HIDE DEF e
<1>2. \A n \in Nexus : e.key[n] # 0 <=> d.key[n] # 0
  BY <1>1, ConstFacts
<1>3. Linked(e) /\ Served(e)
  BY <1>1, <1>2 DEF Fit, Linked, Served
<1>4. Held(e)
  <2>1. d.pr_holder \in Nexus \cup {None}
    BY DEF Fit, Table
  <2> QED
    BY <1>1, <1>2, <2>1 DEF Fit, Held
<1> QED
  BY <1>1, <1>2, <1>3, <1>4 DEF Fit, e

(* scst_pr_add_registrant(): a new registrant is linked to a session of    *)
(* its nexus, if there is one, and to no session that is linked already.   *)
LEMMA AddFit ==
    ASSUME NEW d, Fit(d), NEW A \in SUBSET Nexus, NEW k \in Keys,
           \A n \in A : d.key[n] = 0, NotBeingSetUp(A), NEW f \in Links(d, A)
    PROVE  LET e == scst_pr_add_registrant(d, A, k, f) IN
           /\ Fit(e)
           /\ e.key = [n \in Nexus |-> IF n \in A THEN k ELSE d.key[n]]
           /\ e.pr_type = d.pr_type
<1> DEFINE e == scst_pr_add_registrant(d, A, k, f)
<1>0. d \in Table /\ Linked(d) /\ Held(d) /\ Served(d)
  BY DEF Fit
<1>1. f \in [A -> Sess \cup {None}]
  BY DEF Links
<1>2. /\ e \in Table
      /\ e.key = [n \in Nexus |-> IF n \in A THEN k ELSE d.key[n]]
      /\ e.tgt_dev = [n \in Nexus |-> IF n \in A THEN f[n] ELSE d.tgt_dev[n]]
      /\ e.registrant = [s \in Sess |->
             IF \E n \in A : f[n] = s THEN NexusOf[s] ELSE d.registrant[s]]
      /\ e.pr_is_set = d.pr_is_set /\ e.pr_type = d.pr_type /\ e.pr_holder = d.pr_holder
  BY <1>0, <1>1, AddFields
<1> HIDE DEF e
<1>3. \A n \in A : /\ d.tgt_dev[n] = None
                   /\ f[n] # None => /\ f[n] \in Sess /\ NexusOf[f[n]] = n
                                     /\ st[f[n]] = "listed" /\ d.registrant[f[n]] = None
  BY <1>0 DEF Linked, Links, Unlinked, Listed
<1>4. \A n \in A, s \in Sess : st[s] = "listed" /\ NexusOf[s] = n => f[n] # None
  <2> SUFFICES ASSUME NEW n \in A, NEW s \in Sess, st[s] = "listed", NexusOf[s] = n
               PROVE  f[n] # None
    OBVIOUS
  <2>1. d.registrant[s] = None
    BY <1>0, <1>3, ConstFacts DEF Linked
  <2>2. s \in Unlinked(d, n)
    BY <2>1 DEF Unlinked, Listed
  <2>3. f[n] \in Unlinked(d, n)
    BY <2>2 DEF Links
  <2> QED
    BY <2>3, ConstFacts DEF Unlinked, Listed
<1>5. Linked(e)
  <2>1. \A n \in Nexus : e.tgt_dev[n] # None =>
          e.key[n] # 0 /\ e.registrant[e.tgt_dev[n]] = n
    <3> SUFFICES ASSUME NEW n \in Nexus, e.tgt_dev[n] # None
                 PROVE  e.key[n] # 0 /\ e.registrant[e.tgt_dev[n]] = n
      OBVIOUS
    <3>1. CASE n \in A
      BY <1>2, <1>3, <3>1, ConstFacts
    <3>2. CASE n \notin A
      <4>1. d.tgt_dev[n] \in Sess /\ d.key[n] # 0 /\ d.registrant[d.tgt_dev[n]] = n
        BY <1>0, <1>2, <3>2 DEF Linked, Table
      <4>2. ~\E m \in A : f[m] = d.tgt_dev[n]
        BY <1>3, <4>1, ConstFacts
      <4> QED
        BY <1>2, <3>2, <4>1, <4>2
    <3> QED
      BY <3>1, <3>2
  <2>2. ASSUME NEW s \in Sess, e.registrant[s] # None
        PROVE  /\ e.tgt_dev[e.registrant[s]] = s /\ NexusOf[s] = e.registrant[s]
               /\ st[s] # "none"
    <3>1. CASE \E n \in A : f[n] = s
      BY <1>2, <1>3, <3>1, ConstFacts
    <3>2. CASE ~\E n \in A : f[n] = s
      <4>1. e.registrant[s] = d.registrant[s]
        BY <1>2, <3>2
      <4>2. d.registrant[s] \in Nexus /\ d.tgt_dev[d.registrant[s]] = s
            /\ NexusOf[s] = d.registrant[s] /\ st[s] # "none"
        BY <1>0, <2>2, <4>1 DEF Linked, Table
      <4>3. d.registrant[s] \notin A
        BY <1>3, <4>2, ConstFacts
      <4> QED
        BY <1>2, <4>1, <4>2, <4>3
    <3> QED
      BY <3>1, <3>2
  <2> QED
    BY <2>1, <2>2 DEF Linked
<1>6. Held(e)
  <2>1. \A n \in Nexus : d.key[n] # 0 => e.key[n] # 0
    BY <1>2, ConstFacts
  <2>2. d.pr_holder \in Nexus \cup {None}
    BY <1>0 DEF Table
  <2> QED
    BY <1>0, <1>2, <2>1, <2>2 DEF Held
<1>7. Served(e)
  <2> SUFFICES ASSUME ~LoginRace, NEW s \in Sess, NEW n \in Nexus,
                      st[s] \in {"inited", "listed"}, NexusOf[s] = n, e.key[n] # 0
               PROVE  e.tgt_dev[n] # None
    BY DEF Served
  <2>1. CASE n \in A
    BY <1>2, <1>4, <2>1 DEF NotBeingSetUp
  <2>2. CASE n \notin A
    BY <1>0, <1>2, <2>2 DEF Served
  <2> QED
    BY <2>1, <2>2
<1> QED
  BY <1>2, <1>5, <1>6, <1>7 DEF Fit, e

(* A table is saved without its links.                                     *)
LEMMA SavedFit ==
    ASSUME NEW d, Fit(d)
    PROVE  LET e == Saved(d) IN
           e \in Table /\ Held(e) /\ e.tgt_dev = Empty.tgt_dev /\ e.registrant = Empty.registrant
<1> DEFINE e == Saved(d)
<1>1. /\ e \in Table /\ e.tgt_dev = Empty.tgt_dev /\ e.registrant = Empty.registrant
      /\ e.key = d.key
      /\ e.pr_is_set = d.pr_is_set /\ e.pr_type = d.pr_type /\ e.pr_holder = d.pr_holder
  <2>1. d \in Table /\ Empty.tgt_dev \in [Nexus -> Sess \cup {None}]
        /\ Empty.registrant \in [Sess -> Nexus \cup {None}]
    BY DEF Fit, Empty
  <2> QED
    BY Zenon, <2>1 DEF Saved, Table
<1> HIDE DEF e
<1>2. Held(e)
  BY <1>1 DEF Fit, Held
<1> QED
  BY <1>1, <1>2 DEF e

(* A REGISTER that fails gives the new registrants up and restores keys.   *)
LEMMA RollbackFit ==
    ASSUME NEW d, Fit(d), NEW B \in SUBSET Nexus, NEW old \in [B -> Keys \cup {0}],
           \A n \in B : d.key[n] # 0
    PROVE  Fit(Rollback(d, old))
<1> DEFINE R == {n \in B : old[n] = 0}
           rest == RollbackKeepsKeys(d, old)
           e == Rollback(d, old)
<1>1. rest = scst_pr_remove_registrant(d, R)
  BY DEF RollbackKeepsKeys
<1>2. Fit(rest) /\ rest.key = [n \in Nexus |-> IF n \in R THEN 0 ELSE d.key[n]]
  BY <1>1, RemoveFit
<1>3. e = [rest EXCEPT !.key = [n \in Nexus |->
              IF n \in B /\ old[n] # 0 THEN old[n] ELSE rest.key[n]]]
  <2>1. DOMAIN old = B
    OBVIOUS
  <2> HIDE DEF rest
  <2>2. rest \in Table
    BY <1>2 DEF Fit
  <2> QED
    BY <2>1, <2>2 DEF Rollback, rest, Table
<1> HIDE DEF rest, e
<1>4. /\ e \in Table
      /\ e.key = [n \in Nexus |-> IF n \in B /\ old[n] # 0 THEN old[n] ELSE rest.key[n]]
      /\ e.tgt_dev = rest.tgt_dev /\ e.registrant = rest.registrant
      /\ e.pr_is_set = rest.pr_is_set /\ e.pr_type = rest.pr_type
      /\ e.pr_holder = rest.pr_holder
  BY <1>2, <1>3 DEF Fit, Table
<1>5. \A n \in Nexus : e.key[n] # 0 <=> rest.key[n] # 0
  BY <1>2, <1>4
<1>6. Linked(e) /\ Served(e)
  BY <1>2, <1>4, <1>5 DEF Fit, Linked, Served
<1>7. Held(e)
  <2>1. rest.pr_holder \in Nexus \cup {None}
    BY <1>2 DEF Fit, Table
  <2> QED
    BY <1>2, <1>4, <1>5, <2>1 DEF Fit, Held
<1> QED
  BY <1>4, <1>6, <1>7 DEF Fit, e

(* ... and leaves nothing behind: the new registrants held no more than    *)
(* all of them do, and were linked to sessions that had no registrant.     *)
LEMMA RollbackExact ==
    ASSUME NEW d, Fit(d), NEW A \in SUBSET Nexus, NEW C \in SUBSET Nexus, NEW k \in Keys,
           \A n \in A : d.key[n] = 0, \A n \in C : d.key[n] # 0, NEW f \in Links(d, A)
    PROVE  Meaning(Rollback(SetKeys(scst_pr_add_registrant(d, A, k, f), C, k),
                            [n \in A \cup C |-> d.key[n]])) = Meaning(d)
<1> DEFINE old == [n \in A \cup C |-> d.key[n]]
           a == scst_pr_add_registrant(d, A, k, f)
           c == SetKeys(a, C, k)
           r == RemoveKeepsHolder(c, A)
           rest == scst_pr_remove_registrant(c, A)
           e == Rollback(c, old)
<1>0. d \in Table /\ Linked(d) /\ Held(d)
  BY DEF Fit
<1>1. /\ f \in [A -> Sess \cup {None}]
      /\ \A n \in A : f[n] # None => f[n] \in Sess /\ d.registrant[f[n]] = None
  BY DEF Links, Unlinked, Listed
<1>2. /\ a \in Table
      /\ a.key = [n \in Nexus |-> IF n \in A THEN k ELSE d.key[n]]
      /\ a.tgt_dev = [n \in Nexus |-> IF n \in A THEN f[n] ELSE d.tgt_dev[n]]
      /\ a.registrant = [s \in Sess |->
             IF \E n \in A : f[n] = s THEN NexusOf[s] ELSE d.registrant[s]]
      /\ a.pr_is_set = d.pr_is_set /\ a.pr_type = d.pr_type /\ a.pr_holder = d.pr_holder
      /\ a.pr_aptpl = d.pr_aptpl
  BY <1>0, <1>1, AddFields
<1> HIDE DEF a
<1>3. /\ c \in Table
      /\ c.key = [n \in Nexus |-> IF n \in C THEN k ELSE a.key[n]]
      /\ c.tgt_dev = a.tgt_dev /\ c.registrant = a.registrant
      /\ c.pr_is_set = d.pr_is_set /\ c.pr_type = d.pr_type /\ c.pr_holder = d.pr_holder
      /\ c.pr_aptpl = d.pr_aptpl
  BY <1>2, KeysFields
<1> HIDE DEF c
<1>4. /\ r \in Table
      /\ r.key = [n \in Nexus |-> IF n \in A THEN 0 ELSE c.key[n]]
      /\ r.tgt_dev = [n \in Nexus |-> IF n \in A THEN None ELSE c.tgt_dev[n]]
      /\ r.registrant = [s \in Sess |->
             IF \E n \in A : c.tgt_dev[n] = s THEN None ELSE c.registrant[s]]
      /\ r.pr_is_set = d.pr_is_set /\ r.pr_type = d.pr_type /\ r.pr_holder = d.pr_holder
      /\ r.pr_aptpl = d.pr_aptpl
  BY <1>3, RemoveFields
<1> HIDE DEF r
<1>5. /\ d.key \in [Nexus -> Keys \cup {0}] /\ d.tgt_dev \in [Nexus -> Sess \cup {None}]
      /\ d.registrant \in [Sess -> Nexus \cup {None}] /\ d.pr_holder \in Nexus \cup {None}
  BY <1>0 DEF Table
<1>6. r.tgt_dev = d.tgt_dev
  <2>1. \A n \in A : d.tgt_dev[n] = None
    BY <1>0 DEF Linked
  <2> QED
    BY <1>2, <1>3, <1>4, <1>5, <2>1
<1>7. r.registrant = d.registrant
  <2>1. \A s \in Sess : (\E n \in A : c.tgt_dev[n] = s) <=> \E n \in A : f[n] = s
    BY <1>2, <1>3
  <2>2. \A s \in Sess : (\E n \in A : f[n] = s) => d.registrant[s] = None
    BY <1>1, ConstFacts
  <2>3. \A s \in Sess : r.registrant[s] = d.registrant[s]
    BY <1>2, <1>3, <1>4, <2>1, <2>2
  <2> QED
    BY <1>4, <1>5, <2>3
<1>8. \A n \in Nexus : r.key[n] = IF n \in C THEN k ELSE d.key[n]
  BY <1>2, <1>3, <1>4
<1>9. rest \in {r, [r EXCEPT !.pr_holder = None]} /\ (rest # r => d.pr_type \in AllReg)
  <2>1. CASE \E n \in A : scst_pr_is_holder(c, n)
    <3>1. d.pr_is_set /\ d.pr_type \in AllReg
      BY <1>0, <1>3, <2>1, ConstFacts DEF scst_pr_is_holder, Held
    <3>2. Registered(r) # {}
      BY <1>0, <1>8, <3>1, ConstFacts DEF Held, Registered
    <3>3. rest = scst_pr_clear_holder(r)
      BY <2>1 DEF scst_pr_remove_registrant, r
    <3> QED
      BY <1>4, <3>1, <3>2, <3>3 DEF scst_pr_clear_holder
  <2>2. CASE ~\E n \in A : scst_pr_is_holder(c, n)
    BY <2>2 DEF scst_pr_remove_registrant, r
  <2> QED
    BY <2>1, <2>2
<1> HIDE DEF rest
<1>10. /\ rest \in Table /\ rest.key = r.key /\ rest.tgt_dev = d.tgt_dev
       /\ rest.registrant = d.registrant /\ rest.pr_is_set = d.pr_is_set
       /\ rest.pr_type = d.pr_type /\ rest.pr_aptpl = d.pr_aptpl
       /\ d.pr_type \notin AllReg => rest.pr_holder = d.pr_holder
  <2>1. CASE rest = r
    BY <1>4, <1>6, <1>7, <2>1
  <2>2. CASE rest = [r EXCEPT !.pr_holder = None]
    BY Zenon, <1>4, <1>6, <1>7, <1>9, <2>2, NoHolderFields
  <2> QED
    BY <1>9, <2>1, <2>2
<1>11. e = [rest EXCEPT !.key = [n \in Nexus |->
              IF n \in A \cup C /\ d.key[n] # 0 THEN d.key[n] ELSE rest.key[n]]]
  <2>1. {n \in DOMAIN old : old[n] = 0} = A
    OBVIOUS
  <2>2. RollbackKeepsKeys(c, old) = rest
    BY Zenon, <2>1 DEF RollbackKeepsKeys, rest
  <2>3. \A n \in Nexus : (n \in DOMAIN old /\ old[n] # 0) <=> (n \in A \cup C /\ d.key[n] # 0)
    OBVIOUS
  <2>4. [n \in Nexus |-> IF n \in DOMAIN old /\ old[n] # 0 THEN old[n] ELSE rest.key[n]]
        = [n \in Nexus |-> IF n \in A \cup C /\ d.key[n] # 0 THEN d.key[n] ELSE rest.key[n]]
    BY <2>3
  <2> QED
    BY Zenon, <1>10, <2>2, <2>4 DEF Rollback, Table
<1> HIDE DEF e
<1>12. /\ e \in Table
       /\ e.key = [n \in Nexus |->
              IF n \in A \cup C /\ d.key[n] # 0 THEN d.key[n] ELSE rest.key[n]]
       /\ e.tgt_dev = d.tgt_dev /\ e.registrant = d.registrant
       /\ e.pr_is_set = d.pr_is_set /\ e.pr_type = d.pr_type /\ e.pr_aptpl = d.pr_aptpl
       /\ d.pr_type \notin AllReg => e.pr_holder = d.pr_holder
  BY <1>5, <1>10, <1>11 DEF Table
<1>13. e.key = d.key
  BY <1>5, <1>8, <1>10, <1>12
<1>14. Meaning(e) = Meaning(d)
  <2>1. CASE d.pr_type \in AllReg
    BY <1>0, <1>12, <1>13, <2>1 DEF Meaning, Table
  <2>2. CASE d.pr_type \notin AllReg
    BY <1>0, <1>12, <1>13, <2>2 DEF Meaning, Table
  <2> QED
    BY <2>1, <2>2
<1> QED
  BY <1>14 DEF e, c, a

=============================================================================
