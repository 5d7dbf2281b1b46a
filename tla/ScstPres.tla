------------------------------ MODULE ScstPres ------------------------------
(***************************************************************************)
(* Persistent reservations of one device: the table of registrants, the    *)
(* reservation and the PERSISTENT RESERVE OUT service actions that change  *)
(* them; the links between a registrant and the tgt_dev (the I_T nexus on  *)
(* this device) of its session, kept while sessions come and go; SPC-2     *)
(* reservations, which exclude persistent ones; and the file and the       *)
(* backup in which the table survives a power loss (APTPL).                *)
(*                                                                         *)
(* A command runs under dev_pr_mutex and is one step, except for its       *)
(* checks before the mutex and for the steps of saving the file, between   *)
(* which the power may fail.  A registrant is named by its nexus, at most  *)
(* one exists per nexus, so dev_registrants_list is a function from nexus  *)
(* to key (0: not registered).  A PERSISTENT RESERVE OUT is SERIALIZED,    *)
(* see ScstBlocking: no other one, nor a RESERVE or RELEASE, runs beside   *)
(* it.  Not kept: scopes (there is one) and pr_generation.                 *)
(***************************************************************************)
EXTENDS Naturals, FiniteSets

CONSTANTS
    Tid,        \* TransportIDs of initiator ports
    Rel,        \* relative target port identifiers
    Sess,       \* sessions; each has one tgt_dev on the device
    NexusOf,    \* nexus of a session; None: the transport has no TransportIDs
    Keys,       \* reservation keys that are used
    Types,      \* reservation types that are used
    None,
    NoFile,     \* a file that does not exist
    Torn,       \* a file without the signature
    LoginRace,  \* may a session be set up in the windows that PR OUT leaves?
    SaveGaps    \* may the power fail where the files do not allow to recover?

AllReg == {"WRITE_EXCLUSIVE_ALL_REG", "EXCLUSIVE_ACCESS_ALL_REG"}
RegOnly == {"WRITE_EXCLUSIVE_REGONLY", "EXCLUSIVE_ACCESS_REGONLY"}
HolderOnly == {"WRITE_EXCLUSIVE", "EXCLUSIVE_ACCESS"}
Nexus == Tid \X Rel

(* The table of registrants and the reservation; the links are tgt_dev of  *)
(* a registrant and registrant of a session's tgt_dev.                     *)
Table ==
    [key : [Nexus -> Keys \cup {0}], pr_is_set : BOOLEAN,
     pr_type : Types \cup {None}, pr_holder : Nexus \cup {None},
     pr_aptpl : BOOLEAN, tgt_dev : [Nexus -> Sess \cup {None}],
     registrant : [Sess -> Nexus \cup {None}]]

ASSUME PresAssumption ==
    /\ Keys \subseteq Nat \ {0}
    /\ Types \subseteq AllReg \cup RegOnly \cup HolderOnly
    /\ None \notin Sess \cup Nexus \cup AllReg \cup RegOnly \cup HolderOnly
    /\ NoFile # Torn /\ NoFile \notin Table /\ Torn \notin Table
    /\ NexusOf \in [Sess -> Nexus \cup {None}]
    /\ LoginRace \in BOOLEAN /\ SaveGaps \in BOOLEAN

VARIABLES
    dev,          \* the reservation fields of the device, with the links
    st,           \* where the tgt_dev of a session is in its life
    pr,           \* the SERIALIZED command in progress and how far it is
    reserved_by,  \* session that holds an SPC-2 reservation
    ua,           \* unit attentions queued by the command in progress
    main, bak,    \* contents of the PR file and of its backup on the disk
    durable,      \* tables of which a reload must give one; {}: nothing known
    up            \* "up", "down", "failed": the device and its registration

vars == <<dev, st, pr, reserved_by, ua, main, bak, durable, up>>

-----------------------------------------------------------------------------
(* The table.                                                              *)

Empty ==
    [key |-> [n \in Nexus |-> 0], pr_is_set |-> FALSE, pr_type |-> None,
     pr_holder |-> None, pr_aptpl |-> FALSE,
     tgt_dev |-> [n \in Nexus |-> None], registrant |-> [s \in Sess |-> None]]

Registered(d) == {n \in Nexus : d.key[n] # 0}
WithKey(d, k) == {n \in Registered(d) : d.key[n] = k}

scst_pr_set_holder(d, n, type) ==
    [d EXCEPT !.pr_is_set = TRUE, !.pr_type = type,
              !.pr_holder = IF type \in AllReg THEN @ ELSE n]

scst_pr_is_holder(d, n) ==
    d.pr_is_set /\ (d.pr_type \in AllReg \/ d.pr_holder = n)

scst_pr_clear_reservation(d) ==
    [d EXCEPT !.pr_is_set = FALSE, !.pr_type = None, !.pr_holder = None]

scst_pr_clear_holder(d) ==
    IF d.pr_type \in AllReg /\ Registered(d) # {}
    THEN [d EXCEPT !.pr_holder = None]
    ELSE scst_pr_clear_reservation(d)

(* scst_pr_remove_registrant() for every registrant of the set.            *)
\* Mutant: a reservation outlives its holder.
RemoveKeepsHolder(d, R) ==
    [d EXCEPT !.key = [n \in Nexus |-> IF n \in R THEN 0 ELSE @[n]],
              !.tgt_dev = [n \in Nexus |-> IF n \in R THEN None ELSE @[n]],
              !.registrant = [s \in Sess |->
                  IF \E n \in R : d.tgt_dev[n] = s THEN None ELSE @[s]]]
scst_pr_remove_registrant(d, R) ==
    LET rest == RemoveKeepsHolder(d, R) IN
    IF \E n \in R : scst_pr_is_holder(d, n)
    THEN scst_pr_clear_holder(rest) ELSE rest

Listed == {s \in Sess : st[s] = "listed"}

(* tgt_devs of a nexus that scst_pr_add_registrant() can link to a new     *)
(* registrant; it takes the first in the list, which is any here.          *)
Unlinked(d, n) == {s \in Listed : NexusOf[s] = n /\ d.registrant[s] = None}
Links(d, A) ==
    {f \in [A -> Sess \cup {None}] :
        \A n \in A : IF Unlinked(d, n) = {} THEN f[n] = None
                                            ELSE f[n] \in Unlinked(d, n)}

(* scst_pr_add_registrant() for every nexus of A, linked as f says.        *)
\* Mutant: the link is set on the side of the registrant only.
AddHalfLinked(d, A, k, f) ==
    [d EXCEPT !.key = [n \in Nexus |-> IF n \in A THEN k ELSE @[n]],
              !.tgt_dev = [n \in Nexus |-> IF n \in A THEN f[n] ELSE @[n]]]
scst_pr_add_registrant(d, A, k, f) ==
    [AddHalfLinked(d, A, k, f) EXCEPT
        !.registrant = [s \in Sess |->
            IF \E n \in A : f[n] = s THEN NexusOf[s] ELSE @[s]]]

(* scst_pr_send_ua_reg() for every registrant of R that has a tgt_dev.     *)
\* Mutant: only the holder of the reservation is told.
TellHolder(d, R, what) ==
    {<<d.tgt_dev[n], what>> : n \in {m \in R : d.tgt_dev[m] # None /\ d.pr_holder = m}}
Tell(d, R, what) == {<<d.tgt_dev[n], what>> : n \in {m \in R : d.tgt_dev[m] # None}}

-----------------------------------------------------------------------------
(* What is saved in the file: everything but the links.  Nothing is saved  *)
(* without APTPL or without registrants.                                   *)

Saved(d) == [d EXCEPT !.tgt_dev = Empty.tgt_dev, !.registrant = Empty.registrant]
MustSave(d) == d.pr_aptpl /\ Registered(d) # {}
Image(d) == IF MustSave(d) THEN Saved(d) ELSE Empty

Init ==
    /\ dev = Empty
    /\ st = [s \in Sess |-> "none"]
    /\ pr = [sess |-> None, pc |-> "idle"]
    /\ reserved_by = None
    /\ ua = {}
    /\ main = NoFile /\ bak = NoFile
    /\ durable = {Empty}
    /\ up = "up"

-----------------------------------------------------------------------------
(* Start and end of a PERSISTENT RESERVE OUT.                              *)

Saving == pr.pc \in {"rm_main", "rm_bak", "copy", "data", "sign"}
NoPrTransport == \E s \in Sess : NexusOf[s] = None /\ st[s] \in {"inited", "listed"}

(* The checks made before dev_pr_mutex is taken.                           *)
\* Mutant: a PERSISTENT RESERVE OUT does not look at SPC-2 reservations.
StartPrOutReserved(s) ==
    /\ up = "up" /\ pr.pc = "idle" /\ s \in Listed
    /\ ~NoPrTransport
    /\ pr' = [sess |-> s, pc |-> "checked"]
    /\ UNCHANGED <<dev, st, reserved_by, ua, main, bak, durable, up>>
StartPrOut(s) == reserved_by = None /\ StartPrOutReserved(s)

(* The command takes the mutex and is refused (no registration, a wrong    *)
(* key, a service action the reservation does not allow, invalid fields)   *)
(* or finds itself aborted by another one: nothing changes.                *)
RefusePrOut ==
    /\ pr.pc = "checked"
    /\ pr' = [sess |-> None, pc |-> "idle"]
    /\ ua' = {}
    /\ UNCHANGED <<dev, st, reserved_by, main, bak, durable, up>>

(* The command has succeeded: its file is synced, still under the mutex.   *)
Good(d, told) ==
    /\ dev' = d
    /\ ua' = told
    /\ pr' = [pr EXCEPT !.pc = IF MustSave(d) THEN "copy" ELSE "rm_main"]
    /\ UNCHANGED <<st, reserved_by, main, bak, durable, up>>

-----------------------------------------------------------------------------
(* REGISTER, REGISTER AND IGNORE EXISTING KEY.                             *)

Me == NexusOf[pr.sess]
Ports(all_tg_pt) == IF all_tg_pt THEN Rel ELSE {Me[2]}

(* Unregistering ends a reservation for registrants only: the others are   *)
(* told, unless the command removes them too.                              *)
scst_pr_unregister(d, R) ==
    LET rest == scst_pr_remove_registrant(d, R)
        released == d.pr_is_set /\ ~rest.pr_is_set /\ d.pr_type \in RegOnly
    IN [d |-> rest,
        told |-> IF released THEN Tell(rest, Registered(rest), "released") ELSE {}]

(* With SPEC_I_PT the initiator ports of spec are registered, or get the   *)
(* new key; the sender's own nexus is registered if it is not yet.         *)
ToAdd(d, spec, all_tg_pt) ==
    {n \in (spec \cup {Me[1]}) \X Ports(all_tg_pt) : d.key[n] = 0}
ToChange(d, spec, all_tg_pt, k) ==
    {n \in spec \X Ports(all_tg_pt) : d.key[n] \notin {0, k}}

NotBeingSetUp(A) ==
    LoginRace \/ \A s \in Sess : st[s] = "inited" => NexusOf[s] \notin A

SetKeys(d, C, k) == [d EXCEPT !.key = [n \in Nexus |-> IF n \in C THEN k ELSE @[n]]]
WithAptpl(d, aptpl) == [d EXCEPT !.pr_aptpl = aptpl]

RegisterNew(k, spec, all_tg_pt, aptpl) ==
    LET A == ToAdd(dev, spec, all_tg_pt)
        C == ToChange(dev, spec, all_tg_pt, k)
    IN /\ NotBeingSetUp(A)
       /\ \E f \in Links(dev, A) :
            Good(WithAptpl(SetKeys(scst_pr_add_registrant(dev, A, k, f), C, k), aptpl), {})

RegisterAgain(k, all_tg_pt, aptpl) ==
    LET R == IF all_tg_pt THEN Registered(dev) \cap ({Me[1]} \X Rel)
                          ELSE {dev.registrant[pr.sess]}
        u == scst_pr_unregister(dev, R)
    IN IF k = 0 THEN Good(WithAptpl(u.d, aptpl), u.told)
       ELSE Good(WithAptpl(SetKeys(dev, {dev.registrant[pr.sess]}, k), aptpl), {})

Register(k, spec, all_tg_pt, aptpl) ==
    /\ pr.pc = "checked"
    /\ IF dev.registrant[pr.sess] # None
       THEN spec = {} /\ RegisterAgain(k, all_tg_pt, aptpl)
       ELSE IF k = 0 THEN Good(WithAptpl(dev, aptpl), {})
       ELSE RegisterNew(k, spec, all_tg_pt, aptpl)

RegisterAndIgnore(k, all_tg_pt, aptpl) == Register(k, {}, all_tg_pt, aptpl)

(* Memory runs out after the nexuses of A1 have been registered and the    *)
(* keys of C1 changed; rollback_key says for each what it was.             *)
\* Mutant: rolling back removes registrants, but leaves the changed keys.
RollbackKeepsKeys(d, rollback_key) ==
    scst_pr_remove_registrant(d, {n \in DOMAIN rollback_key : rollback_key[n] = 0})
Rollback(d, rollback_key) ==
    LET rest == RollbackKeepsKeys(d, rollback_key) IN
    [rest EXCEPT !.key = [n \in Nexus |->
        IF n \in DOMAIN rollback_key /\ rollback_key[n] # 0 THEN rollback_key[n] ELSE @[n]]]

RegisterFails(k, spec, all_tg_pt) ==
    LET A == ToAdd(dev, spec, all_tg_pt)
        C == ToChange(dev, spec, all_tg_pt, k)
    IN /\ pr.pc = "checked" /\ k # 0 /\ dev.registrant[pr.sess] = None
       /\ \E A1 \in SUBSET A, C1 \in SUBSET C :
            /\ A1 # A
            /\ NotBeingSetUp(A1)
            /\ \E f \in Links(dev, A1) :
                 dev' = Rollback(SetKeys(scst_pr_add_registrant(dev, A1, k, f), C1, k),
                                 [n \in A1 \cup C1 |-> dev.key[n]])
       /\ pr' = [sess |-> None, pc |-> "idle"]
       /\ ua' = {}
       /\ UNCHANGED <<st, reserved_by, main, bak, durable, up>>

-----------------------------------------------------------------------------
(* The service actions of a registered initiator.                          *)

reg == dev.registrant[pr.sess]
Others == Registered(dev) \ {reg}
Locked == pr.pc = "checked" /\ reg # None

RegisterAndMove(n, k, unreg, aptpl) ==
    /\ Locked
    /\ scst_pr_is_holder(dev, reg)
    /\ k # 0 /\ dev.pr_type \notin AllReg /\ n[1] # Me[1]
    /\ LET A == {n} \ Registered(dev) IN
       /\ NotBeingSetUp(A)
       /\ \E f \in Links(dev, A) :
            LET added == SetKeys(scst_pr_add_registrant(dev, A, k, f), {n}, k)
                moved == scst_pr_set_holder(added, n, dev.pr_type)
                d == IF unreg THEN scst_pr_remove_registrant(moved, {reg}) ELSE moved
            IN Good(WithAptpl(d, aptpl), {})

Reserve(type) ==
    /\ Locked
    /\ \/ ~dev.pr_is_set /\ Good(scst_pr_set_holder(dev, reg, type), {})
       \/ scst_pr_is_holder(dev, reg) /\ dev.pr_type = type /\ Good(dev, {})

Release(type) ==
    /\ Locked
    /\ \/ ~scst_pr_is_holder(dev, reg) /\ Good(dev, {})
       \/ /\ scst_pr_is_holder(dev, reg) /\ dev.pr_type = type
          /\ Good(scst_pr_clear_reservation(dev),
                  IF type \in RegOnly \cup AllReg THEN Tell(dev, Others, "released") ELSE {})

Clear ==
    /\ Locked
    /\ Good(scst_pr_remove_registrant(dev, Registered(dev)), Tell(dev, Others, "preempted"))

(* PREEMPT with the service action key k; PREEMPT AND ABORT also aborts    *)
(* the commands of the registrants it finds, see ScstTaskMgmt, and tells   *)
(* those of other initiators, unless TAS is set.                           *)
Preempted(found, removed, cleared) ==
    Tell(dev, removed \ {reg}, "preempted")
    \cup (IF cleared THEN {u \in Tell(dev, found, "cleared") : u[1] # pr.sess} ELSE {})

scst_pr_do_preempt(k, type, cleared) ==
    LET found == IF dev.pr_type \in AllReg /\ k = 0 THEN Others ELSE WithKey(dev, k)
        others == found \ {reg}
        rest == scst_pr_remove_registrant(dev, others)
        told == Preempted(found, others, cleared)
    IN
    \/ /\ ~dev.pr_is_set
       /\ found # {}
       /\ Good(rest, told)
    \/ /\ dev.pr_type \in AllReg
       /\ \/ k = 0 /\ Good(scst_pr_set_holder(rest, reg, type), told)
          \/ k # 0 /\ found # {} /\ Good(rest, told)
    \/ /\ dev.pr_is_set /\ dev.pr_type \notin AllReg
       /\ \/ /\ dev.key[dev.pr_holder] # k
             /\ found # {}
             /\ Good(scst_pr_remove_registrant(dev, found), told)
          \/ /\ dev.key[dev.pr_holder] = k
             /\ Good(scst_pr_set_holder(rest, reg, type),
                     told \cup (IF dev.pr_type # type
                                THEN Tell(rest, Registered(rest) \ {reg}, "released")
                                ELSE {}))

Preempt(k, type) == Locked /\ scst_pr_do_preempt(k, type, FALSE)
PreemptAndAbort(k, type) == Locked /\ scst_pr_do_preempt(k, type, TRUE)

PrOut ==
    \/ RefusePrOut
    \/ \E k \in Keys \cup {0}, all_tg_pt, aptpl \in BOOLEAN, spec \in SUBSET Tid :
          Register(k, spec, all_tg_pt, aptpl)
    \/ \E k \in Keys \cup {0}, all_tg_pt, aptpl \in BOOLEAN :
          RegisterAndIgnore(k, all_tg_pt, aptpl)
    \/ \E k \in Keys, all_tg_pt \in BOOLEAN, spec \in SUBSET Tid :
          RegisterFails(k, spec, all_tg_pt)
    \/ \E n \in Nexus, k \in Keys, unreg, aptpl \in BOOLEAN : RegisterAndMove(n, k, unreg, aptpl)
    \/ \E type \in Types : Reserve(type) \/ Release(type)
    \/ Clear
    \/ \E k \in Keys \cup {0}, type \in Types : Preempt(k, type) \/ PreemptAndAbort(k, type)

-----------------------------------------------------------------------------
(* scst_pr_sync_device_file(), under dev_pr_mutex.                         *)

To(pc) == pr' = [pr EXCEPT !.pc = pc]
Finish(promise) ==
    /\ pr' = [sess |-> None, pc |-> "idle"]
    /\ durable' = promise

RemoveMain ==
    /\ pr.pc = "rm_main"
    /\ main' = NoFile
    /\ To("rm_bak")
    /\ ua' = {}
    /\ UNCHANGED <<dev, st, reserved_by, bak, durable, up>>

RemoveBackup ==
    /\ pr.pc = "rm_bak"
    /\ bak' = NoFile
    /\ Finish({Empty})
    /\ UNCHANGED <<dev, st, reserved_by, ua, main, up>>

(* scst_copy_file() and its fsync.  Without a file the backup stays; that  *)
(* copying fails is ignored.                                               *)
CopyBackup ==
    /\ pr.pc = "copy"
    /\ bak' \in IF main = NoFile THEN {bak}
               ELSE {main} \cup (IF SaveGaps THEN {bak, Torn} ELSE {})
    /\ To("data")
    /\ ua' = {}
    /\ UNCHANGED <<dev, st, reserved_by, main, durable, up>>

(* The file is truncated, written without its signature and fsynced.       *)
WriteData ==
    /\ pr.pc = "data"
    /\ main' = Torn
    /\ To("sign")
    /\ UNCHANGED <<dev, st, reserved_by, ua, bak, durable, up>>

WriteSignature ==
    /\ pr.pc = "sign"
    /\ main' = Saved(dev)
    /\ Finish({Saved(dev)})
    /\ UNCHANGED <<dev, st, reserved_by, ua, bak, up>>

(* The file cannot be opened and stays as it is, or a write or an fsync    *)
(* fails and it is unlinked.  The initiator is not told: nothing is known  *)
(* of what a reload gives until a later save succeeds.                     *)
SaveFails ==
    /\ \/ pr.pc = "data" /\ main' \in {main, NoFile}
       \/ pr.pc = "sign" /\ main' = NoFile
    /\ Finish({})
    /\ UNCHANGED <<dev, st, reserved_by, ua, bak, up>>

Sync == RemoveMain \/ RemoveBackup \/ CopyBackup \/ WriteData \/ WriteSignature \/ SaveFails

(* What a power failure may leave of a file that is being written: what    *)
(* was there, what will be there, or something without a signature.        *)
Unrecoverable ==
    \/ pr.pc = "rm_bak" /\ bak # NoFile
    \/ pr.pc = "copy" /\ main = Torn
    \/ pr.pc \in {"data", "sign"} /\ bak \in {NoFile, Torn}

PowerLoss ==
    /\ up = "up"
    /\ SaveGaps \/ ~Unrecoverable
    /\ main' \in CASE pr.pc = "data" -> {main, Torn}
                   [] pr.pc = "sign" -> {main, Saved(dev)}
                   [] OTHER -> {main}
    /\ bak' \in IF pr.pc = "copy" /\ main # NoFile THEN {bak, Torn, main} ELSE {bak}
    /\ durable' = IF Saving /\ durable # {} THEN durable \cup {Image(dev)} ELSE durable
    /\ dev' = Empty /\ st' = [s \in Sess |-> "none"] /\ reserved_by' = None /\ ua' = {}
    /\ pr' = [sess |-> None, pc |-> "idle"]
    /\ up' = "down"

(* scst_pr_do_load_device_file() accepts a file with a signature.          *)
Valid(file) == file \notin {NoFile, Torn}

(* scst_pr_load_device_file(): the file, or else the backup.  There being  *)
(* neither is no error; otherwise the device is not registered.            *)
\* Mutant: the backup is preferred to the file.
LoadBackupFirst ==
    CASE Valid(bak) -> {bak}
      [] ~Valid(bak) /\ Valid(main) -> {main}
      [] main = NoFile /\ bak = NoFile -> {Empty}
      [] OTHER -> {}
scst_pr_load_device_file ==
    CASE Valid(main) -> {main}
      [] ~Valid(main) /\ Valid(bak) -> {bak}
      [] main = NoFile /\ bak = NoFile -> {Empty}
      [] OTHER -> {}

RegisterDevice ==
    /\ up = "down"
    /\ IF scst_pr_load_device_file = {}
       THEN up' = "failed" /\ UNCHANGED <<dev, durable>>
       ELSE /\ up' = "up"
            /\ dev' \in scst_pr_load_device_file
            /\ durable' = {Image(dev')}
    /\ UNCHANGED <<st, pr, reserved_by, ua, main, bak>>

-----------------------------------------------------------------------------
(* Sessions.  A tgt_dev is set up and torn down under scst_mutex; only its *)
(* entry in dev_tgt_dev_list is protected by dev_lock.                     *)

MutexFree == up = "up" /\ \A s \in Sess : st[s] \in {"none", "listed"}
Busy(s) == pr.sess = s

(* scst_pr_init_tgt_dev(), or the refusal of a transport without           *)
(* TransportIDs while the device has registrants.                          *)
InitTgtDev(s) ==
    /\ MutexFree /\ st[s] = "none"
    /\ IF NexusOf[s] # None THEN ~Saving
       ELSE Registered(dev) = {} /\ (LoginRace \/ pr.pc # "checked")
    /\ st' = [st EXCEPT ![s] = "inited"]
    /\ dev' = IF NexusOf[s] \in Registered(dev) /\ dev.tgt_dev[NexusOf[s]] = None
              THEN [dev EXCEPT !.tgt_dev[NexusOf[s]] = s, !.registrant[s] = NexusOf[s]]
              ELSE dev
    /\ UNCHANGED <<pr, reserved_by, ua, main, bak, durable, up>>

ListTgtDev(s) ==
    /\ st[s] = "inited"
    /\ st' = [st EXCEPT ![s] = "listed"]
    /\ UNCHANGED <<dev, pr, reserved_by, ua, main, bak, durable, up>>

(* scst_free_tgt_dev() as far as scst_clear_reservation().                 *)
UnlistTgtDev(s) ==
    /\ MutexFree /\ st[s] = "listed" /\ ~Busy(s)
    /\ st' = [st EXCEPT ![s] = "unlisted"]
    /\ reserved_by' = IF reserved_by = s THEN None ELSE reserved_by
    /\ UNCHANGED <<dev, pr, ua, main, bak, durable, up>>

(* scst_pr_clear_tgt_dev(), at the end of a session or when setting it up  *)
(* fails.  The registrant goes to another tgt_dev of its nexus.            *)
\* Mutant: the registrant is not given to another session of its nexus.
HeirsNone(s) == {}
Heirs(s) == {t \in Listed \ {s} : NexusOf[t] = dev.registrant[s]}
ClearTgtDev(s) ==
    /\ st[s] \in {"unlisted", "inited"} /\ ~Saving
    /\ st' = [st EXCEPT ![s] = "none"]
    /\ IF dev.registrant[s] = None THEN dev' = dev
       ELSE LET n == dev.registrant[s] IN
            \/ /\ Heirs(s) = {}
               /\ dev' = [dev EXCEPT !.tgt_dev[n] = None, !.registrant[s] = None]
            \/ \E t \in Heirs(s) :
                 dev' = [dev EXCEPT !.tgt_dev[n] = t, !.registrant[s] = None, !.registrant[t] = n]
    /\ UNCHANGED <<pr, reserved_by, ua, main, bak, durable, up>>

(* scst_reassign_retained_sess_states(): the session new replaces old of   *)
(* the same initiator port, whose commands have ended.                     *)
Reassign(new, old) ==
    /\ MutexFree /\ ~Saving /\ new # old
    /\ {new, old} \subseteq Listed /\ ~Busy(old)
    /\ NexusOf[new] = NexusOf[old] /\ NexusOf[new] # None
    /\ reserved_by' = IF reserved_by = old THEN new ELSE reserved_by
    /\ dev' = IF dev.registrant[old] = None THEN dev
              ELSE [dev EXCEPT
                      !.tgt_dev = [n \in Nexus |-> IF n = dev.registrant[old] THEN new
                                                   ELSE IF n = dev.registrant[new] THEN None
                                                   ELSE @[n]],
                      !.registrant[new] = dev.registrant[old],
                      !.registrant[old] = None]
    /\ UNCHANGED <<st, pr, ua, main, bak, durable, up>>

-----------------------------------------------------------------------------
(* SPC-2 reservations.  RESERVE looks at the registrants without the       *)
(* mutex, before it takes dev_lock.                                        *)

StartReserve6(s) ==
    /\ up = "up" /\ pr.pc = "idle" /\ s \in Listed
    /\ Registered(dev) = {}
    /\ pr' = [sess |-> s, pc |-> "reserve"]
    /\ UNCHANGED <<dev, st, reserved_by, ua, main, bak, durable, up>>

Reserve6 ==
    /\ pr.pc = "reserve"
    /\ reserved_by' = IF reserved_by = None THEN pr.sess ELSE reserved_by
    /\ pr' = [sess |-> None, pc |-> "idle"]
    /\ UNCHANGED <<dev, st, ua, main, bak, durable, up>>

Release6(s) ==
    /\ up = "up" /\ pr.pc = "idle" /\ s \in Listed
    /\ Registered(dev) = {} /\ reserved_by = s
    /\ reserved_by' = None
    /\ UNCHANGED <<dev, st, pr, ua, main, bak, durable, up>>

(* The end of a reset, see ScstTaskMgmt.                                   *)
Reset6 ==
    /\ up = "up" /\ reserved_by # None
    /\ reserved_by' = None
    /\ UNCHANGED <<dev, st, pr, ua, main, bak, durable, up>>

Next ==
    \/ \E s \in Sess : StartPrOut(s) \/ StartReserve6(s) \/ Release6(s)
    \/ PrOut
    \/ Sync
    \/ PowerLoss \/ RegisterDevice
    \/ \E s \in Sess : InitTgtDev(s) \/ ListTgtDev(s) \/ UnlistTgtDev(s) \/ ClearTgtDev(s)
    \/ \E new, old \in Sess : Reassign(new, old)
    \/ Reserve6 \/ Reset6

Spec == Init /\ [][Next]_vars

-----------------------------------------------------------------------------
(* scst_pr_is_cmd_allowed() for a command that is allowed with neither     *)
(* kind of reservation ("none"), a WRITE for instance, with a WRITE        *)
(* EXCLUSIVE one ("write_excl"), or with both ("excl_access").             *)

WriteExcl == {"WRITE_EXCLUSIVE", "WRITE_EXCLUSIVE_REGONLY", "WRITE_EXCLUSIVE_ALL_REG"}
scst_pr_is_cmd_allowed(s, op) ==
    \/ ~dev.pr_is_set
    \/ IF dev.pr_type \in HolderOnly
       THEN dev.registrant[s] # None /\ dev.registrant[s] = dev.pr_holder
       ELSE dev.registrant[s] # None
    \/ op = "excl_access"
    \/ op = "write_excl" /\ dev.pr_type \in WriteExcl

Entitled(n) ==
    n \in Registered(dev) /\ (dev.pr_type \in HolderOnly => dev.pr_holder = n)

-----------------------------------------------------------------------------
(* Type of the state.                                                      *)
TypeOK ==
    /\ dev \in Table
    /\ st \in [Sess -> {"none", "inited", "listed", "unlisted"}]
    /\ pr \in [sess : Sess \cup {None},
              pc : {"idle", "checked", "reserve", "rm_main", "rm_bak", "copy", "data", "sign"}]
    /\ pr.pc = "idle" <=> pr.sess = None
    /\ reserved_by \in Sess \cup {None}
    /\ ua \subseteq Sess \X {"released", "preempted", "cleared"}
    /\ up \in {"up", "down", "failed"}

(* The two pointers of a link agree: reg->tgt_dev is a tgt_dev of the      *)
(* registrant's nexus that has not been freed, and points back to it.  A   *)
(* stale tgt_dev->registrant would be used after scst_pr_remove_registrant *)
(* has freed it, a stale reg->tgt_dev after scst_free_tgt_dev.             *)
LinksSound ==
    /\ \A n \in Nexus : dev.tgt_dev[n] # None =>
          /\ n \in Registered(dev)
          /\ dev.registrant[dev.tgt_dev[n]] = n
    /\ \A s \in Sess : dev.registrant[s] # None =>
          /\ dev.tgt_dev[dev.registrant[s]] = s
          /\ NexusOf[s] = dev.registrant[s]
          /\ st[s] # "none"

(* A reservation has somebody to hold it: there are registrants, and       *)
(* unless all of them hold it pr_holder is one of them                     *)
(* (scst_pr_do_preempt reads dev->pr_holder->key).  Without a reservation  *)
(* there is no holder.                                                     *)
HolderSound ==
    /\ dev.pr_is_set <=> dev.pr_type # None
    /\ dev.pr_is_set => Registered(dev) # {}
    /\ dev.pr_is_set /\ dev.pr_type \notin AllReg => dev.pr_holder # None
    /\ dev.pr_holder # None => dev.pr_is_set /\ dev.pr_holder \in Registered(dev)

(* Who gets past a reservation, as scst_pr_is_cmd_allowed decides it from  *)
(* tgt_dev->registrant: a session writes only if its nexus is entitled to, *)
(* and an entitled nexus with a session on the device is not locked out.   *)
AccessRight ==
    dev.pr_is_set =>
        /\ \A s \in Listed : scst_pr_is_cmd_allowed(s, "none") => Entitled(NexusOf[s])
        /\ \A s \in Listed : Entitled(NexusOf[s]) =>
              \E t \in Sess : /\ NexusOf[t] = NexusOf[s] /\ st[t] # "none"
                             /\ scst_pr_is_cmd_allowed(t, "none")

(* Persistent reservations are not mixed with what excludes them: an SPC-2 *)
(* reservation, and a session whose transport has no TransportIDs.         *)
NoMixing ==
    Registered(dev) # {} => reserved_by = None /\ ~NoPrTransport

(* A REGISTER that fails half way for lack of memory leaves the table, the *)
(* links and the reservation as they were.                                 *)
Meaning(d) == [d EXCEPT !.pr_holder = IF d.pr_type \in AllReg THEN None ELSE @]
FailureUndone ==
    [][pr.pc = "checked" /\ pr'.pc = "idle" /\ up' = "up" => Meaning(dev') = Meaning(dev)]_vars

(* Nobody loses a registration to another initiator port, or a reservation *)
(* that let them write, without a unit attention for the session they      *)
(* have.                                                                   *)
Told(s) == \E what \in {"released", "preempted"} : <<s, what>> \in ua'
PeersTold ==
    [][pr.pc = "checked" /\ up' = "up" =>
        \A n \in Registered(dev) : (n[1] # Me[1] /\ dev.tgt_dev[n] # None) =>
            /\ n \notin Registered(dev)' => Told(dev.tgt_dev[n])
            /\ dev.pr_type \in RegOnly \cup AllReg /\ dev'.pr_type # dev.pr_type
                  => Told(dev.tgt_dev[n])]_vars

(* The power may fail at any step of saving the file: the device comes up  *)
(* again, with the table as of the last command that had ended or as of    *)
(* the one whose file was being saved.                                     *)
Recovered ==
    [][up = "down" /\ durable # {} => up' = "up" /\ Image(dev') \in durable]_vars
=============================================================================
