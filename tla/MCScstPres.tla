----------------------------- MODULE MCScstPres -----------------------------
(* Two loads for the model checking run of ScstPres.                       *)
(* "table": all commands, two target ports, of which the second is used by *)
(* one initiator port only, two sessions of one nexus, and one without     *)
(* TransportIDs.  APTPL is not used, so that there are no files.           *)
(* "files": APTPL and power failures, one target port, a session for each  *)
(* initiator port, one key for the second of them and two types.           *)
EXTENDS ScstPres, TLC

VARIABLE load

CONSTANTS i1, i2, s1, s2, s3, s4

MCNexusOf == (s1 :> <<i1, 1>>) @@ (s2 :> <<i2, 1>>) @@ (s3 :> <<i1, 1>>) @@ (s4 :> None)

MCInit == Init /\ load \in {"table", "files"}
MCNext ==
    /\ Next
    /\ load' = load
    /\ load = "table" => up' = "up" /\ ~dev'.pr_aptpl /\ <<i2, 2>> \notin Registered(dev')
    /\ load = "files" => /\ \A s \in {s3, s4} : st'[s] = "none"
                         /\ \A n \in Registered(dev') : n[2] = 1 /\ (n[1] = i2 => dev'.key[n] = 2)
                         /\ dev'.pr_type # "WRITE_EXCLUSIVE"
                         /\ reserved_by' = None
MCSpec == MCInit /\ [][MCNext]_<<vars, load>>
=============================================================================
