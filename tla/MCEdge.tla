------------------------------- MODULE MCEdge -------------------------------
(***************************************************************************)
(* Parts that follow a source across failures, each on its own: the mirror *)
(* of NetBox's devices, the listeners of the RADIUS and LDAP servers, the  *)
(* RADIUS login log and logins, and the order of a job's targets.          *)
(***************************************************************************)

EXTENDS NetboxSync, Listeners, Radius, TargetOrder, TLC

-----------------------------------------------------------------------------
(* RADIUS requests. *)

\* Requests that take the same identifier.
SharedKey == [r \in Req |-> "id"]
Symmetry == Permutations(Req)

-----------------------------------------------------------------------------
(* Instances of TargetOrder for TLC. *)

\* Every selection of targets, submitted in the order opposite to SyncTargets.
Selections ==
    {SelectSeq(<<"housekeeping">> \o Reverse(SyncTargets) \o <<"netbox-delta">>,
               LAMBDA t : t \in S) : S \in SUBSET JobTargets}
\* Short lists with duplicates, "all", an unknown name and an empty part.
Parts == {"netbox", "netbox-delta", "lime", "dns", "housekeeping", "all", "bogus", ""}
Lists == UNION {[1 .. k -> Parts] : k \in 0 .. 3}

MCInputs == Selections \cup Lists
MCEnabledSets == {{}, {"dns", "netbox", "certs", "device-sync"}, ToSet(SyncTargets)}

-----------------------------------------------------------------------------
VARIABLE
    sys     \* the component that runs in this behaviour; the variables of the others stay put

PackInit ==
    /\ sys \in {"mirror", "listen", "log", "login", "order"}
    /\ NbInit
    /\ sys # "mirror" => cursor = -1
    /\ ListenInit
    /\ sys # "listen" => server = "radius"
    /\ LogInit
    /\ LoginInit
    /\ OrderInit
    /\ sys # "order" => raw = <<>> /\ enabled = {}

PackNext ==
    \/ sys = "mirror" /\ NbNext /\ UNCHANGED <<sys, listenvars, logvars, loginvars, ordervars>>
    \/ sys = "listen" /\ ListenNext /\ UNCHANGED <<sys, nbsyncvars, logvars, loginvars, ordervars>>
    \/ sys = "log" /\ LogNext /\ UNCHANGED <<sys, nbsyncvars, listenvars, loginvars, ordervars>>
    \/ sys = "login" /\ LoginNext /\ UNCHANGED <<sys, nbsyncvars, listenvars, logvars, ordervars>>
    \/ sys = "order" /\ OrderNext /\ UNCHANGED <<sys, nbsyncvars, listenvars, logvars, loginvars>>

PackVars == <<sys, nbsyncvars, listenvars, logvars, loginvars, ordervars>>

PackSpec ==
    /\ PackInit /\ [][PackNext]_PackVars
    /\ WF_nbsyncvars(sys = "mirror" /\ StartNb("job", "wait"))
    /\ \A p \in Syncer : /\ WF_nbsyncvars(sys = "mirror" /\ SyncStep(p))
                         /\ SF_nbsyncvars(sys = "mirror" /\ Lock(p))
    /\ WF_nbsyncvars(sys = "mirror" /\ TimerFires) /\ WF_nbsyncvars(sys = "mirror" /\ onQuiet)
    /\ WF_listenvars(sys = "listen" /\ Refresh)
    /\ \A l \in Loop : WF_listenvars(sys = "listen" /\ Listen(l))
    /\ WF_logvars(sys = "log" /\ Drain) /\ WF_logvars(sys = "log" /\ RemoveSpool)
    /\ WF_logvars(sys = "log" /\ Flush) /\ WF_logvars(sys = "log" /\ Report)
    /\ WF_logvars(sys = "log" /\ Trim) /\ WF_logvars(sys = "log" /\ Exit)
    /\ WF_logvars(sys = "log" /\ StartLog)

-----------------------------------------------------------------------------
\* Once NetBox stays as it is, Factum's devices become NetBox's; the listeners come to serve what is
\* configured, and an event of the login log is shipped, oldest first.
EdgeFollows ==
    /\ sys = "mirror" => Converges
    /\ sys = "listen" => Serves
    /\ sys = "log" => ShippedByRestart
    /\ OldestGoFirst
=============================================================================
