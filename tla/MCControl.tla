----------------------------- MODULE MCControl ------------------------------
(***************************************************************************)
(* The two loops of the primary that decide when something runs and where, *)
(* each on its own: the job scheduler and the supervised connections.      *)
(***************************************************************************)

EXTENDS JobScheduler, HubConn, TLC

-----------------------------------------------------------------------------
(* Instances of JobScheduler for TLC. *)

\* One cron that fires at every time, one that fires once and then has no
\* next run (29 February before a year 2100, for robfig/cron's horizon).
MCActivations == "often" :> (1 .. MaxTime + 1) @@ "once" :> {2}

-----------------------------------------------------------------------------
VARIABLE
    sys     \* the component that runs in this behaviour; the variables of the others stay put

PackInit ==
    /\ sys \in {"schedule", "connect"}
    /\ Init
    /\ ConnInit
    /\ sys # "connect" => row = [n \in Node |-> CHOOSE c \in Config : TRUE]

PackNext ==
    \/ sys = "schedule" /\ Next /\ UNCHANGED <<sys, connvars>>
    \/ sys = "connect" /\ ConnNext /\ UNCHANGED <<sys, vars>>

PackVars == <<sys, vars, connvars>>

PackSpec ==
    /\ PackInit /\ [][PackNext]_PackVars
    /\ WF_vars(sys = "schedule" /\ TickNow) /\ WF_vars(sys = "schedule" /\ Fire)
    /\ WF_connvars(sys = "connect" /\ Manager)
    /\ \A l \in Loop : /\ WF_connvars(sys = "connect" /\ DialLoop(l))
                       /\ WF_connvars(sys = "connect" /\ Watch(l))

-----------------------------------------------------------------------------
\* A due schedule is served, and the connections follow their settings and come back when lost.
ControlServes ==
    /\ sys = "schedule" => DueIsServed
    /\ sys = "connect" => ConnLive
=============================================================================
