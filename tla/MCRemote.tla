------------------------------ MODULE MCRemote ------------------------------
(***************************************************************************)
(* What Factum runs on other machines, each part on its own: commands on   *)
(* workers, SSH connections and sessions to devices, the session service,  *)
(* and a run of device-sync over its devices.                              *)
(***************************************************************************)

EXTENDS HubRun, SshPool, SshExec, SshRemote, DeviceRun, TLC

-----------------------------------------------------------------------------
\* Captures that share one SSH connection.

SX_Pws == [c \in Capture |-> IF c = "c" THEN "p2" ELSE "p1"]

-----------------------------------------------------------------------------
\* Callers, keys and passwords of the SSH session pool.

SP_TwoKeys == [c \in SshCaller |-> IF c = "c" THEN "k2" ELSE "k1"]
SP_TwoPws == [c \in SshCaller |-> IF c = "b" THEN "p2" ELSE "p1"]

-----------------------------------------------------------------------------
\* Four devices and a pool of workers for a device-sync run.

DR_Attrs == [x \in {"a","b","c","d"} |-> [ignored |-> x = "d", state |-> TRUE, platform |-> TRUE]]
DR_Service == [x \in {"a","b","c","d"} |-> [name |-> IF x = "b" THEN "n2" ELSE "n1", pwid |-> 5]]

-----------------------------------------------------------------------------
VARIABLE
    sys     \* the component that runs in this behaviour; the variables of the others stay put

\* More callers than the pool has room for, of two devices, without Evict and Close.
Crowd3 == {"a", "b", "c"}
Crowd == INSTANCE SshPool WITH
    SshCaller <- Crowd3, KeyOf <- [c \in Crowd3 |-> IF c = "c" THEN "k2" ELSE "k1"],
    PwOf <- [c \in Crowd3 |-> IF c = "b" THEN "p2" ELSE "p1"], MaxEvicts <- 0

PackInit ==
    /\ sys \in {"run", "exec", "pool", "crowd", "daemon", "devices"}
    /\ RunInit
    /\ Init
    /\ IF sys = "crowd" THEN Crowd!PoolInit ELSE PoolInit
    /\ RemoteInit
    /\ sys # "daemon" => daemon = "up"
    /\ DevRunInit

PackNext ==
    \/ sys = "run" /\ RunNext /\ UNCHANGED <<sys, vars, poolvars, remotevars, devrunvars>>
    \/ sys = "exec" /\ Next /\ UNCHANGED <<sys, runvars, poolvars, remotevars, devrunvars>>
    \/ sys = "pool" /\ PoolNext /\ UNCHANGED <<sys, runvars, vars, remotevars, devrunvars>>
    \/ sys = "crowd" /\ Crowd!PoolNext /\ UNCHANGED <<sys, runvars, vars, remotevars, devrunvars>>
    \/ sys = "daemon" /\ RemoteNext /\ UNCHANGED <<sys, runvars, vars, poolvars, devrunvars>>
    \/ sys = "devices" /\ DevRunNext /\ UNCHANGED <<sys, runvars, vars, poolvars, remotevars>>

PackVars == <<sys, runvars, vars, poolvars, remotevars, devrunvars>>

PackSpec ==
    /\ PackInit /\ [][PackNext]_PackVars
    /\ \A r \in Caller : /\ WF_runvars(sys = "run" /\ Step(r))
                         /\ \A n \in RunNode : WF_runvars(sys = "run" /\ Worker(r, n))
    /\ \A n \in RunNode : WF_runvars(sys = "run" /\ Reader(n))
    /\ \A c \in Capture : WF_vars(sys = "exec" /\ Acquire(c)) /\ WF_vars(sys = "exec" /\ Open(c))
    /\ \A c \in SshCaller : WF_poolvars(sys = "pool" /\ RunStep(c))
    /\ \A c \in Crowd3 : WF_poolvars(sys = "crowd" /\ Crowd!RunStep(c))
    /\ WF_devrunvars(sys = "devices" /\ DevRunNext)

-----------------------------------------------------------------------------
\* Sessions to devices: one caller at a time, nobody waits for a session that nobody will release,
\* no shell is forgotten, an answered command is not sent again, and every call and every capture
\* gets its answer.  A request that dialed the session service runs in one place.
SshServes ==
    /\ [](sys = "pool" => PoolTypeOK /\ SingleFlight /\ NoStrandedWaiter /\ NoLeakedShell)
    /\ [](sys = "crowd" => Crowd!SingleFlight /\ Crowd!NoStrandedWaiter /\ Crowd!NoLeakedShell)
    /\ [][sys = "pool" => ReplayedOnlyUnanswered]_PackVars
    /\ [](sys = "daemon" => DialedRunsOnce)
    /\ []<>(/\ sys = "exec" => \A c \in Capture : step[c] \in {"stream", "done"}
            /\ sys = "pool" => \A c \in SshCaller : at[c] = "done"
            /\ sys = "crowd" => \A c \in Crowd3 : at[c] = "done")

\* device-sync: both ends of a service get one L2VPN, and a run never locks itself up.
DeviceRunEnds == []OneL2VPN /\ []DevRunTypeOK /\ (sys = "devices" => RunEnds)
=============================================================================
