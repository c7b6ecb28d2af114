----------------------------- MODULE SshRemote -----------------------------
(***************************************************************************)
(* Where a device command runs (drivers/sshsession.go runPooled,           *)
(* takeRemote, markRemoteDown; drivers/sshsession_http.go): in the session *)
(* daemon, over HTTP, or in this process's own pool when the daemon cannot *)
(* be reached.  A command the daemon has got must not be run again here.   *)
(* The HTTP client keeps its connections; the flag by which Run knows that *)
(* the request may have been written is set where a connection is dialed.  *)
(***************************************************************************)
EXTENDS Integers, FiniteSets

CONSTANTS
    Request,        \* calls of runPooled
    MaxOutages,     \* bound: stops of the daemon
    MaxSlow         \* bound: requests that outlast the client's timeout

VARIABLES
    down,       \* sessionRemote.down
    due,        \* remoteRetry has passed since lastProbe
    pool,       \* how many times replaceMemoryPoolLocked has run: the current pool
    daemon,     \* "up"; "left" (stopped, its socket file there); "gone"
    idle,       \* idle connections of the HTTP client to the running daemon
    pos,        \* pos[r]: where the call is
    dialed,     \* dialed[r]: rtFlag.dialed
    mine,       \* mine[r]: the pool getPool returned
    ran,        \* ran[r]: where the command reached a device: "daemon", "here"
    outages, slow

remotevars == <<down, due, pool, daemon, idle, pos, dialed, mine, ran, outages, slow>>
remote == <<down, due, pool>>
world == <<daemon, outages, slow>>

\* setupRemoteLocked: down is what the socket says at start.
RemoteInit ==
    /\ daemon \in {"up", "gone"} /\ down = (daemon = "gone") /\ due = FALSE /\ pool = 0 /\ idle = 0
    /\ pos = [r \in Request |-> "start"] /\ dialed = [r \in Request |-> FALSE]
    /\ mine = [r \in Request |-> 0] /\ ran = [r \in Request |-> {}]
    /\ outages = 0 /\ slow = 0

To(r, p) == pos' = [pos EXCEPT ![r] = p]

\* takeRemote: the daemon, or this process, or a probe first.
TakeRemote(r) ==
    /\ pos[r] = "start"
    /\ To(r, IF ~down THEN "stat" ELSE IF due THEN "probe" ELSE "here")
    /\ due' = (due /\ ~down)
    /\ UNCHANGED <<down, pool, idle, dialed, mine, ran, world>>

\* probeHealth: any response will do, and its connection is kept; the first to
\* see it switches back, and closes the pool of this process.
Probe(r) ==
    /\ pos[r] = "probe"
    /\ IF daemon = "up"
       THEN To(r, "stat") /\ down' = FALSE /\ pool' = pool + (IF down THEN 1 ELSE 0)
            /\ idle' = IF idle = 0 THEN 1 ELSE idle
       ELSE To(r, "here") /\ UNCHANGED <<down, pool, idle>>
    /\ UNCHANGED <<due, dialed, mine, ran, world>>

\* The client's Run: the socket file is looked for ...
Stat(r) ==
    /\ pos[r] = "stat" /\ To(r, IF daemon = "gone" THEN "fallback" ELSE "connect")
    /\ UNCHANGED <<remote, idle, dialed, mine, ran, world>>

\* ... and a connection is dialed, or one from an earlier request is used.
Connect(r) ==
    /\ pos[r] = "connect"
    /\ \/ /\ idle > 0 /\ idle' = idle - 1 /\ To(r, "sent") /\ UNCHANGED dialed
       \/ /\ idle = 0 /\ UNCHANGED idle
          /\ IF daemon = "up" THEN To(r, "sent") /\ dialed' = [dialed EXCEPT ![r] = TRUE]
             ELSE To(r, "fallback") /\ UNCHANGED dialed
    /\ UNCHANGED <<remote, mine, ran, world>>

\* handleCLIRun in the daemon runs the command.
DaemonRuns(r) ==
    /\ pos[r] = "sent" /\ daemon = "up" /\ "daemon" \notin ran[r]
    /\ ran' = [ran EXCEPT ![r] = @ \cup {"daemon"}]
    /\ UNCHANGED <<remote, idle, pos, dialed, mine, world>>

\* Its answer arrives, whatever the status; the connection is kept.
Respond(r) ==
    /\ pos[r] = "sent" /\ "daemon" \in ran[r] /\ daemon = "up" /\ To(r, "done") /\ idle' = idle + 1
    /\ UNCHANGED <<remote, dialed, mine, ran, world>>

\* Mutant of ClassifyClientErr: every error counts as a failed connect.
ClassifyAny(r) == "fallback"

\* classifyClientErr: an error after the dial of this request is final.
ClassifyClientErr(r) == IF dialed[r] THEN "done" ELSE "fallback"

\* The client's timeout ends the wait.
Timeout(r) ==
    /\ pos[r] = "sent" /\ slow < MaxSlow /\ slow' = slow + 1 /\ To(r, ClassifyClientErr(r))
    /\ UNCHANGED <<remote, idle, dialed, mine, ran, daemon, outages>>

\* The daemon stops: the requests that wait on it fail.
DaemonStops ==
    /\ daemon = "up" /\ outages < MaxOutages /\ outages' = outages + 1
    /\ daemon' \in {"left", "gone"} /\ idle' = 0
    /\ pos' = [r \in Request |-> IF pos[r] = "sent" THEN ClassifyClientErr(r) ELSE pos[r]]
    /\ UNCHANGED <<remote, dialed, mine, ran, slow>>

DaemonStarts ==
    /\ daemon # "up" /\ daemon' = "up" /\ UNCHANGED <<remote, idle, pos, dialed, mine, ran, outages, slow>>

\* remoteRetry passes.
RetryDue ==
    /\ down /\ ~due /\ due' = TRUE /\ UNCHANGED <<down, pool, idle, pos, dialed, mine, ran, world>>

\* markRemoteDown, for a request that never reached the daemon.
Fallback(r) ==
    /\ pos[r] = "fallback" /\ To(r, "here") /\ down' = TRUE
    /\ due' = (due /\ down)
    /\ UNCHANGED <<pool, idle, dialed, mine, ran, world>>

GetPool(r) ==
    /\ pos[r] = "here" /\ To(r, "run") /\ mine' = [mine EXCEPT ![r] = pool]
    /\ UNCHANGED <<remote, idle, dialed, ran, world>>

\* The pool of this process runs it; one that was closed meanwhile refuses.
RunHere(r) ==
    /\ pos[r] = "run" /\ To(r, "done")
    /\ ran' = IF mine[r] = pool THEN [ran EXCEPT ![r] = @ \cup {"here"}] ELSE ran
    /\ UNCHANGED <<remote, idle, dialed, mine, world>>

RemoteNext ==
    \/ \E r \in Request :
         \/ TakeRemote(r) \/ Probe(r) \/ Stat(r) \/ Connect(r) \/ DaemonRuns(r) \/ Respond(r)
         \/ Timeout(r) \/ Fallback(r) \/ GetPool(r) \/ RunHere(r)
    \/ DaemonStops \/ DaemonStarts \/ RetryDue

RemoteSpec == RemoteInit /\ [][RemoteNext]_remotevars

-----------------------------------------------------------------------------
\* A command the daemon ran is not run again by this process: "Do not fallback
\* on client timeout after the request was sent" (docs/ssh-session-service.md).
NeverRunTwice == \A r \in Request : Cardinality(ran[r]) <= 1

\* What the flag does guarantee: a request that dialed its own connection is
\* run in one place, through timeouts, outages and the switch back.
DialedRunsOnce == \A r \in Request : dialed[r] => Cardinality(ran[r]) <= 1

=============================================================================
