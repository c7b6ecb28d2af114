------------------------------ MODULE SshPool ------------------------------
(***************************************************************************)
(* The in-process pool of device shells (drivers/sshsession.go).  Run      *)
(* takes the session of its key, or creates it, or waits in its queue;     *)
(* dials a shell when the session has no live one; sends its commands one  *)
(* after the other; and gives the session to the next waiter.  A shell     *)
(* that was already open may have died unnoticed, so such a run is         *)
(* replayed once, on a new shell, when nothing came back.  A keepalive     *)
(* loop per shell, the idle and LRU eviction, the Evict call of the API    *)
(* and Close act on the same sessions.                                     *)
(***************************************************************************)
EXTENDS Integers, Sequences, FiniteSets

CONSTANTS
    SshCaller,         \* calls of Run
    KeyOf,          \* KeyOf[c]: sessionKey of the call
    PwOf,           \* PwOf[c]: its password
    None,
    Cmds,           \* commands per call
    MaxSessions, QueueDepth,
    MaxPoolFaults,      \* bound: lost connections and silent devices
    MaxEvicts       \* bound: calls of Evict and Close

ASSUME SshPoolAssumption ==
    /\ DOMAIN KeyOf = SshCaller /\ DOMAIN PwOf = SshCaller
    /\ {Cmds, MaxSessions} \subseteq Nat \ {0}
    /\ {QueueDepth, MaxPoolFaults, MaxEvicts} \subseteq Nat

Key == {KeyOf[c] : c \in SshCaller}

VARIABLES
    table,      \* p.sessions: the session of a key, 0 for none
    closed,     \* p.closed
    sess,       \* every pooledSession ever created
    shell,      \* shell[x]: "live", "gone" (the peer is lost), "closed"; x-th dial
    loop,       \* loop[x]: the keepalive goroutine startKeepalive made for dial x
    at,         \* at[c]: where the call is
    on,         \* on[c]: [s, x]: the session it holds and the shell runJob read
    try,        \* try[c]: wasIdle, replayed; i: commands answered; got: output
                \* captured; n: times its first command reached a device
    cut,        \* sessions Evict or Close took out of the table
    poolFaults, evicts

poolvars == <<table, closed, sess, shell, loop, at, on, try, cut, poolFaults, evicts>>
conns == <<shell, loop>>
calls == <<on, try>>
admin == <<cut, poolFaults, evicts>>

Nowhere == [s |-> 0, x |-> 0]
FreshTry == [wasIdle |-> FALSE, replayed |-> FALSE, i |-> 0, got |-> FALSE, n |-> 0]
NewSession(k) ==
    [key |-> k, busy |-> TRUE, waiters |-> <<>>, state |-> "busy", shell |-> 0, pw |-> None, ka |-> 0]

PoolInit ==
    /\ table = [k \in Key |-> 0] /\ closed = FALSE /\ sess = <<>>
    /\ shell = <<>> /\ loop = <<>>
    /\ at = [c \in SshCaller |-> "start"]
    /\ on = [c \in SshCaller |-> Nowhere] /\ try = [c \in SshCaller |-> FreshTry]
    /\ cut = {} /\ poolFaults = 0 /\ evicts = 0

Goto(c, step) == at' = [at EXCEPT ![c] = step]
Mine(c) == sess[on[c].s]
IsDead(r) == r.shell = 0 \/ shell[r.shell] # "live" \/ r.state = "dead"
Unheld(r) == ~r.busy /\ r.waiters = <<>>

\* closeLocked: what it leaves of the session, and of its shell.
Closed(r) == [r EXCEPT !.ka = 0, !.shell = 0, !.pw = None, !.state = "dead"]
Shut(S) == [x \in DOMAIN shell |-> IF x \in S THEN "closed" ELSE shell[x]]
MarkDead(s) == sess' = [sess EXCEPT ![s] = Closed(@)] /\ shell' = Shut({sess[s].shell})

-----------------------------------------------------------------------------
(* holdSession *)

\* No session for the key: one is created, busy, in place of one that is idle
\* or dead when the table is full (the least recently used, here any of them).
HoldNew(c) ==
    /\ at[c] = "start" /\ ~closed /\ table[KeyOf[c]] = 0
    /\ LET full == Cardinality({k \in Key : table[k] # 0}) >= MaxSessions
           idle == {k \in Key : table[k] # 0 /\ Unheld(sess[table[k]])
                                  /\ sess[table[k]].state \in {"idle", "dead"}}
           n == Len(sess) + 1
           Take(V) == table' = [k \in Key |-> IF k = KeyOf[c] THEN n
                                              ELSE IF k \in V THEN 0 ELSE table[k]]
       IN  \/ /\ full /\ idle = {} /\ Goto(c, "done")      \* errPoolFull
              /\ UNCHANGED <<table, sess, shell, on>>
           \/ /\ full
              /\ \E k \in idle :
                   /\ Take({k}) /\ shell' = Shut({sess[table[k]].shell})
                   /\ sess' = Append([sess EXCEPT ![table[k]] = Closed(@)], NewSession(KeyOf[c]))
              /\ on' = [on EXCEPT ![c].s = n] /\ Goto(c, "enter")
           \/ /\ ~full /\ Take({}) /\ sess' = Append(sess, NewSession(KeyOf[c]))
              /\ on' = [on EXCEPT ![c].s = n] /\ Goto(c, "enter") /\ UNCHANGED shell
    /\ UNCHANGED <<closed, loop, try, admin>>

\* The key has a session: it is taken, or queued for, or its queue is full.
HoldOld(c) ==
    /\ at[c] = "start" /\ ~closed /\ table[KeyOf[c]] # 0
    /\ LET s == table[KeyOf[c]]
       IN  IF Unheld(sess[s])
           THEN /\ sess' = [sess EXCEPT ![s].busy = TRUE, ![s].state = "busy"]
                /\ Goto(c, "enter") /\ on' = [on EXCEPT ![c].s = s]
           ELSE IF Len(sess[s].waiters) >= QueueDepth
           THEN Goto(c, "done") /\ UNCHANGED <<sess, on>>      \* errQueueFull
           ELSE /\ sess' = [sess EXCEPT ![s].waiters = Append(@, c)]
                /\ Goto(c, "wait") /\ on' = [on EXCEPT ![c].s = s]
    /\ UNCHANGED <<table, closed, conns, try, admin>>

HoldClosed(c) ==
    /\ at[c] = "start" /\ closed /\ Goto(c, "done")
    /\ UNCHANGED <<table, closed, sess, conns, calls, admin>>

\* The acquire timeout or the caller's context ends the wait; a waiter that is
\* no longer in the queue (removeWaiter) has been woken and takes the session.
WaitEnds(c) ==
    /\ at[c] = "wait"
    /\ \E j \in DOMAIN Mine(c).waiters :
         /\ Mine(c).waiters[j] = c
         /\ sess' = [sess EXCEPT ![on[c].s].waiters = SubSeq(@, 1, j - 1) \o SubSeq(@, j + 1, Len(@))]
    /\ Goto(c, "done")
    /\ UNCHANGED <<table, closed, conns, calls, admin>>

-----------------------------------------------------------------------------
(* Run *)

\* Run reads the session once it has it ...
Enter(c) ==
    /\ at[c] = "enter"
    /\ try' = [try EXCEPT ![c].wasIdle = Mine(c).shell # 0 /\ Mine(c).state # "dead"]
    /\ Goto(c, IF Mine(c).pw \notin {None, PwOf[c]} THEN "newpw" ELSE "check")
    /\ UNCHANGED <<table, closed, sess, conns, on, admin>>

\* ... and drops a shell that was opened with another password.
NewPassword(c) ==
    /\ at[c] = "newpw" /\ MarkDead(on[c].s) /\ Goto(c, "check")
    /\ try' = [try EXCEPT ![c].wasIdle = FALSE]
    /\ UNCHANGED <<table, closed, loop, on, admin>>

Replay(c) == try' = [try EXCEPT ![c].wasIdle = FALSE, ![c].replayed = TRUE]

\* The head of Run's loop: a shell that died while idle is given up.
Check(c) ==
    /\ at[c] = "check" /\ Goto(c, "ensure")
    /\ IF try[c].wasIdle /\ IsDead(Mine(c)) /\ ~try[c].replayed
       THEN MarkDead(on[c].s) /\ Replay(c)
       ELSE UNCHANGED <<sess, shell, try>>
    /\ UNCHANGED <<table, closed, loop, on, admin>>

\* ensureDialed: nothing to do, or the old shell is closed and a dial begins.
EnsureDialed(c) ==
    /\ at[c] = "ensure"
    /\ IF ~IsDead(Mine(c))
       THEN Goto(c, "job") /\ UNCHANGED <<sess, shell>>
       ELSE /\ sess' = [sess EXCEPT ![on[c].s] =
                          [(IF @.shell # 0 THEN Closed(@) ELSE [@ EXCEPT !.state = "dialing"])
                             EXCEPT !.pw = PwOf[c]]]
            /\ shell' = Shut({Mine(c).shell}) /\ Goto(c, "dial")
    /\ UNCHANGED <<table, closed, loop, calls, admin>>

\* The dial, the banner and runSetup fail ...
PoolDialFails(c) ==
    /\ at[c] = "dial" /\ poolFaults < MaxPoolFaults /\ poolFaults' = poolFaults + 1
    /\ MarkDead(on[c].s) /\ Goto(c, "release")
    /\ UNCHANGED <<table, closed, loop, calls, cut, evicts>>

\* ... or the session gets its shell, whatever became of the session meanwhile.
PoolDialOk(c) ==
    /\ at[c] = "dial" /\ Goto(c, "dialed")
    /\ on' = [on EXCEPT ![c].x = Len(shell) + 1]
    /\ shell' = Append(shell, "live")
    /\ loop' = Append(loop, [s |-> on[c].s, at |-> "off", saw |-> 0])
    /\ sess' = [sess EXCEPT ![on[c].s].shell = Len(shell) + 1, ![on[c].s].state = "busy"]
    /\ UNCHANGED <<table, closed, try, admin>>

\* startKeepalive, in a lock of its own.
StartKeepalive(c) ==
    /\ at[c] = "dialed" /\ Goto(c, "job")
    /\ sess' = [sess EXCEPT ![on[c].s].ka = on[c].x]
    /\ loop' = [loop EXCEPT ![on[c].x].at = "ticking"]
    /\ UNCHANGED <<table, closed, shell, calls, admin>>

AllowStale(c) == try[c].wasIdle /\ ~try[c].replayed

\* Mutant of StaleReplay: what the device has answered is not looked at.
StaleReplayAny(c, err) ==
    /\ try[c].wasIdle /\ ~try[c].replayed
    /\ err \in {"stalewrite", "eof", "timeout"}

\* shouldStaleReplay.
StaleReplay(c, err) ==
    /\ try[c].wasIdle /\ ~try[c].replayed
    /\ \/ err = "stalewrite"
       \/ err \in {"eof", "timeout"} /\ ~try[c].got

\* runJob closes the session's shell on every error but errSSHPoolNotReady;
\* Run replays the request or returns the error.
JobFails(c, err) ==
    /\ IF err = "notready" THEN UNCHANGED <<sess, shell>> ELSE MarkDead(on[c].s)
    /\ IF StaleReplay(c, err) THEN Replay(c) /\ Goto(c, "check")
       ELSE UNCHANGED try /\ Goto(c, "release")

\* runJob takes the session's shell, as it is now.
Job(c) ==
    /\ at[c] = "job"
    /\ LET x == Mine(c).shell
       IN  IF x = 0 THEN JobFails(c, "notready") /\ UNCHANGED on
           ELSE IF AllowStale(c) /\ shell[x] # "live" THEN JobFails(c, "eof") /\ UNCHANGED on
           ELSE /\ on' = [on EXCEPT ![c].x = x] /\ try' = [try EXCEPT ![c].i = 0]
                /\ Goto(c, "send") /\ UNCHANGED <<sess, shell>>
    /\ UNCHANGED <<table, closed, loop, admin>>

\* A command is written.  A write to a lost connection may fail or be buffered.
Send(c) ==
    /\ at[c] = "send"
    /\ LET st == shell[on[c].x]
       IN  \/ /\ st # "closed" /\ Goto(c, "await") /\ UNCHANGED <<sess, shell>>
              /\ try' = [try EXCEPT ![c].n = @ + (IF st = "live" /\ try[c].i = 0 THEN 1 ELSE 0)]
           \/ /\ st # "live"
              /\ JobFails(c, IF AllowStale(c) /\ try[c].i = 0 THEN "stalewrite" ELSE "io")
    /\ UNCHANGED <<table, closed, loop, on, admin>>

\* Its answer arrives, with output or without; the last one ends the job.
AnswerCmd(c) ==
    /\ at[c] = "await" /\ shell[on[c].x] = "live"
    /\ \E out \in BOOLEAN :
         try' = [try EXCEPT ![c].i = @ + 1, ![c].got = @ \/ out]
    /\ Goto(c, IF try[c].i + 1 = Cmds THEN "reset" ELSE "send")
    /\ UNCHANGED <<table, closed, sess, conns, on, admin>>

\* Part of an answer arrives.
Output(c) ==
    /\ at[c] = "await" /\ shell[on[c].x] = "live" /\ ~try[c].got
    /\ try' = [try EXCEPT ![c].got = TRUE]
    /\ UNCHANGED <<table, closed, sess, conns, at, on, admin>>

\* No answer: the connection has ended, the device stays silent past the job's
\* timeout, or it leaves its pager open.
NoAnswer(c) ==
    /\ at[c] \in {"await", "reset"}
    /\ \/ shell[on[c].x] # "live" /\ JobFails(c, "eof") /\ UNCHANGED poolFaults
       \/ /\ poolFaults < MaxPoolFaults /\ poolFaults' = poolFaults + 1
          /\ \E err \in {"timeout", "pager"} : JobFails(c, err)
    /\ UNCHANGED <<table, closed, loop, on, cut, evicts>>

\* needsReset and the last look at the connection.
JobDone(c) ==
    /\ at[c] = "reset" /\ shell[on[c].x] = "live" /\ Goto(c, "release")
    /\ UNCHANGED <<table, closed, sess, conns, calls, admin>>

\* Mutant of Release: busy is cleared before the next waiter is woken.
ReleaseFrees(c) ==
    /\ at[c] = "release"
    /\ LET r == Mine(c)
       IN  IF r.waiters # <<>>
           THEN /\ sess' = [sess EXCEPT ![on[c].s] = [r EXCEPT !.waiters = Tail(@), !.busy = FALSE]]
                /\ at' = [at EXCEPT ![c] = "done", ![Head(r.waiters)] = "enter"]
           ELSE /\ sess' = [sess EXCEPT ![on[c].s] =
                     [r EXCEPT !.busy = FALSE,
                               !.state = IF r.shell # 0 /\ @ # "dead" THEN "idle" ELSE @]]
                /\ Goto(c, "done")
    /\ on' = [on EXCEPT ![c] = Nowhere] /\ try' = [try EXCEPT ![c] = FreshTry]
    /\ UNCHANGED <<table, closed, conns, admin>>

\* release: the first waiter gets the session, or it becomes idle.
Release(c) ==
    /\ at[c] = "release"
    /\ LET r == Mine(c)
       IN  IF r.waiters # <<>>
           THEN /\ sess' = [sess EXCEPT ![on[c].s] =
                     [r EXCEPT !.waiters = Tail(@), !.busy = TRUE,
                               !.state = IF @ \in {"dead", "dialing"} THEN @ ELSE "busy"]]
                /\ at' = [at EXCEPT ![c] = "done", ![Head(r.waiters)] = "enter"]
           ELSE /\ sess' = [sess EXCEPT ![on[c].s] =
                     [r EXCEPT !.busy = FALSE,
                               !.state = IF r.shell # 0 /\ @ # "dead" THEN "idle" ELSE @]]
                /\ Goto(c, "done")
    /\ on' = [on EXCEPT ![c] = Nowhere] /\ try' = [try EXCEPT ![c] = FreshTry]
    /\ UNCHANGED <<table, closed, conns, admin>>

-----------------------------------------------------------------------------
(* keepaliveLoop; a stopped loop that still ticks once finds itself stopped. *)

KaOwner(x) == sess[loop[x].s]

\* A tick asks the peer when the session is idle ...
KaTick(x) ==
    /\ loop[x].at = "ticking" /\ KaOwner(x).ka = x
    /\ KaOwner(x).shell # 0 /\ KaOwner(x).state = "idle" /\ ~KaOwner(x).busy
    /\ loop' = [loop EXCEPT ![x].at = "sent", ![x].saw = KaOwner(x).shell]
    /\ UNCHANGED <<table, closed, sess, shell, at, calls, admin>>

\* ... and the answer counts while the loop and the shell are still the session's.
StillMine(x) == KaOwner(x).ka = x /\ KaOwner(x).shell = loop[x].saw

KaAnswer(x) ==
    /\ loop[x].at = "sent"
    /\ \E next \in {"ticking", "kill", "done"} :
         /\ next = "ticking" => StillMine(x) /\ shell[loop[x].saw] = "live"
         /\ next = "kill" => StillMine(x) /\ shell[loop[x].saw] # "live"
         /\ next = "done" => ~StillMine(x) \/ shell[loop[x].saw] = "live"  \* not implemented there
         /\ loop' = [loop EXCEPT ![x].at = next]
    /\ UNCHANGED <<table, closed, sess, shell, at, calls, admin>>

\* Then, without the lock in between, it closes whatever shell the session has.
KaKill(x) ==
    /\ loop[x].at = "kill" /\ MarkDead(loop[x].s)
    /\ loop' = [loop EXCEPT ![x].at = "done"]
    /\ UNCHANGED <<table, closed, at, calls, admin>>

-----------------------------------------------------------------------------
(* The environment and the pool's other callers *)

\* Mutant of IdleExpires: a session somebody holds is evicted too.
IdleExpiresHeld(k) ==
    /\ ~closed /\ table[k] # 0 /\ sess[table[k]].state \in {"idle", "busy"}
    /\ MarkDead(table[k]) /\ table' = [table EXCEPT ![k] = 0]
    /\ UNCHANGED <<closed, loop, at, calls, admin>>

\* evictIdle, for a session past the idle timeout.
IdleExpires(k) ==
    /\ ~closed /\ table[k] # 0 /\ Unheld(sess[table[k]]) /\ sess[table[k]].state = "idle"
    /\ MarkDead(table[k]) /\ table' = [table EXCEPT ![k] = 0]
    /\ UNCHANGED <<closed, loop, at, calls, admin>>

\* Evict: the waiters are all woken, and the session is nobody's.
Evict(k) ==
    /\ ~closed /\ table[k] # 0 /\ evicts < MaxEvicts /\ evicts' = evicts + 1
    /\ LET s == table[k]
           woken == {sess[s].waiters[j] : j \in DOMAIN sess[s].waiters}
       IN  /\ sess' = [sess EXCEPT ![s] = [Closed(@) EXCEPT !.waiters = <<>>, !.busy = FALSE]]
           /\ shell' = Shut({sess[s].shell})
           /\ at' = [c \in SshCaller |-> IF c \in woken THEN "enter" ELSE at[c]]
           /\ cut' = cut \cup {s}
    /\ table' = [table EXCEPT ![k] = 0]
    /\ UNCHANGED <<closed, loop, calls, poolFaults>>

\* Close, at shutdown and when the session daemon takes over (replaceMemoryPoolLocked).
Close ==
    /\ ~closed /\ closed' = TRUE /\ evicts < MaxEvicts /\ evicts' = evicts + 1
    /\ LET S == {table[k] : k \in Key} \ {0}
       IN  /\ sess' = [s \in DOMAIN sess |-> IF s \in S THEN Closed(sess[s]) ELSE sess[s]]
           /\ shell' = Shut({sess[s].shell : s \in S})
           /\ cut' = cut \cup S
    /\ table' = [k \in Key |-> 0]
    /\ UNCHANGED <<loop, at, calls, poolFaults>>

\* A device or the network drops a connection.
DropSession(x) ==
    /\ shell[x] = "live" /\ poolFaults < MaxPoolFaults /\ poolFaults' = poolFaults + 1
    /\ shell' = [shell EXCEPT ![x] = "gone"]
    /\ UNCHANGED <<table, closed, sess, loop, at, calls, cut, evicts>>

RunStep(c) ==
    \/ HoldNew(c) \/ HoldOld(c) \/ HoldClosed(c) \/ Enter(c) \/ NewPassword(c) \/ Check(c)
    \/ EnsureDialed(c) \/ PoolDialOk(c) \/ StartKeepalive(c) \/ Job(c) \/ Send(c) \/ AnswerCmd(c)
    \/ NoAnswer(c) \/ JobDone(c) \/ Release(c)

PoolNext ==
    \/ \E c \in SshCaller : RunStep(c) \/ WaitEnds(c) \/ PoolDialFails(c) \/ Output(c)
    \/ \E x \in DOMAIN loop : KaTick(x) \/ KaAnswer(x) \/ KaKill(x) \/ DropSession(x)
    \/ \E k \in Key : IdleExpires(k) \/ Evict(k)
    \/ Close

\* Every step of a call takes bounded time: the dial, the write and waitIdle
\* have timeouts.  Nothing is asked of the keepalive, the evictions and the devices.
PoolSpec == PoolInit /\ [][PoolNext]_poolvars /\ \A c \in SshCaller : WF_poolvars(RunStep(c))

-----------------------------------------------------------------------------
PoolTypeOK ==
    /\ \A k \in Key : table[k] \in 0 .. Len(sess)
    /\ \A s \in DOMAIN sess : sess[s].shell \in 0 .. Len(shell) /\ sess[s].ka \in 0 .. Len(loop)
    /\ DOMAIN loop = DOMAIN shell

Holders(s) == {c \in SshCaller : on[c].s = s /\ at[c] \notin {"start", "wait", "done"}}
Orphan(s) == s \in cut

\* A session has one caller at a time, and a device sees the commands of one
\* caller at a time (TestEvictSkipsAcquiredSession); Evict alone gives a
\* session's waiters to each other (cut).
SingleFlight ==
    \A s \in DOMAIN sess : ~Orphan(s) =>
        /\ \A c, d \in Holders(s) : c = d
        /\ Holders(s) # {} => sess[s].busy /\ table[sess[s].key] = s

\* Nobody waits for a session no one will release: behind every queue there is
\* a caller that holds the session, even after Close.
NoStrandedWaiter ==
    \A s \in DOMAIN sess : sess[s].waiters # <<>> => Holders(s) # {}

\* No shell is forgotten: an open one belongs to a session in the table, unless
\* Evict or Close hit the session while a caller was working on it.
NoLeakedShell ==
    \A x \in DOMAIN shell : shell[x] # "closed" =>
        LET s == loop[x].s
        IN  Orphan(s) \/ (table[sess[s].key] = s /\ sess[s].shell = x)

\* A request's first command reaches a device at most twice, and a second time
\* only if the session was in use before and nothing had come back
\* (shouldStaleReplay); a device that has answered is never sent it again.
ReplayedOnlyUnanswered ==
    \A c \in SshCaller :
        try'[c].n > try[c].n =>
            try[c].n = 0 \/ (try[c].n = 1 /\ try[c].replayed /\ ~try[c].got)
=============================================================================
