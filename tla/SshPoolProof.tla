---------------------------- MODULE SshPoolProof ----------------------------
(***************************************************************************)
(* What the pool of device shells keeps true, for every number of callers, *)
(* devices and faults, with evictions, keepalive loops and Close acting on *)
(* the same sessions.                                                      *)
(***************************************************************************)
EXTENDS SshPool, TLAPS

Working == {"enter", "newpw", "check", "ensure", "dial", "dialed", "job", "send", "await", "reset", "release"}
Places == Working \cup {"start", "wait", "done"}
ShellStates == {"live", "gone", "closed"}
SessionRec == [key : Key, busy : BOOLEAN, waiters : Seq(SshCaller),
               state : {"busy", "idle", "dead", "dialing"}, shell : Nat,
               pw : {PwOf[c] : c \in SshCaller} \cup {None}, ka : Nat]
LoopRec == [s : Nat, at : {"off", "ticking", "sent", "kill", "done"}, saw : Nat]
TryRec == [wasIdle : BOOLEAN, replayed : BOOLEAN, i : Nat, got : BOOLEAN, n : Nat]

PoolTypes ==
    /\ table \in [Key -> Nat] /\ cut \subseteq DOMAIN sess
    /\ sess \in Seq(SessionRec) /\ shell \in Seq(ShellStates) /\ loop \in Seq(LoopRec)
    /\ at \in [SshCaller -> Places] /\ on \in [SshCaller -> [s : Nat, x : Nat]]
    /\ try \in [SshCaller -> TryRec]

\* Numbers name sessions and dials that exist.
RangesOK ==
    /\ \A k \in Key : table[k] <= Len(sess)
    /\ \A s \in DOMAIN sess : sess[s].shell <= Len(shell) /\ sess[s].ka <= Len(loop)
    /\ Len(loop) = Len(shell) /\ \A x \in DOMAIN loop : loop[x].s \in DOMAIN sess
    /\ \A c \in SshCaller : at[c] \in Working \cup {"wait"} => on[c].s \in DOMAIN sess
    /\ \A c \in SshCaller : at[c] \in {"dialed", "send", "await", "reset"} => on[c].x \in DOMAIN shell

Holds(c, s) == at[c] \in Working /\ on[c].s = s

\* The table names sessions by their key.
TableOK == \A k \in Key : table[k] # 0 => sess[table[k]].key = k /\ table[k] \notin cut

\* The callers in a queue wait for that session, each once.
QueueOK == \A s \in DOMAIN sess : \A i \in DOMAIN sess[s].waiters :
    /\ at[sess[s].waiters[i]] = "wait" /\ on[sess[s].waiters[i]].s = s
    /\ \A j \in DOMAIN sess[s].waiters : sess[s].waiters[i] = sess[s].waiters[j] => i = j

\* A session has one holder, and is marked busy exactly while it has one.
OneHolder == \A s \in DOMAIN sess : s \notin cut =>
    /\ \A c, d \in SshCaller : Holds(c, s) /\ Holds(d, s) => c = d
    /\ sess[s].busy <=> \E c \in SshCaller : Holds(c, s)
    /\ sess[s].busy => table[sess[s].key] = s

QueueHeld == \A s \in DOMAIN sess : sess[s].waiters # <<>> => \E c \in SshCaller : Holds(c, s)

\* While a caller dials, its session has no shell.
DialClear == \A c \in SshCaller : at[c] = "dial" /\ on[c].s \notin cut => sess[on[c].s].shell = 0

FlightInv == RangesOK /\ TableOK /\ QueueOK /\ OneHolder /\ QueueHeld /\ DialClear /\ NoLeakedShell

\* The steps of a caller that has its session, and of its keepalive, leave the
\* table, the queues and the holders alone; they may close a session's shell.
SessionsQuiet ==
    /\ Len(sess') = Len(sess) /\ Len(shell') = Len(shell)
    /\ \A s \in DOMAIN sess :
         /\ sess'[s].key = sess[s].key /\ (sess'[s].busy <=> sess[s].busy)
         /\ sess'[s].waiters = sess[s].waiters /\ sess'[s].ka <= Len(loop)
         /\ \/ sess'[s].shell = sess[s].shell
            \/ sess'[s].shell = 0 /\ (sess[s].shell # 0 => shell'[sess[s].shell] = "closed")
    /\ \A x \in DOMAIN shell : shell[x] = "closed" => shell'[x] = "closed"

LoopsQuiet ==
    Len(loop') = Len(loop) /\ \A x \in DOMAIN loop : loop'[x].s = loop[x].s

CallersQuiet ==
    \A c \in SshCaller :
        /\ on'[c].s = on[c].s
        /\ at'[c] = at[c] \/ (at[c] \in Working /\ at'[c] \in Working)
        /\ at'[c] = "dial" => at[c] = "dial" \/ sess'[on[c].s].shell = 0
        /\ at'[c] \in {"dialed", "send", "await", "reset"} => on'[c].x \in DOMAIN shell

Quiet == UNCHANGED <<table, cut>> /\ SessionsQuiet /\ LoopsQuiet /\ CallersQuiet

LEMMA RecFacts ==
  ASSUME NEW q \in Seq(SessionRec)
  PROVE  \A s \in DOMAIN q :
            /\ q[s] \in SessionRec /\ q[s].key \in Key /\ q[s].shell \in Nat /\ q[s].ka \in Nat
            /\ q[s].waiters \in Seq(SshCaller)
            /\ \A i \in DOMAIN q[s].waiters : q[s].waiters[i] \in SshCaller
<1>1. \A s \in DOMAIN q : q[s] \in SessionRec
  OBVIOUS
<1>2. \A s \in DOMAIN q : q[s].waiters \in Seq(SshCaller)
  BY ZenonT(30), <1>1 DEF SessionRec
<1>3. \A w \in Seq(SshCaller) : \A i \in DOMAIN w : w[i] \in SshCaller
  OBVIOUS
<1> QED
  BY ZenonT(30), <1>1, <1>2, <1>3 DEF SessionRec

\* After the step, q is in order as the queue of session t.
QueueAfter(q, t) ==
    \A i \in DOMAIN q : /\ at'[q[i]] = "wait" /\ on'[q[i]].s = t
                        /\ \A j \in DOMAIN q : q[i] = q[j] => i = j

LEMMA QueuesAfter ==
  ASSUME \A t \in DOMAIN sess' : QueueAfter(sess'[t].waiters, t) PROVE QueueOK'
  BY Zenon DEF QueueOK, QueueAfter

LEMMA QueueCases ==
  ASSUME NEW s \in DOMAIN sess, NEW v, DOMAIN sess' = DOMAIN sess, sess'[s].waiters = v,
         \A t \in DOMAIN sess : t # s => QueueAfter(sess'[t].waiters, t), QueueAfter(v, s)
  PROVE  QueueOK'
  BY Zenon, QueuesAfter

\* A queue stays in order when a caller that is not in it joins it.
LEMMA QueueJoined ==
  ASSUME NEW c, NEW s, NEW m, NEW w, NEW W, DOMAIN W = DOMAIN w \cup {m}, W[m] = c,
         m \notin DOMAIN w, \A i \in DOMAIN w : W[i] = w[i],
         \A i \in DOMAIN w : /\ at'[w[i]] = "wait" /\ on'[w[i]].s = s /\ w[i] # c
                             /\ \A j \in DOMAIN w : w[i] = w[j] => i = j,
         at'[c] = "wait", on'[c].s = s
  PROVE  \A i \in DOMAIN W : /\ at'[W[i]] = "wait" /\ on'[W[i]].s = s
                             /\ \A j \in DOMAIN W : W[i] = W[j] => i = j
<1> SUFFICES ASSUME NEW i \in DOMAIN W
             PROVE  /\ at'[W[i]] = "wait" /\ on'[W[i]].s = s
                    /\ \A j \in DOMAIN W : W[i] = W[j] => i = j
  BY Zenon
<1>1. CASE i = m
  BY ZenonT(30), <1>1
<1>2. CASE i \in DOMAIN w
  BY ZenonT(30), <1>2
<1> QED
  BY Zenon, <1>1, <1>2

LEMMA InSessions ==
  ASSUME NEW q \in Seq(SessionRec), NEW n \in Nat, n # 0, n <= Len(q) PROVE n \in DOMAIN q
OBVIOUS

LEMMA QuietKeeps ==
  ASSUME PoolTypes, PoolTypes', FlightInv, Quiet PROVE FlightInv'
<1>1. /\ table \in [Key -> Nat] /\ cut \subseteq DOMAIN sess /\ sess \in Seq(SessionRec)
      /\ shell \in Seq(ShellStates) /\ loop \in Seq(LoopRec) /\ at \in [SshCaller -> Places]
  BY ZenonT(30) DEF PoolTypes
<1>2. /\ sess' \in Seq(SessionRec) /\ shell' \in Seq(ShellStates) /\ loop' \in Seq(LoopRec)
  BY ZenonT(30) DEF PoolTypes
<1>3. DOMAIN sess' = DOMAIN sess /\ DOMAIN shell' = DOMAIN shell /\ DOMAIN loop' = DOMAIN loop
  BY <1>1, <1>2 DEF Quiet, SessionsQuiet, LoopsQuiet, CallersQuiet
<1>4. RangesOK'
  <2>a. table' = table /\ Len(sess') = Len(sess) /\ Len(shell') = Len(shell) /\ Len(loop') = Len(loop)
    BY ZenonT(30) DEF Quiet, SessionsQuiet, LoopsQuiet, CallersQuiet
  <2>b. \A s \in DOMAIN sess : sess'[s].shell \in {0, sess[s].shell} /\ sess'[s].ka <= Len(loop)
    BY ZenonT(30) DEF Quiet, SessionsQuiet, LoopsQuiet, CallersQuiet
  <2>c. /\ \A k \in Key : table[k] <= Len(sess)
        /\ \A s \in DOMAIN sess : sess[s].shell <= Len(shell)
    BY ZenonT(30) DEF FlightInv, RangesOK
  <2>1. \A k \in Key : table'[k] <= Len(sess')
    BY ZenonT(30), <2>a, <2>c
  <2>2. \A s \in DOMAIN sess' : sess'[s].shell <= Len(shell') /\ sess'[s].ka <= Len(loop')
    <3>1. Len(shell) \in Nat
      BY <1>1
    <3> QED
      BY <1>3, <2>a, <2>b, <2>c, <3>1
  <2>3. Len(loop') = Len(shell') /\ \A x \in DOMAIN loop' : loop'[x].s \in DOMAIN sess'
    <3>1. Len(loop) = Len(shell) /\ \A x \in DOMAIN loop : loop[x].s \in DOMAIN sess
      BY ZenonT(30) DEF FlightInv, RangesOK
    <3>2. DOMAIN loop = DOMAIN shell
      BY <1>1, <3>1
    <3>3. \A x \in DOMAIN loop : loop'[x].s = loop[x].s
      BY ZenonT(30) DEF Quiet, SessionsQuiet, LoopsQuiet, CallersQuiet
    <3> QED
      BY ZenonT(30), <1>3, <2>a, <3>1, <3>2, <3>3
  <2>4. \A c \in SshCaller : at'[c] \in Working \cup {"wait"} => on'[c].s \in DOMAIN sess'
    BY ZenonT(30), <1>1, <1>3 DEF Quiet, SessionsQuiet, LoopsQuiet, CallersQuiet, FlightInv,
       RangesOK
  <2>5. \A c \in SshCaller : at'[c] \in {"dialed", "send", "await", "reset"} => on'[c].x \in DOMAIN shell'
    BY ZenonT(30), <1>3 DEF Quiet, SessionsQuiet, LoopsQuiet, CallersQuiet
  <2> QED
    BY ZenonT(30), <2>1, <2>2, <2>3, <2>4, <2>5 DEF RangesOK
<1>5. TableOK'
  BY <1>1, <1>3 DEF Quiet, SessionsQuiet, LoopsQuiet, CallersQuiet, FlightInv, RangesOK, TableOK
<1>6. QueueOK'
  <2>1. \A s \in DOMAIN sess : \A i \in DOMAIN sess[s].waiters : sess[s].waiters[i] \in SshCaller
    BY ZenonT(30), <1>1, RecFacts
  <2>2. \A c \in SshCaller : at[c] = "wait" => at'[c] = "wait"
    BY ZenonT(30) DEF Quiet, SessionsQuiet, LoopsQuiet, CallersQuiet, Working
  <2>3. \A s \in DOMAIN sess : sess'[s].waiters = sess[s].waiters
    BY ZenonT(30) DEF Quiet, SessionsQuiet
  <2>4. \A c \in SshCaller : on'[c].s = on[c].s
    BY ZenonT(30) DEF Quiet, CallersQuiet
  <2>5. QueueOK
    BY ZenonT(30) DEF FlightInv
  <2> QED
    BY <1>3, <2>1, <2>2, <2>3, <2>4, <2>5 DEF QueueOK
<1>7. \A c \in SshCaller, s \in DOMAIN sess : Holds(c, s)' <=> Holds(c, s)
  BY ZenonT(30), <1>1 DEF Quiet, SessionsQuiet, LoopsQuiet, CallersQuiet, Holds
<1>8. OneHolder'
  BY ZenonT(30), <1>1, <1>3, <1>7 DEF Quiet, SessionsQuiet, LoopsQuiet, CallersQuiet, FlightInv,
     OneHolder
<1>9. QueueHeld'
  BY ZenonT(30), <1>3, <1>7 DEF Quiet, SessionsQuiet, LoopsQuiet, CallersQuiet, FlightInv, QueueHeld
<1>10. DialClear'
  <2>1. \A c \in SshCaller : /\ on'[c].s = on[c].s
                             /\ at'[c] = "dial" => at[c] = "dial" \/ sess'[on[c].s].shell = 0
    BY ZenonT(30) DEF Quiet, CallersQuiet
  <2>2. \A s \in DOMAIN sess : sess[s].shell = 0 => sess'[s].shell = 0
    BY ZenonT(30) DEF Quiet, SessionsQuiet
  <2>3. \A c \in SshCaller : at[c] = "dial" => on[c].s \in DOMAIN sess
    BY ZenonT(30) DEF FlightInv, RangesOK, Working
  <2>4. cut' = cut /\ DialClear
    BY ZenonT(30) DEF Quiet, FlightInv
  <2> QED
    BY ZenonT(30), <2>1, <2>2, <2>3, <2>4 DEF DialClear
<1>11. NoLeakedShell'
  <2>1. UNCHANGED <<table, cut>> /\ NoLeakedShell
    BY ZenonT(30) DEF Quiet, FlightInv
  <2>2. \A s \in DOMAIN sess :
          /\ sess'[s].key = sess[s].key
          /\ \/ sess'[s].shell = sess[s].shell
             \/ sess[s].shell # 0 => shell'[sess[s].shell] = "closed"
    BY ZenonT(30) DEF Quiet, SessionsQuiet
  <2>3. \A x \in DOMAIN shell : shell[x] = "closed" => shell'[x] = "closed"
    BY ZenonT(30) DEF Quiet, SessionsQuiet
  <2>4. \A x \in DOMAIN shell : loop'[x].s = loop[x].s /\ loop[x].s \in DOMAIN sess /\ x # 0
    BY <1>1 DEF Quiet, LoopsQuiet, FlightInv, RangesOK
  <2> QED
    BY <1>3, <2>1, <2>2, <2>3, <2>4 DEF NoLeakedShell, Orphan
<1> QED
  BY ZenonT(30), <1>4, <1>5, <1>6, <1>8, <1>9, <1>10, <1>11 DEF FlightInv

\* closeLocked keeps the key, the holder and the queue of a session.
LEMMA ClosedRec ==
  ASSUME NEW r \in SessionRec
  PROVE  /\ Closed(r) \in SessionRec /\ Closed(r).key = r.key /\ (Closed(r).busy <=> r.busy)
         /\ Closed(r).waiters = r.waiters /\ Closed(r).shell = 0 /\ Closed(r).ka = 0
  BY ZenonT(30) DEF Closed, SessionRec

LEMMA ShutShells ==
  ASSUME PoolTypes, NEW S, shell' = Shut(S)
  PROVE  /\ shell' \in Seq(ShellStates) /\ Len(shell') = Len(shell) /\ DOMAIN shell' = DOMAIN shell
         /\ \A x \in DOMAIN shell : shell'[x] = IF x \in S THEN "closed" ELSE shell[x]
<1>1. shell \in Seq(ShellStates) /\ DOMAIN shell = 1 .. Len(shell) /\ Len(shell) \in Nat
  BY DEF PoolTypes
<1>2. \A x \in DOMAIN shell : shell[x] \in ShellStates
  BY <1>1
<1>3. shell' \in [1 .. Len(shell) -> ShellStates]
  BY ZenonT(30), <1>1, <1>2 DEF Shut, ShellStates
<1> QED
  BY <1>1, <1>3 DEF Shut

\* One session gets a new record.
LEMMA OneRecord ==
  ASSUME PoolTypes, NEW s \in DOMAIN sess, NEW r \in SessionRec, sess' = [sess EXCEPT ![s] = r]
  PROVE  /\ sess' \in Seq(SessionRec) /\ Len(sess') = Len(sess) /\ DOMAIN sess' = DOMAIN sess
         /\ \A t \in DOMAIN sess : sess'[t] = IF t = s THEN r ELSE sess[t]
  BY DEF PoolTypes

LEMMA MarkedDead ==
  ASSUME PoolTypes, RangesOK, NEW s \in DOMAIN sess, MarkDead(s)
  PROVE  /\ sess' \in Seq(SessionRec) /\ shell' \in Seq(ShellStates)
         /\ SessionsQuiet /\ sess'[s].shell = 0
<1>1. sess[s] \in SessionRec
  BY DEF PoolTypes
<1>2. Closed(sess[s]) \in SessionRec
  BY ZenonT(30), <1>1, ClosedRec
<1>3. sess' = [sess EXCEPT ![s] = Closed(sess[s])] /\ shell' = Shut({sess[s].shell})
  BY ZenonT(30) DEF MarkDead
<1>4. /\ sess' \in Seq(SessionRec) /\ Len(sess') = Len(sess)
      /\ \A t \in DOMAIN sess : sess'[t] = IF t = s THEN Closed(sess[s]) ELSE sess[t]
  BY ZenonT(30), <1>2, <1>3, OneRecord
<1>5. /\ shell' \in Seq(ShellStates) /\ Len(shell') = Len(shell)
      /\ \A x \in DOMAIN shell : shell'[x] = IF x \in {sess[s].shell} THEN "closed" ELSE shell[x]
  BY <1>3, ShutShells, Zenon
<1>6. /\ sess[s].shell \in 0 .. Len(shell) /\ DOMAIN shell = 1 .. Len(shell) /\ Len(loop) \in Nat
      /\ \A t \in DOMAIN sess : sess[t].ka <= Len(loop)
  BY <1>1 DEF PoolTypes, RangesOK, SessionRec
<1>7. \A t \in DOMAIN sess :
         /\ sess'[t].key = sess[t].key /\ (sess'[t].busy <=> sess[t].busy)
         /\ sess'[t].waiters = sess[t].waiters /\ sess'[t].ka <= Len(loop)
  BY <1>1, <1>4, <1>6, ClosedRec
<1>8. sess'[s].shell = 0 /\ (sess[s].shell # 0 => shell'[sess[s].shell] = "closed")
  <2>1. sess'[s].shell = 0
    BY ZenonT(30), <1>1, <1>4, ClosedRec
  <2>2. sess[s].shell # 0 => sess[s].shell \in DOMAIN shell
    BY <1>6
  <2> QED
    BY ZenonT(30), <1>5, <2>1, <2>2
<1>9. \A t \in DOMAIN sess :
         \/ sess'[t].shell = sess[t].shell
         \/ sess'[t].shell = 0 /\ (sess[t].shell # 0 => shell'[sess[t].shell] = "closed")
  BY ZenonT(30), <1>4, <1>8
<1> QED
  BY ZenonT(30), <1>4, <1>5, <1>7, <1>8, <1>9 DEF SessionsQuiet

LEMMA NothingMarked ==
  ASSUME PoolTypes, RangesOK, UNCHANGED <<sess, shell>>
  PROVE  sess' \in Seq(SessionRec) /\ shell' \in Seq(ShellStates) /\ SessionsQuiet
  BY ZenonT(30) DEF PoolTypes, RangesOK, SessionsQuiet

\* A caller that works on its session takes a step that keeps it working.
LEMMA CallerMoves ==
  ASSUME PoolTypes, RangesOK, NEW c \in SshCaller, at[c] \in Working, NEW w \in Working,
         at' = [at EXCEPT ![c] = w], UNCHANGED on,
         w \in {"dialed", "send", "await", "reset"} => on[c].x \in DOMAIN shell,
         w = "dial" => sess'[on[c].s].shell = 0
  PROVE  at' \in [SshCaller -> Places] /\ on' \in [SshCaller -> [s : Nat, x : Nat]] /\ CallersQuiet
<1>1. at \in [SshCaller -> Places] /\ \A d \in SshCaller : at'[d] = IF d = c THEN w ELSE at[d]
  BY ZenonT(30) DEF PoolTypes
<1>2. at' \in [SshCaller -> Places]
  BY ZenonT(30), <1>1 DEF Places
<1>3. CallersQuiet
  BY ZenonT(30), <1>1 DEF CallersQuiet, RangesOK
<1> QED
  BY ZenonT(30), <1>2, <1>3 DEF PoolTypes

\* What a step has to show to be quiet.
LEMMA QuietFrom ==
  ASSUME PoolTypes, UNCHANGED <<table, cut>>,
         sess' \in Seq(SessionRec), shell' \in Seq(ShellStates), SessionsQuiet,
         loop' \in Seq(LoopRec), LoopsQuiet,
         at' \in [SshCaller -> Places], on' \in [SshCaller -> [s : Nat, x : Nat]], CallersQuiet,
         try' \in [SshCaller -> TryRec]
  PROVE  PoolTypes' /\ Quiet
<1>1. DOMAIN sess' = DOMAIN sess
  BY DEF PoolTypes, SessionsQuiet
<1> QED
  BY ZenonT(30), <1>1 DEF PoolTypes, Quiet

LEMMA SameLoops == ASSUME PoolTypes, loop' = loop PROVE loop' \in Seq(LoopRec) /\ LoopsQuiet
  BY ZenonT(30) DEF PoolTypes, LoopsQuiet

\* The record of one call changes.
LEMMA OneTry ==
  ASSUME PoolTypes, NEW c \in SshCaller, NEW r \in TryRec, try' = [try EXCEPT ![c] = r]
  PROVE  try' \in [SshCaller -> TryRec] /\ \A d \in SshCaller : try'[d] = IF d = c THEN r ELSE try[d]
  BY ZenonT(30) DEF PoolTypes

LEMMA Replayed ==
  ASSUME PoolTypes, NEW c \in SshCaller, Replay(c)
  PROVE  /\ try' \in [SshCaller -> TryRec] /\ \A d \in SshCaller : d # c => try'[d] = try[d]
         /\ try'[c].replayed /\ try'[c].n = try[c].n /\ (try'[c].got <=> try[c].got)
<1>1. try[c] \in TryRec
  BY ZenonT(30) DEF PoolTypes
<1>2. try' = [try EXCEPT ![c] = [try[c] EXCEPT !.wasIdle = FALSE, !.replayed = TRUE]]
  BY ZenonT(30), <1>1 DEF PoolTypes, Replay
<1>3. [try[c] EXCEPT !.wasIdle = FALSE, !.replayed = TRUE] \in TryRec
  BY ZenonT(30), <1>1 DEF TryRec
<1> QED
  BY ZenonT(30), <1>1, <1>2, <1>3, OneTry DEF TryRec

\* runJob ends with an error.
LEMMA JobFailed ==
  ASSUME PoolTypes, RangesOK, NEW c \in SshCaller, at[c] \in Working, NEW err,
         JobFails(c, err), UNCHANGED <<table, cut, loop, on>>
  PROVE  /\ PoolTypes' /\ Quiet /\ \A d \in SshCaller : d # c => at'[d] = at[d] /\ try'[d] = try[d]
         /\ \/ at'[c] = "release" /\ try'[c] = try[c]
            \/ /\ StaleReplay(c, err) /\ at'[c] = "check"
               /\ try'[c].replayed /\ try'[c].n = try[c].n /\ (try'[c].got <=> try[c].got)
<1>1. on[c].s \in DOMAIN sess /\ at \in [SshCaller -> Places]
  BY ZenonT(30) DEF PoolTypes, RangesOK
<1>2. sess' \in Seq(SessionRec) /\ shell' \in Seq(ShellStates) /\ SessionsQuiet
  <2>1. CASE MarkDead(on[c].s)
    BY ZenonT(30), <1>1, <2>1, MarkedDead
  <2>2. CASE UNCHANGED <<sess, shell>>
    BY ZenonT(30), <2>2, NothingMarked
  <2> QED
    BY ZenonT(30), <2>1, <2>2 DEF JobFails
<1>3. CASE StaleReplay(c, err)
  <2>1. Replay(c) /\ at' = [at EXCEPT ![c] = "check"]
    BY ZenonT(30), <1>3 DEF JobFails, Goto
  <2>2. /\ try' \in [SshCaller -> TryRec] /\ \A d \in SshCaller : d # c => try'[d] = try[d]
        /\ try'[c].replayed /\ try'[c].n = try[c].n /\ (try'[c].got <=> try[c].got)
    BY ZenonT(30), <2>1, Replayed
  <2>3. at' \in [SshCaller -> Places] /\ on' \in [SshCaller -> [s : Nat, x : Nat]] /\ CallersQuiet
    BY ZenonT(30), <2>1, CallerMoves DEF Working
  <2>4. PoolTypes' /\ Quiet
    BY ZenonT(30), <1>2, <2>2, <2>3, SameLoops, QuietFrom
  <2> QED
    BY ZenonT(30), <1>1, <1>3, <2>1, <2>2, <2>4
<1>4. CASE ~StaleReplay(c, err)
  <2>1. try' = try /\ at' = [at EXCEPT ![c] = "release"]
    BY ZenonT(30), <1>4 DEF JobFails, Goto
  <2>2. at' \in [SshCaller -> Places] /\ on' \in [SshCaller -> [s : Nat, x : Nat]] /\ CallersQuiet
    BY ZenonT(30), <2>1, CallerMoves DEF Working
  <2>3. PoolTypes' /\ Quiet
    BY ZenonT(30), <1>2, <2>1, <2>2, SameLoops, QuietFrom DEF PoolTypes
  <2> QED
    BY ZenonT(30), <1>1, <2>1, <2>3
<1> QED
  BY ZenonT(30), <1>3, <1>4

\* Before its first command is written a request has produced nothing, and the
\* command has reached a device only in the attempt that is being replayed.
Before == {"start", "wait", "enter", "newpw", "check", "ensure", "dial", "dialed", "job"}
TryAt(a, y) ==
    /\ ~y.replayed => y.n <= 1
    /\ a \in Before \/ (a = "send" /\ y.i = 0) => ~y.got /\ y.n <= 1 /\ (~y.replayed => y.n = 0)
TryOK == \A c \in SshCaller : TryAt(at[c], try[c])

PoolInv == PoolTypes /\ FlightInv /\ TryOK

LEMMA TryFrom ==
  ASSUME TryOK, NEW c \in SshCaller, \A d \in SshCaller : d # c => at'[d] = at[d] /\ try'[d] = try[d],
         TryAt(at'[c], try'[c])
  PROVE  TryOK'
  BY ZenonT(30) DEF TryOK

LEMMA FailedKeeps ==
  ASSUME PoolInv, NEW c \in SshCaller, at[c] \in Working, NEW err,
         JobFails(c, err), UNCHANGED <<table, cut, loop, on>>, StaleReplay(c, err) => ~try[c].got
  PROVE  PoolInv'
<1>1. PoolTypes /\ RangesOK /\ FlightInv /\ TryOK /\ TryAt(at[c], try[c])
  BY ZenonT(30) DEF PoolInv, FlightInv, TryOK
<1>2. /\ PoolTypes' /\ Quiet /\ \A d \in SshCaller : d # c => at'[d] = at[d] /\ try'[d] = try[d]
      /\ \/ at'[c] = "release" /\ try'[c] = try[c]
         \/ /\ StaleReplay(c, err) /\ at'[c] = "check"
            /\ try'[c].replayed /\ try'[c].n = try[c].n /\ (try'[c].got <=> try[c].got)
  BY ZenonT(30), <1>1, JobFailed
<1>3. TryAt(at'[c], try'[c])
  <2>1. CASE at'[c] = "release" /\ try'[c] = try[c]
    BY ZenonT(30), <1>1, <2>1 DEF TryAt, Before
  <2>2. CASE /\ StaleReplay(c, err) /\ at'[c] = "check"
             /\ try'[c].replayed /\ try'[c].n = try[c].n /\ (try'[c].got <=> try[c].got)
    <3>1. ~try[c].replayed /\ ~try[c].got
      BY ZenonT(30), <2>2 DEF StaleReplay
    <3> QED
      BY ZenonT(30), <1>1, <2>2, <3>1 DEF TryAt, Before
  <2> QED
    BY ZenonT(30), <1>2, <2>1, <2>2
<1>4. TryOK'
  BY ZenonT(30), <1>1, <1>2, <1>3, TryFrom
<1> QED
  BY ZenonT(30), <1>1, <1>2, <1>4, QuietKeeps DEF PoolInv

\* A quiet step of one caller.
LEMMA CallerQuiet ==
  ASSUME PoolInv, NEW c \in SshCaller, at[c] \in Working, NEW w \in Working,
         at' = [at EXCEPT ![c] = w], UNCHANGED <<table, cut, loop, on>>,
         MarkDead(on[c].s) \/ UNCHANGED <<sess, shell>>,
         w \in {"dialed", "send", "await", "reset"} => on[c].x \in DOMAIN shell, w # "dial",
         try' \in [SshCaller -> TryRec], \A d \in SshCaller : d # c => try'[d] = try[d],
         TryAt(w, try'[c])
  PROVE  PoolInv'
<1>1. PoolTypes /\ RangesOK /\ FlightInv /\ TryOK /\ on[c].s \in DOMAIN sess /\ at \in [SshCaller -> Places]
  BY ZenonT(30) DEF PoolInv, FlightInv, PoolTypes, RangesOK
<1>2. sess' \in Seq(SessionRec) /\ shell' \in Seq(ShellStates) /\ SessionsQuiet
  BY ZenonT(30), <1>1, MarkedDead, NothingMarked
<1>3. at' \in [SshCaller -> Places] /\ on' \in [SshCaller -> [s : Nat, x : Nat]] /\ CallersQuiet
  BY ZenonT(30), <1>1, CallerMoves
<1>4. PoolTypes' /\ Quiet
  BY ZenonT(30), <1>1, <1>2, <1>3, SameLoops, QuietFrom
<1>5. TryOK'
  BY ZenonT(30), <1>1, TryFrom
<1> QED
  BY ZenonT(30), <1>1, <1>4, <1>5, QuietKeeps DEF PoolInv

LEMMA EnterKeeps == ASSUME PoolInv, NEW c \in SshCaller, Enter(c) PROVE PoolInv'
<1>1. try[c] \in TryRec /\ TryAt("enter", try[c]) /\ at[c] = "enter"
  BY ZenonT(30) DEF PoolInv, PoolTypes, TryOK, Enter
<1>2. PICK b \in BOOLEAN : try' = [try EXCEPT ![c] = [try[c] EXCEPT !.wasIdle = b]]
  BY ZenonT(30) DEF Enter
<1>3. [try[c] EXCEPT !.wasIdle = b] \in TryRec
  BY ZenonT(30), <1>1 DEF TryRec
<1>4. /\ try' \in [SshCaller -> TryRec] /\ \A d \in SshCaller : d # c => try'[d] = try[d]
      /\ try'[c] = [try[c] EXCEPT !.wasIdle = b]
  BY ZenonT(30), <1>2, <1>3, OneTry DEF PoolInv
<1>5. TryAt("newpw", try'[c]) /\ TryAt("check", try'[c])
  BY ZenonT(30), <1>1, <1>4 DEF TryAt, Before, TryRec
<1>6. PICK w \in {"newpw", "check"} : at' = [at EXCEPT ![c] = w]
  BY ZenonT(30) DEF Enter, Goto
<1> QED
  BY ZenonT(30), <1>1, <1>4, <1>5, <1>6, CallerQuiet DEF Enter, conns, admin, Working

LEMMA NewPasswordKeeps == ASSUME PoolInv, NEW c \in SshCaller, NewPassword(c) PROVE PoolInv'
<1>1. try[c] \in TryRec /\ TryAt("newpw", try[c]) /\ at[c] = "newpw"
  BY ZenonT(30) DEF PoolInv, PoolTypes, TryOK, NewPassword
<1>2. try' = [try EXCEPT ![c] = [try[c] EXCEPT !.wasIdle = FALSE]]
  BY ZenonT(30) DEF NewPassword
<1>3. [try[c] EXCEPT !.wasIdle = FALSE] \in TryRec
  BY ZenonT(30), <1>1 DEF TryRec
<1>4. /\ try' \in [SshCaller -> TryRec] /\ \A d \in SshCaller : d # c => try'[d] = try[d]
      /\ try'[c] = [try[c] EXCEPT !.wasIdle = FALSE]
  BY ZenonT(30), <1>2, <1>3, OneTry DEF PoolInv
<1>5. TryAt("check", try'[c])
  BY ZenonT(30), <1>1, <1>4 DEF TryAt, Before, TryRec
<1> QED
  BY ZenonT(30), <1>1, <1>4, <1>5, CallerQuiet DEF NewPassword, Goto, admin, Working

LEMMA CheckKeeps == ASSUME PoolInv, NEW c \in SshCaller, Check(c) PROVE PoolInv'
<1>1. PoolTypes /\ try[c] \in TryRec /\ TryAt("check", try[c]) /\ at[c] = "check"
  BY ZenonT(30) DEF PoolInv, PoolTypes, TryOK, Check
<1>2. at' = [at EXCEPT ![c] = "ensure"] /\ UNCHANGED <<table, cut, loop, on>>
  BY ZenonT(30) DEF Check, Goto, admin
<1>3. CASE MarkDead(on[c].s) /\ Replay(c)
  <2>1. /\ try' \in [SshCaller -> TryRec] /\ \A d \in SshCaller : d # c => try'[d] = try[d]
        /\ try'[c].replayed /\ try'[c].n = try[c].n /\ (try'[c].got <=> try[c].got)
    BY ZenonT(30), <1>1, <1>3, Replayed
  <2>2. TryAt("ensure", try'[c])
    BY ZenonT(30), <1>1, <2>1 DEF TryAt, Before
  <2> QED
    BY ZenonT(30), <1>1, <1>2, <1>3, <2>1, <2>2, CallerQuiet DEF Working
<1>4. CASE UNCHANGED <<sess, shell, try>>
  <2>1. TryAt("ensure", try'[c])
    BY ZenonT(30), <1>1, <1>4 DEF TryAt, Before
  <2> QED
    BY ZenonT(30), <1>1, <1>2, <1>4, <2>1, CallerQuiet DEF Working, PoolTypes
<1> QED
  BY ZenonT(30), <1>3, <1>4 DEF Check

LEMMA EnsureKeeps == ASSUME PoolInv, NEW c \in SshCaller, EnsureDialed(c) PROVE PoolInv'
<1>1. /\ PoolTypes /\ RangesOK /\ FlightInv /\ TryOK /\ at[c] = "ensure" /\ at \in [SshCaller -> Places]
      /\ on[c].s \in DOMAIN sess /\ sess[on[c].s] \in SessionRec /\ TryAt("ensure", try[c])
  BY DEF PoolInv, FlightInv, RangesOK, PoolTypes, TryOK, EnsureDialed, Working
<1>2. UNCHANGED <<table, cut, loop, on, try>>
  BY ZenonT(30) DEF EnsureDialed, calls, admin
<1>3. TryAt("job", try[c]) /\ TryAt("dial", try[c])
  BY ZenonT(30), <1>1 DEF TryAt, Before
<1>4. CASE ~IsDead(Mine(c))
  <2>1. at' = [at EXCEPT ![c] = "job"] /\ UNCHANGED <<sess, shell>>
    BY ZenonT(30), <1>4 DEF EnsureDialed, Goto
  <2> QED
    BY ZenonT(30), <1>1, <1>2, <1>3, <2>1, CallerQuiet DEF Working, PoolTypes
<1>5. CASE IsDead(Mine(c))
  <2> DEFINE r == sess[on[c].s]
             q == IF r.shell # 0 THEN Closed(r) ELSE [r EXCEPT !.state = "dialing"]
             R == [q EXCEPT !.pw = PwOf[c]]
  <2>1. /\ sess' = [sess EXCEPT ![on[c].s] = R] /\ shell' = Shut({r.shell})
        /\ at' = [at EXCEPT ![c] = "dial"]
    BY ZenonT(30), <1>5 DEF EnsureDialed, Goto, Mine
  <2>2. /\ q \in SessionRec /\ q.key = r.key /\ (q.busy <=> r.busy) /\ q.waiters = r.waiters
        /\ q.shell = 0 /\ q.ka \in {0, r.ka}
    BY ZenonT(30), <1>1, ClosedRec DEF SessionRec
  <2>3. /\ R \in SessionRec /\ R.key = q.key /\ (R.busy <=> q.busy) /\ R.waiters = q.waiters
        /\ R.shell = q.shell /\ R.ka = q.ka
    BY ZenonT(30), <2>2 DEF SessionRec
  <2> HIDE DEF R, q
  <2>4. /\ sess' \in Seq(SessionRec) /\ Len(sess') = Len(sess)
        /\ \A t \in DOMAIN sess : sess'[t] = IF t = on[c].s THEN R ELSE sess[t]
    BY ZenonT(30), <1>1, <2>1, <2>3, OneRecord
  <2>5. /\ shell' \in Seq(ShellStates) /\ Len(shell') = Len(shell)
        /\ \A x \in DOMAIN shell : shell'[x] = IF x \in {r.shell} THEN "closed" ELSE shell[x]
    BY <1>1, <2>1, ShutShells, Zenon
  <2>6. r.shell # 0 => shell'[r.shell] = "closed"
    <3>1. r.shell # 0 => r.shell \in DOMAIN shell
      BY SMTT(30), <1>1 DEF PoolTypes, RangesOK, SessionRec
    <3> QED
      BY ZenonT(30), <2>5, <3>1
  <2>7. \A t \in DOMAIN sess :
          /\ sess'[t].key = sess[t].key /\ (sess'[t].busy <=> sess[t].busy)
          /\ sess'[t].waiters = sess[t].waiters
    BY ZenonT(30), <2>2, <2>3, <2>4
  <2>8. \A t \in DOMAIN sess : sess'[t].ka <= Len(loop)
    <3>1. Len(loop) \in Nat /\ \A t \in DOMAIN sess : sess[t].ka <= Len(loop)
      BY <1>1 DEF PoolTypes, RangesOK
    <3> QED
      BY <1>1, <2>2, <2>3, <2>4, <3>1
  <2>9. sess'[on[c].s].shell = 0
    BY ZenonT(30), <1>1, <2>2, <2>3, <2>4
  <2>10. \A t \in DOMAIN sess :
          \/ sess'[t].shell = sess[t].shell
          \/ sess'[t].shell = 0 /\ (sess[t].shell # 0 => shell'[sess[t].shell] = "closed")
    BY ZenonT(30), <2>4, <2>6, <2>9
  <2>11. SessionsQuiet
    BY ZenonT(30), <2>4, <2>5, <2>7, <2>8, <2>10 DEF SessionsQuiet
  <2>12. at' \in [SshCaller -> Places] /\ on' \in [SshCaller -> [s : Nat, x : Nat]] /\ CallersQuiet
    BY ZenonT(30), <1>1, <1>2, <2>1, <2>9, CallerMoves DEF Working
  <2>13. PoolTypes' /\ Quiet
    BY ZenonT(30), <1>1, <1>2, <2>4, <2>5, <2>11, <2>12, SameLoops, QuietFrom DEF PoolTypes
  <2>14. TryOK'
    BY ZenonT(30), <1>1, <1>2, <1>3, <2>1, TryFrom
  <2> QED
    BY ZenonT(30), <1>1, <2>13, <2>14, QuietKeeps DEF PoolInv
<1> QED
  BY ZenonT(30), <1>4, <1>5

LEMMA DialFailsKeeps == ASSUME PoolInv, NEW c \in SshCaller, PoolDialFails(c) PROVE PoolInv'
<1>1. at[c] = "dial" /\ TryAt("dial", try[c])
  BY ZenonT(30) DEF PoolInv, TryOK, PoolDialFails
<1>2. TryAt("release", try[c])
  BY ZenonT(30), <1>1 DEF TryAt, Before
<1> QED
  BY ZenonT(30), <1>1, <1>2, CallerQuiet DEF PoolDialFails, Goto, calls, Working, PoolInv, PoolTypes

LEMMA KeepaliveKeeps == ASSUME PoolInv, NEW c \in SshCaller, StartKeepalive(c) PROVE PoolInv'
<1>1. /\ PoolTypes /\ RangesOK /\ FlightInv /\ TryOK /\ at[c] = "dialed" /\ at \in [SshCaller -> Places]
      /\ on[c].s \in DOMAIN sess /\ sess[on[c].s] \in SessionRec /\ TryAt("dialed", try[c])
      /\ on[c].x \in DOMAIN shell /\ on[c].x \in Nat
  BY DEF PoolInv, FlightInv, RangesOK, PoolTypes, TryOK, StartKeepalive, Working
<1>2. UNCHANGED <<table, cut, on, try, shell>> /\ at' = [at EXCEPT ![c] = "job"]
  BY ZenonT(30) DEF StartKeepalive, calls, admin, Goto
<1> DEFINE R == [sess[on[c].s] EXCEPT !.ka = on[c].x]
           L == [loop[on[c].x] EXCEPT !.at = "ticking"]
<1>3. sess' = [sess EXCEPT ![on[c].s] = R] /\ loop' = [loop EXCEPT ![on[c].x] = L]
  BY ZenonT(30) DEF StartKeepalive
<1>4. /\ R \in SessionRec /\ R.key = sess[on[c].s].key /\ (R.busy <=> sess[on[c].s].busy)
      /\ R.waiters = sess[on[c].s].waiters /\ R.shell = sess[on[c].s].shell /\ R.ka = on[c].x
  BY ZenonT(30), <1>1 DEF SessionRec
<1>5. on[c].x \in DOMAIN loop /\ on[c].x <= Len(loop) /\ loop \in Seq(LoopRec)
  BY <1>1 DEF PoolTypes, RangesOK
<1>6. L \in LoopRec /\ L.s = loop[on[c].x].s
  <2>1. loop[on[c].x] \in LoopRec
    BY <1>5
  <2> QED
    BY ZenonT(30), <2>1 DEF LoopRec
<1> HIDE DEF R, L
<1>7. loop' \in Seq(LoopRec) /\ LoopsQuiet
  BY <1>3, <1>5, <1>6 DEF LoopsQuiet
<1>8. /\ sess' \in Seq(SessionRec) /\ Len(sess') = Len(sess)
      /\ \A t \in DOMAIN sess : sess'[t] = IF t = on[c].s THEN R ELSE sess[t]
  BY ZenonT(30), <1>1, <1>3, <1>4, OneRecord
<1>9. SessionsQuiet
  <2>1. \A t \in DOMAIN sess :
          /\ sess'[t].key = sess[t].key /\ (sess'[t].busy <=> sess[t].busy)
          /\ sess'[t].waiters = sess[t].waiters /\ sess'[t].shell = sess[t].shell
    BY ZenonT(30), <1>4, <1>8
  <2>2. \A t \in DOMAIN sess : sess'[t].ka <= Len(loop)
    BY ZenonT(30), <1>1, <1>4, <1>5, <1>8 DEF RangesOK
  <2> QED
    BY ZenonT(30), <1>2, <1>8, <2>1, <2>2 DEF SessionsQuiet
<1>10. at' \in [SshCaller -> Places] /\ on' \in [SshCaller -> [s : Nat, x : Nat]] /\ CallersQuiet
  BY ZenonT(30), <1>1, <1>2, CallerMoves DEF Working
<1>11. PoolTypes' /\ Quiet
  BY ZenonT(30), <1>1, <1>2, <1>7, <1>8, <1>9, <1>10, QuietFrom DEF PoolTypes
<1>12. TryOK'
  <2>1. TryAt("job", try[c])
    BY ZenonT(30), <1>1 DEF TryAt, Before
  <2> QED
    BY ZenonT(30), <1>1, <1>2, <2>1, TryFrom
<1> QED
  BY ZenonT(30), <1>1, <1>11, <1>12, QuietKeeps DEF PoolInv

LEMMA JobKeeps == ASSUME PoolInv, NEW c \in SshCaller, Job(c) PROVE PoolInv'
<1>1. /\ PoolTypes /\ RangesOK /\ FlightInv /\ TryOK /\ at[c] = "job" /\ at \in [SshCaller -> Places]
      /\ on[c].s \in DOMAIN sess /\ sess[on[c].s] \in SessionRec /\ TryAt("job", try[c])
      /\ on \in [SshCaller -> [s : Nat, x : Nat]] /\ try[c] \in TryRec
  BY DEF PoolInv, FlightInv, RangesOK, PoolTypes, TryOK, Job, Working
<1>2. UNCHANGED <<table, cut, loop>>
  BY ZenonT(30) DEF Job, admin
<1>3. ~try[c].got
  BY ZenonT(30), <1>1 DEF TryAt, Before
<1>4. CASE UNCHANGED on /\ \E err \in {"notready", "eof"} : JobFails(c, err)
  BY ZenonT(30), <1>1, <1>2, <1>3, <1>4, FailedKeeps DEF Working
<1>5. CASE /\ Mine(c).shell # 0 /\ on' = [on EXCEPT ![c].x = Mine(c).shell]
           /\ try' = [try EXCEPT ![c].i = 0] /\ Goto(c, "send") /\ UNCHANGED <<sess, shell>>
  <2>1. [try[c] EXCEPT !.i = 0] \in TryRec /\ TryAt("send", [try[c] EXCEPT !.i = 0])
    BY ZenonT(30), <1>1 DEF TryRec, TryAt, Before
  <2>2. /\ try' \in [SshCaller -> TryRec] /\ \A d \in SshCaller : d # c => try'[d] = try[d]
        /\ try'[c] = [try[c] EXCEPT !.i = 0]
    BY ZenonT(30), <1>1, <1>5, <2>1, OneTry
  <2>3. sess' \in Seq(SessionRec) /\ shell' \in Seq(ShellStates) /\ SessionsQuiet
    BY ZenonT(30), <1>1, <1>5, NothingMarked
  <2>4. Mine(c).shell \in DOMAIN shell /\ Mine(c).shell \in Nat
    BY <1>1, <1>5 DEF Mine, RangesOK, PoolTypes, SessionRec
  <2>5. at' = [at EXCEPT ![c] = "send"]
    BY ZenonT(30), <1>5 DEF Goto
  <2>6. at' \in [SshCaller -> Places] /\ \A d \in SshCaller : at'[d] = IF d = c THEN "send" ELSE at[d]
    BY ZenonT(30), <1>1, <2>5 DEF Places, Working
  <2>7. /\ on' \in [SshCaller -> [s : Nat, x : Nat]] /\ \A d \in SshCaller : on'[d].s = on[d].s
        /\ on'[c].x = Mine(c).shell /\ \A d \in SshCaller : d # c => on'[d] = on[d]
    BY ZenonT(30), <1>1, <1>5, <2>4
  <2>8. CallersQuiet
    BY ZenonT(30), <1>1, <2>4, <2>6, <2>7 DEF CallersQuiet, RangesOK, Working
  <2>9. PoolTypes' /\ Quiet
    BY ZenonT(30), <1>1, <1>2, <2>2, <2>3, <2>6, <2>7, <2>8, SameLoops, QuietFrom
  <2>10. TryOK'
    BY ZenonT(30), <1>1, <2>1, <2>2, <2>6, TryFrom
  <2> QED
    BY ZenonT(30), <1>1, <2>9, <2>10, QuietKeeps DEF PoolInv
<1> QED
  BY ZenonT(30), <1>4, <1>5 DEF Job

LEMMA SendKeeps == ASSUME PoolInv, NEW c \in SshCaller, Send(c) PROVE PoolInv'
<1>1. /\ PoolTypes /\ RangesOK /\ at[c] = "send" /\ on[c].x \in DOMAIN shell
      /\ try \in [SshCaller -> TryRec] /\ try[c] \in TryRec /\ TryAt("send", try[c])
  BY ZenonT(30) DEF PoolInv, FlightInv, RangesOK, PoolTypes, TryOK, Send, Working
<1>2. UNCHANGED <<table, cut, loop, on>>
  BY ZenonT(30) DEF Send, admin
<1>3. CASE /\ at' = [at EXCEPT ![c] = "await"] /\ UNCHANGED <<sess, shell>>
           /\ \E m \in {0, 1} : (m = 1 => try[c].i = 0) /\ try' = [try EXCEPT ![c].n = @ + m]
  <2>1. PICK m \in {0, 1} : (m = 1 => try[c].i = 0) /\ try' = [try EXCEPT ![c].n = @ + m]
    BY ZenonT(30), <1>3
  <2> DEFINE R == [try[c] EXCEPT !.n = @ + m]
  <2>2. try' = [try EXCEPT ![c] = R]
    BY ZenonT(30), <2>1
  <2>3. /\ R \in TryRec /\ R.n = try[c].n + m /\ (R.replayed <=> try[c].replayed) /\ R.i = try[c].i
        /\ try[c].n \in Nat
    BY <1>1, <2>1 DEF TryRec
  <2> HIDE DEF R
  <2>4. /\ try' \in [SshCaller -> TryRec] /\ \A d \in SshCaller : d # c => try'[d] = try[d]
        /\ try'[c] = R
    BY ZenonT(30), <1>1, <2>2, <2>3, OneTry
  <2>5. ~R.replayed => R.n <= 1
    <3>1. (~try[c].replayed => try[c].n <= 1) /\ (try[c].i = 0 => (~try[c].replayed => try[c].n = 0))
      BY ZenonT(30), <1>1 DEF TryAt
    <3> QED
      BY <2>1, <2>3, <3>1
  <2>6. TryAt("await", R)
    BY ZenonT(30), <2>5 DEF TryAt, Before
  <2> QED
    BY ZenonT(30), <1>1, <1>2, <1>3, <2>4, <2>6, CallerQuiet DEF Working
<1>4. CASE JobFails(c, IF AllowStale(c) /\ try[c].i = 0 THEN "stalewrite" ELSE "io")
  <2>1. AllowStale(c) /\ try[c].i = 0 => ~try[c].got
    BY ZenonT(30), <1>1 DEF TryAt
  <2>2. PICK err \in {"stalewrite", "io"} : JobFails(c, err) /\ (err = "stalewrite" => ~try[c].got)
    BY ZenonT(30), <1>4, <2>1
  <2>3. StaleReplay(c, err) => ~try[c].got
    BY ZenonT(30), <2>2 DEF StaleReplay
  <2> QED
    BY ZenonT(30), <1>1, <1>2, <2>2, <2>3, FailedKeeps DEF Working
<1> QED
  <2>1. \/ /\ at' = [at EXCEPT ![c] = "await"] /\ UNCHANGED <<sess, shell>>
           /\ try' = [try EXCEPT ![c].n = @ + (IF shell[on[c].x] = "live" /\ try[c].i = 0 THEN 1 ELSE 0)]
        \/ JobFails(c, IF AllowStale(c) /\ try[c].i = 0 THEN "stalewrite" ELSE "io")
    BY ZenonT(30) DEF Send, Goto
  <2> QED
    BY <1>3, <1>4, <2>1

LEMMA AnswerKeeps == ASSUME PoolInv, NEW c \in SshCaller, AnswerCmd(c) PROVE PoolInv'
<1>1. /\ PoolTypes /\ RangesOK /\ at[c] = "await" /\ on[c].x \in DOMAIN shell
      /\ try[c] \in TryRec /\ TryAt("await", try[c])
  BY ZenonT(30) DEF PoolInv, FlightInv, RangesOK, PoolTypes, TryOK, AnswerCmd, Working
<1>2. UNCHANGED <<table, cut, loop, on, sess, shell>>
  BY ZenonT(30) DEF AnswerCmd, conns, admin
<1>3. PICK b \in BOOLEAN : try' = [try EXCEPT ![c] = [try[c] EXCEPT !.i = @ + 1, !.got = b]]
  <2>1. PICK out \in BOOLEAN : try' = [try EXCEPT ![c].i = @ + 1, ![c].got = @ \/ out]
    BY ZenonT(30) DEF AnswerCmd
  <2>2. (try[c].got \/ out) \in BOOLEAN
    BY ZenonT(30), <1>1 DEF TryRec
  <2>3. try' = [try EXCEPT ![c] = [try[c] EXCEPT !.i = @ + 1, !.got = (try[c].got \/ out)]]
    BY ZenonT(30), <1>1, <2>1 DEF PoolTypes
  <2> QED
    BY ZenonT(30), <2>2, <2>3
<1> DEFINE R == [try[c] EXCEPT !.i = @ + 1, !.got = b]
<1>4. R \in TryRec /\ R.n = try[c].n /\ (R.replayed <=> try[c].replayed) /\ R.i # 0
  <2> DEFINE M == [try[c] EXCEPT !.i = @ + 1]
  <2>1. M \in TryRec /\ M.n = try[c].n /\ (M.replayed <=> try[c].replayed)
    BY <1>1 DEF TryRec
  <2>2. try[c].i \in Nat /\ M.i = try[c].i + 1
    BY ZenonT(30), <1>1 DEF TryRec
  <2>3. M.i # 0
    BY <2>2
  <2>4. R = [M EXCEPT !.got = b]
    BY ZenonT(30)
  <2> HIDE DEF M, R
  <2> QED
    BY ZenonT(30), <2>1, <2>3, <2>4 DEF TryRec
<1> HIDE DEF R
<1>5. /\ try' \in [SshCaller -> TryRec] /\ \A d \in SshCaller : d # c => try'[d] = try[d]
      /\ try'[c] = R
  BY ZenonT(30), <1>1, <1>3, <1>4, OneTry DEF R
<1>6. TryAt("reset", R) /\ TryAt("send", R)
  BY ZenonT(30), <1>1, <1>4 DEF TryAt, Before
<1>7. PICK w \in {"reset", "send"} : at' = [at EXCEPT ![c] = w]
  BY ZenonT(30) DEF AnswerCmd, Goto
<1> QED
  BY ZenonT(30), <1>1, <1>2, <1>5, <1>6, <1>7, CallerQuiet DEF Working

LEMMA OutputKeeps == ASSUME PoolInv, NEW c \in SshCaller, Output(c) PROVE PoolInv'
<1>1. /\ PoolTypes /\ RangesOK /\ at[c] = "await" /\ on[c].x \in DOMAIN shell
      /\ try[c] \in TryRec /\ TryAt("await", try[c]) /\ at \in [SshCaller -> Places]
  BY ZenonT(30) DEF PoolInv, FlightInv, RangesOK, PoolTypes, TryOK, Output, Working
<1>2. UNCHANGED <<table, cut, loop, on, sess, shell>> /\ at' = [at EXCEPT ![c] = "await"]
  BY ZenonT(30), <1>1 DEF Output, conns, admin
<1>3. try' = [try EXCEPT ![c] = [try[c] EXCEPT !.got = TRUE]]
  BY ZenonT(30) DEF Output
<1>4. [try[c] EXCEPT !.got = TRUE] \in TryRec
  BY ZenonT(30), <1>1 DEF TryRec
<1>5. /\ try' \in [SshCaller -> TryRec] /\ \A d \in SshCaller : d # c => try'[d] = try[d]
      /\ try'[c] = [try[c] EXCEPT !.got = TRUE]
  BY ZenonT(30), <1>1, <1>3, <1>4, OneTry
<1>6. TryAt("await", try'[c])
  BY ZenonT(30), <1>1, <1>5 DEF TryAt, Before, TryRec
<1> QED
  BY ZenonT(30), <1>1, <1>2, <1>5, <1>6, CallerQuiet DEF Working

LEMMA NoAnswerKeeps == ASSUME PoolInv, NEW c \in SshCaller, NoAnswer(c) PROVE PoolInv'
<1>1. at[c] \in Working /\ UNCHANGED <<table, cut, loop, on>>
  BY ZenonT(30) DEF NoAnswer, Working
<1>2. PICK err \in {"eof", "timeout", "pager"} : JobFails(c, err)
  BY ZenonT(30) DEF NoAnswer
<1>3. StaleReplay(c, err) => ~try[c].got
  BY ZenonT(30), <1>2 DEF StaleReplay
<1> QED
  BY ZenonT(30), <1>1, <1>2, <1>3, FailedKeeps

LEMMA JobDoneKeeps == ASSUME PoolInv, NEW c \in SshCaller, JobDone(c) PROVE PoolInv'
<1>1. at[c] = "reset" /\ TryAt("reset", try[c]) /\ try \in [SshCaller -> TryRec]
  BY ZenonT(30) DEF PoolInv, TryOK, JobDone, PoolTypes
<1>2. TryAt("release", try[c])
  BY ZenonT(30), <1>1 DEF TryAt, Before
<1> QED
  BY ZenonT(30), <1>1, <1>2, CallerQuiet DEF JobDone, Goto, conns, calls, admin, Working

\* Steps that move no caller: the keepalive, and the devices.
LEMMA OthersQuiet ==
  ASSUME PoolInv, UNCHANGED <<table, cut, at, on, try>>,
         sess' \in Seq(SessionRec), shell' \in Seq(ShellStates), SessionsQuiet,
         loop' \in Seq(LoopRec), LoopsQuiet
  PROVE  PoolInv'
<1>1. PoolTypes /\ RangesOK /\ FlightInv /\ TryOK
  BY ZenonT(30) DEF PoolInv, FlightInv
<1>2. CallersQuiet
  BY ZenonT(30), <1>1 DEF CallersQuiet, RangesOK
<1>3. PoolTypes' /\ Quiet
  BY ZenonT(30), <1>1, <1>2, QuietFrom DEF PoolTypes
<1>4. TryOK'
  BY ZenonT(30), <1>1 DEF TryOK
<1> QED
  BY ZenonT(30), <1>1, <1>3, <1>4, QuietKeeps DEF PoolInv

LEMMA OneLoop ==
  ASSUME PoolTypes, NEW x \in DOMAIN loop, NEW r \in LoopRec, r.s = loop[x].s,
         loop' = [loop EXCEPT ![x] = r]
  PROVE  loop' \in Seq(LoopRec) /\ LoopsQuiet
  BY DEF PoolTypes, LoopsQuiet

LEMMA KeepaliveLoopKeeps ==
  ASSUME PoolInv, NEW x \in DOMAIN loop, KaTick(x) \/ KaAnswer(x) \/ KaKill(x) PROVE PoolInv'
<1>1. /\ PoolTypes /\ RangesOK /\ loop[x] \in LoopRec /\ loop[x].s \in DOMAIN sess
      /\ sess[loop[x].s].shell \in Nat
  <2>1. PoolTypes /\ RangesOK
    BY ZenonT(30) DEF PoolInv, FlightInv
  <2>2. loop[x] \in LoopRec /\ loop[x].s \in DOMAIN sess /\ sess \in Seq(SessionRec)
    BY <2>1 DEF PoolTypes, RangesOK
  <2> QED
    BY ZenonT(30), <2>1, <2>2, RecFacts
<1>2. UNCHANGED <<table, cut, at, on, try>>
  BY ZenonT(30) DEF KaTick, KaAnswer, KaKill, calls, admin
<1>3. loop' \in Seq(LoopRec) /\ LoopsQuiet
  <2>1. CASE KaTick(x)
    <3>1. loop' = [loop EXCEPT ![x] = [loop[x] EXCEPT !.at = "sent", !.saw = sess[loop[x].s].shell]]
      BY ZenonT(30), <1>1, <2>1 DEF KaTick, KaOwner, PoolTypes
    <3>2. /\ [loop[x] EXCEPT !.at = "sent", !.saw = sess[loop[x].s].shell] \in LoopRec
          /\ [loop[x] EXCEPT !.at = "sent", !.saw = sess[loop[x].s].shell].s = loop[x].s
      BY ZenonT(30), <1>1 DEF LoopRec
    <3> QED
      BY ZenonT(30), <1>1, <3>1, <3>2, OneLoop
  <2>2. ASSUME NEW next \in {"ticking", "kill", "done"}, loop' = [loop EXCEPT ![x].at = next]
        PROVE  loop' \in Seq(LoopRec) /\ LoopsQuiet
    <3>1. /\ [loop[x] EXCEPT !.at = next] \in LoopRec /\ [loop[x] EXCEPT !.at = next].s = loop[x].s
      BY ZenonT(30), <1>1 DEF LoopRec
    <3> QED
      BY ZenonT(30), <1>1, <2>2, <3>1, OneLoop
  <2> QED
    BY ZenonT(30), <2>1, <2>2 DEF KaAnswer, KaKill
<1>4. sess' \in Seq(SessionRec) /\ shell' \in Seq(ShellStates) /\ SessionsQuiet
  <2>1. MarkDead(loop[x].s) \/ UNCHANGED <<sess, shell>>
    BY ZenonT(30) DEF KaTick, KaAnswer, KaKill
  <2> QED
    BY ZenonT(30), <1>1, <2>1, MarkedDead, NothingMarked
<1> QED
  BY ZenonT(30), <1>2, <1>3, <1>4, OthersQuiet

LEMMA DropKeeps == ASSUME PoolInv, NEW x \in DOMAIN loop, DropSession(x) PROVE PoolInv'
<1>1. PoolTypes /\ RangesOK /\ shell \in Seq(ShellStates) /\ x \in DOMAIN shell
  BY DEF PoolInv, FlightInv, PoolTypes, RangesOK
<1>2. shell' \in Seq(ShellStates) /\ SessionsQuiet /\ sess' \in Seq(SessionRec)
  <2>1. shell' = [shell EXCEPT ![x] = "gone"] /\ shell[x] = "live" /\ sess' = sess
    BY ZenonT(30) DEF DropSession
  <2>2. /\ shell' \in Seq(ShellStates) /\ Len(shell') = Len(shell)
        /\ \A y \in DOMAIN shell : shell'[y] = IF y = x THEN "gone" ELSE shell[y]
    BY <1>1, <2>1 DEF ShellStates
  <2> QED
    BY ZenonT(30), <1>1, <2>1, <2>2 DEF SessionsQuiet, PoolTypes, RangesOK
<1> QED
  BY ZenonT(30), <1>1, <1>2, SameLoops, OthersQuiet DEF DropSession, calls

\* A dial gives the session a shell: it has none, and nobody else dials for it.
LEMMA DialOkKeeps == ASSUME PoolInv, NEW c \in SshCaller, PoolDialOk(c) PROVE PoolInv'
<1> DEFINE s == on[c].s
           n == Len(shell) + 1
           r == [sess[s] EXCEPT !.shell = n, !.state = "busy"]
<1>1. /\ PoolTypes /\ FlightInv /\ TryOK /\ at[c] = "dial" /\ at \in [SshCaller -> Places]
      /\ on \in [SshCaller -> [s : Nat, x : Nat]] /\ sess \in Seq(SessionRec)
      /\ shell \in Seq(ShellStates) /\ loop \in Seq(LoopRec)
      /\ RangesOK /\ TableOK /\ QueueOK /\ OneHolder /\ QueueHeld /\ DialClear /\ NoLeakedShell
  BY ZenonT(30) DEF PoolInv, FlightInv, PoolTypes, PoolDialOk
<1>2. UNCHANGED <<table, cut, try>> /\ at' = [at EXCEPT ![c] = "dialed"]
  BY ZenonT(30) DEF PoolDialOk, admin, Goto
<1>3. s \in DOMAIN sess /\ sess[s] \in SessionRec /\ s \in Nat
  BY <1>1 DEF RangesOK, Working
<1>4. Len(loop) = Len(shell) /\ Len(shell) \in Nat /\ n \in Nat
  BY <1>1 DEF RangesOK
<1>5. /\ r \in SessionRec /\ r.key = sess[s].key /\ (r.busy <=> sess[s].busy)
      /\ r.waiters = sess[s].waiters /\ r.ka = sess[s].ka /\ r.shell = n
  BY ZenonT(30), <1>3, <1>4 DEF SessionRec
<1>6. sess' = [sess EXCEPT ![s] = r]
  BY ZenonT(30), <1>1, <1>3 DEF PoolDialOk
<1> HIDE DEF r
<1>7. /\ sess' \in Seq(SessionRec) /\ Len(sess') = Len(sess) /\ DOMAIN sess' = DOMAIN sess
      /\ \A t \in DOMAIN sess : sess'[t] = IF t = s THEN r ELSE sess[t]
  BY ZenonT(30), <1>1, <1>3, <1>5, <1>6, OneRecord
<1>8. /\ shell' \in Seq(ShellStates) /\ Len(shell') = n /\ DOMAIN shell' = DOMAIN shell \cup {n}
      /\ shell'[n] = "live" /\ \A x \in DOMAIN shell : shell'[x] = shell[x] /\ x # n /\ x # 0
  BY <1>1, <1>4 DEF PoolDialOk, ShellStates
<1>9. /\ loop' \in Seq(LoopRec) /\ Len(loop') = n /\ DOMAIN loop' = DOMAIN loop \cup {n}
      /\ loop'[n].s = s /\ \A x \in DOMAIN loop : loop'[x] = loop[x]
  <2> DEFINE z == [s |-> s, at |-> "off", saw |-> 0]
  <2>1. z \in LoopRec /\ z.s = s
    BY ZenonT(30), <1>3 DEF LoopRec
  <2>2. loop' = Append(loop, z)
    BY ZenonT(30) DEF PoolDialOk
  <2> HIDE DEF z
  <2> QED
    BY <1>1, <1>4, <2>1, <2>2
<1>10. at' \in [SshCaller -> Places] /\ \A d \in SshCaller : at'[d] = IF d = c THEN "dialed" ELSE at[d]
  BY ZenonT(30), <1>1, <1>2 DEF Places, Working
<1>11. /\ on' \in [SshCaller -> [s : Nat, x : Nat]] /\ \A d \in SshCaller : on'[d].s = on[d].s
       /\ on'[c].x = n /\ \A d \in SshCaller : d # c => on'[d] = on[d]
  BY ZenonT(30), <1>1, <1>4 DEF PoolDialOk
<1>12. PoolTypes'
  BY ZenonT(30), <1>1, <1>2, <1>7, <1>8, <1>9, <1>10, <1>11 DEF PoolTypes
<1>13. \A t \in DOMAIN sess :
         /\ sess'[t].key = sess[t].key /\ (sess'[t].busy <=> sess[t].busy)
         /\ sess'[t].waiters = sess[t].waiters /\ sess'[t].ka = sess[t].ka
  BY ZenonT(30), <1>5, <1>7
<1>14. \A d \in SshCaller, t \in DOMAIN sess : Holds(d, t)' <=> Holds(d, t)
  BY ZenonT(30), <1>1, <1>10, <1>11 DEF Holds, Working
<1>15. Holds(c, s)
  BY ZenonT(30), <1>1 DEF Holds, Working
<1>16. TableOK'
  BY <1>1, <1>2, <1>7, <1>13 DEF TableOK, RangesOK, PoolTypes
<1>17. QueueOK'
  <2>1. \A t \in DOMAIN sess : \A i \in DOMAIN sess[t].waiters : sess[t].waiters[i] \in SshCaller
    BY ZenonT(30), <1>1, RecFacts
  <2>2. \A d \in SshCaller : at[d] = "wait" => at'[d] = "wait"
    BY ZenonT(30), <1>1, <1>10
  <2> QED
    BY <1>1, <1>7, <1>11, <1>13, <2>1, <2>2 DEF QueueOK
<1>18. OneHolder'
  BY ZenonT(30), <1>1, <1>2, <1>7, <1>13, <1>14 DEF OneHolder
<1>19. QueueHeld'
  BY ZenonT(30), <1>1, <1>7, <1>13, <1>14 DEF QueueHeld
<1>20. DialClear'
  <2> SUFFICES ASSUME NEW d \in SshCaller, at'[d] = "dial", on'[d].s \notin cut'
               PROVE  sess'[on'[d].s].shell = 0
    BY ZenonT(30) DEF DialClear
  <2>1. d # c /\ at[d] = "dial" /\ on'[d].s = on[d].s /\ on[d].s \notin cut
    BY ZenonT(30), <1>2, <1>10, <1>11
  <2>2. on[d].s \in DOMAIN sess /\ Holds(d, on[d].s)
    BY ZenonT(30), <1>1, <2>1 DEF RangesOK, Working, Holds
  <2>3. on[d].s # s
    BY ZenonT(30), <1>1, <1>15, <2>1, <2>2 DEF OneHolder
  <2> QED
    BY ZenonT(30), <1>1, <1>7, <2>1, <2>2, <2>3 DEF DialClear
<1>21. NoLeakedShell'
  <2>1. s \in cut \/ (table[sess[s].key] = s /\ sess[s].shell = 0)
    BY ZenonT(30), <1>1, <1>3, <1>15 DEF OneHolder, DialClear
  <2>2. ASSUME NEW x \in DOMAIN shell, shell[x] # "closed"
        PROVE  \/ loop'[x].s \in cut
               \/ table[sess'[loop'[x].s].key] = loop'[x].s /\ sess'[loop'[x].s].shell = x
    <3>1. x \in DOMAIN loop /\ loop'[x] = loop[x] /\ loop[x].s \in DOMAIN sess
      BY <1>1, <1>4, <1>9 DEF RangesOK
    <3>2. loop[x].s \in cut \/ (table[sess[loop[x].s].key] = loop[x].s /\ sess[loop[x].s].shell = x)
      BY ZenonT(30), <1>1, <2>2 DEF NoLeakedShell, Orphan
    <3>3. loop[x].s \in cut \/ loop[x].s # s
      BY ZenonT(30), <1>8, <2>1, <3>2
    <3> QED
      BY ZenonT(30), <1>7, <3>1, <3>2, <3>3
  <2>3. \/ loop'[n].s \in cut
        \/ table[sess'[loop'[n].s].key] = loop'[n].s /\ sess'[loop'[n].s].shell = n
    BY ZenonT(30), <1>3, <1>5, <1>7, <1>9, <2>1
  <2> QED
    BY ZenonT(30), <1>2, <1>8, <2>2, <2>3 DEF NoLeakedShell, Orphan
<1>22. RangesOK'
  <2>1. \A k \in Key : table'[k] <= Len(sess')
    BY ZenonT(30), <1>1, <1>2, <1>7 DEF RangesOK
  <2>2. \A t \in DOMAIN sess' : sess'[t].shell <= Len(shell') /\ sess'[t].ka <= Len(loop')
    <3>1. /\ \A t \in DOMAIN sess : sess[t].shell <= Len(shell) /\ sess[t].ka <= Len(shell)
          /\ \A t \in DOMAIN sess : sess[t].shell \in Nat /\ sess[t].ka \in Nat
      BY ZenonT(30), <1>1, <1>4, RecFacts DEF RangesOK
    <3>2. \A t \in DOMAIN sess : sess'[t].shell \in {n, sess[t].shell} /\ sess'[t].ka = sess[t].ka
      BY ZenonT(30), <1>5, <1>7
    <3> QED
      BY <1>4, <1>7, <1>8, <1>9, <3>1, <3>2
  <2>3. \A x \in DOMAIN loop' : loop'[x].s \in DOMAIN sess'
    BY ZenonT(30), <1>1, <1>3, <1>7, <1>9 DEF RangesOK
  <2>4. \A d \in SshCaller : at'[d] \in Working \cup {"wait"} => on'[d].s \in DOMAIN sess'
    BY ZenonT(30), <1>1, <1>7, <1>10, <1>11 DEF RangesOK, Working
  <2>5. \A d \in SshCaller : at'[d] \in {"dialed", "send", "await", "reset"} => on'[d].x \in DOMAIN shell'
    BY ZenonT(30), <1>1, <1>8, <1>10, <1>11 DEF RangesOK
  <2> QED
    BY ZenonT(30), <1>8, <1>9, <2>1, <2>2, <2>3, <2>4, <2>5 DEF RangesOK
<1>23. TryOK'
  <2>1. TryAt("dialed", try[c])
    BY ZenonT(30), <1>1 DEF TryOK, TryAt, Before
  <2> QED
    BY ZenonT(30), <1>1, <1>2, <1>10, <2>1, TryFrom
<1> QED
  BY ZenonT(30), <1>12, <1>16, <1>17, <1>18, <1>19, <1>20, <1>21, <1>22, <1>23
     DEF PoolInv, FlightInv

\* Steps that change who holds and who waits, and nothing of the connections.
LEMMA QueuesChange ==
  ASSUME PoolTypes, FlightInv, UNCHANGED <<table, cut, shell, loop>>,
         sess' \in Seq(SessionRec), Len(sess') = Len(sess),
         \A t \in DOMAIN sess : /\ sess'[t].key = sess[t].key /\ sess'[t].shell = sess[t].shell
                                /\ sess'[t].ka = sess[t].ka,
         at' \in [SshCaller -> Places],
         \A d \in SshCaller : at'[d] \in Working \cup {"wait"} => on'[d].s \in DOMAIN sess,
         \A d \in SshCaller : at'[d] \in {"dial", "dialed", "send", "await", "reset"} =>
                                at'[d] = at[d] /\ on'[d] = on[d]
  PROVE  RangesOK' /\ TableOK' /\ DialClear' /\ NoLeakedShell'
<1>1. /\ RangesOK /\ TableOK /\ DialClear /\ NoLeakedShell /\ DOMAIN sess' = DOMAIN sess
      /\ table \in [Key -> Nat] /\ sess \in Seq(SessionRec)
  BY DEF FlightInv, PoolTypes
<1>2. RangesOK'
  BY ZenonT(30), <1>1 DEF RangesOK
<1>3. TableOK'
  BY <1>1 DEF TableOK, RangesOK
<1>4. DialClear'
  BY ZenonT(30), <1>1 DEF DialClear, RangesOK, Working
<1>5. NoLeakedShell'
  <2>1. \A x \in DOMAIN shell : loop[x].s \in DOMAIN sess
    BY <1>1 DEF RangesOK, PoolTypes
  <2> QED
    BY ZenonT(30), <1>1, <2>1 DEF NoLeakedShell, Orphan
<1> QED
  BY ZenonT(30), <1>2, <1>3, <1>4, <1>5

\* A caller that gives up has no session and leaves no trace.
LEMMA GivesUp ==
  ASSUME PoolInv, NEW c \in SshCaller, at[c] = "start", at' = [at EXCEPT ![c] = "done"],
         UNCHANGED <<table, sess, shell, loop, on, try, cut>>
  PROVE  PoolInv'
<1>1. /\ PoolTypes /\ FlightInv /\ TryOK /\ QueueOK /\ OneHolder /\ QueueHeld /\ RangesOK
      /\ at \in [SshCaller -> Places] /\ sess \in Seq(SessionRec)
  BY ZenonT(30) DEF PoolInv, FlightInv, PoolTypes
<1>2. at' \in [SshCaller -> Places] /\ \A d \in SshCaller : at'[d] = IF d = c THEN "done" ELSE at[d]
  BY ZenonT(30), <1>1 DEF Places
<1>3. PoolTypes'
  BY ZenonT(30), <1>1, <1>2 DEF PoolTypes
<1>4. RangesOK' /\ TableOK' /\ DialClear' /\ NoLeakedShell'
  <2>1. \A d \in SshCaller : at'[d] \in Working \cup {"wait"} => on'[d].s \in DOMAIN sess
    BY ZenonT(30), <1>1, <1>2 DEF RangesOK, Working
  <2> QED
    BY ZenonT(30), <1>1, <1>2, <2>1, QueuesChange
<1>5. \A d \in SshCaller, t \in DOMAIN sess : Holds(d, t)' <=> Holds(d, t)
  BY ZenonT(30), <1>1, <1>2 DEF Holds, Working
<1>6. QueueOK'
  <2>1. \A t \in DOMAIN sess : \A i \in DOMAIN sess[t].waiters : sess[t].waiters[i] \in SshCaller
    BY ZenonT(30), <1>1, RecFacts
  <2> QED
    BY <1>1, <1>2, <2>1 DEF QueueOK
<1>7. OneHolder' /\ QueueHeld'
  BY ZenonT(30), <1>1, <1>5 DEF OneHolder, QueueHeld
<1>8. TryOK'
  <2>1. TryAt("done", try[c])
    BY ZenonT(30), <1>1 DEF TryOK, TryAt, Before
  <2> QED
    BY ZenonT(30), <1>1, <1>2, <2>1, TryFrom
<1> QED
  BY ZenonT(30), <1>3, <1>4, <1>6, <1>7, <1>8 DEF PoolInv, FlightInv

LEMMA Appended ==
  ASSUME NEW w \in Seq(SshCaller), NEW c \in SshCaller
  PROVE  /\ Append(w, c) \in Seq(SshCaller) /\ DOMAIN Append(w, c) = DOMAIN w \cup {Len(w) + 1}
         /\ Append(w, c)[Len(w) + 1] = c /\ \A i \in DOMAIN w : Append(w, c)[i] = w[i]
  OBVIOUS

LEMMA QueueKept ==
  ASSUME QueueOK, NEW t \in DOMAIN sess, sess'[t].waiters = sess[t].waiters,
         NEW i \in DOMAIN sess'[t].waiters,
         at'[sess[t].waiters[i]] = at[sess[t].waiters[i]],
         on'[sess[t].waiters[i]].s = on[sess[t].waiters[i]].s
  PROVE  /\ at'[sess'[t].waiters[i]] = "wait" /\ on'[sess'[t].waiters[i]].s = t
         /\ \A j \in DOMAIN sess'[t].waiters : sess'[t].waiters[i] = sess'[t].waiters[j] => i = j
  BY DEF QueueOK

LEMMA SameLen == ASSUME NEW S, NEW q \in Seq(S), NEW r \in Seq(S), Len(q) = Len(r)
                 PROVE  DOMAIN q = DOMAIN r
  OBVIOUS

LEMMA SeqDomain == ASSUME NEW S, NEW q \in Seq(S) PROVE Len(q) \in Nat /\ DOMAIN q = 1 .. Len(q)
  OBVIOUS

LEMMA ZeroOr == ASSUME NEW n \in Nat, NEW a, NEW b \in {0, a}, a <= n PROVE b <= n
  OBVIOUS

LEMMA HoldersSame ==
  ASSUME OneHolder, UNCHANGED <<table, cut>>, DOMAIN sess' = DOMAIN sess,
         \A t \in DOMAIN sess : sess'[t].key = sess[t].key /\ (sess'[t].busy <=> sess[t].busy),
         \A d \in SshCaller, t \in DOMAIN sess : Holds(d, t)' <=> Holds(d, t)
  PROVE  OneHolder'
  BY ZenonT(30) DEF OneHolder

LEMMA OnMoves ==
  ASSUME on \in [SshCaller -> [s : Nat, x : Nat]], NEW c \in SshCaller, NEW n \in Nat,
         on' = [on EXCEPT ![c].s = n]
  PROVE  /\ on' \in [SshCaller -> [s : Nat, x : Nat]] /\ on'[c].s = n
         /\ \A d \in SshCaller : d # c => on'[d] = on[d]
  BY ZenonT(30)

LEMMA HoldOldKeeps == ASSUME PoolInv, NEW c \in SshCaller, HoldOld(c) PROVE PoolInv'
<1>s. PICK s : s = table[KeyOf[c]]
  BY ZenonT(30)
<1>1. PoolTypes /\ FlightInv /\ TryOK /\ QueueOK /\ OneHolder /\ QueueHeld /\ RangesOK /\ TableOK
  BY ZenonT(30) DEF PoolInv, FlightInv
<1>t. /\ at \in [SshCaller -> Places] /\ sess \in Seq(SessionRec)
      /\ on \in [SshCaller -> [s : Nat, x : Nat]]
  BY ZenonT(30), <1>1 DEF PoolTypes
<1>u. at[c] = "start" /\ UNCHANGED <<table, cut, shell, loop, try>>
  BY ZenonT(30) DEF HoldOld, conns, admin
<1>2. /\ KeyOf[c] \in Key /\ s \in DOMAIN sess /\ s \in Nat /\ sess[s] \in SessionRec /\ s \notin cut
      /\ sess[s].key = KeyOf[c]
  <2>1. KeyOf[c] \in Key /\ s # 0
    BY ZenonT(30), <1>s DEF HoldOld, Key
  <2>2. s \in DOMAIN sess /\ s \in Nat
    BY <1>1, <1>s, <2>1 DEF RangesOK, PoolTypes
  <2> QED
    BY <1>1, <1>s, <1>t, <2>1, <2>2 DEF TableOK
<1>3. CASE Goto(c, "done") /\ UNCHANGED <<sess, on>>
  BY ZenonT(30), <1>u, <1>3, GivesUp DEF Goto
<1>4. ASSUME NEW w \in {"enter", "wait"}, at' = [at EXCEPT ![c] = w], on' = [on EXCEPT ![c].s = s],
             NEW r \in SessionRec, sess' = [sess EXCEPT ![s] = r],
             r.key = sess[s].key, r.shell = sess[s].shell, r.ka = sess[s].ka
      PROVE  /\ PoolTypes' /\ TryOK' /\ RangesOK' /\ TableOK' /\ DialClear' /\ NoLeakedShell'
             /\ DOMAIN sess' = DOMAIN sess /\ sess'[s] = r
             /\ \A t \in DOMAIN sess : t # s => sess'[t] = sess[t]
             /\ at'[c] = w /\ on'[c].s = s
             /\ \A d \in SshCaller : d # c => at'[d] = at[d] /\ on'[d] = on[d]
  <2>1. /\ sess' \in Seq(SessionRec) /\ Len(sess') = Len(sess) /\ DOMAIN sess' = DOMAIN sess
        /\ \A t \in DOMAIN sess : sess'[t] = IF t = s THEN r ELSE sess[t]
    BY <1>t, <1>2, <1>4
  <2>2. at' \in [SshCaller -> Places] /\ \A d \in SshCaller : at'[d] = IF d = c THEN w ELSE at[d]
    BY ZenonT(30), <1>t, <1>4 DEF Places, Working
  <2>3. /\ on' \in [SshCaller -> [s : Nat, x : Nat]] /\ on'[c].s = s
        /\ \A d \in SshCaller : d # c => on'[d] = on[d]
    BY ZenonT(30), <1>2, <1>4, <1>t
  <2>4. PoolTypes'
    BY ZenonT(30), <1>1, <1>u, <2>1, <2>2, <2>3 DEF PoolTypes
  <2>5. RangesOK' /\ TableOK' /\ DialClear' /\ NoLeakedShell'
    <3>1. \A t \in DOMAIN sess : /\ sess'[t].key = sess[t].key /\ sess'[t].shell = sess[t].shell
                                 /\ sess'[t].ka = sess[t].ka
      BY ZenonT(30), <1>4
    <3>2. \A d \in SshCaller : at'[d] \in Working \cup {"wait"} => on'[d].s \in DOMAIN sess
      BY ZenonT(30), <1>1, <1>2, <2>2, <2>3 DEF RangesOK
    <3>3. \A d \in SshCaller : at'[d] \in {"dial", "dialed", "send", "await", "reset"} =>
                                at'[d] = at[d] /\ on'[d] = on[d]
      BY ZenonT(30), <2>2, <2>3
    <3> QED
      BY ZenonT(30), <1>1, <1>u, <2>1, <2>2, <3>1, <3>2, <3>3, QueuesChange
  <2>6. TryOK'
    <3>1. TryAt(w, try[c])
      BY ZenonT(30), <1>1, <1>u DEF TryOK, TryAt, Before
    <3> QED
      BY ZenonT(30), <1>1, <1>u, <2>2, <3>1, TryFrom
  <2> QED
    BY ZenonT(30), <1>2, <2>1, <2>2, <2>3, <2>4, <2>5, <2>6
<1>5. \A t \in DOMAIN sess : \A i \in DOMAIN sess[t].waiters :
        sess[t].waiters[i] \in SshCaller /\ sess[t].waiters[i] # c
  <2>1. \A t \in DOMAIN sess : \A i \in DOMAIN sess[t].waiters : sess[t].waiters[i] \in SshCaller
    BY ZenonT(30), <1>t, RecFacts
  <2> QED
    BY ZenonT(30), <1>1, <1>u, <2>1 DEF QueueOK
<1>6. CASE /\ Unheld(sess[s]) /\ sess' = [sess EXCEPT ![s].busy = TRUE, ![s].state = "busy"]
           /\ Goto(c, "enter") /\ on' = [on EXCEPT ![c].s = s]
  <2> DEFINE r == [sess[s] EXCEPT !.busy = TRUE, !.state = "busy"]
  <2>1. /\ r \in SessionRec /\ r.key = sess[s].key /\ r.shell = sess[s].shell /\ r.ka = sess[s].ka
        /\ r.busy /\ r.waiters = sess[s].waiters
    BY ZenonT(30), <1>2 DEF SessionRec
  <2>2. sess' = [sess EXCEPT ![s] = r] /\ at' = [at EXCEPT ![c] = "enter"]
    BY ZenonT(30), <1>6 DEF Goto
  <2> HIDE DEF r
  <2>3. /\ PoolTypes' /\ TryOK' /\ RangesOK' /\ TableOK' /\ DialClear' /\ NoLeakedShell'
        /\ DOMAIN sess' = DOMAIN sess /\ sess'[s] = r
        /\ \A t \in DOMAIN sess : t # s => sess'[t] = sess[t]
        /\ at'[c] = "enter" /\ on'[c].s = s
        /\ \A d \in SshCaller : d # c => at'[d] = at[d] /\ on'[d] = on[d]
    BY ZenonT(30), <1>4, <1>6, <2>1, <2>2
  <2>4. ~sess[s].busy /\ sess[s].waiters = <<>>
    BY ZenonT(30), <1>6 DEF Unheld
  <2>5. \A d \in SshCaller, t \in DOMAIN sess : Holds(d, t)' <=> (Holds(d, t) \/ (d = c /\ t = s))
    BY ZenonT(30), <1>u, <2>3 DEF Holds, Working
  <2>6. \A d \in SshCaller : ~Holds(d, s)
    BY ZenonT(30), <1>1, <1>2, <2>4 DEF OneHolder
  <2>7. OneHolder'
    <3>1. table' = table /\ cut' = cut /\ DOMAIN sess' = DOMAIN sess
      BY Zenon, <1>u, <2>3
    <3> SUFFICES ASSUME NEW t \in DOMAIN sess, t \notin cut
                 PROVE  /\ \A d, e \in SshCaller : Holds(d, t)' /\ Holds(e, t)' => d = e
                        /\ sess'[t].busy <=> \E d \in SshCaller : Holds(d, t)'
                        /\ sess'[t].busy => table[sess'[t].key] = t
      BY ZenonT(30), <3>1 DEF OneHolder
    <3>2. CASE t # s
      <4>1. sess'[t] = sess[t] /\ \A d \in SshCaller : Holds(d, t)' <=> Holds(d, t)
        BY ZenonT(30), <2>3, <2>5, <3>2
      <4> QED
        BY ZenonT(30), <1>1, <4>1 DEF OneHolder
    <3>3. CASE t = s
      <4>1. Holds(c, s)' /\ \A d, e \in SshCaller : Holds(d, s)' /\ Holds(e, s)' => d = e
        BY ZenonT(30), <1>2, <2>5, <2>6
      <4>2. sess'[s].busy /\ table[sess'[s].key] = s
        BY ZenonT(30), <1>2, <1>s, <2>1, <2>3
      <4> QED
        BY ZenonT(30), <3>3, <4>1, <4>2
    <3> QED
      BY Zenon, <3>2, <3>3
  <2>8. QueueHeld'
    <3>1. \A t \in DOMAIN sess : sess'[t].waiters = sess[t].waiters
      BY ZenonT(30), <2>1, <2>3
    <3> QED
      BY ZenonT(30), <1>1, <2>3, <2>5 DEF QueueHeld
  <2>9. QueueOK'
    <3>1. \A t \in DOMAIN sess : sess'[t].waiters = sess[t].waiters
      BY ZenonT(30), <2>1, <2>3
    <3> QED
      <4>1. DOMAIN sess' = DOMAIN sess
        BY Zenon, <2>3
      <4> SUFFICES ASSUME NEW t \in DOMAIN sess, NEW i \in DOMAIN sess'[t].waiters
                   PROVE  /\ at'[sess'[t].waiters[i]] = "wait" /\ on'[sess'[t].waiters[i]].s = t
                          /\ \A j \in DOMAIN sess'[t].waiters :
                                sess'[t].waiters[i] = sess'[t].waiters[j] => i = j
        BY ZenonT(30), <4>1 DEF QueueOK
      <4>2. i \in DOMAIN sess[t].waiters
        BY Zenon, <3>1
      <4>3. /\ at'[sess[t].waiters[i]] = at[sess[t].waiters[i]]
            /\ on'[sess[t].waiters[i]].s = on[sess[t].waiters[i]].s
        BY Zenon, <1>5, <2>3, <4>2
      <4> QED
        BY ZenonT(30), <1>1, <3>1, <4>3, QueueKept
  <2> QED
    BY ZenonT(30), <2>3, <2>7, <2>8, <2>9 DEF PoolInv, FlightInv
<1>7. CASE /\ ~Unheld(sess[s]) /\ sess' = [sess EXCEPT ![s].waiters = Append(@, c)]
           /\ Goto(c, "wait") /\ on' = [on EXCEPT ![c].s = s]
  <2> DEFINE W == Append(sess[s].waiters, c)
             r == [sess[s] EXCEPT !.waiters = W]
  <2>1. /\ sess[s].waiters \in Seq(SshCaller) /\ Len(sess[s].waiters) \in Nat
        /\ DOMAIN sess[s].waiters = 1 .. Len(sess[s].waiters)
    <3>1. sess[s].waiters \in Seq(SshCaller)
      BY Zenon, <1>2, <1>t, RecFacts
    <3> QED
      BY Zenon, <3>1, SeqDomain
  <2>2. /\ W \in Seq(SshCaller) /\ DOMAIN W = DOMAIN sess[s].waiters \cup {Len(sess[s].waiters) + 1}
        /\ W[Len(sess[s].waiters) + 1] = c
        /\ \A i \in DOMAIN sess[s].waiters : W[i] = sess[s].waiters[i]
    BY ZenonT(30), <2>1, Appended
  <2> HIDE DEF W
  <2>3. /\ r \in SessionRec /\ r.key = sess[s].key /\ r.shell = sess[s].shell /\ r.ka = sess[s].ka
        /\ (r.busy <=> sess[s].busy) /\ r.waiters = W
    BY ZenonT(30), <1>2, <2>2 DEF SessionRec
  <2>4. sess' = [sess EXCEPT ![s] = r] /\ at' = [at EXCEPT ![c] = "wait"]
    BY ZenonT(30), <1>7 DEF Goto, W
  <2> HIDE DEF r
  <2>5. /\ PoolTypes' /\ TryOK' /\ RangesOK' /\ TableOK' /\ DialClear' /\ NoLeakedShell'
        /\ DOMAIN sess' = DOMAIN sess /\ sess'[s] = r
        /\ \A t \in DOMAIN sess : t # s => sess'[t] = sess[t]
        /\ at'[c] = "wait" /\ on'[c].s = s
        /\ \A d \in SshCaller : d # c => at'[d] = at[d] /\ on'[d] = on[d]
    BY ZenonT(30), <1>4, <1>7, <2>3, <2>4
  <2>6. \A d \in SshCaller, t \in DOMAIN sess : Holds(d, t)' <=> Holds(d, t)
    BY ZenonT(30), <1>u, <2>5 DEF Holds, Working
  <2>7. \E d \in SshCaller : Holds(d, s)
    BY ZenonT(30), <1>1, <1>2, <1>7 DEF OneHolder, QueueHeld, Unheld
  <2>8. OneHolder'
    <3>1. \A t \in DOMAIN sess : sess'[t].key = sess[t].key /\ (sess'[t].busy <=> sess[t].busy)
      BY ZenonT(30), <2>3, <2>5
    <3> QED
      BY ZenonT(30), <1>1, <1>u, <2>5, <2>6, <3>1, HoldersSame
  <2>9. QueueHeld'
    <3>1. \A t \in DOMAIN sess : sess'[t].waiters # <<>> => \E d \in SshCaller : Holds(d, t)
      BY ZenonT(30), <1>1, <2>5, <2>7 DEF QueueHeld
    <3> QED
      BY ZenonT(30), <2>5, <2>6, <3>1 DEF QueueHeld
  <2>10. QueueOK'
    <3>1. ASSUME NEW t \in DOMAIN sess, t # s, NEW i \in DOMAIN sess'[t].waiters
          PROVE  /\ at'[sess'[t].waiters[i]] = "wait" /\ on'[sess'[t].waiters[i]].s = t
                 /\ \A j \in DOMAIN sess'[t].waiters :
                       sess'[t].waiters[i] = sess'[t].waiters[j] => i = j
      <4>1. sess'[t].waiters = sess[t].waiters /\ i \in DOMAIN sess[t].waiters
        BY Zenon, <2>5, <3>1
      <4>2. /\ at'[sess[t].waiters[i]] = at[sess[t].waiters[i]]
          /\ on'[sess[t].waiters[i]].s = on[sess[t].waiters[i]].s
        BY Zenon, <1>5, <2>5, <3>1, <4>1
      <4> QED
        BY ZenonT(30), <1>1, <4>1, <4>2, QueueKept
    <3>2. ASSUME NEW i \in DOMAIN W
          PROVE  /\ at'[W[i]] = "wait" /\ on'[W[i]].s = s
                 /\ \A j \in DOMAIN W : W[i] = W[j] => i = j
      <4>1. ASSUME NEW k \in DOMAIN sess[s].waiters
            PROVE  /\ at'[sess[s].waiters[k]] = "wait" /\ on'[sess[s].waiters[k]].s = s
                   /\ sess[s].waiters[k] # c
                   /\ \A j \in DOMAIN sess[s].waiters :
                         sess[s].waiters[k] = sess[s].waiters[j] => k = j
        <5>1. /\ at[sess[s].waiters[k]] = "wait" /\ on[sess[s].waiters[k]].s = s
              /\ \A j \in DOMAIN sess[s].waiters : sess[s].waiters[k] = sess[s].waiters[j] => k = j
          BY Zenon, <1>1, <1>2, <4>1 DEF QueueOK
        <5>2. sess[s].waiters[k] \in SshCaller /\ sess[s].waiters[k] # c
          BY Zenon, <1>2, <1>5, <4>1
        <5>3. /\ at'[sess[s].waiters[k]] = at[sess[s].waiters[k]]
              /\ on'[sess[s].waiters[k]] = on[sess[s].waiters[k]]
          BY Zenon, <2>5, <5>2
        <5> QED
          BY Zenon, <5>1, <5>2, <5>3
      <4>2. Len(sess[s].waiters) + 1 \notin DOMAIN sess[s].waiters
        BY <2>1
      <4>3. at'[c] = "wait" /\ on'[c].s = s
        BY Zenon, <2>5
      <4> QED
        BY ZenonT(30), <2>2, <3>2, <4>1, <4>2, <4>3, QueueJoined
    <3>3. DOMAIN sess' = DOMAIN sess /\ sess'[s].waiters = W
      BY Zenon, <2>3, <2>5
    <3> QED
      <4>1. \A t \in DOMAIN sess : t # s => QueueAfter(sess'[t].waiters, t)
        BY ZenonT(30), <3>1 DEF QueueAfter
      <4>2. QueueAfter(W, s)
        BY ZenonT(30), <3>2 DEF QueueAfter
      <4> QED
        BY Zenon, <1>2, <3>3, <4>1, <4>2, QueueCases
  <2> QED
    BY ZenonT(30), <2>5, <2>8, <2>9, <2>10 DEF PoolInv, FlightInv
<1> QED
  BY ZenonT(30), <1>3, <1>6, <1>7, <1>s DEF HoldOld

\* A queue without its j-th caller.
Without(w, j) == SubSeq(w, 1, j - 1) \o SubSeq(w, j + 1, Len(w))
Skip(i, j) == IF i < j THEN i ELSE i + 1

LEMMA Removed ==
  ASSUME NEW w \in Seq(SshCaller), NEW j \in DOMAIN w
  PROVE  /\ Without(w, j) \in Seq(SshCaller)
         /\ \A i \in DOMAIN Without(w, j) : /\ Skip(i, j) \in DOMAIN w /\ Skip(i, j) # j
                                            /\ Without(w, j)[i] = w[Skip(i, j)]
         /\ \A i, k \in DOMAIN Without(w, j) : Skip(i, j) = Skip(k, j) => i = k
         /\ Without(w, j) # <<>> => w # <<>>
<1> DEFINE a == SubSeq(w, 1, j - 1)
           b == SubSeq(w, j + 1, Len(w))
<1>1. Len(w) \in Nat /\ j \in 1 .. Len(w)
  OBVIOUS
<1>2. a \in Seq(SshCaller) /\ Len(a) = j - 1 /\ \A i \in 1 .. j - 1 : a[i] = w[i]
  OBVIOUS
<1>3. b \in Seq(SshCaller) /\ Len(b) = Len(w) - j /\ \A i \in 1 .. Len(w) - j : b[i] = w[j + i]
  <2>1. \A i \in 1 .. Len(w) - j : j + 1 + i - 1 = j + i
    OBVIOUS
  <2>2. CASE j = Len(w)
    OBVIOUS
  <2>3. CASE j < Len(w)
    OBVIOUS
  <2> QED
    OBVIOUS
<1> HIDE DEF a, b
<1>4. a \o b \in Seq(SshCaller) /\ Len(a \o b) = Len(w) - 1
  BY <1>2, <1>3
<1>5. \A i \in 1 .. Len(w) - 1 : (a \o b)[i] = w[Skip(i, j)]
  <2> SUFFICES ASSUME NEW i \in 1 .. Len(w) - 1 PROVE (a \o b)[i] = w[Skip(i, j)]
    BY ZenonT(30)
  <2>1. CASE i < j
    <3>1. i \in 1 .. j - 1 /\ Skip(i, j) = i
      BY <2>1 DEF Skip
    <3>2. (a \o b)[i] = a[i]
      BY SMTT(30), <1>2, <3>1
    <3> QED
      BY <1>2, <3>1
  <2>2. CASE ~(i < j)
    <3>1. i - (j - 1) \in 1 .. Len(w) - j /\ Skip(i, j) = i + 1 /\ j + (i - (j - 1)) = i + 1
      BY <2>2 DEF Skip
    <3>2. (a \o b)[i] = b[i - (j - 1)]
      <4>1. /\ i \in 1 .. Len(a) + Len(b) /\ ~(i <= Len(a)) /\ i - Len(a) = i - (j - 1)
            /\ a \in Seq(SshCaller) /\ b \in Seq(SshCaller)
        BY <1>2, <1>3, <2>2
      <4>2. (a \o b)[i] = b[i - Len(a)]
        BY <4>1
      <4> QED
        BY <4>1
    <3> QED
      BY ZenonT(30), <1>3, <3>1, <3>2
  <2> QED
    BY ZenonT(30), <2>1, <2>2
<1>6. Without(w, j) = a \o b
  BY ZenonT(30) DEF Without, a, b
<1>7. DOMAIN (a \o b) = 1 .. Len(w) - 1
  BY <1>4
<1>8. /\ \A i \in 1 .. Len(w) - 1 : Skip(i, j) \in 1 .. Len(w) /\ Skip(i, j) # j
      /\ \A i, k \in 1 .. Len(w) - 1 : Skip(i, j) = Skip(k, j) => i = k
  BY DEF Skip
<1>9. w # <<>>
  OBVIOUS
<1>10. DOMAIN w = 1 .. Len(w) /\ DOMAIN Without(w, j) = 1 .. Len(w) - 1
  BY <1>6, <1>7
<1> QED
  BY <1>4, <1>5, <1>6, <1>8, <1>9, <1>10, ZenonT(30)

LEMMA WaitEndsKeeps == ASSUME PoolInv, NEW c \in SshCaller, WaitEnds(c) PROVE PoolInv'
<1> DEFINE s == on[c].s
<1>1. PoolTypes /\ FlightInv /\ TryOK /\ QueueOK /\ OneHolder /\ QueueHeld /\ RangesOK
  BY ZenonT(30) DEF PoolInv, FlightInv
<1>t. at \in [SshCaller -> Places] /\ sess \in Seq(SessionRec)
  BY ZenonT(30), <1>1 DEF PoolTypes
<1>u. at[c] = "wait" /\ UNCHANGED <<table, cut, shell, loop, on, try>>
  BY ZenonT(30) DEF WaitEnds, conns, calls, admin
<1>v. at' = [at EXCEPT ![c] = "done"]
  BY ZenonT(30) DEF WaitEnds, Goto
<1>2. s \in DOMAIN sess /\ sess[s] \in SessionRec /\ sess[s].waiters \in Seq(SshCaller)
  <2>1. s \in DOMAIN sess
    BY ZenonT(30), <1>1, <1>u DEF RangesOK
  <2> QED
    BY ZenonT(30), <1>t, <2>1, RecFacts
<1>3. PICK j \in DOMAIN sess[s].waiters :
        /\ sess[s].waiters[j] = c
        /\ sess' = [sess EXCEPT ![s] = [sess[s] EXCEPT !.waiters = Without(sess[s].waiters, j)]]
  BY ZenonT(30) DEF WaitEnds, Mine, Without
<1> DEFINE w == sess[s].waiters
           v == Without(w, j)
           r == [sess[s] EXCEPT !.waiters = v]
<1>4. /\ v \in Seq(SshCaller)
      /\ \A i \in DOMAIN v : Skip(i, j) \in DOMAIN w /\ Skip(i, j) # j /\ v[i] = w[Skip(i, j)]
      /\ \A i, k \in DOMAIN v : Skip(i, j) = Skip(k, j) => i = k
      /\ v # <<>> => w # <<>>
  BY ZenonT(30), <1>2, Removed
<1> HIDE DEF v
<1>5. /\ r \in SessionRec /\ r.key = sess[s].key /\ r.shell = sess[s].shell /\ r.ka = sess[s].ka
      /\ (r.busy <=> sess[s].busy) /\ r.waiters = v
  BY ZenonT(30), <1>2, <1>4 DEF SessionRec
<1>6. sess' = [sess EXCEPT ![s] = r]
  BY ZenonT(30), <1>3 DEF v
<1> HIDE DEF r
<1>7. /\ sess' \in Seq(SessionRec) /\ Len(sess') = Len(sess) /\ DOMAIN sess' = DOMAIN sess
      /\ \A t \in DOMAIN sess : sess'[t] = IF t = s THEN r ELSE sess[t]
  BY <1>t, <1>2, <1>5, <1>6
<1>8. at' \in [SshCaller -> Places] /\ \A d \in SshCaller : at'[d] = IF d = c THEN "done" ELSE at[d]
  BY ZenonT(30), <1>t, <1>v DEF Places
<1>9. PoolTypes'
  BY ZenonT(30), <1>1, <1>u, <1>7, <1>8 DEF PoolTypes
<1>10. \A t \in DOMAIN sess : /\ sess'[t].key = sess[t].key /\ sess'[t].shell = sess[t].shell
                              /\ sess'[t].ka = sess[t].ka /\ (sess'[t].busy <=> sess[t].busy)
  BY ZenonT(30), <1>5, <1>7
<1>11. RangesOK' /\ TableOK' /\ DialClear' /\ NoLeakedShell'
  <2>1. \A d \in SshCaller : at'[d] \in Working \cup {"wait"} => on'[d].s \in DOMAIN sess
    BY ZenonT(30), <1>1, <1>u, <1>8 DEF RangesOK
  <2> QED
    BY ZenonT(30), <1>1, <1>u, <1>7, <1>8, <1>10, <2>1, QueuesChange
<1>12. \A d \in SshCaller, t \in DOMAIN sess : Holds(d, t)' <=> Holds(d, t)
  BY ZenonT(30), <1>u, <1>8 DEF Holds, Working
<1>13. OneHolder'
  BY ZenonT(30), <1>1, <1>u, <1>7, <1>10, <1>12, HoldersSame
<1>14. QueueHeld'
  <2>1. \A t \in DOMAIN sess : sess'[t].waiters # <<>> => sess[t].waiters # <<>>
    BY SMTT(30), <1>7
  <2> QED
    BY <1>1, <1>7, <1>12 DEF QueueHeld
<1>15. QueueOK'
  <2>1. \A t \in DOMAIN sess : \A i \in DOMAIN sess[t].waiters : sess[t].waiters[i] \in SshCaller
    BY ZenonT(30), <1>t, RecFacts
  <2>2. ASSUME NEW t \in DOMAIN sess, t # s, NEW i \in DOMAIN sess[t].waiters
        PROVE  sess[t].waiters[i] # c
    BY <1>1, <2>2 DEF QueueOK
  <2>3. ASSUME NEW t \in DOMAIN sess, t # s, NEW i \in DOMAIN sess'[t].waiters
        PROVE  /\ at'[sess'[t].waiters[i]] = "wait" /\ on'[sess'[t].waiters[i]].s = t
               /\ \A k \in DOMAIN sess'[t].waiters :
                     sess'[t].waiters[i] = sess'[t].waiters[k] => i = k
    <3>1. sess'[t].waiters = sess[t].waiters /\ i \in DOMAIN sess[t].waiters
      BY Zenon, <1>7, <2>3
    <3>2. /\ at'[sess[t].waiters[i]] = at[sess[t].waiters[i]]
        /\ on'[sess[t].waiters[i]].s = on[sess[t].waiters[i]].s
      BY Zenon, <1>u, <1>8, <2>1, <2>2, <2>3, <3>1
    <3> QED
      BY ZenonT(30), <1>1, <3>1, <3>2, QueueKept
  <2>4. ASSUME NEW i \in DOMAIN v
        PROVE  /\ at'[v[i]] = "wait" /\ on'[v[i]].s = s /\ \A k \in DOMAIN v : v[i] = v[k] => i = k
    <3>1. /\ \A m \in DOMAIN w : at[w[m]] = "wait" /\ on[w[m]].s = s /\ w[m] \in SshCaller
          /\ \A m, k \in DOMAIN w : w[m] = w[k] => m = k
      BY ZenonT(30), <1>1, <1>2, <2>1 DEF QueueOK
    <3>2. w[Skip(i, j)] # c
      BY ZenonT(30), <1>3, <1>4, <3>1
    <3>3. at'[v[i]] = "wait" /\ on'[v[i]].s = s
      <4>1. v[i] \in SshCaller /\ v[i] # c /\ at[v[i]] = "wait" /\ on[v[i]].s = s
        <5>1. v[i] = w[Skip(i, j)] /\ Skip(i, j) \in DOMAIN w
          BY ZenonT(30), <1>4
        <5>2. w[Skip(i, j)] \in SshCaller /\ at[w[Skip(i, j)]] = "wait" /\ on[w[Skip(i, j)]].s = s
          BY ZenonT(30), <3>1, <5>1
        <5> QED
          BY ZenonT(30), <3>2, <5>1, <5>2
      <4>2. on' = on /\ at'[v[i]] = at[v[i]]
        BY ZenonT(30), <1>u, <1>8, <4>1
      <4> QED
        BY Zenon, <4>1, <4>2
    <3>4. ASSUME NEW k \in DOMAIN v, v[i] = v[k] PROVE i = k
      <4>1. /\ v[i] = w[Skip(i, j)] /\ Skip(i, j) \in DOMAIN w
            /\ v[k] = w[Skip(k, j)] /\ Skip(k, j) \in DOMAIN w
        BY Zenon, <1>4, <2>4, <3>4
      <4>2. Skip(i, j) = Skip(k, j)
        BY Zenon, <3>1, <3>4, <4>1
      <4> QED
        BY Zenon, <1>4, <2>4, <3>4, <4>2
    <3> QED
      BY Zenon, <3>3, <3>4
  <2>5. DOMAIN sess' = DOMAIN sess /\ sess'[s].waiters = v
    BY ZenonT(30), <1>2, <1>5, <1>7
  <2> QED
    <3>1. \A t \in DOMAIN sess : t # s => QueueAfter(sess'[t].waiters, t)
      BY ZenonT(30), <2>3 DEF QueueAfter
    <3>2. QueueAfter(v, s)
      BY ZenonT(30), <2>4 DEF QueueAfter
    <3> QED
      BY Zenon, <1>2, <2>5, <3>1, <3>2, QueueCases
<1>16. TryOK'
  <2>1. TryAt("done", try[c])
    BY ZenonT(30), <1>1 DEF TryOK, TryAt, Before
  <2> QED
    BY ZenonT(30), <1>1, <1>u, <1>8, <2>1, TryFrom
<1> QED
  BY ZenonT(30), <1>9, <1>11, <1>13, <1>14, <1>15, <1>16 DEF PoolInv, FlightInv

LEMMA Shortened ==
  ASSUME NEW w \in Seq(SshCaller), w # <<>>
  PROVE  /\ Tail(w) \in Seq(SshCaller) /\ 1 \in DOMAIN w /\ Head(w) = w[1] /\ Head(w) \in SshCaller
         /\ \A i \in DOMAIN Tail(w) : i + 1 \in DOMAIN w /\ i + 1 # 1 /\ Tail(w)[i] = w[i + 1]
         /\ \A i, k \in DOMAIN Tail(w) : i + 1 = k + 1 => i = k
<1>1. Len(w) \in Nat /\ DOMAIN w = 1 .. Len(w) /\ Len(w) # 0
  OBVIOUS
<1>2. /\ Tail(w) \in Seq(SshCaller) /\ DOMAIN Tail(w) = 1 .. Len(w) - 1
      /\ \A i \in 1 .. Len(w) - 1 : Tail(w)[i] = w[i + 1]
  OBVIOUS
<1>3. 1 \in DOMAIN w /\ Head(w) = w[1] /\ Head(w) \in SshCaller
  OBVIOUS
<1> QED
  OBVIOUS

\* release, to a waiter or to nobody; c is the only holder it had.
LEMMA ReleaseKeeps == ASSUME PoolInv, NEW c \in SshCaller, Release(c) PROVE PoolInv'
<1>1. PoolTypes /\ FlightInv /\ TryOK /\ QueueOK /\ OneHolder /\ QueueHeld /\ RangesOK
  BY ZenonT(30) DEF PoolInv, FlightInv
<1>t. /\ at \in [SshCaller -> Places] /\ sess \in Seq(SessionRec)
      /\ on \in [SshCaller -> [s : Nat, x : Nat]] /\ try \in [SshCaller -> TryRec]
  BY ZenonT(30), <1>1 DEF PoolTypes
<1>u. at[c] = "release" /\ UNCHANGED <<table, cut, shell, loop>>
  BY ZenonT(30) DEF Release, conns, admin
<1>v. on' = [on EXCEPT ![c] = Nowhere] /\ try' = [try EXCEPT ![c] = FreshTry]
  BY ZenonT(30) DEF Release
<1>s. PICK s \in DOMAIN sess : s = on[c].s
  BY ZenonT(30), <1>1, <1>u DEF RangesOK, Working
<1> DEFINE w == sess[s].waiters
<1>2. s \in DOMAIN sess /\ sess[s] \in SessionRec /\ w \in Seq(SshCaller)
  BY ZenonT(30), <1>t, RecFacts
<1>3. /\ on' \in [SshCaller -> [s : Nat, x : Nat]] /\ \A d \in SshCaller : d # c => on'[d] = on[d]
      /\ on'[c].s = 0 /\ s # 0
  BY <1>t, <1>v DEF Nowhere
<1>4. FreshTry \in TryRec /\ TryAt("done", FreshTry)
  BY DEF FreshTry, TryRec, TryAt
<1>5. /\ try' \in [SshCaller -> TryRec] /\ \A d \in SshCaller : d # c => try'[d] = try[d]
      /\ try'[c] = FreshTry
  BY ZenonT(30), <1>t, <1>v, <1>4
<1>6. Holds(c, s) /\ \A t \in DOMAIN sess : t # s => ~Holds(c, t)
  BY ZenonT(30), <1>u, <1>s DEF Holds, Working
<1>7. \A t \in DOMAIN sess : \A i \in DOMAIN sess[t].waiters :
         sess[t].waiters[i] \in SshCaller /\ sess[t].waiters[i] # c
  <2>1. \A t \in DOMAIN sess : \A i \in DOMAIN sess[t].waiters : sess[t].waiters[i] \in SshCaller
    BY ZenonT(30), <1>t, RecFacts
  <2> QED
    BY ZenonT(30), <1>1, <1>u, <2>1 DEF QueueOK
<1>8. ASSUME NEW r \in SessionRec, sess' = [sess EXCEPT ![s] = r],
             r.key = sess[s].key, r.shell = sess[s].shell, r.ka = sess[s].ka
      PROVE  /\ sess' \in Seq(SessionRec) /\ Len(sess') = Len(sess) /\ DOMAIN sess' = DOMAIN sess
             /\ sess'[s] = r /\ \A t \in DOMAIN sess : t # s => sess'[t] = sess[t]
             /\ \A t \in DOMAIN sess : /\ sess'[t].key = sess[t].key /\ sess'[t].shell = sess[t].shell
                                       /\ sess'[t].ka = sess[t].ka
  <2>1. /\ sess' \in Seq(SessionRec) /\ Len(sess') = Len(sess) /\ DOMAIN sess' = DOMAIN sess
        /\ \A t \in DOMAIN sess : sess'[t] = IF t = s THEN r ELSE sess[t]
    BY <1>t, <1>8
  <2> QED
    BY ZenonT(30), <1>8, <2>1
<1>9. CASE w # <<>>
  <2> DEFINE v == Tail(w)
             h == Head(w)
             r == [sess[s] EXCEPT !.waiters = v, !.busy = TRUE,
                                  !.state = IF @ \in {"dead", "dialing"} THEN @ ELSE "busy"]
  <2>1. /\ v \in Seq(SshCaller) /\ 1 \in DOMAIN w /\ h = w[1] /\ h \in SshCaller
        /\ \A i \in DOMAIN v : i + 1 \in DOMAIN w /\ i + 1 # 1 /\ v[i] = w[i + 1]
        /\ \A i, k \in DOMAIN v : i + 1 = k + 1 => i = k
    BY <1>2, <1>9
  <2>2. sess' = [sess EXCEPT ![s] = r] /\ at' = [at EXCEPT ![c] = "done", ![h] = "enter"]
    BY ZenonT(30), <1>9, <1>s DEF Release, Mine
  <2> HIDE DEF v, h
  <2>3. /\ r \in SessionRec /\ r.key = sess[s].key /\ r.shell = sess[s].shell /\ r.ka = sess[s].ka
        /\ r.busy /\ r.waiters = v
    BY ZenonT(30), <1>2, <2>1 DEF SessionRec
  <2> HIDE DEF r
  <2>4. /\ sess' \in Seq(SessionRec) /\ Len(sess') = Len(sess) /\ DOMAIN sess' = DOMAIN sess
        /\ sess'[s] = r /\ \A t \in DOMAIN sess : t # s => sess'[t] = sess[t]
        /\ \A t \in DOMAIN sess : /\ sess'[t].key = sess[t].key /\ sess'[t].shell = sess[t].shell
                                  /\ sess'[t].ka = sess[t].ka
    BY ZenonT(30), <1>8, <2>2, <2>3
  <2>5. h # c /\ at[h] = "wait" /\ on[h].s = s
    BY ZenonT(30), <1>1, <1>7, <2>1 DEF QueueOK
  <2>6. /\ at' \in [SshCaller -> Places] /\ at'[c] = "done" /\ at'[h] = "enter"
        /\ \A d \in SshCaller : d # c /\ d # h => at'[d] = at[d]
    BY ZenonT(30), <1>t, <2>1, <2>2, <2>5 DEF Places, Working
  <2>7. PoolTypes'
    BY ZenonT(30), <1>1, <1>u, <1>3, <1>5, <2>4, <2>6 DEF PoolTypes
  <2>8. RangesOK' /\ TableOK' /\ DialClear' /\ NoLeakedShell'
    <3>1. \A d \in SshCaller : at'[d] \in Working \cup {"wait"} => on'[d].s \in DOMAIN sess
      BY ZenonT(30), <1>1, <1>3, <2>5, <2>6 DEF RangesOK, Working
    <3>2. \A d \in SshCaller : at'[d] \in {"dial", "dialed", "send", "await", "reset"} =>
                                at'[d] = at[d] /\ on'[d] = on[d]
      BY ZenonT(30), <1>3, <2>6
    <3> QED
      BY ZenonT(30), <1>1, <1>u, <2>4, <2>6, <3>1, <3>2, QueuesChange
  <2>9. \A d \in SshCaller, t \in DOMAIN sess :
          Holds(d, t)' <=> (d # c /\ Holds(d, t)) \/ (d = h /\ t = s)
    BY ZenonT(30), <1>3, <2>5, <2>6 DEF Holds, Working
  <2>10. OneHolder'
    <3>1. s \notin cut => \A d \in SshCaller : Holds(d, s) => d = c
      BY ZenonT(30), <1>1, <1>6 DEF OneHolder
    <3>2. ASSUME s \notin cut
          PROVE  /\ \A d, e \in SshCaller : Holds(d, s)' /\ Holds(e, s)' => d = e
                 /\ \E d \in SshCaller : Holds(d, s)'
                 /\ table[sess[s].key] = s
      <4>1. sess[s].busy
        BY ZenonT(30), <1>1, <1>6, <3>2 DEF OneHolder
      <4> QED
        BY ZenonT(30), <1>1, <1>u, <1>2, <2>1, <2>9, <3>1, <3>2, <4>1 DEF OneHolder
    <3>3. ASSUME NEW t \in DOMAIN sess, t # s, t \notin cut
          PROVE  /\ \A d, e \in SshCaller : Holds(d, t)' /\ Holds(e, t)' => d = e
                 /\ sess'[t].busy <=> \E d \in SshCaller : Holds(d, t)'
                 /\ sess'[t].busy => table[sess[t].key] = t
      <4>1. \A d \in SshCaller : Holds(d, t)' <=> Holds(d, t)
        BY ZenonT(30), <1>6, <2>9, <3>3
      <4> QED
        BY ZenonT(30), <1>1, <2>4, <3>3, <4>1 DEF OneHolder
    <3> QED
      <4>1. table' = table /\ cut' = cut /\ DOMAIN sess' = DOMAIN sess
        BY Zenon, <1>u, <2>4
      <4> SUFFICES ASSUME NEW t \in DOMAIN sess, t \notin cut
                   PROVE  /\ \A d, e \in SshCaller : Holds(d, t)' /\ Holds(e, t)' => d = e
                          /\ sess'[t].busy <=> \E d \in SshCaller : Holds(d, t)'
                          /\ sess'[t].busy => table[sess'[t].key] = t
        BY ZenonT(30), <4>1 DEF OneHolder
      <4>2. CASE t = s
        BY ZenonT(30), <2>3, <2>4, <3>2, <4>2
      <4>3. CASE t # s
        BY ZenonT(30), <2>4, <3>3, <4>3
      <4> QED
        BY Zenon, <4>2, <4>3
  <2>11. QueueHeld'
    <3>1. \E d \in SshCaller : Holds(d, s)'
      BY ZenonT(30), <2>1, <2>9
    <3>2. \A t \in DOMAIN sess : t # s /\ sess[t].waiters # <<>> => \E d \in SshCaller : Holds(d, t)'
      BY ZenonT(30), <1>1, <1>6, <2>9 DEF QueueHeld
    <3> QED
      BY ZenonT(30), <2>4, <3>1, <3>2 DEF QueueHeld
  <2>12. QueueOK'
    <3>1. /\ \A m \in DOMAIN w : at[w[m]] = "wait" /\ on[w[m]].s = s /\ w[m] \in SshCaller /\ w[m] # c
          /\ \A m, k \in DOMAIN w : w[m] = w[k] => m = k
      BY <1>1, <1>7 DEF QueueOK
    <3>2. ASSUME NEW t \in DOMAIN sess, t # s, NEW i \in DOMAIN sess[t].waiters
          PROVE  sess[t].waiters[i] # h
      BY SMTT(30), <1>1, <2>5, <3>2 DEF QueueOK
    <3>3. ASSUME NEW t \in DOMAIN sess, t # s, NEW i \in DOMAIN sess'[t].waiters
          PROVE  /\ at'[sess'[t].waiters[i]] = "wait" /\ on'[sess'[t].waiters[i]].s = t
                 /\ \A k \in DOMAIN sess'[t].waiters :
                       sess'[t].waiters[i] = sess'[t].waiters[k] => i = k
      <4>1. sess'[t].waiters = sess[t].waiters /\ i \in DOMAIN sess[t].waiters
        BY Zenon, <2>4, <3>3
      <4>2. /\ at'[sess[t].waiters[i]] = at[sess[t].waiters[i]]
          /\ on'[sess[t].waiters[i]].s = on[sess[t].waiters[i]].s
        BY Zenon, <1>3, <1>7, <2>6, <3>2, <3>3, <4>1
      <4> QED
        BY ZenonT(30), <1>1, <4>1, <4>2, QueueKept
    <3>4. ASSUME NEW i \in DOMAIN v
          PROVE  /\ at'[v[i]] = "wait" /\ on'[v[i]].s = s /\ \A k \in DOMAIN v : v[i] = v[k] => i = k
      <4>1. /\ v[i] = w[i + 1] /\ i + 1 \in DOMAIN w /\ i + 1 # 1
            /\ \A k \in DOMAIN v : v[k] = w[k + 1] /\ k + 1 \in DOMAIN w
        BY ZenonT(30), <2>1
      <4>2. v[i] \in SshCaller /\ v[i] # c /\ v[i] # h /\ at[v[i]] = "wait" /\ on[v[i]].s = s
        <5>1. /\ w[i + 1] \in SshCaller /\ w[i + 1] # c /\ at[w[i + 1]] = "wait"
              /\ on[w[i + 1]].s = s /\ w[i + 1] # w[1]
          BY <2>1, <3>1, Zenon
        <5> QED
          BY ZenonT(30), <2>1, <5>1
      <4>3. at'[v[i]] = at[v[i]] /\ on'[v[i]] = on[v[i]]
        BY ZenonT(30), <1>3, <2>6, <4>2
      <4>4. \A k \in DOMAIN v : v[i] = v[k] => i = k
        BY <2>1, <3>1, <3>4, <4>1, Zenon
      <4> QED
        BY ZenonT(30), <4>2, <4>3, <4>4
    <3>5. DOMAIN sess' = DOMAIN sess /\ sess'[s].waiters = v
      BY ZenonT(30), <2>3, <2>4
    <3> QED
      <4>1. \A t \in DOMAIN sess : t # s => QueueAfter(sess'[t].waiters, t)
        BY ZenonT(30), <3>3 DEF QueueAfter
      <4>2. QueueAfter(v, s)
        BY ZenonT(30), <3>4 DEF QueueAfter
      <4> QED
        BY Zenon, <1>2, <3>5, <4>1, <4>2, QueueCases
  <2>13. TryOK'
    <3>1. TryAt("enter", try[h])
      BY ZenonT(30), <1>1, <2>1, <2>5 DEF TryOK, TryAt, Before
    <3> QED
      BY ZenonT(30), <1>1, <1>4, <1>5, <2>6, <3>1 DEF TryOK
  <2> QED
    BY ZenonT(30), <2>7, <2>8, <2>10, <2>11, <2>12, <2>13 DEF PoolInv, FlightInv
<1>10. CASE w = <<>>
  <2> DEFINE r == [sess[s] EXCEPT !.busy = FALSE,
                                  !.state = IF sess[s].shell # 0 /\ @ # "dead" THEN "idle" ELSE @]
  <2>2. sess' = [sess EXCEPT ![s] = r] /\ at' = [at EXCEPT ![c] = "done"]
    BY ZenonT(30), <1>10, <1>s DEF Release, Mine, Goto
  <2>3. /\ r \in SessionRec /\ r.key = sess[s].key /\ r.shell = sess[s].shell /\ r.ka = sess[s].ka
        /\ ~r.busy /\ r.waiters = <<>>
    BY ZenonT(30), <1>2, <1>10 DEF SessionRec
  <2> HIDE DEF r
  <2>4. /\ sess' \in Seq(SessionRec) /\ Len(sess') = Len(sess) /\ DOMAIN sess' = DOMAIN sess
        /\ sess'[s] = r /\ \A t \in DOMAIN sess : t # s => sess'[t] = sess[t]
        /\ \A t \in DOMAIN sess : /\ sess'[t].key = sess[t].key /\ sess'[t].shell = sess[t].shell
                                  /\ sess'[t].ka = sess[t].ka
    BY ZenonT(30), <1>8, <2>2, <2>3
  <2>6. at' \in [SshCaller -> Places] /\ \A d \in SshCaller : at'[d] = IF d = c THEN "done" ELSE at[d]
    BY ZenonT(30), <1>t, <2>2 DEF Places
  <2>7. PoolTypes'
    BY ZenonT(30), <1>1, <1>u, <1>3, <1>5, <2>4, <2>6 DEF PoolTypes
  <2>8. RangesOK' /\ TableOK' /\ DialClear' /\ NoLeakedShell'
    <3>1. \A d \in SshCaller : at'[d] \in Working \cup {"wait"} => on'[d].s \in DOMAIN sess
      BY ZenonT(30), <1>1, <1>3, <2>6 DEF RangesOK, Working
    <3>2. \A d \in SshCaller : at'[d] \in {"dial", "dialed", "send", "await", "reset"} =>
                                at'[d] = at[d] /\ on'[d] = on[d]
      BY ZenonT(30), <1>3, <2>6
    <3> QED
      BY ZenonT(30), <1>1, <1>u, <2>4, <2>6, <3>1, <3>2, QueuesChange
  <2>9. \A d \in SshCaller, t \in DOMAIN sess : Holds(d, t)' <=> (d # c /\ Holds(d, t))
    BY SMTT(30), <1>t, <1>3, <2>6 DEF Holds
  <2>10. OneHolder'
    <3>1. s \notin cut => \A d \in SshCaller : Holds(d, s) => d = c
      BY ZenonT(30), <1>1, <1>6 DEF OneHolder
    <3>2. s \notin cut => \A d \in SshCaller : ~Holds(d, s)'
      BY ZenonT(30), <2>9, <3>1
    <3>3. ASSUME NEW t \in DOMAIN sess, t # s, t \notin cut
          PROVE  /\ \A d, e \in SshCaller : Holds(d, t)' /\ Holds(e, t)' => d = e
                 /\ sess'[t].busy <=> \E d \in SshCaller : Holds(d, t)'
                 /\ sess'[t].busy => table[sess[t].key] = t
      <4>1. \A d \in SshCaller : Holds(d, t)' <=> Holds(d, t)
        BY ZenonT(30), <1>6, <2>9, <3>3
      <4> QED
        BY ZenonT(30), <1>1, <2>4, <3>3, <4>1 DEF OneHolder
    <3> QED
      <4>1. table' = table /\ cut' = cut /\ DOMAIN sess' = DOMAIN sess
        BY Zenon, <1>u, <2>4
      <4> SUFFICES ASSUME NEW t \in DOMAIN sess, t \notin cut
                   PROVE  /\ \A d, e \in SshCaller : Holds(d, t)' /\ Holds(e, t)' => d = e
                          /\ sess'[t].busy <=> \E d \in SshCaller : Holds(d, t)'
                          /\ sess'[t].busy => table[sess'[t].key] = t
        BY ZenonT(30), <4>1 DEF OneHolder
      <4>2. CASE t = s
        BY ZenonT(30), <2>3, <2>4, <3>2, <4>2
      <4>3. CASE t # s
        BY ZenonT(30), <2>4, <3>3, <4>3
      <4> QED
        BY Zenon, <4>2, <4>3
  <2>11. QueueHeld'
    <3>1. \A t \in DOMAIN sess : t # s /\ sess[t].waiters # <<>> => \E d \in SshCaller : Holds(d, t)'
      BY ZenonT(30), <1>1, <1>6, <2>9 DEF QueueHeld
    <3> QED
      BY ZenonT(30), <2>3, <2>4, <3>1 DEF QueueHeld
  <2>12. QueueOK'
    <3>1. \A t \in DOMAIN sess : sess'[t].waiters = sess[t].waiters
      BY ZenonT(30), <1>10, <2>3, <2>4
    <3>2. \A d \in SshCaller : d # c => at'[d] = at[d] /\ on'[d].s = on[d].s
      BY ZenonT(30), <1>3, <2>6
    <3>3. QueueOK /\ DOMAIN sess' = DOMAIN sess
      BY ZenonT(30), <1>1, <2>4
    <3> QED
      BY <1>7, <3>1, <3>2, <3>3 DEF QueueOK
  <2>13. TryOK'
    BY ZenonT(30), <1>1, <1>4, <1>5, <2>6 DEF TryOK
  <2> QED
    BY ZenonT(30), <2>7, <2>8, <2>10, <2>11, <2>12, <2>13 DEF PoolInv, FlightInv
<1> QED
  BY ZenonT(30), <1>9, <1>10

\* The sessions S leave the table and their shells are closed.  One that is not
\* cut was idle; the callers that Evict wakes were waiting for one that is.
SessionsGone(S) ==
    /\ sess' \in Seq(SessionRec) /\ Len(sess') = Len(sess)
    /\ \A t \in DOMAIN sess : t \notin S => sess'[t] = sess[t]
    /\ \A t \in S : sess'[t].key = sess[t].key /\ sess'[t].shell = 0 /\ sess'[t].ka = 0
    /\ \A t \in S : sess'[t].waiters = <<>> \/ sess'[t].waiters = sess[t].waiters

ShellsGone(S) ==
    /\ shell' \in Seq(ShellStates) /\ Len(shell') = Len(shell)
    /\ \A x \in DOMAIN shell : shell'[x] = "closed" \/ shell'[x] = shell[x]
    /\ \A t \in S : sess[t].shell # 0 => shell'[sess[t].shell] = "closed"

KeysGone(S) ==
    /\ table' \in [Key -> Nat] /\ \A k \in Key : table'[k] = IF table[k] \in S THEN 0 ELSE table[k]
    /\ cut' \subseteq DOMAIN sess /\ cut \subseteq cut' /\ cut' \subseteq cut \cup S
    /\ \A t \in S : t \notin cut' => ~sess[t].busy /\ ~sess'[t].busy

WaitersGone(S) ==
    /\ UNCHANGED <<loop, on, try>> /\ at' \in [SshCaller -> Places]
    /\ \A d \in SshCaller : \/ at'[d] = at[d]
                            \/ /\ at[d] = "wait" /\ at'[d] = "enter" /\ on[d].s \in S
                               /\ on[d].s \in cut' /\ sess'[on[d].s].waiters = <<>>

LEMMA NotEmpty == ASSUME NEW w, NEW i \in DOMAIN w PROVE w # <<>>
  OBVIOUS

LEMMA SessionsDropped ==
  ASSUME PoolInv, NEW S \in SUBSET (DOMAIN sess),
         SessionsGone(S), ShellsGone(S), KeysGone(S), WaitersGone(S)
  PROVE  PoolInv'
<1>1. /\ PoolTypes /\ TryOK /\ RangesOK /\ TableOK /\ QueueOK /\ OneHolder /\ QueueHeld
      /\ DialClear /\ NoLeakedShell
  BY ZenonT(30) DEF PoolInv, FlightInv
<1>2. /\ DOMAIN sess' = DOMAIN sess /\ DOMAIN shell' = DOMAIN shell
      /\ Len(sess') = Len(sess) /\ Len(shell') = Len(shell)
  <2>1. sess \in Seq(SessionRec) /\ shell \in Seq(ShellStates)
    BY Zenon, <1>1 DEF PoolTypes
  <2>2. /\ sess' \in Seq(SessionRec) /\ shell' \in Seq(ShellStates)
        /\ Len(sess') = Len(sess) /\ Len(shell') = Len(shell)
    BY Zenon DEF SessionsGone, ShellsGone
  <2> QED
    BY Zenon, <2>1, <2>2, SameLen
<1>3. PoolTypes'
  <2>1. table' \in [Key -> Nat] /\ cut' \subseteq DOMAIN sess
    BY Zenon DEF KeysGone
  <2>2. at' \in [SshCaller -> Places] /\ loop' = loop /\ on' = on /\ try' = try
    BY Zenon DEF WaitersGone
  <2>3. sess' \in Seq(SessionRec) /\ shell' \in Seq(ShellStates)
    BY Zenon DEF SessionsGone, ShellsGone
  <2> QED
    BY Zenon, <1>1, <1>2, <2>1, <2>2, <2>3 DEF PoolTypes
<1>4. \A t \in DOMAIN sess : sess'[t].key = sess[t].key /\ sess'[t].shell \in {0, sess[t].shell}
                               /\ sess'[t].ka \in {0, sess[t].ka}
  BY ZenonT(30) DEF SessionsGone
<1>5. RangesOK'
  <2>1. \A k \in Key : table'[k] <= Len(sess)
    <3>1. \A k \in Key : table[k] <= Len(sess)
      BY Zenon, <1>1 DEF RangesOK
    <3>2. \A k \in Key : table'[k] \in {0, table[k]}
      BY ZenonT(30) DEF KeysGone
    <3>3. Len(sess) \in Nat
      BY Zenon, <1>1, SeqDomain DEF PoolTypes
    <3> QED
      BY Zenon, <3>1, <3>2, <3>3, ZeroOr
  <2>2. \A t \in DOMAIN sess : sess'[t].shell <= Len(shell) /\ sess'[t].ka <= Len(loop)
    <3>1. Len(shell) \in Nat /\ Len(loop) \in Nat
      BY Zenon, <1>1, SeqDomain DEF PoolTypes
    <3>2. \A t \in DOMAIN sess : sess[t].shell <= Len(shell) /\ sess[t].ka <= Len(loop)
      BY Zenon, <1>1 DEF RangesOK
    <3> QED
      BY Zenon, <1>4, <3>1, <3>2, ZeroOr
  <2>3. Len(loop) = Len(shell) /\ \A x \in DOMAIN loop : loop[x].s \in DOMAIN sess
    BY Zenon, <1>1 DEF RangesOK
  <2>4. \A d \in SshCaller : at'[d] \in Working \cup {"wait"} => on[d].s \in DOMAIN sess
    <3>1. \A d \in SshCaller : at'[d] \in Working \cup {"wait"} => at[d] \in Working \cup {"wait"}
      BY ZenonT(30) DEF WaitersGone
    <3> QED
      BY Zenon, <1>1, <3>1 DEF RangesOK
  <2>5. \A d \in SshCaller : at'[d] \in {"dialed", "send", "await", "reset"} => on[d].x \in DOMAIN shell
    <3>1. \A d \in SshCaller : at'[d] \in {"dialed", "send", "await", "reset"} => at'[d] = at[d]
      BY ZenonT(30) DEF WaitersGone
    <3> QED
      BY Zenon, <1>1, <3>1 DEF RangesOK
  <2>6. loop' = loop /\ on' = on
    BY Zenon DEF WaitersGone
  <2> QED
    BY Zenon, <1>2, <2>1, <2>2, <2>3, <2>4, <2>5, <2>6 DEF RangesOK
<1>6. TableOK'
  <2> SUFFICES ASSUME NEW k \in Key, table'[k] # 0
               PROVE  sess'[table'[k]].key = k /\ table'[k] \notin cut'
    BY Zenon DEF TableOK
  <2>1. table'[k] = table[k] /\ table[k] \notin S /\ table[k] # 0
    BY ZenonT(30) DEF KeysGone
  <2>2. table[k] \in DOMAIN sess
    <3>1. table[k] \in Nat /\ table[k] <= Len(sess) /\ sess \in Seq(SessionRec)
      BY Zenon, <1>1 DEF RangesOK, PoolTypes
    <3> QED
      BY Zenon, <2>1, <3>1, InSessions
  <2>3. sess[table[k]].key = k /\ table[k] \notin cut
    BY Zenon, <1>1, <2>1 DEF TableOK
  <2>4. table[k] \notin cut'
    BY ZenonT(30), <2>1, <2>3 DEF KeysGone
  <2> QED
    BY Zenon, <1>4, <2>1, <2>2, <2>3, <2>4
<1>7. \A d \in SshCaller, t \in DOMAIN sess :
        (Holds(d, t) => Holds(d, t)') /\ (t \notin cut' => (Holds(d, t)' => Holds(d, t)))
  BY ZenonT(30) DEF Holds, Working, WaitersGone
<1>8. OneHolder'
  <2> SUFFICES ASSUME NEW t \in DOMAIN sess, t \notin cut'
               PROVE  /\ \A c, d \in SshCaller : Holds(c, t)' /\ Holds(d, t)' => c = d
                      /\ sess'[t].busy <=> \E c \in SshCaller : Holds(c, t)'
                      /\ sess'[t].busy => table'[sess'[t].key] = t
    BY Zenon, <1>2 DEF OneHolder
  <2>1. t \notin cut
    BY ZenonT(30) DEF KeysGone
  <2>2. \A d \in SshCaller : Holds(d, t)' <=> Holds(d, t)
    BY Zenon, <1>7
  <2>3. /\ \A c, d \in SshCaller : Holds(c, t) /\ Holds(d, t) => c = d
        /\ sess[t].busy <=> \E c \in SshCaller : Holds(c, t)
        /\ sess[t].busy => table[sess[t].key] = t
    BY ZenonT(30), <1>1, <2>1 DEF OneHolder
  <2>4. (sess'[t].busy <=> sess[t].busy) /\ (sess[t].busy => t \notin S)
    BY ZenonT(30) DEF SessionsGone, KeysGone
  <2>5. sess[t].busy => table'[sess'[t].key] = t
    <3>1. sess[t].key \in Key
      BY ZenonT(30), <1>1, RecFacts DEF PoolTypes
    <3>2. sess[t].busy => table'[sess[t].key] = table[sess[t].key]
      BY ZenonT(30), <2>3, <2>4, <3>1 DEF KeysGone
    <3> QED
      BY Zenon, <1>4, <2>3, <3>2
  <2> QED
    BY ZenonT(30), <2>2, <2>3, <2>4, <2>5
<1>9. QueueHeld'
  <2>1. \A t \in DOMAIN sess : sess'[t].waiters # <<>> => sess'[t].waiters = sess[t].waiters
    BY ZenonT(30) DEF SessionsGone
  <2> QED
    BY ZenonT(30), <1>1, <1>2, <1>7, <2>1 DEF QueueHeld
<1>10. QueueOK'
  <2> SUFFICES ASSUME NEW t \in DOMAIN sess, NEW i \in DOMAIN sess'[t].waiters
               PROVE  /\ at'[sess'[t].waiters[i]] = "wait" /\ on'[sess'[t].waiters[i]].s = t
                      /\ \A j \in DOMAIN sess'[t].waiters :
                            sess'[t].waiters[i] = sess'[t].waiters[j] => i = j
    BY Zenon, <1>2 DEF QueueOK
  <2>1. sess'[t].waiters # <<>>
    BY Zenon, NotEmpty
  <2>2. sess'[t].waiters = sess[t].waiters
    BY ZenonT(30), <2>1 DEF SessionsGone
  <2>3. sess[t].waiters[i] \in SshCaller
    BY ZenonT(30), <1>1, <2>2, RecFacts DEF PoolTypes
  <2>4. /\ at[sess[t].waiters[i]] = "wait" /\ on[sess[t].waiters[i]].s = t
        /\ \A j \in DOMAIN sess[t].waiters : sess[t].waiters[i] = sess[t].waiters[j] => i = j
    BY Zenon, <1>1, <2>2 DEF QueueOK
  <2>5. at'[sess[t].waiters[i]] = "wait" /\ on' = on
    BY Zenon, <2>1, <2>3, <2>4 DEF WaitersGone
  <2> QED
    BY Zenon, <2>2, <2>4, <2>5
<1>11. DialClear'
  <2> SUFFICES ASSUME NEW d \in SshCaller, at'[d] = "dial", on[d].s \notin cut'
               PROVE  sess'[on[d].s].shell = 0
    BY ZenonT(30) DEF DialClear, WaitersGone
  <2>1. at[d] = "dial" /\ on[d].s \notin cut
    BY ZenonT(30) DEF WaitersGone, KeysGone
  <2>2. on[d].s \in DOMAIN sess
    BY ZenonT(30), <1>1, <2>1 DEF RangesOK, Working
  <2>3. sess[on[d].s].shell = 0
    BY Zenon, <1>1, <2>1 DEF DialClear
  <2> QED
    BY ZenonT(30), <1>4, <2>2, <2>3
<1>12. NoLeakedShell'
  <2> SUFFICES ASSUME NEW x \in DOMAIN shell, shell'[x] # "closed", loop[x].s \notin cut'
               PROVE  table'[sess'[loop[x].s].key] = loop[x].s /\ sess'[loop[x].s].shell = x
    <3>1. loop' = loop
      BY Zenon DEF WaitersGone
    <3> QED
      BY ZenonT(30), <1>2, <3>1 DEF NoLeakedShell, Orphan
  <2>1. shell[x] # "closed" /\ loop[x].s \notin cut
    BY ZenonT(30) DEF ShellsGone, KeysGone
  <2>2. loop[x].s \in DOMAIN sess /\ x # 0
    BY <1>1 DEF RangesOK, PoolTypes
  <2>3. table[sess[loop[x].s].key] = loop[x].s /\ sess[loop[x].s].shell = x
    BY ZenonT(30), <1>1, <2>1 DEF NoLeakedShell, Orphan
  <2>4. sess[loop[x].s].key \in Key
    BY ZenonT(30), <1>1, <2>2, RecFacts DEF PoolTypes
  <2>5. loop[x].s \notin S
    BY Zenon, <2>2, <2>3 DEF ShellsGone
  <2>6. sess'[loop[x].s] = sess[loop[x].s]
    BY Zenon, <2>2, <2>5 DEF SessionsGone
  <2>7. table'[sess[loop[x].s].key] = loop[x].s
    BY Zenon, <2>3, <2>4, <2>5 DEF KeysGone
  <2> QED
    BY Zenon, <2>3, <2>6, <2>7
<1>13. TryOK'
  <2> SUFFICES ASSUME NEW d \in SshCaller PROVE TryAt(at'[d], try[d])
    BY Zenon DEF TryOK, WaitersGone
  <2>1. TryAt(at[d], try[d])
    BY Zenon, <1>1 DEF TryOK
  <2>2. at'[d] = at[d] \/ (at[d] = "wait" /\ at'[d] = "enter")
    BY Zenon DEF WaitersGone
  <2> QED
    BY ZenonT(30), <2>1, <2>2 DEF TryAt, Before
<1> QED
  BY Zenon, <1>3, <1>5, <1>6, <1>8, <1>9, <1>10, <1>11, <1>12, <1>13 DEF PoolInv, FlightInv

\* Each session is in the table under one key.
LEMMA OneKey ==
  ASSUME PoolInv, NEW j \in Key, NEW k \in Key, table[k] # 0, table[j] = table[k] PROVE j = k
  BY ZenonT(30) DEF PoolInv, FlightInv, TableOK

LEMMA InTable ==
  ASSUME PoolInv, NEW k \in Key, table[k] # 0
  PROVE  /\ table[k] \in DOMAIN sess /\ table[k] \in Nat /\ table[k] \notin cut /\ sess[table[k]].key = k
         /\ sess[table[k]] \in SessionRec
<1>1. table[k] \in DOMAIN sess /\ table[k] \in Nat /\ sess \in Seq(SessionRec)
  BY DEF PoolInv, FlightInv, RangesOK, PoolTypes
<1> QED
  BY <1>1 DEF PoolInv, FlightInv, TableOK

\* A session whose shell is closed: what Closed and Shut make of it.
LEMMA ClosedShell ==
  ASSUME PoolInv, NEW S \in SUBSET (DOMAIN sess), shell' = Shut({sess[t].shell : t \in S})
  PROVE  /\ shell' \in Seq(ShellStates) /\ Len(shell') = Len(shell)
         /\ \A x \in DOMAIN shell : shell'[x] = "closed" \/ shell'[x] = shell[x]
         /\ \A t \in S : sess[t].shell # 0 => shell'[sess[t].shell] = "closed"
<1>1. PoolTypes /\ RangesOK /\ sess \in Seq(SessionRec) /\ shell \in Seq(ShellStates)
  BY ZenonT(30) DEF PoolInv, FlightInv, PoolTypes
<1> DEFINE X == {sess[t].shell : t \in S}
<1>2. /\ shell' \in Seq(ShellStates) /\ Len(shell') = Len(shell)
      /\ \A x \in DOMAIN shell : shell'[x] = IF x \in X THEN "closed" ELSE shell[x]
  BY ZenonT(30), <1>1, ShutShells
<1>3. \A t \in S : sess[t].shell \in X /\ (sess[t].shell # 0 => sess[t].shell \in DOMAIN shell)
  BY SMTT(30), <1>1, RecFacts DEF RangesOK
<1> HIDE DEF X
<1> QED
  BY ZenonT(30), <1>2, <1>3

LEMMA IdleExpiresKeeps == ASSUME PoolInv, NEW k \in Key, IdleExpires(k) PROVE PoolInv'
<1> DEFINE s == table[k]
<1>1. /\ PoolTypes /\ s # 0 /\ Unheld(sess[s]) /\ MarkDead(s) /\ table' = [table EXCEPT ![k] = 0]
      /\ UNCHANGED <<loop, at, on, try, cut>>
  BY ZenonT(30) DEF PoolInv, IdleExpires, calls, admin
<1>2. /\ s \in DOMAIN sess /\ s \notin cut /\ sess[s] \in SessionRec
      /\ cut \subseteq DOMAIN sess /\ table \in [Key -> Nat] /\ at \in [SshCaller -> Places]
  BY ZenonT(30), <1>1, InTable DEF PoolTypes
<1>3. Closed(sess[s]) \in SessionRec /\ sess' = [sess EXCEPT ![s] = Closed(sess[s])]
  BY ZenonT(30), <1>1, <1>2, ClosedRec DEF MarkDead
<1>4. /\ sess' \in Seq(SessionRec) /\ Len(sess') = Len(sess)
      /\ \A t \in DOMAIN sess : sess'[t] = IF t = s THEN Closed(sess[s]) ELSE sess[t]
  BY ZenonT(30), <1>1, <1>2, <1>3, OneRecord
<1>5. /\ sess'[s].key = sess[s].key /\ sess'[s].shell = 0 /\ sess'[s].ka = 0
      /\ ~sess[s].busy /\ ~sess'[s].busy /\ sess'[s].waiters = sess[s].waiters
  <2>1. sess'[s] = Closed(sess[s])
    BY Zenon, <1>2, <1>4
  <2>2. /\ Closed(sess[s]).key = sess[s].key /\ Closed(sess[s]).shell = 0 /\ Closed(sess[s]).ka = 0
        /\ (Closed(sess[s]).busy <=> sess[s].busy) /\ Closed(sess[s]).waiters = sess[s].waiters
    BY Zenon, <1>2, ClosedRec
  <2>3. ~sess[s].busy
    BY Zenon, <1>1 DEF Unheld
  <2> QED
    BY Zenon, <2>1, <2>2, <2>3
<1>6. \A j \in Key : table'[j] = IF table[j] \in {s} THEN 0 ELSE table[j]
  BY ZenonT(30), <1>1, <1>2, OneKey
<1>7. table' \in [Key -> Nat]
  BY ZenonT(30), <1>1, <1>2
<1>8. shell' = Shut({sess[t].shell : t \in {s}})
  <2>1. {sess[t].shell : t \in {s}} = {sess[s].shell}
    BY ZenonT(30)
  <2> QED
    BY ZenonT(30), <1>1, <2>1 DEF MarkDead
<1>9. {s} \in SUBSET (DOMAIN sess)
  BY ZenonT(30), <1>2
<1>10. PICK S \in SUBSET (DOMAIN sess) : S = {s}
  BY ZenonT(30), <1>9
<1>11. /\ shell' \in Seq(ShellStates) /\ Len(shell') = Len(shell)
       /\ \A x \in DOMAIN shell : shell'[x] = "closed" \/ shell'[x] = shell[x]
       /\ \A t \in S : sess[t].shell # 0 => shell'[sess[t].shell] = "closed"
  BY ZenonT(30), <1>8, <1>10, ClosedShell
<1>12. /\ \A t \in DOMAIN sess : t \notin S => sess'[t] = sess[t]
       /\ \A t \in S : sess'[t].key = sess[t].key /\ sess'[t].shell = 0 /\ sess'[t].ka = 0
       /\ \A t \in S : t \notin cut' => ~sess[t].busy /\ ~sess'[t].busy
       /\ \A t \in S : sess'[t].waiters = <<>> \/ sess'[t].waiters = sess[t].waiters
       /\ \A j \in Key : table'[j] = IF table[j] \in S THEN 0 ELSE table[j]
  BY ZenonT(30), <1>4, <1>5, <1>6, <1>10
<1>13. /\ cut' \subseteq DOMAIN sess /\ cut \subseteq cut' /\ cut' \subseteq cut \cup S
       /\ at' \in [SshCaller -> Places] /\ \A d \in SshCaller : at'[d] = at[d]
       /\ UNCHANGED <<loop, on, try>>
  BY ZenonT(30), <1>1, <1>2
<1> HIDE DEF s
<1> QED
  <2>1. SessionsGone(S) /\ ShellsGone(S)
    BY ZenonT(30), <1>4, <1>11, <1>12 DEF SessionsGone, ShellsGone
  <2>2. KeysGone(S) /\ WaitersGone(S)
    BY ZenonT(30), <1>7, <1>12, <1>13 DEF KeysGone, WaitersGone
  <2> QED
    BY Zenon, <2>1, <2>2, SessionsDropped

LEMMA EvictKeeps == ASSUME PoolInv, NEW k \in Key, Evict(k) PROVE PoolInv'
<1> DEFINE s == table[k]
           woken == {sess[s].waiters[j] : j \in DOMAIN sess[s].waiters}
           r == [Closed(sess[s]) EXCEPT !.waiters = <<>>, !.busy = FALSE]
<1>1. /\ PoolTypes /\ QueueOK /\ s # 0 /\ table' = [table EXCEPT ![k] = 0] /\ cut' = cut \cup {s}
      /\ sess' = [sess EXCEPT ![s] = r] /\ shell' = Shut({sess[s].shell})
      /\ at' = [c \in SshCaller |-> IF c \in woken THEN "enter" ELSE at[c]]
      /\ UNCHANGED <<loop, on, try>>
  BY ZenonT(30) DEF PoolInv, FlightInv, Evict, calls
<1>2. /\ s \in DOMAIN sess /\ sess[s] \in SessionRec
      /\ cut \subseteq DOMAIN sess /\ table \in [Key -> Nat] /\ at \in [SshCaller -> Places]
  BY ZenonT(30), <1>1, InTable DEF PoolTypes
<1>3. /\ Closed(sess[s]) \in SessionRec /\ Closed(sess[s]).key = sess[s].key
      /\ Closed(sess[s]).shell = 0 /\ Closed(sess[s]).ka = 0
  BY ZenonT(30), <1>2, ClosedRec
<1>4. /\ r \in SessionRec /\ r.key = sess[s].key /\ r.shell = 0 /\ r.ka = 0 /\ r.waiters = <<>>
  <2> DEFINE q == Closed(sess[s])
  <2>1. /\ q \in SessionRec /\ q.key = sess[s].key /\ q.shell = 0 /\ q.ka = 0
        /\ r = [q EXCEPT !.waiters = <<>>, !.busy = FALSE]
    BY ZenonT(30), <1>3
  <2> HIDE DEF q, r
  <2>2. PICK e \in Seq(SshCaller) : e = <<>>
    <3>1. <<>> \in Seq(SshCaller)
      OBVIOUS
    <3> QED
      BY <3>1, Zenon
  <2>3. r = [q EXCEPT !.waiters = e, !.busy = FALSE]
    BY ZenonT(30), <2>1, <2>2
  <2>4. r \in SessionRec /\ r.key = q.key /\ r.shell = q.shell /\ r.ka = q.ka /\ r.waiters = e
    BY ZenonT(30), <2>1, <2>3 DEF SessionRec
  <2> QED
    BY ZenonT(30), <2>1, <2>2, <2>4
<1> HIDE DEF r
<1>5. /\ sess' \in Seq(SessionRec) /\ Len(sess') = Len(sess)
      /\ \A t \in DOMAIN sess : sess'[t] = IF t = s THEN r ELSE sess[t]
  BY ZenonT(30), <1>1, <1>2, <1>4, OneRecord
<1>6. \A j \in Key : table'[j] = IF table[j] \in {s} THEN 0 ELSE table[j]
  BY ZenonT(30), <1>1, <1>2, OneKey
<1>7. table' \in [Key -> Nat]
  BY ZenonT(30), <1>1, <1>2
<1>8. shell' = Shut({sess[t].shell : t \in {s}})
  <2>1. {sess[t].shell : t \in {s}} = {sess[s].shell}
    BY ZenonT(30)
  <2> QED
    BY ZenonT(30), <1>1, <2>1
<1>9. {s} \in SUBSET (DOMAIN sess)
  BY ZenonT(30), <1>2
<1>10. PICK S \in SUBSET (DOMAIN sess) : S = {s}
  BY ZenonT(30), <1>9
<1>11. /\ shell' \in Seq(ShellStates) /\ Len(shell') = Len(shell)
       /\ \A x \in DOMAIN shell : shell'[x] = "closed" \/ shell'[x] = shell[x]
       /\ \A t \in S : sess[t].shell # 0 => shell'[sess[t].shell] = "closed"
  BY ZenonT(30), <1>8, <1>10, ClosedShell
<1>12. /\ \A t \in DOMAIN sess : t \notin S => sess'[t] = sess[t]
       /\ \A t \in S : sess'[t].key = sess[t].key /\ sess'[t].shell = 0 /\ sess'[t].ka = 0
       /\ \A t \in S : t \in cut' /\ sess'[t].waiters = <<>>
       /\ \A j \in Key : table'[j] = IF table[j] \in S THEN 0 ELSE table[j]
  BY ZenonT(30), <1>1, <1>2, <1>4, <1>5, <1>6, <1>10
<1>13. /\ cut' \subseteq DOMAIN sess /\ cut \subseteq cut' /\ cut' \subseteq cut \cup S
       /\ UNCHANGED <<loop, on, try>>
  BY ZenonT(30), <1>1, <1>2, <1>10
<1>14. \A d \in woken : at[d] = "wait" /\ on[d].s \in S
  BY <1>1, <1>2, <1>10 DEF QueueOK
<1> HIDE DEF woken
<1>15. at' \in [SshCaller -> Places] /\ \A d \in SshCaller : at'[d] = IF d \in woken THEN "enter" ELSE at[d]
  BY ZenonT(30), <1>1, <1>2 DEF Places, Working
<1>16. \A d \in SshCaller : \/ at'[d] = at[d]
                            \/ /\ at[d] = "wait" /\ at'[d] = "enter" /\ on[d].s \in S
                               /\ on[d].s \in cut' /\ sess'[on[d].s].waiters = <<>>
  BY ZenonT(30), <1>12, <1>14, <1>15
<1> HIDE DEF s
<1> QED
  <2>1. SessionsGone(S) /\ ShellsGone(S)
    BY ZenonT(30), <1>5, <1>11, <1>12 DEF SessionsGone, ShellsGone
  <2>2. KeysGone(S) /\ WaitersGone(S)
    BY ZenonT(30), <1>7, <1>12, <1>13, <1>15, <1>16 DEF KeysGone, WaitersGone
  <2> QED
    BY Zenon, <2>1, <2>2, SessionsDropped

LEMMA CloseKeeps == ASSUME PoolInv, Close PROVE PoolInv'
<1>1. /\ PoolTypes /\ RangesOK /\ UNCHANGED <<loop, at, on, try>> /\ table' = [k \in Key |-> 0]
      /\ sess \in Seq(SessionRec) /\ table \in [Key -> Nat] /\ cut \subseteq DOMAIN sess
      /\ at \in [SshCaller -> Places]
  BY ZenonT(30) DEF PoolInv, FlightInv, Close, calls, PoolTypes
<1>2. {table[k] : k \in Key} \ {0} \in SUBSET (DOMAIN sess)
  BY ZenonT(30), InTable
<1>3. PICK S \in SUBSET (DOMAIN sess) : S = {table[k] : k \in Key} \ {0}
  BY ZenonT(30), <1>2
<1>4. /\ sess' = [s \in DOMAIN sess |-> IF s \in S THEN Closed(sess[s]) ELSE sess[s]]
      /\ shell' = Shut({sess[t].shell : t \in S}) /\ cut' = cut \cup S
  BY ZenonT(30), <1>3 DEF Close
<1>5. \A t \in DOMAIN sess : sess[t] \in SessionRec /\ Closed(sess[t]) \in SessionRec
  BY ZenonT(30), <1>1, RecFacts, ClosedRec
<1>6. /\ sess' \in Seq(SessionRec) /\ Len(sess') = Len(sess)
      /\ \A t \in DOMAIN sess : sess'[t] = IF t \in S THEN Closed(sess[t]) ELSE sess[t]
  <2>1. DOMAIN sess = 1 .. Len(sess) /\ Len(sess) \in Nat
    BY <1>1
  <2>2. sess' \in [1 .. Len(sess) -> SessionRec]
    BY ZenonT(30), <1>4, <1>5, <2>1
  <2> QED
    BY <1>4, <2>1, <2>2
<1>7. /\ shell' \in Seq(ShellStates) /\ Len(shell') = Len(shell)
      /\ \A x \in DOMAIN shell : shell'[x] = "closed" \/ shell'[x] = shell[x]
      /\ \A t \in S : sess[t].shell # 0 => shell'[sess[t].shell] = "closed"
  BY ZenonT(30), <1>4, ClosedShell
<1>8. /\ \A t \in DOMAIN sess : t \notin S => sess'[t] = sess[t]
      /\ \A t \in S : sess'[t].key = sess[t].key /\ sess'[t].shell = 0 /\ sess'[t].ka = 0
      /\ \A t \in S : t \in cut' /\ sess'[t].waiters = sess[t].waiters
  BY ZenonT(30), <1>4, <1>5, <1>6, ClosedRec
<1>9. table' \in [Key -> Nat] /\ \A k \in Key : table'[k] = IF table[k] \in S THEN 0 ELSE table[k]
  BY ZenonT(30), <1>1, <1>3
<1>10. /\ cut' \subseteq DOMAIN sess /\ cut \subseteq cut' /\ cut' \subseteq cut \cup S
       /\ UNCHANGED <<loop, on, try>> /\ at' \in [SshCaller -> Places]
       /\ \A d \in SshCaller : at'[d] = at[d]
  BY ZenonT(30), <1>1, <1>4
<1> QED
  <2>1. SessionsGone(S) /\ ShellsGone(S)
    BY ZenonT(30), <1>6, <1>7, <1>8 DEF SessionsGone, ShellsGone
  <2>2. KeysGone(S) /\ WaitersGone(S)
    BY ZenonT(30), <1>8, <1>9, <1>10 DEF KeysGone, WaitersGone
  <2> QED
    BY Zenon, <2>1, <2>2, SessionsDropped

\* A new session takes the key's place; the sessions S, idle ones, make room for it.
Created(c, S, n) ==
    /\ at[c] = "start" /\ table[KeyOf[c]] = 0 /\ KeyOf[c] \in Key /\ n = Len(sess) + 1
    /\ UNCHANGED <<loop, try, cut>>
    /\ sess' \in Seq(SessionRec) /\ DOMAIN sess' = DOMAIN sess \cup {n} /\ Len(sess') = n
    /\ sess'[n] = NewSession(KeyOf[c])
    /\ \A t \in DOMAIN sess : /\ sess'[t].key = sess[t].key /\ (sess'[t].busy <=> sess[t].busy)
                               /\ sess'[t].waiters = sess[t].waiters
    /\ \A t \in DOMAIN sess : /\ sess'[t].ka \in {0, sess[t].ka}
                               /\ sess'[t].shell = IF t \in S THEN 0 ELSE sess[t].shell
    /\ shell' \in Seq(ShellStates) /\ Len(shell') = Len(shell)
    /\ \A x \in DOMAIN shell : shell'[x] = "closed" \/ shell'[x] = shell[x]
    /\ \A t \in S : ~sess[t].busy /\ (sess[t].shell # 0 => shell'[sess[t].shell] = "closed")
    /\ table' \in [Key -> Nat]
    /\ \A k \in Key : table'[k] = IF k = KeyOf[c] THEN n ELSE IF table[k] \in S THEN 0 ELSE table[k]
    /\ on' = [on EXCEPT ![c].s = n] /\ at' = [at EXCEPT ![c] = "enter"]

LEMMA SessionCreated ==
  ASSUME PoolInv, NEW c \in SshCaller, NEW S \in SUBSET (DOMAIN sess), NEW n \in Nat, Created(c, S, n)
  PROVE  PoolInv'
<1>a. /\ at[c] = "start" /\ table[KeyOf[c]] = 0 /\ KeyOf[c] \in Key /\ n = Len(sess) + 1
      /\ UNCHANGED <<loop, try, cut>> /\ on' = [on EXCEPT ![c].s = n] /\ at' = [at EXCEPT ![c] = "enter"]
  BY ZenonT(30) DEF Created
<1>b. /\ sess' \in Seq(SessionRec) /\ DOMAIN sess' = DOMAIN sess \cup {n} /\ Len(sess') = n
      /\ sess'[n] = NewSession(KeyOf[c])
  BY ZenonT(30) DEF Created
<1>c. \A t \in DOMAIN sess : /\ sess'[t].key = sess[t].key /\ (sess'[t].busy <=> sess[t].busy)
                             /\ sess'[t].waiters = sess[t].waiters
  BY ZenonT(30) DEF Created
<1>d. \A t \in DOMAIN sess : /\ sess'[t].ka \in {0, sess[t].ka}
                             /\ sess'[t].shell = IF t \in S THEN 0 ELSE sess[t].shell
  BY ZenonT(30) DEF Created
<1>e. /\ shell' \in Seq(ShellStates) /\ Len(shell') = Len(shell)
      /\ \A x \in DOMAIN shell : shell'[x] = "closed" \/ shell'[x] = shell[x]
  BY ZenonT(30) DEF Created
<1>f. \A t \in S : ~sess[t].busy /\ (sess[t].shell # 0 => shell'[sess[t].shell] = "closed")
  BY ZenonT(30) DEF Created
<1>g. /\ table' \in [Key -> Nat]
      /\ \A k \in Key : table'[k] = IF k = KeyOf[c] THEN n ELSE IF table[k] \in S THEN 0 ELSE table[k]
  BY ZenonT(30) DEF Created
<1>1. /\ PoolTypes /\ TryOK /\ RangesOK /\ TableOK /\ QueueOK /\ OneHolder /\ QueueHeld
      /\ DialClear /\ NoLeakedShell
  BY ZenonT(30) DEF PoolInv, FlightInv
<1>t. /\ table \in [Key -> Nat] /\ sess \in Seq(SessionRec)
      /\ shell \in Seq(ShellStates) /\ loop \in Seq(LoopRec) /\ at \in [SshCaller -> Places]
      /\ on \in [SshCaller -> [s : Nat, x : Nat]] /\ cut \subseteq DOMAIN sess
  BY ZenonT(30), <1>1 DEF PoolTypes
<1>2. n \notin DOMAIN sess /\ n # 0 /\ DOMAIN shell' = DOMAIN shell /\ Len(sess) \in Nat
  BY <1>t, <1>a, <1>e
<1>3. at' \in [SshCaller -> Places] /\ \A d \in SshCaller : at'[d] = IF d = c THEN "enter" ELSE at[d]
  BY ZenonT(30), <1>t, <1>a DEF Places, Working
<1>4. /\ on' \in [SshCaller -> [s : Nat, x : Nat]] /\ on'[c].s = n
      /\ \A d \in SshCaller : d # c => on'[d] = on[d]
  BY ZenonT(30), <1>a, <1>t
<1>5. PoolTypes'
  BY ZenonT(30), <1>1, <1>3, <1>4, <1>a, <1>b, <1>e, <1>g DEF PoolTypes
<1>6. /\ sess'[n].key = KeyOf[c] /\ sess'[n].busy /\ sess'[n].waiters = <<>> /\ sess'[n].shell = 0
      /\ sess'[n].ka = 0
  <2>1. sess'[n] = NewSession(KeyOf[c])
    BY Zenon, <1>b
  <2> QED
    BY <2>1 DEF NewSession
<1>7. \A d \in SshCaller : at[d] \in Working \cup {"wait"} => d # c /\ on[d].s \in DOMAIN sess
  BY ZenonT(30), <1>1, <1>a DEF RangesOK, Working
<1>8. RangesOK'
  <2>1. \A k \in Key : table'[k] <= Len(sess')
    BY <1>1, <1>b, <1>g DEF RangesOK
  <2>2. \A t \in DOMAIN sess' : sess'[t].shell <= Len(shell') /\ sess'[t].ka <= Len(loop')
    <3>1. Len(shell) \in Nat /\ Len(loop) \in Nat
      BY SMTT(30)
    <3>2. \A t \in DOMAIN sess : sess[t].shell <= Len(shell) /\ sess[t].ka <= Len(loop)
      BY ZenonT(30), <1>1 DEF RangesOK
    <3>3. \A t \in DOMAIN sess : sess'[t].shell <= Len(shell) /\ sess'[t].ka <= Len(loop)
      BY <1>d, <3>2
    <3> QED
      BY <1>6, <1>a, <1>b, <1>e, <3>3
  <2>3. Len(loop') = Len(shell') /\ \A x \in DOMAIN loop' : loop'[x].s \in DOMAIN sess'
    BY ZenonT(30), <1>1, <1>a, <1>b, <1>e DEF RangesOK
  <2>4. \A d \in SshCaller : at'[d] \in Working \cup {"wait"} => on'[d].s \in DOMAIN sess'
    BY ZenonT(30), <1>3, <1>4, <1>7, <1>b
  <2>5. \A d \in SshCaller : at'[d] \in {"dialed", "send", "await", "reset"} => on'[d].x \in DOMAIN shell'
    BY ZenonT(30), <1>1, <1>2, <1>3, <1>4 DEF RangesOK
  <2> QED
    BY ZenonT(30), <2>1, <2>2, <2>3, <2>4, <2>5 DEF RangesOK
<1>9. TableOK'
  <2> SUFFICES ASSUME NEW k \in Key, table'[k] # 0
               PROVE  sess'[table'[k]].key = k /\ table'[k] \notin cut
    BY ZenonT(30), <1>a DEF TableOK
  <2>1. CASE k = KeyOf[c]
    BY ZenonT(30), <1>t, <1>2, <1>6, <1>g, <2>1
  <2>2. CASE k # KeyOf[c]
    <3>1. table'[k] = table[k] /\ table[k] # 0 /\ table[k] \in DOMAIN sess
      BY <1>1, <1>g, <2>2 DEF RangesOK
    <3> QED
      BY ZenonT(30), <1>1, <1>c, <3>1 DEF TableOK
  <2> QED
    BY ZenonT(30), <2>1, <2>2
<1>10. /\ \A d \in SshCaller, t \in DOMAIN sess : Holds(d, t)' <=> Holds(d, t)
       /\ \A d \in SshCaller : Holds(d, n)' <=> d = c
  BY ZenonT(30), <1>2, <1>3, <1>4, <1>7 DEF Holds, Working
<1>11. OneHolder'
  <2>1. ASSUME NEW t \in DOMAIN sess, t \notin cut
        PROVE  /\ \A d, e \in SshCaller : Holds(d, t)' /\ Holds(e, t)' => d = e
               /\ sess'[t].busy <=> \E d \in SshCaller : Holds(d, t)'
               /\ sess'[t].busy => table'[sess'[t].key] = t
    <3>1. /\ \A d, e \in SshCaller : Holds(d, t) /\ Holds(e, t) => d = e
          /\ sess[t].busy <=> \E d \in SshCaller : Holds(d, t)
          /\ sess[t].busy => table[sess[t].key] = t
      BY ZenonT(30), <1>1, <2>1 DEF OneHolder
    <3>2. t # 0 /\ sess[t].key \in Key
      BY <1>t, RecFacts
    <3>3. sess[t].busy => table'[sess[t].key] = t
      BY ZenonT(30), <1>a, <1>f, <1>g, <3>1, <3>2
    <3> QED
      BY ZenonT(30), <1>10, <1>c, <3>1, <3>3
  <2>2. /\ \A d, e \in SshCaller : Holds(d, n)' /\ Holds(e, n)' => d = e
        /\ \E d \in SshCaller : Holds(d, n)'
        /\ table'[sess'[n].key] = n
    BY ZenonT(30), <1>6, <1>10, <1>a, <1>g
  <2> QED
    BY SMTT(30), <1>6, <1>a, <1>b, <2>1, <2>2 DEF OneHolder
<1>12. QueueHeld'
  <2>1. \A t \in DOMAIN sess : sess'[t].waiters # <<>> => \E d \in SshCaller : Holds(d, t)'
    BY ZenonT(30), <1>1, <1>10, <1>c DEF QueueHeld
  <2> QED
    BY ZenonT(30), <1>6, <1>b, <2>1 DEF QueueHeld
<1>13. QueueOK'
  <2>1. ASSUME NEW t \in DOMAIN sess, NEW i \in DOMAIN sess[t].waiters
        PROVE  /\ at'[sess[t].waiters[i]] = "wait" /\ on'[sess[t].waiters[i]].s = t
               /\ \A j \in DOMAIN sess[t].waiters : sess[t].waiters[i] = sess[t].waiters[j] => i = j
    <3>1. sess[t].waiters[i] \in SshCaller
      BY ZenonT(30), <1>t, RecFacts
    <3>2. /\ at[sess[t].waiters[i]] = "wait" /\ on[sess[t].waiters[i]].s = t
          /\ \A j \in DOMAIN sess[t].waiters : sess[t].waiters[i] = sess[t].waiters[j] => i = j
      BY ZenonT(30), <1>1 DEF QueueOK
    <3> QED
      BY <1>a, <3>2
  <2>2. DOMAIN sess'[n].waiters = {}
    BY <1>6
  <2>3. \A t \in DOMAIN sess : sess'[t].waiters = sess[t].waiters
    BY Zenon, <1>c
  <2>4. DOMAIN sess' = DOMAIN sess \cup {n}
    BY ZenonT(30), <1>b
  <2>5. \A t \in DOMAIN sess : QueueAfter(sess[t].waiters, t)
    BY ZenonT(30), <2>1 DEF QueueAfter
  <2>6. QueueAfter(sess'[n].waiters, n)
    BY Zenon, <2>2 DEF QueueAfter
  <2> QED
    BY Zenon, <2>3, <2>4, <2>5, <2>6, QueuesAfter
<1>14. DialClear'
  <2>1. \A d \in SshCaller : at'[d] = "dial" =>
          at[d] = "dial" /\ on[d].s \in DOMAIN sess /\ on'[d] = on[d]
    BY <1>7, <1>a DEF Working
  <2> QED
    BY ZenonT(30), <1>1, <1>t, <1>a, <1>d, <2>1 DEF DialClear
<1>15. NoLeakedShell'
  <2> SUFFICES ASSUME NEW x \in DOMAIN shell, shell'[x] # "closed", loop[x].s \notin cut
               PROVE  table'[sess'[loop[x].s].key] = loop[x].s /\ sess'[loop[x].s].shell = x
    BY ZenonT(30), <1>2, <1>a DEF NoLeakedShell, Orphan
  <2>1. shell[x] # "closed" /\ loop[x].s \in DOMAIN sess /\ x # 0 /\ loop[x].s # 0
    BY <1>1, <1>t, <1>e DEF RangesOK
  <2>2. table[sess[loop[x].s].key] = loop[x].s /\ sess[loop[x].s].shell = x
    BY ZenonT(30), <1>1, <2>1 DEF NoLeakedShell, Orphan
  <2>3. loop[x].s \notin S /\ sess[loop[x].s].key \in Key
    BY ZenonT(30), <1>t, <1>f, <2>1, <2>2, RecFacts
  <2> QED
    BY ZenonT(30), <1>a, <1>c, <1>d, <1>g, <2>1, <2>2, <2>3
<1>16. TryOK'
  <2>1. TryAt("enter", try[c])
    BY ZenonT(30), <1>1, <1>a DEF TryOK, TryAt, Before
  <2> QED
    BY ZenonT(30), <1>1, <1>3, <1>a, <2>1, TryFrom
<1> QED
  BY ZenonT(30), <1>5, <1>8, <1>9, <1>11, <1>12, <1>13, <1>14, <1>15, <1>16 DEF PoolInv, FlightInv

LEMMA NewRec == ASSUME NEW k \in Key PROVE NewSession(k) \in SessionRec
<1>1. <<>> \in Seq(SshCaller)
  OBVIOUS
<1> QED
  BY DEF NewSession, SessionRec

LEMMA HoldNewKeeps == ASSUME PoolInv, NEW c \in SshCaller, HoldNew(c) PROVE PoolInv'
<1> DEFINE K == KeyOf[c]
           m == Len(sess) + 1
<1>1. /\ PoolTypes /\ RangesOK /\ at[c] = "start" /\ table[K] = 0 /\ K \in Key
      /\ UNCHANGED <<loop, try, cut>>
      /\ sess \in Seq(SessionRec) /\ shell \in Seq(ShellStates) /\ table \in [Key -> Nat]
  BY ZenonT(30) DEF PoolInv, FlightInv, PoolTypes, HoldNew, admin, Key
<1>2. m \in Nat /\ m \notin DOMAIN sess /\ Len(sess) \in Nat /\ DOMAIN sess = 1 .. Len(sess)
  OBVIOUS
<1>3. NewSession(K) \in SessionRec
  BY ZenonT(30), <1>1, NewRec
<1>4. ASSUME NEW q \in Seq(SessionRec), Len(q) = Len(sess), sess' = Append(q, NewSession(K))
      PROVE  /\ sess' \in Seq(SessionRec) /\ DOMAIN sess' = DOMAIN sess \cup {m} /\ Len(sess') = m
             /\ sess'[m] = NewSession(K) /\ \A t \in DOMAIN sess : sess'[t] = q[t]
  <2> DEFINE z == NewSession(K)
  <2>1. z \in SessionRec /\ sess' = Append(q, z)
    BY ZenonT(30), <1>3, <1>4
  <2> HIDE DEF z
  <2>2. /\ sess' \in Seq(SessionRec) /\ DOMAIN sess' = DOMAIN sess \cup {m} /\ Len(sess') = m
        /\ sess'[m] = z /\ \A t \in DOMAIN sess : sess'[t] = q[t]
    BY <1>4, <2>1
  <2> QED
    BY ZenonT(30), <2>2 DEF z
<1>5. CASE Goto(c, "done") /\ UNCHANGED <<table, sess, shell, on>>
  BY ZenonT(30), <1>1, <1>5, GivesUp DEF Goto
<1>6. CASE /\ table' = [k \in Key |-> IF k = K THEN m ELSE IF k \in {} THEN 0 ELSE table[k]]
           /\ sess' = Append(sess, NewSession(K)) /\ UNCHANGED shell
           /\ on' = [on EXCEPT ![c].s = m] /\ Goto(c, "enter")
  <2>1. /\ sess' \in Seq(SessionRec) /\ DOMAIN sess' = DOMAIN sess \cup {m} /\ Len(sess') = m
        /\ sess'[m] = NewSession(K) /\ \A t \in DOMAIN sess : sess'[t] = sess[t]
    BY ZenonT(30), <1>1, <1>4, <1>6
  <2>2. table' \in [Key -> Nat] /\ \A k \in Key : table'[k] = IF k = K THEN m ELSE table[k]
    BY <1>1, <1>6
  <2>3. PICK S \in SUBSET (DOMAIN sess) : S = {}
    BY ZenonT(30)
  <2>4. Created(c, S, m)
    BY <1>1, <1>6, <2>1, <2>3 DEF Created, Goto
  <2> QED
    BY <2>4, SessionCreated
<1>7. ASSUME NEW j \in Key, table[j] # 0, Unheld(sess[table[j]]),
             table' = [k \in Key |-> IF k = K THEN m ELSE IF k \in {j} THEN 0 ELSE table[k]],
             shell' = Shut({sess[table[j]].shell}),
             sess' = Append([sess EXCEPT ![table[j]] = Closed(@)], NewSession(K)),
             on' = [on EXCEPT ![c].s = m], Goto(c, "enter")
      PROVE  PoolInv'
  <2> DEFINE v == table[j]
             q == [sess EXCEPT ![v] = Closed(sess[v])]
  <2>1. v \in DOMAIN sess /\ sess[v] \in SessionRec /\ ~sess[v].busy
    BY ZenonT(30), <1>7, InTable DEF Unheld
  <2>2. /\ Closed(sess[v]) \in SessionRec /\ Closed(sess[v]).key = sess[v].key
        /\ (Closed(sess[v]).busy <=> sess[v].busy) /\ Closed(sess[v]).waiters = sess[v].waiters
        /\ Closed(sess[v]).shell = 0 /\ Closed(sess[v]).ka = 0
    BY ZenonT(30), <2>1, ClosedRec
  <2>3. /\ q \in Seq(SessionRec) /\ Len(q) = Len(sess)
        /\ \A t \in DOMAIN sess : q[t] = IF t = v THEN Closed(sess[v]) ELSE sess[t]
    BY <1>1, <2>1, <2>2
  <2>4. sess' = Append(q, NewSession(K))
    BY ZenonT(30), <1>7
  <2> HIDE DEF q
  <2>5. /\ sess' \in Seq(SessionRec) /\ DOMAIN sess' = DOMAIN sess \cup {m} /\ Len(sess') = m
        /\ sess'[m] = NewSession(K) /\ \A t \in DOMAIN sess : sess'[t] = q[t]
    BY ZenonT(30), <1>4, <2>3, <2>4
  <2>6. PICK S \in SUBSET (DOMAIN sess) : S = {v}
    BY ZenonT(30), <2>1
  <2>7. {sess[t].shell : t \in S} = {sess[v].shell}
    BY ZenonT(30), <2>6
  <2>8. /\ shell' \in Seq(ShellStates) /\ Len(shell') = Len(shell)
        /\ \A x \in DOMAIN shell : shell'[x] = "closed" \/ shell'[x] = shell[x]
        /\ \A t \in S : sess[t].shell # 0 => shell'[sess[t].shell] = "closed"
    BY ZenonT(30), <1>7, <2>7, ClosedShell
  <2>9. table' \in [Key -> Nat] /\ \A k \in Key : table'[k] = IF k = K THEN m ELSE IF k = j THEN 0 ELSE table[k]
    BY <1>1, <1>7
  <2>10. \A k \in Key : table[k] \in S <=> k = j
    BY ZenonT(30), <1>7, <2>6, OneKey
  <2>11. \A k \in Key : table'[k] = IF k = K THEN m ELSE IF table[k] \in S THEN 0 ELSE table[k]
    BY ZenonT(30), <2>9, <2>10
  <2>12. /\ \A t \in DOMAIN sess : /\ sess'[t].key = sess[t].key /\ (sess'[t].busy <=> sess[t].busy)
                                   /\ sess'[t].waiters = sess[t].waiters
         /\ \A t \in DOMAIN sess : /\ sess'[t].ka \in {0, sess[t].ka}
                                   /\ sess'[t].shell = IF t \in S THEN 0 ELSE sess[t].shell
         /\ \A t \in S : ~sess[t].busy
    BY ZenonT(30), <2>1, <2>2, <2>3, <2>5, <2>6
  <2>13. Created(c, S, m)
    BY <1>1, <1>7, <2>5, <2>8, <2>9, <2>11, <2>12, Zenon DEF Created, Goto
  <2> QED
    BY <2>13, SessionCreated
<1> QED
  <2>1. \/ Goto(c, "done") /\ UNCHANGED <<table, sess, shell, on>>
        \/ \E j \in Key :
             /\ table[j] # 0 /\ Unheld(sess[table[j]])
             /\ table' = [k \in Key |-> IF k = K THEN m ELSE IF k \in {j} THEN 0 ELSE table[k]]
             /\ shell' = Shut({sess[table[j]].shell})
             /\ sess' = Append([sess EXCEPT ![table[j]] = Closed(@)], NewSession(K))
             /\ on' = [on EXCEPT ![c].s = m] /\ Goto(c, "enter")
        \/ /\ table' = [k \in Key |-> IF k = K THEN m ELSE IF k \in {} THEN 0 ELSE table[k]]
           /\ sess' = Append(sess, NewSession(K)) /\ UNCHANGED shell
           /\ on' = [on EXCEPT ![c].s = m] /\ Goto(c, "enter")
    BY ZenonT(60) DEF HoldNew
  <2> QED
    BY ZenonT(30), <1>5, <1>6, <1>7, <2>1

LEMMA PoolStart == PoolInit => PoolInv
<1> SUFFICES ASSUME PoolInit PROVE PoolInv
  BY ZenonT(30)
<1>1. /\ table = [k \in Key |-> 0] /\ sess = <<>> /\ shell = <<>> /\ loop = <<>> /\ cut = {}
      /\ at = [c \in SshCaller |-> "start"] /\ on = [c \in SshCaller |-> Nowhere]
      /\ try = [c \in SshCaller |-> FreshTry]
  BY ZenonT(30) DEF PoolInit
<1>2. Nowhere \in [s : Nat, x : Nat] /\ FreshTry \in TryRec /\ TryAt("start", FreshTry)
  BY DEF Nowhere, FreshTry, TryRec, TryAt
<1>3. PoolTypes
  BY SMTT(30), <1>1, <1>2 DEF PoolTypes, Places
<1>4. FlightInv
  <2>1. /\ DOMAIN sess = {} /\ DOMAIN shell = {} /\ DOMAIN loop = {} /\ Len(loop) = Len(shell)
        /\ \A k \in Key : table[k] = 0 /\ table[k] <= Len(sess)
    BY <1>1
  <2>2. \A c \in SshCaller : at[c] \notin Working \cup {"wait"} /\ at[c] # "dial"
                             /\ at[c] \notin {"dialed", "send", "await", "reset"}
    BY ZenonT(30), <1>1 DEF Working
  <2>3. RangesOK /\ TableOK /\ DialClear
    BY Zenon, <2>1, <2>2 DEF RangesOK, TableOK, DialClear
  <2>4. QueueOK /\ OneHolder /\ QueueHeld /\ NoLeakedShell
    BY Zenon, <2>1 DEF QueueOK, OneHolder, QueueHeld, NoLeakedShell
  <2> QED
    BY Zenon, <2>3, <2>4 DEF FlightInv
<1>5. TryOK
  BY ZenonT(30), <1>1, <1>2 DEF TryOK
<1> QED
  BY ZenonT(30), <1>3, <1>4, <1>5 DEF PoolInv

LEMMA PoolStep == PoolInv /\ [PoolNext]_poolvars => PoolInv'
<1> SUFFICES ASSUME PoolInv, [PoolNext]_poolvars PROVE PoolInv'
  BY ZenonT(30)
<1>1. ASSUME NEW c \in SshCaller, RunStep(c) \/ WaitEnds(c) \/ PoolDialFails(c) \/ Output(c)
      PROVE  PoolInv'
  <2>1. ASSUME HoldClosed(c) PROVE PoolInv'
    BY ZenonT(30), <2>1, GivesUp DEF HoldClosed, Goto, conns, calls, admin
  <2> QED
    BY ZenonT(30), <1>1, <2>1, HoldNewKeeps, HoldOldKeeps, EnterKeeps, NewPasswordKeeps,
       CheckKeeps, EnsureKeeps,
       DialOkKeeps, KeepaliveKeeps, JobKeeps, SendKeeps, AnswerKeeps, NoAnswerKeeps, JobDoneKeeps,
       ReleaseKeeps, WaitEndsKeeps, DialFailsKeeps, OutputKeeps DEF RunStep
<1>2. ASSUME NEW x \in DOMAIN loop, KaTick(x) \/ KaAnswer(x) \/ KaKill(x) \/ DropSession(x)
      PROVE  PoolInv'
  BY ZenonT(30), <1>2, KeepaliveLoopKeeps, DropKeeps
<1>3. ASSUME NEW k \in Key, IdleExpires(k) \/ Evict(k) PROVE PoolInv'
  BY ZenonT(30), <1>3, IdleExpiresKeeps, EvictKeeps
<1>4. ASSUME Close PROVE PoolInv'
  BY ZenonT(30), <1>4, CloseKeeps
<1>5. CASE UNCHANGED poolvars
  <2>1. UNCHANGED <<table, cut, at, on, try, sess, shell, loop>>
    BY ZenonT(30), <1>5 DEF poolvars
  <2>2. sess' \in Seq(SessionRec) /\ shell' \in Seq(ShellStates) /\ SessionsQuiet
    BY ZenonT(30), <2>1, NothingMarked DEF PoolInv, FlightInv
  <2> QED
    BY ZenonT(30), <2>1, <2>2, SameLoops, OthersQuiet DEF PoolInv
<1> QED
  BY ZenonT(30), <1>1, <1>2, <1>3, <1>4, <1>5 DEF PoolNext

LEMMA PoolInvariant == PoolSpec => []PoolInv
  BY PoolStart, PoolStep, PTL DEF PoolSpec

\* The pool of device shells keeps its promises (holdSession, release, Evict and
\* Close): a session has at most one caller, which has it marked busy and in the
\* table; behind every queue there is a caller that will release; and a shell
\* that is open belongs to a session in the table.  Only the sessions that Evict
\* or Close took from their callers are excepted.
THEOREM PoolStaysSafe ==
  PoolSpec => [](PoolTypeOK /\ SingleFlight /\ NoStrandedWaiter /\ NoLeakedShell)
<1>1. PoolInv => PoolTypeOK /\ SingleFlight /\ NoStrandedWaiter /\ NoLeakedShell
  <2> SUFFICES ASSUME PoolInv PROVE PoolTypeOK /\ SingleFlight /\ NoStrandedWaiter /\ NoLeakedShell
    BY ZenonT(30)
  <2>1. /\ RangesOK /\ OneHolder /\ QueueHeld /\ NoLeakedShell /\ table \in [Key -> Nat]
        /\ sess \in Seq(SessionRec) /\ shell \in Seq(ShellStates) /\ loop \in Seq(LoopRec)
        /\ at \in [SshCaller -> Places]
    BY ZenonT(30) DEF PoolInv, FlightInv, PoolTypes
  <2>2. PoolTypeOK
    <3>1. \A s \in DOMAIN sess : sess[s].shell \in Nat /\ sess[s].ka \in Nat
      BY ZenonT(30), <2>1, RecFacts
    <3>2. Len(sess) \in Nat /\ Len(shell) \in Nat /\ Len(loop) = Len(shell) /\ DOMAIN loop = DOMAIN shell
      BY <2>1 DEF RangesOK
    <3> QED
      BY <2>1, <3>1, <3>2 DEF PoolTypeOK, RangesOK
  <2>3. \A c \in SshCaller, s \in DOMAIN sess : Holds(c, s) <=> c \in Holders(s)
    BY ZenonT(30), <2>1 DEF Holds, Holders, Places, Working
  <2>4. SingleFlight
    <3> SUFFICES ASSUME NEW s \in DOMAIN sess, s \notin cut
                 PROVE  /\ \A c, d \in Holders(s) : c = d
                        /\ Holders(s) # {} => sess[s].busy /\ table[sess[s].key] = s
      BY ZenonT(30) DEF SingleFlight, Orphan
    <3>1. Holders(s) \subseteq SshCaller
      BY ZenonT(30) DEF Holders
    <3> QED
      BY ZenonT(30), <2>1, <2>3, <3>1 DEF OneHolder
  <2>5. NoStrandedWaiter
    BY ZenonT(30), <2>1, <2>3 DEF NoStrandedWaiter, QueueHeld
  <2> QED
    BY ZenonT(30), <2>1, <2>2, <2>4, <2>5
<1> QED
  BY <1>1, PoolInvariant, PTL

\* A step that does not count another arrival of a request's first command.
LEMMA NotSent ==
  ASSUME PoolInv, \A d \in SshCaller : try'[d].n \in {0, try[d].n} PROVE ReplayedOnlyUnanswered
<1>1. \A d \in SshCaller : try[d].n \in Nat
  BY ZenonT(30) DEF PoolInv, PoolTypes, TryRec
<1>2. \A d \in SshCaller : ~(try'[d].n > try[d].n)
  BY <1>1
<1> QED
  BY ZenonT(30), <1>2 DEF ReplayedOnlyUnanswered

LEMMA OneNotSent ==
  ASSUME PoolInv, NEW c \in SshCaller, NEW r, try' = [try EXCEPT ![c] = r], r.n \in {0, try[c].n}
  PROVE  ReplayedOnlyUnanswered
<1>1. \A d \in SshCaller : try'[d] = IF d = c THEN r ELSE try[d]
  BY ZenonT(30) DEF PoolInv, PoolTypes
<1> QED
  BY ZenonT(30), <1>1, NotSent

LEMMA FailedNotSent ==
  ASSUME PoolInv, NEW c \in SshCaller, Replay(c) \/ UNCHANGED try PROVE ReplayedOnlyUnanswered
<1>1. CASE Replay(c)
  <2>1. /\ \A d \in SshCaller : d # c => try'[d] = try[d]
        /\ try'[c].n = try[c].n
    BY ZenonT(30), <1>1, Replayed DEF PoolInv
  <2> QED
    BY ZenonT(30), <2>1, NotSent
<1>2. CASE UNCHANGED try
  BY ZenonT(30), <1>2, NotSent
<1> QED
  BY ZenonT(30), <1>1, <1>2

LEMMA SendCounts == ASSUME PoolInv, NEW c \in SshCaller, Send(c) PROVE ReplayedOnlyUnanswered
<1>1. at[c] = "send" /\ TryAt("send", try[c]) /\ try[c] \in TryRec /\ try \in [SshCaller -> TryRec]
  BY ZenonT(30) DEF PoolInv, PoolTypes, TryOK, Send
<1>2. CASE Replay(c) \/ UNCHANGED try
  BY ZenonT(30), <1>2, FailedNotSent
<1>3. CASE try' = [try EXCEPT ![c].n = @ + (IF shell[on[c].x] = "live" /\ try[c].i = 0 THEN 1 ELSE 0)]
  <2>1. CASE shell[on[c].x] = "live" /\ try[c].i = 0
    <3>1. ~try[c].got /\ try[c].n <= 1 /\ (~try[c].replayed => try[c].n = 0) /\ try[c].n \in Nat
      BY ZenonT(30), <1>1, <2>1 DEF TryAt, TryRec
    <3>2. try[c].n = 0 \/ try[c].n = 1
      BY <3>1
    <3>3. try[c].n = 0 \/ (try[c].n = 1 /\ try[c].replayed /\ ~try[c].got)
      BY <3>1, <3>2, Zenon
    <3>4. \A d \in SshCaller : d # c => try'[d] = try[d] /\ ~(try'[d].n > try[d].n)
      BY <1>1, <1>3 DEF TryRec
    <3> QED
      BY ZenonT(30), <3>3, <3>4 DEF ReplayedOnlyUnanswered
  <2>2. CASE ~(shell[on[c].x] = "live" /\ try[c].i = 0)
    <3>1. \A d \in SshCaller : try'[d].n = try[d].n
      BY <1>1, <1>3, <2>2 DEF TryRec
    <3> QED
      BY ZenonT(30), <3>1, NotSent
  <2> QED
    BY ZenonT(30), <2>1, <2>2
<1> QED
  BY ZenonT(30), <1>2, <1>3 DEF Send, JobFails

\* A device that has answered is never sent the request again (shouldStaleReplay
\* in Run): the first command of a request reaches a device a second time only
\* after a replay of an attempt that produced nothing, and never a third time.
THEOREM AnswersAreNotReplayed == PoolSpec => [][ReplayedOnlyUnanswered]_poolvars
<1>1. ASSUME PoolInv, PoolNext PROVE ReplayedOnlyUnanswered
  <2>1. CASE UNCHANGED try
    BY ZenonT(30), <1>1, <2>1, NotSent
  <2>2. ASSUME NEW c \in SshCaller, NEW r \in TryRec, r.n = try[c].n \/ r.n = 0, try' = [try EXCEPT ![c] = r]
        PROVE  ReplayedOnlyUnanswered
    BY ZenonT(30), <1>1, <2>2, OneNotSent
  <2>3. ASSUME NEW c \in SshCaller,
               Enter(c) \/ NewPassword(c) \/ AnswerCmd(c) \/ Output(c) \/ Release(c)
        PROVE  ReplayedOnlyUnanswered
    <3>1. try[c] \in TryRec /\ try \in [SshCaller -> TryRec]
      BY ZenonT(30), <1>1 DEF PoolInv, PoolTypes
    <3>2. CASE Enter(c) \/ NewPassword(c)
      <4>1. PICK b \in BOOLEAN : try' = [try EXCEPT ![c] = [try[c] EXCEPT !.wasIdle = b]]
        BY ZenonT(30), <3>2 DEF Enter, NewPassword
      <4>2. [try[c] EXCEPT !.wasIdle = b] \in TryRec /\ [try[c] EXCEPT !.wasIdle = b].n = try[c].n
        BY ZenonT(30), <3>1 DEF TryRec
      <4> QED
        BY ZenonT(30), <2>2, <4>1, <4>2
    <3>3. CASE AnswerCmd(c)
      <4>1. PICK out \in BOOLEAN : try' = [try EXCEPT ![c].i = @ + 1, ![c].got = @ \/ out]
        BY ZenonT(30), <3>3 DEF AnswerCmd
      <4>2. \A d \in SshCaller : try'[d].n = try[d].n
        BY ZenonT(30), <3>1, <4>1 DEF TryRec
      <4> QED
        BY ZenonT(30), <1>1, <4>2, NotSent
    <3>4. CASE Output(c)
      <4>1. try' = [try EXCEPT ![c] = [try[c] EXCEPT !.got = TRUE]]
        BY ZenonT(30), <3>4 DEF Output
      <4>2. [try[c] EXCEPT !.got = TRUE] \in TryRec /\ [try[c] EXCEPT !.got = TRUE].n = try[c].n
        BY ZenonT(30), <3>1 DEF TryRec
      <4> QED
        BY ZenonT(30), <2>2, <4>1, <4>2
    <3>5. CASE Release(c)
      <4>1. try' = [try EXCEPT ![c] = FreshTry] /\ FreshTry \in TryRec /\ FreshTry.n = 0
        BY ZenonT(30), <3>5 DEF Release, FreshTry, TryRec
      <4> QED
        BY ZenonT(30), <2>2, <4>1
    <3> QED
      BY ZenonT(30), <2>3, <3>2, <3>3, <3>4, <3>5
  <2>4. ASSUME NEW c \in SshCaller, Job(c) PROVE ReplayedOnlyUnanswered
    <3>1. try[c] \in TryRec
      BY ZenonT(30), <1>1 DEF PoolInv, PoolTypes
    <3>2. Replay(c) \/ UNCHANGED try \/ try' = [try EXCEPT ![c] = [try[c] EXCEPT !.i = 0]]
      BY ZenonT(30), <2>4 DEF Job, JobFails
    <3>3. [try[c] EXCEPT !.i = 0] \in TryRec /\ [try[c] EXCEPT !.i = 0].n = try[c].n
      BY ZenonT(30), <3>1 DEF TryRec
    <3> QED
      BY ZenonT(30), <1>1, <2>2, <3>2, <3>3, FailedNotSent
  <2>5. ASSUME NEW c \in SshCaller, Check(c) \/ NoAnswer(c) PROVE ReplayedOnlyUnanswered
    <3>1. Replay(c) \/ UNCHANGED try
      BY ZenonT(30), <2>5 DEF Check, NoAnswer, JobFails
    <3> QED
      BY ZenonT(30), <1>1, <3>1, FailedNotSent
  <2>6. \/ UNCHANGED try
        \/ \E c \in SshCaller : \/ Enter(c) \/ NewPassword(c) \/ AnswerCmd(c) \/ Output(c) \/ Release(c)
                                \/ Job(c) \/ Check(c) \/ NoAnswer(c) \/ Send(c)
    BY <1>1, ZenonT(60) DEF PoolNext, RunStep, HoldNew, HoldOld, HoldClosed, EnsureDialed,
       PoolDialOk,
       StartKeepalive, JobDone, WaitEnds, PoolDialFails, KaTick, KaAnswer, KaKill, DropSession,
       IdleExpires, Evict, Close, calls
  <2> QED
    BY ZenonT(30), <1>1, <2>1, <2>3, <2>4, <2>5, <2>6, SendCounts
<1>2. PoolInv /\ [PoolNext]_poolvars => [ReplayedOnlyUnanswered]_poolvars
  BY ZenonT(30), <1>1
<1> QED
  BY <1>2, PoolInvariant, PTL DEF PoolSpec

=============================================================================
