------------------------------- MODULE HubConn -------------------------------
(***************************************************************************)
(* The connection side of RemoteManager (internal/worker/hub.go).          *)
(* reconcile compares the WorkerNode rows with the running dial loops and  *)
(* cancels or starts loops; a dialLoop runs connectOnce again and again    *)
(* with back-off; connectOnce reads the hello, registers the connection in *)
(* m.conns, and unregisters it when its read fails.  A step is a critical  *)
(* section of m.mu or the wait between two of them.                        *)
(***************************************************************************)
EXTENDS Integers, FiniteSets

CONSTANTS
    Node,           \* WorkerNode.Name
    Config,         \* the Address/Token/TLS settings a row can have
    Off,            \* the row is disabled or gone
    NoConn,           \* "no loop / no settings"
    MinBackoff, MaxBackoff,     \* dialBackoffMin, dialBackoffMax
    MaxConnEdits,       \* bound: changes of WorkerNode rows
    MaxConnFaults       \* bound: connections that break, dials or hellos that fail

ASSUME HubConnAssumption ==
    /\ Off \notin Config /\ NoConn \notin Config
    /\ MinBackoff \in Nat \ {0} /\ MaxBackoff \in Nat /\ MinBackoff <= MaxBackoff
    /\ {MaxConnEdits, MaxConnFaults} \subseteq Nat
    /\ NoConn \notin Node \X Nat

\* A dialLoop goroutine: the k-th one started for its node.
Loop == Node \X (1 .. MaxConnEdits + 1)

VARIABLES
    row,        \* the WorkerNode rows
    snap,       \* the rows reconcile has loaded, None between two runs
    active,     \* m.active: the loop whose cancel function is kept
    nodes,      \* m.nodes: the settings that loop was started with
    loopGen,        \* loops started per node
    loopPc,         \* dialLoop / connectOnce
    cancelled,  \* nodeCtx of the loop is done
    alive,      \* its socket is open
    connected,  \* connectOnce's result: a hello was received
    backoff,    \* dialLoop's local
    conns,      \* m.conns, a loop standing for the nodeConn it has
    status,     \* m.status[n].Connected
    connUsed        \* how much of each bound is spent

mgrVars  == <<snap, active, nodes, loopGen>>
loopVars == <<loopPc, alive, connected, backoff>>
connvars == <<row, mgrVars, loopVars, cancelled, conns, status, connUsed>>

ConnInit ==
    /\ row \in [Node -> Config] /\ snap = NoConn
    /\ active = [n \in Node |-> NoConn] /\ nodes = [n \in Node |-> NoConn]
    /\ loopGen = [n \in Node |-> 0]
    /\ loopPc = [l \in Loop |-> "new"] /\ cancelled = [l \in Loop |-> FALSE]
    /\ alive = [l \in Loop |-> FALSE] /\ connected = [l \in Loop |-> FALSE]
    /\ backoff = [l \in Loop |-> MinBackoff]
    /\ conns = [n \in Node |-> NoConn] /\ status = [n \in Node |-> FALSE]
    /\ connUsed = [edits |-> 0, faults |-> 0]

-----------------------------------------------------------------------------
(* The administrator and reconcile.                                        *)

\* A WorkerNode row is edited, disabled, deleted or enabled again.
Edit(n) ==
    /\ connUsed.edits < MaxConnEdits /\ connUsed' = [connUsed EXCEPT !.edits = @ + 1]
    /\ \E c \in (Config \cup {Off}) \ {row[n]} : row' = [row EXCEPT ![n] = c]
    /\ UNCHANGED <<mgrVars, loopVars, cancelled, conns, status>>

\* reconcile loads the enabled rows before it takes m.mu.
LoadRows ==
    /\ snap = NoConn /\ snap' = row
    /\ UNCHANGED <<row, active, nodes, loopGen, loopVars, cancelled, conns, status, connUsed>>

Stops(n)    == active[n] # NoConn /\ snap[n] = Off
Restarts(n) == snap[n] # Off /\ nodes[n] # NoConn /\ nodes[n] # snap[n]
Starts(n)   == snap[n] # Off /\ nodes[n] # snap[n]

\* Mutant of Reconcile: a restart forgets to cancel the old loop.
ReconcileNoCancel ==
    LET stop == {n \in Node : Stops(n)}
        start == {n \in Node : Starts(n)}
        NewLoop(n) == <<n, loopGen[n] + 1>>
    IN
    /\ snap # NoConn /\ snap' = NoConn
    /\ cancelled' = [l \in Loop |-> cancelled[l] \/ \E n \in stop : active[n] = l]
    /\ active' = [n \in Node |-> CASE n \in stop -> NoConn [] n \in start -> NewLoop(n) [] OTHER -> active[n]]
    /\ nodes' = [n \in Node |-> CASE n \in stop -> NoConn [] n \in start -> snap[n] [] OTHER -> nodes[n]]
    /\ loopGen' = [n \in Node |-> IF n \in start THEN loopGen[n] + 1 ELSE loopGen[n]]
    /\ loopPc' = [l \in Loop |-> IF \E n \in start : l = NewLoop(n) THEN "check" ELSE loopPc[l]]
    /\ UNCHANGED <<row, alive, connected, backoff, conns, status, connUsed>>

\* reconcile's critical section: cancel the loops of nodes that are gone or
\* whose settings changed, and start a loop for every enabled node without one.
Reconcile ==
    LET stop == {n \in Node : Stops(n)}
        start == {n \in Node : Starts(n)}
        NewLoop(n) == <<n, loopGen[n] + 1>>
    IN
    /\ snap # NoConn /\ snap' = NoConn
    /\ cancelled' = [l \in Loop |-> cancelled[l] \/ \E n \in Node :
                                        (Stops(n) \/ Restarts(n)) /\ active[n] = l]
    /\ active' = [n \in Node |-> CASE n \in stop -> NoConn [] n \in start -> NewLoop(n) [] OTHER -> active[n]]
    /\ nodes' = [n \in Node |-> CASE n \in stop -> NoConn [] n \in start -> snap[n] [] OTHER -> nodes[n]]
    /\ loopGen' = [n \in Node |-> IF n \in start THEN loopGen[n] + 1 ELSE loopGen[n]]
    /\ loopPc' = [l \in Loop |-> IF \E n \in start : l = NewLoop(n) THEN "check" ELSE loopPc[l]]
    /\ UNCHANGED <<row, alive, connected, backoff, conns, status, connUsed>>

-----------------------------------------------------------------------------
(* dialLoop and connectOnce.                                               *)

LoopGoto(l, step) == loopPc' = [loopPc EXCEPT ![l] = step]
SetStatus(l, up) == status' = [status EXCEPT ![l[1]] = up]
ConnFault == connUsed.faults < MaxConnFaults /\ connUsed' = [connUsed EXCEPT !.faults = @ + 1]

\* The top of the loop: a cancelled context ends it.
Check(l) ==
    /\ loopPc[l] = "check" /\ LoopGoto(l, IF cancelled[l] THEN "exit" ELSE "dial")
    /\ UNCHANGED <<row, mgrVars, alive, connected, backoff, cancelled, conns, status, connUsed>>

\* DialContext fails: refused, bad certificate, or cancelled.
DialFail(l) ==
    /\ loopPc[l] = "dial"
    /\ ConnFault \/ (cancelled[l] /\ UNCHANGED connUsed)
    /\ SetStatus(l, FALSE) /\ LoopGoto(l, "returned")
    /\ connected' = [connected EXCEPT ![l] = FALSE]
    /\ UNCHANGED <<row, mgrVars, alive, backoff, cancelled, conns>>

DialOk(l) ==
    /\ loopPc[l] = "dial" /\ LoopGoto(l, "open")
    /\ alive' = [alive EXCEPT ![l] = TRUE]
    /\ connected' = [connected EXCEPT ![l] = FALSE]
    /\ UNCHANGED <<row, mgrVars, backoff, cancelled, conns, status, connUsed>>

\* The hello may already be in the read buffer when the socket is closed.
\* A worker of another build is refused.
ReadHello(l) ==
    /\ loopPc[l] = "open"
    /\ \/ LoopGoto(l, "hello") /\ UNCHANGED <<status, connUsed>>
       \/ ConnFault /\ SetStatus(l, FALSE) /\ LoopGoto(l, "closing")
    /\ UNCHANGED <<row, mgrVars, alive, connected, backoff, cancelled, conns>>

\* Mutant of RegisterConn: the connection is not stored.
RegisterNot(l) ==
    /\ loopPc[l] = "hello" /\ LoopGoto(l, "mark")
    /\ connected' = [connected EXCEPT ![l] = TRUE]
    /\ UNCHANGED <<row, mgrVars, alive, backoff, cancelled, conns, status, connUsed>>

\* m.conns[node] = nc, in a critical section of its own.
RegisterConn(l) ==
    /\ loopPc[l] = "hello" /\ LoopGoto(l, "mark")
    /\ connected' = [connected EXCEPT ![l] = TRUE]
    /\ conns' = [conns EXCEPT ![l[1]] = l]
    /\ UNCHANGED <<row, mgrVars, alive, backoff, cancelled, status, connUsed>>

\* ... and the status after it.
Mark(l) ==
    /\ loopPc[l] = "mark" /\ LoopGoto(l, "up") /\ SetStatus(l, TRUE)
    /\ UNCHANGED <<row, mgrVars, alive, connected, backoff, cancelled, conns, connUsed>>

\* Mutant of ReadErr: the loop ends with its first connection.
ReadErrExit(l) ==
    /\ loopPc[l] \in {"open", "up"} /\ ~alive[l]
    /\ SetStatus(l, FALSE) /\ LoopGoto(l, "exit")
    /\ UNCHANGED <<row, mgrVars, alive, connected, backoff, cancelled, conns, connUsed>>

\* ReadMessage fails: the status first, then the deferred teardown.
ReadErr(l) ==
    /\ loopPc[l] \in {"open", "up"} /\ ~alive[l]
    /\ SetStatus(l, FALSE) /\ LoopGoto(l, "closing")
    /\ UNCHANGED <<row, mgrVars, alive, connected, backoff, cancelled, conns, connUsed>>

\* The teardown removes the entry only if it is still this connection's.
UnregisterConn(l) ==
    /\ loopPc[l] = "closing" /\ LoopGoto(l, "returned")
    /\ alive' = [alive EXCEPT ![l] = FALSE]
    /\ conns' = [conns EXCEPT ![l[1]] = IF @ = l THEN NoConn ELSE @]
    /\ UNCHANGED <<row, mgrVars, connected, backoff, cancelled, status, connUsed>>

Least(a, b) == IF a < b THEN a ELSE b

NextBackoff(l) == IF connected[l] THEN MinBackoff ELSE Least(2 * backoff[l], MaxBackoff)

\* connectOnce has returned: leave, or sleep for the back-off.
Returned(l) ==
    /\ loopPc[l] = "returned"
    /\ IF cancelled[l]
       THEN LoopGoto(l, "exit") /\ UNCHANGED backoff
       ELSE LoopGoto(l, "sleep") /\ backoff' = [backoff EXCEPT ![l] = NextBackoff(l)]
    /\ UNCHANGED <<row, mgrVars, alive, connected, cancelled, conns, status, connUsed>>

Wake(l) ==
    /\ loopPc[l] = "sleep"
    /\ LoopGoto(l, "check") \/ (cancelled[l] /\ LoopGoto(l, "exit"))
    /\ UNCHANGED <<row, mgrVars, alive, connected, backoff, cancelled, conns, status, connUsed>>

\* The watcher goroutine turns a cancelled context into a Close.
Watch(l) ==
    /\ cancelled[l] /\ alive[l]
    /\ alive' = [alive EXCEPT ![l] = FALSE]
    /\ UNCHANGED <<row, mgrVars, loopPc, connected, backoff, cancelled, conns, status, connUsed>>

\* The peer or the network ends the connection.
Drop(l) ==
    /\ alive[l] /\ ConnFault
    /\ alive' = [alive EXCEPT ![l] = FALSE]
    /\ UNCHANGED <<row, mgrVars, loopPc, connected, backoff, cancelled, conns, status>>

-----------------------------------------------------------------------------
Manager == LoadRows \/ Reconcile

DialLoop(l) ==
    \/ Check(l) \/ DialFail(l) \/ DialOk(l) \/ ReadHello(l) \/ RegisterConn(l) \/ Mark(l)
    \/ ReadErr(l) \/ UnregisterConn(l) \/ Returned(l) \/ Wake(l)

ConnNext ==
    \/ \E n \in Node : Edit(n)
    \/ Manager
    \/ \E l \in Loop : DialLoop(l) \/ Watch(l) \/ Drop(l)

ConnSpec == ConnInit /\ [][ConnNext]_connvars

\* The ticker keeps reconcile running, and the scheduler every goroutine.
ConnFairness ==
    /\ WF_connvars(Manager)
    /\ \A l \in Loop : WF_connvars(DialLoop(l)) /\ WF_connvars(Watch(l))

ConnFairSpec == ConnSpec /\ ConnFairness

-----------------------------------------------------------------------------
(* Properties.                                                             *)

LoopsOf(n) == {l \in Loop : l[1] = n}

Places == {"new", "check", "dial", "open", "hello", "mark", "up", "closing",
           "returned", "sleep", "exit"}

\* Every variable keeps its type; the back-off stays within its limits.
ConnTypeOK ==
    /\ row \in [Node -> Config \cup {Off}]
    /\ snap \in [Node -> Config \cup {Off}] \cup {NoConn}
    /\ active \in [Node -> Loop \cup {NoConn}]
    /\ nodes \in [Node -> Config \cup {NoConn}]
    /\ loopGen \in [Node -> 0 .. MaxConnEdits + 1]
    /\ loopPc \in [Loop -> Places]
    /\ cancelled \in [Loop -> BOOLEAN] /\ alive \in [Loop -> BOOLEAN]
    /\ connected \in [Loop -> BOOLEAN] /\ backoff \in [Loop -> MinBackoff .. MaxBackoff]
    /\ conns \in [Node -> Loop \cup {NoConn}] /\ status \in [Node -> BOOLEAN]
    /\ connUsed \in [edits : 0 .. MaxConnEdits, faults : 0 .. MaxConnFaults]

\* reconcile leaves a node one dial loop that is not cancelled, and it is the
\* one whose cancel function m.active keeps: no loop runs out of control.
OneActiveLoop ==
    /\ ConnTypeOK
    /\ \A l \in Loop : loopPc[l] # "new" /\ ~cancelled[l] => active[l[1]] = l

\* m.conns never keeps a connection whose read loop has torn it down, so a
\* command is not handed to an outbox that nobody reads any more.
RegisteredIsHeld ==
    \A n \in Node : conns[n] # NoConn => loopPc[conns[n]] \in {"mark", "up", "closing"}

\* n has one connection that got its hello, and no other loop still at work.
Settled(n, l) ==
    /\ l[1] = n /\ loopPc[l] = "up" /\ alive[l]
    /\ \A k \in LoopsOf(n) \ {l} : loopPc[k] \in {"new", "exit"}

\* RemoteManager "keeps one supervised connection per node alive" and
\* NodeStatus "is a WorkerNode's live connection state": the only connection a
\* node has can be dispatched to and is reported, as long as no edit has
\* replaced its loop.  (A replaced loop's late hello and last setStatus may
\* come after its successor's.)
Dispatchable ==
    \A n \in Node, l \in Loop : Settled(n, l) /\ loopGen[n] = 1 => conns[n] = l /\ status[n]

\* reconcile reaches the rows: in the end every enabled node has a loop with
\* the settings of its row, and no other node has one.
ConfigApplied ==
    <>[](\A n \in Node : IF row[n] = Off THEN active[n] = NoConn
                                         ELSE active[n] # NoConn /\ nodes[n] = row[n])

\* A node that stays disabled ends without a registered connection.
Withdrawn == \A n \in Node : <>[](row[n] = Off) => <>[](conns[n] = NoConn)

\* Without edits a node comes back from every lost connection or failed dial.
Reconnects == [](connUsed.edits = 0) => <>[](\A n \in Node : conns[n] # NoConn /\ status[n])

\* What the manager keeps true of its loops and connections at every moment.
ConnSafe == OneActiveLoop /\ RegisteredIsHeld /\ Dispatchable

\* What it brings about: settings applied, disabled nodes left, lost ones redialled.
ConnLive == ConfigApplied /\ Withdrawn /\ Reconnects

=============================================================================
