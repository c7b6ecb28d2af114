------------------------------- MODULE HubRpc -------------------------------
(***************************************************************************)
(* Worker-to-primary RPC.  On the worker, DoHubRequest registers a waiter  *)
(* in the current hubSession, queues a request and waits for the answer,   *)
(* a timeout, or the end of the session (internal/worker/worker.go); the   *)
(* sessions come and go with the connections handleHubConn serves          *)
(* (hub_agent.go).  On the primary, handleHubRequest (hub.go) runs each    *)
(* request in a goroutine of its own, at most hubRPCMaxInFlight per node,  *)
(* and answers on the connection the request came from.                    *)
(***************************************************************************)
EXTENDS Integers, FiniteSets

CONSTANTS
    Req,            \* calls of DoHubRequest
    Session,        \* hub connections of one worker node
    NoRpc,
    MaxInFlight,    \* hubRPCMaxInFlight
    MaxRpcFaults       \* bound: connections that break, messages dropped on a
                    \* stuck outbox, callers that give up (hubRPCTimeout, ctx)

ASSUME HubRpcAssumption ==
    /\ IsFiniteSet(Req)
    /\ NoRpc \notin Req \cup Session \cup {"lost"}
    /\ MaxInFlight \in Nat \ {0}
    /\ MaxRpcFaults \in Nat

VARIABLES
    hub,        \* w.hub
    phase,      \* handleHubConn of each session
    prev,       \* setHubSession's local: the session it replaced
    broken,     \* the socket is dead
    rpcWaiters,    \* sess.waiters
    rpcReading,    \* the response the read loop has looked up a channel for
    rpcPc, sess,   \* DoHubRequest: its place and its session
    rpcCh,         \* the channel of capacity one
    rpcResult,     \* what DoHubRequest returns
    up, down,   \* requests and responses under way, per session
    handler, on,    \* handleHubRequest of a request, and its connection
    inFlight,   \* m.inFlight[node]
    sent,       \* responses sent per request
    rpcUsed        \* the faults so far

agentVars == <<hub, phase, prev, broken, rpcWaiters, rpcReading>>
rpcCallVars  == <<rpcPc, sess, rpcResult>>
wireVars  == <<up, down>>
hubVars   == <<handler, on, inFlight, sent>>
rpcvars == <<agentVars, rpcCallVars, rpcCh, wireVars, hubVars, rpcUsed>>

RpcInit ==
    /\ hub = NoRpc /\ phase = [s \in Session |-> "new"] /\ prev = [s \in Session |-> NoRpc]
    /\ broken = [s \in Session |-> FALSE]
    /\ rpcWaiters = [s \in Session |-> {}] /\ rpcReading = [s \in Session |-> NoRpc]
    /\ rpcPc = [r \in Req |-> "start"] /\ sess = [r \in Req |-> NoRpc]
    /\ rpcCh = [r \in Req |-> NoRpc] /\ rpcResult = [r \in Req |-> NoRpc]
    /\ up = [s \in Session |-> {}] /\ down = [s \in Session |-> {}]
    /\ handler = [r \in Req |-> "none"] /\ on = [r \in Req |-> NoRpc]
    /\ inFlight = 0 /\ sent = [r \in Req |-> 0]
    /\ rpcUsed = [breaks |-> 0, stuck |-> 0, timeouts |-> 0]

RpcFault(kind) ==
    /\ rpcUsed.breaks + rpcUsed.stuck + rpcUsed.timeouts < MaxRpcFaults
    /\ rpcUsed' = [rpcUsed EXCEPT ![kind] = @ + 1]
StuckSession == RpcFault("stuck")

-----------------------------------------------------------------------------
(* The worker's sessions.                                                  *)

\* Mutant of Failed: the map is emptied without telling the callers.
FailedSilently(s) == rpcCh

\* failWaiters: every registered channel that is still empty gets the error.
Failed(s) == [r \in Req |-> IF r \in rpcWaiters[s] /\ rpcCh[r] = NoRpc THEN "lost" ELSE rpcCh[r]]

\* setHubSession: the new session replaces the current one ...
SetSession(s) ==
    /\ phase[s] = "new"
    /\ prev' = [prev EXCEPT ![s] = hub] /\ hub' = s
    /\ phase' = [phase EXCEPT ![s] = "replacing"]
    /\ UNCHANGED <<broken, rpcWaiters, rpcReading, rpcCallVars, rpcCh, wireVars, hubVars, rpcUsed>>

\* ... whose callers are failed after hubMu is released.
FailPrev(s) ==
    /\ phase[s] = "replacing" /\ phase' = [phase EXCEPT ![s] = "up"]
    /\ IF prev[s] = NoRpc THEN UNCHANGED <<rpcCh, rpcWaiters>>
       ELSE rpcCh' = Failed(prev[s]) /\ rpcWaiters' = [rpcWaiters EXCEPT ![prev[s]] = {}]
    /\ UNCHANGED <<hub, prev, broken, rpcReading, rpcCallVars, wireVars, hubVars, rpcUsed>>

\* Mutant of ClearSession: a newer session is cleared too.
ClearSessionAny(s) ==
    /\ phase[s] = "up" /\ broken[s] /\ rpcReading[s] = NoRpc
    /\ phase' = [phase EXCEPT ![s] = "failing"] /\ hub' = NoRpc
    /\ UNCHANGED <<prev, broken, rpcWaiters, rpcReading, rpcCallVars, rpcCh, wireVars, hubVars, rpcUsed>>

\* The read loop ends: clearHubSession, first the current session ...
ClearSession(s) ==
    /\ phase[s] = "up" /\ broken[s] /\ rpcReading[s] = NoRpc
    /\ phase' = [phase EXCEPT ![s] = "failing"]
    /\ hub' = IF hub = s THEN NoRpc ELSE hub
    /\ UNCHANGED <<prev, broken, rpcWaiters, rpcReading, rpcCallVars, rpcCh, wireVars, hubVars, rpcUsed>>

\* ... then its callers.
FailOwn(s) ==
    /\ phase[s] = "failing" /\ phase' = [phase EXCEPT ![s] = "gone"]
    /\ rpcCh' = Failed(s) /\ rpcWaiters' = [rpcWaiters EXCEPT ![s] = {}]
    /\ UNCHANGED <<hub, prev, broken, rpcReading, rpcCallVars, wireVars, hubVars, rpcUsed>>

\* The read loop takes a response and looks its waiter up under sess.mu.
ReadResponse(s) ==
    /\ phase[s] = "up" /\ ~broken[s] /\ rpcReading[s] = NoRpc
    /\ \E m \in down[s] :
         /\ down' = [down EXCEPT ![s] = @ \ {m}]
         /\ rpcReading' = [rpcReading EXCEPT ![s] = IF m.req \in rpcWaiters[s] THEN m ELSE NoRpc]
    /\ UNCHANGED <<hub, phase, prev, broken, rpcWaiters, rpcCallVars, rpcCh, up, hubVars, rpcUsed>>

\* The send to the channel does not block.
DeliverReply(s) ==
    /\ rpcReading[s] # NoRpc
    /\ LET r == rpcReading[s].req IN rpcCh' = [rpcCh EXCEPT ![r] = IF @ = NoRpc THEN rpcReading[s].kind ELSE @]
    /\ rpcReading' = [rpcReading EXCEPT ![s] = NoRpc]
    /\ UNCHANGED <<hub, phase, prev, broken, rpcWaiters, rpcCallVars, wireVars, hubVars, rpcUsed>>

\* The connection dies, and what is under way on it with it.
BreakSession(s) ==
    /\ phase[s] \in {"replacing", "up"} /\ ~broken[s] /\ RpcFault("breaks")
    /\ broken' = [broken EXCEPT ![s] = TRUE]
    /\ up' = [up EXCEPT ![s] = {}] /\ down' = [down EXCEPT ![s] = {}]
    /\ UNCHANGED <<hub, phase, prev, rpcWaiters, rpcReading, rpcCallVars, rpcCh, hubVars>>

-----------------------------------------------------------------------------
(* DoHubRequest.                                                           *)

ReturnCall(r, what) == rpcPc' = [rpcPc EXCEPT ![r] = "cleanup"] /\ rpcResult' = [rpcResult EXCEPT ![r] = what]

\* Mutant of RegisterRpc: the session is read before it is locked, so it may be
\* the one a newer connection has just replaced.
RegisterStale(r) ==
    /\ rpcPc[r] = "start"
    /\ \E s \in Session :
         /\ s = hub \/ \E n \in Session : prev[n] = s
         /\ sess' = [sess EXCEPT ![r] = s]
         /\ rpcWaiters' = [rpcWaiters EXCEPT ![s] = @ \cup {r}]
    /\ rpcPc' = [rpcPc EXCEPT ![r] = "send"]
    /\ UNCHANGED <<hub, phase, prev, broken, rpcReading, rpcResult, rpcCh, wireVars, hubVars, rpcUsed>>

\* The waiter is registered in the current session while hubMu is held.
RegisterRpc(r) ==
    /\ rpcPc[r] = "start" /\ hub # NoRpc
    /\ sess' = [sess EXCEPT ![r] = hub]
    /\ rpcWaiters' = [rpcWaiters EXCEPT ![hub] = @ \cup {r}]
    /\ rpcPc' = [rpcPc EXCEPT ![r] = "send"]
    /\ UNCHANGED <<hub, phase, prev, broken, rpcReading, rpcResult, rpcCh, wireVars, hubVars, rpcUsed>>

\* No session, or a frame beyond hubMaxMessageSize: nothing is sent.
Refuse(r) ==
    /\ rpcPc[r] = "start"
    /\ rpcPc' = [rpcPc EXCEPT ![r] = "done"]
    /\ \/ hub = NoRpc /\ rpcResult' = [rpcResult EXCEPT ![r] = "disconnected"]
       \/ rpcResult' = [rpcResult EXCEPT ![r] = "tooLarge"]
    /\ UNCHANGED <<agentVars, sess, rpcCh, wireVars, hubVars, rpcUsed>>

\* trySend on the session's outbox.  A dead connection's outbox still takes
\* the request, and nobody reads it.
Send(r) ==
    /\ rpcPc[r] = "send"
    /\ \/ /\ up' = [up EXCEPT ![sess[r]] = IF broken[sess[r]] THEN {} ELSE @ \cup {r}]
          /\ rpcPc' = [rpcPc EXCEPT ![r] = "wait"] /\ UNCHANGED <<rpcResult, rpcUsed>>
       \/ StuckSession /\ ReturnCall(r, "stuck") /\ UNCHANGED up
    /\ UNCHANGED <<agentVars, sess, rpcCh, down, hubVars>>

ReceiveReply(r) ==
    /\ rpcPc[r] = "wait" /\ rpcCh[r] # NoRpc /\ ReturnCall(r, rpcCh[r])
    /\ UNCHANGED <<agentVars, sess, rpcCh, wireVars, hubVars, rpcUsed>>

Timeout(r) ==
    /\ rpcPc[r] = "wait" /\ RpcFault("timeouts") /\ ReturnCall(r, "timeout")
    /\ UNCHANGED <<agentVars, sess, rpcCh, wireVars, hubVars>>

\* The deferred delete of the waiter.
CleanupCall(r) ==
    /\ rpcPc[r] = "cleanup" /\ rpcPc' = [rpcPc EXCEPT ![r] = "done"]
    /\ rpcWaiters' = [rpcWaiters EXCEPT ![sess[r]] = @ \ {r}]
    /\ UNCHANGED <<hub, phase, prev, broken, rpcReading, sess, rpcResult, rpcCh, wireVars, hubVars, rpcUsed>>

-----------------------------------------------------------------------------
(* The primary: connectOnce's read loop and handleHubRequest.              *)

ReadRequest(s) ==
    /\ ~broken[s]
    /\ \E r \in up[s] :
         /\ up' = [up EXCEPT ![s] = @ \ {r}]
         /\ handler' = [handler EXCEPT ![r] = "enter"] /\ on' = [on EXCEPT ![r] = s]
    /\ UNCHANGED <<agentVars, rpcCallVars, rpcCh, down, inFlight, sent, rpcUsed>>

Put(s, r, kind) == IF broken[s] THEN {} ELSE down[s] \cup {[req |-> r, kind |-> kind]}

\* sendHubResponse: trySend on the outbox of the request's own connection.
Answer(r, kind) ==
    /\ sent' = [sent EXCEPT ![r] = @ + 1]
    /\ \/ down' = [down EXCEPT ![on[r]] = Put(on[r], r, kind)] /\ UNCHANGED rpcUsed
       \/ StuckSession /\ UNCHANGED down

Becomes(r, step) == handler' = [handler EXCEPT ![r] = step]

\* The limit is checked and taken in one critical section.
Enter(r) ==
    /\ handler[r] = "enter"
    /\ \/ inFlight >= MaxInFlight /\ Answer(r, "busy") /\ Becomes(r, "done") /\ UNCHANGED inFlight
       \/ /\ inFlight < MaxInFlight /\ inFlight' = inFlight + 1
          /\ Becomes(r, "serve") /\ UNCHANGED <<sent, down, rpcUsed>>
    /\ UNCHANGED <<agentVars, rpcCallVars, rpcCh, up, on>>

\* The request is answered (refused by path, method or role, or served by the
\* attached handler), or the handler panics.
Serve(r) ==
    /\ handler[r] = "serve"
    /\ \/ Answer(r, "served") /\ Becomes(r, "leave")
       \/ Becomes(r, "panic") /\ UNCHANGED <<sent, down, rpcUsed>>
    /\ UNCHANGED <<agentVars, rpcCallVars, rpcCh, up, on, inFlight>>

\* Mutant of Leave: a panic keeps its place.
LeaveNoPanic(r) ==
    /\ handler[r] \in {"leave", "panic"}
    /\ inFlight' = IF handler[r] = "leave" THEN inFlight - 1 ELSE inFlight
    /\ Becomes(r, IF handler[r] = "leave" THEN "done" ELSE "recover")
    /\ UNCHANGED <<agentVars, rpcCallVars, rpcCh, wireVars, on, sent, rpcUsed>>

\* The deferred decrement, before the deferred recover.
Leave(r) ==
    /\ handler[r] \in {"leave", "panic"} /\ inFlight' = inFlight - 1
    /\ Becomes(r, IF handler[r] = "leave" THEN "done" ELSE "recover")
    /\ UNCHANGED <<agentVars, rpcCallVars, rpcCh, wireVars, on, sent, rpcUsed>>

\* Mutant of Recover: the panic is swallowed without a response.
RecoverSilent(r) ==
    /\ handler[r] = "recover" /\ Becomes(r, "done")
    /\ UNCHANGED <<agentVars, rpcCallVars, rpcCh, wireVars, on, inFlight, sent, rpcUsed>>

\* A panic before the response is answered with status 500.
Recover(r) ==
    /\ handler[r] = "recover" /\ Becomes(r, "done") /\ Answer(r, "failed")
    /\ UNCHANGED <<agentVars, rpcCallVars, rpcCh, up, on, inFlight>>

-----------------------------------------------------------------------------
HubConnection(s) ==
    SetSession(s) \/ FailPrev(s) \/ ClearSession(s) \/ FailOwn(s) \/ ReadResponse(s) \/ DeliverReply(s)
SendCall(r) == RegisterRpc(r) \/ Refuse(r) \/ Send(r) \/ ReceiveReply(r) \/ CleanupCall(r)
Handle(r) == Enter(r) \/ Serve(r) \/ Leave(r) \/ Recover(r)

RpcNext ==
    \/ \E s \in Session : HubConnection(s) \/ BreakSession(s) \/ ReadRequest(s)
    \/ \E r \in Req : SendCall(r) \/ Timeout(r) \/ Handle(r)

RpcSpec == RpcInit /\ [][RpcNext]_rpcvars

\* Every goroutine is scheduled; nothing forces a connection to come up or to
\* break, and no timer is counted on.
RpcFairness ==
    /\ \A s \in Session :
         /\ WF_rpcvars(FailPrev(s) \/ ClearSession(s) \/ FailOwn(s) \/ DeliverReply(s) \/ ReadResponse(s))
         /\ WF_rpcvars(ReadRequest(s))
    /\ \A r \in Req : WF_rpcvars(Send(r) \/ ReceiveReply(r) \/ CleanupCall(r)) /\ WF_rpcvars(Handle(r))

RpcFairSpec == RpcSpec /\ RpcFairness

-----------------------------------------------------------------------------
(* Properties.                                                             *)

Kind == {"busy", "served", "failed"}
Response == [req : Req, kind : Kind]

\* Every variable keeps its type.
RpcTypeOK ==
    /\ hub \in Session \cup {NoRpc}
    /\ phase \in [Session -> {"new", "replacing", "up", "failing", "gone"}]
    /\ prev \in [Session -> Session \cup {NoRpc}] /\ broken \in [Session -> BOOLEAN]
    /\ rpcWaiters \in [Session -> SUBSET Req] /\ rpcReading \in [Session -> Response \cup {NoRpc}]
    /\ rpcPc \in [Req -> {"start", "send", "wait", "cleanup", "done"}]
    /\ sess \in [Req -> Session \cup {NoRpc}]
    /\ rpcCh \in [Req -> Kind \cup {"lost", NoRpc}]
    /\ rpcResult \in [Req -> Kind \cup {"lost", "disconnected", "tooLarge", "stuck", "timeout", NoRpc}]
    /\ up \in [Session -> SUBSET Req] /\ down \in [Session -> SUBSET Response]
    /\ handler \in [Req -> {"none", "enter", "serve", "leave", "panic", "recover", "done"}]
    /\ on \in [Req -> Session \cup {NoRpc}]
    /\ inFlight \in Nat /\ sent \in [Req -> Nat]
    /\ rpcUsed \in [breaks : Nat, stuck : Nat, timeouts : Nat]

\* m.inFlight counts the goroutines between its increment and its decrement,
\* panics included, so the cap of a node is neither exceeded nor leaked away.
InFlightExact ==
    /\ RpcTypeOK
    /\ inFlight = Cardinality({r \in Req : handler[r] \in {"serve", "leave", "panic"}})
    /\ inFlight <= MaxInFlight

\* handleHubRequest ends with one response, however it ends.
OneResponse ==
    \A r \in Req : /\ sent[r] <= 1
                   /\ handler[r] = "done" => sent[r] = 1

\* failWaiters has run for the session, by its own end or by its successor.
Ended(s) ==
    phase[s] = "gone" \/ \E n \in Session : prev[n] = s /\ phase[n] \notin {"new", "replacing"}

\* A caller in flight on a session that has ended has been told so: no waiter
\* is registered after failWaiters emptied the map.  One that has returned
\* leaves nothing behind in any session's map.
NoStrandedCaller ==
    \A r \in Req :
        /\ rpcPc[r] \in {"send", "wait"} /\ Ended(sess[r]) => rpcCh[r] # NoRpc
        /\ rpcPc[r] = "done" => \A s \in Session : r \notin rpcWaiters[s]

\* The session that replaced all others is current until its own connection
\* ends: the teardown of an older one does not take it away.
NewestIsCurrent ==
    \A s \in Session :
        /\ phase[s] \in {"replacing", "up"}
        /\ \A n \in Session : prev[n] # s
        => hub = s

\* While no outbox is stuck every call that was registered returns, without
\* its timer: the answer arrives, or the session ends and fails its callers.
CallsReturn ==
    [](rpcUsed.stuck = 0) => \A r \in Req : (rpcPc[r] = "send") ~> (rpcPc[r] = "done")

\* A call from a worker is counted exactly while it is served, is answered at
\* most once, and is never left waiting on a session that has ended; the newest
\* session is the one in use.
RpcSafe == InFlightExact /\ OneResponse /\ NoStrandedCaller /\ NewestIsCurrent

=============================================================================
