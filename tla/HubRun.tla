------------------------------- MODULE HubRun -------------------------------
(***************************************************************************)
(* Primary-to-worker exchanges with a caller waiting on the primary:       *)
(* RunAndWait (hub.go) fans a command out to every node with the role and  *)
(* relays its output until the first exit; CallRole (hub_call.go) asks one *)
(* node and waits for one result.  On the worker, runCommand streams       *)
(* stdout and stderr and then the exit code, handleCall answers once       *)
(* (hub_agent.go, hub_call.go).  Neither the worker nor the primary's read *)
(* loop ever blocks on a caller: what does not fit is dropped.             *)
(***************************************************************************)
EXTENDS Integers, Sequences, FiniteSets

CONSTANTS
    Run,            \* calls of RunAndWait
    Call,           \* calls of CallRole
    RunNode,           \* the worker nodes that have the role
    NoRun,
    Lines,          \* lines a command prints
    Cap,            \* capacity of RunAndWait's channel (16)
    MaxRunFaults       \* bound: connections that break, messages dropped on a
                    \* stuck outbox, callers that give up (ctx, HubRPCTimeout)

Caller == Run \cup Call

ASSUME HubRunAssumption ==
    /\ Run \cap Call = {} /\ NoRun \notin RunNode \cup Caller
    /\ {Lines, MaxRunFaults} \subseteq Nat /\ Cap \in Nat \ {0}

VARIABLES
    link,       \* the node's connection: "up", "broken" (still in m.conns), "down"
    waiters,    \* m.waiters and m.callWaiters
    runPc,         \* the caller
    todo,       \* the connections sendCommandWithID still has to send to
    matched,    \* how many took the command
    ch,         \* the caller's channel
    seen,       \* what was passed to onLine
    result,     \* what the caller returns
    left,       \* left[r][n]: lines r's command on n still has to print; None: not running
    wire,       \* wire[n]: from the worker to the primary, in order
    reading,    \* the message the primary's read loop looked a channel up for
    lossy,      \* callers a message of which was dropped
    runUsed        \* the faults so far

callVars == <<runPc, todo, matched, seen, result>>
runvars == <<link, waiters, callVars, ch, left, wire, reading, lossy, runUsed>>

RunInit ==
    /\ link = [n \in RunNode |-> "up"] /\ waiters = {}
    /\ runPc = [r \in Caller |-> "start"] /\ todo = [r \in Caller |-> {}]
    /\ matched = [r \in Caller |-> 0] /\ ch = [r \in Caller |-> <<>>]
    /\ seen = [r \in Caller |-> <<>>] /\ result = [r \in Caller |-> NoRun]
    /\ left = [r \in Caller |-> [n \in RunNode |-> NoRun]]
    /\ wire = [n \in RunNode |-> <<>>] /\ reading = [n \in RunNode |-> NoRun]
    /\ lossy = {} /\ runUsed = [breaks |-> 0, stuck |-> 0, giveUps |-> 0]

RunGoto(r, step) == runPc' = [runPc EXCEPT ![r] = step]
Return(r, what) == RunGoto(r, "cleanup") /\ result' = [result EXCEPT ![r] = what]
RunFault(kind) ==
    /\ runUsed.breaks + runUsed.stuck + runUsed.giveUps < MaxRunFaults
    /\ runUsed' = [runUsed EXCEPT ![kind] = @ + 1]
Stuck == RunFault("stuck")
Registered == {n \in RunNode : link[n] # "down"}

-----------------------------------------------------------------------------
(* The callers.                                                            *)

\* RunAndWait: the waiter first ...
RegisterRun(r) ==
    /\ runPc[r] = "start" /\ r \in Run /\ RunGoto(r, "pick")
    /\ waiters' = waiters \cup {r}
    /\ UNCHANGED <<link, todo, matched, seen, result, ch, left, wire, reading, lossy, runUsed>>

\* ... then a snapshot of the matching connections (sendCommandWithID).
Pick(r) ==
    /\ runPc[r] = "pick" /\ todo' = [todo EXCEPT ![r] = Registered] /\ RunGoto(r, "send")
    /\ UNCHANGED <<link, waiters, matched, seen, result, ch, left, wire, reading, lossy, runUsed>>

\* CallRole: one matching connection and the waiter in one critical section.
PickOne(r) ==
    /\ runPc[r] = "start" /\ r \in Call
    /\ \/ \E n \in Registered : todo' = [todo EXCEPT ![r] = {n}] /\ RunGoto(r, "send")
             /\ waiters' = waiters \cup {r} /\ UNCHANGED result
       \/ Registered = {} /\ RunGoto(r, "done") /\ result' = [result EXCEPT ![r] = "none"]
             /\ UNCHANGED <<todo, waiters>>
    /\ UNCHANGED <<link, matched, seen, ch, left, wire, reading, lossy, runUsed>>

\* trySend to one connection; the worker starts at once, a dead one never.
SendTo(r, n) ==
    /\ runPc[r] = "send" /\ n \in todo[r]
    /\ todo' = [todo EXCEPT ![r] = @ \ {n}]
    /\ \/ /\ matched' = [matched EXCEPT ![r] = @ + 1]
          /\ left' = IF link[n] = "up"
                     THEN [left EXCEPT ![r][n] = IF r \in Run THEN Lines ELSE 0] ELSE left
          /\ UNCHANGED runUsed
       \/ Stuck /\ UNCHANGED <<matched, left>>
    /\ UNCHANGED <<link, waiters, runPc, seen, result, ch, wire, reading, lossy>>

SendDone(r) ==
    /\ runPc[r] = "send" /\ todo[r] = {}
    /\ IF matched[r] = 0 THEN Return(r, "none") ELSE RunGoto(r, "wait") /\ UNCHANGED result
    /\ UNCHANGED <<link, waiters, todo, matched, seen, ch, left, wire, reading, lossy, runUsed>>

\* Both wait on the channel; an exit or a call result ends the wait.
Receive(r) ==
    /\ runPc[r] = "wait" /\ ch[r] # <<>>
    /\ LET m == Head(ch[r]) IN
       /\ ch' = [ch EXCEPT ![r] = Tail(@)] /\ seen' = [seen EXCEPT ![r] = Append(@, m)]
       /\ CASE m.kind = "line" -> UNCHANGED <<runPc, result>>
            [] m.kind = "exit" -> Return(r, m.from)
            [] m.kind = "reject" -> Return(r, "rejected")
    /\ UNCHANGED <<link, waiters, todo, matched, left, wire, reading, lossy, runUsed>>

\* ctx.Done, or CallRole's timer.
GiveUp(r) ==
    /\ runPc[r] = "wait" /\ RunFault("giveUps") /\ Return(r, "gaveUp")
    /\ UNCHANGED <<link, waiters, todo, matched, seen, ch, left, wire, reading, lossy>>

Cleanup(r) ==
    /\ runPc[r] = "cleanup" /\ RunGoto(r, "done") /\ waiters' = waiters \ {r}
    /\ UNCHANGED <<link, todo, matched, seen, result, ch, left, wire, reading, lossy, runUsed>>

-----------------------------------------------------------------------------
(* The worker, and the primary's read loop.                                *)

Message(r, n, kind) == [to |-> r, from |-> n, kind |-> kind]

\* sendLog or sendCallResult: queued in order, or dropped on a stuck outbox;
\* a dead connection's outbox swallows it.
Emit(r, n, kind) ==
    \/ /\ link[n] = "up" /\ wire' = [wire EXCEPT ![n] = Append(@, Message(r, n, kind))]
       /\ UNCHANGED <<lossy, runUsed>>
    \/ /\ IF link[n] = "up" THEN Stuck ELSE UNCHANGED runUsed
       /\ lossy' = lossy \cup {r} /\ UNCHANGED wire

\* streamOutput relays a line of stdout or stderr.
PrintLine(r, n) ==
    /\ left[r][n] \in 1 .. Lines /\ Emit(r, n, "line")
    /\ left' = [left EXCEPT ![r][n] = @ - 1]
    /\ UNCHANGED <<link, waiters, callVars, ch, reading>>

\* Mutant of Exit: the exit is sent without waiting for both streams.
ExitEarly(r, n) ==
    /\ left[r][n] \in {0, 1} /\ Emit(r, n, "exit")
    /\ left' = [left EXCEPT ![r][n] = NoRun]
    /\ UNCHANGED <<link, waiters, callVars, ch, reading>>

\* runCommand: both streams are read to their end before the exit is sent.
\* handleCall: one result.
Exit(r, n) ==
    /\ left[r][n] = 0 /\ Emit(r, n, "exit")
    /\ left' = [left EXCEPT ![r][n] = NoRun]
    /\ UNCHANGED <<link, waiters, callVars, ch, reading>>

\* Mutant of Read: the entry is consumed by the first message, as a one-shot RPC waiter's.
ReadOnce(n) ==
    /\ link[n] = "up" /\ reading[n] = NoRun /\ wire[n] # <<>>
    /\ wire' = [wire EXCEPT ![n] = Tail(@)] /\ waiters' = waiters \ {Head(wire[n]).to}
    /\ reading' = [reading EXCEPT ![n] = IF Head(wire[n]).to \in waiters THEN Head(wire[n]) ELSE NoRun]
    /\ UNCHANGED <<link, callVars, ch, left, lossy, runUsed>>

\* runCommand's early returns: an unknown command, an argument that is not
\* allowed, a command that does not start.  An exit with an error is all.
Reject(r, n) ==
    /\ r \in Run /\ left[r][n] = Lines /\ Emit(r, n, "reject")
    /\ left' = [left EXCEPT ![r][n] = NoRun]
    /\ UNCHANGED <<link, waiters, callVars, ch, reading>>

\* deliverToWaiter / deliverCallResult: the channel is looked up under m.mu ...
Read(n) ==
    /\ link[n] = "up" /\ reading[n] = NoRun /\ wire[n] # <<>>
    /\ wire' = [wire EXCEPT ![n] = Tail(@)]
    /\ reading' = [reading EXCEPT ![n] = IF Head(wire[n]).to \in waiters THEN Head(wire[n]) ELSE NoRun]
    /\ UNCHANGED <<link, waiters, callVars, ch, left, lossy, runUsed>>

CapOf(r) == IF r \in Run THEN Cap ELSE 1

\* ... and the send to it does not block: a full channel drops the message.
Deliver(n) ==
    /\ reading[n] # NoRun /\ reading' = [reading EXCEPT ![n] = NoRun]
    /\ LET r == reading[n].to IN
       IF Len(ch[r]) < CapOf(r)
       THEN ch' = [ch EXCEPT ![r] = Append(@, reading[n])] /\ UNCHANGED lossy
       ELSE lossy' = lossy \cup {r} /\ UNCHANGED ch
    /\ UNCHANGED <<link, waiters, callVars, left, wire, runUsed>>

\* The connection dies; the primary unregisters it a little later.
Break(n) ==
    /\ link[n] = "up" /\ RunFault("breaks")
    /\ link' = [link EXCEPT ![n] = "broken"]
    /\ lossy' = lossy \cup {wire[n][i].to : i \in 1 .. Len(wire[n])}
    /\ wire' = [wire EXCEPT ![n] = <<>>]
    /\ UNCHANGED <<waiters, callVars, ch, left, reading>>

UnregisterRun(n) ==
    /\ link[n] = "broken" /\ reading[n] = NoRun /\ link' = [link EXCEPT ![n] = "down"]
    /\ UNCHANGED <<waiters, callVars, ch, left, wire, reading, lossy, runUsed>>

-----------------------------------------------------------------------------
Step(r) ==
    \/ RegisterRun(r) \/ Pick(r) \/ PickOne(r) \/ SendDone(r) \/ Receive(r) \/ Cleanup(r)
    \/ \E n \in RunNode : SendTo(r, n)
Worker(r, n) == PrintLine(r, n) \/ Exit(r, n) \/ Reject(r, n)
Reader(n) == Read(n) \/ Deliver(n) \/ UnregisterRun(n)

RunNext ==
    \/ \E r \in Caller : Step(r) \/ GiveUp(r) \/ \E n \in RunNode : Worker(r, n)
    \/ \E n \in RunNode : Reader(n) \/ Break(n)

RunSpec == RunInit /\ [][RunNext]_runvars

\* Goroutines are scheduled and commands end; no timer is counted on.
RunFairness ==
    /\ \A r \in Caller : WF_runvars(Step(r)) /\ \A n \in RunNode : WF_runvars(Worker(r, n))
    /\ \A n \in RunNode : WF_runvars(Reader(n))

RunFairSpec == RunSpec /\ RunFairness

-----------------------------------------------------------------------------
(* Properties.                                                             *)

Messages == [to : Caller, from : RunNode, kind : {"line", "exit", "reject"}]

\* Every variable keeps its type, and no channel holds more than it can.
RunTypeOK ==
    /\ link \in [RunNode -> {"up", "broken", "down"}] /\ waiters \subseteq Caller
    /\ runPc \in [Caller -> {"start", "pick", "send", "wait", "cleanup", "done"}]
    /\ todo \in [Caller -> SUBSET RunNode] /\ matched \in [Caller -> 0 .. Cardinality(RunNode)]
    /\ \A r \in Caller : /\ ch[r] \in Seq(Messages) /\ Len(ch[r]) <= CapOf(r)
                         /\ seen[r] \in Seq(Messages)
    /\ result \in [Caller -> RunNode \cup {"none", "rejected", "gaveUp", NoRun}]
    /\ left \in [Caller -> [RunNode -> 0 .. Lines \cup {NoRun}]]
    /\ \A n \in RunNode : wire[n] \in Seq(Messages)
    /\ reading \in [RunNode -> Messages \cup {NoRun}] /\ lossy \subseteq Caller
    /\ runUsed \in [breaks : Nat, stuck : Nat, giveUps : Nat]

\* RunAndWait that returns node n's exit has relayed all of n's output before
\* it, unless a message was dropped on the way.
OutputBeforeExit ==
    /\ RunTypeOK
    /\ \A r \in Run, n \in RunNode : result[r] = n /\ r \notin lossy =>
        Cardinality({i \in 1 .. Len(seen[r]) : seen[r][i] = Message(r, n, "line")}) = Lines

\* RunAndWait "blocks until the first matching StreamExit line arrives": a
\* call that was made returns without its timer while no connection breaks, no
\* outbox is stuck and no full channel drops one of its messages.
RunsReturn ==
    \A r \in Caller :
        []<>(runUsed.breaks = 0 /\ runUsed.stuck = 0 /\ r \notin lossy
               => runPc[r] \in {"start", "done"})

\* A remote run returns, with all the output that came before its exit.
RunFaithful == []OutputBeforeExit /\ RunsReturn

=============================================================================
