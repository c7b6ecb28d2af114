------------------------------- MODULE HubJobs -------------------------------
(***************************************************************************)
(* The job side of RemoteManager (internal/worker/hub.go): StartJob        *)
(* reserves a target, persists Job and JobTask rows, dispatches one        *)
(* command to one connected worker node, and the row is resolved by the    *)
(* worker's StreamExit, by the teardown of the node's connection, or by    *)
(* the dispatcher itself.  A goroutine is a program counter; a step is a   *)
(* critical section of m.mu, one database statement, or one channel send.  *)
(* The connection itself (dial loop, reconcile, status) is module HubConn. *)
(***************************************************************************)
EXTENDS Integers, Sequences, FiniteSets

CONSTANTS
    Job,            \* the calls of StartJob
    Target,         \* sync targets, Housekeeping included
    Housekeeping,   \* HousekeepingTarget, run in the primary itself
    Plan,           \* Plan[j]: the target list call j was given
    Node,           \* WorkerNode names
    Serves,         \* Serves[n]: the targets commandForJobTarget maps to a role of n
    Conn,           \* hub connections; each is dialled at most once
    NodeOf,         \* NodeOf[c]: the node connection c was dialled for
    HK,             \* the housekeeping goroutine
    None,           \* "no task / no node / no connection"
    Keep,           \* housekeeping.EffectiveKeep of Settings.JobHistoryKeep, never 0
    Edits,          \* TRUE: a node may be edited, so two connections overlap
    MaxFaults,      \* bound: database statements that fail
    MaxDrops,       \* bound: connections that break
    MaxLost,        \* bound: StreamExit lines dropped on a stuck outbox
    MaxRestarts     \* bound: restarts of the primary process

Task == UNION {{j} \X (1 .. Len(Plan[j])) : j \in Job}
Actor == Job \cup Conn \cup {HK}

ASSUME HubJobsAssumption ==
    /\ IsFiniteSet(Job) /\ Plan \in [Job -> Seq(Target)]
    /\ Housekeeping \in Target
    /\ Serves \in [Node -> SUBSET (Target \ {Housekeeping})]
    /\ NodeOf \in [Conn -> Node]
    /\ None \notin Task \cup Node \cup Conn
    /\ Job \cap Conn = {} /\ HK \notin Job \cup Conn
    /\ Edits \in BOOLEAN
    /\ Keep \in Nat \ {0}
    /\ {MaxFaults, MaxDrops, MaxLost, MaxRestarts} \subseteq Nat

VARIABLES
    job,        \* the Job row: "none", "open", "done" (finished_at set), "trimmed"
    born,       \* Job.ID, 0 before the row exists
    row,        \* the JobTask row: "none", "open", "done"
    ev,         \* JobTaskEvent rows of a task: "none", "attached", "orphan"
    running,    \* m.running[target]: task, JobTaskPK set?, node
    pc, idx,    \* StartJob / dispatchRemainingSequentially of job j
    via,        \* the connection dispatchSingle picked
    cmd,        \* the CommandMsg: "unsent", "queued", "running", "exited", "reported", "dropped"
    sentTo,     \* the connection whose outbox took the command
    link,       \* "new", "up", "broken", "removed", "failing", "gone"
    conns,      \* m.conns
    stale,      \* failRunningOnNode's local list
    res,        \* resolveTask as run by each goroutine
    hk,         \* the task runHousekeeping still has to trim for
    logged,     \* logJobFinished lines per job
    used        \* how much of each bound is spent

dbVars   == <<job, born, row, ev, logged>>
hubVars  == <<running, conns, stale, res, hk, link>>
goVars   == <<pc, idx, via>>
wireVars == <<cmd, sentTo>>
vars     == <<dbVars, hubVars, goVars, wireVars, used>>

TargetOf(x) == Plan[x[1]][x[2]]
TasksOf(j)  == {j} \X (1 .. Len(Plan[j]))
Cur(j)      == <<j, idx[j]>>

Free    == [task |-> None, pk |-> FALSE, node |-> None]
Idle    == [step |-> "idle", task |-> None, all |-> FALSE, clear |-> FALSE]
Resolve(x, clear) == [step |-> "update", task |-> x, all |-> FALSE, clear |-> clear]

Holds(x) == running[TargetOf(x)].task = x

\* A database statement that returns an error.
Fault == used.faults < MaxFaults /\ used' = [used EXCEPT !.faults = @ + 1]

Init ==
    /\ job = [j \in Job |-> "none"] /\ born = [j \in Job |-> 0]
    /\ row = [x \in Task |-> "none"] /\ ev = [x \in Task |-> "none"]
    /\ running = [t \in Target |-> Free]
    /\ pc = [j \in Job |-> "start"] /\ idx = [j \in Job |-> 1]
    /\ via = [j \in Job |-> None]
    /\ cmd = [x \in Task |-> "unsent"] /\ sentTo = [x \in Task |-> None]
    /\ link = [c \in Conn |-> "new"] /\ conns = [n \in Node |-> None]
    /\ stale = [c \in Conn |-> {}] /\ res = [a \in Actor |-> Idle]
    /\ hk = None /\ logged = [j \in Job |-> 0]
    /\ used = [faults |-> 0, drops |-> 0, lost |-> 0, restarts |-> 0]

-----------------------------------------------------------------------------
(* StartJob and the goroutine it leaves behind.                            *)

Goto(j, step) == pc' = [pc EXCEPT ![j] = step]

\* dispatchRemainingSequentially moves to the next target, or returns.
NextTarget(j) ==
    IF idx[j] < Len(Plan[j])
    THEN idx' = [idx EXCEPT ![j] = @ + 1] /\ Goto(j, "reserve")
    ELSE Goto(j, "done") /\ UNCHANGED idx

Single(j) == Len(Plan[j]) = 1

\* Mutant of Reserve: the busy check is missing.
ReserveUnchecked(j) ==
    running' = [running EXCEPT ![TargetOf(Cur(j))] = [Free EXCEPT !.task = Cur(j)]]

\* reserveTarget: check and reserve in one critical section.
Reserve(j) ==
    /\ running[TargetOf(Cur(j))].task = None
    /\ running' = [running EXCEPT ![TargetOf(Cur(j))] = [Free EXCEPT !.task = Cur(j)]]

\* clearRunning: only the task that still holds the target releases it.
Released(x) == IF Holds(x) THEN [running EXCEPT ![TargetOf(x)] = Free] ELSE running

\* StartJob with one target: a busy target persists nothing at all.
StartSingle(j) ==
    /\ pc[j] = "start" /\ Single(j)
    /\ \/ Reserve(j) /\ Goto(j, "createJob")
       \/ running[TargetOf(Cur(j))].task # None /\ Goto(j, "rejected") /\ UNCHANGED running
    /\ UNCHANGED <<dbVars, conns, stale, res, hk, link, idx, via, wireVars, used>>

NewJobRow(j) ==
    /\ job' = [job EXCEPT ![j] = "open"]
    /\ born' = [born EXCEPT ![j] = Cardinality({i \in Job : born[i] # 0}) + 1]

\* db.Create(&job).  A single-target job already holds its target.
CreateJob(j) ==
    /\ pc[j] = IF Single(j) THEN "createJob" ELSE "start"
    /\ \/ /\ NewJobRow(j)
          /\ Goto(j, CASE Single(j) -> "createTask"
                       [] Plan[j] = <<>> -> "finishEmpty"
                       [] OTHER -> "reserve")
          /\ UNCHANGED <<running, used>>
       \/ /\ Fault /\ Goto(j, "failed")
          /\ running' = IF Single(j) THEN Released(Cur(j)) ELSE running
          /\ UNCHANGED <<job, born>>
    /\ UNCHANGED <<row, ev, logged, conns, stale, res, hk, link, idx, via, wireVars>>

\* StartJob with no targets finishes the row at once and logs it even if the
\* update fails.
FinishEmpty(j) ==
    /\ pc[j] = "finishEmpty" /\ Goto(j, "done")
    /\ logged' = [logged EXCEPT ![j] = @ + 1]
    /\ \/ job' = [job EXCEPT ![j] = "done"] /\ UNCHANGED used
       \/ Fault /\ UNCHANGED job
    /\ UNCHANGED <<born, row, ev, hubVars, idx, via, wireVars>>

\* startOneTask: reserve, or remember the conflict.
ReserveNext(j) ==
    /\ pc[j] = "reserve"
    /\ \/ Reserve(j) /\ Goto(j, "createTask")
       \/ running[TargetOf(Cur(j))].task # None /\ Goto(j, "conflict") /\ UNCHANGED running
    /\ UNCHANGED <<dbVars, conns, stale, res, hk, link, idx, via, wireVars, used>>

NewRow(x) == row' = [row EXCEPT ![x] = "open"]

\* startOneTask, busy target: a row that is failed straight away.  When the
\* row cannot be created the task id is empty and nothing is waited for.
CreateConflict(j) ==
    /\ pc[j] = "conflict"
    /\ \/ /\ NewRow(Cur(j)) /\ res' = [res EXCEPT ![j] = Resolve(Cur(j), FALSE)]
          /\ Goto(j, "wait") /\ UNCHANGED <<idx, used>>
       \/ Fault /\ NextTarget(j) /\ UNCHANGED <<row, res>>
    /\ UNCHANGED <<job, born, ev, logged, running, conns, stale, hk, link, via, wireVars>>

\* Mutant of CreateTask: JobTaskPK is never recorded.
CreateTaskNoPK(j) ==
    /\ pc[j] = "createTask" /\ NewRow(Cur(j))
    /\ IF TargetOf(Cur(j)) = Housekeeping THEN hk' = Cur(j) /\ Goto(j, "wait")
                                          ELSE Goto(j, "pick") /\ UNCHANGED hk
    /\ UNCHANGED <<job, born, ev, logged, running, conns, stale, res, link, idx, via, wireVars, used>>

\* createAndDispatchTask up to the dispatch: the row, then JobTaskPK.
CreateTask(j) ==
    /\ pc[j] = "createTask"
    /\ LET t == TargetOf(Cur(j)) IN
       \/ /\ NewRow(Cur(j))
          /\ running' = IF Holds(Cur(j)) THEN [running EXCEPT ![t].pk = TRUE] ELSE running
          /\ IF t = Housekeeping THEN hk' = Cur(j) /\ Goto(j, "wait")
                                 ELSE Goto(j, "pick") /\ UNCHANGED hk
          /\ UNCHANGED used
       \/ /\ Fault /\ running' = Released(Cur(j))
          /\ Goto(j, IF Single(j) THEN "failed" ELSE "wait") /\ UNCHANGED <<row, hk>>
    /\ UNCHANGED <<job, born, ev, logged, conns, stale, res, link, idx, via, wireVars>>

\* Mutant of FailUnsent: the row is failed but the target stays reserved.
FailUnsentKeepsTarget(j) == res' = [res EXCEPT ![j] = Resolve(Cur(j), FALSE)] /\ Goto(j, "wait")

\* createAndDispatchTask, matched = 0: finishJobTask with a synthetic failure.
FailUnsent(j) == res' = [res EXCEPT ![j] = Resolve(Cur(j), TRUE)] /\ Goto(j, "wait")

\* dispatchSingle: one connection whose roles run the target, if there is one.
Pick(j) ==
    /\ pc[j] = "pick"
    /\ LET able == {n \in Node : conns[n] # None /\ TargetOf(Cur(j)) \in Serves[n]} IN
       \/ \E n \in able : via' = [via EXCEPT ![j] = conns[n]] /\ Goto(j, "send") /\ UNCHANGED res
       \/ able = {} /\ FailUnsent(j) /\ UNCHANGED via
    /\ UNCHANGED <<dbVars, running, conns, stale, hk, link, idx, wireVars, used>>

\* dispatchSingle: trySend outside m.mu.  The outbox of a connection that is
\* already torn down still takes the envelope; a full one times out.
Send(j) ==
    /\ pc[j] = "send"
    /\ \/ /\ cmd' = [cmd EXCEPT ![Cur(j)] = "queued"]
          /\ sentTo' = [sentTo EXCEPT ![Cur(j)] = via[j]]
          /\ Goto(j, "setNode") /\ UNCHANGED res
       \/ FailUnsent(j) /\ UNCHANGED wireVars
    /\ UNCHANGED <<dbVars, running, conns, stale, hk, link, idx, via, used>>

\* createAndDispatchTask: record which node runs the task.
SetNode(j) ==
    /\ pc[j] = "setNode" /\ Goto(j, "wait")
    /\ running' = IF Holds(Cur(j))
                  THEN [running EXCEPT ![TargetOf(Cur(j))].node = NodeOf[via[j]]]
                  ELSE running
    /\ UNCHANGED <<dbVars, conns, stale, res, hk, link, idx, via, wireVars, used>>

\* Mutant of WaitTask: a batch does not wait for the row.
WaitTaskNot(j) ==
    /\ pc[j] = "wait" /\ res[j] = Idle /\ NextTarget(j)
    /\ UNCHANGED <<dbVars, hubVars, via, wireVars, used>>

\* StartJob returns after a single target; a batch polls the row
\* (waitForTaskFinished) and gives up on a missing row or a failing poll.
WaitTask(j) ==
    /\ pc[j] = "wait" /\ res[j] = Idle
    /\ \/ (Single(j) \/ row[Cur(j)] # "open") /\ UNCHANGED used
       \/ ~Single(j) /\ Fault
    /\ NextTarget(j)
    /\ UNCHANGED <<dbVars, hubVars, via, wireVars>>

-----------------------------------------------------------------------------
(* resolveTask, run by any of the goroutines in Actor.                     *)

Return(a) == res' = [res EXCEPT ![a] = IF @.clear THEN [@ EXCEPT !.step = "clear"] ELSE Idle]

ResolveFault(a) ==
    /\ res[a].step \in {"update", "total", "remaining", "finish"}
    /\ Fault /\ Return(a)
    /\ UNCHANGED <<dbVars, running, conns, stale, hk, link, goVars, wireVars>>

\* Load the row and set finished_at; a row that is gone ends the call.
UpdateRow(a) ==
    /\ res[a].step = "update"
    /\ IF row[res[a].task] = "none"
       THEN Return(a) /\ UNCHANGED row
       ELSE /\ row' = [row EXCEPT ![res[a].task] = "done"]
            /\ res' = [res EXCEPT ![a].step = "total"]
    /\ UNCHANGED <<job, born, ev, logged, running, conns, stale, hk, link, goVars, wireVars, used>>

RowCount(j)  == Cardinality({x \in TasksOf(j) : row[x] # "none"})
OpenCount(j) == Cardinality({x \in TasksOf(j) : row[x] = "open"})

\* Mutants of CountTotal: ExpectedTasks is ignored, or compared off by one.
CountTotalAny(a) ==
    /\ res[a].step = "total"
    /\ res' = [res EXCEPT ![a].step = "remaining", ![a].all = TRUE]
    /\ UNCHANGED <<dbVars, running, conns, stale, hk, link, goVars, wireVars, used>>

CountTotalAbove(a) ==
    /\ res[a].step = "total"
    /\ LET j == res[a].task[1] IN
       IF job[j] = "trimmed" THEN Return(a)
       ELSE res' = [res EXCEPT ![a].step = "remaining", ![a].all = RowCount(j) > Len(Plan[j])]
    /\ UNCHANGED <<dbVars, running, conns, stale, hk, link, goVars, wireVars, used>>

\* Load the job and count its rows against ExpectedTasks.
CountTotal(a) ==
    /\ res[a].step = "total"
    /\ LET j == res[a].task[1] IN
       IF job[j] = "trimmed" THEN Return(a)
       ELSE res' = [res EXCEPT ![a].step = "remaining", ![a].all = RowCount(j) >= Len(Plan[j])]
    /\ UNCHANGED <<dbVars, running, conns, stale, hk, link, goVars, wireVars, used>>

\* Count the unfinished rows; the total must have reached ExpectedTasks.
CountRemaining(a) ==
    /\ res[a].step = "remaining"
    /\ IF OpenCount(res[a].task[1]) = 0 /\ res[a].all
       THEN res' = [res EXCEPT ![a].step = "finish"]
       ELSE Return(a)
    /\ UNCHANGED <<dbVars, running, conns, stale, hk, link, goVars, wireVars, used>>

\* Mutant of FinishJob: the update is not conditional.
FinishJobAlways(a) ==
    /\ res[a].step = "finish"
    /\ LET j == res[a].task[1] IN
       /\ job' = [job EXCEPT ![j] = IF @ = "open" THEN "done" ELSE @]
       /\ logged' = [logged EXCEPT ![j] = @ + 1]
    /\ Return(a)
    /\ UNCHANGED <<born, row, ev, running, conns, stale, hk, link, goVars, wireVars, used>>

\* UPDATE jobs ... WHERE finished_at IS NULL; only the winner logs.
FinishJob(a) ==
    /\ res[a].step = "finish"
    /\ LET j == res[a].task[1] IN
       IF job[j] = "open"
       THEN job' = [job EXCEPT ![j] = "done"] /\ logged' = [logged EXCEPT ![j] = @ + 1]
       ELSE UNCHANGED <<job, logged>>
    /\ Return(a)
    /\ UNCHANGED <<born, row, ev, running, conns, stale, hk, link, goVars, wireVars, used>>

\* finishJobTask after resolveTask: clearRunning.
Clear(a) ==
    /\ res[a].step = "clear"
    /\ running' = Released(res[a].task)
    /\ res' = [res EXCEPT ![a] = Idle]
    /\ UNCHANGED <<dbVars, conns, stale, hk, link, goVars, wireVars, used>>

-----------------------------------------------------------------------------
(* Connections and the worker at their far end.                            *)

\* The hello of a dialled connection.  One dial loop has one connection at a
\* time; reconcile gives an edited node a second loop as soon as it cancelled
\* the first, whose connection may still have to run its teardown.
Connect(c) ==
    /\ link[c] = "new"
    /\ \A d \in Conn : NodeOf[d] = NodeOf[c] =>
          link[d] \in {"new", "gone"} \/ (Edits /\ link[d] # "up")
    /\ link' = [link EXCEPT ![c] = "up"]
    /\ conns' = [conns EXCEPT ![NodeOf[c]] = c]
    /\ UNCHANGED <<dbVars, running, stale, res, hk, goVars, wireVars, used>>

\* The socket dies, or reconcile cancels the node's context.
Drop(c) ==
    /\ link[c] = "up" /\ used.drops < MaxDrops
    /\ link' = [link EXCEPT ![c] = "broken"]
    /\ used' = [used EXCEPT !.drops = @ + 1]
    /\ UNCHANGED <<dbVars, running, conns, stale, res, hk, goVars, wireVars>>

\* The worker's read loop takes the command and starts runCommand.
AgentStart(x) ==
    /\ cmd[x] = "queued" /\ link[sentTo[x]] = "up"
    /\ cmd' = [cmd EXCEPT ![x] = "running"]
    /\ UNCHANGED <<dbVars, hubVars, goVars, sentTo, used>>

\* runCommand ends and queues StreamExit on the outbox it was started from.
AgentExit(x) ==
    /\ cmd[x] = "running"
    /\ \/ cmd' = [cmd EXCEPT ![x] = "exited"] /\ UNCHANGED used
       \/ /\ used.lost < MaxLost /\ used' = [used EXCEPT !.lost = @ + 1]
          /\ cmd' = [cmd EXCEPT ![x] = "dropped"]
    /\ UNCHANGED <<dbVars, hubVars, goVars, sentTo>>

\* connectOnce, EnvelopeEvent: the row is found through m.running.
ReadEvent(c, x) ==
    /\ link[c] = "up" /\ res[c] = Idle
    /\ sentTo[x] = c /\ cmd[x] \in {"running", "exited"} /\ ev[x] = "none"
    /\ ev' = [ev EXCEPT ![x] = IF Holds(x) /\ running[TargetOf(x)].pk THEN "attached" ELSE "orphan"]
    /\ UNCHANGED <<job, born, row, logged, hubVars, goVars, wireVars, used>>

\* connectOnce, EnvelopeLog with StreamExit: finishJobTask.
ReadExit(c, x) ==
    /\ link[c] = "up" /\ res[c] = Idle
    /\ sentTo[x] = c /\ cmd[x] = "exited"
    /\ cmd' = [cmd EXCEPT ![x] = "reported"]
    /\ res' = [res EXCEPT ![c] = Resolve(x, TRUE)]
    /\ UNCHANGED <<dbVars, running, conns, stale, hk, link, goVars, sentTo, used>>

\* connectOnce's deferred teardown: forget the connection if it is still ours.
Unregister(c) ==
    /\ link[c] = "broken" /\ res[c] = Idle
    /\ link' = [link EXCEPT ![c] = "removed"]
    /\ conns' = [conns EXCEPT ![NodeOf[c]] = IF @ = c THEN None ELSE @]
    /\ UNCHANGED <<dbVars, running, stale, res, hk, goVars, wireVars, used>>

\* Mutant of FailRunning: the targets are released, the tasks forgotten.
FailRunningForgets(c) ==
    /\ link[c] = "removed"
    /\ running' = [t \in Target |-> IF running[t].task # None /\ running[t].node = NodeOf[c]
                                    THEN Free ELSE running[t]]
    /\ link' = [link EXCEPT ![c] = "failing"]
    /\ UNCHANGED <<dbVars, stale, conns, res, hk, goVars, wireVars, used>>

\* failRunningOnNode, first half: release every target the node ran.
FailRunning(c) ==
    /\ link[c] = "removed"
    /\ LET dead == {t \in Target : running[t].task # None /\ running[t].node = NodeOf[c]} IN
       /\ stale' = [stale EXCEPT ![c] = {running[t].task : t \in dead}]
       /\ running' = [t \in Target |-> IF t \in dead THEN Free ELSE running[t]]
    /\ link' = [link EXCEPT ![c] = "failing"]
    /\ UNCHANGED <<dbVars, conns, res, hk, goVars, wireVars, used>>

\* failRunningOnNode, second half: resolve the collected tasks one by one.
FailNext(c) ==
    /\ link[c] = "failing" /\ res[c] = Idle
    /\ \/ \E x \in stale[c] :
             /\ res' = [res EXCEPT ![c] = Resolve(x, FALSE)]
             /\ stale' = [stale EXCEPT ![c] = @ \ {x}]
             /\ UNCHANGED link
       \/ stale[c] = {} /\ link' = [link EXCEPT ![c] = "gone"] /\ UNCHANGED <<res, stale>>
    /\ UNCHANGED <<dbVars, running, conns, hk, goVars, wireVars, used>>

-----------------------------------------------------------------------------
(* Housekeeping, and a restart of the primary.                             *)

\* Mutant of Trimmed: unfinished jobs are trimmed too.
TrimmedAny(own) ==
    LET all == {j \in Job \ {own} : job[j] \in {"open", "done"}}
    IN  {j \in all : Cardinality({i \in all : born[i] > born[j]}) >= Keep}

\* housekeeping.Trim: the finished jobs outside the Keep newest ones.
Trimmed(own) ==
    LET fin == {j \in Job \ {own} : job[j] = "done"}
    IN  {j \in fin : Cardinality({i \in fin : born[i] > born[j]}) >= Keep}

\* runHousekeeping: trim in one transaction, record an event on its own row,
\* then finishJobTask.
RunHousekeeping ==
    /\ hk # None /\ res[HK] = Idle /\ hk' = None
    /\ res' = [res EXCEPT ![HK] = Resolve(hk, TRUE)]
    /\ \/ LET del == Trimmed(hk[1]) IN
          /\ job' = [j \in Job |-> IF j \in del THEN "trimmed" ELSE job[j]]
          /\ row' = [x \in Task |-> IF x[1] \in del THEN "none" ELSE row[x]]
          /\ ev' = [x \in Task |-> CASE x = hk -> "attached"
                                     [] x[1] \in del \/ ev[x] = "orphan" -> "none"
                                     [] OTHER -> ev[x]]
          /\ UNCHANGED used
       \/ Fault /\ ev' \in {ev, [ev EXCEPT ![hk] = "attached"]} /\ UNCHANGED <<job, row>>
    /\ UNCHANGED <<born, logged, running, conns, stale, link, goVars, wireVars>>

\* The primary process ends and starts again: only the rows survive, and
\* nothing looks at unfinished ones.
Restart ==
    /\ used.restarts < MaxRestarts /\ used' = [used EXCEPT !.restarts = @ + 1]
    /\ running' = [t \in Target |-> Free] /\ conns' = [n \in Node |-> None]
    /\ stale' = [c \in Conn |-> {}] /\ res' = [a \in Actor |-> Idle] /\ hk' = None
    /\ link' = [c \in Conn |-> IF link[c] = "new" THEN "new" ELSE "gone"]
    /\ pc' = [j \in Job |-> IF pc[j] = "start" THEN "start" ELSE "done"]
    /\ UNCHANGED <<dbVars, idx, via, wireVars>>

-----------------------------------------------------------------------------
Starter(j) ==
    \/ StartSingle(j) \/ CreateJob(j) \/ FinishEmpty(j) \/ ReserveNext(j)
    \/ CreateConflict(j) \/ CreateTask(j) \/ Pick(j) \/ Send(j) \/ SetNode(j) \/ WaitTask(j)

Resolver(a) ==
    UpdateRow(a) \/ CountTotal(a) \/ CountRemaining(a) \/ FinishJob(a) \/ Clear(a)

Reader(c) ==
    \/ \E x \in Task : ReadEvent(c, x) \/ ReadExit(c, x)
    \/ Unregister(c) \/ FailRunning(c) \/ FailNext(c)

Agent(x) == AgentStart(x) \/ AgentExit(x)

Next ==
    \/ \E j \in Job : Starter(j)
    \/ \E a \in Actor : Resolver(a) \/ ResolveFault(a)
    \/ \E c \in Conn : Connect(c) \/ Drop(c) \/ Reader(c)
    \/ \E x \in Task : Agent(x)
    \/ RunHousekeeping
    \/ Restart

Spec == Init /\ [][Next]_vars

\* The Go scheduler runs every goroutine, and a command that was started ends.
\* Nothing forces a connection to come up, to break, or the process to stop.
Fairness ==
    /\ \A j \in Job : WF_vars(Starter(j))
    /\ \A a \in Actor : WF_vars(Resolver(a))
    /\ \A c \in Conn : WF_vars(Reader(c))
    /\ \A x \in Task : WF_vars(Agent(x))
    /\ WF_vars(RunHousekeeping)

FairSpec == Spec /\ Fairness

-----------------------------------------------------------------------------
(* Properties.                                                             *)

Steps == {"start", "createJob", "finishEmpty", "reserve", "conflict", "createTask",
          "pick", "send", "setNode", "wait", "done", "failed", "rejected"}

Reservation == [task : Task \cup {None}, pk : BOOLEAN, node : Node \cup {None}]
Resolving == [step : {"idle", "update", "total", "remaining", "finish", "clear"},
              task : Task \cup {None}, all : BOOLEAN, clear : BOOLEAN]
Spent == [faults : Nat, drops : Nat, lost : Nat, restarts : Nat]

\* Every variable keeps its type: the shape of m.running, m.conns, the rows
\* and of each goroutine's locals.
TypeOK ==
    /\ job \in [Job -> {"none", "open", "done", "trimmed"}]
    /\ born \in [Job -> Nat] /\ logged \in [Job -> Nat]
    /\ row \in [Task -> {"none", "open", "done"}]
    /\ ev \in [Task -> {"none", "attached", "orphan"}]
    /\ running \in [Target -> Reservation]
    /\ pc \in [Job -> Steps] /\ idx \in [Job -> Nat \ {0}]
    /\ via \in [Job -> Conn \cup {None}]
    /\ cmd \in [Task -> {"unsent", "queued", "running", "exited", "reported", "dropped"}]
    /\ sentTo \in [Task -> Conn \cup {None}]
    /\ link \in [Conn -> {"new", "up", "broken", "removed", "failing", "gone"}]
    /\ conns \in [Node -> Conn \cup {None}]
    /\ stale \in [Conn -> SUBSET Task]
    /\ res \in [Actor -> Resolving]
    /\ hk \in Task \cup {None}
    /\ used \in Spent

\* resolveTask marks a job finished only when every task it expects has a row
\* and every row is finished, whichever goroutines resolve its tasks at once.
FinishedJobIsComplete ==
    \A j \in Job : job[j] = "done" => \A x \in TasksOf(j) : row[x] = "done"

\* The "job finished" line is logged at most once, although two goroutines
\* can both count zero remaining tasks.
FinishLoggedOnce == \A j \in Job : logged[j] <= 1

\* A command that a live connection still owes an exit for.
InFlight(x) == /\ cmd[x] \in {"queued", "running", "exited"}
               /\ sentTo[x] # None /\ link[sentTo[x]] = "up"

\* m.running "is what stops StartJob from dispatching a second DNS task while
\* the first is still in flight": no two tasks of one target are in flight on
\* live connections.
OneInFlight ==
    \A x, y \in Task : InFlight(x) /\ InFlight(y) /\ TargetOf(x) = TargetOf(y) => x = y

\* An event that a live task reports is stored on that task's row: the
\* reservation and JobTaskPK are in place before the command leaves.
EventsAttached == \A x \in Task : ev[x] # "orphan"

\* Every unfinished row has someone who will finish it: its reservation, a
\* tear-down that collected it, or a resolveTask about to update it.
NoOrphanRow ==
    \A x \in Task : row[x] = "open" =>
        \/ Holds(x)
        \/ \E c \in Conn : x \in stale[c]
        \/ \E a \in Actor : res[a].task = x /\ res[a].step = "update"

\* dispatchRemainingSequentially: "targets are dispatched one at a time, each
\* waited on to finish before the next starts".
OneOpenRowPerJob ==
    \A x, y \in Task : row[x] = "open" /\ row[y] = "open" /\ x[1] = y[1] => x = y

\* The rows implement the job history's lifecycle.
Lifecycle == INSTANCE JobLifecycle WITH Size <- [j \in Job |-> Len(Plan[j])]
ImplementsLifecycle == Lifecycle!Spec

\* No connection breaks.
Undisturbed == [](used.drops = 0)

\* A job that was started is finished, when no row, exit or connection is lost.
JobsFinish == Undisturbed => \A j \in Job : (job[j] = "open") ~> (job[j] # "open")

\* A target is not locked for ever: whoever reserved it releases it.
TargetsReleased == \A x \in Task : Holds(x) ~> ~Holds(x)

\* The same while every connection stays up.
TargetsReleasedUndisturbed == Undisturbed => TargetsReleased

\* failRunningOnNode: when a connection breaks, a task whose node was recorded
\* is released, and its row finished.
DropReleases ==
    \A x \in Task :
        (Holds(x) /\ running[TargetOf(x)].node # None /\ link[sentTo[x]] = "broken")
            ~> (~Holds(x) /\ row[x] # "open")

\* What dispatch, resolution, teardown and trimming keep true of the rows and of
\* the reservations, in whatever order they happen.
JobsSafe ==
    /\ OneInFlight /\ EventsAttached /\ NoOrphanRow
    /\ OneOpenRowPerJob /\ FinishedJobIsComplete /\ FinishLoggedOnce

\* Jobs end and targets are released, by the exit line or by the teardown.
JobsEnd == JobsFinish /\ TargetsReleasedUndisturbed /\ DropReleases

=============================================================================
