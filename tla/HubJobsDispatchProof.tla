------------------------ MODULE HubJobsDispatchProof ------------------------
(***************************************************************************)
(* How far StartJob has got with a task, and what follows from it: until   *)
(* the command is sent the task's reservation is its own, nobody resolves  *)
(* the task, and no command of it is on its way (DispatchInv).  This holds *)
(* through every fault, lost connection, edit and restart.                 *)
(***************************************************************************)
EXTENDS HubJobsTypeProof

\* StartJob has sent the command of x, or has given up sending it.
Past == {"setNode", "wait", "done"}
Passed(x) == x[2] < idx[x[1]] \/ (x[2] = idx[x[1]] /\ pc[x[1]] \in Past)

\* Only a task that StartJob has passed has a command, a resolver, a place on
\* a teardown's list, or a node.
CmdOK   == \A x \in Task : cmd[x] # "unsent" \/ sentTo[x] # None => Passed(x)
ResPast == \A a \in Actor : res[a] # Idle => Passed(res[a].task)
StaleOK == \A c \in Conn : \A x \in stale[c] : Passed(x)
HkOK    == hk # None => Passed(hk)
NodeOK  == \A t \in Target : running[t].task # None /\ running[t].node # None => Passed(running[t].task)

\* A task that is being dispatched holds its target, with JobTaskPK set once
\* its row exists, and its goroutine resolves nothing else meanwhile.
HoldOK == \A j \in Job : pc[j] \in {"createJob", "createTask", "pick", "send"} => Holds(Cur(j))
PkOK   == \A j \in Job : pc[j] \in {"pick", "send"} => running[TargetOf(Cur(j))].pk
OwnOK  == \A j \in Job : res[j] # Idle => pc[j] = "wait"

DispatchInv == CmdOK /\ ResPast /\ StaleOK /\ HkOK /\ NodeOK /\ HoldOK /\ PkOK /\ OwnOK

-----------------------------------------------------------------------------
(* Which actions write what.                                               *)

LEMMA WireWriters ==
  ASSUME [Next]_vars
  PROVE  \/ UNCHANGED <<cmd, sentTo>>
         \/ \E j \in Job : Send(j)
         \/ \E x \in Task : Agent(x)
         \/ \E c \in Conn, x \in Task : ReadExit(c, x)
  BY ZenonT(60) DEF Next, Starter, Resolver, Reader, vars, dbVars, hubVars, goVars, wireVars,
     StartSingle, CreateJob, FinishEmpty, ReserveNext, CreateConflict, CreateTask, Pick, SetNode,
     WaitTask, UpdateRow, CountTotal, CountRemaining, FinishJob, Clear, ResolveFault, Connect, Drop,
     ReadEvent, Unregister, FailRunning, FailNext, RunHousekeeping, Restart

LEMMA GoWriters ==
  ASSUME [Next]_vars
  PROVE  UNCHANGED <<pc, idx, via>> \/ (\E j \in Job : Starter(j)) \/ Restart
  BY ZenonT(60) DEF Next, Resolver, Reader, Agent, vars, dbVars, hubVars, goVars, wireVars,
     UpdateRow, CountTotal, CountRemaining, FinishJob, Clear, ResolveFault, Connect, Drop,
     ReadEvent, ReadExit, Unregister, FailRunning, FailNext, AgentStart, AgentExit, RunHousekeeping

LEMMA ResWriters ==
  ASSUME [Next]_vars
  PROVE  \/ UNCHANGED res
         \/ \E j \in Job : CreateConflict(j) \/ Pick(j) \/ Send(j)
         \/ \E a \in Actor : Resolver(a) \/ ResolveFault(a)
         \/ \E c \in Conn : FailNext(c) \/ \E x \in Task : ReadExit(c, x)
         \/ RunHousekeeping
         \/ Restart
  BY ZenonT(60) DEF Next, Starter, Reader, Agent, vars, dbVars, hubVars, goVars, wireVars,
     StartSingle, CreateJob, FinishEmpty, ReserveNext, CreateTask, SetNode, WaitTask, Connect, Drop,
     ReadEvent, Unregister, FailRunning, AgentStart, AgentExit

LEMMA RunningWriters ==
  ASSUME [Next]_vars
  PROVE  \/ UNCHANGED running
         \/ \E j \in Job : StartSingle(j) \/ CreateJob(j) \/ ReserveNext(j) \/ CreateTask(j) \/ SetNode(j)
         \/ \E a \in Actor : Clear(a)
         \/ \E c \in Conn : FailRunning(c)
         \/ Restart
  BY ZenonT(60) DEF Next, Starter, Resolver, Reader, Agent, vars, dbVars, hubVars, goVars, wireVars,
     FinishEmpty, CreateConflict, Pick, Send, WaitTask, UpdateRow, CountTotal, CountRemaining,
     FinishJob, ResolveFault, Connect, Drop, ReadEvent, ReadExit, Unregister, FailNext, AgentStart,
     AgentExit, RunHousekeeping

LEMMA LinkWriters ==
  ASSUME [Next]_vars
  PROVE  \/ UNCHANGED <<link, conns>> /\ UNCHANGED stale
         \/ \E c \in Conn : Connect(c) \/ Drop(c) \/ Unregister(c) \/ FailRunning(c) \/ FailNext(c)
         \/ Restart
  BY ZenonT(60) DEF Next, Starter, Resolver, Reader, Agent, vars, dbVars, hubVars, goVars, wireVars,
     StartSingle, CreateJob, FinishEmpty, ReserveNext, CreateConflict, CreateTask, Pick, Send,
     SetNode, WaitTask, UpdateRow, CountTotal, CountRemaining, FinishJob, Clear, ResolveFault,
     ReadEvent, ReadExit, AgentStart, AgentExit, RunHousekeeping

LEMMA HkWriters ==
  ASSUME [Next]_vars
  PROVE  UNCHANGED hk \/ (\E j \in Job : CreateTask(j)) \/ RunHousekeeping \/ Restart
  BY ZenonT(60) DEF Next, Starter, Resolver, Reader, Agent, vars, dbVars, hubVars, goVars, wireVars,
     StartSingle, CreateJob, FinishEmpty, ReserveNext, CreateConflict, Pick, Send,
     SetNode, WaitTask, UpdateRow, CountTotal, CountRemaining, FinishJob, Clear, ResolveFault,
     Connect, Drop, Unregister, FailRunning, FailNext,
     ReadEvent, ReadExit, AgentStart, AgentExit

LEMMA RowWriters ==
  ASSUME [Next]_vars
  PROVE  \/ UNCHANGED row
         \/ \E j \in Job : CreateConflict(j) \/ CreateTask(j)
         \/ \E a \in Actor : UpdateRow(a)
         \/ RunHousekeeping
  BY ZenonT(60) DEF Next, Starter, Resolver, Reader, Agent, vars, dbVars, hubVars, goVars, wireVars,
     StartSingle, CreateJob, FinishEmpty, ReserveNext, Pick, Send,
     SetNode, WaitTask, CountTotal, CountRemaining, FinishJob, Clear, ResolveFault,
     Connect, Drop, Unregister, FailRunning, FailNext,
     ReadEvent, ReadExit, AgentStart, AgentExit, Restart

-----------------------------------------------------------------------------
(* How far StartJob has got.                                               *)

\* StartJob moves its own counter only, and never back.
LEMMA GoStep ==
  ASSUME TypeInv, NEW j \in Job, Starter(j)
  PROVE  /\ \A i \in Job : i # j => pc'[i] = pc[i] /\ idx'[i] = idx[i] /\ via'[i] = via[i]
         /\ idx'[j] = idx[j] \/ idx'[j] = idx[j] + 1
         /\ pc[j] \in Past /\ idx'[j] = idx[j] => pc'[j] \in Past
<1>1. pc \in [Job -> Steps] /\ idx \in [Job -> Nat \ {0}] /\ via \in [Job -> Conn \cup {None}]
  BY ZenonT(30) DEF TypeInv, TypeOK
<1>2. CASE StartSingle(j)
  BY ZenonT(30), <1>1, <1>2 DEF StartSingle, Goto, Past
<1>3. CASE CreateJob(j)
  BY ZenonT(30), <1>1, <1>3 DEF CreateJob, Goto, Past
<1>4. CASE FinishEmpty(j)
  BY ZenonT(30), <1>1, <1>4 DEF FinishEmpty, Goto, Past
<1>5. CASE ReserveNext(j)
  BY ZenonT(30), <1>1, <1>5 DEF ReserveNext, Goto, Past
<1>6. CASE CreateConflict(j)
  BY ZenonT(30), <1>1, <1>6 DEF CreateConflict, Goto, NextTarget, Past
<1>7. CASE CreateTask(j)
  BY ZenonT(30), <1>1, <1>7 DEF CreateTask, Goto, Past
<1>8. CASE Pick(j)
  BY ZenonT(30), <1>1, <1>8 DEF Pick, FailUnsent, Goto, Past
<1>9. CASE Send(j)
  BY ZenonT(30), <1>1, <1>9 DEF Send, FailUnsent, Goto, Past
<1>10. CASE SetNode(j)
  BY ZenonT(30), <1>1, <1>10 DEF SetNode, Goto, Past
<1>11. CASE WaitTask(j)
  BY <1>1, <1>11 DEF WaitTask, Goto, NextTarget, Past
<1> QED
  BY ZenonT(30), <1>2, <1>3, <1>4, <1>5, <1>6, <1>7, <1>8, <1>9, <1>10, <1>11 DEF Starter

\* What StartJob has passed stays passed.
LEMMA PassedStays ==
  ASSUME TypeInv, [Next]_vars, NEW x \in Task, Passed(x) PROVE Passed(x)'
<1>1. x[1] \in Job /\ x[2] \in Nat /\ idx \in [Job -> Nat \ {0}]
  BY TaskFacts DEF TypeInv, TypeOK
<1>2. CASE UNCHANGED <<pc, idx, via>>
  BY ZenonT(30), <1>2 DEF Passed
<1>3. ASSUME NEW j \in Job, Starter(j) PROVE Passed(x)'
  <2>1. CASE j = x[1]
    BY <1>1, <1>3, <2>1, GoStep DEF Passed
  <2>2. CASE j # x[1]
    BY ZenonT(30), <1>1, <1>3, <2>2, GoStep DEF Passed
  <2> QED
    BY ZenonT(30), <2>1, <2>2
<1>4. CASE Restart
  BY ZenonT(30), <1>1, <1>4 DEF Restart, Passed, Past
<1> QED
  BY ZenonT(30), <1>2, <1>3, <1>4, GoWriters

-----------------------------------------------------------------------------
(* DispatchInv.                                                            *)

\* resolveTask keeps its task from the first step to the last, and goes on to
\* clearRunning only when it was called by finishJobTask.
Counting == {"total", "remaining", "finish"}
LEMMA ResolverKeepsTask ==
  ASSUME TypeInv, NEW a \in Actor, Resolver(a) \/ ResolveFault(a)
  PROVE  /\ \A b \in Actor : b # a => res'[b] = res[b]
         /\ res[a] # Idle
         /\ res'[a] = Idle \/ (res'[a].task = res[a].task /\ res'[a].clear = res[a].clear)
         /\ res'[a].step = "clear" => res[a].clear
<1>1. res \in [Actor -> Resolving]
  BY ZenonT(30) DEF TypeInv, TypeOK
<1>2. res[a].step # "idle"
  BY ZenonT(30) DEF Resolver, ResolveFault, UpdateRow, CountTotal, CountRemaining, FinishJob, Clear
<1>3. CASE Return(a)
  <2>1. CASE res[a].clear
    <3>1. /\ res' = [res EXCEPT ![a] = res'[a]]
          /\ res'[a].task = res[a].task /\ res'[a].clear = res[a].clear
      BY ZenonT(30), <1>1, <1>3, <2>1 DEF Return, Resolving
    <3> QED
      BY <1>1, <1>2, <2>1, <3>1 DEF Idle
  <2>2. CASE ~res[a].clear
    BY <1>1, <1>2, <1>3, <2>2 DEF Return, Idle
  <2> QED
    BY ZenonT(30), <2>1, <2>2
<1>4. CASE Clear(a)
  BY <1>1, <1>2, <1>4 DEF Clear, Idle
<1>5. ASSUME NEW s \in Counting, NEW b, \/ res' = [res EXCEPT ![a].step = s]
                                      \/ res' = [res EXCEPT ![a].step = s, ![a].all = b]
      PROVE  /\ \A c \in Actor : c # a => res'[c] = res[c]
             /\ res'[a].task = res[a].task /\ res'[a].clear = res[a].clear
             /\ res'[a].step # "clear"
  BY ZenonT(30), <1>1, <1>5 DEF Resolving, Counting
<1>6. \/ Return(a) \/ Clear(a)
      \/ \E s \in Counting : \E b : \/ res' = [res EXCEPT ![a].step = s]
                                    \/ res' = [res EXCEPT ![a].step = s, ![a].all = b]
  <2>1. "total" \in Counting /\ "remaining" \in Counting /\ "finish" \in Counting
    BY ZenonT(30) DEF Counting
  <2> QED
    BY ZenonT(30), <2>1 DEF Resolver, ResolveFault, UpdateRow, CountTotal, CountRemaining, FinishJob
<1>7. CASE \E s \in Counting : \E b : \/ res' = [res EXCEPT ![a].step = s]
                                     \/ res' = [res EXCEPT ![a].step = s, ![a].all = b]
  BY <1>2, <1>5, <1>7 DEF Idle
<1> QED
  BY ZenonT(30), <1>3, <1>4, <1>6, <1>7

\* A goroutine that begins resolveTask was doing nothing else.
LEMMA Begins ==
  ASSUME TypeInv, NEW a \in Actor, NEW x, NEW b, res' = [res EXCEPT ![a] = Resolve(x, b)]
  PROVE  /\ \A c \in Actor : c # a => res'[c] = res[c]
         /\ res'[a] # Idle /\ res'[a].task = x /\ res'[a].clear = b /\ res'[a].step = "update"
<1>1. res \in [Actor -> Resolving]
  BY ZenonT(30) DEF TypeInv, TypeOK
<1> QED
  BY ZenonT(30), <1>1 DEF Resolve, Idle

\* The tasks StartJob works on are tasks.
LEMMA AtTask ==
  ASSUME TypeInv, NEW j \in Job, pc[j] \in Working
  PROVE  Cur(j) \in Task /\ TargetOf(Cur(j)) \in Target /\ Cur(j)[1] = j /\ Cur(j)[2] = idx[j]
<1>1. Len(Plan[j]) # 0
  BY ZenonT(30) DEF TypeInv, WorkOK
<1> QED
  BY ZenonT(30), <1>1, CurFacts DEF TypeInv, Cur

LEMMA KeepsCmdOK ==
  ASSUME TypeInv, DispatchInv, [Next]_vars PROVE CmdOK'
<1> SUFFICES ASSUME NEW x \in Task, cmd'[x] # "unsent" \/ sentTo'[x] # None PROVE Passed(x)'
  BY ZenonT(30) DEF CmdOK
<1>1. CASE cmd[x] # "unsent" \/ sentTo[x] # None
  BY ZenonT(30), <1>1, PassedStays DEF DispatchInv, CmdOK
<1>2. CASE cmd[x] = "unsent" /\ sentTo[x] = None
  <2>1. cmd \in [Task -> {"unsent", "queued", "running", "exited", "reported", "dropped"}]
        /\ sentTo \in [Task -> Conn \cup {None}] /\ pc \in [Job -> Steps] /\ idx \in [Job -> Nat \ {0}]
    BY ZenonT(30) DEF TypeInv, TypeOK
  <2>2. ASSUME NEW j \in Job, Send(j) PROVE Passed(x)'
    <3>1. Cur(j) \in Task /\ Cur(j)[1] = j /\ Cur(j)[2] = idx[j]
      BY ZenonT(30), <2>2, AtTask DEF Send, Working
    <3>2. x = Cur(j)
      BY ZenonT(30), <1>2, <2>1, <2>2, <3>1 DEF Send, wireVars
    <3>3. pc'[j] \in Past /\ idx' = idx
      BY ZenonT(30), <2>1, <2>2 DEF Send, Goto, FailUnsent, Past
    <3> QED
      BY ZenonT(30), <2>1, <3>1, <3>2, <3>3 DEF Passed
  <2>3. ~ \E y \in Task : Agent(y)
    BY ZenonT(30), <1>2, <2>1 DEF Agent, AgentStart, AgentExit
  <2>4. ~ \E c \in Conn, y \in Task : ReadExit(c, y)
    BY ZenonT(30), <1>2, <2>1 DEF ReadExit
  <2> QED
    BY ZenonT(30), <1>2, <2>2, <2>3, <2>4, WireWriters
<1> QED
  BY ZenonT(30), <1>1, <1>2

LEMMA KeepsStaleOK ==
  ASSUME TypeInv, DispatchInv, [Next]_vars PROVE StaleOK'
<1> SUFFICES ASSUME NEW c \in Conn, NEW x \in stale'[c] PROVE Passed(x)'
  BY ZenonT(30) DEF StaleOK
<1>1. stale \in [Conn -> SUBSET Task] /\ running \in [Target -> Reservation]
  BY ZenonT(30) DEF TypeInv, TypeOK
<1>2. CASE x \in stale[c]
  BY ZenonT(30), <1>1, <1>2, PassedStays DEF DispatchInv, StaleOK
<1>3. CASE x \notin stale[c]
  <2>1. ASSUME NEW d \in Conn, FailRunning(d) PROVE Passed(x)'
    <3>1. PICK t \in Target : running[t].task # None /\ running[t].node = NodeOf[d] /\ x = running[t].task
      BY ZenonT(30), <1>1, <1>3, <2>1 DEF FailRunning
    <3>2. NodeOf[d] # None
      BY ZenonT(30), HubJobsAssumption
    <3>3. x \in Task
      BY ZenonT(30), <1>1, <3>1 DEF Reservation
    <3> QED
      BY ZenonT(30), <3>1, <3>2, <3>3, PassedStays DEF DispatchInv, NodeOK
  <2>2. ~ \E d \in Conn : FailNext(d)
    BY ZenonT(30), <1>1, <1>3 DEF FailNext
  <2>3. ~Restart
    BY ZenonT(30), <1>3 DEF Restart
  <2>4. ~ \E d \in Conn : Connect(d) \/ Drop(d) \/ Unregister(d)
    BY ZenonT(30), <1>3 DEF Connect, Drop, Unregister
  <2> QED
    BY ZenonT(30), <1>3, <2>1, <2>2, <2>3, <2>4, LinkWriters
<1> QED
  BY ZenonT(30), <1>2, <1>3

LEMMA KeepsHkOK ==
  ASSUME TypeInv, DispatchInv, [Next]_vars PROVE HkOK'
<1> SUFFICES ASSUME hk' # None PROVE Passed(hk)'
  BY ZenonT(30) DEF HkOK
<1>1. CASE UNCHANGED hk
  <2>1. hk \in Task /\ Passed(hk)
    BY ZenonT(30), <1>1 DEF DispatchInv, HkOK, TypeInv, TypeOK
  <2> QED
    BY ZenonT(30), <1>1, <2>1, PassedStays DEF Passed
<1>2. ASSUME NEW j \in Job, CreateTask(j), hk' # hk PROVE Passed(hk)'
  <2>1. Cur(j)[1] = j /\ Cur(j)[2] = idx[j] /\ pc \in [Job -> Steps] /\ idx \in [Job -> Nat \ {0}]
    BY ZenonT(30), <1>2, AtTask DEF CreateTask, Working, TypeInv, TypeOK
  <2>2. hk' = Cur(j) /\ pc' = [pc EXCEPT ![j] = "wait"] /\ idx' = idx
    BY ZenonT(30), <1>2 DEF CreateTask, Goto
  <2> QED
    BY ZenonT(30), <2>1, <2>2 DEF Passed, Past
<1>3. ~RunHousekeeping /\ ~Restart
  BY ZenonT(30) DEF RunHousekeeping, Restart
<1> QED
  BY ZenonT(30), <1>1, <1>2, <1>3, HkWriters

\* FailUnsent is reached from "pick" and "send" only.
LEMMA StarterResolves ==
  ASSUME TypeInv, NEW j \in Job, CreateConflict(j) \/ Pick(j) \/ Send(j), res' # res
  PROVE  /\ \E b : res' = [res EXCEPT ![j] = Resolve(Cur(j), b)]
         /\ pc' = [pc EXCEPT ![j] = "wait"] /\ UNCHANGED idx
         /\ pc[j] \in {"conflict", "pick", "send"}
  BY ZenonT(30) DEF CreateConflict, Pick, Send, FailUnsent, Goto

LEMMA KeepsResPast ==
  ASSUME TypeInv, DispatchInv, [Next]_vars PROVE ResPast'
<1> SUFFICES ASSUME NEW a \in Actor, res'[a] # Idle PROVE Passed(res[a].task)'
  BY ZenonT(30) DEF ResPast
<1>1. res \in [Actor -> Resolving] /\ pc \in [Job -> Steps] /\ idx \in [Job -> Nat \ {0}]
  BY ZenonT(30) DEF TypeInv, TypeOK
<1>2. CASE res[a] # Idle /\ res'[a].task = res[a].task
  <2>1. res[a].task \in Task /\ Passed(res[a].task)
    BY ZenonT(30), <1>2 DEF TypeInv, ResOK, DispatchInv, ResPast
  <2> DEFINE x == res[a].task
  <2>2. Passed(x) => (idx'[x[1]] > x[2] \/ (x[2] = idx'[x[1]] /\ pc'[x[1]] \in Past))
    BY ZenonT(30), <2>1, PassedStays, TaskFacts DEF Passed, TypeInv, TypeOK
  <2> QED
    BY ZenonT(30), <1>2, <2>1, <2>2 DEF Passed
<1>3. ASSUME NEW j \in Job, CreateConflict(j) \/ Pick(j) \/ Send(j), res' # res, a = j
      PROVE  Passed(res[a].task)'
  <2>1. Cur(j)[1] = j /\ Cur(j)[2] = idx[j]
    BY ZenonT(30) DEF Cur
  <2>2. PICK b : res' = [res EXCEPT ![j] = Resolve(Cur(j), b)]
    BY ZenonT(30), <1>3, StarterResolves
  <2>3. res'[a].task = Cur(j)
    BY ZenonT(30), <1>3, <2>2, Begins
  <2>4. pc'[j] \in Past /\ idx' = idx
    BY ZenonT(30), <1>1, <1>3, StarterResolves DEF Past
  <2> QED
    BY ZenonT(30), <1>1, <2>1, <2>3, <2>4 DEF Passed
<1>4. ASSUME NEW j \in Job, CreateConflict(j) \/ Pick(j) \/ Send(j), res' # res, a # j
      PROVE  res'[a] = res[a]
  BY <1>1, <1>4, StarterResolves, Begins DEF Actor
<1>5. ASSUME NEW b \in Actor, Resolver(b) \/ ResolveFault(b)
      PROVE  res[a] # Idle /\ res'[a].task = res[a].task
  BY ZenonT(30), <1>5, ResolverKeepsTask
<1>6. ASSUME NEW x \in Task, Passed(x), res'[a].task = x PROVE Passed(res[a].task)'
  BY ZenonT(30), <1>6, PassedStays DEF Passed
<1>7. ASSUME NEW c \in Conn, FailNext(c), res' # res PROVE Passed(res[a].task)'
  <2>1. c \in Actor
    BY ZenonT(30) DEF Actor
  <2>2. PICK x \in stale[c] : res' = [res EXCEPT ![c] = Resolve(x, FALSE)]
    BY ZenonT(30), <1>7 DEF FailNext
  <2>3. x \in Task /\ Passed(x)
    BY ZenonT(30) DEF TypeInv, TypeOK, DispatchInv, StaleOK
  <2> QED
    BY <2>1, <2>2, <2>3, <1>2, <1>6, Begins, ZenonT(30)
<1>8. ASSUME NEW c \in Conn, NEW x \in Task, ReadExit(c, x) PROVE Passed(res[a].task)'
  <2>1. c \in Actor /\ Passed(x)
    BY ZenonT(30), <1>8 DEF Actor, ReadExit, DispatchInv, CmdOK
  <2>2. res' = [res EXCEPT ![c] = Resolve(x, TRUE)]
    BY ZenonT(30), <1>8 DEF ReadExit
  <2>3. a # c => res'[a] = res[a]
    BY ZenonT(30), <2>1, <2>2, Begins
  <2>4. a = c => res'[a].task = x
    BY ZenonT(30), <1>1, <2>1, <2>2 DEF Resolve
  <2> QED
    BY ZenonT(30), <1>2, <1>6, <2>1, <2>3, <2>4
<1>9. CASE RunHousekeeping
  <2>1. HK \in Actor /\ hk \in Task /\ Passed(hk)
    BY ZenonT(30), <1>9 DEF Actor, RunHousekeeping, TypeInv, TypeOK, DispatchInv, HkOK
  <2> QED
    BY <1>2, <1>6, <1>9, <2>1, Begins, ZenonT(30) DEF RunHousekeeping
<1>10. ~Restart
  BY ZenonT(30) DEF Restart
<1> QED
  BY ZenonT(30), <1>2, <1>3, <1>4, <1>5, <1>7, <1>8, <1>9, <1>10, ResWriters

\* What can happen to the reservation of a target in one step.
Frees(t) == running'[t] = Free
Keeps(t) == running'[t] = running[t]
Takes(t, j) == /\ running[t].task = None /\ running'[t] = [Free EXCEPT !.task = Cur(j)]
               /\ pc'[j] \in {"createJob", "createTask"} /\ t = TargetOf(Cur(j))
Marks(t, j) == /\ CreateTask(j) /\ Holds(Cur(j)) /\ t = TargetOf(Cur(j))
               /\ running'[t] = [running[t] EXCEPT !.pk = TRUE]
Sets(t, j)  == /\ SetNode(j) /\ Holds(Cur(j)) /\ t = TargetOf(Cur(j))
               /\ running'[t] = [running[t] EXCEPT !.node = NodeOf[via[j]]]
FreedBy(t) ==
    \/ \E j \in Job : /\ CreateJob(j) \/ CreateTask(j)
                      /\ running[t].task = Cur(j) /\ pc'[j] \in {"failed", "wait"}
    \/ \E a \in Actor : Clear(a) /\ running[t].task = res[a].task
    \/ \E c \in Conn : FailRunning(c) /\ running[t].task # None /\ running[t].node = NodeOf[c]
    \/ Restart

LEMMA ReservationStep ==
  ASSUME TypeInv, [Next]_vars, NEW t \in Target
  PROVE  \/ Keeps(t)
         \/ Frees(t) /\ FreedBy(t)
         \/ \E j \in Job : Takes(t, j) \/ Marks(t, j) \/ Sets(t, j)
<1>1. running \in [Target -> Reservation] /\ pc \in [Job -> Steps]
  BY ZenonT(30) DEF TypeInv, TypeOK
<1>2. ASSUME NEW j \in Job, StartSingle(j) PROVE Keeps(t) \/ Takes(t, j)
  BY ZenonT(30), <1>1, <1>2 DEF StartSingle, Reserve, Goto, Keeps, Takes
<1>3. ASSUME NEW j \in Job, ReserveNext(j) PROVE Keeps(t) \/ Takes(t, j)
  BY ZenonT(30), <1>1, <1>3 DEF ReserveNext, Reserve, Goto, Keeps, Takes
<1>4. ASSUME NEW j \in Job, CreateJob(j) PROVE Keeps(t) \/ (Frees(t) /\ FreedBy(t))
  <2>1. CASE UNCHANGED running
    BY ZenonT(30), <2>1 DEF Keeps
  <2>2. CASE running' = Released(Cur(j)) /\ Goto(j, "failed")
    BY ZenonT(30), <1>1, <1>4, <2>2 DEF Released, Holds, Goto, Keeps, Frees, FreedBy
  <2> QED
    BY ZenonT(30), <1>4, <2>1, <2>2 DEF CreateJob
<1>5. ASSUME NEW j \in Job, CreateTask(j) PROVE Keeps(t) \/ (Frees(t) /\ FreedBy(t)) \/ Marks(t, j)
  <2>1. CASE running' = IF Holds(Cur(j)) THEN [running EXCEPT ![TargetOf(Cur(j))].pk = TRUE] ELSE running
    <3>1. CASE Holds(Cur(j)) /\ t = TargetOf(Cur(j))
      BY ZenonT(30), <1>1, <1>5, <2>1, <3>1 DEF Marks
    <3>2. CASE ~(Holds(Cur(j)) /\ t = TargetOf(Cur(j)))
      BY ZenonT(30), <1>1, <2>1, <3>2 DEF Keeps
    <3> QED
      BY ZenonT(30), <3>1, <3>2
  <2>2. CASE running' = Released(Cur(j)) /\ Goto(j, IF Single(j) THEN "failed" ELSE "wait")
    BY ZenonT(30), <1>1, <1>5, <2>2 DEF Released, Holds, Goto, Keeps, Frees, FreedBy
  <2> QED
    BY ZenonT(30), <1>5, <2>1, <2>2 DEF CreateTask
<1>6. ASSUME NEW j \in Job, SetNode(j) PROVE Keeps(t) \/ Sets(t, j)
  <2>1. CASE Holds(Cur(j)) /\ t = TargetOf(Cur(j))
    BY ZenonT(30), <1>1, <1>6, <2>1 DEF SetNode, Sets
  <2>2. CASE ~(Holds(Cur(j)) /\ t = TargetOf(Cur(j)))
    BY ZenonT(30), <1>1, <1>6, <2>2 DEF SetNode, Keeps
  <2> QED
    BY ZenonT(30), <2>1, <2>2
<1>7. ASSUME NEW a \in Actor, Clear(a) PROVE Keeps(t) \/ (Frees(t) /\ FreedBy(t))
  BY ZenonT(30), <1>1, <1>7 DEF Clear, Released, Holds, Keeps, Frees, FreedBy
<1>8. ASSUME NEW c \in Conn, FailRunning(c) PROVE Keeps(t) \/ (Frees(t) /\ FreedBy(t))
  BY ZenonT(30), <1>1, <1>8 DEF FailRunning, Keeps, Frees, FreedBy
<1>9. CASE Restart
  BY ZenonT(30), <1>9 DEF Restart, Frees, FreedBy
<1>10. CASE UNCHANGED running
  BY ZenonT(30), <1>10 DEF Keeps
<1> QED
  BY ZenonT(30), <1>2, <1>3, <1>4, <1>5, <1>6, <1>7, <1>8, <1>9, <1>10, RunningWriters

\* Clear and failRunningOnNode free only what StartJob has passed.
LEMMA FreedIsPassed ==
  ASSUME TypeInv, DispatchInv, NEW t \in Target, running[t].task # None, FreedBy(t)
  PROVE  \/ Passed(running[t].task)
         \/ Restart
         \/ \E j \in Job : /\ CreateJob(j) \/ CreateTask(j)
                           /\ running[t].task = Cur(j) /\ pc'[j] \in {"failed", "wait"}
<1>1. ASSUME NEW a \in Actor, Clear(a), running[t].task = res[a].task PROVE Passed(running[t].task)
  <2>1. res[a] # Idle
    BY <1>1 DEF Clear, Idle
  <2> QED
    BY ZenonT(30), <1>1, <2>1 DEF DispatchInv, ResPast
<1>2. ASSUME NEW c \in Conn, running[t].node = NodeOf[c] PROVE Passed(running[t].task)
  <2>1. NodeOf[c] # None
    BY ZenonT(30), HubJobsAssumption
  <2> QED
    BY ZenonT(30), <1>2, <2>1 DEF DispatchInv, NodeOK
<1> QED
  BY ZenonT(30), <1>1, <1>2 DEF FreedBy

LEMMA KeepsNodeOK ==
  ASSUME TypeInv, DispatchInv, [Next]_vars PROVE NodeOK'
<1> SUFFICES ASSUME NEW t \in Target, running'[t].task # None, running'[t].node # None
             PROVE  Passed(running[t].task)'
  BY ZenonT(30) DEF NodeOK
<1>1. running \in [Target -> Reservation] /\ pc \in [Job -> Steps] /\ idx \in [Job -> Nat \ {0}]
  BY ZenonT(30) DEF TypeInv, TypeOK
<1>2. CASE running'[t].task = running[t].task /\ running'[t].node = running[t].node
  <2>1. running[t].task \in Task /\ Passed(running[t].task)
    BY ZenonT(30), <1>1, <1>2 DEF Reservation, DispatchInv, NodeOK
  <2> DEFINE x == running[t].task
  <2>2. Passed(x) => (idx'[x[1]] > x[2] \/ (x[2] = idx'[x[1]] /\ pc'[x[1]] \in Past))
    BY ZenonT(30), <2>1, PassedStays, TaskFacts DEF Passed, TypeInv, TypeOK
  <2> QED
    BY ZenonT(30), <1>2, <2>1, <2>2 DEF Passed
<1>3. ~Frees(t)
  BY SMTT(30) DEF Frees, Free
<1>4. ASSUME NEW j \in Job PROVE ~Takes(t, j)
  BY ZenonT(30) DEF Takes, Free
<1>5. ASSUME NEW j \in Job, Marks(t, j) PROVE Passed(running[t].task)'
  BY <1>1, <1>2, <1>5 DEF Marks, Reservation
<1>6. ASSUME NEW j \in Job, Sets(t, j) PROVE Passed(running[t].task)'
  <2>1. running'[t].task = Cur(j)
    BY ZenonT(30), <1>1, <1>6 DEF Sets, Holds, Reservation
  <2>2. pc'[j] = "wait" /\ idx' = idx /\ Cur(j)[1] = j /\ Cur(j)[2] = idx[j]
    BY ZenonT(30), <1>1, <1>6 DEF Sets, SetNode, Goto, Cur
  <2> QED
    BY ZenonT(30), <1>1, <2>1, <2>2 DEF Passed, Past
<1>7. CASE Keeps(t)
  BY ZenonT(30), <1>2, <1>7 DEF Keeps
<1> QED
  BY ZenonT(30), <1>3, <1>4, <1>5, <1>6, <1>7, ReservationStep

\* The reservation of a task that is being dispatched is left alone by all
\* steps but those of its own goroutine that give it up, and a restart.
LEMMA HoldStays ==
  ASSUME TypeInv, DispatchInv, [Next]_vars, NEW j \in Job, pc[j] \in Working, Holds(Cur(j)),
         pc[j] \notin Past, ~Restart,
         (CreateJob(j) \/ CreateTask(j)) => pc'[j] \notin {"failed", "wait"}
  PROVE  LET t == TargetOf(Cur(j)) IN
         running'[t].task = Cur(j) /\ (running[t].pk => running'[t].pk)
<1> DEFINE t == TargetOf(Cur(j))
<1>1. running \in [Target -> Reservation] /\ t \in Target /\ Cur(j) \in Task
  BY ZenonT(30), AtTask DEF TypeInv, TypeOK
<1>2. Cur(j) # None /\ running[t].task = Cur(j)
  BY ZenonT(30), <1>1, HubJobsAssumption DEF Holds
<1>3. ~Passed(Cur(j))
  BY DEF Passed, Cur, TypeInv, TypeOK
<1>4. ASSUME NEW i \in Job, running[t].task = Cur(i) PROVE i = j
  BY <1>2, <1>4 DEF Cur
<1>5. ~FreedBy(t)
  BY ZenonT(30), <1>1, <1>2, <1>3, <1>4, FreedIsPassed
<1>6. ASSUME NEW i \in Job PROVE ~Takes(t, i)
  BY ZenonT(30), <1>2 DEF Takes
<1>7. ASSUME NEW i \in Job, Marks(t, i) PROVE running'[t].task = Cur(j) /\ running'[t].pk
  BY ZenonT(30), <1>1, <1>2, <1>7 DEF Marks, Reservation
<1>8. ASSUME NEW i \in Job, Sets(t, i)
      PROVE  running'[t].task = Cur(j) /\ running'[t].pk = running[t].pk
  BY ZenonT(30), <1>1, <1>2, <1>8 DEF Sets, Reservation
<1>9. CASE Keeps(t)
  BY ZenonT(30), <1>2, <1>9 DEF Keeps
<1>10. running'[t].task = Cur(j) /\ (running[t].pk => running'[t].pk)
  BY ZenonT(30), <1>1, <1>5, <1>6, <1>7, <1>8, <1>9, ReservationStep
<1> QED
  BY ZenonT(30), <1>10

\* The steps between reserving a target and sending its command.
Dispatching == {"createJob", "createTask", "pick", "send"}

\* StartJob gets there by reserving.
LEMMA Dispatches ==
  ASSUME TypeInv, [Next]_vars, NEW j \in Job, pc'[j] \in Dispatching
  PROVE  /\ idx'[j] = idx[j]
         /\ ~Restart
         /\ \/ pc[j] \in Dispatching
            \/ Reserve(j) /\ pc[j] \in {"start", "reserve"} /\ Len(Plan[j]) # 0
               /\ pc'[j] \in {"createJob", "createTask"}
         /\ pc'[j] \in {"pick", "send"} => pc[j] \in {"pick", "send"} \/ CreateTask(j)
<1>1. pc \in [Job -> Steps] /\ idx \in [Job -> Nat \ {0}]
  BY ZenonT(30) DEF TypeInv, TypeOK
<1>2. ~Restart
  BY ZenonT(30) DEF Restart, Dispatching
<1>3. CASE UNCHANGED <<pc, idx, via>>
  BY ZenonT(30), <1>2, <1>3
<1>4. ASSUME NEW i \in Job, Starter(i), i # j
      PROVE  pc'[j] = pc[j] /\ idx'[j] = idx[j]
  BY ZenonT(30), <1>4, GoStep
<1>5. CASE Starter(j)
  <2>1. CASE StartSingle(j)
    BY <1>1, <1>2, <2>1 DEF StartSingle, Goto, Dispatching, Single
  <2>2. CASE CreateJob(j)
    BY ZenonT(30), <1>1, <1>2, <2>2 DEF CreateJob, Goto, Dispatching
  <2>3. CASE ReserveNext(j)
    BY ZenonT(30), <1>1, <1>2, <2>3 DEF ReserveNext, Goto, Dispatching, TypeInv, WorkOK, Working
  <2>4. CASE CreateTask(j)
    BY ZenonT(30), <1>1, <1>2, <2>4 DEF CreateTask, Goto, Dispatching
  <2>5. CASE Pick(j)
    BY ZenonT(30), <1>1, <1>2, <2>5 DEF Pick, FailUnsent, Goto, Dispatching
  <2>6. ~Send(j) /\ ~SetNode(j) /\ ~FinishEmpty(j)
    BY ZenonT(30), <1>1 DEF Send, FailUnsent, SetNode, FinishEmpty, Goto, Dispatching
  <2>7. ~CreateConflict(j) /\ ~WaitTask(j)
    BY ZenonT(30), <1>1 DEF CreateConflict, WaitTask, NextTarget, Goto, Dispatching
  <2> QED
    BY ZenonT(30), <1>5, <2>1, <2>2, <2>3, <2>4, <2>5, <2>6, <2>7 DEF Starter
<1> QED
  BY ZenonT(30), <1>2, <1>3, <1>4, <1>5, GoWriters

LEMMA KeepsHoldOK ==
  ASSUME TypeInv, DispatchInv, [Next]_vars PROVE HoldOK' /\ PkOK'
<1>1. running \in [Target -> Reservation] /\ pc \in [Job -> Steps] /\ idx \in [Job -> Nat \ {0}]
  BY ZenonT(30) DEF TypeInv, TypeOK
<1>2. ASSUME NEW j \in Job, pc'[j] \in Dispatching PROVE Holds(Cur(j))'
  <2>1. Cur(j)' = Cur(j)
    BY ZenonT(30), <1>2, Dispatches DEF Cur
  <2>2. CASE pc[j] \in Dispatching
    <3>1. pc[j] \in Working /\ Holds(Cur(j)) /\ pc[j] \notin Past
      BY ZenonT(30), <2>2 DEF Dispatching, Working, Past, DispatchInv, HoldOK
    <3>2. running'[TargetOf(Cur(j))].task = Cur(j)
      BY ZenonT(30), <1>2, <3>1, HoldStays, Dispatches DEF Dispatching
    <3> QED
      BY ZenonT(30), <2>1, <3>2 DEF Holds, TargetOf
  <2>3. CASE Reserve(j) /\ Len(Plan[j]) # 0
    <3>1. TargetOf(Cur(j)) \in Target
      BY ZenonT(30), <2>3, CurFacts DEF TypeInv
    <3> QED
      BY ZenonT(30), <1>1, <2>1, <2>3, <3>1 DEF Reserve, Holds, Free, TargetOf
  <2> QED
    BY ZenonT(30), <1>2, <2>2, <2>3, Dispatches
<1>3. ASSUME NEW j \in Job, pc'[j] \in {"pick", "send"} PROVE running'[TargetOf(Cur(j))'].pk
  <2>1. pc'[j] \in Dispatching
    BY ZenonT(30), <1>3 DEF Dispatching
  <2>2. Cur(j)' = Cur(j) /\ TargetOf(Cur(j))' = TargetOf(Cur(j))
    BY ZenonT(30), <2>1, Dispatches DEF Cur, TargetOf
  <2>3. CASE pc[j] \in {"pick", "send"}
    <3>1. pc[j] \in Working /\ Holds(Cur(j)) /\ pc[j] \notin Past /\ running[TargetOf(Cur(j))].pk
      BY ZenonT(30), <2>3 DEF Working, Past, DispatchInv, HoldOK, PkOK
    <3>2. running'[TargetOf(Cur(j))].pk
      BY ZenonT(30), <1>3, <2>1, <3>1, HoldStays, Dispatches
    <3> QED
      BY ZenonT(30), <2>2, <3>2
  <2>4. CASE CreateTask(j)
    <3>1. TargetOf(Cur(j)) \in Target /\ Holds(Cur(j))
      BY ZenonT(30), <2>4, AtTask DEF CreateTask, Working, DispatchInv, HoldOK
    <3>2. running' = [running EXCEPT ![TargetOf(Cur(j))].pk = TRUE]
      BY ZenonT(30), <1>1, <1>3, <2>4, <3>1 DEF CreateTask, Goto
    <3> QED
      BY ZenonT(30), <1>1, <2>2, <3>1, <3>2 DEF Reservation
  <2> QED
    BY ZenonT(30), <1>3, <2>1, <2>3, <2>4, Dispatches
<1> QED
  BY ZenonT(30), <1>2, <1>3 DEF HoldOK, PkOK, Dispatching

\* What can happen to the resolveTask of a goroutine in one step.
Goes(a)     == /\ res[a] # Idle /\ res'[a].task = res[a].task /\ res'[a].clear = res[a].clear
               /\ res'[a] = res[a] \/ Resolver(a) \/ ResolveFault(a)
               /\ res'[a].step = "clear" => res[a].step = "clear" \/ res[a].clear
Gives(j)    == /\ CreateConflict(j) \/ Pick(j) \/ Send(j)
               /\ res'[j].task = Cur(j) /\ res'[j].step = "update"
               /\ pc'[j] = "wait" /\ idx'[j] = idx[j]
               /\ CreateConflict(j) => ~res'[j].clear
Tears(c)    == FailNext(c) /\ res'[c].task \in stale[c] /\ ~res'[c].clear /\ res'[c].step = "update"
Reads(c)    == \E x \in Task : ReadExit(c, x) /\ res'[c].task = x /\ res'[c].step = "update"
KeepsHouse  == RunHousekeeping /\ res'[HK].task = hk /\ res'[HK].step = "update"

LEMMA ResolveStep ==
  ASSUME TypeInv, [Next]_vars, NEW a \in Actor
  PROVE  \/ res'[a] = Idle
         \/ Goes(a)
         \/ a \in Job /\ Gives(a)
         \/ a \in Conn /\ (Tears(a) \/ Reads(a))
         \/ a = HK /\ KeepsHouse
<1>1. res \in [Actor -> Resolving] /\ pc \in [Job -> Steps]
  BY ZenonT(30) DEF TypeInv, TypeOK
<1>2. CASE res'[a] = res[a]
  BY ZenonT(30), <1>2 DEF Goes
<1>3. ASSUME NEW j \in Job, CreateConflict(j) \/ Pick(j) \/ Send(j), res' # res
      PROVE  res'[a] = res[a] \/ (a \in Job /\ Gives(a))
  <2>1. PICK b : res' = [res EXCEPT ![j] = Resolve(Cur(j), b)]
    BY ZenonT(30), <1>3, StarterResolves
  <2>2. j \in Actor
    BY ZenonT(30) DEF Actor
  <2>3. CreateConflict(j) => ~res'[j].clear
    BY <1>1, <1>3, <2>2, SMTT(30) DEF CreateConflict, Resolve
  <2>4. res'[j].task = Cur(j) /\ res'[j].step = "update"
    BY ZenonT(30), <1>1, <2>1, <2>2 DEF Resolve
  <2>5. pc'[j] = "wait" /\ idx'[j] = idx[j]
    BY ZenonT(30), <1>1, <1>3, StarterResolves
  <2>6. a # j => res'[a] = res[a]
    BY ZenonT(30), <1>1, <2>1
  <2> QED
    BY ZenonT(30), <1>3, <2>3, <2>4, <2>5, <2>6 DEF Gives
<1>4. ASSUME NEW b \in Actor, Resolver(b) \/ ResolveFault(b)
      PROVE  res'[a] = res[a] \/ res'[a] = Idle \/ Goes(a)
  BY ZenonT(30), <1>4, ResolverKeepsTask DEF Goes
<1>5. ASSUME NEW c \in Conn, FailNext(c), res' # res PROVE res'[a] = res[a] \/ (a \in Conn /\ Tears(a))
  BY <1>1, <1>5, SMTT(30) DEF FailNext, Tears, Resolve, Actor
<1>6. ASSUME NEW c \in Conn, NEW x \in Task, ReadExit(c, x)
      PROVE  res'[a] = res[a] \/ (a \in Conn /\ Reads(a))
  <2>1. a # c => res'[a] = res[a]
    BY ZenonT(30), <1>1, <1>6 DEF ReadExit
  <2>2. a = c => res'[c].task = x /\ res'[c].step = "update"
    BY ZenonT(30), <1>1, <1>6 DEF ReadExit, Resolve
  <2> QED
    BY ZenonT(30), <1>6, <2>1, <2>2 DEF Reads
<1>7. CASE RunHousekeeping
  <2>1. res' = [res EXCEPT ![HK] = Resolve(hk, TRUE)]
    BY ZenonT(30), <1>7 DEF RunHousekeeping
  <2>2. a # HK => res'[a] = res[a]
    BY ZenonT(30), <1>1, <2>1
  <2>3. a = HK => res'[HK].task = hk /\ res'[HK].step = "update"
    BY ZenonT(30), <1>1, <2>1 DEF Resolve
  <2> QED
    BY ZenonT(30), <1>2, <1>7, <2>2, <2>3 DEF KeepsHouse
<1>8. CASE Restart
  BY ZenonT(30), <1>8 DEF Restart
<1> QED
  BY ZenonT(30), <1>2, <1>3, <1>4, <1>5, <1>6, <1>7, <1>8, ResWriters

LEMMA KeepsOwnOK ==
  ASSUME TypeInv, DispatchInv, [Next]_vars PROVE OwnOK'
<1> SUFFICES ASSUME NEW j \in Job, res'[j] # Idle PROVE pc'[j] = "wait"
  BY ZenonT(30) DEF OwnOK
<1>1. j \in Actor /\ j \notin Conn /\ j # HK
  BY ZenonT(30), HubJobsAssumption DEF Actor
<1>2. CASE Gives(j)
  BY ZenonT(30), <1>2 DEF Gives
<1>3. CASE res[j] # Idle
  <2>1. pc[j] = "wait"
    BY ZenonT(30), <1>3 DEF DispatchInv, OwnOK
  <2>2. ~Starter(j)
    BY ZenonT(30), <1>3, <2>1 DEF Starter, StartSingle, CreateJob, FinishEmpty, ReserveNext,
       CreateConflict,
       CreateTask, Pick, Send, SetNode, WaitTask
  <2>3. ~Restart
    BY ZenonT(30), <1>1 DEF Restart
  <2> QED
    BY ZenonT(30), <2>1, <2>2, <2>3, GoWriters, GoStep
<1> QED
  BY ZenonT(30), <1>1, <1>2, <1>3, ResolveStep DEF Goes

LEMMA DispatchInit == Init => DispatchInv
<1> SUFFICES ASSUME Init PROVE DispatchInv
  BY ZenonT(30)
<1>1. CmdOK /\ StaleOK /\ HkOK
  BY ZenonT(30) DEF Init, CmdOK, StaleOK, HkOK
<1>2. ResPast /\ OwnOK
  BY ZenonT(30) DEF Init, ResPast, OwnOK, Actor
<1>3. NodeOK /\ HoldOK /\ PkOK
  BY ZenonT(30) DEF Init, NodeOK, HoldOK, PkOK, Free
<1> QED
  BY ZenonT(30), <1>1, <1>2, <1>3 DEF DispatchInv

\* StartJob's hold on its target, and everybody's abstention from what it has
\* not sent, survive every interleaving, fault and restart.
THEOREM DispatchInvariant == Spec => []DispatchInv
<1>1. TypeInv /\ DispatchInv /\ [Next]_vars => DispatchInv'
  BY ZenonT(30), KeepsCmdOK, KeepsResPast, KeepsStaleOK, KeepsHkOK, KeepsNodeOK, KeepsHoldOK,
     KeepsOwnOK
     DEF DispatchInv
<1> QED
  BY <1>1, DispatchInit, TypeInvariant, PTL DEF Spec

=============================================================================
