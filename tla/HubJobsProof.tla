---------------------------- MODULE HubJobsProof ----------------------------
(***************************************************************************)
(* resolveTask finishes a job exactly when it is complete, and the rows    *)
(* implement JobLifecycle, for every plan, every interleaving and any      *)
(* number of failing statements, lost connections and restarts.            *)
(*                                                                         *)
(* FinishedJobIsComplete is not inductive: it rests on what a resolver has *)
(* already counted (CountOK), which rests on rows being added only to open *)
(* jobs and in order (StartOK) and deleted only with their job (RowOK).    *)
(***************************************************************************)
EXTENDS HubJobsTypeProof

TaskSteps == {"reserve", "conflict", "createTask", "pick", "send", "setNode", "wait"}

\* Task rows exist only while their job's row does.
RowOK == \A x \in Task : row[x] # "none" => job[x[1]] \in {"open", "done"}

\* Where StartJob is tells what it has written: the job stays open while a
\* target is left, and the rows of the targets ahead do not exist yet.
StartAt(j) ==
    /\ pc[j] \in {"start", "createJob"} => job[j] = "none"
    /\ pc[j] = "finishEmpty" => job[j] = "open" /\ Len(Plan[j]) = 0
    /\ pc[j] \in {"reserve", "conflict", "createTask"} => job[j] = "open" /\ row[Cur(j)] = "none"
    /\ pc[j] \in TaskSteps =>
          \A k \in 1 .. Len(Plan[j]) : k > idx[j] => job[j] = "open" /\ row[<<j, k>>] = "none"
StartOK == \A j \in Job : StartAt(j)

\* What resolveTask counted stays true until it acts on it, unless the job is
\* trimmed in between.
Counted(j, S) == job[j] = "trimmed" \/ \A x \in TasksOf(j) : row[x] \in S
CountedBy(a) ==
    /\ res[a].step = "remaining" /\ res[a].all => Counted(res[a].task[1], {"open", "done"})
    /\ res[a].step = "finish" => Counted(res[a].task[1], {"done"})
CountOK == \A a \in Actor : CountedBy(a)

HistInv == TypeInv /\ RowOK /\ FinishedJobIsComplete /\ StartOK /\ CountOK

\* One column of a product has as many elements as its other factor.
LEMMA ColumnSize ==
  ASSUME NEW c, NEW n \in Nat
  PROVE  IsFiniteSet({c} \X (1 .. n)) /\ Cardinality({c} \X (1 .. n)) = n
<1>1. IsFiniteSet(1 .. n) /\ Cardinality(1 .. n) = n
  <2>1. 0 \in Int /\ 1 \in Int /\ n \in Int
    OBVIOUS
  <2>2. /\ IsFiniteSet(1 .. n)
        /\ Cardinality(1 .. n) = IF 1 > n THEN 0 ELSE n - 1 + 1
    BY <2>1, FS_Interval, ZenonT(60)
  <2> QED
    BY <2>2
<1>2. IsFiniteSet({c}) /\ Cardinality({c}) = 1
  BY FS_Singleton, ZenonT(60)
<1>3. /\ IsFiniteSet({c} \X (1 .. n))
      /\ Cardinality({c} \X (1 .. n)) = Cardinality({c}) * Cardinality(1 .. n)
  BY <1>1, <1>2, FS_Product, ZenonT(60)
<1> QED
  BY <1>1, <1>2, <1>3

LEMMA TasksFinite ==
  ASSUME NEW j \in Job
  PROVE  /\ Len(Plan[j]) \in Nat
         /\ IsFiniteSet(TasksOf(j)) /\ Cardinality(TasksOf(j)) = Len(Plan[j])
<1>1. Len(Plan[j]) \in Nat
  BY ZenonT(30), TaskFacts
<1> QED
  BY <1>1, ColumnSize, ZenonT(60) DEF TasksOf

\* Counting ExpectedTasks rows means that every row exists.
LEMMA TotalMeansAll ==
  ASSUME NEW j \in Job, RowCount(j) >= Len(Plan[j])
  PROVE  \A x \in TasksOf(j) : row[x] # "none"
<1> DEFINE S == {x \in TasksOf(j) : row[x] # "none"}
<1>1. Len(Plan[j]) \in Nat /\ IsFiniteSet(TasksOf(j)) /\ Cardinality(TasksOf(j)) = Len(Plan[j])
  BY ZenonT(30), TasksFinite
<1>2. S \in SUBSET TasksOf(j)
  BY ZenonT(30)
<1>3. /\ Cardinality(S) \in Nat /\ Cardinality(S) <= Cardinality(TasksOf(j))
      /\ Cardinality(TasksOf(j)) = Cardinality(S) => TasksOf(j) = S
  BY ZenonT(30), <1>1, <1>2, FS_Subset, FS_CardinalityType
<1>4. TasksOf(j) = S
  BY <1>1, <1>3 DEF RowCount
<1> QED
  BY ZenonT(30), <1>4

\* Counting no unfinished row means that none exists.
LEMMA NoneRemaining ==
  ASSUME NEW j \in Job, OpenCount(j) = 0
  PROVE  \A x \in TasksOf(j) : row[x] # "open"
<1> DEFINE S == {x \in TasksOf(j) : row[x] = "open"}
<1>1. IsFiniteSet(TasksOf(j))
  BY ZenonT(30), TasksFinite
<1>2. IsFiniteSet(S)
  BY ZenonT(30), <1>1, FS_Subset
<1>3. S = {}
  BY ZenonT(30), <1>2, FS_EmptySet DEF OpenCount
<1> QED
  BY ZenonT(30), <1>3

LEMMA HistInit == Init => HistInv
<1> SUFFICES ASSUME Init PROVE HistInv
  BY ZenonT(30)
<1>1. RowOK /\ FinishedJobIsComplete /\ StartOK /\ CountOK
  BY ZenonT(30) DEF Init, RowOK, FinishedJobIsComplete, StartOK, StartAt, CountOK, CountedBy,
     TaskSteps, Idle
<1> QED
  BY ZenonT(30), <1>1, TypeInit DEF HistInv

-----------------------------------------------------------------------------
(* What the steps that write no row preserve.                              *)

LEMMA RowsFrame ==
  ASSUME HistInv, UNCHANGED <<job, row>> PROVE RowOK' /\ FinishedJobIsComplete'
  BY ZenonT(30) DEF HistInv, RowOK, FinishedJobIsComplete

LEMMA StartFrame ==
  ASSUME HistInv, UNCHANGED <<job, row, pc, idx>> PROVE StartOK'
  BY ZenonT(30) DEF HistInv, StartOK, StartAt, Cur

\* A step of resolver a keeps CountOK if what it counted itself is right and
\* the other counts are not disturbed.
LEMMA CountStep ==
  ASSUME HistInv, NEW a \in Actor, \A b \in Actor : b # a => res'[b] = res[b],
         \A j \in Job : \A S \in {{"open", "done"}, {"done"}} : Counted(j, S) => Counted(j, S)',
         CountedBy(a)'
  PROVE  CountOK'
<1> SUFFICES ASSUME NEW b \in Actor, b # a PROVE CountedBy(b)'
  BY ZenonT(30) DEF CountOK
<1>1. res'[b] = res[b] /\ CountedBy(b)
  BY ZenonT(30) DEF HistInv, CountOK
<1>2. res[b].step \in {"remaining", "finish"} => res[b].task[1] \in Job
  BY TaskFacts DEF HistInv, TypeInv, ResOK, Idle
<1>3. CASE res[b].step = "remaining" /\ res[b].all
  <2>1. Counted(res[b].task[1], {"open", "done"})'
    BY ZenonT(30), <1>1, <1>2, <1>3 DEF CountedBy
  <2> QED
    BY ZenonT(30), <2>1, <1>1, <1>3 DEF CountedBy, Counted
<1>4. CASE res[b].step = "finish"
  <2>1. Counted(res[b].task[1], {"done"})'
    BY ZenonT(30), <1>1, <1>2, <1>4 DEF CountedBy
  <2> QED
    BY ZenonT(30), <2>1, <1>1, <1>4 DEF CountedBy, Counted
<1> QED
  BY ZenonT(30), <1>1, <1>3, <1>4 DEF CountedBy

LEMMA CountFrame ==
  ASSUME HistInv, UNCHANGED <<job, row, res>> PROVE CountOK'
  BY ZenonT(30) DEF HistInv, CountOK, CountedBy, Counted

\* The same for a step that runs no resolver.
LEMMA CountKept ==
  ASSUME HistInv, UNCHANGED res,
         \A j \in Job : \A S \in {{"open", "done"}, {"done"}} : Counted(j, S) => Counted(j, S)'
  PROVE  CountOK'
<1> SUFFICES ASSUME NEW b \in Actor PROVE CountedBy(b)'
  BY ZenonT(30) DEF CountOK
<1>1. CountedBy(b)
  BY ZenonT(30) DEF HistInv, CountOK
<1>2. res[b].step \in {"remaining", "finish"} => res[b].task[1] \in Job
  BY TaskFacts DEF HistInv, TypeInv, ResOK, Idle
<1>3. CASE res[b].step = "remaining" /\ res[b].all
  <2>1. Counted(res[b].task[1], {"open", "done"})'
    BY ZenonT(30), <1>1, <1>2, <1>3 DEF CountedBy
  <2> QED
    BY ZenonT(30), <2>1, <1>3 DEF CountedBy, Counted
<1>4. CASE res[b].step = "finish"
  <2>1. Counted(res[b].task[1], {"done"})'
    BY ZenonT(30), <1>1, <1>2, <1>4 DEF CountedBy
  <2> QED
    BY ZenonT(30), <2>1, <1>4 DEF CountedBy, Counted
<1> QED
  BY ZenonT(30), <1>3, <1>4 DEF CountedBy

LEMMA CountQuiet ==
  ASSUME HistInv, NEW a \in Actor, UNCHANGED <<job, row>>, NEW r,
         res' = [res EXCEPT ![a] = r], r.step \notin {"remaining", "finish"}
  PROVE  CountOK'
<1>1. res \in [Actor -> Resolving]
  BY ZenonT(30) DEF HistInv, TypeInv, TypeOK
<1>2. res'[a] = r /\ \A b \in Actor : b # a => res'[b] = res[b]
  BY ZenonT(30), <1>1
<1>3. \A j \in Job : \A S \in {{"open", "done"}, {"done"}} : Counted(j, S) => Counted(j, S)'
  BY ZenonT(30) DEF Counted
<1> QED
  BY ZenonT(30), <1>2, <1>3, CountStep DEF CountedBy

LEMMA ReturnStep ==
  ASSUME TypeInv, NEW a \in Actor, Return(a)
  PROVE  \E r : res' = [res EXCEPT ![a] = r] /\ r.step \notin {"remaining", "finish"}
<1>1. res \in [Actor -> Resolving]
  BY ZenonT(30) DEF TypeInv, TypeOK
<1>2. CASE res[a].clear
  <2>1. res' = [res EXCEPT ![a] = [res[a] EXCEPT !.step = "clear"]]
    BY ZenonT(30), <1>1, <1>2 DEF Return
  <2>2. [res[a] EXCEPT !.step = "clear"].step = "clear"
    BY ZenonT(30), <1>1 DEF Resolving
  <2> QED
    BY ZenonT(30), <2>1, <2>2
<1>3. CASE ~res[a].clear
  <2>1. res' = [res EXCEPT ![a] = Idle] /\ Idle.step = "idle"
    BY ZenonT(30), <1>1, <1>3 DEF Return, Idle
  <2> QED
    BY ZenonT(30), <2>1
<1> QED
  BY ZenonT(30), <1>2, <1>3

-----------------------------------------------------------------------------
(* One lemma per action, or per group of actions with the same argument.   *)
(* Each one is about the part of HistInv beside TypeInv.                   *)

Hist == RowOK /\ FinishedJobIsComplete /\ StartOK /\ CountOK

\* Steps of connections and workers write neither rows nor counts.
LEMMA HistQuiet ==
  ASSUME HistInv, UNCHANGED <<job, row, pc, idx, res>> PROVE Hist'
  BY ZenonT(30), RowsFrame, StartFrame, CountFrame DEF Hist

\* Steps of a resolver that write no row.
LEMMA HistReturn ==
  ASSUME HistInv, NEW a \in Actor, UNCHANGED <<job, row, pc, idx>>, Return(a) PROVE Hist'
<1>1. PICK r : res' = [res EXCEPT ![a] = r] /\ r.step \notin {"remaining", "finish"}
  BY ZenonT(30), ReturnStep DEF HistInv
<1> QED
  BY ZenonT(30), <1>1, RowsFrame, StartFrame, CountQuiet DEF Hist

LEMMA HistBegin ==
  ASSUME HistInv, NEW a \in Actor, UNCHANGED <<job, row, pc, idx>>, NEW x, NEW b,
         res' = [res EXCEPT ![a] = Resolve(x, b)]
  PROVE  Hist'
<1>1. Resolve(x, b).step = "update"
  BY ZenonT(30) DEF Resolve
<1> QED
  BY ZenonT(30), <1>1, RowsFrame, StartFrame, CountQuiet DEF Hist

LEMMA HistClear ==
  ASSUME HistInv, NEW a \in Actor, Clear(a) PROVE Hist'
<1>1. UNCHANGED <<job, row, pc, idx>> /\ res' = [res EXCEPT ![a] = Idle] /\ Idle.step = "idle"
  BY ZenonT(30) DEF Clear, dbVars, goVars, Idle
<1> QED
  BY ZenonT(30), <1>1, RowsFrame, StartFrame, CountQuiet DEF Hist

LEMMA HistCountTotal ==
  ASSUME HistInv, NEW a \in Actor, CountTotal(a) PROVE Hist'
<1> DEFINE i == res[a].task[1]
<1>1. UNCHANGED <<job, row, pc, idx>>
  BY ZenonT(30) DEF CountTotal, dbVars, goVars
<1>2. res \in [Actor -> Resolving] /\ row \in [Task -> {"none", "open", "done"}]
  BY ZenonT(30) DEF HistInv, TypeInv, TypeOK
<1>3. i \in Job /\ TasksOf(i) \subseteq Task
  BY TaskFacts DEF HistInv, TypeInv, ResOK, Idle, CountTotal
<1>4. CASE job[i] = "trimmed"
  BY ZenonT(30), <1>1, <1>4, HistReturn DEF CountTotal
<1>5. CASE job[i] # "trimmed"
  <2>1. res' = [res EXCEPT ![a].step = "remaining", ![a].all = RowCount(i) >= Len(Plan[i])]
    BY ZenonT(30), <1>5 DEF CountTotal
  <2>2. /\ \A b \in Actor : b # a => res'[b] = res[b]
        /\ res'[a].step = "remaining" /\ res'[a].task = res[a].task
        /\ res'[a].all = (RowCount(i) >= Len(Plan[i]))
    BY ZenonT(30), <1>2, <2>1 DEF Resolving
  <2>3. res'[a].all => \A x \in TasksOf(i) : row[x] \in {"open", "done"}
    BY ZenonT(30), <1>2, <1>3, <2>2, TotalMeansAll
  <2>4. CountedBy(a)'
    BY ZenonT(30), <1>1, <2>2, <2>3 DEF CountedBy, Counted
  <2>5. \A j \in Job : \A S \in {{"open", "done"}, {"done"}} : Counted(j, S) => Counted(j, S)'
    BY ZenonT(30), <1>1 DEF Counted
  <2> QED
    BY ZenonT(30), <1>1, <2>2, <2>4, <2>5, CountStep, RowsFrame, StartFrame DEF Hist
<1> QED
  BY ZenonT(30), <1>4, <1>5

LEMMA HistCountRemaining ==
  ASSUME HistInv, NEW a \in Actor, CountRemaining(a) PROVE Hist'
<1> DEFINE i == res[a].task[1]
<1>1. UNCHANGED <<job, row, pc, idx>>
  BY ZenonT(30) DEF CountRemaining, dbVars, goVars
<1>2. res \in [Actor -> Resolving]
  BY ZenonT(30) DEF HistInv, TypeInv, TypeOK
<1>3. i \in Job
  BY TaskFacts DEF HistInv, TypeInv, ResOK, Idle, CountRemaining
<1>4. CASE ~(OpenCount(i) = 0 /\ res[a].all)
  BY ZenonT(30), <1>1, <1>4, HistReturn DEF CountRemaining
<1>5. CASE OpenCount(i) = 0 /\ res[a].all
  <2>1. res' = [res EXCEPT ![a].step = "finish"]
    BY ZenonT(30), <1>5 DEF CountRemaining
  <2>2. /\ \A b \in Actor : b # a => res'[b] = res[b]
        /\ res'[a].step = "finish" /\ res'[a].task = res[a].task
    BY ZenonT(30), <1>2, <2>1 DEF Resolving
  <2>3. Counted(i, {"open", "done"})
    BY ZenonT(30), <1>5 DEF HistInv, CountOK, CountedBy, CountRemaining
  <2>4. Counted(i, {"done"})
    BY ZenonT(30), <1>3, <1>5, <2>3, NoneRemaining DEF Counted
  <2>5. CountedBy(a)'
    BY ZenonT(30), <1>1, <2>2, <2>4 DEF CountedBy, Counted
  <2>6. \A j \in Job : \A S \in {{"open", "done"}, {"done"}} : Counted(j, S) => Counted(j, S)'
    BY ZenonT(30), <1>1 DEF Counted
  <2> QED
    BY ZenonT(30), <1>1, <2>2, <2>5, <2>6, CountStep, RowsFrame, StartFrame DEF Hist
<1> QED
  BY ZenonT(30), <1>4, <1>5

\* Steps of goroutine j that write no row and move it on.
LEMMA StartStep ==
  ASSUME HistInv, NEW j \in Job, UNCHANGED <<job, row>>,
         \A i \in Job : i # j => pc'[i] = pc[i] /\ idx'[i] = idx[i],
         StartAt(j)'
  PROVE  StartOK'
<1> SUFFICES ASSUME NEW i \in Job, i # j PROVE StartAt(i)'
  BY ZenonT(30) DEF StartOK
<1> QED
  BY ZenonT(30) DEF HistInv, StartOK, StartAt, Cur

LEMMA HistStartSingle ==
  ASSUME HistInv, NEW j \in Job, StartSingle(j) PROVE Hist'
<1>1. UNCHANGED <<job, row, res, idx>> /\ pc \in [Job -> Steps] /\ job[j] = "none"
  BY ZenonT(30) DEF StartSingle, dbVars, HistInv, TypeInv, TypeOK, StartOK, StartAt
<1>2. pc' = [pc EXCEPT ![j] = "createJob"] \/ pc' = [pc EXCEPT ![j] = "rejected"]
  BY ZenonT(30) DEF StartSingle, Goto
<1>3. StartAt(j)'
  BY ZenonT(30), <1>1, <1>2 DEF StartAt, TaskSteps
<1> QED
  BY ZenonT(30), <1>1, <1>2, <1>3, StartStep, RowsFrame, CountFrame DEF Hist

LEMMA HistReserveNext ==
  ASSUME HistInv, NEW j \in Job, ReserveNext(j) PROVE Hist'
<1>1. UNCHANGED <<job, row, res, idx>> /\ pc \in [Job -> Steps] /\ pc[j] = "reserve" /\ StartAt(j)
  BY ZenonT(30) DEF ReserveNext, dbVars, HistInv, TypeInv, TypeOK, StartOK
<1>2. pc' = [pc EXCEPT ![j] = "createTask"] \/ pc' = [pc EXCEPT ![j] = "conflict"]
  BY ZenonT(30) DEF ReserveNext, Goto
<1>3. StartAt(j)'
  BY ZenonT(30), <1>1, <1>2 DEF StartAt, TaskSteps, Cur
<1> QED
  BY ZenonT(30), <1>1, <1>2, <1>3, StartStep, RowsFrame, CountFrame DEF Hist

\* Pick, Send and SetNode move within the task.
LEMMA HistWithin ==
  ASSUME HistInv, NEW j \in Job, pc[j] \in {"pick", "send", "setNode"},
         NEW s \in {"send", "setNode", "wait"}, pc' = [pc EXCEPT ![j] = s],
         UNCHANGED <<job, row, idx>>
  PROVE  RowOK' /\ FinishedJobIsComplete' /\ StartOK'
<1>1. pc \in [Job -> Steps] /\ StartAt(j)
  BY ZenonT(30) DEF HistInv, TypeInv, TypeOK, StartOK
<1>2. pc'[j] = s /\ \A i \in Job : i # j => pc'[i] = pc[i]
  BY ZenonT(30), <1>1
<1>3. StartAt(j)'
  BY ZenonT(30), <1>1, <1>2 DEF StartAt, TaskSteps, Cur
<1> QED
  BY ZenonT(30), <1>2, <1>3, StartStep, RowsFrame

LEMMA HistFailUnsent ==
  ASSUME HistInv, NEW j \in Job, pc[j] \in {"pick", "send"}, FailUnsent(j),
         UNCHANGED <<job, row, idx>>
  PROVE  Hist'
<1>1. res' = [res EXCEPT ![j] = Resolve(Cur(j), TRUE)] /\ Resolve(Cur(j), TRUE).step = "update"
  BY ZenonT(30) DEF FailUnsent, Resolve
<1>2. CountOK'
  BY ZenonT(30), <1>1, CountQuiet DEF Actor
<1>3. pc' = [pc EXCEPT ![j] = "wait"]
  BY ZenonT(30) DEF FailUnsent, Goto
<1> QED
  BY ZenonT(30), <1>2, <1>3, HistWithin DEF Hist

LEMMA HistPick ==
  ASSUME HistInv, NEW j \in Job, Pick(j) PROVE Hist'
<1>1. UNCHANGED <<job, row, idx>> /\ pc[j] = "pick"
  BY ZenonT(30) DEF Pick, dbVars
<1>2. CASE FailUnsent(j)
  BY ZenonT(30), <1>1, <1>2, HistFailUnsent
<1>3. CASE ~FailUnsent(j)
  <2>1. UNCHANGED res /\ pc' = [pc EXCEPT ![j] = "send"]
    BY ZenonT(30), <1>3 DEF Pick, Goto
  <2> QED
    BY ZenonT(30), <1>1, <2>1, HistWithin, CountFrame DEF Hist
<1> QED
  BY ZenonT(30), <1>2, <1>3

LEMMA HistSend ==
  ASSUME HistInv, NEW j \in Job, Send(j) PROVE Hist'
<1>1. UNCHANGED <<job, row, idx>> /\ pc[j] = "send"
  BY ZenonT(30) DEF Send, dbVars
<1>2. CASE FailUnsent(j)
  BY ZenonT(30), <1>1, <1>2, HistFailUnsent
<1>3. CASE ~FailUnsent(j)
  <2>1. UNCHANGED res /\ pc' = [pc EXCEPT ![j] = "setNode"]
    BY ZenonT(30), <1>3 DEF Send, Goto
  <2> QED
    BY ZenonT(30), <1>1, <2>1, HistWithin, CountFrame DEF Hist
<1> QED
  BY ZenonT(30), <1>2, <1>3

LEMMA HistSetNode ==
  ASSUME HistInv, NEW j \in Job, SetNode(j) PROVE Hist'
<1>1. UNCHANGED <<job, row, idx, res>> /\ pc[j] = "setNode" /\ pc' = [pc EXCEPT ![j] = "wait"]
  BY ZenonT(30) DEF SetNode, dbVars, Goto
<1> QED
  BY ZenonT(30), <1>1, HistWithin, CountFrame DEF Hist

\* Moving to the next target: the job is still open and the next row absent.
LEMMA HistNextTarget ==
  ASSUME HistInv, NEW j \in Job, pc[j] \in TaskSteps, NextTarget(j), UNCHANGED <<job, row>>
  PROVE  StartOK'
<1>1. pc \in [Job -> Steps] /\ idx \in [Job -> Nat \ {0}] /\ StartAt(j) /\ Len(Plan[j]) \in Nat
  BY ZenonT(30), TaskFacts DEF HistInv, TypeInv, TypeOK, StartOK
<1>2. CASE idx[j] < Len(Plan[j])
  <2>1. idx' = [idx EXCEPT ![j] = idx[j] + 1] /\ pc' = [pc EXCEPT ![j] = "reserve"]
    BY ZenonT(30), <1>2 DEF NextTarget, Goto
  <2>2. idx[j] + 1 \in 1 .. Len(Plan[j]) /\ idx[j] + 1 > idx[j]
    BY <1>1, <1>2
  <2>3. job[j] = "open" /\ row[<<j, idx[j] + 1>>] = "none"
    BY ZenonT(30), <1>1, <2>2 DEF StartAt
  <2>4. \A k \in 1 .. Len(Plan[j]) : k > idx[j] + 1 => job[j] = "open" /\ row[<<j, k>>] = "none"
    BY <1>1 DEF StartAt
  <2>5. idx'[j] = idx[j] + 1 /\ pc'[j] = "reserve"
    BY ZenonT(30), <1>1, <2>1
  <2>6. StartAt(j)'
    BY ZenonT(30), <2>3, <2>4, <2>5 DEF StartAt, TaskSteps, Cur
  <2> QED
    BY ZenonT(30), <1>1, <2>1, <2>6, StartStep
<1>3. CASE ~(idx[j] < Len(Plan[j]))
  <2>1. idx' = idx /\ pc' = [pc EXCEPT ![j] = "done"]
    BY ZenonT(30), <1>3 DEF NextTarget, Goto
  <2>2. StartAt(j)'
    BY ZenonT(30), <1>1, <2>1 DEF StartAt, TaskSteps
  <2> QED
    BY ZenonT(30), <1>1, <2>1, <2>2, StartStep
<1> QED
  BY ZenonT(30), <1>2, <1>3

LEMMA HistWaitTask ==
  ASSUME HistInv, NEW j \in Job, WaitTask(j) PROVE Hist'
<1>1. UNCHANGED <<job, row, res>> /\ pc[j] \in TaskSteps /\ NextTarget(j)
  BY ZenonT(30) DEF WaitTask, dbVars, hubVars, TaskSteps
<1> QED
  BY ZenonT(30), <1>1, HistNextTarget, RowsFrame, CountFrame DEF Hist

-----------------------------------------------------------------------------
(* The steps that write rows.                                              *)

LEMMA StartTasks ==
  ASSUME TypeInv, NEW j \in Job
  PROVE  /\ \A k \in 1 .. Len(Plan[j]) : <<j, k>> \in Task
         /\ pc[j] \in Working => Cur(j) \in Task
<1>1. \A k \in 1 .. Len(Plan[j]) : <<j, k>> \in Task
  BY DEF Task
<1>2. ASSUME pc[j] \in Working PROVE Cur(j) \in Task
  <2>1. Len(Plan[j]) # 0 /\ TypeOK /\ CurOK
    BY ZenonT(30), <1>2 DEF TypeInv, WorkOK
  <2> QED
    BY ZenonT(30), <2>1, CurFacts
<1> QED
  BY ZenonT(30), <1>1, <1>2

LEMMA HistUpdateRow ==
  ASSUME HistInv, NEW a \in Actor, UpdateRow(a) PROVE Hist'
<1> DEFINE x == res[a].task
<1>1. UNCHANGED <<job, pc, idx>>
  BY ZenonT(30) DEF UpdateRow, goVars
<1>2. /\ res \in [Actor -> Resolving] /\ row \in [Task -> {"none", "open", "done"}]
      /\ job \in [Job -> {"none", "open", "done", "trimmed"}]
  BY ZenonT(30) DEF HistInv, TypeInv, TypeOK
<1>3. x \in Task /\ x[1] \in Job
  BY TaskFacts DEF HistInv, TypeInv, ResOK, Idle, UpdateRow
<1>4. CASE row[x] = "none"
  BY ZenonT(30), <1>1, <1>4, HistReturn DEF UpdateRow
<1>5. CASE row[x] # "none"
  <2>1. row' = [row EXCEPT ![x] = "done"] /\ res' = [res EXCEPT ![a].step = "total"]
    BY ZenonT(30), <1>5 DEF UpdateRow
  <2>2. /\ row'[x] = "done" /\ \A y \in Task : y # x => row'[y] = row[y]
        /\ res'[a].step = "total" /\ \A b \in Actor : b # a => res'[b] = res[b]
    BY ZenonT(30), <1>2, <1>3, <2>1 DEF Resolving
  <2>3. \A y \in Task : (row'[y] = "none") = (row[y] = "none")
    BY ZenonT(30), <1>5, <2>2
  <2>4. RowOK'
    BY ZenonT(30), <1>1, <2>3 DEF HistInv, RowOK
  <2>5. FinishedJobIsComplete'
    BY ZenonT(30), <1>1, <2>2, TaskFacts DEF HistInv, FinishedJobIsComplete
  <2>6. StartOK'
    <3> SUFFICES ASSUME NEW j \in Job PROVE StartAt(j)'
      BY ZenonT(30) DEF StartOK
    <3>1. StartAt(j) /\ \A k \in 1 .. Len(Plan[j]) : <<j, k>> \in Task
      BY ZenonT(30), StartTasks DEF HistInv, StartOK
    <3>2. pc[j] \in {"reserve", "conflict", "createTask"} => Cur(j) \in Task
      BY ZenonT(30), StartTasks DEF HistInv, Working
    <3> QED
      BY ZenonT(30), <1>1, <2>3, <3>1, <3>2 DEF StartAt, Cur
  <2>7. CountOK'
    <3>1. CountedBy(a)'
      BY ZenonT(30), <2>2 DEF CountedBy
    <3>2. \A j \in Job : \A S \in {{"open", "done"}, {"done"}} : Counted(j, S) => Counted(j, S)'
      BY <1>1, <2>2, TaskFacts DEF Counted
    <3> QED
      BY ZenonT(30), <2>2, <3>1, <3>2, CountStep
  <2> QED
    BY ZenonT(30), <2>4, <2>5, <2>6, <2>7 DEF Hist
<1> QED
  BY ZenonT(30), <1>4, <1>5

\* finished_at of a job is set only after all its rows were counted finished,
\* and no goroutine has a row of that job left to write.
LEMMA JobDone ==
  ASSUME HistInv, NEW i \in Job, job[i] = "open", UNCHANGED <<row, idx>>,
         job' = [job EXCEPT ![i] = "done"],
         \A x \in TasksOf(i) : row[x] = "done",
         \A j \in Job : pc'[j] = pc[j] \/ pc'[j] = "done",
         pc'[i] # "finishEmpty"
  PROVE  RowOK' /\ FinishedJobIsComplete' /\ StartOK'
         /\ \A j \in Job : \A S \in {{"open", "done"}, {"done"}} : Counted(j, S) => Counted(j, S)'
<1>1. job \in [Job -> {"none", "open", "done", "trimmed"}]
  BY ZenonT(30) DEF HistInv, TypeInv, TypeOK
<1>2. job'[i] = "done" /\ \A j \in Job : j # i => job'[j] = job[j]
  BY ZenonT(30), <1>1
<1>3. RowOK'
  BY ZenonT(30), <1>2, TaskFacts DEF HistInv, RowOK
<1>4. FinishedJobIsComplete'
  BY ZenonT(30), <1>2 DEF HistInv, FinishedJobIsComplete
<1>5. StartOK'
  <2> SUFFICES ASSUME NEW j \in Job PROVE StartAt(j)'
    BY ZenonT(30) DEF StartOK
  <2>1. StartAt(j) /\ \A k \in 1 .. Len(Plan[j]) : <<j, k>> \in TasksOf(j)
    BY ZenonT(30) DEF HistInv, StartOK, TasksOf
  <2>2. CASE j # i
    BY ZenonT(30), <1>2, <2>1, <2>2 DEF StartAt, Cur, TaskSteps
  <2>3. CASE j = i
    <3>1. pc[i] \notin {"start", "createJob"}
      BY ZenonT(30), <2>1, <2>3 DEF StartAt
    <3>2. pc[i] \in {"reserve", "conflict", "createTask"} => Cur(i) \in TasksOf(i)
      BY ZenonT(30), StartTasks, TaskFacts DEF HistInv, Working, Cur, TasksOf
    <3>3. pc[i] \notin {"reserve", "conflict", "createTask"}
      BY ZenonT(30), <2>1, <2>3, <3>2 DEF StartAt
    <3>4. pc[i] \in TaskSteps => \A k \in 1 .. Len(Plan[i]) : ~(k > idx[i])
      BY ZenonT(30), <2>1, <2>3 DEF StartAt
    <3> QED
      BY ZenonT(30), <2>3, <3>1, <3>3, <3>4 DEF StartAt, TaskSteps
  <2> QED
    BY ZenonT(30), <2>2, <2>3
<1>6. \A j \in Job : \A S \in {{"open", "done"}, {"done"}} : Counted(j, S) => Counted(j, S)'
  BY ZenonT(30), <1>2 DEF Counted
<1> QED
  BY ZenonT(30), <1>3, <1>4, <1>5, <1>6

LEMMA HistFinishJob ==
  ASSUME HistInv, NEW a \in Actor, FinishJob(a) PROVE Hist'
<1> DEFINE i == res[a].task[1]
<1>1. UNCHANGED <<row, pc, idx>> /\ Return(a)
  BY ZenonT(30) DEF FinishJob, goVars
<1>2. i \in Job
  BY TaskFacts, SMTT(60) DEF HistInv, TypeInv, ResOK, Idle, FinishJob
<1>3. CASE job[i] # "open"
  BY ZenonT(30), <1>1, <1>3, HistReturn DEF FinishJob
<1>4. CASE job[i] = "open"
  <2>1. job' = [job EXCEPT ![i] = "done"]
    BY ZenonT(30), <1>4 DEF FinishJob
  <2>2. \A x \in TasksOf(i) : row[x] = "done"
    BY ZenonT(30), <1>4 DEF HistInv, CountOK, CountedBy, Counted, FinishJob
  <2>3. PICK r : res' = [res EXCEPT ![a] = r] /\ r.step \notin {"remaining", "finish"}
    BY ZenonT(30), <1>1, ReturnStep DEF HistInv
  <2>4. res \in [Actor -> Resolving]
    BY ZenonT(30) DEF HistInv, TypeInv, TypeOK
  <2>5. CountedBy(a)' /\ \A b \in Actor : b # a => res'[b] = res[b]
    BY ZenonT(30), <2>3, <2>4 DEF CountedBy
  <2>6. pc[i] # "finishEmpty"
    BY <1>2, TaskFacts, SMTT(60) DEF HistInv, TypeInv, ResOK, Idle, FinishJob, StartOK, StartAt
  <2> QED
    BY ZenonT(30), <1>1, <1>2, <1>4, <2>1, <2>2, <2>5, <2>6, JobDone, CountStep DEF Hist
<1> QED
  BY ZenonT(30), <1>3, <1>4

LEMMA HistFinishEmpty ==
  ASSUME HistInv, NEW j \in Job, FinishEmpty(j) PROVE Hist'
<1>1. UNCHANGED <<row, idx, res>> /\ pc[j] = "finishEmpty" /\ pc' = [pc EXCEPT ![j] = "done"]
  BY ZenonT(30) DEF FinishEmpty, hubVars, Goto
<1>2. pc \in [Job -> Steps] /\ job[j] = "open" /\ Len(Plan[j]) = 0
  BY ZenonT(30), <1>1 DEF HistInv, TypeInv, TypeOK, StartOK, StartAt
<1>3. pc'[j] = "done" /\ \A i \in Job : i # j => pc'[i] = pc[i]
  BY ZenonT(30), <1>1, <1>2
<1>4. CASE UNCHANGED job
  <2>1. StartAt(j)'
    BY ZenonT(30), <1>3 DEF StartAt, TaskSteps
  <2> QED
    BY ZenonT(30), <1>1, <1>3, <1>4, <2>1, StartStep, RowsFrame, CountFrame DEF Hist
<1>5. CASE job' = [job EXCEPT ![j] = "done"]
  <2>1. \A x \in TasksOf(j) : row[x] = "done"
    BY <1>2 DEF TasksOf
  <2>2. RowOK' /\ FinishedJobIsComplete' /\ StartOK'
        /\ \A i \in Job : \A S \in {{"open", "done"}, {"done"}} : Counted(i, S) => Counted(i, S)'
    BY ZenonT(30), <1>1, <1>2, <1>3, <1>5, <2>1, JobDone
  <2>3. CountOK'
    BY ZenonT(30), <1>1, <2>2, CountKept
  <2> QED
    BY ZenonT(30), <2>2, <2>3 DEF Hist
<1> QED
  BY ZenonT(30), <1>4, <1>5 DEF FinishEmpty

LEMMA HistCreateJob ==
  ASSUME HistInv, NEW j \in Job, CreateJob(j) PROVE Hist'
<1>1. UNCHANGED <<row, idx, res>> /\ pc[j] \in {"start", "createJob"}
  BY ZenonT(30) DEF CreateJob
<1>2. /\ pc \in [Job -> Steps] /\ job \in [Job -> {"none", "open", "done", "trimmed"}]
      /\ job[j] = "none" /\ StartAt(j)
  BY ZenonT(30), <1>1 DEF HistInv, TypeInv, TypeOK, StartOK, StartAt
<1>3. CASE NewJobRow(j)
  <2>1. job'[j] = "open" /\ \A i \in Job : i # j => job'[i] = job[i]
    BY ZenonT(30), <1>2, <1>3 DEF NewJobRow
  <2>2. PICK s \in {"createTask", "finishEmpty", "reserve"} :
          /\ pc' = [pc EXCEPT ![j] = s]
          /\ s = "finishEmpty" <=> Len(Plan[j]) = 0
    <3>1. ~Fault \/ job' # job
      BY ZenonT(30), <1>2, <2>1
    <3>2. Goto(j, CASE Single(j) -> "createTask"
                    [] Plan[j] = <<>> -> "finishEmpty"
                    [] OTHER -> "reserve")
      BY ZenonT(30), <3>1 DEF CreateJob
    <3>3. Plan[j] = <<>> <=> Len(Plan[j]) = 0
      BY HubJobsAssumption, SMTT(60)
    <3>4. CASE Single(j)
      <4>1. Plan[j] # <<>>
        BY <3>3, <3>4 DEF Single
      <4>2. pc' = [pc EXCEPT ![j] = "createTask"]
        BY ZenonT(30), <3>2, <3>4, <4>1 DEF Goto
      <4> QED
        BY ZenonT(30), <3>3, <4>1, <4>2
    <3>5. CASE ~Single(j) /\ Plan[j] = <<>>
      BY ZenonT(30), <3>2, <3>3, <3>5 DEF Goto
    <3>6. CASE ~Single(j) /\ Plan[j] # <<>>
      BY ZenonT(30), <3>2, <3>3, <3>6 DEF Goto
    <3> QED
      BY ZenonT(30), <3>4, <3>5, <3>6
  <2>3. pc'[j] = s /\ \A i \in Job : i # j => pc'[i] = pc[i]
    BY ZenonT(30), <1>2, <2>2
  <2>4. \A x \in TasksOf(j) : row[x] = "none"
    BY ZenonT(30), <1>2, TaskFacts DEF HistInv, RowOK, TasksOf
  <2>5. Len(Plan[j]) # 0 => Cur(j) \in TasksOf(j)
    BY ZenonT(30), CurFacts, TaskFacts DEF HistInv, TypeInv, Cur, TasksOf
  <2>6. RowOK'
    BY ZenonT(30), <1>1, <2>1, TaskFacts DEF HistInv, RowOK
  <2>7. FinishedJobIsComplete'
    BY ZenonT(30), <1>1, <2>1 DEF HistInv, FinishedJobIsComplete
  <2>8. StartOK'
    <3> SUFFICES ASSUME NEW i \in Job PROVE StartAt(i)'
      BY ZenonT(30) DEF StartOK
    <3>1. CASE i # j
      BY ZenonT(30), <1>1, <2>1, <2>3, <3>1 DEF HistInv, StartOK, StartAt, Cur
    <3>2. CASE i = j
      <4>1. \A k \in 1 .. Len(Plan[j]) : row[<<j, k>>] = "none"
        BY ZenonT(30), <2>4 DEF TasksOf
      <4> QED
        BY ZenonT(30), <1>1, <2>1, <2>2, <2>3, <2>4, <2>5, <3>2, <4>1 DEF StartAt, Cur
    <3> QED
      BY ZenonT(30), <3>1, <3>2
  <2>9. \A i \in Job : \A S \in {{"open", "done"}, {"done"}} : Counted(i, S) => Counted(i, S)'
    BY ZenonT(30), <1>1, <1>2, <2>1 DEF Counted
  <2> QED
    BY ZenonT(30), <1>1, <2>6, <2>7, <2>8, <2>9, CountKept DEF Hist
<1>4. CASE ~NewJobRow(j)
  <2>1. UNCHANGED job /\ pc' = [pc EXCEPT ![j] = "failed"]
    BY ZenonT(30), <1>4 DEF CreateJob, Goto
  <2>2. pc'[j] = "failed" /\ \A i \in Job : i # j => pc'[i] = pc[i]
    BY ZenonT(30), <1>2, <2>1
  <2>3. StartAt(j)'
    BY ZenonT(30), <2>2 DEF StartAt, TaskSteps
  <2> QED
    BY ZenonT(30), <1>1, <2>1, <2>2, <2>3, StartStep, RowsFrame, CountFrame DEF Hist
<1> QED
  BY ZenonT(30), <1>3, <1>4

\* A row is added to an open job that lacks it, so nobody counted the job full.
LEMMA RowAdded ==
  ASSUME HistInv, NEW j \in Job, pc[j] \in {"conflict", "createTask"}, NewRow(Cur(j)),
         UNCHANGED <<job, idx>>, NEW s \in {"wait", "pick"}, pc' = [pc EXCEPT ![j] = s]
  PROVE  RowOK' /\ FinishedJobIsComplete' /\ StartOK'
         /\ \A i \in Job : \A S \in {{"open", "done"}, {"done"}} : Counted(i, S) => Counted(i, S)'
<1> DEFINE x == Cur(j)
<1>1. /\ pc \in [Job -> Steps] /\ row \in [Task -> {"none", "open", "done"}]
      /\ StartAt(j) /\ job[j] = "open" /\ row[x] = "none"
  BY ZenonT(30) DEF HistInv, TypeInv, TypeOK, StartOK, StartAt
<1>2. x \in Task /\ x[1] = j /\ x \in TasksOf(j)
  BY ZenonT(30), StartTasks, TaskFacts DEF HistInv, Working, Cur, TasksOf
<1>3. row'[x] = "open" /\ \A y \in Task : y # x => row'[y] = row[y]
  BY ZenonT(30), <1>1, <1>2 DEF NewRow
<1>4. RowOK'
  BY ZenonT(30), <1>1, <1>2, <1>3 DEF HistInv, RowOK
<1>5. FinishedJobIsComplete'
  BY <1>1, <1>2, <1>3, TaskFacts DEF HistInv, FinishedJobIsComplete, TasksOf
<1>6. StartOK'
  <2> SUFFICES ASSUME NEW i \in Job PROVE StartAt(i)'
    BY ZenonT(30) DEF StartOK
  <2>1. /\ StartAt(i) /\ \A k \in 1 .. Len(Plan[i]) : <<i, k>> \in Task
        /\ pc[i] \in {"reserve", "conflict", "createTask"} => Cur(i) \in Task
    BY ZenonT(30), StartTasks DEF HistInv, StartOK, Working
  <2>2. CASE i # j
    <3>1. \A y \in Task : y[1] = i => row'[y] = row[y]
      BY ZenonT(30), <1>2, <1>3, <2>2
    <3>2. pc'[i] = pc[i] /\ Cur(i)[1] = i /\ \A k : <<i, k>>[1] = i
      BY ZenonT(30), <1>1, <2>2 DEF Cur
    <3> QED
      BY ZenonT(30), <2>1, <3>1, <3>2 DEF StartAt, Cur
  <2>3. CASE i = j
    <3>1. \A k \in 1 .. Len(Plan[j]) : k > idx[j] => <<j, k>> # x
      BY DEF Cur
    <3>2. pc'[j] = s
      BY ZenonT(30), <1>1
    <3> QED
      BY ZenonT(30), <1>1, <1>3, <2>1, <2>3, <3>1, <3>2 DEF StartAt, TaskSteps
  <2> QED
    BY ZenonT(30), <2>2, <2>3
<1>7. ASSUME NEW i \in Job, NEW S \in {{"open", "done"}, {"done"}}, Counted(i, S)
      PROVE  Counted(i, S)'
  <2>1. CASE i # j
    <3>1. \A y \in TasksOf(i) : row'[y] = row[y]
      BY ZenonT(30), <1>2, <1>3, <2>1, TaskFacts DEF TasksOf
    <3> QED
      BY ZenonT(30), <1>7, <3>1 DEF Counted
  <2>2. CASE i = j
    BY ZenonT(30), <1>1, <1>2, <1>7, <2>2 DEF Counted
  <2> QED
    BY ZenonT(30), <2>1, <2>2
<1> QED
  BY ZenonT(30), <1>4, <1>5, <1>6, <1>7

LEMMA HistCreateConflict ==
  ASSUME HistInv, NEW j \in Job, CreateConflict(j) PROVE Hist'
<1>1. UNCHANGED job /\ pc[j] = "conflict" /\ j \in Actor
  BY ZenonT(30) DEF CreateConflict, Actor
<1>2. res \in [Actor -> Resolving]
  BY ZenonT(30) DEF HistInv, TypeInv, TypeOK
<1>3. CASE /\ NewRow(Cur(j)) /\ res' = [res EXCEPT ![j] = Resolve(Cur(j), FALSE)]
           /\ Goto(j, "wait") /\ UNCHANGED <<idx, used>>
  <2>1. res'[j].step = "update" /\ \A b \in Actor : b # j => res'[b] = res[b]
    BY ZenonT(30), <1>1, <1>2, <1>3 DEF Resolve
  <2>2. CountedBy(j)'
    BY ZenonT(30), <2>1 DEF CountedBy
  <2>3. RowOK' /\ FinishedJobIsComplete' /\ StartOK'
        /\ \A i \in Job : \A S \in {{"open", "done"}, {"done"}} : Counted(i, S) => Counted(i, S)'
    BY ZenonT(30), <1>1, <1>3, RowAdded DEF Goto
  <2> QED
    BY ZenonT(30), <1>1, <2>1, <2>2, <2>3, CountStep DEF Hist
<1>4. CASE Fault /\ NextTarget(j) /\ UNCHANGED <<row, res>>
  BY ZenonT(30), <1>1, <1>4, HistNextTarget, RowsFrame, CountFrame DEF Hist, TaskSteps
<1> QED
  BY ZenonT(30), <1>3, <1>4 DEF CreateConflict

LEMMA HistCreateTask ==
  ASSUME HistInv, NEW j \in Job, CreateTask(j) PROVE Hist'
<1>1. UNCHANGED <<job, idx, res>> /\ pc[j] = "createTask"
  BY ZenonT(30) DEF CreateTask
<1>2. pc \in [Job -> Steps] /\ StartAt(j)
  BY ZenonT(30) DEF HistInv, TypeInv, TypeOK, StartOK
<1>3. CASE NewRow(Cur(j)) /\ \E s \in {"wait", "pick"} : Goto(j, s)
  <2>1. RowOK' /\ FinishedJobIsComplete' /\ StartOK'
        /\ \A i \in Job : \A S \in {{"open", "done"}, {"done"}} : Counted(i, S) => Counted(i, S)'
    BY ZenonT(30), <1>1, <1>3, RowAdded DEF Goto
  <2> QED
    BY ZenonT(30), <1>1, <2>1, CountKept DEF Hist
<1>4. CASE UNCHANGED row /\ \E s \in {"failed", "wait"} : Goto(j, s)
  <2>1. pc'[j] \in {"failed", "wait"} /\ \A i \in Job : i # j => pc'[i] = pc[i]
    BY ZenonT(30), <1>2, <1>4 DEF Goto
  <2>2. StartAt(j)'
    BY ZenonT(30), <1>1, <1>2, <1>4, <2>1 DEF StartAt, TaskSteps
  <2> QED
    BY ZenonT(30), <1>1, <1>4, <2>1, <2>2, StartStep, RowsFrame, CountFrame DEF Hist
<1> QED
  BY ZenonT(30), <1>3, <1>4 DEF CreateTask

\* Housekeeping deletes finished jobs only, with all their rows.
LEMMA HistTrim ==
  ASSUME HistInv, UNCHANGED <<pc, idx>>, NEW del \in SUBSET Job, \A j \in del : job[j] = "done",
         job' = [j \in Job |-> IF j \in del THEN "trimmed" ELSE job[j]],
         row' = [x \in Task |-> IF x[1] \in del THEN "none" ELSE row[x]]
  PROVE  RowOK' /\ FinishedJobIsComplete' /\ StartOK'
         /\ \A j \in Job : \A S \in {{"open", "done"}, {"done"}} : Counted(j, S) => Counted(j, S)'
<1>1. RowOK'
  BY ZenonT(30), TaskFacts DEF HistInv, RowOK
<1>2. ASSUME NEW j \in Job, j \notin del
      PROVE  job'[j] = job[j] /\ \A x \in TasksOf(j) : row'[x] = row[x]
  BY ZenonT(30), <1>2, TaskFacts DEF TasksOf
<1>3. FinishedJobIsComplete'
  BY ZenonT(30), <1>2 DEF HistInv, FinishedJobIsComplete
<1>4. StartOK'
  <2> SUFFICES ASSUME NEW j \in Job PROVE StartAt(j)'
    BY ZenonT(30) DEF StartOK
  <2>1. /\ StartAt(j) /\ \A k \in 1 .. Len(Plan[j]) : <<j, k>> \in TasksOf(j)
        /\ pc[j] \in {"reserve", "conflict", "createTask"} => Cur(j) \in TasksOf(j)
    BY ZenonT(30), StartTasks, TaskFacts DEF HistInv, StartOK, Working, Cur, TasksOf
  <2>2. CASE j \notin del
    BY ZenonT(30), <1>2, <2>1, <2>2 DEF StartAt, Cur
  <2>3. CASE j \in del
    BY ZenonT(30), <2>1, <2>3 DEF StartAt, TaskSteps
  <2> QED
    BY ZenonT(30), <2>2, <2>3
<1>5. \A j \in Job : \A S \in {{"open", "done"}, {"done"}} : Counted(j, S) => Counted(j, S)'
  BY ZenonT(30), <1>2 DEF Counted
<1> QED
  BY ZenonT(30), <1>1, <1>3, <1>4, <1>5

LEMMA TrimmedFinished ==
  ASSUME NEW own PROVE Trimmed(own) \in SUBSET Job /\ \A j \in Trimmed(own) : job[j] = "done"
  BY ZenonT(30) DEF Trimmed

LEMMA HistRunHousekeeping ==
  ASSUME HistInv, RunHousekeeping PROVE Hist'
<1>1. UNCHANGED <<pc, idx>> /\ res' = [res EXCEPT ![HK] = Resolve(hk, TRUE)] /\ HK \in Actor
  BY ZenonT(30) DEF RunHousekeeping, goVars, Actor
<1>2. CASE UNCHANGED <<job, row>>
  BY ZenonT(30), <1>1, <1>2, HistBegin
<1>3. CASE ~UNCHANGED <<job, row>>
  <2> DEFINE del == Trimmed(hk[1])
  <2>1. /\ job' = [j \in Job |-> IF j \in del THEN "trimmed" ELSE job[j]]
        /\ row' = [x \in Task |-> IF x[1] \in del THEN "none" ELSE row[x]]
    BY ZenonT(30), <1>3 DEF RunHousekeeping
  <2>2. del \in SUBSET Job /\ \A j \in del : job[j] = "done"
    BY ZenonT(30), TrimmedFinished
  <2> HIDE DEF del
  <2>3. RowOK' /\ FinishedJobIsComplete' /\ StartOK'
        /\ \A j \in Job : \A S \in {{"open", "done"}, {"done"}} : Counted(j, S) => Counted(j, S)'
    BY ZenonT(30), <1>1, <2>1, <2>2, HistTrim
  <2>4. res \in [Actor -> Resolving]
    BY ZenonT(30) DEF HistInv, TypeInv, TypeOK
  <2>5. res'[HK].step = "update" /\ \A b \in Actor : b # HK => res'[b] = res[b]
    BY ZenonT(30), <1>1, <2>4 DEF Resolve
  <2>6. CountedBy(HK)'
    BY ZenonT(30), <2>5 DEF CountedBy
  <2> QED
    BY ZenonT(30), <1>1, <2>3, <2>5, <2>6, CountStep DEF Hist
<1> QED
  BY ZenonT(30), <1>2, <1>3

LEMMA HistRestart ==
  ASSUME HistInv, Restart PROVE Hist'
<1>1. UNCHANGED <<job, row, idx>> /\ res' = [a \in Actor |-> Idle]
      /\ pc' = [j \in Job |-> IF pc[j] = "start" THEN "start" ELSE "done"]
  BY ZenonT(30) DEF Restart, dbVars
<1>2. StartOK'
  BY ZenonT(30), <1>1 DEF HistInv, StartOK, StartAt, TaskSteps
<1>3. CountOK'
  BY ZenonT(30), <1>1 DEF CountOK, CountedBy, Idle
<1> QED
  BY ZenonT(30), <1>1, <1>2, <1>3, RowsFrame DEF Hist

-----------------------------------------------------------------------------
LEMMA HistStarter ==
  ASSUME HistInv, NEW j \in Job, Starter(j) PROVE Hist'
  BY ZenonT(30), HistStartSingle, HistCreateJob, HistFinishEmpty, HistReserveNext,
     HistCreateConflict,
     HistCreateTask, HistPick, HistSend, HistSetNode, HistWaitTask DEF Starter

LEMMA HistResolver ==
  ASSUME HistInv, NEW a \in Actor, Resolver(a) \/ ResolveFault(a) PROVE Hist'
<1>1. CASE ResolveFault(a)
  BY ZenonT(30), <1>1, HistReturn DEF ResolveFault, dbVars, goVars
<1> QED
  BY ZenonT(30), <1>1, HistUpdateRow, HistCountTotal, HistCountRemaining, HistFinishJob,
     HistClear DEF Resolver

LEMMA HistConn ==
  ASSUME HistInv, NEW c \in Conn, Connect(c) \/ Drop(c) \/ Reader(c) PROVE Hist'
<1>0. c \in Actor
  BY ZenonT(30) DEF Actor
<1>1. CASE Connect(c) \/ Drop(c) \/ Unregister(c) \/ FailRunning(c)
  BY ZenonT(30), <1>1, HistQuiet DEF Connect, Drop, Unregister, FailRunning, dbVars, goVars
<1>2. ASSUME NEW x \in Task, ReadEvent(c, x) PROVE Hist'
  BY ZenonT(30), <1>2, HistQuiet DEF ReadEvent, hubVars, goVars
<1>3. ASSUME NEW x \in Task, ReadExit(c, x) PROVE Hist'
  BY ZenonT(30), <1>0, <1>3, HistBegin DEF ReadExit, dbVars, goVars
<1>4. CASE FailNext(c)
  <2>1. UNCHANGED <<job, row, pc, idx>>
    BY ZenonT(30), <1>4 DEF FailNext, dbVars, goVars
  <2>2. UNCHANGED res \/ \E x : res' = [res EXCEPT ![c] = Resolve(x, FALSE)]
    BY ZenonT(30), <1>4 DEF FailNext
  <2> QED
    BY ZenonT(30), <1>0, <2>1, <2>2, HistQuiet, HistBegin
<1> QED
  BY ZenonT(30), <1>1, <1>2, <1>3, <1>4 DEF Reader

LEMMA HistNext ==
  ASSUME HistInv, [Next]_vars PROVE HistInv'
<1>1. TypeInv'
  BY ZenonT(30), TypeNext DEF HistInv
<1>2. Hist'
  <2>1. CASE UNCHANGED vars
    BY ZenonT(30), <2>1, HistQuiet DEF vars, dbVars, hubVars, goVars
  <2>2. ASSUME NEW x \in Task, Agent(x) PROVE Hist'
    BY ZenonT(30), <2>2, HistQuiet DEF Agent, AgentStart, AgentExit, dbVars, hubVars, goVars
  <2> QED
    BY ZenonT(30), <2>1, <2>2, HistStarter, HistResolver, HistConn, HistRunHousekeeping,
       HistRestart DEF Next
<1> QED
  BY ZenonT(30), <1>1, <1>2 DEF HistInv, Hist

LEMMA HistInvariant == Spec => []HistInv
<1>1. HistInv /\ [Next]_vars => HistInv'
  BY ZenonT(30), HistNext
<1> QED
  BY <1>1, HistInit, PTL DEF Spec

\* resolveTask sets a job's finished_at only when every expected task row
\* exists and is finished, for every plan, schedule and number of faults.
THEOREM JobsFinishComplete == Spec => []FinishedJobIsComplete
<1>1. HistInv => FinishedJobIsComplete
  BY ZenonT(30) DEF HistInv
<1> QED
  BY <1>1, HistInvariant, PTL

-----------------------------------------------------------------------------
(* The rows implement the lifecycle: one abstract step per write.          *)

LEMMA LifecycleTasks ==
  Lifecycle!Task = Task /\ \A j \in Job : Lifecycle!TasksOf(j) = TasksOf(j)
  BY ZenonT(30) DEF Lifecycle!Task, Lifecycle!TasksOf, Task, TasksOf

LEMMA LifecycleInit == Init => Lifecycle!Init
  BY ZenonT(30), LifecycleTasks DEF Init, Lifecycle!Init

LEMMA LifecycleStarter ==
  ASSUME HistInv, NEW j \in Job, Starter(j)
  PROVE  Lifecycle!Next \/ UNCHANGED <<job, row>>
<1>1. StartAt(j)
  BY ZenonT(30) DEF HistInv, StartOK
<1>2. CASE StartSingle(j) \/ ReserveNext(j) \/ Pick(j) \/ Send(j) \/ SetNode(j) \/ WaitTask(j)
  BY ZenonT(30), <1>2 DEF StartSingle, ReserveNext, Pick, Send, SetNode, WaitTask, dbVars
<1>3. CASE CreateJob(j)
  <2>1. job[j] = "none" /\ UNCHANGED row
    BY ZenonT(30), <1>1, <1>3 DEF CreateJob, StartAt
  <2>2. UNCHANGED job \/ job' = [job EXCEPT ![j] = "open"]
    BY ZenonT(30), <1>3 DEF CreateJob, NewJobRow
  <2> QED
    BY ZenonT(30), <2>1, <2>2 DEF Lifecycle!Next, Lifecycle!CreateJob
<1>4. CASE FinishEmpty(j)
  <2>1. job[j] = "open" /\ TasksOf(j) = {} /\ UNCHANGED row
    BY <1>1, <1>4, SMTT(60) DEF FinishEmpty, StartAt, TasksOf
  <2>2. UNCHANGED job \/ job' = [job EXCEPT ![j] = "done"]
    BY ZenonT(30), <1>4 DEF FinishEmpty
  <2> QED
    BY ZenonT(30), <2>1, <2>2, LifecycleTasks DEF Lifecycle!Next, Lifecycle!FinishJob
<1>5. CASE CreateConflict(j) \/ CreateTask(j)
  <2>1. pc[j] \in {"conflict", "createTask"} /\ UNCHANGED job
    BY ZenonT(30), <1>5 DEF CreateConflict, CreateTask
  <2>2. Cur(j) \in Task /\ Cur(j)[1] = j /\ job[j] = "open" /\ row[Cur(j)] = "none"
    BY ZenonT(30), <1>1, <2>1, StartTasks DEF HistInv, Working, StartAt, Cur
  <2>3. UNCHANGED row \/ row' = [row EXCEPT ![Cur(j)] = "open"]
    BY ZenonT(30), <1>5 DEF CreateConflict, CreateTask, NewRow
  <2>4. CASE row' = [row EXCEPT ![Cur(j)] = "open"]
    <3>1. Lifecycle!AddTask(Cur(j))
      BY ZenonT(30), <2>1, <2>2, <2>4 DEF Lifecycle!AddTask
    <3> QED
      BY ZenonT(30), <2>2, <3>1, LifecycleTasks DEF Lifecycle!Next
  <2> QED
    BY ZenonT(30), <2>1, <2>3, <2>4
<1> QED
  BY ZenonT(30), <1>2, <1>3, <1>4, <1>5 DEF Starter

LEMMA LifecycleResolver ==
  ASSUME HistInv, NEW a \in Actor, Resolver(a) \/ ResolveFault(a)
  PROVE  Lifecycle!Next \/ UNCHANGED <<job, row>>
<1>1. CASE CountTotal(a) \/ CountRemaining(a) \/ Clear(a) \/ ResolveFault(a)
  BY ZenonT(30), <1>1 DEF CountTotal, CountRemaining, Clear, ResolveFault, dbVars
<1>2. CASE UpdateRow(a)
  <2> DEFINE x == res[a].task
  <2>1. x \in Task /\ UNCHANGED job
    BY <1>2 DEF HistInv, TypeInv, ResOK, Idle, UpdateRow
  <2>2. row \in [Task -> {"none", "open", "done"}]
    BY ZenonT(30) DEF HistInv, TypeInv, TypeOK
  <2>3. CASE row[x] = "open"
    <3>1. Lifecycle!FinishTask(x)
      BY ZenonT(30), <1>2, <2>1, <2>3 DEF UpdateRow, Lifecycle!FinishTask
    <3> QED
      BY ZenonT(30), <2>1, <3>1, LifecycleTasks DEF Lifecycle!Next
  <2>4. CASE row[x] # "open"
    BY <1>2, <2>1, <2>2, <2>4 DEF UpdateRow
  <2> QED
    BY ZenonT(30), <2>3, <2>4
<1>3. CASE FinishJob(a)
  <2> DEFINE i == res[a].task[1]
  <2>1. i \in Job /\ UNCHANGED row
    BY <1>3, TaskFacts, SMTT(60) DEF HistInv, TypeInv, ResOK, Idle, FinishJob
  <2>2. CASE job[i] = "open"
    <3>1. \A x \in TasksOf(i) : row[x] = "done"
      BY ZenonT(30), <1>3, <2>2 DEF HistInv, CountOK, CountedBy, Counted, FinishJob
    <3>2. Lifecycle!FinishJob(i)
      BY ZenonT(30), <1>3, <2>1, <2>2, <3>1, LifecycleTasks DEF FinishJob, Lifecycle!FinishJob
    <3> QED
      BY ZenonT(30), <2>1, <3>2 DEF Lifecycle!Next
  <2>3. CASE job[i] # "open"
    BY ZenonT(30), <1>3, <2>1, <2>3 DEF FinishJob
  <2> QED
    BY ZenonT(30), <2>2, <2>3
<1> QED
  BY ZenonT(30), <1>1, <1>2, <1>3 DEF Resolver

LEMMA LifecycleHousekeeping ==
  ASSUME RunHousekeeping PROVE Lifecycle!Next \/ UNCHANGED <<job, row>>
<1> DEFINE del == Trimmed(hk[1])
<1>1. \/ UNCHANGED <<job, row>>
      \/ /\ job' = [j \in Job |-> IF j \in del THEN "trimmed" ELSE job[j]]
         /\ row' = [x \in Task |-> IF x[1] \in del THEN "none" ELSE row[x]]
  BY ZenonT(30) DEF RunHousekeeping
<1>2. del \in SUBSET Job /\ \A j \in del : job[j] = "done"
  BY ZenonT(30), TrimmedFinished
<1> HIDE DEF del
<1>3. Lifecycle!Trim(del) \/ UNCHANGED <<job, row>>
  BY ZenonT(30), <1>1, <1>2, LifecycleTasks DEF Lifecycle!Trim
<1> QED
  BY ZenonT(30), <1>2, <1>3 DEF Lifecycle!Next

LEMMA LifecycleStep ==
  ASSUME HistInv, [Next]_vars PROVE [Lifecycle!Next]_<<job, row>>
<1>1. CASE UNCHANGED vars
  BY ZenonT(30), <1>1 DEF vars, dbVars
<1>2. ASSUME NEW c \in Conn, Connect(c) \/ Drop(c) \/ Reader(c) PROVE UNCHANGED <<job, row>>
  BY ZenonT(30), <1>2 DEF Connect, Drop, Reader, ReadEvent, ReadExit, Unregister, FailRunning,
     FailNext, dbVars
<1>3. ASSUME NEW x \in Task, Agent(x) PROVE UNCHANGED <<job, row>>
  BY ZenonT(30), <1>3 DEF Agent, AgentStart, AgentExit, dbVars
<1>4. CASE Restart
  BY ZenonT(30), <1>4 DEF Restart, dbVars
<1> QED
  BY ZenonT(30), <1>1, <1>2, <1>3, <1>4, LifecycleStarter, LifecycleResolver,
     LifecycleHousekeeping DEF Next

\* Whatever goroutines, workers and failures do, the job and task rows only
\* ever take the steps of JobLifecycle.
THEOREM JobHistoryRefines == Spec => ImplementsLifecycle
<1>1. HistInv /\ [Next]_vars => [Lifecycle!Next]_<<job, row>>
  BY ZenonT(30), LifecycleStep
<1> QED
  BY <1>1, LifecycleInit, HistInvariant, PTL DEF Spec, ImplementsLifecycle, Lifecycle!Spec

=============================================================================
