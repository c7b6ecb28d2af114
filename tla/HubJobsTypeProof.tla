--------------------------- MODULE HubJobsTypeProof ---------------------------
(***************************************************************************)
(* Proofs about HubJobs for every set of jobs, plans, nodes, connections   *)
(* and bounds.                                                             *)
(***************************************************************************)
EXTENDS HubJobs, FiniteSetTheorems, TLAPS

\* The steps at which goroutine j works on its current task.
Working == {"createJob", "reserve", "conflict", "createTask", "pick", "send", "setNode", "wait"}

\* The locals of each goroutine name real tasks and connections.
CurOK  == \A j \in Job : Len(Plan[j]) = 0 \/ idx[j] <= Len(Plan[j])
WorkOK == \A j \in Job : pc[j] \in Working => Len(Plan[j]) # 0
ViaOK  == \A j \in Job : pc[j] \in {"send", "setNode"} => via[j] \in Conn
ResOK  == \A a \in Actor : res[a] = Idle \/ (res[a].step # "idle" /\ res[a].task \in Task)

TypeInv == TypeOK /\ CurOK /\ WorkOK /\ ViaOK /\ ResOK

LEMMA TaskFacts ==
    /\ \A x \in Task : x[1] \in Job /\ x[2] \in 1 .. Len(Plan[x[1]]) /\ x = <<x[1], x[2]>>
    /\ \A x \in Task : TargetOf(x) \in Target
    /\ \A j \in Job : Len(Plan[j]) \in Nat
    /\ \A j \in Job : TasksOf(j) \subseteq Task
<1>1. \A j \in Job : Len(Plan[j]) \in Nat
  BY HubJobsAssumption
<1>2. \A x \in Task : x[1] \in Job /\ x[2] \in 1 .. Len(Plan[x[1]]) /\ x = <<x[1], x[2]>>
  BY <1>1 DEF Task
<1>4. \A x \in Task : TargetOf(x) \in Target
  BY <1>2, HubJobsAssumption DEF TargetOf
<1>5. \A j \in Job : TasksOf(j) \subseteq Task
  BY ZenonT(30) DEF Task, TasksOf
<1> QED
  BY ZenonT(30), <1>1, <1>2, <1>4, <1>5

LEMMA CurFacts ==
  ASSUME TypeOK, CurOK, NEW j \in Job, Len(Plan[j]) # 0
  PROVE  Cur(j) \in Task /\ TargetOf(Cur(j)) \in Target
<1>1. idx[j] \in 1 .. Len(Plan[j])
  BY TaskFacts DEF TypeOK, CurOK
<1>2. Cur(j) \in Task
  BY <1>1 DEF Cur, Task
<1> QED
  BY ZenonT(30), <1>2, TaskFacts

LEMMA FaultType == ASSUME TypeInv, Fault PROVE used' \in Spent
  BY DEF TypeInv, TypeOK, Fault, Spent

LEMMA ReleasedType ==
  ASSUME TypeInv, NEW x \in Task PROVE Released(x) \in [Target -> Reservation]
<1>1. running \in [Target -> Reservation] /\ Free \in Reservation
  BY ZenonT(30) DEF TypeInv, TypeOK, Free, Reservation
<1> QED
  BY ZenonT(30), <1>1 DEF Released

\* Where resolveTask starts, moves on and returns.
LEMMA BeginType ==
  ASSUME TypeInv, NEW a \in Actor, NEW x \in Task, NEW b \in BOOLEAN,
         res' = [res EXCEPT ![a] = Resolve(x, b)]
  PROVE  (res \in [Actor -> Resolving])' /\ ResOK'
<1>1. res \in [Actor -> Resolving] /\ ResOK
  BY ZenonT(30) DEF TypeInv, TypeOK
<1>2. Resolve(x, b) \in Resolving /\ Resolve(x, b).step # "idle" /\ Resolve(x, b).task = x
  BY ZenonT(30) DEF Resolve, Resolving
<1> QED
  BY ZenonT(30), <1>1, <1>2 DEF ResOK

LEMMA MoveType ==
  ASSUME TypeInv, NEW a \in Actor, res[a].step # "idle",
         NEW s \in {"total", "remaining", "finish"}, NEW b \in BOOLEAN,
         \/ res' = [res EXCEPT ![a].step = s]
         \/ res' = [res EXCEPT ![a].step = s, ![a].all = b]
  PROVE  (res \in [Actor -> Resolving])' /\ ResOK'
<1>1. res \in [Actor -> Resolving] /\ ResOK
  BY ZenonT(30) DEF TypeInv, TypeOK
<1>2. res[a].task \in Task
  BY <1>1 DEF ResOK, Idle
<1>3. /\ res' = [res EXCEPT ![a] = res'[a]] /\ res'[a] \in Resolving
      /\ res'[a].step = s /\ res'[a].task = res[a].task
  BY <1>1 DEF Resolving
<1> QED
  BY ZenonT(30), <1>1, <1>2, <1>3 DEF ResOK

LEMMA ReturnType ==
  ASSUME TypeInv, NEW a \in Actor, res[a].step # "idle", Return(a)
  PROVE  (res \in [Actor -> Resolving])' /\ ResOK'
<1>1. res \in [Actor -> Resolving] /\ ResOK /\ Idle \in Resolving
  BY ZenonT(30) DEF TypeInv, TypeOK, Idle, Resolving
<1>2. res[a].task \in Task
  BY <1>1 DEF ResOK, Idle
<1>3. CASE res[a].clear
  <2>1. /\ res' = [res EXCEPT ![a] = res'[a]] /\ res'[a] \in Resolving
        /\ res'[a].step = "clear" /\ res'[a].task = res[a].task
    BY ZenonT(30), <1>1, <1>3 DEF Return, Resolving
  <2> QED
    BY ZenonT(30), <1>1, <1>2, <2>1 DEF ResOK
<1>4. CASE ~res[a].clear
  BY ZenonT(30), <1>1, <1>4 DEF Return, ResOK
<1> QED
  BY ZenonT(30), <1>3, <1>4

LEMMA NextTargetType ==
  ASSUME TypeInv, NEW j \in Job, Len(Plan[j]) # 0, NextTarget(j)
  PROVE  (idx \in [Job -> Nat \ {0}])' /\ (pc \in [Job -> Steps])' /\ CurOK' /\ WorkOK'
<1>1. idx \in [Job -> Nat \ {0}] /\ pc \in [Job -> Steps] /\ CurOK /\ WorkOK
  BY ZenonT(30) DEF TypeInv, TypeOK
<1>2. Len(Plan[j]) \in Nat
  BY ZenonT(30), TaskFacts
<1>3. CASE idx[j] < Len(Plan[j])
  <2>1. idx' = [idx EXCEPT ![j] = idx[j] + 1] /\ pc' = [pc EXCEPT ![j] = "reserve"]
    BY ZenonT(30), <1>3 DEF NextTarget, Goto
  <2> QED
    BY <1>1, <1>2, <1>3, <2>1 DEF CurOK, WorkOK, Steps
<1>4. CASE ~(idx[j] < Len(Plan[j]))
  <2>1. idx' = idx /\ pc' = [pc EXCEPT ![j] = "done"]
    BY ZenonT(30), <1>4 DEF NextTarget, Goto
  <2> QED
    BY ZenonT(30), <1>1, <2>1 DEF CurOK, WorkOK, Steps, Working
<1> QED
  BY ZenonT(30), <1>3, <1>4

LEMMA TypeInit == Init => TypeInv
<1> SUFFICES ASSUME Init PROVE TypeInv
  BY ZenonT(30)
<1>1. TypeOK
  BY HubJobsAssumption DEF Init, TypeOK, Free, Idle, Steps, Reservation, Resolving, Spent
<1>2. CurOK
  BY TaskFacts DEF Init, CurOK
<1>3. WorkOK /\ ViaOK /\ ResOK
  BY ZenonT(30) DEF Init, WorkOK, ViaOK, ResOK, Working
<1> QED
  BY ZenonT(30), <1>1, <1>2, <1>3 DEF TypeInv

LEMMA TypeStartSingle ==
  ASSUME TypeInv, NEW j \in Job, StartSingle(j) PROVE TypeInv'
<1>1. running \in [Target -> Reservation]
  BY ZenonT(30) DEF TypeInv, TypeOK
<1>2. pc \in [Job -> Steps]
  BY ZenonT(30) DEF TypeInv, TypeOK
<1>3. Len(Plan[j]) # 0
  BY <1>1, <1>2 DEF TypeInv, StartSingle, WorkOK, Working, Single
<1>4. Cur(j) \in Task /\ TargetOf(Cur(j)) \in Target
  BY ZenonT(30), CurFacts, <1>1, <1>2, <1>3 DEF TypeInv, StartSingle, CurOK, WorkOK, Working
<1>5. (running \in [Target -> Reservation])'
  BY ZenonT(30), <1>1, <1>3, <1>4 DEF StartSingle, Reserve, Free, Reservation
<1>6. (pc \in [Job -> Steps])'
  BY ZenonT(30), <1>2, <1>3, <1>4 DEF StartSingle, Goto, Steps
<1>7. TypeOK'
  BY ZenonT(30), <1>5, <1>6 DEF TypeInv, TypeOK, StartSingle, dbVars, hubVars, goVars, wireVars
<1>8. CurOK'
  BY ZenonT(30) DEF TypeInv, StartSingle, CurOK, dbVars, hubVars, goVars, wireVars
<1>9. WorkOK'
  BY ZenonT(30), <1>2, <1>3, <1>4 DEF TypeInv, StartSingle, WorkOK, Working, Goto, NextTarget,
     FailUnsent
<1>10. ViaOK'
  BY ZenonT(30), <1>2, <1>3, <1>4 DEF TypeInv, StartSingle, ViaOK, Goto, NextTarget, FailUnsent,
     dbVars, hubVars, goVars, wireVars
<1>11. ResOK'
  BY ZenonT(30) DEF TypeInv, StartSingle, ResOK, dbVars, hubVars, goVars, wireVars
<1> QED
  BY ZenonT(30), <1>7, <1>8, <1>9, <1>10, <1>11 DEF TypeInv

LEMMA TypeCreateJob ==
  ASSUME TypeInv, NEW j \in Job, CreateJob(j) PROVE TypeInv'
<1>1. job \in [Job -> {"none", "open", "done", "trimmed"}]
  BY ZenonT(30) DEF TypeInv, TypeOK
<1>2. born \in [Job -> Nat]
  BY ZenonT(30) DEF TypeInv, TypeOK
<1>3. running \in [Target -> Reservation]
  BY ZenonT(30) DEF TypeInv, TypeOK
<1>4. pc \in [Job -> Steps]
  BY ZenonT(30) DEF TypeInv, TypeOK
<1>5. used \in Spent
  BY ZenonT(30) DEF TypeInv, TypeOK
<1>6. Single(j) => Cur(j) \in Task /\ TargetOf(Cur(j)) \in Target
  BY ZenonT(30), CurFacts, <1>1, <1>2, <1>3, <1>4, <1>5
     DEF TypeInv, CreateJob, CurOK, WorkOK, Working, Single
<1>7. (job \in [Job -> {"none", "open", "done", "trimmed"}])'
  BY ZenonT(30), <1>1, <1>6 DEF CreateJob, NewJobRow
<1>8. (born \in [Job -> Nat])'
  <2>1. IsFiniteSet({i \in Job : born[i] # 0})
    BY ZenonT(30), HubJobsAssumption, FS_Subset
  <2>2. Cardinality({i \in Job : born[i] # 0}) \in Nat
    BY ZenonT(30), <2>1, FS_CardinalityType
  <2> QED
    BY <1>2, <2>2 DEF CreateJob, NewJobRow
<1>9. (running \in [Target -> Reservation])'
  BY ZenonT(30), <1>3, <1>6, ReleasedType DEF CreateJob
<1>10. (pc \in [Job -> Steps])'
  BY ZenonT(30), <1>4, <1>6 DEF CreateJob, Goto, Steps
<1>11. (used \in Spent)'
  BY <1>5, <1>6 DEF CreateJob, Fault, Spent
<1>12. TypeOK'
  BY ZenonT(30), <1>7, <1>8, <1>9, <1>10, <1>11
     DEF TypeInv, TypeOK, CreateJob, dbVars, hubVars, goVars, wireVars
<1>13. CurOK'
  BY ZenonT(30) DEF TypeInv, CreateJob, CurOK, dbVars, hubVars, goVars, wireVars
<1>14. WorkOK'
  BY <1>4, <1>6 DEF TypeInv, CreateJob, WorkOK, Working, Goto, NextTarget, FailUnsent
<1>15. ViaOK'
  BY ZenonT(30), <1>4, <1>6 DEF TypeInv, CreateJob, ViaOK, Goto, NextTarget, FailUnsent, dbVars,
     hubVars, goVars, wireVars
<1>16. ResOK'
  BY ZenonT(30) DEF TypeInv, CreateJob, ResOK, dbVars, hubVars, goVars, wireVars
<1> QED
  BY ZenonT(30), <1>12, <1>13, <1>14, <1>15, <1>16 DEF TypeInv

LEMMA TypeFinishEmpty ==
  ASSUME TypeInv, NEW j \in Job, FinishEmpty(j) PROVE TypeInv'
<1>1. job \in [Job -> {"none", "open", "done", "trimmed"}]
  BY ZenonT(30) DEF TypeInv, TypeOK
<1>2. logged \in [Job -> Nat]
  BY ZenonT(30) DEF TypeInv, TypeOK
<1>3. pc \in [Job -> Steps]
  BY ZenonT(30) DEF TypeInv, TypeOK
<1>4. used \in Spent
  BY ZenonT(30) DEF TypeInv, TypeOK
<1>5. (job \in [Job -> {"none", "open", "done", "trimmed"}])'
  BY ZenonT(30), <1>1 DEF FinishEmpty
<1>6. (logged \in [Job -> Nat])'
  BY <1>2 DEF FinishEmpty
<1>7. (pc \in [Job -> Steps])'
  BY ZenonT(30), <1>3 DEF FinishEmpty, Goto, Steps
<1>8. (used \in Spent)'
  BY <1>4 DEF FinishEmpty, Fault, Spent
<1>9. TypeOK'
  BY ZenonT(30), <1>5, <1>6, <1>7, <1>8 DEF TypeInv, TypeOK, FinishEmpty, dbVars, hubVars, goVars,
     wireVars
<1>10. CurOK'
  BY ZenonT(30) DEF TypeInv, FinishEmpty, CurOK, dbVars, hubVars, goVars, wireVars
<1>11. WorkOK'
  BY ZenonT(30), <1>3 DEF TypeInv, FinishEmpty, WorkOK, Working, Goto, NextTarget, FailUnsent
<1>12. ViaOK'
  BY ZenonT(30), <1>3 DEF TypeInv, FinishEmpty, ViaOK, Goto, NextTarget, FailUnsent, dbVars,
     hubVars, goVars, wireVars
<1>13. ResOK'
  BY ZenonT(30) DEF TypeInv, FinishEmpty, ResOK, dbVars, hubVars, goVars, wireVars
<1> QED
  BY ZenonT(30), <1>9, <1>10, <1>11, <1>12, <1>13 DEF TypeInv

LEMMA TypeReserveNext ==
  ASSUME TypeInv, NEW j \in Job, ReserveNext(j) PROVE TypeInv'
<1>1. running \in [Target -> Reservation]
  BY ZenonT(30) DEF TypeInv, TypeOK
<1>2. pc \in [Job -> Steps]
  BY ZenonT(30) DEF TypeInv, TypeOK
<1>3. Cur(j) \in Task /\ TargetOf(Cur(j)) \in Target
  BY ZenonT(30), CurFacts, <1>1, <1>2 DEF TypeInv, ReserveNext, CurOK, WorkOK, Working
<1>4. (running \in [Target -> Reservation])'
  BY ZenonT(30), <1>1, <1>3 DEF ReserveNext, Reserve, Free, Reservation
<1>5. (pc \in [Job -> Steps])'
  BY ZenonT(30), <1>2, <1>3 DEF ReserveNext, Goto, Steps
<1>6. TypeOK'
  BY ZenonT(30), <1>4, <1>5 DEF TypeInv, TypeOK, ReserveNext, dbVars, hubVars, goVars, wireVars
<1>7. CurOK'
  BY ZenonT(30) DEF TypeInv, ReserveNext, CurOK, dbVars, hubVars, goVars, wireVars
<1>8. WorkOK'
  BY ZenonT(30), <1>2, <1>3 DEF TypeInv, ReserveNext, WorkOK, Working, Goto, NextTarget, FailUnsent
<1>9. ViaOK'
  BY ZenonT(30), <1>2, <1>3 DEF TypeInv, ReserveNext, ViaOK, Goto, NextTarget, FailUnsent, dbVars,
     hubVars, goVars, wireVars
<1>10. ResOK'
  BY ZenonT(30) DEF TypeInv, ReserveNext, ResOK, dbVars, hubVars, goVars, wireVars
<1> QED
  BY ZenonT(30), <1>6, <1>7, <1>8, <1>9, <1>10 DEF TypeInv

LEMMA TypeCreateConflict ==
  ASSUME TypeInv, NEW j \in Job, CreateConflict(j) PROVE TypeInv'
<1>1. row \in [Task -> {"none", "open", "done"}]
  BY ZenonT(30) DEF TypeInv, TypeOK
<1>2. res \in [Actor -> Resolving]
  BY ZenonT(30) DEF TypeInv, TypeOK
<1>3. pc \in [Job -> Steps]
  BY ZenonT(30) DEF TypeInv, TypeOK
<1>4. idx \in [Job -> Nat \ {0}]
  BY ZenonT(30) DEF TypeInv, TypeOK
<1>5. used \in Spent
  BY ZenonT(30) DEF TypeInv, TypeOK
<1>6. Len(Plan[j]) # 0
  BY ZenonT(30), TaskFacts, <1>1, <1>2, <1>3, <1>4, <1>5
     DEF TypeInv, CreateConflict, CurOK, WorkOK, Working
<1>7. Cur(j) \in Task /\ TargetOf(Cur(j)) \in Target
  BY ZenonT(30), CurFacts, <1>1, <1>2, <1>3, <1>4, <1>5, <1>6
     DEF TypeInv, CreateConflict, CurOK, WorkOK, Working
<1>8. (row \in [Task -> {"none", "open", "done"}])'
  BY ZenonT(30), <1>1, <1>6, <1>7 DEF CreateConflict, NewRow
<1>9. (res \in [Actor -> Resolving])'
  BY ZenonT(30), <1>2, <1>6, <1>7, BeginType DEF CreateConflict, Actor
<1>10. (pc \in [Job -> Steps])'
  BY ZenonT(30), <1>3, <1>6, <1>7 DEF CreateConflict, NextTarget, Goto, Steps
<1>11. (idx \in [Job -> Nat \ {0}])'
  BY ZenonT(30), <1>4, <1>6, NextTargetType DEF CreateConflict
<1>12. (used \in Spent)'
  BY ZenonT(30), <1>5, FaultType DEF CreateConflict
<1>13. TypeOK'
  BY ZenonT(30), <1>8, <1>9, <1>10, <1>11, <1>12
     DEF TypeInv, TypeOK, CreateConflict, dbVars, hubVars, goVars, wireVars
<1>14. CurOK'
  BY ZenonT(30), <1>6, NextTargetType DEF TypeInv, CreateConflict, CurOK
<1>15. WorkOK'
  BY ZenonT(30), <1>3, <1>6, <1>7 DEF TypeInv, CreateConflict, WorkOK, Working, Goto, NextTarget,
     FailUnsent
<1>16. ViaOK'
  BY ZenonT(30), <1>3, <1>6, <1>7 DEF TypeInv, CreateConflict, ViaOK, Goto, NextTarget,
     FailUnsent, dbVars, hubVars, goVars, wireVars
<1>17. ResOK'
  BY ZenonT(30), <1>6, <1>7, BeginType DEF TypeInv, CreateConflict, Actor, ResOK
<1> QED
  BY ZenonT(30), <1>13, <1>14, <1>15, <1>16, <1>17 DEF TypeInv

LEMMA TypeCreateTask ==
  ASSUME TypeInv, NEW j \in Job, CreateTask(j) PROVE TypeInv'
<1>1. row \in [Task -> {"none", "open", "done"}]
  BY ZenonT(30) DEF TypeInv, TypeOK
<1>2. running \in [Target -> Reservation]
  BY ZenonT(30) DEF TypeInv, TypeOK
<1>3. hk \in Task \cup {None}
  BY ZenonT(30) DEF TypeInv, TypeOK
<1>4. pc \in [Job -> Steps]
  BY ZenonT(30) DEF TypeInv, TypeOK
<1>5. used \in Spent
  BY ZenonT(30) DEF TypeInv, TypeOK
<1>6. Cur(j) \in Task /\ TargetOf(Cur(j)) \in Target
  BY ZenonT(30), CurFacts, <1>1, <1>2, <1>3, <1>4, <1>5
     DEF TypeInv, CreateTask, CurOK, WorkOK, Working
<1>7. (row \in [Task -> {"none", "open", "done"}])'
  BY ZenonT(30), <1>1, <1>6 DEF CreateTask, NewRow
<1>8. (running \in [Target -> Reservation])'
  <2>1. Released(Cur(j)) \in [Target -> Reservation]
    BY ZenonT(30), <1>6, ReleasedType
  <2>2. [running EXCEPT ![TargetOf(Cur(j))].pk = TRUE] \in [Target -> Reservation]
    BY ZenonT(30), <1>2, <1>6 DEF Reservation
  <2> QED
    BY ZenonT(30), <1>2, <2>1, <2>2 DEF CreateTask
<1>9. (hk \in Task \cup {None})'
  BY ZenonT(30), <1>3, <1>6 DEF CreateTask
<1>10. (pc \in [Job -> Steps])'
  BY ZenonT(30), <1>4, <1>6 DEF CreateTask, Goto, Steps
<1>11. (used \in Spent)'
  BY <1>5, <1>6 DEF CreateTask, Fault, Spent
<1>12. TypeOK'
  BY ZenonT(30), <1>7, <1>8, <1>9, <1>10, <1>11
     DEF TypeInv, TypeOK, CreateTask, dbVars, hubVars, goVars, wireVars
<1>13. CurOK'
  BY ZenonT(30) DEF TypeInv, CreateTask, CurOK, dbVars, hubVars, goVars, wireVars
<1>14. WorkOK'
  BY ZenonT(30), <1>4, <1>6 DEF TypeInv, CreateTask, WorkOK, Working, Goto, NextTarget, FailUnsent
<1>15. ViaOK'
  BY ZenonT(30), <1>4, <1>6 DEF TypeInv, CreateTask, ViaOK, Goto, NextTarget, FailUnsent, dbVars,
     hubVars, goVars, wireVars
<1>16. ResOK'
  BY ZenonT(30) DEF TypeInv, CreateTask, ResOK, dbVars, hubVars, goVars, wireVars
<1> QED
  BY ZenonT(30), <1>12, <1>13, <1>14, <1>15, <1>16 DEF TypeInv

LEMMA TypePick ==
  ASSUME TypeInv, NEW j \in Job, Pick(j) PROVE TypeInv'
<1>1. via \in [Job -> Conn \cup {None}]
  BY ZenonT(30) DEF TypeInv, TypeOK
<1>2. res \in [Actor -> Resolving]
  BY ZenonT(30) DEF TypeInv, TypeOK
<1>3. pc \in [Job -> Steps]
  BY ZenonT(30) DEF TypeInv, TypeOK
<1>4. conns \in [Node -> Conn \cup {None}]
  BY ZenonT(30) DEF TypeInv, TypeOK
<1>5. Cur(j) \in Task /\ TargetOf(Cur(j)) \in Target
  BY ZenonT(30), CurFacts, <1>1, <1>2, <1>3, <1>4 DEF TypeInv, Pick, CurOK, WorkOK, Working
<1>6. (via \in [Job -> Conn \cup {None}])'
  BY ZenonT(30), <1>1, <1>4, <1>5 DEF Pick
<1>7. (res \in [Actor -> Resolving])'
  BY ZenonT(30), <1>2, <1>5, BeginType DEF Pick, FailUnsent, Actor
<1>8. (pc \in [Job -> Steps])'
  BY ZenonT(30), <1>3, <1>4, <1>5 DEF Pick, FailUnsent, Goto, Steps
<1>9. TypeOK'
  BY ZenonT(30), <1>6, <1>7, <1>8 DEF TypeInv, TypeOK, Pick, dbVars, hubVars, goVars, wireVars
<1>10. CurOK'
  BY ZenonT(30) DEF TypeInv, Pick, CurOK, dbVars, hubVars, goVars, wireVars
<1>11. WorkOK'
  BY ZenonT(30), <1>3, <1>5 DEF TypeInv, Pick, WorkOK, Working, Goto, NextTarget, FailUnsent
<1>12. ViaOK'
  BY ZenonT(30), <1>1, <1>2, <1>3, <1>4, <1>5 DEF TypeInv, Pick, ViaOK, Goto, FailUnsent
<1>13. ResOK'
  BY ZenonT(30), <1>5, BeginType DEF TypeInv, Pick, FailUnsent, Actor, ResOK
<1> QED
  BY ZenonT(30), <1>9, <1>10, <1>11, <1>12, <1>13 DEF TypeInv

LEMMA TypeSend ==
  ASSUME TypeInv, NEW j \in Job, Send(j) PROVE TypeInv'
<1>1. cmd \in [Task -> {"unsent", "queued", "running", "exited", "reported", "dropped"}]
  BY ZenonT(30) DEF TypeInv, TypeOK
<1>2. sentTo \in [Task -> Conn \cup {None}]
  BY ZenonT(30) DEF TypeInv, TypeOK
<1>3. res \in [Actor -> Resolving]
  BY ZenonT(30) DEF TypeInv, TypeOK
<1>4. pc \in [Job -> Steps]
  BY ZenonT(30) DEF TypeInv, TypeOK
<1>5. Cur(j) \in Task /\ TargetOf(Cur(j)) \in Target
  BY ZenonT(30), CurFacts, <1>1, <1>2, <1>3, <1>4 DEF TypeInv, Send, CurOK, WorkOK, Working
<1>6. via[j] \in Conn
  BY ZenonT(30), <1>1, <1>2, <1>3, <1>4, <1>5 DEF TypeInv, Send, WorkOK, Working, ViaOK
<1>7. (cmd \in [Task -> {"unsent", "queued", "running", "exited", "reported", "dropped"}])'
  BY ZenonT(30), <1>1, <1>5, <1>6 DEF Send, wireVars
<1>8. (sentTo \in [Task -> Conn \cup {None}])'
  BY ZenonT(30), <1>2, <1>5, <1>6 DEF Send, wireVars
<1>9. (res \in [Actor -> Resolving])'
  BY ZenonT(30), <1>3, <1>5, <1>6, BeginType DEF Send, FailUnsent, Actor
<1>10. (pc \in [Job -> Steps])'
  BY ZenonT(30), <1>4, <1>5, <1>6 DEF Send, FailUnsent, Goto, Steps
<1>11. TypeOK'
  BY ZenonT(30), <1>7, <1>8, <1>9, <1>10
     DEF TypeInv, TypeOK, Send, dbVars, hubVars, goVars, wireVars
<1>12. CurOK'
  BY ZenonT(30) DEF TypeInv, Send, CurOK, dbVars, hubVars, goVars, wireVars
<1>13. WorkOK'
  BY ZenonT(30), <1>4, <1>5, <1>6 DEF TypeInv, Send, WorkOK, Working, Goto, NextTarget, FailUnsent
<1>14. ViaOK'
  BY ZenonT(30), <1>4, <1>5, <1>6 DEF TypeInv, Send, ViaOK, Goto, NextTarget, FailUnsent, dbVars,
     hubVars, goVars, wireVars
<1>15. ResOK'
  BY ZenonT(30), <1>5, <1>6, BeginType DEF TypeInv, Send, FailUnsent, Actor, ResOK
<1> QED
  BY ZenonT(30), <1>11, <1>12, <1>13, <1>14, <1>15 DEF TypeInv

LEMMA TypeSetNode ==
  ASSUME TypeInv, NEW j \in Job, SetNode(j) PROVE TypeInv'
<1>1. running \in [Target -> Reservation]
  BY ZenonT(30) DEF TypeInv, TypeOK
<1>2. pc \in [Job -> Steps]
  BY ZenonT(30) DEF TypeInv, TypeOK
<1>3. via \in [Job -> Conn \cup {None}]
  BY ZenonT(30) DEF TypeInv, TypeOK
<1>4. Cur(j) \in Task /\ TargetOf(Cur(j)) \in Target
  BY ZenonT(30), CurFacts, <1>1, <1>2, <1>3 DEF TypeInv, SetNode, CurOK, WorkOK, Working
<1>5. via[j] \in Conn
  BY ZenonT(30), <1>1, <1>2, <1>3, <1>4 DEF TypeInv, SetNode, WorkOK, Working, ViaOK
<1>6. (running \in [Target -> Reservation])'
  <2>1. NodeOf[via[j]] \in Node
    BY ZenonT(30), <1>4, <1>5, HubJobsAssumption
  <2>2. [running EXCEPT ![TargetOf(Cur(j))].node = NodeOf[via[j]]] \in [Target -> Reservation]
    BY ZenonT(30), <1>1, <1>4, <1>5, <2>1 DEF Reservation
  <2> QED
    BY ZenonT(30), <1>1, <2>2 DEF SetNode
<1>7. (pc \in [Job -> Steps])'
  BY ZenonT(30), <1>2, <1>3, <1>4, <1>5 DEF SetNode, Goto, Steps
<1>8. TypeOK'
  BY ZenonT(30), <1>6, <1>7 DEF TypeInv, TypeOK, SetNode, dbVars, hubVars, goVars, wireVars
<1>9. CurOK'
  BY ZenonT(30) DEF TypeInv, SetNode, CurOK, dbVars, hubVars, goVars, wireVars
<1>10. WorkOK'
  BY ZenonT(30), <1>2, <1>4, <1>5 DEF TypeInv, SetNode, WorkOK, Working, Goto, NextTarget,
     FailUnsent
<1>11. ViaOK'
  BY ZenonT(30), <1>2, <1>3, <1>4, <1>5 DEF TypeInv, SetNode, ViaOK, Goto, NextTarget, FailUnsent,
     dbVars, hubVars, goVars, wireVars
<1>12. ResOK'
  BY ZenonT(30) DEF TypeInv, SetNode, ResOK, dbVars, hubVars, goVars, wireVars
<1> QED
  BY ZenonT(30), <1>8, <1>9, <1>10, <1>11, <1>12 DEF TypeInv

LEMMA TypeWaitTask ==
  ASSUME TypeInv, NEW j \in Job, WaitTask(j) PROVE TypeInv'
<1>1. pc \in [Job -> Steps]
  BY ZenonT(30) DEF TypeInv, TypeOK
<1>2. idx \in [Job -> Nat \ {0}]
  BY ZenonT(30) DEF TypeInv, TypeOK
<1>3. used \in Spent
  BY ZenonT(30) DEF TypeInv, TypeOK
<1>4. Len(Plan[j]) # 0
  BY ZenonT(30), TaskFacts, <1>1, <1>2, <1>3 DEF TypeInv, WaitTask, CurOK, WorkOK, Working
<1>5. Cur(j) \in Task /\ TargetOf(Cur(j)) \in Target
  BY ZenonT(30), CurFacts, <1>1, <1>2, <1>3, <1>4 DEF TypeInv, WaitTask, CurOK, WorkOK, Working
<1>6. (pc \in [Job -> Steps])'
  BY ZenonT(30), <1>1, <1>4, <1>5 DEF WaitTask, NextTarget, Goto, Steps
<1>7. (idx \in [Job -> Nat \ {0}])'
  BY ZenonT(30), <1>2, <1>4, NextTargetType DEF WaitTask
<1>8. (used \in Spent)'
  BY <1>3, <1>4, <1>5 DEF WaitTask, Fault, Spent
<1>9. TypeOK'
  BY ZenonT(30), <1>6, <1>7, <1>8 DEF TypeInv, TypeOK, WaitTask, dbVars, hubVars, goVars, wireVars
<1>10. CurOK'
  BY ZenonT(30), <1>4, NextTargetType DEF TypeInv, WaitTask, CurOK
<1>11. WorkOK'
  BY ZenonT(30), <1>1, <1>4, <1>5 DEF TypeInv, WaitTask, WorkOK, Working, Goto, NextTarget,
     FailUnsent
<1>12. ViaOK'
  BY ZenonT(30), <1>1, <1>4, <1>5 DEF TypeInv, WaitTask, ViaOK, Goto, NextTarget, FailUnsent,
     dbVars, hubVars, goVars, wireVars
<1>13. ResOK'
  BY ZenonT(30) DEF TypeInv, WaitTask, ResOK, dbVars, hubVars, goVars, wireVars
<1> QED
  BY ZenonT(30), <1>9, <1>10, <1>11, <1>12, <1>13 DEF TypeInv

LEMMA TypeResolveFault ==
  ASSUME TypeInv, NEW a \in Actor, ResolveFault(a) PROVE TypeInv'
<1>1. res \in [Actor -> Resolving]
  BY ZenonT(30) DEF TypeInv, TypeOK
<1>2. used \in Spent
  BY ZenonT(30) DEF TypeInv, TypeOK
<1>3. res[a].task \in Task
  BY <1>1, <1>2 DEF TypeInv, ResolveFault, WorkOK, Working, ResOK, Idle
<1>4. (res \in [Actor -> Resolving])'
  BY ZenonT(30), ReturnType, MoveType DEF ResolveFault
<1>5. (used \in Spent)'
  BY <1>2, <1>3 DEF ResolveFault, Fault, Spent
<1>6. TypeOK'
  BY ZenonT(30), <1>4, <1>5 DEF TypeInv, TypeOK, ResolveFault, dbVars, hubVars, goVars, wireVars
<1>7. CurOK'
  BY ZenonT(30) DEF TypeInv, ResolveFault, CurOK, dbVars, hubVars, goVars, wireVars
<1>8. WorkOK'
  BY ZenonT(30) DEF TypeInv, ResolveFault, WorkOK, dbVars, hubVars, goVars, wireVars
<1>9. ViaOK'
  BY ZenonT(30) DEF TypeInv, ResolveFault, ViaOK, dbVars, hubVars, goVars, wireVars
<1>10. ResOK'
  BY ZenonT(30), ReturnType, MoveType DEF ResolveFault
<1> QED
  BY ZenonT(30), <1>6, <1>7, <1>8, <1>9, <1>10 DEF TypeInv

LEMMA TypeUpdateRow ==
  ASSUME TypeInv, NEW a \in Actor, UpdateRow(a) PROVE TypeInv'
<1>1. row \in [Task -> {"none", "open", "done"}]
  BY ZenonT(30) DEF TypeInv, TypeOK
<1>2. res \in [Actor -> Resolving]
  BY ZenonT(30) DEF TypeInv, TypeOK
<1>3. res[a].task \in Task
  BY <1>1, <1>2 DEF TypeInv, UpdateRow, WorkOK, Working, ResOK, Idle
<1>4. (row \in [Task -> {"none", "open", "done"}])'
  BY ZenonT(30), <1>1, <1>3 DEF UpdateRow
<1>5. (res \in [Actor -> Resolving])' /\ ResOK'
  <2>1. CASE row[res[a].task] = "none"
    BY ZenonT(30), <2>1, ReturnType DEF UpdateRow
  <2>2. CASE ~(row[res[a].task] = "none")
    <3> DEFINE s == "total"
               b == TRUE
    <3>1. res[a].step # "idle" /\ s \in {"total", "remaining", "finish"} /\ b \in BOOLEAN
      BY ZenonT(30) DEF UpdateRow
    <3>2. \/ res' = [res EXCEPT ![a].step = s]
          \/ res' = [res EXCEPT ![a].step = s, ![a].all = b]
      BY ZenonT(30), <2>2 DEF UpdateRow
    <3> HIDE DEF s, b
    <3> QED
      BY ZenonT(30), <3>1, <3>2, MoveType
  <2> QED
    BY ZenonT(30), <2>1, <2>2
<1>6. TypeOK'
  BY ZenonT(30), <1>4, <1>5 DEF TypeInv, TypeOK, UpdateRow, dbVars, hubVars, goVars, wireVars
<1>7. CurOK'
  BY ZenonT(30) DEF TypeInv, UpdateRow, CurOK, dbVars, hubVars, goVars, wireVars
<1>8. WorkOK'
  BY ZenonT(30) DEF TypeInv, UpdateRow, WorkOK, dbVars, hubVars, goVars, wireVars
<1>9. ViaOK'
  BY ZenonT(30) DEF TypeInv, UpdateRow, ViaOK, dbVars, hubVars, goVars, wireVars
<1>10. ResOK'
  BY ZenonT(30), <1>5
<1> QED
  BY ZenonT(30), <1>6, <1>7, <1>8, <1>9, <1>10 DEF TypeInv

LEMMA TypeCountTotal ==
  ASSUME TypeInv, NEW a \in Actor, CountTotal(a) PROVE TypeInv'
<1>1. res \in [Actor -> Resolving]
  BY ZenonT(30) DEF TypeInv, TypeOK
<1>2. res[a].task \in Task
  BY <1>1 DEF TypeInv, CountTotal, WorkOK, Working, ResOK, Idle
<1>3. (res \in [Actor -> Resolving])' /\ ResOK'
  <2>1. CASE job[res[a].task[1]] = "trimmed"
    BY ZenonT(30), <2>1, ReturnType DEF CountTotal
  <2>2. CASE ~(job[res[a].task[1]] = "trimmed")
    <3> DEFINE s == "remaining"
               b == RowCount(res[a].task[1]) >= Len(Plan[res[a].task[1]])
    <3>1. res[a].step # "idle" /\ s \in {"total", "remaining", "finish"} /\ b \in BOOLEAN
      BY DEF CountTotal
    <3>2. \/ res' = [res EXCEPT ![a].step = s]
          \/ res' = [res EXCEPT ![a].step = s, ![a].all = b]
      BY ZenonT(30), <2>2 DEF CountTotal
    <3> HIDE DEF s, b
    <3> QED
      BY ZenonT(30), <3>1, <3>2, MoveType
  <2> QED
    BY ZenonT(30), <2>1, <2>2
<1>4. TypeOK'
  BY ZenonT(30), <1>3 DEF TypeInv, TypeOK, CountTotal, dbVars, hubVars, goVars, wireVars
<1>5. CurOK'
  BY ZenonT(30) DEF TypeInv, CountTotal, CurOK, dbVars, hubVars, goVars, wireVars
<1>6. WorkOK'
  BY ZenonT(30) DEF TypeInv, CountTotal, WorkOK, dbVars, hubVars, goVars, wireVars
<1>7. ViaOK'
  BY ZenonT(30) DEF TypeInv, CountTotal, ViaOK, dbVars, hubVars, goVars, wireVars
<1>8. ResOK'
  BY ZenonT(30), <1>3
<1> QED
  BY ZenonT(30), <1>4, <1>5, <1>6, <1>7, <1>8 DEF TypeInv

LEMMA TypeCountRemaining ==
  ASSUME TypeInv, NEW a \in Actor, CountRemaining(a) PROVE TypeInv'
<1>1. res \in [Actor -> Resolving]
  BY ZenonT(30) DEF TypeInv, TypeOK
<1>2. res[a].task \in Task
  BY <1>1 DEF TypeInv, CountRemaining, WorkOK, Working, ResOK, Idle
<1>3. (res \in [Actor -> Resolving])' /\ ResOK'
  <2>1. CASE ~(OpenCount(res[a].task[1]) = 0 /\ res[a].all)
    BY ZenonT(30), <2>1, ReturnType DEF CountRemaining
  <2>2. CASE ~(~(OpenCount(res[a].task[1]) = 0 /\ res[a].all))
    <3> DEFINE s == "finish"
               b == TRUE
    <3>1. res[a].step # "idle" /\ s \in {"total", "remaining", "finish"} /\ b \in BOOLEAN
      BY ZenonT(30) DEF CountRemaining
    <3>2. \/ res' = [res EXCEPT ![a].step = s]
          \/ res' = [res EXCEPT ![a].step = s, ![a].all = b]
      BY ZenonT(30), <2>2 DEF CountRemaining
    <3> HIDE DEF s, b
    <3> QED
      BY ZenonT(30), <3>1, <3>2, MoveType
  <2> QED
    BY ZenonT(30), <2>1, <2>2
<1>4. TypeOK'
  BY ZenonT(30), <1>3 DEF TypeInv, TypeOK, CountRemaining, dbVars, hubVars, goVars, wireVars
<1>5. CurOK'
  BY ZenonT(30) DEF TypeInv, CountRemaining, CurOK, dbVars, hubVars, goVars, wireVars
<1>6. WorkOK'
  BY ZenonT(30) DEF TypeInv, CountRemaining, WorkOK, dbVars, hubVars, goVars, wireVars
<1>7. ViaOK'
  BY ZenonT(30) DEF TypeInv, CountRemaining, ViaOK, dbVars, hubVars, goVars, wireVars
<1>8. ResOK'
  BY ZenonT(30), <1>3
<1> QED
  BY ZenonT(30), <1>4, <1>5, <1>6, <1>7, <1>8 DEF TypeInv

LEMMA TypeFinishJob ==
  ASSUME TypeInv, NEW a \in Actor, FinishJob(a) PROVE TypeInv'
<1>1. job \in [Job -> {"none", "open", "done", "trimmed"}]
  BY ZenonT(30) DEF TypeInv, TypeOK
<1>2. logged \in [Job -> Nat]
  BY ZenonT(30) DEF TypeInv, TypeOK
<1>3. res \in [Actor -> Resolving]
  BY ZenonT(30) DEF TypeInv, TypeOK
<1>4. res[a].task \in Task
  BY <1>1, <1>2, <1>3, SMTT(60) DEF TypeInv, FinishJob, WorkOK, Working, ResOK, Idle
<1>5. res[a].task[1] \in Job
  BY ZenonT(30), TaskFacts, <1>1, <1>2, <1>3, <1>4 DEF TypeInv, FinishJob, CurOK, WorkOK, Working
<1>6. (job \in [Job -> {"none", "open", "done", "trimmed"}])'
  BY ZenonT(30), <1>1, <1>4, <1>5 DEF FinishJob
<1>7. (logged \in [Job -> Nat])'
  BY <1>2, <1>4, <1>5 DEF FinishJob
<1>8. (res \in [Actor -> Resolving])'
  BY ZenonT(30), ReturnType, MoveType DEF FinishJob
<1>9. TypeOK'
  BY ZenonT(30), <1>6, <1>7, <1>8 DEF TypeInv, TypeOK, FinishJob, dbVars, hubVars, goVars, wireVars
<1>10. CurOK'
  BY ZenonT(30) DEF TypeInv, FinishJob, CurOK, dbVars, hubVars, goVars, wireVars
<1>11. WorkOK'
  BY ZenonT(30) DEF TypeInv, FinishJob, WorkOK, dbVars, hubVars, goVars, wireVars
<1>12. ViaOK'
  BY ZenonT(30) DEF TypeInv, FinishJob, ViaOK, dbVars, hubVars, goVars, wireVars
<1>13. ResOK'
  BY ZenonT(30), ReturnType, MoveType DEF FinishJob
<1> QED
  BY ZenonT(30), <1>9, <1>10, <1>11, <1>12, <1>13 DEF TypeInv

LEMMA TypeClear ==
  ASSUME TypeInv, NEW a \in Actor, Clear(a) PROVE TypeInv'
<1>1. running \in [Target -> Reservation]
  BY ZenonT(30) DEF TypeInv, TypeOK
<1>2. res \in [Actor -> Resolving]
  BY ZenonT(30) DEF TypeInv, TypeOK
<1>3. res[a].task \in Task
  BY <1>1, <1>2 DEF TypeInv, Clear, WorkOK, Working, ResOK, Idle
<1>4. TargetOf(res[a].task) \in Target
  BY ZenonT(30), TaskFacts, <1>1, <1>2, <1>3 DEF TypeInv, Clear, CurOK, WorkOK, Working
<1>5. (running \in [Target -> Reservation])'
  BY ZenonT(30), <1>1, <1>3, <1>4 DEF Clear, Released, Free, Reservation
<1>6. (res \in [Actor -> Resolving])'
  BY ZenonT(30), <1>2, <1>3, <1>4 DEF Clear, Idle, Resolving
<1>7. TypeOK'
  BY ZenonT(30), <1>5, <1>6 DEF TypeInv, TypeOK, Clear, dbVars, hubVars, goVars, wireVars
<1>8. CurOK'
  BY ZenonT(30) DEF TypeInv, Clear, CurOK, dbVars, hubVars, goVars, wireVars
<1>9. WorkOK'
  BY ZenonT(30) DEF TypeInv, Clear, WorkOK, dbVars, hubVars, goVars, wireVars
<1>10. ViaOK'
  BY ZenonT(30) DEF TypeInv, Clear, ViaOK, dbVars, hubVars, goVars, wireVars
<1>11. ResOK'
  BY ZenonT(30), <1>2, <1>3, <1>4 DEF TypeInv, Clear, ResOK, Idle, Return, Resolve, FailUnsent
<1> QED
  BY ZenonT(30), <1>7, <1>8, <1>9, <1>10, <1>11 DEF TypeInv

LEMMA TypeConnect ==
  ASSUME TypeInv, NEW c \in Conn, Connect(c) PROVE TypeInv'
<1>1. link \in [Conn -> {"new", "up", "broken", "removed", "failing", "gone"}]
  BY ZenonT(30) DEF TypeInv, TypeOK
<1>2. conns \in [Node -> Conn \cup {None}]
  BY ZenonT(30) DEF TypeInv, TypeOK
<1>3. NodeOf[c] \in Node
  BY ZenonT(30), HubJobsAssumption, <1>1, <1>2 DEF TypeInv, Connect, CurOK, WorkOK, Working
<1>4. (link \in [Conn -> {"new", "up", "broken", "removed", "failing", "gone"}])'
  BY ZenonT(30), <1>1, <1>3 DEF Connect
<1>5. (conns \in [Node -> Conn \cup {None}])'
  BY ZenonT(30), <1>2, <1>3 DEF Connect
<1>6. TypeOK'
  BY ZenonT(30), <1>4, <1>5 DEF TypeInv, TypeOK, Connect, dbVars, hubVars, goVars, wireVars
<1>7. CurOK'
  BY ZenonT(30) DEF TypeInv, Connect, CurOK, dbVars, hubVars, goVars, wireVars
<1>8. WorkOK'
  BY ZenonT(30) DEF TypeInv, Connect, WorkOK, dbVars, hubVars, goVars, wireVars
<1>9. ViaOK'
  BY ZenonT(30) DEF TypeInv, Connect, ViaOK, dbVars, hubVars, goVars, wireVars
<1>10. ResOK'
  BY ZenonT(30) DEF TypeInv, Connect, ResOK, dbVars, hubVars, goVars, wireVars
<1> QED
  BY ZenonT(30), <1>6, <1>7, <1>8, <1>9, <1>10 DEF TypeInv

LEMMA TypeDrop ==
  ASSUME TypeInv, NEW c \in Conn, Drop(c) PROVE TypeInv'
<1>1. link \in [Conn -> {"new", "up", "broken", "removed", "failing", "gone"}]
  BY ZenonT(30) DEF TypeInv, TypeOK
<1>2. used \in Spent
  BY ZenonT(30) DEF TypeInv, TypeOK
<1>3. (link \in [Conn -> {"new", "up", "broken", "removed", "failing", "gone"}])'
  BY ZenonT(30), <1>1 DEF Drop
<1>4. (used \in Spent)'
  BY <1>2 DEF Drop, Spent
<1>5. TypeOK'
  BY ZenonT(30), <1>3, <1>4 DEF TypeInv, TypeOK, Drop, dbVars, hubVars, goVars, wireVars
<1>6. CurOK'
  BY ZenonT(30) DEF TypeInv, Drop, CurOK, dbVars, hubVars, goVars, wireVars
<1>7. WorkOK'
  BY ZenonT(30) DEF TypeInv, Drop, WorkOK, dbVars, hubVars, goVars, wireVars
<1>8. ViaOK'
  BY ZenonT(30) DEF TypeInv, Drop, ViaOK, dbVars, hubVars, goVars, wireVars
<1>9. ResOK'
  BY ZenonT(30) DEF TypeInv, Drop, ResOK, dbVars, hubVars, goVars, wireVars
<1> QED
  BY ZenonT(30), <1>5, <1>6, <1>7, <1>8, <1>9 DEF TypeInv

LEMMA TypeReadEvent ==
  ASSUME TypeInv, NEW c \in Conn, NEW x \in Task, ReadEvent(c, x) PROVE TypeInv'
<1>1. ev \in [Task -> {"none", "attached", "orphan"}]
  BY ZenonT(30) DEF TypeInv, TypeOK
<1>2. (ev \in [Task -> {"none", "attached", "orphan"}])'
  BY ZenonT(30), <1>1 DEF ReadEvent
<1>3. TypeOK'
  BY ZenonT(30), <1>2 DEF TypeInv, TypeOK, ReadEvent, dbVars, hubVars, goVars, wireVars
<1>4. CurOK'
  BY ZenonT(30) DEF TypeInv, ReadEvent, CurOK, dbVars, hubVars, goVars, wireVars
<1>5. WorkOK'
  BY ZenonT(30) DEF TypeInv, ReadEvent, WorkOK, dbVars, hubVars, goVars, wireVars
<1>6. ViaOK'
  BY ZenonT(30) DEF TypeInv, ReadEvent, ViaOK, dbVars, hubVars, goVars, wireVars
<1>7. ResOK'
  BY ZenonT(30) DEF TypeInv, ReadEvent, ResOK, dbVars, hubVars, goVars, wireVars
<1> QED
  BY ZenonT(30), <1>3, <1>4, <1>5, <1>6, <1>7 DEF TypeInv

LEMMA TypeReadExit ==
  ASSUME TypeInv, NEW c \in Conn, NEW x \in Task, ReadExit(c, x) PROVE TypeInv'
<1>1. cmd \in [Task -> {"unsent", "queued", "running", "exited", "reported", "dropped"}]
  BY ZenonT(30) DEF TypeInv, TypeOK
<1>2. res \in [Actor -> Resolving]
  BY ZenonT(30) DEF TypeInv, TypeOK
<1>3. c \in Actor
  BY ZenonT(30), <1>1, <1>2 DEF TypeInv, ReadExit, WorkOK, Working, Actor
<1>4. (cmd \in [Task -> {"unsent", "queued", "running", "exited", "reported", "dropped"}])'
  BY ZenonT(30), <1>1, <1>3 DEF ReadExit
<1>5. (res \in [Actor -> Resolving])'
  BY ZenonT(30), <1>2, <1>3 DEF ReadExit, Resolve, Resolving
<1>6. TypeOK'
  BY ZenonT(30), <1>4, <1>5 DEF TypeInv, TypeOK, ReadExit, dbVars, hubVars, goVars, wireVars
<1>7. CurOK'
  BY ZenonT(30) DEF TypeInv, ReadExit, CurOK, dbVars, hubVars, goVars, wireVars
<1>8. WorkOK'
  BY ZenonT(30) DEF TypeInv, ReadExit, WorkOK, dbVars, hubVars, goVars, wireVars
<1>9. ViaOK'
  BY ZenonT(30) DEF TypeInv, ReadExit, ViaOK, dbVars, hubVars, goVars, wireVars
<1>10. ResOK'
  BY ZenonT(30), <1>2, <1>3 DEF TypeInv, ReadExit, ResOK, Idle, Return, Resolve, FailUnsent
<1> QED
  BY ZenonT(30), <1>6, <1>7, <1>8, <1>9, <1>10 DEF TypeInv

LEMMA TypeUnregister ==
  ASSUME TypeInv, NEW c \in Conn, Unregister(c) PROVE TypeInv'
<1>1. link \in [Conn -> {"new", "up", "broken", "removed", "failing", "gone"}]
  BY ZenonT(30) DEF TypeInv, TypeOK
<1>2. conns \in [Node -> Conn \cup {None}]
  BY ZenonT(30) DEF TypeInv, TypeOK
<1>3. NodeOf[c] \in Node
  BY ZenonT(30), HubJobsAssumption, <1>1, <1>2 DEF TypeInv, Unregister, CurOK, WorkOK, Working
<1>4. (link \in [Conn -> {"new", "up", "broken", "removed", "failing", "gone"}])'
  BY ZenonT(30), <1>1, <1>3 DEF Unregister
<1>5. (conns \in [Node -> Conn \cup {None}])'
  BY ZenonT(30), <1>2, <1>3 DEF Unregister
<1>6. TypeOK'
  BY ZenonT(30), <1>4, <1>5 DEF TypeInv, TypeOK, Unregister, dbVars, hubVars, goVars, wireVars
<1>7. CurOK'
  BY ZenonT(30) DEF TypeInv, Unregister, CurOK, dbVars, hubVars, goVars, wireVars
<1>8. WorkOK'
  BY ZenonT(30) DEF TypeInv, Unregister, WorkOK, dbVars, hubVars, goVars, wireVars
<1>9. ViaOK'
  BY ZenonT(30) DEF TypeInv, Unregister, ViaOK, dbVars, hubVars, goVars, wireVars
<1>10. ResOK'
  BY ZenonT(30) DEF TypeInv, Unregister, ResOK, dbVars, hubVars, goVars, wireVars
<1> QED
  BY ZenonT(30), <1>6, <1>7, <1>8, <1>9, <1>10 DEF TypeInv

LEMMA TypeFailRunning ==
  ASSUME TypeInv, NEW c \in Conn, FailRunning(c) PROVE TypeInv'
<1>1. stale \in [Conn -> SUBSET Task]
  BY ZenonT(30) DEF TypeInv, TypeOK
<1>2. running \in [Target -> Reservation]
  BY ZenonT(30) DEF TypeInv, TypeOK
<1>3. link \in [Conn -> {"new", "up", "broken", "removed", "failing", "gone"}]
  BY ZenonT(30) DEF TypeInv, TypeOK
<1>4. (stale \in [Conn -> SUBSET Task])'
  BY ZenonT(30), <1>1, <1>2 DEF FailRunning, Reservation
<1>5. (running \in [Target -> Reservation])'
  BY ZenonT(30), <1>2 DEF FailRunning, Free, Reservation
<1>6. (link \in [Conn -> {"new", "up", "broken", "removed", "failing", "gone"}])'
  BY ZenonT(30), <1>3, <1>2 DEF FailRunning
<1>7. TypeOK'
  BY ZenonT(30), <1>4, <1>5, <1>6 DEF TypeInv, TypeOK, FailRunning, dbVars, hubVars, goVars,
     wireVars
<1>8. CurOK'
  BY ZenonT(30) DEF TypeInv, FailRunning, CurOK, dbVars, hubVars, goVars, wireVars
<1>9. WorkOK'
  BY ZenonT(30) DEF TypeInv, FailRunning, WorkOK, dbVars, hubVars, goVars, wireVars
<1>10. ViaOK'
  BY ZenonT(30) DEF TypeInv, FailRunning, ViaOK, dbVars, hubVars, goVars, wireVars
<1>11. ResOK'
  BY ZenonT(30) DEF TypeInv, FailRunning, ResOK, dbVars, hubVars, goVars, wireVars
<1> QED
  BY ZenonT(30), <1>7, <1>8, <1>9, <1>10, <1>11 DEF TypeInv

LEMMA TypeFailNext ==
  ASSUME TypeInv, NEW c \in Conn, FailNext(c) PROVE TypeInv'
<1>1. res \in [Actor -> Resolving]
  BY ZenonT(30) DEF TypeInv, TypeOK
<1>2. stale \in [Conn -> SUBSET Task]
  BY ZenonT(30) DEF TypeInv, TypeOK
<1>3. link \in [Conn -> {"new", "up", "broken", "removed", "failing", "gone"}]
  BY ZenonT(30) DEF TypeInv, TypeOK
<1>4. c \in Actor
  BY ZenonT(30), <1>1, <1>2, <1>3 DEF TypeInv, FailNext, WorkOK, Working, Actor
<1>5. (res \in [Actor -> Resolving])'
  BY ZenonT(30), <1>1, <1>1, <1>2, <1>3, <1>4, BeginType DEF FailNext
<1>6. (stale \in [Conn -> SUBSET Task])'
  BY ZenonT(30), <1>2, <1>4 DEF FailNext
<1>7. (link \in [Conn -> {"new", "up", "broken", "removed", "failing", "gone"}])'
  BY ZenonT(30), <1>3, <1>4 DEF FailNext
<1>8. TypeOK'
  BY ZenonT(30), <1>5, <1>6, <1>7 DEF TypeInv, TypeOK, FailNext, dbVars, hubVars, goVars, wireVars
<1>9. CurOK'
  BY ZenonT(30) DEF TypeInv, FailNext, CurOK, dbVars, hubVars, goVars, wireVars
<1>10. WorkOK'
  BY ZenonT(30) DEF TypeInv, FailNext, WorkOK, dbVars, hubVars, goVars, wireVars
<1>11. ViaOK'
  BY ZenonT(30) DEF TypeInv, FailNext, ViaOK, dbVars, hubVars, goVars, wireVars
<1>12. ResOK'
  BY ZenonT(30), <1>1, <1>2, <1>3, <1>4, BeginType DEF TypeInv, FailNext, ResOK
<1> QED
  BY ZenonT(30), <1>8, <1>9, <1>10, <1>11, <1>12 DEF TypeInv

LEMMA TypeAgentStart ==
  ASSUME TypeInv, NEW x \in Task, AgentStart(x) PROVE TypeInv'
<1>1. cmd \in [Task -> {"unsent", "queued", "running", "exited", "reported", "dropped"}]
  BY ZenonT(30) DEF TypeInv, TypeOK
<1>2. (cmd \in [Task -> {"unsent", "queued", "running", "exited", "reported", "dropped"}])'
  BY ZenonT(30), <1>1 DEF AgentStart
<1>3. TypeOK'
  BY ZenonT(30), <1>2 DEF TypeInv, TypeOK, AgentStart, dbVars, hubVars, goVars, wireVars
<1>4. CurOK'
  BY ZenonT(30) DEF TypeInv, AgentStart, CurOK, dbVars, hubVars, goVars, wireVars
<1>5. WorkOK'
  BY ZenonT(30) DEF TypeInv, AgentStart, WorkOK, dbVars, hubVars, goVars, wireVars
<1>6. ViaOK'
  BY ZenonT(30) DEF TypeInv, AgentStart, ViaOK, dbVars, hubVars, goVars, wireVars
<1>7. ResOK'
  BY ZenonT(30) DEF TypeInv, AgentStart, ResOK, dbVars, hubVars, goVars, wireVars
<1> QED
  BY ZenonT(30), <1>3, <1>4, <1>5, <1>6, <1>7 DEF TypeInv

LEMMA TypeAgentExit ==
  ASSUME TypeInv, NEW x \in Task, AgentExit(x) PROVE TypeInv'
<1>1. cmd \in [Task -> {"unsent", "queued", "running", "exited", "reported", "dropped"}]
  BY ZenonT(30) DEF TypeInv, TypeOK
<1>2. used \in Spent
  BY ZenonT(30) DEF TypeInv, TypeOK
<1>3. (cmd \in [Task -> {"unsent", "queued", "running", "exited", "reported", "dropped"}])'
  BY ZenonT(30), <1>1 DEF AgentExit
<1>4. (used \in Spent)'
  BY <1>2 DEF AgentExit, Spent
<1>5. TypeOK'
  BY ZenonT(30), <1>3, <1>4 DEF TypeInv, TypeOK, AgentExit, dbVars, hubVars, goVars, wireVars
<1>6. CurOK'
  BY ZenonT(30) DEF TypeInv, AgentExit, CurOK, dbVars, hubVars, goVars, wireVars
<1>7. WorkOK'
  BY ZenonT(30) DEF TypeInv, AgentExit, WorkOK, dbVars, hubVars, goVars, wireVars
<1>8. ViaOK'
  BY ZenonT(30) DEF TypeInv, AgentExit, ViaOK, dbVars, hubVars, goVars, wireVars
<1>9. ResOK'
  BY ZenonT(30) DEF TypeInv, AgentExit, ResOK, dbVars, hubVars, goVars, wireVars
<1> QED
  BY ZenonT(30), <1>5, <1>6, <1>7, <1>8, <1>9 DEF TypeInv

LEMMA TypeRunHousekeeping ==
  ASSUME TypeInv, RunHousekeeping PROVE TypeInv'
<1>1. job \in [Job -> {"none", "open", "done", "trimmed"}]
  BY ZenonT(30) DEF TypeInv, TypeOK
<1>2. row \in [Task -> {"none", "open", "done"}]
  BY ZenonT(30) DEF TypeInv, TypeOK
<1>3. ev \in [Task -> {"none", "attached", "orphan"}]
  BY ZenonT(30) DEF TypeInv, TypeOK
<1>4. hk \in Task \cup {None}
  BY ZenonT(30) DEF TypeInv, TypeOK
<1>5. res \in [Actor -> Resolving]
  BY ZenonT(30) DEF TypeInv, TypeOK
<1>6. used \in Spent
  BY ZenonT(30) DEF TypeInv, TypeOK
<1>7. HK \in Actor /\ hk \in Task
  BY ZenonT(30), <1>1, <1>2, <1>3, <1>4, <1>5, <1>6
     DEF TypeInv, RunHousekeeping, WorkOK, Working, Actor
<1>8. (job \in [Job -> {"none", "open", "done", "trimmed"}])'
  BY ZenonT(30), <1>1, <1>4, <1>7 DEF RunHousekeeping, Fault
<1>9. (row \in [Task -> {"none", "open", "done"}])'
  BY ZenonT(30), <1>2, <1>4, <1>7 DEF RunHousekeeping, Fault
<1>10. (ev \in [Task -> {"none", "attached", "orphan"}])'
  BY ZenonT(30), <1>3, <1>4, <1>7 DEF RunHousekeeping, Fault
<1>11. (hk \in Task \cup {None})'
  BY ZenonT(30), <1>4, <1>7 DEF RunHousekeeping
<1>12. (res \in [Actor -> Resolving])'
  BY ZenonT(30), <1>5, <1>4, <1>7 DEF RunHousekeeping, Resolve, Resolving
<1>13. (used \in Spent)'
  BY <1>6, <1>4, <1>7 DEF RunHousekeeping, Fault, Spent
<1>14. TypeOK'
  BY ZenonT(30), <1>8, <1>9, <1>10, <1>11, <1>12, <1>13
     DEF TypeInv, TypeOK, RunHousekeeping, dbVars, hubVars, goVars, wireVars
<1>15. CurOK'
  BY ZenonT(30) DEF TypeInv, RunHousekeeping, CurOK, dbVars, hubVars, goVars, wireVars
<1>16. WorkOK'
  BY ZenonT(30) DEF TypeInv, RunHousekeeping, WorkOK, dbVars, hubVars, goVars, wireVars
<1>17. ViaOK'
  BY ZenonT(30) DEF TypeInv, RunHousekeeping, ViaOK, dbVars, hubVars, goVars, wireVars
<1>18. ResOK'
  BY ZenonT(30), <1>5, <1>7 DEF TypeInv, RunHousekeeping, ResOK, Idle, Return, Resolve, FailUnsent
<1> QED
  BY ZenonT(30), <1>14, <1>15, <1>16, <1>17, <1>18 DEF TypeInv

LEMMA TypeRestart ==
  ASSUME TypeInv, Restart PROVE TypeInv'
<1>1. running \in [Target -> Reservation]
  BY ZenonT(30) DEF TypeInv, TypeOK
<1>2. conns \in [Node -> Conn \cup {None}]
  BY ZenonT(30) DEF TypeInv, TypeOK
<1>3. stale \in [Conn -> SUBSET Task]
  BY ZenonT(30) DEF TypeInv, TypeOK
<1>4. res \in [Actor -> Resolving]
  BY ZenonT(30) DEF TypeInv, TypeOK
<1>5. hk \in Task \cup {None}
  BY ZenonT(30) DEF TypeInv, TypeOK
<1>6. link \in [Conn -> {"new", "up", "broken", "removed", "failing", "gone"}]
  BY ZenonT(30) DEF TypeInv, TypeOK
<1>7. pc \in [Job -> Steps]
  BY ZenonT(30) DEF TypeInv, TypeOK
<1>8. used \in Spent
  BY ZenonT(30) DEF TypeInv, TypeOK
<1>9. (running \in [Target -> Reservation])'
  BY ZenonT(30), <1>1 DEF Restart, Free, Reservation
<1>10. (conns \in [Node -> Conn \cup {None}])'
  BY ZenonT(30), <1>2 DEF Restart
<1>11. (stale \in [Conn -> SUBSET Task])'
  BY ZenonT(30), <1>3 DEF Restart
<1>12. (res \in [Actor -> Resolving])'
  BY ZenonT(30), <1>4 DEF Restart, Idle, Resolving
<1>13. (hk \in Task \cup {None})'
  BY ZenonT(30), <1>5 DEF Restart
<1>14. (link \in [Conn -> {"new", "up", "broken", "removed", "failing", "gone"}])'
  BY ZenonT(30), <1>6 DEF Restart
<1>15. (pc \in [Job -> Steps])'
  BY ZenonT(30), <1>7 DEF Restart, Steps
<1>16. (used \in Spent)'
  BY <1>8 DEF Restart, Spent
<1>17. TypeOK'
  BY ZenonT(30), <1>9, <1>10, <1>11, <1>12, <1>13, <1>14, <1>15, <1>16
     DEF TypeInv, TypeOK, Restart, dbVars, hubVars, goVars, wireVars
<1>18. CurOK'
  BY ZenonT(30) DEF TypeInv, Restart, CurOK, dbVars, hubVars, goVars, wireVars
<1>19. WorkOK'
  BY ZenonT(30), <1>7 DEF TypeInv, Restart, WorkOK, Working, Goto, NextTarget, FailUnsent
<1>20. ViaOK'
  BY ZenonT(30), <1>7 DEF TypeInv, Restart, ViaOK, Goto, NextTarget, FailUnsent, dbVars, hubVars,
     goVars, wireVars
<1>21. ResOK'
  BY ZenonT(30), <1>4 DEF TypeInv, Restart, ResOK, Idle, Return, Resolve, FailUnsent
<1> QED
  BY ZenonT(30), <1>17, <1>18, <1>19, <1>20, <1>21 DEF TypeInv

LEMMA TypeNext == TypeInv /\ [Next]_vars => TypeInv'
<1> SUFFICES ASSUME TypeInv, [Next]_vars PROVE TypeInv'
  BY ZenonT(30)
<1>1. CASE UNCHANGED vars
  BY ZenonT(30), <1>1 DEF TypeInv, TypeOK, CurOK, WorkOK, ViaOK, ResOK, vars, dbVars, hubVars,
     goVars, wireVars
<1>2. ASSUME NEW j \in Job, Starter(j) PROVE TypeInv'
  BY ZenonT(30), <1>2, TypeStartSingle, TypeCreateJob, TypeFinishEmpty, TypeReserveNext,
     TypeCreateConflict,
     TypeCreateTask, TypePick, TypeSend, TypeSetNode, TypeWaitTask DEF Starter
<1>3. ASSUME NEW a \in Actor, Resolver(a) \/ ResolveFault(a) PROVE TypeInv'
  BY ZenonT(30), <1>3, TypeResolveFault, TypeUpdateRow, TypeCountTotal, TypeCountRemaining,
     TypeFinishJob,
     TypeClear DEF Resolver
<1>4. ASSUME NEW c \in Conn, Connect(c) \/ Drop(c) \/ Reader(c) PROVE TypeInv'
  BY ZenonT(30), <1>4, TypeConnect, TypeDrop, TypeReadEvent, TypeReadExit, TypeUnregister,
     TypeFailRunning,
     TypeFailNext DEF Reader
<1>5. ASSUME NEW x \in Task, Agent(x) PROVE TypeInv'
  BY ZenonT(30), <1>5, TypeAgentStart, TypeAgentExit DEF Agent
<1> QED
  BY ZenonT(30), <1>1, <1>2, <1>3, <1>4, <1>5, TypeRunHousekeeping, TypeRestart DEF Next

\* The types and locals are invariant for every instance of the model: the
\* reservation table, the connection table and each goroutine of hub.go only
\* ever hold tasks, nodes and connections of the kind the code gives them.
THEOREM TypeInvariant == Spec => []TypeInv
  BY TypeInit, TypeNext, PTL DEF Spec

\* In particular the type invariant that the runs check.
THEOREM TypeCorrect == Spec => []TypeOK
<1>1. TypeInv => TypeOK
  BY ZenonT(30) DEF TypeInv
<1> QED
  BY <1>1, TypeInvariant, PTL

=============================================================================
