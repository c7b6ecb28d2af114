---------------------------- MODULE JobLifecycle ----------------------------
(***************************************************************************)
(* What the job history promises its readers (models.Job, models.JobTask): *)
(* a job row is created, gains its task rows, is finished once and only    *)
(* when every task it expects is finished, and only then may be trimmed    *)
(* away together with its tasks.  HubJobs implements this.                 *)
(***************************************************************************)
EXTENDS Integers, Sequences

CONSTANTS
    Job,    \* the jobs
    Size    \* Size[j] = Job.ExpectedTasks

VARIABLES
    job,    \* "none", "open", "done", "trimmed"
    row     \* row[<<j, k>>]: "none", "open", "done"

Task == UNION {{j} \X (1 .. Size[j]) : j \in Job}
TasksOf(j) == {j} \X (1 .. Size[j])

Init ==
    /\ job = [j \in Job |-> "none"]
    /\ row = [x \in Task |-> "none"]

CreateJob(j) ==
    /\ job[j] = "none"
    /\ job' = [job EXCEPT ![j] = "open"]
    /\ UNCHANGED row

AddTask(x) ==
    /\ job[x[1]] = "open" /\ row[x] = "none"
    /\ row' = [row EXCEPT ![x] = "open"]
    /\ UNCHANGED job

FinishTask(x) ==
    /\ row[x] = "open"
    /\ row' = [row EXCEPT ![x] = "done"]
    /\ UNCHANGED job

FinishJob(j) ==
    /\ job[j] = "open"
    /\ \A x \in TasksOf(j) : row[x] = "done"
    /\ job' = [job EXCEPT ![j] = "done"]
    /\ UNCHANGED row

Trim(S) ==
    /\ \A j \in S : job[j] = "done"
    /\ job' = [j \in Job |-> IF j \in S THEN "trimmed" ELSE job[j]]
    /\ row' = [x \in Task |-> IF x[1] \in S THEN "none" ELSE row[x]]

Next ==
    \/ \E j \in Job : CreateJob(j) \/ FinishJob(j)
    \/ \E x \in Task : AddTask(x) \/ FinishTask(x)
    \/ \E S \in SUBSET Job : Trim(S)

Spec == Init /\ [][Next]_<<job, row>>

=============================================================================
