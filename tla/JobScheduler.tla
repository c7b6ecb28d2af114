---------------------------- MODULE JobScheduler ----------------------------
(***************************************************************************)
(* The scheduler of user-defined jobs (jobscheduler/scheduler.go) against  *)
(* operators who create, change and delete its rows                        *)
(* (web/handle_schedule.go), and against a process that may crash between  *)
(* any two steps.  A Tick loads the due rows, and for each of them claims  *)
(* the row with one conditional UPDATE before it starts the job; what it   *)
(* starts is the copy it loaded.  An operator's request reads the clock    *)
(* for NextRunAt some time before it writes the row.                       *)
(***************************************************************************)
EXTENDS Integers

CONSTANTS
    Sched,          \* ids of JobSchedule rows, in order of creation
    Cron,           \* cron expressions
    Activations,    \* Activations[c]: the times at which c fires
    Target,         \* canonical targets
    None,
    MaxTime,        \* bound: the clock
    MaxEdits,       \* bound: operator requests
    MaxCrashes,     \* bound: restarts of the process
    MaxFails,       \* bound: database errors and refused or failed StartJobs
    MaxLate         \* bound: ticks handled later than they were due

ASSUME JobSchedulerAssumption ==
    /\ Sched \subseteq Nat /\ Activations \in [Cron -> SUBSET Nat]
    /\ None \notin Nat
    /\ {MaxTime, MaxEdits, MaxCrashes, MaxFails, MaxLate} \subseteq Nat

VARIABLES
    clock,
    rows,       \* the table: rows[s] is a row or None
    edit,       \* the operator request that has read the clock and not yet written
    now,        \* the time the current Tick was given
    due,        \* rows Tick loaded and fire has not yet finished
    pc,         \* "idle", "fire", "start" (claimed), "record" (StartJob failed)
    claim,      \* what the claim of the first row of due found in the table
    ran,        \* ran[s]: the last job s started, or None
    gen,        \* gen[s]: how often an operator has written s
    used        \* how much of each bound is spent

tick == <<now, due, pc, claim>>
vars == <<clock, rows, edit, tick, ran, gen, used>>

Row == [enabled : BOOLEAN, target : Target, cron : Cron, next : Nat \cup {None},
        err : BOOLEAN, late : BOOLEAN]
Fields == [enabled : BOOLEAN, target : Target, cron : Cron]

\* NextRun: the next activation strictly after `after`; None when robfig/cron
\* finds none within its horizon.
NextRun(c, after) ==
    LET coming == {t \in Activations[c] : t > after}
    IN  IF coming = {} THEN None ELSE CHOOSE t \in coming : \A u \in coming : t <= u

Init ==
    /\ clock = 0 /\ rows = [s \in Sched |-> None] /\ edit = None
    /\ now = 0 /\ due = {} /\ pc = "idle" /\ claim = None
    /\ ran = [s \in Sched |-> None] /\ gen = [s \in Sched |-> 0]
    /\ used = [edits |-> 0, crashes |-> 0, fails |-> 0, late |-> 0]

Spend(what, max) == used[what] < max /\ used' = [used EXCEPT ![what] = @ + 1]

Advance ==
    /\ clock < MaxTime /\ clock' = clock + 1
    /\ UNCHANGED <<rows, edit, tick, ran, gen, used>>

-----------------------------------------------------------------------------
(* Operators.  A request is at most one at a time.                         *)

\* ApiScheduleCreate and ApiScheduleUpdate up to the write: the row exists or
\* not, the fields are valid, and NextRunAt is computed from the clock.
Submit(s, f) ==
    /\ edit = None /\ Spend("edits", MaxEdits)
    /\ f.enabled => NextRun(f.cron, clock) # None
    /\ edit' = [id |-> s, fields |-> f, create |-> rows[s] = None, at |-> clock,
                next |-> IF f.enabled THEN NextRun(f.cron, clock) ELSE None]
    /\ UNCHANGED <<clock, rows, tick, ran, gen>>

\* The INSERT, or the UPDATE of every writable field and of NextRunAt by id.
Write ==
    /\ edit # None /\ edit' = None
    /\ LET s == edit.id
           f == edit.fields
       IN  /\ gen' = [gen EXCEPT ![s] = @ + 1]
           /\ IF edit.create \/ rows[s] # None
              THEN rows' = [rows EXCEPT ![s] =
                     [enabled |-> f.enabled, target |-> f.target, cron |-> f.cron,
                      next |-> edit.next, err |-> IF edit.create THEN FALSE ELSE rows[s].err,
                      late |-> clock > edit.at]]
              ELSE UNCHANGED rows
    /\ UNCHANGED <<clock, tick, ran, used>>

Delete(s) ==
    /\ edit = None /\ rows[s] # None /\ Spend("edits", MaxEdits)
    /\ rows' = [rows EXCEPT ![s] = None] /\ gen' = [gen EXCEPT ![s] = @ + 1]
    /\ UNCHANGED <<clock, edit, tick, ran>>

-----------------------------------------------------------------------------
(* The scheduler.                                                          *)

IsDue(s, t) == rows[s] # None /\ rows[s].enabled /\ rows[s].next # None /\ rows[s].next <= t
Loaded(s) == [id |-> s, target |-> rows[s].target, cron |-> rows[s].cron]

\* The rows of due are fired in the order of their ids.
First == CHOOSE d \in due : \A e \in due : d.id <= e.id

\* Tick(t): the due rows.
Tick(t) ==
    /\ pc = "idle" /\ now' = t /\ pc' = "fire"
    /\ due' = {Loaded(s) : s \in {x \in Sched : IsDue(x, t)}}
    /\ UNCHANGED <<clock, rows, edit, claim, ran, gen>>

TickNow == Tick(clock) /\ UNCHANGED used
\* The ticker buffers one tick while the previous one is being handled.
TickLate == \E t \in now .. clock - 1 : Tick(t) /\ Spend("late", MaxLate)

TickDone ==
    /\ pc = "fire" /\ due = {} /\ pc' = "idle"
    /\ UNCHANGED <<clock, rows, edit, now, due, claim, ran, gen, used>>

\* Mutant of Disable: only the flag is cleared.
DisableOnlyFlag ==
    /\ pc = "fire" /\ due # {} /\ NextRun(First.cron, now) = None
    /\ LET s == First.id
       IN  rows' = IF rows[s] = None THEN rows
                   ELSE [rows EXCEPT ![s].enabled = FALSE, ![s].err = TRUE]
    /\ due' = due \ {First}
    /\ UNCHANGED <<clock, edit, now, pc, claim, ran, gen, used>>

\* fire, no next run: the row is disabled by id, whatever it holds by now.
Disable ==
    /\ pc = "fire" /\ due # {} /\ NextRun(First.cron, now) = None
    /\ LET s == First.id
       IN  rows' = IF rows[s] = None THEN rows
                   ELSE [rows EXCEPT ![s].enabled = FALSE, ![s].err = TRUE, ![s].next = None]
    /\ due' = due \ {First}
    /\ UNCHANGED <<clock, edit, now, pc, claim, ran, gen, used>>

\* Mutant of Claim: the row is claimed by id and flag alone.
ClaimById ==
    /\ pc = "fire" /\ due # {} /\ NextRun(First.cron, now) # None
    /\ LET s == First.id
       IN  IF rows[s] # None /\ rows[s].enabled
           THEN /\ rows' = [rows EXCEPT ![s].next = NextRun(First.cron, now), ![s].err = FALSE]
                /\ claim' = [due |-> rows[s].next, target |-> rows[s].target, late |-> rows[s].late,
                             gen |-> gen[s]]
                /\ pc' = "start" /\ UNCHANGED due
           ELSE due' = due \ {First} /\ UNCHANGED <<rows, claim, pc>>
    /\ UNCHANGED <<clock, edit, now, ran, gen, used>>

\* Mutant of Claim: NextRunAt is left to be advanced once the job has started.
ClaimKeepsNext ==
    /\ pc = "fire" /\ due # {} /\ NextRun(First.cron, now) # None
    /\ LET s == First.id
       IN  IF IsDue(s, now)
           THEN /\ rows' = [rows EXCEPT ![s].err = FALSE]
                /\ claim' = [due |-> rows[s].next, target |-> rows[s].target, late |-> rows[s].late,
                             gen |-> gen[s]]
                /\ pc' = "start" /\ UNCHANGED due
           ELSE due' = due \ {First} /\ UNCHANGED <<rows, claim, pc>>
    /\ UNCHANGED <<clock, edit, now, ran, gen, used>>

\* fire: UPDATE ... WHERE id AND enabled AND next_run_at <= now.
Claim ==
    /\ pc = "fire" /\ due # {} /\ NextRun(First.cron, now) # None
    /\ LET s == First.id
       IN  IF IsDue(s, now)
           THEN /\ rows' = [rows EXCEPT ![s].next = NextRun(First.cron, now), ![s].err = FALSE]
                /\ claim' = [due |-> rows[s].next, target |-> rows[s].target, late |-> rows[s].late,
                             gen |-> gen[s]]
                /\ pc' = "start" /\ UNCHANGED due
           ELSE due' = due \ {First} /\ UNCHANGED <<rows, claim, pc>>
    /\ UNCHANGED <<clock, edit, now, ran, gen, used>>

\* The claim fails in the database: the row stays due for the next Tick.
ClaimError ==
    /\ pc = "fire" /\ due # {} /\ NextRun(First.cron, now) # None
    /\ Spend("fails", MaxFails) /\ due' = due \ {First}
    /\ UNCHANGED <<clock, rows, edit, now, pc, claim, ran, gen>>

\* ResolveTargets and StartJob succeed, with the target that was loaded.
Start ==
    /\ pc = "start" /\ pc' = "fire" /\ due' = due \ {First} /\ claim' = None
    /\ LET s == First.id
       IN  ran' = [ran EXCEPT ![s] = [due |-> claim.due, at |-> now, gen |-> claim.gen,
              target |-> First.target, held |-> claim.target, late |-> claim.late]]
    /\ UNCHANGED <<clock, rows, edit, now, gen, used>>

\* No target is enabled, the target is busy or the hub cannot start the job.
StartFails ==
    /\ pc = "start" /\ Spend("fails", MaxFails) /\ pc' = "record" /\ claim' = None
    /\ UNCHANGED <<clock, rows, edit, now, due, ran, gen>>

RecordError ==
    /\ pc = "record" /\ pc' = "fire" /\ due' = due \ {First}
    /\ LET s == First.id
       IN  rows' = IF rows[s] = None THEN rows ELSE [rows EXCEPT ![s].err = TRUE]
    /\ UNCHANGED <<clock, edit, now, claim, ran, gen, used>>

\* The process dies and is started again; only the table survives.
Crash ==
    /\ Spend("crashes", MaxCrashes)
    /\ edit' = None /\ now' = clock /\ due' = {} /\ pc' = "idle" /\ claim' = None
    /\ UNCHANGED <<clock, rows, ran, gen>>

-----------------------------------------------------------------------------
Fire == Disable \/ Claim \/ Start \/ RecordError \/ TickDone

Next ==
    \/ Advance
    \/ \E s \in Sched : (\E f \in Fields : Submit(s, f)) \/ Delete(s)
    \/ Write \/ TickNow \/ TickLate \/ Fire \/ ClaimError \/ StartFails \/ Crash

Spec == Init /\ [][Next]_vars

\* The ticker goes on ticking, and a Tick that has begun is carried through.
FairSpec == Spec /\ WF_vars(TickNow) /\ WF_vars(Fire)

-----------------------------------------------------------------------------
(* Properties.                                                             *)

Times == 0 .. MaxTime
Edits == [id : Sched, fields : Fields, create : BOOLEAN, at : Times, next : Nat \cup {None}]
Copies == [id : Sched, target : Target, cron : Cron]
Claims == [due : Nat, target : Target, late : BOOLEAN, gen : Nat]
Ran == [due : Nat, at : Times, gen : Nat, target : Target, held : Target, late : BOOLEAN]

\* Every variable keeps its type.
TypeOK ==
    /\ clock \in Times /\ rows \in [Sched -> Row \cup {None}]
    /\ edit \in Edits \cup {None}
    /\ now \in 0 .. clock
    /\ due \subseteq Copies
    /\ pc \in {"idle", "fire", "start", "record"}
    /\ pc \in {"start", "record"} => due # {}
    /\ claim \in Claims \cup {None}
    /\ pc = "start" => claim \in Claims
    /\ ran \in [Sched -> Ran \cup {None}]
    /\ gen \in [Sched -> Nat]
    /\ used \in [edits : 0 .. MaxEdits, crashes : 0 .. MaxCrashes, fails : 0 .. MaxFails,
                 late : 0 .. MaxLate]

\* A row has a NextRunAt exactly while it is enabled, whichever of the
\* operator, the claim and the disabling of a dead cron wrote it last.
EnabledIffNext ==
    \A s \in Sched : rows[s] # None => (rows[s].enabled <=> rows[s].next # None)

\* A restart, a late tick or a failed claim never makes a schedule run twice
\* for one activation: unless an operator wrote the row in between, the
\* activation a run was due for lies after the previous run.
OneRunPerActivation ==
    [][\A s \in Sched :
         /\ ran'[s] # ran[s] /\ ran[s] # None
         /\ ran'[s].gen = ran[s].gen
         => ran'[s].due > ran[s].at]_vars

\* A job runs with the target the row held when it was claimed, although fire
\* uses the copy Tick loaded before: an operator's change moves NextRunAt past
\* the tick, and the claim then finds nothing.  Only a request that took from
\* one clock value to the next to write its row can defeat this.
RunsWhatTheRowHeld ==
    \A s \in Sched : ran[s] # None /\ ~ran[s].late => ran[s].target = ran[s].held

\* Every schedule that is due is served, or stops being due: none is due for ever.
DueIsServed == \A s \in Sched : []<>~IsDue(s, clock)

\* The rows say when they are due exactly while enabled, and what is run is what
\* the row held when it was claimed.
SchedulerSafe == EnabledIffNext /\ RunsWhatTheRowHeld

=============================================================================
