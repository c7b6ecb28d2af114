----------------------------- MODULE NetboxSync -----------------------------
(***************************************************************************)
(* The mirror of NetBox's devices in factum: full sync, delta sync along   *)
(* the NetBox changelog, the sync of one device, the webhooks and the      *)
(* quiet-period queue in front of them (internal/netbox/delta.go,          *)
(* factum2-netbox.go, lock.go, web/handle_netbox.go).                      *)
(*                                                                         *)
(* A device's content is the number of the change that made it, 0 when the *)
(* device does not exist.  NetBox never reuses an id.  A change of an      *)
(* interface or an address is a change of the device it names.             *)
(***************************************************************************)
EXTENDS Integers, FiniteSets, Sequences

CONSTANTS
    Dev,          \* NetBox device ids
    FullMin,      \* deltaFullSyncMin
    FullPercent,  \* deltaFullSyncPercent
    NobodySyncs,       \* no process
    MaxChanges,   \* bound: changes made in NetBox
    MaxNbSyncs,     \* bound: scheduled full syncs and single-device syncs
    MaxNbFaults     \* bound: failing calls, lost webhooks and restarts

VARIABLES
    nbDev,      \* NetBox's devices
    log,     \* its changelog, a sequence of [dev, act]
    hooks,   \* the changes whose webhook is on its way
    mirror,  \* factum's devices
    cursor,  \* netbox_changelog_at/id: last change applied, -1 when unset
    hookQueue,   \* netboxWebhookDebouncer
    lock,    \* who holds netboxSyncMu and the advisory lock
    work,    \* what each process's sync is doing
    nbSyncs, nbFaults

nbvars == <<nbDev, log, hooks>>
nbsyncvars == <<nbDev, log, hooks, mirror, cursor, hookQueue, lock, work, nbSyncs, nbFaults>>

\* factum2-web draining the queue, the scheduled factum2-netbox job, and a
\* request that syncs one device.
Syncer == {"web", "job", "one"}

IdleWork == [at |-> "idle", del |-> {}, todo |-> {}, got |-> [d \in Dev |-> 0], mark |-> -1]

EmptyQueue == [pending |-> {}, armed |-> FALSE, fired |-> {},
               draining |-> FALSE, due |-> FALSE]

\* A mirror that was never filled, or one that is up to date.
NbInit ==
    /\ nbDev = [d \in Dev |-> 0] /\ log = <<>> /\ hooks = {}
    /\ mirror = [d \in Dev |-> 0] /\ cursor \in {-1, 0}
    /\ hookQueue = EmptyQueue /\ lock = NobodySyncs
    /\ work = [p \in Syncer |-> IdleWork] /\ nbSyncs = 0 /\ nbFaults = 0

-----------------------------------------------------------------------------
(* NetBox *)

Logged(d, act) ==
    /\ Len(log) < MaxChanges
    /\ log' = Append(log, [dev |-> d, act |-> act])
    /\ nbDev' = [nbDev EXCEPT ![d] = IF act = "delete" THEN 0 ELSE Len(log) + 1]
    /\ hooks' = hooks \cup {Len(log) + 1}
    /\ UNCHANGED <<mirror, cursor, hookQueue, lock, work, nbSyncs, nbFaults>>

Change(d) ==
    \/ nbDev[d] = 0 /\ (\A i \in DOMAIN log : log[i].dev # d) /\ Logged(d, "create")
    \/ nbDev[d] # 0 /\ Logged(d, "update")
    \/ nbDev[d] # 0 /\ Logged(d, "delete")

-----------------------------------------------------------------------------
(* The quiet-period queue.  A callback that fired is of the current        *)
(* generation, or of an earlier one: then it returns at once.              *)

NextGen(fired) == IF fired = {} THEN {} ELSE {"earlier"}

Armed(q) == [q EXCEPT !.due = FALSE, !.fired = NextGen(@), !.armed = TRUE]

Scheduled(q, key) == Armed([q EXCEPT !.pending = @ \cup {key}])

Cancelled(q, key) ==
    IF key \notin q.pending THEN q
    ELSE IF q.pending = {key}
         THEN [q EXCEPT !.pending = {}, !.armed = FALSE, !.fired = NextGen(@), !.due = FALSE]
         ELSE [q EXCEPT !.pending = @ \ {key}]

\* drainLocked up to run(names): the queue is taken and a sync is wanted, or
\* the drain ends.
Taken(q) ==
    IF q.pending = {} THEN [q EXCEPT !.due = FALSE, !.draining = FALSE]
    ELSE [q EXCEPT !.pending = {}, !.draining = TRUE, !.due = FALSE]

TimerFires ==
    /\ hookQueue.armed
    /\ hookQueue' = [hookQueue EXCEPT !.armed = FALSE, !.fired = @ \cup {"current"}]
    /\ UNCHANGED <<nbvars, mirror, cursor, lock, work, nbSyncs, nbFaults>>

\* Mutant of QuietSince: a batch in progress makes the elapsed window go unnoticed.
QuietForgets(q, g) ==
    LET r == [q EXCEPT !.fired = @ \ {g}]
    IN IF g = "earlier" \/ q.draining THEN r ELSE Taken(r)

\* The callback of generation g; what it does once it holds the mutex.
QuietSince(q, g) ==
    LET r == [q EXCEPT !.fired = @ \ {g}]
    IN IF g = "earlier" THEN r
       ELSE IF q.draining THEN [r EXCEPT !.due = TRUE]
       ELSE Taken(r)

Wants(q) == [IdleWork EXCEPT !.at = IF q.draining THEN "wait" ELSE "idle"]

onQuiet ==
    \E g \in hookQueue.fired :
        /\ hookQueue' = QuietSince(hookQueue, g)
        /\ work' = IF hookQueue.draining THEN work ELSE [work EXCEPT !["web"] = Wants(hookQueue')]
        /\ UNCHANGED <<nbvars, mirror, cursor, lock, nbSyncs, nbFaults>>

-----------------------------------------------------------------------------
(* Webhooks *)

Deliver(i) ==
    /\ i \in hooks
    /\ hooks' = hooks \ {i}
    /\ LET d == log[i].dev
       IN IF log[i].act = "delete"
          THEN /\ hookQueue' = Cancelled(hookQueue, d)
               /\ mirror' = [mirror EXCEPT ![d] = 0]
          ELSE /\ hookQueue' = Scheduled(hookQueue, d)
               /\ UNCHANGED mirror
    /\ UNCHANGED <<nbDev, log, cursor, lock, work, nbSyncs, nbFaults>>

LoseHook(i) ==
    /\ i \in hooks /\ nbFaults < MaxNbFaults
    /\ hooks' = hooks \ {i}
    /\ nbFaults' = nbFaults + 1
    /\ UNCHANGED <<nbDev, log, mirror, cursor, hookQueue, lock, work, nbSyncs>>

-----------------------------------------------------------------------------
(* The syncs.  A process's work goes through wait (for the lock), then     *)
(* delta: list, delete, fetch, write, save; full: head, walk, write, sweep,*)
(* save; one: fetch, write.                                                *)

SetWork(p, w) == work' = [work EXCEPT ![p] = w]

\* The scheduled job starts a delta; "full" asks for a full sync and "one" for
\* the sync of one device.
StartNb(p, kind) ==
    /\ work[p].at = "idle"
    /\ \/ p = "job" /\ kind = "wait" /\ UNCHANGED nbSyncs
       \/ p = "job" /\ kind = "waitfull" /\ nbSyncs < MaxNbSyncs /\ nbSyncs' = nbSyncs + 1
       \/ p = "one" /\ kind = "waitone" /\ nbSyncs < MaxNbSyncs /\ nbSyncs' = nbSyncs + 1
    /\ IF kind = "waitone" THEN \E d \in Dev : SetWork(p, [IdleWork EXCEPT !.at = kind, !.todo = {d}])
       ELSE SetWork(p, [IdleWork EXCEPT !.at = kind])
    /\ UNCHANGED <<nbvars, mirror, cursor, hookQueue, lock, nbFaults>>

\* Mutant of MayLock: the sync of one device does not take the lock.
MayLockOne(p) == lock = NobodySyncs \/ p = "one"

MayLock(p) == lock = NobodySyncs

Lock(p) ==
    /\ work[p].at \in {"wait", "waitfull", "waitone"} /\ MayLock(p)
    /\ lock' = p
    /\ SetWork(p, [work[p] EXCEPT !.at = CASE work[p].at = "wait" -> "list"
                                       [] work[p].at = "waitfull" -> "head"
                                       [] work[p].at = "waitone" -> "onefetch"])
    /\ UNCHANGED <<nbvars, mirror, cursor, hookQueue, nbSyncs, nbFaults>>

\* The sync returns and the lock is released.  In factum2-web the drain then
\* takes what became due, or ends.
Ended(p) ==
    /\ lock' = IF lock = p THEN NobodySyncs ELSE lock
    /\ hookQueue' = IF p # "web" THEN hookQueue
                ELSE IF hookQueue.due THEN Taken(hookQueue) ELSE [hookQueue EXCEPT !.draining = FALSE]
    /\ SetWork(p, IF p = "web" THEN Wants(hookQueue') ELSE IdleWork)

Fresh == {i \in DOMAIN log : i > cursor}
LastOf(d) == CHOOSE i \in Fresh : log[i].dev = d /\ \A j \in Fresh : log[j].dev = d => j <= i
Touched == {log[i].dev : i \in Fresh}

preferFullSync(pending, known) ==
    pending >= FullMin /\ (known <= 0 \/ pending * 100 >= known * FullPercent)

KnownHere == Cardinality({d \in Dev : mirror[d] # 0})

\* ObjectChangesSince, newDeltaPlan and the choice of a full sync.
List(p) ==
    LET del == {d \in Touched : log[LastOf(d)].act = "delete"}
        refetch == Touched \ del
    IN /\ work[p].at = "list"
       /\ IF cursor = -1 THEN SetWork(p, [IdleWork EXCEPT !.at = "head"]) /\ UNCHANGED <<lock, hookQueue>>
          ELSE IF Fresh = {} THEN Ended(p)
          ELSE /\ SetWork(p, IF preferFullSync(Cardinality(refetch), KnownHere)
                         THEN [IdleWork EXCEPT !.at = "head"]
                         ELSE [IdleWork EXCEPT !.at = "apply", !.del = del, !.todo = refetch,
                                           !.mark = Len(log)])
               /\ UNCHANGED <<lock, hookQueue>>
       /\ UNCHANGED <<nbvars, mirror, cursor, nbSyncs, nbFaults>>

\* deltaPlan.apply: the deletes first.
ApplyDelete(p) ==
    /\ work[p].at = "apply" /\ work[p].del # {}
    /\ \E d \in work[p].del :
         /\ mirror' = [mirror EXCEPT ![d] = 0]
         /\ SetWork(p, [work[p] EXCEPT !.del = @ \ {d}])
    /\ UNCHANGED <<nbvars, cursor, hookQueue, lock, nbSyncs, nbFaults>>

\* refetchDevice, or the fetch of the one device asked for.
Fetch(p) ==
    /\ work[p].at \in {"apply", "onefetch"} /\ work[p].del = {} /\ work[p].todo # {}
    /\ \E d \in work[p].todo :
         SetWork(p, [work[p] EXCEPT !.at = IF work[p].at = "apply" THEN "store" ELSE "onestore",
                                !.todo = {d}, !.del = work[p].todo \ {d}, !.got[d] = nbDev[d]])
    /\ UNCHANGED <<nbvars, mirror, cursor, hookQueue, lock, nbSyncs, nbFaults>>

\* What it fetched is stored: nothing means the device is deleted here too,
\* except that the sync of one device fails on it.
Store(p) ==
    /\ work[p].at \in {"store", "onestore"}
    /\ \E d \in work[p].todo :
         /\ mirror' = IF work[p].at = "onestore" /\ work[p].got[d] = 0 THEN mirror
                      ELSE [mirror EXCEPT ![d] = work[p].got[d]]
         /\ IF work[p].at = "onestore" THEN Ended(p)
            ELSE /\ SetWork(p, [work[p] EXCEPT !.at = "apply", !.todo = work[p].del, !.del = {},
                                                    !.got = IdleWork.got])
                 /\ UNCHANGED <<hookQueue, lock>>
    /\ UNCHANGED <<nbvars, cursor, nbSyncs, nbFaults>>

\* The delta is applied: the newest change listed becomes the cursor.
SaveDelta(p) ==
    /\ work[p].at = "apply" /\ work[p].del = {} /\ work[p].todo = {}
    /\ cursor' = work[p].mark
    /\ Ended(p)
    /\ UNCHANGED <<nbvars, mirror, nbSyncs, nbFaults>>

\* Full sync: the changelog's head before the walk; without it the cursor is
\* left alone.
ChangelogHead(p) ==
    /\ work[p].at = "head"
    /\ \/ SetWork(p, [work[p] EXCEPT !.at = "walk", !.mark = Len(log)]) /\ UNCHANGED nbFaults
       \/ /\ nbFaults < MaxNbFaults /\ nbFaults' = nbFaults + 1
          /\ SetWork(p, [work[p] EXCEPT !.at = "walk", !.mark = -1])
    /\ UNCHANGED <<nbvars, mirror, cursor, hookQueue, lock, nbSyncs>>

Walk(p) ==
    /\ work[p].at = "walk"
    /\ SetWork(p, [work[p] EXCEPT !.at = "full", !.got = nbDev, !.todo = {d \in Dev : nbDev[d] # 0}])
    /\ UNCHANGED <<nbvars, mirror, cursor, hookQueue, lock, nbSyncs, nbFaults>>

StoreFull(p) ==
    /\ work[p].at = "full" /\ work[p].todo # {}
    /\ \E d \in work[p].todo :
         /\ mirror' = [mirror EXCEPT ![d] = work[p].got[d]]
         /\ SetWork(p, [work[p] EXCEPT !.todo = @ \ {d}])
    /\ UNCHANGED <<nbvars, cursor, hookQueue, lock, nbSyncs, nbFaults>>

\* deleteMissingDevices, then the cursor.
Sweep(p) ==
    /\ work[p].at = "full" /\ work[p].todo = {}
    /\ mirror' = [d \in Dev |-> IF work[p].got[d] = 0 THEN 0 ELSE mirror[d]]
    /\ SetWork(p, [work[p] EXCEPT !.at = "fullsave"])
    /\ UNCHANGED <<nbvars, cursor, hookQueue, lock, nbSyncs, nbFaults>>

SaveFull(p) ==
    /\ work[p].at = "fullsave"
    /\ cursor' = IF work[p].mark = -1 THEN cursor ELSE work[p].mark
    /\ Ended(p)
    /\ UNCHANGED <<nbvars, mirror, nbSyncs, nbFaults>>

\* Mutant of Fail: the cursor is saved all the same.
FailSaved(p) ==
    /\ work[p].at \notin {"idle", "wait", "waitfull", "waitone"} /\ nbFaults < MaxNbFaults
    /\ nbFaults' = nbFaults + 1
    /\ cursor' = IF work[p].mark = -1 THEN cursor ELSE work[p].mark
    /\ Ended(p)
    /\ UNCHANGED <<nbvars, mirror, nbSyncs>>

\* A call fails: the sync returns the error and leaves the cursor.
Fail(p) ==
    /\ work[p].at \notin {"idle", "wait", "waitfull", "waitone"} /\ nbFaults < MaxNbFaults
    /\ nbFaults' = nbFaults + 1
    /\ Ended(p)
    /\ UNCHANGED <<nbvars, mirror, cursor, nbSyncs>>

\* factum2-web or the job is restarted: its connection's lock goes, and with
\* factum2-web the queue.
Restart(p) ==
    /\ nbFaults < MaxNbFaults /\ nbFaults' = nbFaults + 1
    /\ work[p].at # "idle" \/ (p = "web" /\ hookQueue.pending # {})
    /\ IF p = "job"
       THEN /\ work' = [work EXCEPT !["job"] = IdleWork]
            /\ lock' = IF lock = "job" THEN NobodySyncs ELSE lock
            /\ UNCHANGED hookQueue
       ELSE /\ work' = [work EXCEPT !["web"] = IdleWork, !["one"] = IdleWork]
            /\ lock' = IF lock = "job" THEN lock ELSE NobodySyncs
            /\ hookQueue' = EmptyQueue
    /\ UNCHANGED <<nbvars, mirror, cursor, nbSyncs>>

-----------------------------------------------------------------------------

SyncStep(p) ==
    \/ Lock(p) \/ List(p) \/ ApplyDelete(p) \/ Fetch(p) \/ Store(p) \/ SaveDelta(p)
    \/ ChangelogHead(p) \/ Walk(p) \/ StoreFull(p) \/ Sweep(p) \/ SaveFull(p)

NbNext ==
    \/ \E d \in Dev : Change(d)
    \/ \E i \in hooks : Deliver(i) \/ LoseHook(i)
    \/ TimerFires \/ onQuiet
    \/ \E p \in Syncer : \/ \E k \in {"wait", "waitfull", "waitone"} : StartNb(p, k)
                       \/ SyncStep(p) \/ Fail(p) \/ Restart(p)

\* The job runs again and again; calls to NetBox and the database return; a
\* timer that is armed fires.
NbFairness ==
    /\ WF_nbsyncvars(StartNb("job", "wait"))
    /\ \A p \in Syncer : WF_nbsyncvars(SyncStep(p)) /\ SF_nbsyncvars(Lock(p))
    /\ WF_nbsyncvars(TimerFires) /\ WF_nbsyncvars(onQuiet)

NbSpec == NbInit /\ [][NbNext]_nbsyncvars
NbFairSpec == NbSpec /\ NbFairness

-----------------------------------------------------------------------------

NbTypeOK ==
    /\ nbDev \in [Dev -> 0..MaxChanges] /\ mirror \in [Dev -> 0..MaxChanges]
    /\ cursor \in -1..MaxChanges /\ lock \in Syncer \cup {NobodySyncs}
    /\ hooks \subseteq DOMAIN log /\ hookQueue.pending \subseteq Dev

\* "Changes that land during the walk stay after the cursor, so the next delta
\* sync refetches them": between syncs, a device that differs from NetBox's has
\* a change after the cursor, whatever webhooks, failures, restarts and changes
\* came in between (syncDB, syncDeltaDB, withNetboxSyncLock).
CursorCovers ==
    lock = NobodySyncs /\ cursor # -1 =>
        \A d \in Dev : mirror[d] # nbDev[d] => \E i \in Fresh : log[i].dev = d

\* What waits in the quiet-period queue will be run: a timer is armed, or its
\* callback is on the way, or the batch running now will take it
\* (netboxWebhookDebouncer).
QueuedWillRun ==
    hookQueue.pending # {} =>
        hookQueue.armed \/ "current" \in hookQueue.fired \/ (hookQueue.draining /\ hookQueue.due)

\* run "is not called concurrently with itself", and a batch that runs is a sync
\* that factum2-web is doing.
OneBatch == hookQueue.draining <=> work["web"].at # "idle"

\* Once NetBox stays as it is, the scheduled delta makes factum's devices
\* NetBox's, even when every webhook is lost.
Converges == <>[](mirror = nbDev)

\* Nothing NetBox changed is forgotten: it is behind the cursor or in the queue.
NbSafe == NbTypeOK /\ CursorCovers /\ QueuedWillRun /\ OneBatch

=============================================================================
