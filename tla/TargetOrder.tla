----------------------------- MODULE TargetOrder -----------------------------
(***************************************************************************)
(* The order in which one job runs its targets (worker/sync_targets.go,    *)
(* jobscheduler/scheduler.go).  A schedule's target list is put into a     *)
(* canonical order when it is saved, and again when it fires; "all" is     *)
(* resolved from the settings when it fires.  Names hold no comma, so a    *)
(* comma-separated list is the sequence of its parts.                      *)
(***************************************************************************)
EXTENDS Integers, Sequences, SequencesExt

CONSTANTS
    Inputs,         \* the lists an operator submits, as sequences of parts
    EnabledSets     \* the sets of targets the settings may enable

HousekeepingTarget == "housekeeping"
NetboxDeltaTarget == "netbox-delta"
TargetAll == "all"

SyncTargets ==
    <<"becs", "netbox", "lime", "librenms", "icinga", "oxidized", "prometheus", "dns",
      "certs", "device-sync">>
sourceSyncTargets == {"becs", "netbox", "lime", "device-sync"}
JobTargets == ToSet(SyncTargets) \cup {HousekeepingTarget, NetboxDeltaTarget}

\* An error; no operation returns an empty list.
Refused == <<>>

IsValidTarget(t) == t = TargetAll \/ t \in JobTargets

SequencedSyncAllTargets(targets) ==
    SelectSeq(targets, LAMBDA t : t \in sourceSyncTargets)
        \o SelectSeq(targets, LAMBDA t : t \notin sourceSyncTargets)

EnabledSyncTargets(enabled) == SelectSeq(SyncTargets, LAMBDA t : t \in enabled)

\* Mutant of SyncOrder: netbox-delta is put last, as before it had a place.
SyncOrderDeltaLast(selected) ==
    SelectSeq(SyncTargets, LAMBDA t : t \in selected)
        \o (IF NetboxDeltaTarget \in selected THEN <<NetboxDeltaTarget>> ELSE <<>>)

\* The loop over SyncTargets: netbox-delta has its place behind netbox,
\* whether or not netbox itself is selected.
SyncOrder(selected) ==
    SelectSeq(<<"becs", "netbox", NetboxDeltaTarget>> \o SubSeq(SyncTargets, 3, Len(SyncTargets)),
              LAMBDA t : t \in selected)

orderTargets(selected) ==
    SequencedSyncAllTargets(SyncOrder(selected))
        \o (IF HousekeepingTarget \in selected THEN <<HousekeepingTarget>> ELSE <<>>)

\* Mutant of CanonicalTarget: "all" swallows what it is combined with.
CanonicalTargetLax(raw) ==
    IF raw = <<>> \/ \E i \in DOMAIN raw : ~IsValidTarget(raw[i]) THEN Refused
    ELSE IF TargetAll \in ToSet(raw) THEN <<TargetAll>>
    ELSE orderTargets(ToSet(raw))

\* splitTarget refuses an empty list and an empty part (never a valid name);
\* duplicates fall away; "all" stands alone.
CanonicalTarget(raw) ==
    IF raw = <<>> \/ \E i \in DOMAIN raw : ~IsValidTarget(raw[i]) THEN Refused
    ELSE IF ToSet(raw) = {TargetAll} THEN <<TargetAll>>
    ELSE IF TargetAll \in ToSet(raw) THEN Refused
    ELSE orderTargets(ToSet(raw))

ResolveTargets(target, enabled) ==
    LET canonical == CanonicalTarget(target)
        all == SequencedSyncAllTargets(EnabledSyncTargets(enabled))
    IN  IF canonical # <<TargetAll>> THEN canonical ELSE IF all = <<>> THEN Refused ELSE all

-----------------------------------------------------------------------------
VARIABLES
    raw,        \* the submitted list
    stored,     \* JobSchedule.Target, or the refusal of the request
    enabled,    \* the *_enabled switches of the settings
    run         \* StartJob's targets, or the error recorded on the row
ordervars == <<raw, stored, enabled, run>>

Pending == <<"pending">>

OrderInit == raw \in Inputs /\ enabled \in EnabledSets /\ stored = Pending /\ run = Pending

SaveTargets ==
    /\ stored = Pending /\ stored' = CanonicalTarget(raw)
    /\ UNCHANGED <<raw, enabled, run>>

\* The switches may have changed since the schedule was saved.
Fire ==
    /\ stored \notin {Pending, Refused} /\ run = Pending
    /\ enabled' \in EnabledSets /\ run' = ResolveTargets(stored, enabled')
    /\ UNCHANGED <<raw, stored>>

OrderNext == SaveTargets \/ Fire
OrderSpec == OrderInit /\ [][OrderNext]_ordervars

-----------------------------------------------------------------------------
(* Properties.                                                             *)

Ran == run \notin {Pending, Refused}
Before(s, t) == \E i, j \in DOMAIN run : i < j /\ run[i] = s /\ run[j] = t

\* A job runs each target that was asked for exactly once, and nothing else;
\* "all" is what the settings enable, without housekeeping and netbox-delta.
RunsWhatWasAsked ==
    Ran => /\ ToSet(run) = IF stored = <<TargetAll>> THEN enabled ELSE ToSet(raw)
           /\ \A i, j \in DOMAIN run : run[i] = run[j] => i = j

\* "A destination sync never races a source sync", whichever list or switches
\* the targets came from: sources run first, netbox-delta, which feeds Factum
\* too, before every destination although it is not in sourceSyncTargets, and
\* housekeeping, which trims the history of the others, last.
SourcesFirst ==
    Ran => /\ \A s \in sourceSyncTargets, d \in JobTargets \ sourceSyncTargets : ~Before(d, s)
           /\ \A d \in ToSet(SyncTargets) \ sourceSyncTargets : ~Before(d, NetboxDeltaTarget)
           /\ \A t \in JobTargets : ~Before(HousekeepingTarget, t)

\* A list is saved exactly when it names known targets and does not mix "all"
\* with others, and a saved list runs later in the order it was saved in.
SavedAsRun ==
    /\ stored = Refused <=>
         stored # Pending /\ \/ raw = <<>>
                             \/ ~(ToSet(raw) \subseteq JobTargets) /\ ToSet(raw) # {TargetAll}
    /\ Ran /\ stored # <<TargetAll>> => run = stored

\* The targets that were asked for run, each once, sources before destinations,
\* in the order in which the list was saved.
OrderSafe == RunsWhatWasAsked /\ SourcesFirst /\ SavedAsRun

=============================================================================
