------------------------------ MODULE DeviceRun ------------------------------
(***************************************************************************)
(* One run of device-sync over several devices (Sync and run of            *)
(* internal/device-sync/device-sync.go; the Ensure operations of           *)
(* internal/device-sync/netbox_mgr.go).  Each phase runs to completion     *)
(* over every connected device, on at most Workers goroutines, which share *)
(* four mutexes: the device cache's, the one for links, the one of the     *)
(* NetBox manager, and the one that prompts and progress lines take.       *)
(* What a phase does to one device is in DeviceSync; here a phase is the   *)
(* locks it takes, and, for services, the lookup and the creation of an    *)
(* L2VPN.                                                                  *)
(***************************************************************************)
EXTENDS Integers, FiniteSets, Sequences

CONSTANTS
    Device,
    Attrs,         \* device -> [ignored, state, platform]: what the selection reads
    Only,          \* opts.Name, or Nobody
    Service,       \* device -> [name, pwid]: the ELINE it has an end of; pwid 0 for none
    Workers,       \* workerLimit
    NoDevice,
    MaxAnswersLost        \* bound: devices that do not answer

VARIABLES
    stage,         \* index of the phase
    pairs,         \* the devices of this phase
    started,       \* of these, the ones a goroutine has been given
    devPc,            \* device -> next operation of the phase
    mutex,         \* mutex -> holder
    l2vpns,        \* NetBox: set of [name, id]
    found,         \* device -> the lookup's answer, a set
    ends,          \* NetBox's terminations: device -> the L2VPN's name
    answersLost

devrunvars == <<stage, pairs, started, devPc, mutex, l2vpns, found, ends, answersLost>>

Mutex == {"cache", "links", "shared", "prompt"}
Phases == <<"connect", "shared", "interfaces", "links", "services">>

\* rejectReason
Chosen(d) ==
    /\ Only \in {NoDevice, d}
    /\ ~Attrs[d].ignored /\ Attrs[d].state /\ Attrs[d].platform

TakeMutex(m) == <<"take", m>>
Give(m) == <<"give", m>>
EmitLine == <<TakeMutex("prompt"), Give("prompt")>>

\* Mutant of askDelete: the prompt reports through the reporter, which locks.
askDeleteEmits == <<TakeMutex("prompt")>> \o EmitLine \o <<Give("prompt")>>

\* The question and the answer, on a screen of their own.
askDelete == <<TakeMutex("prompt"), <<"answer", "">>, Give("prompt")>>

\* Mutant of EnsureL2VPN: the lookup is made before the lock is taken.
EnsureL2VPNLate == <<<<"find", "">>, TakeMutex("shared"), <<"make", "">>>> \o EmitLine \o <<Give("shared")>>

EnsureL2VPN == <<TakeMutex("shared"), <<"find", "">>, <<"make", "">>>> \o EmitLine \o <<Give("shared")>>

\* What a phase does for one device; EnsureVRF, EnsurePrefix and EnsureVlan
\* have the shape of "shared", syncConnection that of "links".
Body(phase) ==
    CASE phase = "connect"    -> EmitLine \o <<TakeMutex("cache"), Give("cache"), <<"dial", "">>>>
      [] phase = "shared"     -> <<TakeMutex("shared")>> \o EmitLine \o <<Give("shared")>>
      [] phase = "interfaces" -> <<TakeMutex("shared"), Give("shared")>> \o askDelete \o EmitLine
      [] phase = "links"      -> <<TakeMutex("cache"), Give("cache"), TakeMutex("links")>> \o EmitLine
                                   \o <<TakeMutex("cache"), Give("cache"), Give("links")>>
      [] phase = "services"   -> EnsureL2VPN

DevRunInit ==
    /\ stage = 1
    /\ pairs = {d \in Device : Chosen(d)}
    /\ started = {} /\ devPc = [d \in Device |-> 1]
    /\ mutex = [m \in Mutex |-> NoDevice]
    /\ l2vpns = {} /\ found = [d \in Device |-> {}] /\ ends = [d \in Device |-> NoDevice]
    /\ answersLost = 0

-----------------------------------------------------------------------------

Over(d) == devPc[d] > Len(Body(Phases[stage]))
Busy == {d \in started : ~Over(d)}

\* errgroup: a goroutine starts when fewer than the limit are running.
StartDevice(d) ==
    /\ stage <= Len(Phases) /\ d \in pairs \ started /\ Cardinality(Busy) < Workers
    /\ started' = started \cup {d} /\ devPc' = [devPc EXCEPT ![d] = 1]
    /\ UNCHANGED <<stage, pairs, mutex, l2vpns, found, ends, answersLost>>

At(d, op) == stage <= Len(Phases) /\ d \in Busy /\ Body(Phases[stage])[devPc[d]][1] = op
Arg(d) == Body(Phases[stage])[devPc[d]][2]
Advance(d) == devPc' = [devPc EXCEPT ![d] = @ + 1]

LockMutex(d) ==
    /\ At(d, "take") /\ mutex[Arg(d)] = NoDevice
    /\ mutex' = [mutex EXCEPT ![Arg(d)] = d] /\ Advance(d)
    /\ UNCHANGED <<stage, pairs, started, l2vpns, found, ends, answersLost>>

Unlock(d) ==
    /\ At(d, "give")
    /\ mutex' = [mutex EXCEPT ![Arg(d)] = NoDevice] /\ Advance(d)
    /\ UNCHANGED <<stage, pairs, started, l2vpns, found, ends, answersLost>>

\* The operator answers, or Unattended answers for them.
Answer(d) ==
    /\ At(d, "answer") /\ Advance(d)
    /\ UNCHANGED <<stage, pairs, started, mutex, l2vpns, found, ends, answersLost>>

\* connectDevice: a device that does not answer leaves the run.
Dial(d) ==
    /\ At(d, "dial") /\ Advance(d)
    /\ \/ UNCHANGED <<pairs, answersLost>>
       \/ answersLost < MaxAnswersLost /\ answersLost' = answersLost + 1 /\ pairs' = pairs \ {d}
    /\ UNCHANGED <<stage, started, mutex, l2vpns, found, ends>>

\* By name, then by identifier when the device has one.
Matches(d) ==
    LET byName == {v \in l2vpns : v.name = Service[d].name}
        byId == {v \in l2vpns : Service[d].pwid > 0 /\ v.id = Service[d].pwid}
    IN  IF byName # {} THEN byName ELSE byId

Find(d) ==
    /\ At(d, "find") /\ Advance(d)
    /\ found' = [found EXCEPT ![d] = Matches(d)]
    /\ UNCHANGED <<stage, pairs, started, mutex, l2vpns, ends, answersLost>>

\* A new L2VPN, or the identifier of the one found; and the termination.
Make(d) ==
    /\ At(d, "make") /\ Advance(d)
    /\ LET old == CHOOSE v \in found[d] : TRUE
           new == IF found[d] = {} THEN [name |-> Service[d].name, id |-> Service[d].pwid]
                  ELSE IF Service[d].pwid > 0 THEN [old EXCEPT !.id = Service[d].pwid] ELSE old
       IN  /\ l2vpns' = (l2vpns \ found[d]) \cup {new}
           /\ ends' = [ends EXCEPT ![d] = new.name]
    /\ UNCHANGED <<stage, pairs, started, mutex, found, answersLost>>

\* g.Wait: the next phase begins when every device is through this one.
NextPhase ==
    /\ stage <= Len(Phases)
    /\ pairs \subseteq started /\ Busy = {}
    /\ stage' = stage + 1 /\ started' = {}
    /\ UNCHANGED <<pairs, devPc, mutex, l2vpns, found, ends, answersLost>>

RunEnded == stage > Len(Phases) /\ UNCHANGED devrunvars

DevRunNext ==
    \/ \E d \in Device : StartDevice(d) \/ LockMutex(d) \/ Unlock(d) \/ Answer(d) \/ Dial(d) \/ Find(d) \/ Make(d)
    \/ NextPhase \/ RunEnded

\* Goroutines are scheduled, and an operator answers in the end.
DevRunFairness == WF_devrunvars(DevRunNext)
DevRunSpec == DevRunInit /\ [][DevRunNext]_devrunvars /\ DevRunFairness

-----------------------------------------------------------------------------

DevRunTypeOK == stage \in 1..(Len(Phases) + 1) /\ started \subseteq Device /\ answersLost \in 0..MaxAnswersLost

\* The two ends of a service that share a name or an identifier share one
\* L2VPN, although both devices may find it missing at the same time
\* (EnsureL2VPN: "the name/identifier check-then-create races when both ends
\* of a cross-device service are synced concurrently").
OneL2VPN ==
    \A v, w \in l2vpns : v # w => v.name # w.name /\ (v.id = 0 \/ v.id # w.id)

\* The goroutines never wait for each other in a circle, whichever prompt is
\* open and whichever locks are nested: a run ends (connMu, sharedMu,
\* deviceCacheMu, promptMu).
RunEnds == []<>(stage > Len(Phases))

=============================================================================
