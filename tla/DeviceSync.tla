----------------------------- MODULE DeviceSync -----------------------------
(***************************************************************************)
(* What device-sync writes to NetBox for a device: first its interfaces    *)
(* and addresses, then its cables.                                         *)
(***************************************************************************)
EXTENDS Integers, FiniteSets, FiniteSetsExt

-----------------------------------------------------------------------------
(***************************************************************************)
(* device-sync writes one device's interfaces and addresses to NetBox, in  *)
(* the phases of run (internal/device-sync/device-sync.go,                 *)
(* internal/device-sync/netbox_mgr.go): rename, delete and create          *)
(* interfaces, their values, then delete, create and update addresses.     *)
(* The phases work on the copy Factum had when the run began, which they   *)
(* keep up to date themselves.  A name has a key that spellings share: the *)
(* short form (gi5), the long one (GigabitEthernet5), any case.            *)
(***************************************************************************)

CONSTANTS
    IfNames,         \* [key, long, upper]
    Vrfs,          \* VRF names; "" is the global table
    vrfInGlobal,   \* Settings: VRFs whose addresses are kept in the global table
    Prefixes,      \* addresses with their length
    Descs,         \* descriptions: "plain" or "anycast"
    NoName,
    Starts,        \* NetBox's interfaces at first: id -> [name, desc, addrs]
    Configs,       \* what the device has: name -> [desc, addrs]
    Templates,     \* the keys the device type defines, one set per model
    MaxId,         \* bound: NetBox ids
    MaxRuns, MaxFails

VARIABLES
    nb,            \* NetBox's interfaces: id -> [name, desc, addrs]
    snap,          \* pair.nbDevice
    dev,           \* pair.config: name -> [desc, addrs]
    template,      \* the keys of the device type's interfaces
    primary,       \* the NetBox id of the device's primary address, 0 for none
    first,         \* nb when the run began
    at,            \* the phase
    runs, failed,  \* runs begun; calls that failed or prompts that were declined
    wrote          \* this run has changed NetBox

invvars == <<nb, snap, dev, template, primary, first, at, runs, failed, wrote>>

AddrIds(t) == UNION {{a.id : a \in t[r].addrs} : r \in DOMAIN t}

InvInit ==
    /\ nb \in Starts /\ snap = nb /\ first = nb
    /\ dev \in Configs
    /\ template \in Templates
    /\ primary \in {0} \cup AddrIds(nb)
    /\ at = "names" /\ runs = 1 /\ failed = 0 /\ wrote = FALSE

-----------------------------------------------------------------------------

EqualFold(m, n) == m.key = n.key /\ m.long = n.long
normalizeVRF(v) == IF v \in vrfInGlobal THEN "" ELSE v

\* preferDeviceInterface: the long spelling, then the smaller string.
Spellings(k) == {n \in DOMAIN dev : n.key = k}
deviceInterfacesByKey(k) ==
    IF Spellings(k) = {} THEN NoName
    ELSE CHOOSE n \in Spellings(k) :
           \A m \in Spellings(k) : <<n.long, n.upper>> = <<m.long, m.upper>>
                                   \/ (n.long /\ ~m.long) \/ (n.long = m.long /\ n.upper)
deviceInterface(n) == IF n \in DOMAIN dev THEN n ELSE deviceInterfacesByKey(n.key)

AddrRows(t, k) == {r \in DOMAIN t : t[r].name.key = k}

\* findInterfaceByName: the exact spelling, then the last that differs in case
\* only, then the first with the key; 0 for none.
findInterfaceByName(t, n) ==
    LET exact == {r \in DOMAIN t : t[r].name = n}
        fold == {r \in AddrRows(t, n.key) : EqualFold(t[r].name, n)}
    IN  IF exact # {} THEN Min(exact)
        ELSE IF fold # {} THEN Max(fold)
        ELSE IF AddrRows(t, n.key) = {} THEN 0 ELSE Min(AddrRows(t, n.key))

Used == DOMAIN nb \cup DOMAIN snap \cup AddrIds(nb) \cup AddrIds(snap)
NewId(n) == (IF Used = {} THEN 0 ELSE Max(Used)) + n

\* The calls that fail in a phase, of those it makes.
Failing(calls) == {F \in SUBSET calls : failed + Cardinality(F) <= MaxFails}

Done(next, nb2, snap2, F) ==
    /\ nb' = nb2 /\ snap' = snap2
    /\ at' = next
    /\ failed' = failed + Cardinality(F)
    /\ wrote' = (wrote \/ nb2 # nb)
    /\ UNCHANGED <<dev, template, primary, first, runs>>

\* The row that takes the device's spelling, unless one has it already.
Pick(k) ==
    LET n == deviceInterfacesByKey(k)
        fold == {r \in AddrRows(snap, k) : EqualFold(snap[r].name, n)}
    IN  IF n = NoName \/ \E r \in AddrRows(snap, k) : snap[r].name = n THEN {}
        ELSE {IF fold # {} THEN Max(fold) ELSE Min(AddrRows(snap, k))}

syncInterfaceNames ==
    LET picked == UNION {Pick(k) : k \in {snap[r].name.key : r \in DOMAIN snap}}
        To(t, F) == [r \in DOMAIN t |-> IF r \in picked \ F
                        THEN [t[r] EXCEPT !.name = deviceInterfacesByKey(t[r].name.key)] ELSE t[r]]
    IN  /\ at = "names"
        /\ \E F \in Failing(picked) : Done("delete", To(nb, F), To(snap, F), F)

\* Mutant of primaryAddressOn: only the address phase looks for the primary.
primaryAddressOnNot(r) == FALSE

primaryAddressOn(r) == primary # 0 /\ \E a \in snap[r].addrs : a.id = primary

\* AddrRows without a device interface, and second rows for one.
ToDelete ==
    {r \in DOMAIN snap :
        LET n == deviceInterfacesByKey(snap[r].name.key)
        IN  n = NoName \/ (snap[r].name # n /\ \E q \in DOMAIN snap : snap[q].name = n)}

Without(t, S) == [r \in DOMAIN t \ S |-> t[r]]

interfacesDelete ==
    LET calls == {r \in ToDelete : snap[r].name.key \notin template /\ ~primaryAddressOn(r)}
    IN  /\ at = "delete"
        /\ \E F \in Failing(calls) : Done("create", Without(nb, calls \ F), Without(snap, calls \ F), F)

\* The new rows, by the order of their names.
interfacesCreate ==
    LET missing == {k \in {n.key : n \in DOMAIN dev} : AddrRows(snap, k) = {}}
        IdOf(k) == NewId(Cardinality({j \in missing : j <= k}))
        Add(t, K) == [r \in DOMAIN t \cup {IdOf(k) : k \in K} |->
                        IF r \in DOMAIN t THEN t[r]
                        ELSE LET n == deviceInterfacesByKey(CHOOSE k \in K : IdOf(k) = r)
                             IN  [name |-> n, desc |-> dev[n].desc, addrs |-> {}]]
    IN  /\ at = "create"
        /\ NewId(Cardinality(missing)) <= MaxId
        /\ \E F \in Failing(missing) : Done("values", Add(nb, missing \ F), Add(snap, missing \ F), F)

\* Descriptions reach NetBox; the copy keeps the old one.
syncInterfaceValues ==
    LET differs == {r \in DOMAIN snap : deviceInterface(snap[r].name) # NoName
                                        /\ snap[r].desc # dev[deviceInterface(snap[r].name)].desc}
    IN  /\ at = "values"
        /\ \E F \in Failing(differs) :
             Done("addrdelete", [r \in DOMAIN nb |-> IF r \in differs \ F
                        THEN [nb[r] EXCEPT !.desc = dev[deviceInterface(snap[r].name)].desc] ELSE nb[r]],
                  snap, F)

-----------------------------------------------------------------------------

DevAddrs(r) == LET n == deviceInterface(snap[r].name) IN IF n = NoName THEN {} ELSE dev[n].addrs

SameAddress(a, d) == a.pfx = d.pfx /\ normalizeVRF(a.vrf) = normalizeVRF(d.vrf)

\* The address that holds d already: the first that matches prefix and VRF.
ExactFor(r, d) == {a \in snap[r].addrs : SameAddress(a, d) /\ \A b \in snap[r].addrs : SameAddress(b, d) => a.id <= b.id}
Exact(r) == UNION {ExactFor(r, d) : d \in DevAddrs(r)}

Rank(x, S, key(_)) == Cardinality({y \in S : key(y) < key(x)})
Others(r, p) == {a \in snap[r].addrs \ Exact(r) : a.pfx = p}
Unclaimed(r, p) == {d \in DevAddrs(r) : d.pfx = p /\ ExactFor(r, d) = {}}
IdOfAddr(a) == a.id
PosOf(d) == d.pos

\* Mutant of Retargets: the address is deleted, and created in the other VRF.
RetargetsNot(r) == {}

\* The rest take what is left with their prefix, each in its order, into the
\* VRF the device has it in (retargetAddressVRF).
Retargets(r) ==
    {m \in {<<a, d>> : a \in snap[r].addrs \ Exact(r), d \in DevAddrs(r)} :
        /\ m[1].pfx = m[2].pfx
        /\ m[2] \in Unclaimed(r, m[1].pfx)
        /\ Rank(m[1], Others(r, m[1].pfx), IdOfAddr) = Rank(m[2], Unclaimed(r, m[1].pfx), PosOf)}

primaryAddressFamily(a) == primary # 0 /\ a.id = primary

\* An address without a place on the device goes, unless it is the primary.
NotPlaced(r) == {a \in snap[r].addrs \ Exact(r) : ~primaryAddressFamily(a) /\ \A m \in Retargets(r) : m[1] # a}

addressesDelete ==
    LET calls == UNION {{<<"vrf", m[1].id>> : m \in Retargets(r)} \cup {<<"del", a.id>> : a \in NotPlaced(r)}
                          : r \in DOMAIN snap}
        After(r, A, F) ==
            LET V(a) == {normalizeVRF(m[2].vrf) : m \in {x \in Retargets(r) : x[1].id = a.id /\ <<"vrf", a.id>> \notin F}}
            IN  {IF V(a) = {} THEN a ELSE [a EXCEPT !.vrf = CHOOSE v \in V(a) : TRUE] :
                   a \in {a \in A : ~(\E u \in NotPlaced(r) : u.id = a.id) \/ <<"del", a.id>> \in F}}
        All(t, F) == [r \in DOMAIN t |-> [t[r] EXCEPT !.addrs = After(r, @, F)]]
    IN  /\ at = "addrdelete"
        /\ \E F \in Failing(calls) : Done("addrcreate", All(nb, F), All(snap, F), F)

\* What the device has and the row lacks; every spelling contributes.
Missing ==
    {<<n, d>> \in UNION {{<<n, d>> : d \in dev[n].addrs} : n \in DOMAIN dev} :
        /\ findInterfaceByName(snap, n) # 0
        /\ ~\E a \in snap[findInterfaceByName(snap, n)].addrs : SameAddress(a, d)}

Anycast(r) == snap[r].desc = "anycast"

addressesCreate ==
    LET Order(m) == 10 * m[1].key + m[2].pos
        IdOf(m) == NewId(1 + Cardinality({x \in Missing : Order(x) < Order(m)}))
        Add(t, M) == [r \in DOMAIN t |-> [t[r] EXCEPT !.addrs = @ \cup
                        {[id |-> IdOf(m), pfx |-> m[2].pfx, vrf |-> normalizeVRF(m[2].vrf),
                          role |-> IF Anycast(r) THEN "anycast" ELSE ""] :
                            m \in {x \in M : findInterfaceByName(snap, x[1]) = r}}]]
    IN  /\ at = "addrcreate"
        /\ NewId(Cardinality(Missing)) <= MaxId
        /\ \E F \in Failing(Missing) : Done("addrupdate", Add(nb, Missing \ F), Add(snap, Missing \ F), F)

\* The anycast role follows the description; another role stays.
NewRole(r, a) ==
    IF a.role = "anycast" /\ ~Anycast(r) THEN ""
    ELSE IF a.role = "" /\ Anycast(r) THEN "anycast" ELSE a.role

addressesUpdate ==
    LET calls == UNION {{a.id : a \in {a \in snap[r].addrs : NewRole(r, a) # a.role}} : r \in DOMAIN snap}
        All(t, F) == [r \in DOMAIN t |-> [t[r] EXCEPT !.addrs =
                        {IF a.id \in calls \ F THEN [a EXCEPT !.role = NewRole(r, a)] ELSE a : a \in @}]]
    IN  /\ at = "addrupdate"
        /\ \E F \in Failing(calls) : Done("done", All(nb, F), All(snap, F), F)

\* The next run, after this one ended or was cut short; Factum has caught up.
NextRun ==
    /\ runs < MaxRuns
    /\ at # "done" => failed < MaxFails
    /\ runs' = runs + 1 /\ failed' = IF at = "done" THEN failed ELSE failed + 1
    /\ snap' = nb /\ first' = nb /\ at' = "names" /\ wrote' = FALSE
    /\ UNCHANGED <<nb, dev, template, primary>>

InvNext ==
    \/ syncInterfaceNames \/ interfacesDelete \/ interfacesCreate \/ syncInterfaceValues
    \/ addressesDelete \/ addressesCreate \/ addressesUpdate \/ NextRun

InvSpec == InvInit /\ [][InvNext]_invvars

-----------------------------------------------------------------------------

InvTypeOK ==
    /\ \A r \in DOMAIN nb : nb[r].name \in IfNames /\ nb[r].desc \in Descs
    /\ \A r, q \in DOMAIN nb : nb[r].name = nb[q].name => r = q
    /\ runs \in 1..MaxRuns /\ failed \in 0..MaxFails

\* The primary address is never deleted, nor the interface it is on, whatever
\* the device's configuration says and wherever a run stops (interfacesDelete,
\* addressesDelete: "An address that already is primary_ip4 or primary_ip6 is
\* never deleted").
PrimaryStays == primary # 0 => primary \in AddrIds(nb)'

\* What the device and NetBox both have keeps its NetBox id through a run,
\* also one in which calls fail: an interface under another spelling, and an
\* address in another VRF (syncInterfaceNames, interfacesDelete,
\* addressesDelete).
IdsKept ==
    \A k \in {n.key : n \in DOMAIN dev} :
        AddrRows(first, k) # {} =>
            /\ AddrRows(first, k) \cap AddrRows(nb, k) # {}
            /\ \A r \in AddrRows(first, k) \cap AddrRows(nb, k), p \in Prefixes :
                 LET had == {a.id : a \in {a \in first[r].addrs : a.pfx = p}}
                 IN  had # {} /\ (\E d \in DevAddrs(r) : d.pfx = p) =>
                       had \cap {a.id : a \in nb[r].addrs} # {}

\* Two runs without a failure are enough: the third has nothing left to write
\* (the description that decides the anycast role is the one the run began
\* with).
ThirdIsQuiet == runs = 3 /\ failed = 0 => ~wrote

\* Where a run without failures ends: every interface of the device is there
\* under the device's spelling, with its addresses.
Synced ==
    at = "done" /\ failed = 0 =>
        \A n \in DOMAIN dev :
            LET r == findInterfaceByName(nb, n)
            IN  r # 0 /\ (\E q \in DOMAIN nb : nb[q].name = deviceInterfacesByKey(n.key))
                /\ \A d \in dev[n].addrs : \E a \in nb[r].addrs : SameAddress(a, d)

-----------------------------------------------------------------------------
(***************************************************************************)
(* device-sync makes NetBox's cables those LLDP reports (syncConnections   *)
(* and syncConnection of internal/device-sync/device-sync.go).  Workers    *)
(* handle devices in parallel; one mutex covers one link at a time.  What  *)
(* they know of a port is the cable id Factum had for it when the device   *)
(* was first looked up in this run: selected devices are looked up before  *)
(* any cable is touched, neighbours when a link first names them.          *)
(***************************************************************************)

CONSTANTS
    LldpPort,         \* interfaces
    DeviceOf,     \* port -> device
    Peer,         \* what LLDP says: port -> port, for the ports that have a neighbour
    Selected,     \* the devices this run connects to
    Optical,      \* devices of an optical kind
    Plants,       \* the cables NetBox may hold at first: id -> [ends, lldp]
    Lags,         \* ports whose cable Factum may not have heard of
    MaxCableId,        \* bound: cable ids
    MaxLldpFails      \* bound: calls that fail and ports Factum is behind on

VARIABLES
    cable,        \* NetBox's cables: id -> [ends, lldp]
    mirrored,     \* the cable ids of Factum's interfaces: port -> id, 0 for none
    loaded,       \* deviceCache: the devices looked up so far
    cached,       \* the cable ids in that cache
    links,        \* device -> the ports whose neighbours are still to be handled
    phase,        \* device -> "connect", "links", "done" or "off"
    fails

lldpvars == <<cable, mirrored, loaded, cached, links, phase, fails>>

LldpDevice == {DeviceOf[p] : p \in LldpPort}
PortsOf(d) == {p \in LldpPort : DeviceOf[p] = d}
OnPort(p) == {i \in DOMAIN cable : p \in cable[i].ends}
CableOn(p) == IF OnPort(p) = {} THEN 0 ELSE CHOOSE i \in OnPort(p) : TRUE

LldpInit ==
    /\ cable \in Plants
    /\ \E L \in SUBSET Lags :
         /\ mirrored = [p \in LldpPort |-> IF p \in L THEN 0 ELSE CableOn(p)]
         /\ fails = Cardinality(L)
    /\ loaded = {} /\ cached = [p \in LldpPort |-> 0]
    /\ links = [d \in Selected |-> PortsOf(d) \cap DOMAIN Peer]
    /\ phase = [d \in Selected |-> "connect"]
    /\ fails <= MaxLldpFails

-----------------------------------------------------------------------------

Lookup(d) ==
    /\ loaded' = loaded \cup {d}
    /\ cached' = [p \in LldpPort |-> IF DeviceOf[p] = d /\ d \notin loaded THEN mirrored[p] ELSE cached[p]]

\* connectDevice; a device that does not answer is left out.
Connect(d) ==
    /\ phase[d] = "connect"
    /\ \/ phase' = [phase EXCEPT ![d] = "links"] /\ UNCHANGED fails
       \/ fails < MaxLldpFails /\ fails' = fails + 1 /\ phase' = [phase EXCEPT ![d] = "off"]
    /\ Lookup(d)
    /\ UNCHANGED <<cable, mirrored, links>>

\* forEachPair: the phases before this one ended for every device.
Linking(d) == phase[d] = "links" /\ \A e \in Selected : phase[e] # "connect"

\* GetNeighbors fails, or there is nothing left to do.
Finish(d) ==
    /\ Linking(d)
    /\ \/ links[d] = {} /\ UNCHANGED fails
       \/ links[d] = PortsOf(d) \cap DOMAIN Peer /\ links[d] # {} /\ fails < MaxLldpFails /\ fails' = fails + 1
    /\ phase' = [phase EXCEPT ![d] = "done"]
    /\ UNCHANGED <<cable, mirrored, loaded, cached, links>>

\* factumDevice(remoteName), outside the mutex.
LookupPeer(d, p) ==
    /\ Linking(d) /\ p \in links[d] /\ DeviceOf[Peer[p]] \notin loaded
    /\ Lookup(DeviceOf[Peer[p]])
    /\ UNCHANGED <<cable, mirrored, links, phase, fails>>

\* The far end of the port's cable is on an optical device the run has seen.
cabledToOptical(p) ==
    /\ cached[p] \in DOMAIN cable
    /\ \E q \in cable[cached[p]].ends \ {p} :
         DeviceOf[q] \in Optical \cap loaded

shouldSkipLLDPCabling(p, q) ==
    DeviceOf[p] \in Optical \/ DeviceOf[q] \in Optical \/ cabledToOptical(p) \/ cabledToOptical(q)

\* readCable: an id NetBox no longer knows is no cable.
readCable(p) == IF cached[p] \in DOMAIN cable THEN cached[p] ELSE 0
Known == [p \in LldpPort |-> readCable(p)]

Keep(p, q) == IF readCable(p) # 0 THEN readCable(p) ELSE readCable(q)

\* Mutant of Stale: the cable on the other port goes, whoever laid it.
StaleAny(p, q) ==
    {readCable(p), readCable(q)} \ {0, Keep(p, q)}

\* The other port's cable, when LLDP laid it and the two disagree.
Stale(p, q) ==
    {i \in {readCable(p), readCable(q)} \ {0, Keep(p, q)} : cable[i].lldp}

WithoutCables(f, S) == [x \in DOMAIN f \ S |-> f[x]]
WithCable(f, k, v) == [x \in DOMAIN f \cup {k} |-> IF x = k THEN v ELSE f[x]]
Cleared(f, S) == [p \in LldpPort |-> IF f[p] \in S THEN 0 ELSE f[p]]

\* Mutant of noteCable: the end the cable left keeps its id.
noteCableLeft(f, i, p, q) == [f EXCEPT ![p] = i, ![q] = i]

noteCable(f, i, p, q) == [Cleared(f, {i}) EXCEPT ![p] = i, ![q] = i]

FreeCableId == IF DOMAIN cable = {} THEN 1 ELSE 1 + CHOOSE m \in DOMAIN cable : \A n \in DOMAIN cable : n <= m

\* NetBox refuses a second cable on a port (external).
Vacant(c, p) == \A i \in DOMAIN c : p \notin c[i].ends

\* The kept cable is given the ends p and q when it has one of them already.
Retarget(c, i, p, q) ==
    IF c[i].ends = {p, q} \/ (c[i].ends \cap {p, q} # {} /\ Vacant(WithoutCables(c, {i}), p) /\ Vacant(WithoutCables(c, {i}), q))
    THEN WithCable(c, i, [c[i] EXCEPT !.ends = {p, q}])
    ELSE c

\* syncConnection for the link between p and q; ok tells which of the delete
\* and the write succeed.
syncConnection(p, q, ok) ==
    LET i == Keep(p, q)
        dropped == IF ok.delete THEN Stale(p, q) ELSE {}
        left == WithoutCables(cable, dropped)
        known == Cleared(Known, dropped)
        put == IF i = 0
               THEN IF Vacant(left, p) /\ Vacant(left, q)
                    THEN WithCable(left, FreeCableId, [ends |-> {p, q}, lldp |-> TRUE]) ELSE left
               ELSE Retarget(left, i, p, q)
        id == IF i = 0 THEN FreeCableId ELSE i
        linked == id \in DOMAIN put /\ put[id].ends = {p, q}
    IN  IF shouldSkipLLDPCabling(p, q) THEN UNCHANGED <<cable, cached, mirrored>>
        ELSE IF i # 0 /\ ~cable[i].lldp
        THEN cached' = Known /\ UNCHANGED <<cable, mirrored>>
        ELSE /\ cable' = IF ok.write THEN put ELSE left
             /\ cached' = IF linked /\ (ok.write \/ left = put) THEN noteCable(known, id, p, q) ELSE known
             /\ mirrored' = Cleared(mirrored, dropped)

\* One neighbour, under connMu.
Link(d, p) ==
    /\ Linking(d) /\ p \in links[d] /\ DeviceOf[Peer[p]] \in loaded
    /\ FreeCableId <= MaxCableId
    /\ \E ok \in [delete : BOOLEAN, write : BOOLEAN] :
         /\ fails' = fails + Cardinality({k \in {"delete", "write"} : ~ok[k]})
         /\ fails' <= MaxLldpFails
         /\ syncConnection(p, Peer[p], ok)
    /\ links' = [links EXCEPT ![d] = @ \ {p}]
    /\ UNCHANGED <<loaded, phase>>

\* A NetBox sync brings Factum up to date while the run goes on (external).
Mirror ==
    /\ mirrored' = [p \in LldpPort |-> CableOn(p)]
    /\ mirrored' # mirrored
    /\ UNCHANGED <<cable, loaded, cached, links, phase, fails>>

LldpNext ==
    \/ \E d \in Selected : Connect(d) \/ Finish(d)
    \/ \E d \in Selected, p \in DOMAIN Peer : LookupPeer(d, p) \/ Link(d, p)
    \/ Mirror

LldpSpec == LldpInit /\ [][LldpNext]_lldpvars

-----------------------------------------------------------------------------

LldpCable == [ends : {{p, q} : p, q \in LldpPort}, lldp : BOOLEAN]
Joined(p) == \E i \in DOMAIN cable : cable[i].ends = {p, Peer[p]}
Over == \A d \in Selected : phase[d] \in {"done", "off"}

LldpTypeOK ==
    /\ \A i \in DOMAIN cable : i \in 1..MaxCableId /\ cable[i] \in LldpCable
    /\ \A i, j \in DOMAIN cable : i # j => cable[i].ends \cap cable[j].ends = {}
    /\ loaded \subseteq LldpDevice /\ fails \in 0..MaxLldpFails

\* A cable an operator laid -- patch cords, the optical plant -- is never
\* moved or deleted, whatever LLDP says of its ports (syncConnection: "Manual /
\* optical plant cable - never retarget or delete").
ManualStays == \A i \in DOMAIN cable :
                 ~cable[i].lldp => i \in DOMAIN cable' /\ cable'[i] = cable[i]

\* A link that is right stays right for the rest of the run: no other link's
\* repair takes its cable (syncConnection, noteCable, clearCachedCableID).
RightStays == \A p \in DOMAIN Peer : Joined(p) => Joined(p)'
=============================================================================
