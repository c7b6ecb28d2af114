------------------------------ MODULE BecsSync ------------------------------
(***************************************************************************)
(* The sync from BECS to NetBox: first the devices, then the interfaces    *)
(* and addresses of one device.                                            *)
(***************************************************************************)
EXTENDS Integers, FiniteSets

-----------------------------------------------------------------------------
(***************************************************************************)
(* The BECS sync (Sync, run, syncDevices, syncDeviceSettings, saveDevice   *)
(* of internal/becs/sync.go): NetBox's devices that carry a BECS id are    *)
(* made those BECS has, then Factum is synced from NetBox.  The sync works *)
(* on copies of NetBox's devices, indexed by name and by BECS id, and      *)
(* replaces a copy when it has written the device.  Maps are walked in any *)
(* order.  Interfaces have a machine of their own below; here they are one *)
(* flag.                                                                   *)
(***************************************************************************)

CONSTANTS
    DevName, Oid,     \* short names; BECS object ids
    BecsStarts,        \* what BECS and NetBox may hold at first: records of
                   \* becs: oid -> [name, enabled] and
                   \* dev: id -> [name, oid, enabled, ifs, primary]
    NoModel,       \* oids whose model has no device type
    Only,          \* the name asked for, or Everything
    Everything,
    MaxDevId, MaxBecsRuns, MaxFaults

VARIABLES
    becs,          \* oid -> [name, enabled]
    nbdev,           \* NetBox: id -> [name, oid, enabled, ifs, primary]; oid 0 for none
    devByName, devByOid, \* the copies, with their ids
    becsAt,            \* the phase
    todo,          \* what the phase still has to handle
    fixes,         \* toSetOID: the copies that get an id, with the id
    nbWritten,       \* NetBox was written
    noted,         \* an error was noted: the run reports one
    synced,        \* the names Factum was synced for
    becsRuns, faults

becsvars == <<becs, nbdev, devByName, devByOid, becsAt, todo, fixes, nbWritten, noted, synced, becsRuns, faults>>

WithoutDevices(f, S) == [x \in DOMAIN f \ S |-> f[x]]
WithDevice(f, k, v) == [x \in DOMAIN f \cup {k} |-> IF x = k THEN v ELSE f[x]]
CopyOf(i, d) == [id |-> i, name |-> d.name, oid |-> d.oid, enabled |-> d.enabled]

BecsInit ==
    /\ \E s \in BecsStarts : becs = s.becs /\ nbdev = s.dev
    /\ devByName = <<>> /\ devByOid = <<>> /\ fixes = {} /\ todo = {}
    /\ becsAt = "load" /\ nbWritten = FALSE /\ noted = FALSE /\ synced = {} /\ becsRuns = 1 /\ faults = 0

-----------------------------------------------------------------------------

\* The elements and the devices the run may touch.
Wanted == {o \in DOMAIN becs : Only = Everything \/ becs[o].name = Only}
InScope(i) ==
    \/ Only = Everything
    \/ nbdev[i].name = Only
    \/ nbdev[i].oid \in Wanted

\* BECS and NetBox are read; a failure ends the run before it has begun.
Load ==
    /\ becsAt = "load"
    /\ \E n \in [{nbdev[i].name : i \in {j \in DOMAIN nbdev : InScope(j)}} -> DOMAIN nbdev] :
         /\ \A x \in DOMAIN n : InScope(n[x]) /\ nbdev[n[x]].name = x
         /\ devByName' = [x \in DOMAIN n |-> CopyOf(n[x], nbdev[n[x]])]
    /\ \E o \in [{nbdev[i].oid : i \in {j \in DOMAIN nbdev : InScope(j)}} \ {0} -> DOMAIN nbdev] :
         /\ \A x \in DOMAIN o : InScope(o[x]) /\ nbdev[o[x]].oid = x
         /\ devByOid' = [x \in DOMAIN o |-> CopyOf(o[x], nbdev[o[x]])]
         /\ todo' = DOMAIN o
    /\ becsAt' = "delete"
    /\ UNCHANGED <<becs, nbdev, fixes, nbWritten, noted, synced, becsRuns, faults>>

\* A call fails, for no reason of ours; NetBox refuses one.  Both are noted.
BecsFault == faults < MaxFaults /\ faults' = faults + 1 /\ noted' = TRUE
BecsRefused == noted' = TRUE /\ UNCHANGED faults
Fine == UNCHANGED <<noted, faults>>

\* Reading BECS, NetBox or the site, role and platform fails: the run ends.
LoadFails ==
    /\ becsAt = "load" /\ becsAt' = "done" /\ BecsFault
    /\ UNCHANGED <<becs, nbdev, devByName, devByOid, todo, fixes, nbWritten, synced, becsRuns>>

\* Mutant of Gone: a device goes when its name is not in BECS.
GoneByName(o) == \A w \in Wanted : becs[w].name # devByOid[o].name

Gone(o) == o \notin Wanted

\* A device whose id BECS no longer has is deleted; forget drops the copies.
DeleteGone(o) ==
    /\ becsAt = "delete" /\ o \in todo /\ todo' = todo \ {o}
    /\ \/ ~Gone(o) /\ Fine /\ UNCHANGED <<nbdev, devByName, devByOid, nbWritten>>
       \/ Gone(o) /\ BecsFault /\ UNCHANGED <<nbdev, devByName, devByOid, nbWritten>>
       \/ /\ Gone(o) /\ Fine
          /\ nbdev' = WithoutDevices(nbdev, {devByOid[o].id})
          /\ devByName' = WithoutDevices(devByName, {devByOid[o].name})
          /\ devByOid' = WithoutDevices(devByOid, {o})
          /\ nbWritten' = TRUE
    /\ UNCHANGED <<becs, becsAt, fixes, synced, becsRuns>>

\* NetBox (external) gives a new device an id and has one device per name.
FreeDevId == CHOOSE i \in 1..(MaxDevId + 1) : i \notin DOMAIN nbdev /\ \A j \in 1..(i - 1) : j \in DOMAIN nbdev
Named(n, i) == \E j \in DOMAIN nbdev \ {i} : nbdev[j].name = n

\* The copies once device d of id i is remembered.
NameKept(i, d) == WithDevice(devByName, d.name, CopyOf(i, d))
OidKept(i, d) == IF d.oid = 0 THEN devByOid ELSE WithDevice(devByOid, d.oid, CopyOf(i, d))

\* Device i is written as d, then read again; the second read may fail.
Write(i, d) ==
    /\ nbdev' = WithDevice(nbdev, i, d) /\ nbWritten' = TRUE
    /\ \/ devByName' = NameKept(i, d) /\ devByOid' = OidKept(i, d) /\ Fine
       \/ BecsFault /\ UNCHANGED <<devByName, devByOid>>

NotWritten == UNCHANGED <<nbdev, devByName, devByOid, nbWritten>>

createDevice(o) ==
    IF o \in NoModel \/ Named(becs[o].name, 0) THEN BecsRefused /\ NotWritten
    ELSE \/ BecsFault /\ NotWritten
         \/ /\ FreeDevId <= MaxDevId
            /\ Write(FreeDevId, [name |-> becs[o].name, oid |-> o, enabled |-> becs[o].enabled,
                              ifs |-> FALSE, primary |-> FALSE])

\* An element NetBox does not know by id: the device of its name gets the id,
\* later; without one, a device is created.
CreateFor(o) ==
    /\ becsAt = "create" /\ o \in todo /\ todo' = todo \ {o}
    /\ \/ o \in DOMAIN devByOid /\ Fine /\ NotWritten /\ UNCHANGED fixes
       \/ /\ o \notin DOMAIN devByOid /\ becs[o].name \in DOMAIN devByName
          /\ fixes' = fixes \cup {[id |-> devByName[becs[o].name].id, oid |-> o]}
          /\ Fine /\ NotWritten
       \/ /\ o \notin DOMAIN devByOid /\ becs[o].name \notin DOMAIN devByName
          /\ createDevice(o) /\ UNCHANGED fixes
    /\ UNCHANGED <<becs, becsAt, synced, becsRuns>>

SetOid(f) ==
    /\ becsAt = "setoid" /\ f \in fixes /\ fixes' = fixes \ {f}
    /\ \/ BecsFault /\ NotWritten
       \/ Write(f.id, [nbdev[f.id] EXCEPT !.oid = f.oid])
    /\ UNCHANGED <<becs, becsAt, todo, synced, becsRuns>>

\* The entry of the old name goes when the name has not changed.
saveDevice(old, i, d) ==
    \/ Named(d.name, i) /\ BecsRefused /\ NotWritten
    \/ BecsFault /\ NotWritten
    \/ /\ ~Named(d.name, i)
       /\ nbdev' = [nbdev EXCEPT ![i] = d] /\ nbWritten' = TRUE
       /\ \/ /\ devByOid' = OidKept(i, d) /\ Fine
             /\ devByName' = IF old = d.name THEN WithoutDevices(devByName, {old}) ELSE NameKept(i, d)
          \/ BecsFault /\ UNCHANGED <<devByName, devByOid>>

\* One step of a phase for element o, when NetBox has a device for it.
BecsStep(phase, o) ==
    /\ becsAt = phase /\ o \in todo /\ todo' = todo \ {o}
    /\ UNCHANGED <<becs, becsAt, fixes, synced, becsRuns>>
SkipElement(o) == Fine /\ NotWritten

syncDeviceSettings(o) ==
    /\ BecsStep("settings", o)
    /\ IF o \notin DOMAIN devByOid \/ (devByOid[o].name = becs[o].name /\ devByOid[o].enabled = becs[o].enabled)
       THEN SkipElement(o)
       ELSE LET i == devByOid[o].id
            IN  saveDevice(devByOid[o].name, i,
                    [nbdev[i] EXCEPT !.name = IF devByOid[o].name = becs[o].name THEN @ ELSE becs[o].name,
                                   !.enabled = IF devByOid[o].enabled = becs[o].enabled THEN @ ELSE becs[o].enabled])

\* Interfaces and their settings, with a fresh copy when something changed.
syncInterfaces(o) ==
    /\ BecsStep("interfaces", o)
    /\ IF o \notin DOMAIN devByOid \/ nbdev[devByOid[o].id].ifs THEN SkipElement(o)
       ELSE \/ BecsFault /\ NotWritten
            \/ Write(devByOid[o].id, [nbdev[devByOid[o].id] EXCEPT !.ifs = TRUE])

\* The copy is read again; loopback0's first address becomes the primary one.
syncAddressesCreate(o) ==
    /\ BecsStep("addresses", o)
    /\ IF o \notin DOMAIN devByOid THEN SkipElement(o)
       ELSE LET i == devByOid[o].id
            IN  \/ BecsFault /\ NotWritten
                \/ /\ nbdev[i].primary /\ Fine
                   /\ devByName' = NameKept(i, nbdev[i]) /\ devByOid' = OidKept(i, nbdev[i])
                   /\ UNCHANGED <<nbdev, nbWritten>>
                \/ /\ ~nbdev[i].primary
                   /\ saveDevice(nbdev[i].name, i, [nbdev[i] EXCEPT !.primary = TRUE])

NextPhase ==
    /\ becsAt \in {"delete", "create", "setoid", "settings", "interfaces", "addresses"}
    /\ IF becsAt = "setoid" THEN fixes = {} ELSE todo = {}
    /\ becsAt' = CASE becsAt = "delete" -> "create" [] becsAt = "create" -> "setoid" [] becsAt = "setoid" -> "settings"
               [] becsAt = "settings" -> "interfaces" [] becsAt = "interfaces" -> "addresses" [] OTHER -> "factum"
    /\ todo' = Wanted
    /\ UNCHANGED <<becs, nbdev, devByName, devByOid, fixes, nbWritten, noted, synced, becsRuns, faults>>

\* The second half, for the devices NetBox now has, or for the one asked for.
SyncFactum ==
    /\ becsAt = "factum" /\ becsAt' = "done"
    /\ synced' = IF ~nbWritten \/ (Only # Everything /\ Only \notin DOMAIN devByName) THEN {}
                 ELSE IF Only = Everything THEN {nbdev[i].name : i \in DOMAIN nbdev} ELSE {Only}
    /\ UNCHANGED <<becs, nbdev, devByName, devByOid, todo, fixes, nbWritten, noted, becsRuns, faults>>

\* The next run, over the same BECS.
AnotherRun ==
    /\ becsAt = "done" /\ becsRuns < MaxBecsRuns
    /\ becsRuns' = becsRuns + 1 /\ becsAt' = "load" /\ nbWritten' = FALSE /\ noted' = FALSE /\ synced' = {} /\ todo' = {}
    /\ devByName' = <<>> /\ devByOid' = <<>>
    /\ UNCHANGED <<becs, nbdev, fixes, faults>>

BecsNext ==
    \/ Load \/ LoadFails \/ NextPhase \/ SyncFactum \/ AnotherRun
    \/ \E o \in Oid : DeleteGone(o) \/ CreateFor(o) \/ syncDeviceSettings(o) \/ syncInterfaces(o) \/ syncAddressesCreate(o)
    \/ \E f \in fixes : SetOid(f)

BecsSpec == BecsInit /\ [][BecsNext]_becsvars

-----------------------------------------------------------------------------

BecsTypeOK ==
    /\ DOMAIN becs \subseteq Oid /\ DOMAIN nbdev \subseteq 1..MaxDevId
    /\ \A i \in DOMAIN nbdev : nbdev[i].name \in DevName /\ nbdev[i].oid \in Oid \cup {0}
    /\ becsRuns \in 1..MaxBecsRuns /\ faults \in 0..MaxFaults

\* A device goes only when BECS has no element with its id: an element that
\* changed its name keeps its device (syncDevices).
DeletesGone == \A i \in DOMAIN nbdev \ DOMAIN nbdev' : nbdev[i].oid \notin DOMAIN becs

\* When a run over all of BECS has noted no error, every element has a device
\* of its own, with its id, its name and its status ("reconciles Netbox devices
\* whose source custom field is becs:<oid> ... against them", Sync).
Mirrors ==
    becsAt = "done" /\ Only = Everything /\ ~noted =>
        \A o \in DOMAIN becs :
            \E i \in DOMAIN nbdev : /\ nbdev[i].oid = o /\ nbdev[i].name = becs[o].name
                                /\ nbdev[i].enabled = becs[o].enabled

-----------------------------------------------------------------------------
(***************************************************************************)
(* The interfaces and addresses of one device in the BECS sync             *)
(* (syncInterfaces, syncInterfaceSettings, syncAddressesDelete and         *)
(* syncAddressesCreate of internal/becs/sync.go).  BECS's interfaces carry *)
(* an id; NetBox's rows are matched by that id, or by name and then given  *)
(* it.  Each part works on the copy of the device it was given, and maps   *)
(* are walked in any order.                                                *)
(***************************************************************************)

CONSTANTS
    IfName, IfOid, Loopback,   \* names, BECS ids; the name of loopback0
    IfStarts,      \* the start: records of want: oid -> [name, addrs] and
                   \* row: id -> [name, oid, addrs], addrs sets, with primary
    MaxRow, MaxIfFaults

VARIABLES
    want,          \* BECS's interfaces
    row,           \* NetBox's interfaces
    main,          \* the device's primary address, or 0
    ifsnap,          \* the copy the part works on
    part,          \* what is being done
    ifleft,          \* what it still has to do
    refused,       \* names NetBox refused a rename to
    bad            \* calls that failed

ifvars == <<want, row, main, ifsnap, part, ifleft, refused, bad>>

IfInit ==
    /\ \E s \in IfStarts : want = s.want /\ row = s.row /\ main = s.main
    /\ ifsnap = row /\ part = "delete" /\ ifleft = DOMAIN row /\ refused = {} /\ bad = 0

DropRow(f, S) == [x \in DOMAIN f \ S |-> f[x]]
Put(f, k, v) == [x \in DOMAIN f \cup {k} |-> IF x = k THEN v ELSE f[x]]
AddrsOf(f) == UNION {f[i].addrs : i \in DOMAIN f}

\* A call to NetBox fails.
CallFails == bad < MaxIfFaults /\ bad' = bad + 1 /\ UNCHANGED <<row, main, refused>>

\* The copy's row of a BECS id, or 0.
RowOf(o) == IF \E i \in DOMAIN ifsnap : ifsnap[i].oid = o THEN CHOOSE i \in DOMAIN ifsnap : ifsnap[i].oid = o ELSE 0
RowNamed(n) == IF \E i \in DOMAIN ifsnap : ifsnap[i].name = n THEN CHOOSE i \in DOMAIN ifsnap : ifsnap[i].name = n ELSE 0

-----------------------------------------------------------------------------

\* A row with an id BECS does not have goes, with its addresses.
DeleteRow(i) ==
    /\ part = "delete" /\ i \in ifleft /\ ifleft' = ifleft \ {i}
    /\ \/ /\ ifsnap[i].oid = 0 \/ ifsnap[i].oid \in DOMAIN want
          /\ UNCHANGED <<row, main, refused, bad>>
       \/ /\ ifsnap[i].oid # 0 /\ ifsnap[i].oid \notin DOMAIN want
          /\ \/ CallFails
             \/ /\ row' = DropRow(row, {i}) /\ main' = IF main \in row[i].addrs THEN 0 ELSE main
                /\ UNCHANGED <<refused, bad>>
    /\ UNCHANGED <<want, ifsnap, part>>

NewRow == CHOOSE i \in 1..(MaxRow + 1) : i \notin DOMAIN row /\ \A j \in 1..(i - 1) : j \in DOMAIN row

\* An interface without a row takes the row of its name, or a new one.
CreateRow(o) ==
    /\ part = "create" /\ o \in ifleft /\ ifleft' = ifleft \ {o}
    /\ \/ RowOf(o) # 0 /\ UNCHANGED <<row, main, refused, bad>>
       \/ RowOf(o) = 0 /\ CallFails
       \/ /\ RowOf(o) = 0 /\ RowNamed(want[o].name) # 0
          /\ row' = [row EXCEPT ![RowNamed(want[o].name)].oid = o]
          /\ UNCHANGED <<main, refused, bad>>
       \/ /\ RowOf(o) = 0 /\ RowNamed(want[o].name) = 0 /\ NewRow <= MaxRow
          /\ row' = Put(row, NewRow, [name |-> want[o].name, oid |-> o, addrs |-> {}])
          /\ UNCHANGED <<main, refused, bad>>
    /\ UNCHANGED <<want, ifsnap, part>>

Renames(i) == ifsnap[i].oid \in DOMAIN want /\ want[ifsnap[i].oid].name # ifsnap[i].name
NewName(i) == want[ifsnap[i].oid].name

\* Mutant of Ready: a row waits for nothing.
ReadyAny(i) == TRUE

\* A row waits while a row still to be renamed has its new name.
Ready(i) == \A j \in ifleft : ifsnap[j].name # NewName(i)

\* A cycle of renames: the rest is done in any order.
NameCycle ==
    /\ part = "rename" /\ ifleft # {} /\ \A i \in ifleft : ~Ready(i)
    /\ part' = "rest"
    /\ UNCHANGED <<want, row, main, ifsnap, ifleft, refused, bad>>

\* NetBox refuses a name the device has already (external).
Rename(i) ==
    /\ part \in {"rename", "rest"} /\ i \in ifleft /\ ifleft' = ifleft \ {i}
    /\ part = "rename" => Ready(i)
    /\ \/ CallFails
       \/ /\ \E j \in DOMAIN row \ {i} : row[j].name = NewName(i)
          /\ refused' = refused \cup {NewName(i)} /\ UNCHANGED <<row, main, bad>>
       \/ /\ \A j \in DOMAIN row \ {i} : row[j].name # NewName(i)
          /\ row' = [row EXCEPT ![i].name = NewName(i)] /\ UNCHANGED <<main, refused, bad>>
    /\ UNCHANGED <<want, ifsnap, part>>

\* Some or, when no call fails, all of S.
IfDone(S, D) == IF D = S THEN UNCHANGED bad ELSE bad < MaxIfFaults /\ bad' = bad + 1

\* Addresses BECS does not have go; when the primary one went, it is cleared.
DeleteAddr(i) ==
    /\ part = "unaddress" /\ i \in ifleft /\ ifleft' = ifleft \ {i}
    /\ \/ ifsnap[i].oid \notin DOMAIN want /\ UNCHANGED <<row, main, bad>>
       \/ /\ ifsnap[i].oid \in DOMAIN want
          /\ LET gone == ifsnap[i].addrs \ want[ifsnap[i].oid].addrs
             IN  \E D \in SUBSET gone :
                     /\ IfDone(gone, D)
                     /\ row' = [row EXCEPT ![i].addrs = @ \ D]
                     /\ main' = IF main \in D THEN 0 ELSE main
    /\ UNCHANGED <<want, ifsnap, part, refused>>

First(S) == CHOOSE a \in S : \A b \in S : a <= b

\* Addresses BECS has are made; loopback0's first one becomes the primary one,
\* unless it could not be made.
CreateAddr(i) ==
    /\ part = "address" /\ i \in ifleft /\ ifleft' = ifleft \ {i}
    /\ \/ ifsnap[i].oid \notin DOMAIN want /\ UNCHANGED <<row, main, bad>>
       \/ /\ ifsnap[i].oid \in DOMAIN want
          /\ LET new == want[ifsnap[i].oid].addrs
             IN  \E D \in SUBSET (new \ ifsnap[i].addrs) :
                     /\ IfDone(new \ ifsnap[i].addrs, D)
                     /\ row' = [row EXCEPT ![i].addrs = @ \cup D]
                     /\ main' = IF ifsnap[i].name = Loopback /\ new # {} /\ First(new) \in ifsnap[i].addrs \cup D
                                THEN First(new) ELSE main
    /\ UNCHANGED <<want, ifsnap, part, refused>>

\* The part is done and the copy read again; a part that changed nothing finds
\* what it had.
PartDone ==
    /\ part # "end" /\ ifleft = {}
    /\ part' = CASE part = "delete" -> "create" [] part = "create" -> "rename" [] part \in {"rename", "rest"} -> "unaddress"
                 [] part = "unaddress" -> "address" [] OTHER -> "end"
    /\ ifsnap' = row
    /\ ifleft' = CASE part = "delete" -> DOMAIN want
                 [] part = "create" -> {i \in DOMAIN row : row[i].oid \in DOMAIN want /\ want[row[i].oid].name # row[i].name}
                 [] part = "address" -> {}
                 [] OTHER -> DOMAIN row
    /\ UNCHANGED <<want, row, main, refused, bad>>

IfNext ==
    \/ PartDone \/ NameCycle
    \/ \E i \in ifleft : DeleteRow(i) \/ CreateRow(i) \/ Rename(i) \/ DeleteAddr(i) \/ CreateAddr(i)

IfSpec == IfInit /\ [][IfNext]_ifvars

-----------------------------------------------------------------------------

IfTypeOK ==
    /\ DOMAIN want \subseteq IfOid /\ DOMAIN row \subseteq 1..MaxRow
    /\ \A i \in DOMAIN row : row[i].name \in IfName /\ row[i].oid \in IfOid \cup {0}
    /\ part \in {"delete", "create", "rename", "rest", "unaddress", "address", "end"} /\ bad \in 0..MaxIfFaults

\* NetBox refuses a rename only when the names really collide: the new name
\* is one a row keeps, or the renames form a cycle (syncInterfaceSettings:
\* "Apply renames in an order that avoids colliding with a name that is itself
\* about to be renamed away").
RefusedOnlyOnCollision ==
    part = "rename" /\ bad = 0 /\ refused # {} =>
        \E i \in DOMAIN ifsnap : ~Renames(i) /\ \E j \in DOMAIN ifsnap : Renames(j) /\ NewName(j) = ifsnap[i].name

\* When no call failed and no rename was refused, the device has exactly
\* BECS's interfaces under BECS's ids, with their names and their addresses,
\* and its primary address is one it still has (run).
IfMirrors ==
    part = "end" /\ bad = 0 /\ refused = {} =>
        /\ \A o \in DOMAIN want : \E i \in DOMAIN row :
               row[i] = [name |-> want[o].name, oid |-> o, addrs |-> want[o].addrs]
        /\ \A i \in DOMAIN row : row[i].oid \in DOMAIN want \cup {0}
        /\ main \in {0} \cup AddrsOf(row)
=============================================================================
