------------------------------ MODULE MCNetbox ------------------------------
(***************************************************************************)
(* What Factum keeps in step with NetBox, BECS and the devices for TLC,    *)
(* each part on its own: placements, cables, interfaces, L2VPNs, prefixes, *)
(* tenants, the device sync and the BECS sync.                             *)
(***************************************************************************)

EXTENDS NetboxSync, Placement, Cables, NetboxRecords, DeviceSync, BecsSync, TLC

-----------------------------------------------------------------------------
\* Two racks, their devices and three requests.

PL_P(d, r, o, v) == [kind |-> "place", dev |-> d, rack |-> r, off |-> o, face |-> "front", ver |-> v, to |-> 0]
PL_U(d, v) == [kind |-> "unmount", dev |-> d, rack |-> 1, off |-> 0, face |-> "front", ver |-> v, to |-> 0]
PL_W(k, d, r, t) == [kind |-> k, dev |-> d, rack |-> r, off |-> 0, face |-> "front", ver |-> 0, to |-> t]
PL_EditList ==
    <<PL_P("d", 1, 0, 0), PL_P("d", 2, 2, 1), PL_P("e", 1, 2, 0), PL_P("e", 2, 0, 0),
      PL_P("e", 1, 1, 0), PL_U("d", 0), PL_U("e", 1), PL_W("shrink", "d", 1, 2),
      PL_W("delete", "d", 2, 0), PL_W("resize", "d", 1, 4)>>
PL_Edits == {PL_EditList[i] : i \in DOMAIN PL_EditList}
\* The requests are alike: one assignment of edits to them stands for its permutations.
PL_Rank(e) == CHOOSE i \in DOMAIN PL_EditList : PL_EditList[i] = e
PL_Ordered ==
    \A p, q \in Proc : [p |-> 1, q |-> 2, r |-> 3][p] < [p |-> 1, q |-> 2, r |-> 3][q]
                           => PL_Rank(edit[p]) <= PL_Rank(edit[q])
PL_At == {<<1, 1>>}
PL_On(r) == [rack |-> r, off |-> 0, face |-> "front", local |-> TRUE, ver |-> 1]
PL_Start == {[d \in Device |-> Unplaced],
             [d \in Device |-> IF d = "d" THEN [PL_On(1) EXCEPT !.local = FALSE] ELSE Unplaced],
             [d \in Device |-> IF d = "d" THEN PL_On(1) ELSE PL_On(2)]}

-----------------------------------------------------------------------------
\* The L2VPNs and services an import starts from.

LV_Iface == (11 :> [dev |-> 1, row |-> 1, parent |-> 0, stem |-> 1, unit |-> 0])
         @@ (12 :> [dev |-> 1, row |-> 2, parent |-> 11, stem |-> 1, unit |-> 5])
         @@ (21 :> [dev |-> 2, row |-> 3, parent |-> 0, stem |-> 1, unit |-> 0])
         @@ (22 :> [dev |-> 2, row |-> 4, parent |-> 0, stem |-> 1, unit |-> 5])
         @@ (31 :> [dev |-> 3, row |-> 5, parent |-> 0, stem |-> 1, unit |-> 0])
         @@ (41 :> [dev |-> 4, row |-> 6, parent |-> 0, stem |-> 1, unit |-> 0])
         @@ (42 :> [dev |-> 4, row |-> 7, parent |-> 41, stem |-> 2, unit |-> 0])
         @@ (51 :> [dev |-> 5, row |-> 8, parent |-> 0, stem |-> 1, unit |-> 0])
LV_Types == ("evpl" :> [name |-> "ELINE", max |-> 2]) @@ ("vpls" :> [name |-> "ELAN", max |-> 0])
LV_Rank == ("S" :> 1) @@ ("T" :> 2) @@ ("U" :> 3)
LV_Three == (1 :> 12) @@ (2 :> 22) @@ (3 :> 31)
LV_Two == (4 :> 42) @@ (5 :> 41)
LV_Bodies == {[name |-> "S", type |-> "evpl", ident |-> 0, terms |-> LV_Three],
              [name |-> "S", type |-> "vpls", ident |-> 7, terms |-> LV_Three],
              [name |-> "T", type |-> "evpl", ident |-> 7, terms |-> LV_Two],
              [name |-> "U", type |-> "evpl", ident |-> 8, terms |-> (6 :> 51)],
              [name |-> "S", type |-> "vxlan", ident |-> 0, terms |-> LV_Two]}
LV_New == [type |-> "", l2id |-> 0, pw |-> 0, eps |-> {}]
LV_Hand == {[dev |-> 3, ifc |-> 5, vlan |-> 9, sub |-> 0, term |-> 0, other |-> 1]}
LV_Puts == {{}, LV_Hand}
LV_Starts == {[l2 |-> f, svc |-> ("S" :> LV_New) @@ ("T" :> [LV_New EXCEPT !.type = "ELINE", !.pw = 3, !.eps = LV_Hand]),
               known |-> {11, 12, 22, 31, 41, 42, 51}, kids |-> ("T" :> {EndpointIdentity(e) : e \in LV_Hand})] :
                 f \in {1 :> b : b \in LV_Bodies}}

-----------------------------------------------------------------------------
\* The VRFs and prefixes of NetBox and Factum a sync starts from.

PS_F(v) == [id |-> 1, vrf |-> v, cidr |-> "a", nb |-> 1]
PS_SyncStarts ==
    {[nv |-> (1 :> [name |-> "x", uniq |-> u]), np |-> (1 :> [vrf |-> v, cidr |-> "a"]),
      fv |-> (1 :> [name |-> "x", uniq |-> u]), fp |-> {PS_F(v)}, held |-> h] : u \in BOOLEAN, v \in {0, 1}, h \in {{}, {1}}}

-----------------------------------------------------------------------------
(* Customers and tenants. *)

TS_Name == {<<"acme", "low">>, <<"acme", "up">>, <<"beta", "low">>}

\* Two customers (of one name, or of two), one or two contacts, and tenants and
\* NetBox contacts made by hand, by an earlier sync, or for a deleted customer.
TS_Starts ==
  LET hand(n, c) == [name |-> n, slug |-> <<ToLower(n), 0, 0>>, tag |-> c]
      person(e) == [named |-> TRUE, email |-> e] IN
  {[book |-> [NoBook EXCEPT !.customers[2] = n, !.customers[3] = m, !.used = {1, 2, 3},
                            !.contacts[2] = person("e"), !.contacts[3] = c, !.links = {<<2, 2>>, <<3, 2>>}],
    tenants |-> [NoTenants EXCEPT ![1] = t],
    people |-> [NoPeople EXCEPT ![1] = q]] :
     n \in {<<"acme", "low">>}, m \in {<<"acme", "up">>, <<"beta", "low">>},
     c \in {None, person("e"), [named |-> FALSE, email |-> "e"]},
     t \in {None, hand(<<"acme", "up">>, 0), hand(<<"acme", "low">>, 1), hand(<<"beta", "low">>, 2)},
     q \in {None, [email |-> "e", tag |-> 0], [email |-> "e", tag |-> 1]}}

-----------------------------------------------------------------------------
(* The interfaces of a device. *)

\* Four spellings of two names.
DI_Nm(k, l, u) == [key |-> k, long |-> l, upper |-> u]
DI_Upper == DI_Nm(1, TRUE, TRUE)
DI_Long  == DI_Nm(1, TRUE, FALSE)
DI_Short == DI_Nm(1, FALSE, FALSE)
DI_Other == DI_Nm(2, TRUE, FALSE)
DI_Names == {DI_Upper, DI_Long, DI_Short, DI_Other}

\* NetBox: nothing, one interface with at most one address, or two interfaces
\* of one name with up to two addresses on the first.
DI_Addr(i, p, v, r) == [id |-> i, pfx |-> p, vrf |-> v, role |-> r]
DI_One == {{}, {DI_Addr(11, 2, "", "")}} \cup {{DI_Addr(11, 1, v, r)} : v \in Vrfs, r \in {"", "anycast"}}
DI_Two == {{}} \cup {{DI_Addr(11, 1, v, ""), DI_Addr(12, 1, w, "")} : v, w \in {"", "v"}}
DI_Row(n, d, A) == [name |-> n, desc |-> d, addrs |-> A]
DI_Starts ==
    {<<>>} \cup {<<DI_Row(n, "plain", A)>> : n \in DI_Names \ {DI_Upper}, A \in DI_One}
    \cup {<<DI_Row(DI_Long, "anycast", A)>> : A \in DI_One}
    \cup {<<DI_Row(p[1], "plain", A), DI_Row(p[2], "plain", {})>> :
            A \in DI_Two, p \in {q \in (DI_Names \ {DI_Other}) \X (DI_Names \ {DI_Other}) : q[1] # q[2]}}

\* The device: one interface, or two spellings of one name.
DI_DAddr(p, v, i) == [pfx |-> p, vrf |-> v, pos |-> i]
DI_DSets == {{}} \cup {{DI_DAddr(1, v, 1)} : v \in Vrfs} \cup {{DI_DAddr(1, "", 1), DI_DAddr(1, "v", 2)}}
DI_Configs ==
    {[n \in {m} |-> [desc |-> d, addrs |-> A]] : m \in {DI_Long, DI_Other}, d \in Descs, A \in DI_DSets}
    \cup {[n \in {DI_Upper, DI_Short} |-> [desc |-> "plain", addrs |-> IF n.long THEN A ELSE {}]] :
            A \in DI_DSets}

-----------------------------------------------------------------------------
\* Five ports on four devices, one of them optical, with up to two cables.

DC_Ports == {"p", "z", "q", "x", "y"}
DC_Devs == [p |-> "D", z |-> "D", q |-> "Q", x |-> "X", y |-> "O"]
DC_Peers == [p |-> "q", q |-> "p", z |-> "x", x |-> "z"]
DC_Pairs == {{a, b} : a, b \in DC_Ports} \ {{a} : a \in DC_Ports}
DC_Mats == UNION {[1..n -> [ends : DC_Pairs, lldp : BOOLEAN]] : n \in 0..2}
DC_Plants == {f \in DC_Mats : \A i, j \in DOMAIN f : i # j => f[i].ends \cap f[j].ends = {}}

-----------------------------------------------------------------------------
\* The states of BECS and NetBox a sync of devices starts from.

\* BECS: any of the elements, with names of their own.
BS_AnyBecs == {f \in UNION {[S -> [name : DevName, enabled : {TRUE}]] : S \in SUBSET Oid} :
                 \A o, p \in DOMAIN f : o # p => f[o].name # f[p].name}
\* NetBox: up to two devices, with names and ids of their own.
BS_Dv(n, o, e) == [name |-> n, oid |-> o, enabled |-> e, ifs |-> e, primary |-> e]
BS_AnyDev == {f \in UNION {[1..n -> {BS_Dv(x, o, e) : x \in DevName, o \in Oid \cup {0}, e \in BOOLEAN}] : n \in 0..2} :
                 \A i, j \in DOMAIN f : i # j => f[i].name # f[j].name /\ (f[i].oid = 0 \/ f[i].oid # f[j].oid)}
BS_AnyStart == [becs : BS_AnyBecs, dev : BS_AnyDev]
\* No element has the name of another element's device.
BS_Apart == {s \in BS_AnyStart : \A i \in DOMAIN s.dev, o \in DOMAIN s.becs :
            s.dev[i].oid \in DOMAIN s.becs /\ s.dev[i].name = s.becs[o].name => s.dev[i].oid = o}

-----------------------------------------------------------------------------
\* The interfaces and addresses a sync from BECS starts from.

BI_Wants == {f \in UNION {[S -> [name : IfName, addrs : {{}, {11, 12}}]] : S \in SUBSET IfOid} :
            \A o, p \in DOMAIN f : o # p => f[o].name # f[p].name /\ f[o].addrs \cap f[p].addrs = {}}
BI_Rows == {f \in UNION {[1..n -> {[name |-> x, oid |-> o, addrs |-> a] : x \in IfName, o \in IfOid \cup {0}, a \in {{}, {13}}}] : n \in 0..2} :
            \A i, j \in DOMAIN f : i < j => /\ f[i].name # f[j].name /\ (f[i].oid = 0 \/ f[i].oid # f[j].oid)
                                            /\ f[i].addrs \cap f[j].addrs = {} /\ f[i].oid <= f[j].oid /\ f[j].addrs = {}}
BI_IfStarts == {s \in [want : BI_Wants, row : BI_Rows, main : {0, 13}] : s.main \in {0} \cup AddrsOf(s.row)}
\* No interface that is new to NetBox has the name of another one's row.
BI_IfApart == {s \in BI_IfStarts : \A o \in DOMAIN s.want :
              (\A i \in DOMAIN s.row : s.row[i].oid # o) =>
                  \A i \in DOMAIN s.row : s.row[i].name = s.want[o].name => s.row[i].oid \notin DOMAIN s.want}

-----------------------------------------------------------------------------
VARIABLE
    sys     \* the component that runs in this behaviour; the variables of the others stay put

CablesOff ==
    /\ rows = 0 /\ cableId = 0 /\ lastRow = 0 /\ nbc = 0 /\ changed = 0 /\ req = 0 /\ sync = 0
    /\ calm = 0 /\ edits = 0 /\ syncs = 0

IfacesOff ==
    /\ iface = 0 /\ before = 0 /\ payload = 0 /\ match = 0 /\ step = 0

L2vpnsOff ==
    /\ l2 = 0 /\ svc = 0 /\ kids = 0 /\ known = 0 /\ imp = 0 /\ claims = 0 /\ l2whole = 0
    /\ l2imports = 0 /\ l2edits = 0 /\ l2faults = 0

PrefixesOff ==
    /\ nv = 0 /\ np = 0 /\ fv = 0 /\ fp = 0 /\ held = 0 /\ syncAt = 0 /\ fetched = 0 /\ mem = 0
    /\ left = 0 /\ met = 0 /\ post = 0 /\ settled = 0 /\ nbEdits = 0 /\ pfxSyncs = 0
    /\ pfxFaults = 0

TenantsOff ==
    /\ book = 0 /\ tenants = 0 /\ people = 0 /\ assigned = 0 /\ tsync = 0 /\ apart = 0
    /\ whole = 0 /\ crossed = 0 /\ skipped = 0 /\ truns = 0 /\ tevents = 0

InventoryOff ==
    /\ nb = 0 /\ snap = 0 /\ dev = 0 /\ template = 0 /\ primary = 0 /\ first = 0 /\ at = 0
    /\ runs = 0 /\ failed = 0 /\ wrote = 0

LldpOff ==
    /\ cable = 0 /\ mirrored = 0 /\ loaded = 0 /\ cached = 0 /\ links = 0 /\ phase = 0
    /\ fails = 0

BecsOff ==
    /\ becs = 0 /\ nbdev = 0 /\ devByName = 0 /\ devByOid = 0 /\ becsAt = 0 /\ todo = 0
    /\ fixes = 0 /\ nbWritten = 0 /\ noted = 0 /\ synced = 0 /\ becsRuns = 0 /\ faults = 0

BecsifsOff ==
    /\ want = 0 /\ row = 0 /\ main = 0 /\ ifsnap = 0 /\ part = 0 /\ ifleft = 0 /\ refused = 0
    /\ bad = 0

PackInit ==
    /\ sys \in {"mirror", "racks", "cables", "ifaces", "l2vpns", "prefixes", "tenants", "inventory", "lldp", "becs", "becsifs"}
    /\ NbInit
    /\ sys # "mirror" => cursor = -1
    /\ Init /\ PL_Ordered
    /\ sys # "racks" => place = [d \in Device |-> Unplaced] /\ edit = [p \in Proc |-> CHOOSE e \in Edits : TRUE]
    /\ IF sys = "cables" THEN CableInit ELSE CablesOff
    /\ IF sys = "ifaces" THEN IfaceInit ELSE IfacesOff
    /\ IF sys = "l2vpns" THEN L2Init ELSE L2vpnsOff
    /\ IF sys = "prefixes" THEN PfxInit ELSE PrefixesOff
    /\ IF sys = "tenants" THEN TenantInit ELSE TenantsOff
    /\ IF sys = "inventory" THEN InvInit ELSE InventoryOff
    /\ IF sys = "lldp" THEN LldpInit ELSE LldpOff
    /\ IF sys = "becs" THEN BecsInit ELSE BecsOff
    /\ IF sys = "becsifs" THEN IfInit ELSE BecsifsOff

PackNext ==
    \/ sys = "mirror" /\ NbNext
       /\ UNCHANGED <<sys, vars, cablevars, ifacevars, l2vars, pfxvars, tenantvars, invvars,
                        lldpvars, becsvars, ifvars>>
    \/ sys = "racks" /\ Next
       /\ UNCHANGED <<sys, nbsyncvars, cablevars, ifacevars, l2vars, pfxvars, tenantvars, invvars,
                        lldpvars, becsvars, ifvars>>
    \/ sys = "cables" /\ CableNext
       /\ UNCHANGED <<sys, nbsyncvars, vars, ifacevars, l2vars, pfxvars, tenantvars, invvars,
                        lldpvars, becsvars, ifvars>>
    \/ sys = "ifaces" /\ IfaceNext
       /\ UNCHANGED <<sys, nbsyncvars, vars, cablevars, l2vars, pfxvars, tenantvars, invvars,
                        lldpvars, becsvars, ifvars>>
    \/ sys = "l2vpns" /\ L2Next
       /\ UNCHANGED <<sys, nbsyncvars, vars, cablevars, ifacevars, pfxvars, tenantvars, invvars,
                        lldpvars, becsvars, ifvars>>
    \/ sys = "prefixes" /\ PfxNext
       /\ UNCHANGED <<sys, nbsyncvars, vars, cablevars, ifacevars, l2vars, tenantvars, invvars,
                        lldpvars, becsvars, ifvars>>
    \/ sys = "tenants" /\ TenantNext
       /\ UNCHANGED <<sys, nbsyncvars, vars, cablevars, ifacevars, l2vars, pfxvars, invvars,
                        lldpvars, becsvars, ifvars>>
    \/ sys = "inventory" /\ InvNext
       /\ UNCHANGED <<sys, nbsyncvars, vars, cablevars, ifacevars, l2vars, pfxvars, tenantvars,
                        lldpvars, becsvars, ifvars>>
    \/ sys = "lldp" /\ LldpNext
       /\ UNCHANGED <<sys, nbsyncvars, vars, cablevars, ifacevars, l2vars, pfxvars, tenantvars,
                        invvars, becsvars, ifvars>>
    \/ sys = "becs" /\ BecsNext
       /\ UNCHANGED <<sys, nbsyncvars, vars, cablevars, ifacevars, l2vars, pfxvars, tenantvars,
                        invvars, lldpvars, ifvars>>
    \/ sys = "becsifs" /\ IfNext
       /\ UNCHANGED <<sys, nbsyncvars, vars, cablevars, ifacevars, l2vars, pfxvars, tenantvars,
                        invvars, lldpvars, becsvars>>

PackVars == <<sys, nbsyncvars, vars, cablevars, ifacevars, l2vars, pfxvars, tenantvars, invvars, lldpvars, becsvars, ifvars>>

PackSpec == PackInit /\ [][PackNext]_PackVars

-----------------------------------------------------------------------------
\* Cables: a changed cable that was applied undisturbed is NetBox's, alone on its ports, and a full
\* sync repairs whatever requests and events left behind.
CablesSettle ==
    /\ [](sys = "cables" => CableTypeOK)
    /\ [][sys = "cables" => DeltaSettles /\ FullRepairs]_PackVars

\* The import of a NetBox device and of its L2VPNs: an interface keeps its row through renames and
\* recreations, a sync fails only on a payload that repeats a name, and a service's ends are those
\* of its L2VPN when an import has run through undisturbed.
\* Two undisturbed syncs mirror NetBox's prefixes whatever the rows were before, and no sync drops
\* a row that is mirrored or held.
ImportKeeps ==
    /\ [](sys = "ifaces" => IfaceTypeOK /\ KeepsIdentity /\ FailsOnlyOnRepeats)
    /\ [](sys = "l2vpns" => L2TypeOK /\ EndsMirrored)
    /\ [](sys = "prefixes" => PfxTypeOK /\ TwoSyncsMirror)
    /\ [][sys = "prefixes" => MirroredStays]_PackVars

\* Tenants: after an undisturbed sync every customer and contact is in NetBox, and a tenant that
\* belongs to a customer is never given to another.
TenantsPlaced ==
    /\ [](sys = "tenants" => TenantTypeOK /\ AllPlaced)
    /\ [][sys = "tenants" => TenantNotStolen]_PackVars

\* The device sync: the primary address stays on the device, interfaces and addresses keep their
\* ids, a third run changes nothing, a run without a failure leaves NetBox as the device is; a
\* manual cable is never touched and a right link is never undone.
DeviceMirrored ==
    /\ [](sys = "inventory" => InvTypeOK /\ IdsKept /\ ThirdIsQuiet /\ Synced)
    /\ [](sys = "lldp" => LldpTypeOK)
    /\ [][sys = "inventory" => PrimaryStays]_PackVars
    /\ [][sys = "lldp" => ManualStays /\ RightStays]_PackVars

\* The BECS sync: a device goes only when BECS lost its element; a run without an error leaves
\* every element a device and every interface a row; NetBox refuses only names that collide.
BecsMirrored ==
    /\ [](sys = "becs" => BecsTypeOK /\ Mirrors)
    /\ [](sys = "becsifs" => IfTypeOK /\ RefusedOnlyOnCollision /\ IfMirrors)
    /\ [][sys = "becs" => DeletesGone]_PackVars
=============================================================================
