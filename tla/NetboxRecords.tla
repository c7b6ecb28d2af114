--------------------------- MODULE NetboxRecords ----------------------------
(***************************************************************************)
(* The records a NetBox sync carries over besides devices: the interfaces  *)
(* of a device, L2VPNs, VRFs and prefixes, and, the other way, customers   *)
(* and contacts.  Each is a machine of its own.                            *)
(***************************************************************************)
EXTENDS Integers, FiniteSets, Sequences, FiniteSetsExt, TLC, Functions

-----------------------------------------------------------------------------
(***************************************************************************)
(* The interfaces of one device are made those NetBox has, statement by    *)
(* statement, in a transaction (reconcileInterfaces, syncAddresses and     *)
(* deleteInterface of internal/netbox/factum2-netbox.go).  Two indexes of  *)
(* the table hold after every statement: one row per name, and one per     *)
(* NetBox id other than 0.                                                 *)
(***************************************************************************)

CONSTANTS
    Names,     \* interface names
    NbIds,     \* NetBox interface ids
    Addrs,     \* NetBox address ids
    MaxRows,   \* bound: rows and interfaces
    NoRow      \* not matched

VARIABLES
    iface,     \* the rows: id -> [nb, name, addr]; name <<"tmp", id>> while renaming
    before,    \* the rows when the sync began
    payload,   \* what NetBox sent, a sequence of [nb, name, addr]
    match,     \* the row each interface of the payload is written to
    step       \* [at, n]: the phase and the next interface in it

ifacevars == <<iface, before, payload, match, step>>

Row(nb, name, addr) == [nb |-> nb, name |-> name, addr |-> addr]
LocalAddr == 0

\* A table that satisfies the indexes; netbox id 0 is factum's own interface,
\* address 0 factum's own address.  NetBox ids have no order, so row i has id i.
Tables ==
    {t \in UNION {[1..n -> [nb : NbIds \cup {0}, name : Names, addr : SUBSET (Addrs \cup {LocalAddr})]]
                    : n \in 0..MaxRows} :
        \A i, j \in DOMAIN t : t[i].nb \in {0, i} /\ (i # j => t[i].name # t[j].name)}

\* What NetBox sends; it may send an id or a name twice.
Payloads == UNION {[1..n -> [nb : NbIds, name : Names, addr : SUBSET Addrs]] : n \in 0..MaxRows}

IfaceInit ==
    /\ iface \in Tables /\ before = iface
    /\ payload \in Payloads
    /\ match = <<>> /\ step = [at |-> "match", n |-> 1]

-----------------------------------------------------------------------------

\* Mutant of ByNbId: interfaces are matched by name alone.
ByNbIdNot(i) == {}

\* Rows are claimed by NetBox id first, then by name among those left.
ByNbId(i) == {r \in DOMAIN iface : iface[r].nb = payload[i].nb}
FirstById == [i \in DOMAIN payload |->
                IF ByNbId(i) = {} THEN NoRow ELSE CHOOSE r \in ByNbId(i) : TRUE]
ByName(i) == {r \in DOMAIN iface : iface[r].name = payload[i].name
                                   /\ \A j \in DOMAIN payload : FirstById[j] # r}
Claim == [i \in DOMAIN payload |->
            IF FirstById[i] # NoRow THEN FirstById[i]
            ELSE IF ByName(i) = {} THEN NoRow ELSE CHOOSE r \in ByName(i) : TRUE]

Twice(f) == \E i, j \in DOMAIN payload : i # j /\ f[i] = f[j]
Ids == [i \in DOMAIN payload |-> payload[i].nb]
FinalNames == [i \in DOMAIN payload |-> payload[i].name]

Match ==
    /\ step.at = "match"
    /\ IF Twice(Ids) \/ Twice(FinalNames)
       THEN step' = [at |-> "failed", n |-> 1] /\ UNCHANGED match
       ELSE match' = Claim /\ step' = [at |-> "delete", n |-> 1]
    /\ UNCHANGED <<iface, before, payload>>

Claimed == {match[i] : i \in DOMAIN match} \ {NoRow}
DropIface(f, k) == [x \in DOMAIN f \ {k} |-> f[x]]

\* Rows the payload does not keep go first, with their addresses.
DeleteIface ==
    /\ step.at = "delete"
    /\ IF DOMAIN iface \subseteq Claimed
       THEN step' = [at |-> "rename", n |-> 1] /\ UNCHANGED iface
       ELSE /\ \E r \in DOMAIN iface \ Claimed : iface' = DropIface(iface, r)
            /\ UNCHANGED step
    /\ UNCHANGED <<before, payload, match>>

\* Mutant of OffName: a row keeps its old name until it is saved.
OffNameKept(r) == iface[r].name

\* interfaceSyncTempName: a name no interface can have.
OffName(r) == <<"tmp", r>>

IfaceRenames(i) == match[i] # NoRow /\ iface[match[i]].name # payload[i].name

RenameIface ==
    /\ step.at = "rename"
    /\ IF step.n > Len(payload)
       THEN step' = [at |-> "save", n |-> 1] /\ UNCHANGED iface
       ELSE /\ step' = [step EXCEPT !.n = @ + 1]
            /\ iface' = IF IfaceRenames(step.n)
                        THEN [iface EXCEPT ![match[step.n]].name = OffName(match[step.n])]
                        ELSE iface
    /\ UNCHANGED <<before, payload, match>>

\* syncAddresses: NetBox's addresses, and the ones factum made.
Kept(addr) == addr \cap {LocalAddr}

NewIface == CHOOSE n \in 1..(2 * MaxRows + 1) :
            n \notin DOMAIN iface \cup DOMAIN before
            /\ \A m \in 1..(n - 1) : m \in DOMAIN iface \cup DOMAIN before

Trips(r, new) ==
    \E q \in DOMAIN iface \ {r} :
        iface[q].name = new.name \/ (new.nb # 0 /\ iface[q].nb = new.nb)

\* Create or Save; a statement that breaks an index fails the transaction.
SaveIface ==
    LET i == step.n
        r == IF match[i] = NoRow THEN NewIface ELSE match[i]
        new == Row(payload[i].nb, payload[i].name,
                   payload[i].addr \cup IF match[i] = NoRow THEN {} ELSE Kept(iface[r].addr))
    IN /\ step.at = "save"
       /\ IF i > Len(payload) THEN step' = [at |-> "done", n |-> 1] /\ UNCHANGED iface
          ELSE IF Trips(r, new) THEN step' = [at |-> "failed", n |-> 1] /\ iface' = before
          ELSE /\ step' = [step EXCEPT !.n = @ + 1]
               /\ iface' = [x \in DOMAIN iface \cup {r} |-> IF x = r THEN new ELSE iface[x]]
       /\ UNCHANGED <<before, payload, match>>

IfaceNext == Match \/ DeleteIface \/ RenameIface \/ SaveIface

IfaceSpec == IfaceInit /\ [][IfaceNext]_ifacevars

-----------------------------------------------------------------------------

IfaceTypeOK == step.n \in 1..(MaxRows + 1) /\ DOMAIN iface \subseteq 1..(2 * MaxRows + 1)

\* Names that move between rows, in a swap or a cycle of any length, never trip
\* an index: the sync fails only on a payload that repeats an id or a name
\* (reconcileInterfaces).
FailsOnlyOnRepeats == step.at = "failed" => Twice(Ids) \/ Twice(FinalNames)

\* What the sync leaves: exactly NetBox's interfaces, each on the row that
\* already had its id -- so that what hangs off the row stays with the
\* interface through a rename -- or, when the id is new, on the row that had
\* its name; addresses made in factum stay (reconcileInterfaces,
\* syncAddresses).
KeepsIdentity ==
    step.at = "done" =>
        /\ {<<iface[r].nb, iface[r].name>> : r \in DOMAIN iface} =
             {<<payload[i].nb, payload[i].name>> : i \in DOMAIN payload}
        /\ \A r \in DOMAIN before :
             /\ (\E i \in DOMAIN payload : payload[i].nb = before[r].nb) =>
                   r \in DOMAIN iface /\ iface[r].nb = before[r].nb
             /\ r \in DOMAIN iface =>
                   /\ iface[r].nb = before[r].nb \/ iface[r].name = before[r].name
                   /\ Kept(iface[r].addr) = Kept(before[r].addr)

-----------------------------------------------------------------------------
(***************************************************************************)
(* The import of NetBox L2VPNs onto services                               *)
(* (internal/netbox/service_eline_import.go), a step of every NetBox sync: *)
(* each L2VPN is matched to a service, its terminations are resolved onto  *)
(* physical ports and written as the service's endpoints.  Services and    *)
(* interfaces are read once at the start; NetBox, operators and the import *)
(* interleave.                                                             *)
(***************************************************************************)

CONSTANTS
    L2Id,           \* NetBox ids of L2VPNs
    NbIface,        \* NetBox id -> [dev, row, parent, stem, unit]: interfaces; parent 0 for none,
                    \* a name is a stem and a unit (0: the bare stem)
    TypeOf,         \* NetBox L2VPN type -> [name, max]: the service types that map one
    L2Service,      \* services, named by their service id
    L2Starts,       \* [l2, svc, known, kids]
    L2Bodies,       \* [name, type, ident, terms] an L2VPN is saved with; terms: id -> NetBox interface
    NameRank,       \* L2VPN name -> its place in NetBox's order of names
    L2Puts,         \* sets of endpoints an operator saves
    NoService,
    MaxL2Imports, MaxL2Edits, MaxL2Faults

VARIABLES
    l2,         \* id -> body: the L2VPNs in NetBox
    svc,        \* service -> [type, l2id, pw, eps]: the rows
    kids,       \* service -> identities of the tree nodes below it; only of attached services
    known,      \* NetBox interfaces Factum has
    imp,        \* the import: where it is, what it has left and what it read at the start
    claims,     \* service -> L2VPNs that matched it in this import
    l2whole,      \* the last import ended, undisturbed so far
    l2imports, l2edits, l2faults

l2vars == <<l2, svc, kids, known, imp, claims, l2whole, l2imports, l2edits, l2faults>>

NoImport == [at |-> "idle", left |-> {}, list |-> <<>>, mem |-> <<>>, byL2 |-> <<>>, ports |-> {}, put |-> NoService, want |-> {}]

L2Init ==
    /\ \E s \in L2Starts : l2 = s.l2 /\ svc = s.svc /\ known = s.known /\ kids = s.kids
    /\ imp = NoImport /\ claims = [s \in L2Service |-> {}]
    /\ l2whole = FALSE
    /\ l2imports = 0 /\ l2edits = 0 /\ l2faults = 0

-----------------------------------------------------------------------------
(* The ends of an L2VPN.                                                   *)

\* splitSubinterfaceName's other way: the interface of the same device that has the stem as its name.
NamedParent(i, ports) ==
    {p \in ports : NbIface[p].dev = NbIface[i].dev /\ NbIface[p].stem = NbIface[i].stem /\ NbIface[p].unit = 0}

\* The physical port, the parent if there is one; none while the parent is not synced.
resolveTerminationInterface(i, ports) ==
    CASE NbIface[i].parent # 0 -> {NbIface[i].parent} \cap ports
      [] NbIface[i].parent = 0 /\ NbIface[i].unit # 0 -> NamedParent(i, ports)
      [] OTHER -> {i}

EncodeEndpointFields(i, p, t) ==
    [dev |-> NbIface[p].dev, ifc |-> NbIface[p].row, vlan |-> NbIface[i].unit,
     sub |-> IF p = i THEN 0 ELSE i, term |-> t, other |-> 0]

resolveL2VPNEnds(terms, ports) ==
    UNION {{EncodeEndpointFields(terms[t], p, t) : p \in resolveTerminationInterface(terms[t], ports)} :
              t \in {t \in DOMAIN terms : terms[t] \in ports}}

\* The sort key: device, port, VLAN; NetBox's order of terminations between equal ones.
SortsBefore(a, b) ==
    \/ a.dev < b.dev
    \/ a.dev = b.dev /\ a.ifc < b.ifc
    \/ a.dev = b.dev /\ a.ifc = b.ifc /\ a.vlan < b.vlan
    \/ a.dev = b.dev /\ a.ifc = b.ifc /\ a.vlan = b.vlan /\ a.term < b.term

\* The ends there are roles for: all of them, or the first max.
EndpointRolesForCount(type, ends) ==
    {e \in ends : type.max = 0 \/ Cardinality({d \in ends : SortsBefore(d, e)}) < type.max}

-----------------------------------------------------------------------------
(* Writing the endpoints of a service and the tree nodes they show as.     *)

\* A node is known by port and VLAN, an untagged one by all its fields.
EndpointIdentity(e) ==
    [dev |-> e.dev, ifc |-> e.ifc, disc |-> IF e.vlan # 0 THEN <<e.vlan>> ELSE <<e.sub, e.term, e.other>>]

projectEndpointScopes(s, eps) ==
    IF s \in DOMAIN kids THEN [kids EXCEPT ![s] = {EndpointIdentity(e) : e \in eps}] ELSE kids

ReplaceEndpoints(s, eps) ==
    /\ svc' = [svc EXCEPT ![s].eps = eps]
    /\ kids' = projectEndpointScopes(s, eps)

-----------------------------------------------------------------------------
(* The import.                                                             *)

\* L2VPNs, services and interfaces are listed once; without any L2VPN it is over.
StartImport ==
    /\ imp.at = "idle" /\ l2imports < MaxL2Imports
    /\ l2imports' = l2imports + 1
    /\ imp' = [at |-> "next", left |-> DOMAIN l2, list |-> l2, ports |-> known,
               mem |-> [s \in L2Service |-> [type |-> svc[s].type, l2id |-> svc[s].l2id, pw |-> svc[s].pw]],
               byL2 |-> [id \in L2Id |-> LET on == {s \in L2Service : svc[s].l2id = id}
                                         IN  IF on = {} THEN NoService ELSE CHOOSE s \in on : TRUE],
               put |-> NoService, want |-> {}]
    /\ claims' = [s \in L2Service |-> {}]
    /\ l2whole' = TRUE
    /\ UNCHANGED <<l2, svc, kids, known, l2edits, l2faults>>

\* The service an L2VPN belongs to: the one stamped with it, else the one it is named after.
ServiceFor(id) ==
    IF imp.byL2[id] # NoService THEN imp.byL2[id]
    ELSE IF imp.list[id].name \in L2Service THEN imp.list[id].name ELSE NoService

\* Types are taken from the rows as read: a service of another type is left alone.
Matches(id, s) ==
    /\ imp.list[id].type \in DOMAIN TypeOf
    /\ s # NoService
    /\ imp.mem[s].type \in {"", TypeOf[imp.list[id].type].name}

\* Terminations are asked for one L2VPN at a time; one deleted since the list has none.
Terms(id) == IF id \in DOMAIN l2 THEN l2[id].terms ELSE <<>>

Want(id) == EndpointRolesForCount(TypeOf[imp.list[id].type], resolveL2VPNEnds(Terms(id), imp.ports))

pseudowireID(id, s) == IF imp.list[id].ident # 0 THEN imp.list[id].ident ELSE imp.mem[s].pw

endpointKey(e) == <<e.dev, e.ifc, e.vlan, e.sub, e.term>>

\* Mutant of serviceEndpointsDiffer: a service already stamped with the L2VPN is taken to have its ends.
serviceEndpointsDifferStamp(id, s) ==
    imp.mem[s] # [type |-> TypeOf[imp.list[id].type].name, l2id |-> id, pw |-> pseudowireID(id, s)]

serviceEndpointsDiffer(id, s) ==
    \/ imp.mem[s] # [type |-> TypeOf[imp.list[id].type].name, l2id |-> id, pw |-> pseudowireID(id, s)]
    \/ {endpointKey(e) : e \in svc[s].eps} # {endpointKey(e) : e \in Want(id)}

\* NetBox lists L2VPNs by name.
Turn(id) ==
    /\ imp.at = "next" /\ id \in imp.left
    /\ \A o \in imp.left : NameRank[imp.list[id].name] <= NameRank[imp.list[o].name]

\* An L2VPN whose service needs nothing, or that has none, or no end that resolves.
SkipL2VPN(id) ==
    /\ Turn(id)
    /\ LET s == ServiceFor(id) IN
         /\ Matches(id, s) /\ Want(id) # {} => ~ serviceEndpointsDiffer(id, s)
         /\ claims' = IF Matches(id, s) /\ Want(id) # {} THEN [claims EXCEPT ![s] = @ \cup {id}] ELSE claims
    /\ imp' = [imp EXCEPT !.left = @ \ {id}]
    /\ UNCHANGED <<l2, svc, kids, known, l2whole, l2imports, l2edits, l2faults>>

\* applyL2VPNEndsToService: the row first, the endpoints in a transaction of their own.
UpdateService(id) ==
    /\ Turn(id)
    /\ LET s == ServiceFor(id)
           row == [type |-> TypeOf[imp.list[id].type].name, l2id |-> id, pw |-> pseudowireID(id, s)]
       IN  /\ Matches(id, s) /\ Want(id) # {} /\ serviceEndpointsDiffer(id, s)
           /\ svc' = [svc EXCEPT ![s] = [type |-> row.type, l2id |-> row.l2id, pw |-> row.pw, eps |-> @.eps]]
           /\ imp' = [imp EXCEPT !.at = "replace", !.left = @ \ {id}, !.put = s, !.want = Want(id),
                                 !.mem[s] = row, !.byL2[id] = s]
           /\ claims' = [claims EXCEPT ![s] = @ \cup {id}]
    /\ UNCHANGED <<l2, kids, known, l2whole, l2imports, l2edits, l2faults>>

WriteEndpoints ==
    /\ imp.at = "replace"
    /\ ReplaceEndpoints(imp.put, imp.want)
    /\ imp' = [imp EXCEPT !.at = "next", !.put = NoService, !.want = {}]
    /\ UNCHANGED <<l2, known, claims, l2whole, l2imports, l2edits, l2faults>>

EndImport ==
    /\ imp.at = "next" /\ imp.left = {}
    /\ imp' = NoImport
    /\ UNCHANGED <<l2, svc, kids, known, claims, l2whole, l2imports, l2edits, l2faults>>

\* NetBox or the database fails: the import ends where it is.
FailImport ==
    /\ imp.at # "idle" /\ l2faults < MaxL2Faults
    /\ l2faults' = l2faults + 1
    /\ imp' = NoImport
    /\ l2whole' = FALSE
    /\ UNCHANGED <<l2, svc, kids, known, claims, l2imports, l2edits>>

-----------------------------------------------------------------------------
(* Everybody else.                                                         *)

Edit ==
    /\ l2edits < MaxL2Edits
    /\ l2edits' = l2edits + 1
    /\ l2whole' = FALSE
    /\ UNCHANGED <<imp, claims, l2imports, l2faults>>

\* NetBox keeps the names of L2VPNs apart.
SaveL2VPN(id, b) ==
    /\ Edit /\ ~ \E o \in DOMAIN l2 \ {id} : l2[o].name = b.name
    /\ l2' = (id :> b) @@ l2
    /\ UNCHANGED <<svc, kids, known>>

DeleteL2VPN(id) ==
    /\ Edit /\ id \in DOMAIN l2
    /\ l2' = [o \in DOMAIN l2 \ {id} |-> l2[o]]
    /\ UNCHANGED <<svc, kids, known>>

\* The interfaces a NetBox sync brought in.
Learn(i) ==
    /\ Edit /\ i \notin known
    /\ known' = known \cup {i}
    /\ UNCHANGED <<l2, svc, kids>>

\* The operator saves the endpoints of a service.
PutEndpoints(s, eps) ==
    /\ Edit /\ svc[s].eps # eps
    /\ ReplaceEndpoints(s, eps)
    /\ UNCHANGED <<l2, known>>

\* The operator gives the service another type.
SetServiceType(s, t) ==
    /\ Edit /\ svc[s].type # t
    /\ svc' = [svc EXCEPT ![s].type = t]
    /\ UNCHANGED <<l2, kids, known>>

AttachService(s) ==
    /\ Edit /\ s \notin DOMAIN kids /\ svc[s].type # ""
    /\ kids' = (s :> {EndpointIdentity(e) : e \in svc[s].eps}) @@ kids
    /\ UNCHANGED <<l2, svc, known>>

L2Next ==
    \/ StartImport \/ WriteEndpoints \/ EndImport \/ FailImport
    \/ \E id \in L2Id : SkipL2VPN(id) \/ UpdateService(id) \/ DeleteL2VPN(id)
    \/ \E id \in L2Id, b \in L2Bodies : SaveL2VPN(id, b)
    \/ \E i \in DOMAIN NbIface : Learn(i)
    \/ \E s \in L2Service : AttachService(s) \/ \E eps \in L2Puts : PutEndpoints(s, eps)
    \/ \E s \in L2Service, t \in {TypeOf[k].name : k \in DOMAIN TypeOf} : SetServiceType(s, t)

L2Spec == L2Init /\ [][L2Next]_l2vars

-----------------------------------------------------------------------------
(* What the import promises.                                               *)

L2TypeOK ==
    /\ DOMAIN l2 \subseteq L2Id
    /\ DOMAIN svc = L2Service /\ DOMAIN kids \subseteq L2Service
    /\ known \subseteq DOMAIN NbIface
    /\ imp.at \in {"idle", "next", "replace"} /\ imp.left \subseteq L2Id

\* A service that one L2VPN matched in an import nothing disturbed is stamped with it and has
\* exactly the ends of it that have a role, each on the port that carries it, and the tree shows
\* those: also after an import that failed between the row and its endpoints.
EndsMirrored ==
    imp.at = "idle" /\ l2whole =>
        \A s \in L2Service : \A id \in L2Id : claims[s] = {id} /\ id \in DOMAIN l2 =>
            LET ends == resolveL2VPNEnds(l2[id].terms, known)
                type == TypeOf[l2[id].type]
            IN  /\ svc[s].type = type.name /\ svc[s].l2id = id
                /\ \A e \in svc[s].eps : NbIface[l2[id].terms[e.term]].dev = e.dev
                /\ {e.term : e \in svc[s].eps} \subseteq {t \in DOMAIN l2[id].terms : l2[id].terms[t] \in known}
                /\ type.max = 0 \/ Cardinality(ends) <= type.max => svc[s].eps = ends
                /\ type.max # 0 => Cardinality(svc[s].eps) <= type.max
                /\ s \in DOMAIN kids => kids[s] = {EndpointIdentity(e) : e \in svc[s].eps}

-----------------------------------------------------------------------------
(***************************************************************************)
(* NetBox's VRFs and prefixes in Factum's Netbox namespace                 *)
(* (internal/netbox/vrfs.go, prefixes.go, web/handle_ipam_netbox.go).  A   *)
(* sync fetches the VRFs and applies them one by one, then the prefixes.   *)
(* A request of the web page allocates a prefix in the namespace, creates  *)
(* it in NetBox and stamps the row with NetBox's id, and takes back what   *)
(* it did when one of these fails.  NetBox keeps a prefix unique in a VRF  *)
(* with Unique IP Space and in the global table (VRF 0).                   *)
(***************************************************************************)

CONSTANTS
    Cidr, VName,
    VrfId,          \* NetBox ids of VRFs, beside 0
    PfxId,          \* NetBox ids of prefixes
    SyncStarts,     \* what there is at the start: [nv, np, fv, fp, held]
    MaxFid, MaxNbEdits, MaxPfxSyncs, MaxPfxFaults

Global == 0                 \* NetBox's global table, Factum's default VRF
NoPfx == 0
Resting == [at |-> "rest", id |-> 0, nb |-> NoPfx]

VARIABLES
    nv,         \* NetBox: nv[v] = [name, uniq] of each VRF
    np,         \* NetBox: np[i] = [vrf, cidr] of each prefix
    fv,         \* Factum: fv[v] = [name, uniq], by NetBox id
    fp,         \* Factum's prefixes: [id, vrf, cidr, nb]; nb 0 for a local one
    held,       \* ids of the prefixes some address row belongs to
    syncAt,     \* where the sync is
    fetched,    \* the page it fetched: a function of NetBox ids
    mem,        \* byNetbox and bySlot: the prefix rows as it knows them
    left, met,  \* the ids of the page still to come, and `seen`
    post,       \* the web request: [at, id, nb]
    settled,    \* full syncs since NetBox or Factum was last edited, nothing failed
    nbEdits, pfxSyncs, pfxFaults

pfxvars == <<nv, np, fv, fp, held, syncAt, fetched, mem, left, met, post, settled, nbEdits, pfxSyncs, pfxFaults>>
nbVars == <<nv, np>>
memVars == <<syncAt, fetched, mem, left, met>>

PfxInit ==
    /\ \E s \in SyncStarts : /\ nv = s.nv /\ np = s.np /\ fv = s.fv /\ fp = s.fp /\ held = s.held
    /\ syncAt = "idle" /\ fetched = << >> /\ mem = {} /\ left = {} /\ met = {}
    /\ post = Resting /\ settled = 0 /\ nbEdits = 0 /\ pfxSyncs = 0 /\ pfxFaults = 0

Cut(f, i) == [j \in DOMAIN f \ {i} |-> f[j]]
Set(f, i, x) == [j \in DOMAIN f \cup {i} |-> IF j = i THEN x ELSE f[j]]
Least(S) == CHOOSE i \in S : \A j \in S : i <= j
FreeFid == CHOOSE i \in 1 .. MaxFid : \A r \in fp : r.id # i
CanInsert == Cardinality(fp) < MaxFid
Replace(R, r, s) == (R \ {r}) \cup {s}
----------------------------------------------------------------------------
(* NetBox's own rules, for edits there and for Factum's creates *)

NbUnique(v) == v = Global \/ nv[v].uniq
NbFree(i, v, c) == NbUnique(v) => \A j \in DOMAIN np \ {i} : np[j] # [vrf |-> v, cidr |-> c]
NbVrfs == DOMAIN nv \cup {Global}

\* A sync under way when something changes does not count.
Disturbed == settled' = IF syncAt = "idle" THEN 0 ELSE -1
Fault == pfxFaults < MaxPfxFaults /\ pfxFaults' = pfxFaults + 1

NbEdit ==
    /\ nbEdits < MaxNbEdits /\ nbEdits' = nbEdits + 1 /\ Disturbed
    /\ \/ \E i \in PfxId, v \in NbVrfs, c \in Cidr : NbFree(i, v, c) /\ np' = Set(np, i, [vrf |-> v, cidr |-> c]) /\ UNCHANGED nv
       \/ \E i \in DOMAIN np : np' = Cut(np, i) /\ UNCHANGED nv
       \/ \E v \in VrfId, n \in VName : (\A w \in DOMAIN nv \ {v} : nv[w].name # n)
             /\ nv' = Set(nv, v, [name |-> n, uniq |-> IF v \in DOMAIN nv THEN nv[v].uniq ELSE TRUE]) /\ UNCHANGED np
       \/ \E v \in DOMAIN nv : (\A i \in DOMAIN np : np[i].vrf # v) /\ nv' = Cut(nv, v) /\ UNCHANGED np
    /\ UNCHANGED <<fv, fp, held, memVars, post, pfxSyncs, pfxFaults>>

----------------------------------------------------------------------------
(* The sync *)

\* syncVRFs fetches.
StartSync ==
    /\ syncAt = "idle" /\ pfxSyncs < MaxPfxSyncs /\ pfxSyncs' = pfxSyncs + 1
    /\ syncAt' = "vrfs" /\ fetched' = nv /\ left' = DOMAIN nv /\ met' = {}
    /\ UNCHANGED <<nbVars, fv, fp, held, mem, post, settled, nbEdits, pfxFaults>>

\* upsertNetboxVRF: a name another VRF of Factum has is skipped.
upsertNetboxVRF ==
    /\ syncAt = "vrfs" /\ left # {}
    /\ LET v == Least(left)  row == fetched[v]
           clash == \E w \in DOMAIN fv \ {v} : fv[w].name = row.name IN
       /\ fv' = IF clash THEN fv ELSE Set(fv, v, row)
       /\ left' = left \ {v} /\ met' = met \cup {v}
    /\ UNCHANGED <<nbVars, fp, held, syncAt, fetched, mem, post, settled, nbEdits, pfxSyncs, pfxFaults>>

\* The delete pass of syncVRFs; an empty fetch deletes nothing (deleteNetboxVRF).
VrfsDone ==
    /\ syncAt = "vrfs" /\ left = {}
    /\ fv' = IF fetched = << >> THEN fv
             ELSE [v \in {w \in DOMAIN fv : w \in met \/ \E r \in fp : r.vrf = w} |-> fv[v]]
    /\ syncAt' = "fetch" /\ fetched' = << >> /\ met' = {}
    /\ UNCHANGED <<nbVars, fp, held, mem, left, post, settled, nbEdits, pfxSyncs, pfxFaults>>

\* syncPrefixes fetches NetBox's prefixes ...
FetchPrefixes ==
    /\ syncAt = "fetch" /\ syncAt' = "load" /\ fetched' = np /\ left' = DOMAIN np
    /\ UNCHANGED <<nbVars, fv, fp, held, mem, met, post, settled, nbEdits, pfxSyncs, pfxFaults>>

\* ... and then reads the rows Factum has.
LoadPrefixes ==
    /\ syncAt = "load" /\ syncAt' = "prefixes" /\ mem' = fp
    /\ UNCHANGED <<nbVars, fv, fp, held, fetched, left, met, post, settled, nbEdits, pfxSyncs, pfxFaults>>

prefixSpaceUnique(v) == v = Global \/ fv[v].uniq
occupant(v, c, self) == IF prefixSpaceUnique(v) THEN {r \in mem : r.vrf = v /\ r.cidr = c /\ r.id # self} ELSE {}
resolveVRF(v) == v = Global \/ v \in DOMAIN fv
ByNetbox(i) == {r \in mem : r.nb = i}
\* The unique indexes of ipam_prefixes: NetBox's id, and the CIDR of a local row.
IndexFree(r) == \A o \in fp : o.id # r.id => (r.nb # NoPfx => o.nb # r.nb) /\ (r.nb = NoPfx /\ o.nb = NoPfx => o.cidr # r.cidr)

\* Mutant of Marked: only a row that was applied counts as seen.
MarkedApplied(i, applied) == IF applied THEN met \cup {i} ELSE met

\* A row Factum mirrors already counts as seen even when it is skipped.
Marked(i, applied) == IF applied \/ ByNetbox(i) # {} THEN met \cup {i} ELSE met

Skip(i) == met' = Marked(i, FALSE) /\ left' = left \ {i} /\ UNCHANGED <<fp, mem, syncAt>>
\* The database refuses the write: the sync ends with an error.
AbortSync == syncAt' = "idle" /\ left' = {} /\ mem' = {} /\ met' = {} /\ UNCHANGED fp
Apply(i, old, new) ==
    IF IndexFree(new)
    THEN /\ fp' = IF old \in fp \/ \E o \in fp : o.id = new.id
                  THEN {IF o.id = new.id THEN new ELSE o : o \in fp}
                  ELSE IF old = new THEN fp \cup {new} ELSE fp    \* updating a row that is gone writes nothing
         /\ mem' = Replace(mem, old, new) /\ met' = Marked(i, TRUE) /\ left' = left \ {i} /\ UNCHANGED syncAt
    ELSE AbortSync

\* upsert's adopt: the row whose NetBox id is no longer in the page keeps its own id.
Adoptable(i, v, c) == {o \in occupant(v, c, 0) : o.nb # NoPfx /\ o.nb \notin DOMAIN fetched}

upsert ==
    /\ syncAt = "prefixes" /\ left # {}
    /\ LET i == Least(left)  v == fetched[i].vrf  c == fetched[i].cidr
           Fresh(id) == [id |-> id, vrf |-> v, cidr |-> c, nb |-> i] IN
       IF ~resolveVRF(v) THEN Skip(i)
       ELSE IF ByNetbox(i) # {}
            THEN \E old \in ByNetbox(i) : IF occupant(v, c, old.id) # {} THEN Skip(i)
                                          ELSE Apply(i, old, Fresh(old.id))
            ELSE \/ \E o \in Adoptable(i, v, c) : Apply(i, o, Fresh(o.id))
                 \/ Adoptable(i, v, c) = {} /\ occupant(v, c, 0) # {} /\ Skip(i)
                 \/ occupant(v, c, 0) = {} /\ CanInsert /\ Apply(i, Fresh(FreeFid), Fresh(FreeFid))
    /\ settled' = IF syncAt' = "idle" THEN 0 ELSE settled
    /\ UNCHANGED <<nbVars, fv, held, fetched, post, nbEdits, pfxSyncs, pfxFaults>>

\* The delete pass of syncPrefixes (deleteNetboxPrefix).
PrefixesDone ==
    /\ syncAt = "prefixes" /\ left = {}
    /\ fp' = IF fetched = << >> THEN fp
             ELSE {r \in fp : r.nb = NoPfx \/ r.nb \in met \/ r.id \in held}
    /\ syncAt' = "idle" /\ fetched' = << >> /\ mem' = {} /\ met' = {} /\ settled' = settled + 1
    /\ UNCHANGED <<nbVars, fv, held, left, post, nbEdits, pfxSyncs, pfxFaults>>

\* A fetch or a write fails: the job ends where it is.
SyncFails ==
    /\ syncAt # "idle" /\ Fault /\ settled' = 0
    /\ syncAt' = "idle" /\ fetched' = << >> /\ mem' = {} /\ left' = {} /\ met' = {}
    /\ UNCHANGED <<nbVars, fv, fp, held, post, nbEdits, pfxSyncs>>
----------------------------------------------------------------------------
(* ApiIpamPrefixCreate in the Netbox namespace *)

\* Allocate: the CIDR is in no VRF of the namespace.
Allocate(v, c) ==
    /\ post = Resting /\ nbEdits < MaxNbEdits /\ nbEdits' = nbEdits + 1 /\ CanInsert
    /\ v \in DOMAIN fv \cup {Global} /\ \A r \in fp : r.cidr # c
    /\ fp' = fp \cup {[id |-> FreeFid, vrf |-> v, cidr |-> c, nb |-> NoPfx]}
    /\ post' = [at |-> "create", id |-> FreeFid, nb |-> NoPfx] /\ Disturbed
    /\ UNCHANGED <<nbVars, fv, held, memVars, pfxSyncs, pfxFaults>>

MyRow == CHOOSE r \in fp : r.id = post.id

\* writePrefixToNetbox: NetBox makes the prefix, or refuses it.
CreateInNetbox ==
    /\ post.at = "create"
    /\ LET r == MyRow IN
       \/ \E i \in PfxId \ DOMAIN np :
             /\ r.vrf \in NbVrfs /\ NbFree(i, r.vrf, r.cidr)
             /\ np' = Set(np, i, [vrf |-> r.vrf, cidr |-> r.cidr])
             /\ post' = [post EXCEPT !.at = "stamp", !.nb = i] /\ UNCHANGED pfxFaults
       \/ /\ \/ Fault
             \/ (r.vrf \in NbVrfs => ~NbFree(NoPfx, r.vrf, r.cidr)) /\ UNCHANGED pfxFaults
          /\ post' = [post EXCEPT !.at = "undo"] /\ UNCHANGED np
    /\ UNCHANGED <<nv, fv, fp, held, memVars, nbEdits, pfxSyncs>> /\ Disturbed

\* stampPrefix; when it fails the prefix is deleted in NetBox again.
stampPrefix ==
    /\ post.at = "stamp"
    /\ LET new == [MyRow EXCEPT !.nb = post.nb] IN
       \/ IndexFree(new) /\ fp' = Replace(fp, MyRow, new) /\ post' = Resting /\ UNCHANGED <<np, pfxFaults>>
       \/ /\ (Fault \/ (~IndexFree(new) /\ UNCHANGED pfxFaults))
          /\ np' = Cut(np, post.nb) /\ post' = [post EXCEPT !.at = "undo"] /\ UNCHANGED fp
    /\ UNCHANGED <<nv, fv, held, memVars, nbEdits, pfxSyncs>> /\ Disturbed

\* The handler takes its allocation back (DeletePrefix); with an address it stays.
Undo ==
    /\ post.at = "undo" /\ post' = Resting
    /\ fp' = {r \in fp : r.id # post.id \/ r.id \in held}
    /\ UNCHANGED <<nbVars, fv, held, memVars, nbEdits, pfxSyncs, pfxFaults>> /\ Disturbed

\* Address rows come and go with requests of their own.
AddressEdit ==
    /\ nbEdits < MaxNbEdits /\ nbEdits' = nbEdits + 1 /\ Disturbed
    /\ \E r \in fp : held' = IF r.id \in held THEN held \ {r.id} ELSE held \cup {r.id}
    /\ UNCHANGED <<nbVars, fv, fp, memVars, post, pfxSyncs, pfxFaults>>

PfxNext ==
    \/ NbEdit \/ StartSync \/ upsertNetboxVRF \/ VrfsDone \/ FetchPrefixes \/ LoadPrefixes \/ upsert \/ PrefixesDone
    \/ SyncFails \/ (\E v \in VrfId \cup {Global}, c \in Cidr : Allocate(v, c))
    \/ CreateInNetbox \/ stampPrefix \/ Undo \/ AddressEdit

PfxSpec == PfxInit /\ [][PfxNext]_pfxvars
----------------------------------------------------------------------------
PfxTypeOK ==
    /\ \A r \in fp : r.id \in 1 .. MaxFid /\ r.vrf \in VrfId \cup {Global} /\ r.cidr \in Cidr /\ r.nb \in PfxId \cup {NoPfx}
    /\ held \subseteq 1 .. MaxFid /\ syncAt \in {"idle", "vrfs", "fetch", "load", "prefixes"}

\* The sync deletes a prefix it knew as mirrored only when the page it fetched did
\* not have it any more and no address row uses it: a prefix this pass could not apply
\* (its new CIDR is taken, its VRF was skipped) stays (syncPrefixes, deleteNetboxPrefix).
MirroredStays ==
    \A r \in fp : (syncAt = "prefixes" /\ r \in mem /\ ~\E s \in fp' : s.id = r.id)
       => r.nb \notin DOMAIN fetched /\ r.id \notin held

\* Two full syncs after the last edit, Factum's mirrored prefixes are NetBox's
\* (but for one whose CIDR a local row has): what one pass could not apply, because a
\* name or a CIDR was still taken, the next one does.
TwoSyncsMirror ==
    settled >= 2 /\ post = Resting => \A i \in DOMAIN np : \E r \in fp : r.nb \in {i, NoPfx} /\ r.vrf = np[i].vrf /\ r.cidr = np[i].cidr

-----------------------------------------------------------------------------
(***************************************************************************)
(* Factum's customers and contacts in NetBox: syncCustomersToNetbox and    *)
(* syncContactsToNetbox (internal/netbox/factum2-netbox.go, contact.go)    *)
(* give every customer a tenant and every contact a NetBox contact, marked *)
(* by the custom field source = "factum:<id>", and FindOrCreateTenant does *)
(* the same for one customer inside a service request.  Tenants and        *)
(* contacts are never deleted.                                             *)
(*                                                                         *)
(* NetBox is external: its tenants have unique names and unique slugs, and *)
(* a PATCH or POST that repeats one is refused with an error that          *)
(* isTenantConflict recognises.  A name is <<letters, case>>; folding it   *)
(* to lower case, or to a slug, keeps the letters.                         *)
(***************************************************************************)

CONSTANTS
  Name,        \* names of customers and tenants
  Email,       \* addresses of contacts; "" is none
  TenantStarts, \* what Factum and NetBox may hold at first
  MaxCustomer, MaxContact, MaxTenant, MaxPerson, \* ids
  MaxTenantRuns, MaxTenantEvents                 \* bounds

VARIABLES
  book,     \* Factum's rows: customers and contacts by id, the join rows,
            \* and the customer ids handed out
  tenants,  \* NetBox: id -> [name, slug, tag]; tag 0 is no factum source
  people,   \* NetBox contacts: id -> [email, tag]
  assigned, \* contact assignments with the Factum role: <<tenant, person>>
  tsync,    \* the running sync: where it is, and its copies and index
  apart,    \* nothing else has changed Factum or NetBox since the sync began
  whole,    \* the last sync ended without an error that aborts it
  crossed,  \* a service request made or claimed a tenant during a sync
  skipped,  \* the customers and contacts the run skipped with a warning
  truns, tevents

tenantvars == <<book, tenants, people, assigned, tsync, apart, whole, crossed, skipped, truns, tevents>>

None == <<>>
ToLower(n) == n[1]
Rows(f) == {i \in DOMAIN f : f[i] # None}

NoBook == [customers |-> [c \in 1..MaxCustomer |-> None],
           contacts |-> [p \in 1..MaxContact |-> None], links |-> {}, used |-> {}]
NoTenants == [t \in 1..MaxTenant |-> None]
NoPeople == [q \in 1..MaxPerson |-> None]

Idle == [at |-> "idle", copy |-> <<>>, left |-> {}, seen |-> NoTenants,
         live |-> {}, met |-> NoPeople, ids |-> <<>>]

TenantTypeOK ==
  /\ \A t \in Rows(tenants) : tenants[t].name \in Name /\ tenants[t].tag \in 0..MaxCustomer
  /\ \A q \in Rows(people) : people[q].email \in Email /\ people[q].tag \in 0..MaxContact
  /\ assigned \subseteq (1..MaxTenant) \X (1..MaxPerson)
  /\ tsync.at \in {"idle", "tenants", "contacts", "assign"}

(***************************************************************************)
(* tenantIndex: the tenants as fetched and as this run has since written   *)
(* them (NBTenant rows shared by the three maps).  Two tenants whose names *)
(* fold to one key leave the later id under it.                            *)
(***************************************************************************)
Last(S) == IF S = {} THEN 0 ELSE Max(S)
bySourceID(seen, c) == Last({t \in Rows(seen) : seen[t].tag = c})
byName(seen, n) == Last({t \in Rows(seen) : ToLower(seen[t].name) = ToLower(n)})

\* uniqueTenantSlug: the folded name, else with the customer's id behind it,
\* else with a counter behind that.
uniqueTenantSlug(seen, n, c) ==
  LET taken == {seen[t].slug : t \in Rows(seen)}
      base == <<ToLower(n), 0, 0>>
      with == {k \in 1..(MaxTenant + 1) : <<ToLower(n), c, k>> \notin taken}
  IN IF base \notin taken THEN base ELSE <<ToLower(n), c, Min(with)>>

\* A tenant without a factum source, or with this customer's, or (in a bulk
\* run, which knows the live ids) with that of a customer that is gone.
tenantClaimable(t, c, live) == t.tag \in {0, c} \/ (live # {} /\ t.tag \notin live)

\* NetBox refuses a name or slug another tenant has.
Refused(t, n) == \E u \in Rows(tenants) \ {t} : tenants[u].name = n
NextTenant == CHOOSE t \in 1..MaxTenant :
                tenants[t] = None /\ \A u \in 1..(t - 1) : tenants[u] # None

\* Mutant of ensureTenant: the tenant of another live customer is adopted by name.
ensureTenantSteals(c, n, seen, live) ==
  LET own == bySourceID(seen, c)
      named == byName(seen, n)
      t == IF own # 0 THEN own ELSE named IN
  IF t # 0
  THEN IF own # 0 /\ seen[t].name = n THEN [write |-> "none", id |-> t]
       ELSE [write |-> "update", id |-> t]
  ELSE [write |-> "create", id |-> 0]

\* ensureTenant's choice: the tenant with the customer's id (renamed if it must
\* be), else the one with its name (claimed, if claimable), else a new one.
ensureTenant(c, n, seen, live) ==
  LET own == bySourceID(seen, c)
      named == byName(seen, n) IN
  IF own # 0
  THEN [write |-> IF seen[own].name = n THEN "none" ELSE "update", id |-> own]
  ELSE IF named # 0
  THEN [write |-> IF tenantClaimable(seen[named], c, live) THEN "update" ELSE "taken", id |-> named]
  ELSE [write |-> "create", id |-> 0]

Tagged(t, n, c) == [name |-> n, slug |-> t.slug, tag |-> c]

\* Mutant of Written: a claimed tenant keeps the name it had.
WrittenNameless(c, n, seen, do) ==
  CASE do.write = "update" ->
         /\ ~Refused(do.id, n)
         /\ tenants' = [tenants EXCEPT ![do.id] = Tagged(tenants[do.id], tenants[do.id].name, c)]
    [] do.write = "create" ->
         LET slug == uniqueTenantSlug(seen, n, c) IN
         /\ Rows(tenants) # 1..MaxTenant
         /\ ~Refused(0, n) /\ \A u \in Rows(tenants) : tenants[u].slug # slug
         /\ tenants' = [tenants EXCEPT ![NextTenant] = [name |-> n, slug |-> slug, tag |-> c]]
    [] OTHER -> UNCHANGED tenants

\* The PATCH or POST of that choice, as NetBox takes it.
Written(c, n, seen, do) ==
  CASE do.write = "update" ->
         /\ ~Refused(do.id, n)
         /\ tenants' = [tenants EXCEPT ![do.id] = Tagged(tenants[do.id], n, c)]
    [] do.write = "create" ->
         LET slug == uniqueTenantSlug(seen, n, c) IN
         /\ Rows(tenants) # 1..MaxTenant
         /\ ~Refused(0, n) /\ \A u \in Rows(tenants) : tenants[u].slug # slug
         /\ tenants' = [tenants EXCEPT ![NextTenant] = [name |-> n, slug |-> slug, tag |-> c]]
    [] OTHER -> UNCHANGED tenants

\* isTenantConflict: the name is taken by a tenant that may not be claimed, or
\* NetBox refused the write because of its own rows.
Conflict(c, n, seen, do) ==
  \/ do.write = "taken"
  \/ do.write = "update" /\ Refused(do.id, n)
  \/ do.write = "create" /\ (\/ Refused(0, n)
                             \/ \E u \in Rows(tenants) : tenants[u].slug = uniqueTenantSlug(seen, n, c))

(***************************************************************************)
(* syncCustomersToNetbox.                                                  *)
(***************************************************************************)
syncCustomersToNetbox ==
  /\ tsync.at = "idle" /\ truns < MaxTenantRuns
  /\ tsync' = [Idle EXCEPT !.at = "tenants", !.copy = book.customers,
                           !.left = Rows(book.customers), !.seen = tenants,
                           !.live = Rows(book.customers)]
  /\ apart' = TRUE /\ whole' = FALSE /\ skipped' = {}
  /\ truns' = truns + 1
  /\ UNCHANGED <<book, tenants, people, assigned, tevents, crossed>>

\* The next customer; a conflict skips it.  The run's index follows its writes.
TenantStep ==
  /\ tsync.at = "tenants" /\ tsync.left # {}
  /\ LET c == Min(tsync.left)
         n == tsync.copy[c]
         do == ensureTenant(c, n, tsync.seen, tsync.live) IN
     IF Conflict(c, n, tsync.seen, do)
     THEN /\ tsync' = [tsync EXCEPT !.left = @ \ {c}]
          /\ skipped' = skipped \cup {<<"customer", c>>}
          /\ UNCHANGED tenants
     ELSE /\ Written(c, n, tsync.seen, do)
          /\ tsync' = [tsync EXCEPT !.left = @ \ {c},
               !.seen = [t \in 1..MaxTenant |-> IF tenants'[t] # tenants[t] THEN tenants'[t]
                                                ELSE tsync.seen[t]]]
          /\ UNCHANGED skipped
  /\ UNCHANGED <<book, people, assigned, apart, whole, truns, tevents, crossed>>

(***************************************************************************)
(* syncContactsToNetbox, after the tenants.                                *)
(***************************************************************************)
syncContactsToNetbox ==
  /\ tsync.at = "tenants" /\ tsync.left = {}
  /\ tsync' = [Idle EXCEPT !.at = "contacts", !.copy = book.contacts, !.left = Rows(book.contacts),
                           !.live = Rows(book.contacts), !.met = people,
                           !.ids = [p \in 1..MaxContact |-> 0]]
  /\ UNCHANGED <<book, tenants, people, assigned, apart, whole, skipped, truns, tevents, crossed>>

\* adoptByEmail: the one claimable NetBox contact with the address, if exactly one.
adoptByEmail(among, e, p, live) ==
  LET claimable == {q \in Rows(among) : /\ among[q].email = e
                                        /\ among[q].tag \in {0, p} \/ among[q].tag \notin live} IN
  IF e # "" /\ Cardinality(claimable) = 1 THEN Min(claimable) ELSE 0

\* ensureContact: by the id in source, by address, or a new one.
ensureContact(p, e, among, live) ==
  LET own == Last({q \in Rows(among) : among[q].tag = p})
      adopted == adoptByEmail(among, e, p, live) IN
  IF own # 0 THEN own ELSE adopted

NextPerson == CHOOSE q \in 1..MaxPerson :
                people[q] = None /\ \A r \in 1..(q - 1) : people[r] # None

\* The next contact: one without a name is skipped.
ContactStep ==
  /\ tsync.at = "contacts" /\ tsync.left # {}
  /\ LET p == Min(tsync.left)
         row == tsync.copy[p]
         own == ensureContact(p, row.email, tsync.met, tsync.live)
         q == IF own # 0 THEN own ELSE NextPerson IN
     IF ~row.named
     THEN /\ tsync' = [tsync EXCEPT !.left = @ \ {p}]
          /\ skipped' = skipped \cup {<<"contact", p>>}
          /\ UNCHANGED people
     ELSE /\ own # 0 \/ Rows(people) # 1..MaxPerson
          /\ people' = [people EXCEPT ![q] = [email |-> row.email, tag |-> p]]
          /\ tsync' = [tsync EXCEPT !.left = @ \ {p}, !.ids[p] = q,
                                    !.met[q] = [email |-> row.email, tag |-> p]]
          /\ UNCHANGED skipped
  /\ UNCHANGED <<book, tenants, assigned, apart, whole, truns, tevents, crossed>>

\* NetBox answers 400 to a contact (isSkippableContactErr): it is skipped.
ContactRefused ==
  /\ tsync.at = "contacts" /\ tsync.left # {} /\ tevents < MaxTenantEvents
  /\ skipped' = skipped \cup {<<"contact", Min(tsync.left)>>}
  /\ tsync' = [tsync EXCEPT !.left = @ \ {Min(tsync.left)}]
  /\ tevents' = tevents + 1
  /\ UNCHANGED <<book, tenants, people, assigned, apart, whole, truns, crossed>>

\* syncContactAssignments: a row for each link whose contact this run placed and
\* whose customer has a tenant by tag; rows are only added.
syncContactAssignments ==
  /\ tsync.at = "contacts" /\ tsync.left = {}
  /\ assigned' = assigned \cup
       {<<bySourceID(tenants, l[1]), tsync.ids[l[2]]>> :
          l \in {x \in book.links : tsync.ids[x[2]] # 0 /\ bySourceID(tenants, x[1]) # 0}}
  /\ tsync' = Idle /\ whole' = TRUE
  /\ UNCHANGED <<book, tenants, people, apart, skipped, truns, tevents, crossed>>

\* Any other error of NetBox or the database aborts the sync where it is.
TenantSyncError ==
  /\ tsync.at # "idle" /\ tevents < MaxTenantEvents
  /\ tsync' = Idle /\ tevents' = tevents + 1
  /\ UNCHANGED <<book, tenants, people, assigned, apart, whole, skipped, truns, crossed>>

(***************************************************************************)
(* Everyone else.                                                          *)
(***************************************************************************)
Elsewhere ==
  /\ tevents < MaxTenantEvents /\ tevents' = tevents + 1
  /\ apart' = FALSE
  /\ UNCHANGED <<assigned, tsync, whole, skipped, truns>>

\* FindOrCreateTenant in a service request: an own tenant is used as it is;
\* else ensureTenant on a fresh list, with no live ids, so that another
\* customer's tenant is used but never claimed.
findOrCreateTenant(c) ==
  /\ Elsewhere /\ c \in Rows(book.customers)
  /\ bySourceID(tenants, c) = 0
  /\ LET do == ensureTenant(c, book.customers[c], tenants, {}) IN
     /\ ~Conflict(c, book.customers[c], tenants, do)
     /\ Written(c, book.customers[c], tenants, do)
  /\ crossed' = (crossed \/ tsync.at = "tenants")
  /\ UNCHANGED <<book, people>>

\* The CRM sync or a request changes customers, contacts or join rows.  Ids are
\* not used twice.
CustomerEdit(c, n) ==
  /\ Elsewhere
  /\ book.customers[c] # None \/ \A d \in c..MaxCustomer : book.customers[d] = None /\ d \notin book.used
  /\ book' = [book EXCEPT !.customers[c] = n, !.used = @ \cup {c},
                          !.links = IF n = None THEN {l \in @ : l[1] # c} ELSE @]
  /\ book' # book /\ UNCHANGED <<tenants, people, crossed>>

ContactEdit(p, row) ==
  /\ Elsewhere /\ book.contacts[p] # None
  /\ book' = [book EXCEPT !.contacts[p] = row,
                          !.links = IF row = None THEN {l \in @ : l[2] # p} ELSE @]
  /\ book' # book /\ UNCHANGED <<tenants, people, crossed>>

LinkEdit(c, p) ==
  /\ Elsewhere /\ c \in Rows(book.customers) /\ p \in Rows(book.contacts)
  /\ book' = [book EXCEPT !.links = IF <<c, p>> \in @ THEN @ \ {<<c, p>>} ELSE @ \cup {<<c, p>>}]
  /\ UNCHANGED <<tenants, people, crossed>>

\* Someone makes or renames a tenant in NetBox by hand.
TenantByHand(t, n) ==
  /\ Elsewhere /\ ~Refused(t, n)
  /\ tenants[t] = None => t = NextTenant /\ \A u \in Rows(tenants) : tenants[u].slug # <<ToLower(n), 0, 0>>
  /\ tenants' = [tenants EXCEPT ![t] = IF tenants[t] = None
                   THEN [name |-> n, slug |-> <<ToLower(n), 0, 0>>, tag |-> 0]
                   ELSE Tagged(tenants[t], n, tenants[t].tag)]
  /\ tenants' # tenants /\ UNCHANGED <<book, people, crossed>>

TenantInit ==
  /\ \E s \in TenantStarts : book = s.book /\ tenants = s.tenants /\ people = s.people
  /\ assigned = {} /\ tsync = Idle
  /\ apart = FALSE /\ whole = FALSE /\ crossed = FALSE /\ skipped = {} /\ truns = 0 /\ tevents = 0

TenantNext ==
  \/ syncCustomersToNetbox \/ TenantStep
  \/ syncContactsToNetbox \/ ContactStep \/ ContactRefused
  \/ syncContactAssignments \/ TenantSyncError
  \/ \E c \in 1..MaxCustomer : findOrCreateTenant(c)
  \/ \E c \in 1..MaxCustomer, n \in Name \cup {None} : CustomerEdit(c, n)
  \/ \E p \in 1..MaxContact, e \in Email : ContactEdit(p, [named |-> TRUE, email |-> e])
  \/ \E p \in 1..MaxContact : ContactEdit(p, None)
  \/ \E c \in 1..MaxCustomer, p \in 1..MaxContact : LinkEdit(c, p)
  \/ \E t \in 1..MaxTenant, n \in Name : TenantByHand(t, n)

TenantSpec == TenantInit /\ [][TenantNext]_tenantvars

(***************************************************************************)
(* Properties.                                                             *)
(***************************************************************************)
\* A tenant with the id of a customer that exists is never given to another
\* customer (tenantClaimable, "adopting it would steal the tenant out from
\* under the owner"), by a bulk run that nothing overlaps or by
\* FindOrCreateTenant.
TenantNotStolen ==
  \A t \in Rows(tenants) :
    tenants[t].tag \in Rows(book.customers) /\ (tsync.at # "idle" => apart)
    => tenants'[t].tag = tenants[t].tag

\* After a sync that nothing overlapped and nothing aborted (and if no service
\* request crossed an earlier one: a customer renamed meanwhile would then have
\* a tenant under either name), no id is on two
\* tenants or two NetBox contacts, and but for the rows it warned about: a
\* customer has a tenant with its id and its name, a contact has a NetBox
\* contact with its id and address, and their join row is an assignment.
AllPlaced ==
  tsync.at = "idle" /\ apart /\ whole /\ ~crossed =>
    /\ \A c \in Rows(book.customers) :
         LET own == {t \in Rows(tenants) : tenants[t].tag = c} IN
         /\ Cardinality(own) <= 1
         /\ <<"customer", c>> \notin skipped => \E t \in own : tenants[t].name = book.customers[c]
    /\ \A p \in Rows(book.contacts) :
         LET own == {q \in Rows(people) : people[q].tag = p} IN
         /\ Cardinality(own) <= 1
         /\ <<"contact", p>> \notin skipped =>
              /\ \E q \in own : people[q].email = book.contacts[p].email
              /\ \A l \in book.links, t \in Rows(tenants) :
                   l[2] = p /\ tenants[t].tag = l[1] => \E q \in own : <<t, q>> \in assigned
=============================================================================
