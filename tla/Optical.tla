------------------------------ MODULE Optical -------------------------------
(***************************************************************************)
(* The optical network: first the paths of services, then the maintenance  *)
(* windows on it.                                                          *)
(***************************************************************************)
EXTENDS Naturals, FiniteSets, Sequences, FiniteSetsExt, SequencesExt, TLC

-----------------------------------------------------------------------------
(***************************************************************************)
(* The optical paths of wavelength and fibre services (internal/optical):  *)
(* the walk over cables, cross-connects and amplifiers from one end of a   *)
(* service to the other, the hops it leaves in the database, the marks     *)
(* that make a path be walked again when something on it changes, the      *)
(* rules a cross-connect must meet, and a driver's inventory of a chassis. *)
(* A request runs whole: none other of this module overlaps it.            *)
(***************************************************************************)

CONSTANTS
    OnDevice,       \* interface -> its device; interfaces are numbers, 0 is none
    RoleOf,         \* device -> its NetBox role
    KindCF,         \* device -> its optical_kind custom field, "" for none
    OptService,
    OptStarts,      \* [cables, xcs, ports, kindMap, attached] to start from
    PortSaves,      \* bodies of a port PUT: [i, role, freq]
    XcBodies,       \* cross-connects an operator may ask for: [kind, a, b, freq]
    CableBodies,    \* pairs of interfaces a cable may join
    Attaches,       \* bodies of a path PUT: [svc, a, z, mode]
    KindMaps,       \* maps of NetBox roles to optical kinds
    Inventories,    \* what a driver may report: [dev, kind, ports, xcs]
    MaxOptCalls

OptIface == DOMAIN OnDevice
OptDevice == DOMAIN RoleOf

VARIABLES
    ocables,    \* Connection rows: [id, a, b, local]
    oxcs,       \* OpticalXConnect rows: [id, kind, a, b, freq, source]
    oports,     \* interface -> [role, freq] of its OpticalPort row; role "" for none
    oifs,       \* the interfaces there are
    kindMap,    \* NetBox role -> kind
    okind,      \* device -> OpticalKind
    opaths,     \* service -> [mode, a, z, status, freq, hops]
    oseq,       \* the last id of a cable and of a cross-connect
    silent,     \* services a change touched that neither marked nor walked them
    optCalls

optvars == <<ocables, oxcs, oports, oifs, kindMap, okind, opaths, oseq, silent, optCalls>>

NoPort == [role |-> "", freq |-> 0]
NoPath == [mode |-> "wdm", a |-> 0, z |-> 0, status |-> "absent", freq |-> 0, hops |-> <<>>]

\* ResolveOpticalKind: the custom field of the device, then the map of roles.
ResolveOpticalKind(map, d) == IF KindCF[d] # "" THEN KindCF[d] ELSE map[RoleOf[d]]

LastId(rows) == Max({0} \cup {r.id : r \in rows})

-----------------------------------------------------------------------------
(* The walk.  A graph is the rows LoadGraph read.                          *)

LoadGraph == [cables |-> ocables, xcs |-> oxcs, ports |-> oports, ifs |-> oifs, kind |-> okind]

portRole(g, i) == g.ports[i].role
Other(row, i) == IF row.b = i THEN row.a ELSE row.b
At(rows, i) == {r \in rows : i \in {r.a, r.b}}
First(rows) == CHOOSE r \in rows : \A s \in rows : r.id <= s.id
WdmOnly == {"roadm_adddrop", "roadm_degree", "txp_line"}
HopIds(hops, kind) == {hops[n].id : n \in {m \in DOMAIN hops : hops[m].kind = kind}}

\* An outcome of nextMove: go on, no legal leave, or a conflict.
Go(to, arr, hop, freq) == [out |-> "go", to |-> to, arr |-> arr, hop |-> hop, freq |-> freq]
Stuck == [out |-> "stuck", to |-> 0, arr |-> "", hop |-> <<>>, freq |-> 0]
Clash == [Stuck EXCEPT !.out = "conflict"]

leaveViaConnection(g, w, mode) ==
    LET next == {c \in At(g.cables, w.cur) : Other(c, w.cur) \notin w.visited}
        c == First(next)
    IN  IF next = {} THEN Stuck
        ELSE IF mode = "fiber" /\ portRole(g, Other(c, w.cur)) \in WdmOnly THEN Clash
        ELSE Go(Other(c, w.cur), "connection", <<[kind |-> "connection", id |-> c.id]>>, 0)

\* Whether a cross-connect may carry the wavelength the walk has picked up.
Carries(x, lambda) ==
    x.kind \in {"adddrop", "express"} => lambda = 0 \/ x.freq = 0 \/ x.freq = lambda

leaveViaXConnect(g, w, mode) ==
    LET next == {x \in At(g.xcs, w.cur) :
                    IF mode = "fiber" THEN x.kind = "passthrough" => Other(x, w.cur) \notin w.visited
                    ELSE Carries(x, w.lambda) /\ Other(x, w.cur) \notin w.visited}
        x == First(next)
    IN  IF next = {} THEN Stuck
        ELSE IF mode = "fiber" /\ x.kind # "passthrough" THEN Clash
        ELSE Go(Other(x, w.cur), "xconnect", <<[kind |-> "xconnect", id |-> x.id]>>, x.freq)

\* Through an amplifier or a passive box when exactly two of its interfaces are cabled.
leaveViaImplicitPT(g, w) ==
    LET d == OnDevice[w.cur]
        cabled == {i \in g.ifs : OnDevice[i] = d /\ At(g.cables, i) # {}}
        others == cabled \ {w.cur}
    IN  IF /\ g.kind[d] \in {"ila", "passive"} /\ Cardinality(cabled) = 2
           /\ others \cap w.visited = {} /\ Cardinality(others) = 1
        THEN Go(CHOOSE i \in others : TRUE, "passthrough", <<>>, 0)
        ELSE Stuck

leaveViaXConnectOrPT(g, w, mode) ==
    LET m == leaveViaXConnect(g, w, mode)
    IN  IF m.out = "stuck" THEN leaveViaImplicitPT(g, w) ELSE m

\* classifyStart, as nextMove uses it: an optical port is left through its cross-connect.
StartsInside(g, i, mode) == mode # "fiber" /\ portRole(g, i) \in WdmOnly \cup {"txp_client"}

nextMove(g, w, mode) ==
    CASE w.arr = "start" /\ StartsInside(g, w.cur, mode) -> leaveViaXConnect(g, w, mode)
      [] w.arr = "connection" -> leaveViaXConnectOrPT(g, w, mode)
      [] OTHER -> leaveViaConnection(g, w, mode)

appendIface(hops, i) ==
    LET d == OnDevice[i]
    IN  Append(hops, [kind |-> "interface", id |-> i])
        \o (IF d \in HopIds(hops, "device") THEN <<>> ELSE <<[kind |-> "device", id |-> d]>>)

Result(status, w) == [status |-> status, freq |-> w.lambda, hops |-> w.hops]

PortFreq(g, i) ==
    IF portRole(g, i) \in {"txp_line", "roadm_adddrop"} THEN g.ports[i].freq ELSE 0

\* The wavelength after a move: the one picked up, else the port's, else the cross-connect's.
PickUp(g, w, m) ==
    IF w.lambda # 0 THEN w.lambda ELSE IF PortFreq(g, m.to) # 0 THEN PortFreq(g, m.to) ELSE m.freq

Mismatch(g, w, m, mode) ==
    mode = "wdm" /\ w.lambda # 0 /\ PortFreq(g, m.to) \notin {0, w.lambda}

Moved(g, w, m) ==
    [cur |-> m.to, arr |-> m.arr, lambda |-> PickUp(g, w, m), visited |-> w.visited \cup {m.to},
     hops |-> appendIface(w.hops \o m.hop, m.to)]

RECURSIVE Onward(_, _, _, _)
Onward(g, w, z, mode) ==
    LET m == nextMove(g, w, mode)
    IN  IF w.cur = z /\ w.arr # "start" THEN Result("complete", w)
        ELSE IF m.out = "conflict" THEN Result("conflict", w)
        ELSE IF m.out = "stuck" THEN Result("incomplete", w)
        ELSE IF Mismatch(g, w, m, mode) THEN Result("conflict", w)
        ELSE Onward(g, Moved(g, w, m), z, mode)

\* Walk: from a towards z; the interfaces are the end points of a stored path.
Walk(g, a, z, mode) ==
    IF a \notin g.ifs \/ (mode = "fiber" /\ portRole(g, a) \in WdmOnly)
    THEN [status |-> "conflict", freq |-> 0, hops |-> <<>>]
    ELSE Onward(g, [cur |-> a, arr |-> "start", lambda |-> 0, visited |-> {a},
                    hops |-> appendIface(<<>>, a)], z, mode)
-----------------------------------------------------------------------------
(* Stored paths: walked again, or marked to be.                            *)

\* RebuildPath: a conflict keeps the hops of the walk before it.
RebuildPath(g, p) ==
    LET r == Walk(g, p.a, p.z, p.mode)
    IN  [p EXCEPT !.status = r.status, !.freq = r.freq,
                  !.hops = IF r.status = "conflict" THEN p.hops ELSE r.hops]

\* A path in the database at the start, as the path PUT that made it left it.
Attached(s, v) ==
    LET g == [cables |-> s.cables, xcs |-> s.xcs, ports |-> s.ports, ifs |-> OptIface,
              kind |-> [d \in OptDevice |-> ResolveOpticalKind(s.kindMap, d)]]
    IN  IF s.attached[v] = NoPath THEN NoPath ELSE RebuildPath(g, s.attached[v])

OptInit ==
    /\ \E s \in OptStarts :
          /\ ocables = s.cables /\ oxcs = s.xcs /\ oports = s.ports /\ kindMap = s.kindMap
          /\ okind = [d \in OptDevice |-> ResolveOpticalKind(s.kindMap, d)]
          /\ oseq = [cable |-> LastId(s.cables), xc |-> LastId(s.xcs)]
          /\ opaths = [v \in OptService |-> Attached(s, v)]
    /\ oifs = OptIface
    /\ silent = {} /\ optCalls = 0

ToRebuild(ps) == {s \in OptService : ps[s].status \in {"stale", "incomplete"}}

RebuildStale(g, ps) ==
    [s \in OptService |-> IF s \in ToRebuild(ps) THEN RebuildPath(g, ps[s]) ELSE ps[s]]

Mark(ps, hit) == [s \in OptService |-> IF s \in hit THEN [ps[s] EXCEPT !.status = "stale"] ELSE ps[s]]

\* Mutant of OnInterface: only the paths that end on the interface.
OnInterfaceEnds(ps, i) == {s \in OptService : ps[s].hops # <<>> /\ i \in {ps[s].a, ps[s].z}}

OnInterface(ps, i) ==
    {s \in OptService : \/ i \in HopIds(ps[s].hops, "interface")
                        \/ ps[s].hops # <<>> /\ i \in {ps[s].a, ps[s].z}}
OverDevice(ps, d) ==
    {s \in OptService : \/ d \in HopIds(ps[s].hops, "device")
                        \/ \E i \in HopIds(ps[s].hops, "interface") : OnDevice[i] = d}
OverConnection(ps, id) == {s \in OptService : id \in HopIds(ps[s].hops, "connection")}
OverXConnect(ps, id) == {s \in OptService : id \in HopIds(ps[s].hops, "xconnect")}

MarkStaleByInterface(ps, i) == Mark(ps, OnInterface(ps, i))
MarkStaleByDevice(ps, d) == Mark(ps, OverDevice(ps, d))
MarkStaleByConnection(ps, id) == Mark(ps, OverConnection(ps, id))

OptCall == optCalls < MaxOptCalls /\ optCalls' = optCalls + 1

\* The end of a request: RebuildStale over ps; untold are the services it changed
\* something for without a mark.
Retraced(ps, untold) ==
    /\ opaths' = RebuildStale(LoadGraph', ps)
    /\ silent' = (silent \cup untold) \ ToRebuild(ps)
Unretraced(ps, untold) ==
    /\ opaths' = ps
    /\ silent' = silent \cup untold

-----------------------------------------------------------------------------
(* Cables.  assertInterfacesFree allows one cable on an interface.         *)

FreeBut(i, id) == \A c \in ocables : c.id # id => i \notin {c.a, c.b}
Shared == {d \in OptDevice : okind[d] \in {"ila", "passive"}}
ThroughShared(ps, i, j) ==
    UNION {OverDevice(ps, d) : d \in Shared \cap {OnDevice[i], OnDevice[j]}}

ApiDCIMConnectionCreate(p) ==
    /\ OptCall /\ p \subseteq oifs /\ \A i \in p : FreeBut(i, 0)
    /\ LET i == Min(p)  j == Max(p) IN
          /\ oseq' = [oseq EXCEPT !.cable = @ + 1]
          /\ ocables' = ocables \cup {[id |-> oseq.cable + 1, a |-> i, b |-> j, local |-> TRUE]}
          /\ UNCHANGED <<oxcs, oports, oifs, kindMap, okind>>
          /\ Retraced(opaths, ThroughShared(opaths, i, j))

ApiDCIMConnectionUpdate(c, p) ==
    /\ OptCall /\ p \subseteq oifs
    /\ UNCHANGED <<oxcs, oports, oifs, kindMap, okind, oseq>>
    /\ LET i == Min(p)  j == Max(p)
           marked == MarkStaleByConnection(opaths, c.id)
       IN  IF \A k \in p : FreeBut(k, c.id)
           THEN /\ ocables' = (ocables \ {c}) \cup {[c EXCEPT !.a = i, !.b = j]}
                /\ Retraced(marked, ThroughShared(opaths, i, j))
           ELSE UNCHANGED ocables /\ Unretraced(marked, {})      \* refused after the mark

ApiDCIMConnectionDelete(c) ==
    /\ OptCall
    /\ ocables' = ocables \ {c}
    /\ UNCHANGED <<oxcs, oports, oifs, kindMap, okind, oseq>>
    /\ Retraced(MarkStaleByConnection(opaths, c.id), {})

\* The cables that ApplyCable drops from the ports of a NetBox cable: NetBox's own
\* through DeleteConnectionByNetboxID, Factum's without a mark.
Displaced(c, p) == {o \in ocables : o.id # c.id /\ {o.a, o.b} \cap p # {}}
ByConnections(ps, cs) == UNION {OverConnection(ps, o.id) : o \in cs}

\* SyncCable, applyCables: NetBox moved a cable, and the row follows it under its id.
SyncCable(c, p) ==
    /\ OptCall /\ ~c.local /\ p \subseteq oifs
    /\ UNCHANGED <<oxcs, oports, oifs, kindMap, okind, oseq>>
    /\ LET i == Min(p)  j == Max(p)
           out == Displaced(c, p)
           theirs == {o \in out : ~o.local}
           ours == {o \in out : o.local}
       IN  /\ ocables' = (ocables \ (out \cup {c})) \cup {[c EXCEPT !.a = i, !.b = j]}
           /\ Retraced(Mark(opaths, ByConnections(opaths, theirs)),
                       ByConnections(opaths, ours \cup {c}) \cup ThroughShared(opaths, i, j))

\* syncCables, when NetBox lost the cables gone: their rows go in one statement unless
\* none is left, then the paths over a cable that is not there are marked.
syncCables(gone) ==
    /\ OptCall /\ gone # {c \in ocables : ~c.local}
    /\ ocables' = ocables \ gone
    /\ UNCHANGED <<oxcs, oports, oifs, kindMap, okind, oseq>>
    /\ Retraced(Mark(opaths, {s \in OptService :
                 HopIds(opaths[s].hops, "connection") \ {c.id : c \in ocables'} # {}}), {})

deleteInterface(i) ==
    /\ OptCall /\ i \in oifs
    /\ ocables' = ocables \ At(ocables, i)
    /\ oxcs' = oxcs \ At(oxcs, i)
    /\ oports' = [oports EXCEPT ![i] = NoPort]
    /\ oifs' = oifs \ {i}
    /\ UNCHANGED <<kindMap, okind, oseq>>
    /\ Unretraced(MarkStaleByInterface(opaths, i), {})

-----------------------------------------------------------------------------
(* Ports and kinds.                                                        *)

ApiOpticalPortPut(b) ==
    /\ OptCall /\ b.i \in oifs
    /\ b.role = "roadm_adddrop" => b.freq # 0
    /\ oports' = [oports EXCEPT ![b.i] = [role |-> b.role, freq |-> b.freq]]
    /\ UNCHANGED <<ocables, oxcs, oifs, kindMap, okind, oseq>>
    /\ Unretraced(MarkStaleByInterface(opaths, b.i), {})

ApiOpticalPortDelete(i) ==
    /\ OptCall /\ i \in oifs /\ oports[i] # NoPort
    /\ oports' = [oports EXCEPT ![i] = NoPort]
    /\ UNCHANGED <<ocables, oxcs, oifs, kindMap, okind, oseq>>
    /\ Unretraced(MarkStaleByInterface(opaths, i), {})

\* The optical_role field of a NetBox interface: the frequency stays.
upsertOpticalPortRole(i, role) ==
    /\ OptCall /\ i \in oifs /\ role # "" /\ oports[i].role # role
    /\ oports' = [oports EXCEPT ![i].role = role]
    /\ UNCHANGED <<ocables, oxcs, oifs, kindMap, okind, oseq>>
    /\ Unretraced(opaths, OnInterface(opaths, i))

\* ApiOpticalKindMapCreate, -Update, -Delete: every device's kind is resolved again.
ReresolveAllKinds(map) ==
    /\ OptCall /\ kindMap' = map
    /\ okind' = [d \in OptDevice |-> ResolveOpticalKind(map, d)]
    /\ UNCHANGED <<ocables, oxcs, oports, oifs, oseq>>
    /\ Unretraced(opaths, UNION {OverDevice(opaths, d) : d \in {e \in OptDevice : okind'[e] # okind[e]}})
-----------------------------------------------------------------------------
(* Cross-connects.  st is a record with xcs, ports and kind: the tables, or *)
(* what a transaction has made of them.                                    *)

\* Mutant of degreeFreqFree: only the second end of the others is compared.
degreeFreqFreeFar(st, i, x) ==
    \A o \in st.xcs : ~(o.id # x.id /\ o.freq = x.freq /\ i = o.b)

degreeFreqFree(st, i, x) ==
    \A o \in st.xcs : ~(o.id # x.id /\ o.freq = x.freq /\ i \in {o.a, o.b})

\* A patch cable between a transponder line and an add/drop port of another frequency.
checkLineAddDropMatch(st, x) ==
    \A c \in At(ocables, x.a) \cup At(ocables, x.b) :
       LET pa == st.ports[c.a]  pb == st.ports[c.b]
       IN  {pa.role, pb.role} = {"txp_line", "roadm_adddrop"} => 0 \in {pa.freq, pb.freq} \/ pa.freq = pb.freq

ValidateXConnect(st, x) ==
    LET pa == st.ports[x.a]  pb == st.ports[x.b]
    IN  /\ x.a # x.b /\ {x.a, x.b} \subseteq oifs /\ OnDevice[x.a] = OnDevice[x.b]
        /\ CASE x.kind = "tributary" ->
                   /\ pa.role = "txp_client" /\ pb.role = "txp_line"
                   /\ \A o \in st.xcs : o.kind = "tributary" /\ o.a = x.a => o.id = x.id
             [] x.kind = "adddrop" ->
                   /\ pa.role = "roadm_adddrop" /\ pb.role = "roadm_degree"
                   /\ x.freq # 0 /\ x.freq = pa.freq
                   /\ degreeFreqFree(st, x.b, x)
             [] x.kind = "express" ->
                   /\ pa.role = "roadm_degree" /\ pb.role = "roadm_degree" /\ x.freq # 0
                   /\ degreeFreqFree(st, x.a, x) /\ degreeFreqFree(st, x.b, x)
             [] OTHER ->
                   /\ st.kind[OnDevice[x.a]] \in {"ila", "passive"}
                   /\ pa.role = "" /\ pb.role = "" /\ x.freq = 0
        /\ checkLineAddDropMatch(st, x)

Tables == [xcs |-> oxcs, ports |-> oports, kind |-> okind]

ApiOpticalXConnectCreate(b) ==
    LET x == [id |-> oseq.xc + 1, kind |-> b.kind, a |-> b.a, b |-> b.b, freq |-> b.freq, source |-> ""]
    IN  /\ OptCall /\ ValidateXConnect(Tables, x)
        /\ oxcs' = oxcs \cup {x}
        /\ oseq' = [oseq EXCEPT !.xc = @ + 1]
        /\ UNCHANGED <<ocables, oports, oifs, kindMap, okind>>
        /\ Unretraced(opaths, OverDevice(opaths, OnDevice[x.a]))

ApiOpticalXConnectDelete(x) ==
    /\ OptCall
    /\ oxcs' = oxcs \ {x}
    /\ UNCHANGED <<ocables, oports, oifs, kindMap, okind, oseq>>
    /\ Unretraced(opaths, OverXConnect(opaths, x.id))

-----------------------------------------------------------------------------
(* ApplyInventory, one transaction.  A port or an end the index of names    *)
(* does not match is interface 0.                                          *)

OptRoles == {"txp_client", "txp_line", "roadm_adddrop", "roadm_degree", "fiber"}

upsertInventoryPort(st, p) ==
    IF p.role \notin OptRoles \/ p.i \notin oifs THEN st
    ELSE [st EXCEPT !.ports[p.i] = [role |-> p.role, freq |-> IF p.freq = 0 THEN @.freq ELSE p.freq]]

OptEnds(kind) == CASE kind = "tributary" -> <<"txp_client", "txp_line">>
                [] kind = "adddrop" -> <<"roadm_adddrop", "roadm_degree">>
                [] OTHER -> <<"", "">>

\* The two ends in the order of their roles; <<>> when the roles do not fit.
orderInventoryXConnect(st, b) ==
    LET roles == <<st.ports[b.a].role, st.ports[b.b].role>>
    IN  CASE b.kind = "express" -> <<b.a, b.b>>
          [] roles = OptEnds(b.kind) -> <<b.a, b.b>>
          [] <<roles[2], roles[1]>> = OptEnds(b.kind) -> <<b.b, b.a>>
          [] OTHER -> <<>>

Known(b) == b.kind \in {"adddrop", "express", "tributary"} /\ {b.a, b.b} \subseteq oifs /\ b.a # b.b

\* The frequency of a cross-connect that names none is its first port's, then its second's.
InventoryFreq(st, b, e) ==
    IF b.freq # 0 THEN b.freq
    ELSE IF st.ports[e[1]].freq # 0 THEN st.ports[e[1]].freq ELSE st.ports[e[2]].freq

\* An add/drop port without a frequency takes the cross-connect's, kept or not.
Tuned(st, b, e) ==
    IF b.kind = "adddrop" /\ st.ports[e[1]].freq = 0
    THEN [st EXCEPT !.ports[e[1]].freq = InventoryFreq(st, b, e)] ELSE st

SameXConnect(st, x) ==
    {o \in st.xcs : o.kind = x.kind /\ o.freq = x.freq /\ {o.a, o.b} = {x.a, x.b}}

Placed(st, x) ==
    LET old == SameXConnect(st, x)
        o == First(old)
        row == [x EXCEPT !.id = IF old = {} THEN st.last + 1 ELSE o.id]
        kept == [o EXCEPT !.a = x.a, !.b = x.b, !.source = IF @ = "" THEN "" ELSE x.source]
    IN  IF ~ValidateXConnect(st, row) THEN st
        ELSE IF old = {} THEN [st EXCEPT !.xcs = @ \cup {row}, !.keep = @ \cup {row.id}, !.last = @ + 1]
        ELSE [st EXCEPT !.xcs = (@ \ {o}) \cup {kept}, !.keep = @ \cup {o.id}]

applyInventoryXConnect(st, b) ==
    IF ~Known(b) \/ orderInventoryXConnect(st, b) = <<>> THEN st
    ELSE LET e == orderInventoryXConnect(st, b)
             x == [id |-> 0, kind |-> b.kind, a |-> e[1], b |-> e[2],
                   freq |-> InventoryFreq(st, b, e), source |-> "openroadm"]
         IN  Placed(Tuned(st, b, e), x)

Inventoried(inv) ==
    FoldLeft(applyInventoryXConnect,
             FoldLeft(upsertInventoryPort,
                      [xcs |-> oxcs, ports |-> oports, keep |-> {}, last |-> oseq.xc,
                       kind |-> IF inv.kind = "" THEN okind ELSE [okind EXCEPT ![inv.dev] = inv.kind]],
                      inv.ports),
             inv.xcs)

ApplyInventory(inv) ==
    LET st == Inventoried(inv)
    IN  /\ OptCall
        /\ oports' = st.ports /\ okind' = st.kind
        /\ oxcs' = {x \in st.xcs : OnDevice[x.a] = inv.dev /\ x.source = "openroadm" => x.id \in st.keep}
        /\ oseq' = [oseq EXCEPT !.xc = st.last]
        /\ UNCHANGED <<ocables, oifs, kindMap>>
        /\ Retraced(MarkStaleByDevice(opaths, inv.dev), {})

-----------------------------------------------------------------------------
(* Paths of services.                                                      *)

Taken(b) ==
    /\ b.mode = "wdm"
    /\ \E s \in OptService \ {b.svc} :
          opaths[s].status # "absent" /\ opaths[s].mode = "wdm" /\ {opaths[s].a, opaths[s].z} \cap {b.a, b.z} # {}

ApiServicePathPut(b) ==
    /\ OptCall /\ ~Taken(b)
    /\ LET p == [opaths[b.svc] EXCEPT !.mode = b.mode, !.a = b.a, !.z = b.z,
                    !.status = IF @ = "absent" THEN "none" ELSE @]
       IN  opaths' = [opaths EXCEPT ![b.svc] = RebuildPath(LoadGraph, p)]
    /\ silent' = silent \ {b.svc}
    /\ UNCHANGED <<ocables, oxcs, oports, oifs, kindMap, okind, oseq>>

\* DeletePathForService, within the transaction that deletes the service.
DeletePathForService(s) ==
    /\ OptCall /\ opaths[s].status # "absent"
    /\ opaths' = [opaths EXCEPT ![s] = NoPath]
    /\ silent' = silent \ {s}
    /\ UNCHANGED <<ocables, oxcs, oports, oifs, kindMap, okind, oseq>>

ApiOpticalRetraceStale ==
    /\ OptCall /\ UNCHANGED <<ocables, oxcs, oports, oifs, kindMap, okind, oseq>>
    /\ Retraced(opaths, {})

OptNext ==
    \/ \E p \in CableBodies : ApiDCIMConnectionCreate(p)
    \/ \E c \in ocables, p \in CableBodies : ApiDCIMConnectionUpdate(c, p) \/ SyncCable(c, p)
    \/ \E c \in ocables : ApiDCIMConnectionDelete(c)
    \/ ApiOpticalRetraceStale
    \/ \E gone \in SUBSET {c \in ocables : ~c.local} : syncCables(gone)
    \/ \E i \in OptIface : deleteInterface(i) \/ ApiOpticalPortDelete(i)
    \/ \E b \in PortSaves : ApiOpticalPortPut(b) \/ upsertOpticalPortRole(b.i, b.role)
    \/ \E m \in KindMaps : ReresolveAllKinds(m)
    \/ \E b \in XcBodies : ApiOpticalXConnectCreate(b)
    \/ \E x \in oxcs : ApiOpticalXConnectDelete(x)
    \/ \E inv \in Inventories : ApplyInventory(inv)
    \/ \E b \in Attaches : ApiServicePathPut(b)
    \/ \E s \in OptService : DeletePathForService(s)

OptSpec == OptInit /\ [][OptNext]_optvars

-----------------------------------------------------------------------------
OptTypeOK ==
    /\ \A c \in ocables : {c.a, c.b} \subseteq oifs /\ c.a # c.b /\ c.id \in 1 .. oseq.cable
    /\ \A x \in oxcs : {x.a, x.b} \subseteq oifs /\ x.id \in 1 .. oseq.xc
    /\ DOMAIN oports = OptIface /\ DOMAIN okind = OptDevice
    /\ \A s \in OptService :
          opaths[s].status \in {"absent", "none", "complete", "incomplete", "conflict", "stale"}
    /\ silent \subseteq OptService

\* A path shown complete is the path: walking it again would give the hops and the
\* wavelength stored, whatever was cabled, cross-connected, tuned or read from the
\* chassis since.  The marks reach every path a change can move, without walking any
\* other.  Left out: services of the changes that mark nothing (silent).
CompleteIsCurrent ==
    \A s \in OptService \ silent :
       LET p == opaths[s]
       IN  p.status = "complete" =>
              Walk(LoadGraph, p.a, p.z, p.mode) = [status |-> "complete", freq |-> p.freq, hops |-> p.hops]

\* DeviceDownImpact, ResourceImpact: the services whose hops name the chassis.
DeviceDownImpact(d) == {s \in OptService : d \in HopIds(opaths[s].hops, "device")}

Without(d) == [LoadGraph EXCEPT !.cables = {c \in @ : d \notin {OnDevice[c.a], OnDevice[c.b]}},
                                !.xcs = {x \in @ : OnDevice[x.a] # d}]

\* Every service a chassis carries is named when it goes down or into maintenance: a
\* complete path that the walk cannot follow without it has a hop on it.
ImpactIsWhole ==
    \A s \in OptService \ silent, d \in OptDevice :
       LET p == opaths[s]
       IN  /\ p.status = "complete"
           /\ Walk(Without(d), p.a, p.z, p.mode).status # "complete"
           => s \in DeviceDownImpact(d)

\* The degrees a cross-connect puts its wavelength on.
Degrees(x) == CASE x.kind = "adddrop" -> {x.b} [] x.kind = "express" -> {x.a, x.b} [] OTHER -> {}

\* A wavelength is used once on a degree, whoever made the cross-connects: operators,
\* a chassis' inventory, ports given other roles and frequencies in between.
DegreeFreqOnce ==
    \A x, y \in oxcs : x # y /\ x.freq = y.freq => Degrees(x) \cap Degrees(y) = {}

-----------------------------------------------------------------------------
(***************************************************************************)
(* Maintenance windows (web/handler_maintenance.go): planned on resources  *)
(* of the network, moved through their states by operators, and told by    *)
(* mail to the contacts of the customers whose services run over them      *)
(* (optical.ResourcesImpact).  A notify request is long: mails go out one  *)
(* by one and other requests run between them.                             *)
(***************************************************************************)

CONSTANTS
    MClient,        \* operators' sessions
    Window,
    MCustomer, MContact, MService,
    CustomerOf,     \* service -> customer
    KindOfService,       \* service -> "optical", "capacity" or "" (no category)
    MResource,      \* connections, devices and interfaces
    MaintStarts,    \* [hops, links]: resources a service's hops touch, pairs <<customer, contact>>
    MaxMaintCalls, MaxMailFaults

VARIABLES
    windows,    \* window -> [status, res]
    hops,       \* service -> the resources its stored hops name (a wavelength or fibre also names itself)
    contacts,   \* contact -> whether it has an address and wants maintenance mail; "gone"
    links,      \* CustomerContact rows
    notes,      \* MaintenanceNotification rows
    nreq,       \* client -> its notify request
    told,       \* <<window, contact, service>>: told by a mail that was sent
    mails,      \* window -> contact -> mails sent without force
    overlapped, \* windows two notify requests ran for at once
    moved,      \* windows whose impact or recipients changed since a notify began
    maintCalls, mailFaults

maintvars == <<windows, hops, contacts, links, notes, nreq, told, mails, overlapped, moved,
               maintCalls, mailFaults>>

NoReq == [at |-> "idle", w |-> CHOOSE w \in Window : TRUE, was |-> "", force |-> FALSE, impact |-> {},
          todo |-> {}, left |-> {}, svcs |-> {}, cust |-> CHOOSE c \in MCustomer : TRUE,
          note |-> [id |-> 0], sent |-> 0, failed |-> 0]

MaintInit ==
    /\ windows = [w \in Window |-> [status |-> "absent", res |-> {}]]
    /\ \E s \in MaintStarts : hops = s.hops /\ links = s.links
    /\ contacts = [c \in MContact |-> "wants"]
    /\ notes = {} /\ told = {} /\ overlapped = {} /\ moved = {}
    /\ nreq = [c \in MClient |-> NoReq]
    /\ mails = [w \in Window |-> [c \in MContact |-> 0]]
    /\ maintCalls = 0 /\ mailFaults = 0

MaintCall == maintCalls < MaxMaintCalls /\ maintCalls' = maintCalls + 1

\* What a change of hops, contacts or links leaves of the windows already being told.
Told(w) == \E c \in MClient : nreq[c].at # "idle" /\ nreq[c].w = w
Disturbs == moved' = moved \cup {w \in Window : Told(w) \/ \E n \in notes : n.w = w}

-----------------------------------------------------------------------------
(* ResourceImpact, impactRowsFromServices: services whose hops touch the   *)
(* resource; a service without a category counts by its path.              *)

ResourceImpact(r) == {s \in MService : r \in hops[s] /\ KindOfService[s] # "capacity"}
ResourcesImpact(res) == UNION {ResourceImpact(r) : r \in res}

ApiMaintenanceCreate(w, res, status) ==
    /\ MaintCall /\ windows[w].status = "absent" /\ res # {}
    /\ windows' = [windows EXCEPT ![w] = [status |-> status, res |-> res]]
    /\ UNCHANGED <<hops, contacts, links, notes, nreq, told, mails, overlapped, moved, mailFaults>>

maintenanceTransitionOK(from, to) ==
    to \in CASE from = "draft" -> {"planned", "cancelled"}
             [] from = "planned" -> {"notified", "in_progress", "cancelled"}
             [] from = "notified" -> {"notified", "in_progress", "cancelled"}
             [] from = "in_progress" -> {"completed", "cancelled"}
             [] OTHER -> {}

ApiMaintenanceUpdate(w, to) ==
    /\ MaintCall /\ to # windows[w].status
    /\ maintenanceTransitionOK(windows[w].status, to)
    /\ windows' = [windows EXCEPT ![w].status = to]
    /\ UNCHANGED <<hops, contacts, links, notes, nreq, told, mails, overlapped, moved, mailFaults>>

-----------------------------------------------------------------------------
(* ApiMaintenanceNotify.                                                   *)

NotifyBegin(c, w, force) ==
    /\ MaintCall /\ nreq[c].at = "idle" /\ windows[w].status \in {"planned", "notified"}
    /\ LET impact == ResourcesImpact(windows[w].res)
       IN  /\ impact # {}                                       \* 409 otherwise
           /\ nreq' = [nreq EXCEPT ![c] = [NoReq EXCEPT !.at = "customer", !.w = w, !.force = force,
                         !.was = windows[w].status, !.impact = impact,
                         !.todo = {CustomerOf[s] : s \in impact}]]
    /\ overlapped' = IF Told(w) THEN overlapped \cup {w} ELSE overlapped
    /\ UNCHANGED <<windows, hops, contacts, links, notes, told, mails, moved, mailFaults>>

NextNote == Max({0} \cup {n.id : n \in notes}) + 1

\* One customer of the map, in any order: its contacts, or a skipped row when it has none.
NotifyCustomer(c, k) ==
    LET q == nreq[c]
        recipients == {p \in MContact : <<k, p>> \in links /\ contacts[p] = "wants"}
    IN  /\ q.at = "customer" /\ k \in q.todo
        /\ IF recipients = {}
           THEN /\ notes' = notes \cup {[id |-> NextNote, w |-> q.w, cust |-> k, contact |-> {},
                                         status |-> "skipped", svcs |-> {}]}
                /\ nreq' = [nreq EXCEPT ![c].todo = @ \ {k}, ![c].failed = @ + 1]
           ELSE /\ UNCHANGED notes
                /\ nreq' = [nreq EXCEPT ![c].todo = @ \ {k}, ![c].at = "contact", ![c].cust = k,
                              ![c].left = recipients,
                              ![c].svcs = {s \in q.impact : CustomerOf[s] = k}]
        /\ UNCHANGED <<windows, hops, contacts, links, told, mails, overlapped, moved, maintCalls, mailFaults>>

\* Mutant of Existing: the row is looked up by customer too.
ExistingOfCustomer(q, p) == {n \in notes : n.w = q.w /\ n.contact = {p} /\ n.cust = q.cust}

\* The row of a window and a contact, whichever customer it was written for.
Existing(q, p) == {n \in notes : n.w = q.w /\ n.contact = {p}}

\* The row to write: the first there is, or a new one.
Note(q, p) ==
    IF Existing(q, p) = {} THEN [id |-> 0, w |-> q.w, cust |-> q.cust, contact |-> {p},
                                 status |-> "pending", svcs |-> {}]
    ELSE CHOOSE n \in Existing(q, p) : \A m \in Existing(q, p) : n.id <= m.id

AlreadySent(q, p) == Existing(q, p) # {} /\ Note(q, p).status = "sent" /\ ~q.force

\* A contact: passed over when told already, else mailed; the mail may fail.
NotifyContact(c, p) ==
    LET q == nreq[c] IN
    /\ q.at = "contact" /\ p \in q.left
    /\ UNCHANGED <<windows, hops, contacts, links, notes, overlapped, moved, maintCalls>>
    /\ \/ /\ AlreadySent(q, p)
          /\ nreq' = [nreq EXCEPT ![c].left = @ \ {p}]
          /\ UNCHANGED <<told, mails, mailFaults>>
       \/ /\ ~AlreadySent(q, p)
          /\ nreq' = [nreq EXCEPT ![c].left = @ \ {p}, ![c].at = "store", ![c].sent = @ + 1,
                        ![c].note = [Note(q, p) EXCEPT !.status = "sent", !.svcs = q.svcs]]
          /\ told' = told \cup {<<q.w, p, s>> : s \in q.svcs}
          /\ mails' = IF q.force THEN mails ELSE [mails EXCEPT ![q.w][p] = @ + 1]
          /\ UNCHANGED mailFaults
       \/ /\ ~AlreadySent(q, p) /\ mailFaults < MaxMailFaults /\ mailFaults' = mailFaults + 1
          /\ nreq' = [nreq EXCEPT ![c].left = @ \ {p}, ![c].at = "store", ![c].failed = @ + 1,
                        ![c].note = [Note(q, p) EXCEPT !.status = "failed", !.svcs = q.svcs]]
          /\ UNCHANGED <<told, mails>>

\* Create or Save: Save of a row that is gone would insert it; none is deleted here.
StoreNote(c) ==
    LET q == nreq[c]
        n == IF q.note.id = 0 THEN [q.note EXCEPT !.id = NextNote] ELSE q.note
    IN  /\ q.at = "store"
        /\ notes' = {m \in notes : m.id # n.id} \cup {n}
        /\ nreq' = [nreq EXCEPT ![c].at = "contact"]
        /\ UNCHANGED <<windows, hops, contacts, links, told, mails, overlapped, moved, maintCalls, mailFaults>>

NotifyCustomerDone(c) ==
    /\ nreq[c].at = "contact" /\ nreq[c].left = {}
    /\ nreq' = [nreq EXCEPT ![c].at = "customer"]
    /\ UNCHANGED <<windows, hops, contacts, links, notes, told, mails, overlapped, moved, maintCalls, mailFaults>>

\* The end: a window that was planned when it was read is saved as notified.
NotifyEnd(c) ==
    LET q == nreq[c]
    IN  /\ q.at = "customer" /\ q.todo = {}
        /\ windows' = IF q.sent > 0 /\ q.was = "planned" THEN [windows EXCEPT ![q.w].status = "notified"]
                      ELSE windows
        /\ nreq' = [nreq EXCEPT ![c] = [NoReq EXCEPT !.at = "answered", !.w = q.w, !.impact = q.impact,
                                          !.sent = q.sent, !.failed = q.failed]]
        /\ UNCHANGED <<hops, contacts, links, notes, told, mails, overlapped, moved, maintCalls, mailFaults>>

Answered(c) ==
    /\ nreq[c].at = "answered" /\ nreq' = [nreq EXCEPT ![c] = NoReq]
    /\ UNCHANGED <<windows, hops, contacts, links, notes, told, mails, overlapped, moved, maintCalls, mailFaults>>

-----------------------------------------------------------------------------
(* What else changes who is told of what.                                  *)

ApiContactUpdate(p, wants) ==
    /\ MaintCall /\ contacts[p] \notin {wants, "gone"}
    /\ contacts' = [contacts EXCEPT ![p] = wants] /\ Disturbs
    /\ UNCHANGED <<windows, hops, links, notes, nreq, told, mails, overlapped, mailFaults>>

\* The rows of its mails stay, without the contact.
ApiContactDelete(p) ==
    /\ MaintCall /\ contacts[p] # "gone"
    /\ contacts' = [contacts EXCEPT ![p] = "gone"]
    /\ links' = {l \in links : l[2] # p}
    /\ notes' = {IF n.contact = {p} THEN [n EXCEPT !.contact = {}] ELSE n : n \in notes} /\ Disturbs
    /\ UNCHANGED <<windows, hops, nreq, told, mails, overlapped, mailFaults>>

ApiContactCustomersPut(p, ks) ==
    /\ MaintCall /\ contacts[p] # "gone"
    /\ links' = {l \in links : l[2] # p} \cup {<<k, p>> : k \in ks} /\ Disturbs
    /\ UNCHANGED <<windows, hops, contacts, notes, nreq, told, mails, overlapped, mailFaults>>

\* RebuildPath of a service, abstracted to the resources its new hops touch.
RebuildHops(s, rs) ==
    /\ MaintCall /\ hops[s] # rs
    /\ hops' = [hops EXCEPT ![s] = rs] /\ Disturbs
    /\ UNCHANGED <<windows, contacts, links, notes, nreq, told, mails, overlapped, mailFaults>>

MaintNext ==
    \/ \E w \in Window, r \in SUBSET MResource, s \in {"draft", "planned"} : ApiMaintenanceCreate(w, r, s)
    \/ \E w \in Window, s \in {"planned", "notified", "in_progress", "completed", "cancelled"} :
          ApiMaintenanceUpdate(w, s)
    \/ \E c \in MClient :
          \/ \E w \in Window, f \in BOOLEAN : NotifyBegin(c, w, f)
          \/ \E k \in MCustomer : NotifyCustomer(c, k)
          \/ \E p \in MContact : NotifyContact(c, p)
          \/ StoreNote(c) \/ NotifyCustomerDone(c) \/ NotifyEnd(c) \/ Answered(c)
    \/ \E p \in MContact :
          \/ \E s \in {"wants", "quiet"} : ApiContactUpdate(p, s)
          \/ ApiContactDelete(p)
          \/ \E ks \in SUBSET MCustomer : ApiContactCustomersPut(p, ks)
    \/ \E s \in MService, rs \in SUBSET MResource : RebuildHops(s, rs)

MaintSpec == MaintInit /\ [][MaintNext]_maintvars

-----------------------------------------------------------------------------
MaintTypeOK ==
    /\ \A w \in Window : windows[w].status \in
          {"absent", "draft", "planned", "notified", "in_progress", "completed", "cancelled"}
    /\ links \subseteq MCustomer \X MContact
    /\ \A n, m \in notes : n.id = m.id => n = m
    /\ \A c \in MClient : nreq[c].at \in {"idle", "customer", "contact", "store", "answered"}

\* Nobody is mailed twice about a window by repeated notifies: a second one after a
\* partial failure reaches only those the first did not, and one mail is enough for a
\* contact of two affected customers.  Forced mails are not counted; two notify requests
\* for one window at the same time, and deleted contacts, are left out.
MailedOnce ==
    \A w \in Window \ overlapped, p \in MContact : contacts[p] # "gone" => mails[w][p] <= 1

\* Contacts that want the mail and are of one affected customer only.
Sole(k, impact) ==
    {p \in MContact : <<k, p>> \in links /\ contacts[p] = "wants" /\
        \A s \in impact : <<CustomerOf[s], p>> \in links => CustomerOf[s] = k}

\* A notify that answers without failures has told every affected service to its
\* customer, mails of earlier notifies included.  Left out: windows whose impact or
\* recipients changed meanwhile, and customers whose contacts serve other affected
\* customers too.
ServicesTold ==
    \A c \in MClient : LET q == nreq[c] IN
       q.at = "answered" /\ q.failed = 0 /\ q.w \notin moved \cup overlapped =>
          \A s \in q.impact : Sole(CustomerOf[s], q.impact) # {} =>
             \E p \in MContact : <<CustomerOf[s], p>> \in links /\ <<q.w, p, s>> \in told
=============================================================================
