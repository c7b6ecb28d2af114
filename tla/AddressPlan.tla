---------------------------- MODULE AddressPlan ----------------------------
(***************************************************************************)
(* The address plan (internal/ipam): namespaces with a default VRF and     *)
(* extra ones, allowed prefixes (pools), allocated prefixes and the        *)
(* addresses inside them; the forest the web page loads level by level and *)
(* the pages of one prefix's hosts.  One address family of Width bits; a   *)
(* prefix is <<bits, number>>.  A request is one transaction, or reads and *)
(* then writes while no other request of the plan runs.                    *)
(***************************************************************************)
EXTENDS Integers, FiniteSets

CONSTANTS
    Width,          \* address bits of the family
    PageBits,       \* host bits of one page (8 in the code)
    Named,          \* the namespaces beside the empty one
    Extra,          \* names an extra VRF may have
    PlanStarts,     \* plans to start from: [spaces, vrfs, pools, pfx, addrs]
    MaxPid, MaxPlanCalls

PlanRoot == "root"                      \* the empty namespace, at the forest root
Spaces == Named \cup {PlanRoot}
PlanDefault == "default"
VrfNames == Extra \cup {PlanDefault}

\* ParsePrefix masks its input: a prefix is its length and its network.
Prefix == {<<b, n>> : b \in 0 .. Width, n \in 0 .. 2 ^ Width - 1}
Masked == {p \in Prefix : p[2] < 2 ^ p[1]}
Address == 0 .. 2 ^ Width - 1
Size(p) == 2 ^ (Width - p[1])
Within(p) == p[2] * Size(p) .. p[2] * Size(p) + Size(p) - 1

VARIABLES
    spaces,     \* the namespaces there are
    vrfs,       \* the VRFs: <<namespace, name>>
    pools,      \* the allowed prefixes: <<namespace, prefix>>
    pfx,        \* allocations: [id, vrf, p, dhcp]; dhcp is the pool of addresses
    addrs,      \* address rows: [a, pid, vrf]
    planCalls

planvars == <<spaces, vrfs, pools, pfx, addrs, planCalls>>

PlanInit ==
    /\ planCalls = 0
    /\ \E s \in PlanStarts : /\ spaces = s.spaces /\ vrfs = s.vrfs /\ pools = s.pools
                             /\ pfx = s.pfx /\ addrs = s.addrs

containsPrefix(p, c) == IF p[1] = c[1] THEN p = c ELSE p[1] < c[1] /\ Within(c) \subseteq Within(p)
strictlyContains(p, c) == containsPrefix(p, c) /\ p[1] < c[1]
Overlaps(p, c) == Within(p) \cap Within(c) # {}

NoRow == [a |-> -1, pid |-> 0, vrf |-> PlanDefault]
InSpace(n) == {r \in pfx : r.vrf[1] = n}
Call == planCalls < MaxPlanCalls /\ planCalls' = planCalls + 1

\* EnsureEmptyNamespace, resolveNamespaceID: the empty namespace is made when asked for.
resolveNamespaceID(n) ==
    /\ n = PlanRoot \/ n \in spaces
    /\ spaces' = spaces \cup {n}

CreateNamespace(n) ==
    /\ Call /\ n \in Named \ spaces
    /\ spaces' = spaces \cup {n} /\ vrfs' = vrfs \cup {<<n, PlanDefault>>}
    /\ UNCHANGED <<pools, pfx, addrs>>

DeleteNamespace(n) ==
    /\ Call /\ n \in spaces /\ InSpace(n) = {}
    /\ spaces' = spaces \ {n} /\ vrfs' = {v \in vrfs : v[1] # n}
    /\ pools' = {q \in pools : q[1] # n}
    /\ UNCHANGED <<pfx, addrs>>

checkAddPool(n, p) ==
    \A q \in pools : q[1] = n =>
        /\ q[2] # p
        /\ Overlaps(q[2], p) => containsPrefix(q[2], p) \/ containsPrefix(p, q[2])

AddPool(n, p) ==
    /\ Call /\ n \in spaces /\ checkAddPool(n, p)
    /\ pools' = pools \cup {<<n, p>>} /\ UNCHANGED <<spaces, vrfs, pfx, addrs>>

coveredByAny(p, P) == \E q \in P : containsPrefix(q, p)
poolStillNeeded(n, P) == \E r \in InSpace(n) : ~coveredByAny(r.p, P)

DeletePool(n, p) ==
    /\ Call /\ <<n, p>> \in pools
    /\ ~poolStillNeeded(n, {q[2] : q \in {o \in pools : o[1] = n}} \ {p})
    /\ pools' = pools \ {<<n, p>>} /\ UNCHANGED <<spaces, vrfs, pfx, addrs>>

CreateVRF(n, name) ==
    /\ Call /\ resolveNamespaceID(n) /\ name # PlanDefault /\ <<n, name>> \notin vrfs
    /\ vrfs' = vrfs \cup {<<n, name>>, <<n, PlanDefault>>}
    /\ UNCHANGED <<pools, pfx, addrs>>

\* UpdateVRF keeps the row and its prefixes; the addresses keep the name they have.
UpdateVRF(v, name) ==
    /\ Call /\ v \in vrfs /\ v[2] # PlanDefault /\ name # PlanDefault /\ <<v[1], name>> \notin vrfs
    /\ vrfs' = (vrfs \ {v}) \cup {<<v[1], name>>}
    /\ pfx' = {IF r.vrf = v THEN [r EXCEPT !.vrf = <<v[1], name>>] ELSE r : r \in pfx}
    /\ UNCHANGED <<spaces, pools, addrs>>

DeleteVRF(v) ==
    /\ Call /\ v \in vrfs /\ v[2] # PlanDefault /\ \A r \in pfx : r.vrf # v
    /\ vrfs' = vrfs \ {v} /\ UNCHANGED <<spaces, pools, pfx, addrs>>

\* Mutant of checkAllocate: only the prefixes that hold the new one are looked at.
checkAllocateUp(n, p, v) ==
    \A r \in InSpace(n) : r.p # p /\ (containsPrefix(r.p, p) => r.vrf = v)

\* checkAllocate: no prefix twice in a namespace, no overlap between its VRFs.
checkAllocate(n, p, v) ==
    \A r \in InSpace(n) : r.p # p /\ (Overlaps(r.p, p) => r.vrf = v)

\* applyDHCP, validate: both ends are set or neither, and they lie in the prefix.
Ranges(p) == {{}} \cup {lo .. hi : lo \in Within(p), hi \in Within(p)}
FreePid == CHOOSE i \in 1 .. MaxPid : \A r \in pfx : r.id # i

\* Allocate with loadVRF and loadAllocations, in one transaction.
Allocate(n, name, p) ==
    /\ Call /\ Cardinality(pfx) < MaxPid /\ resolveNamespaceID(n)
    /\ LET known == vrfs \cup (IF n \in spaces THEN {} ELSE {<<n, PlanDefault>>}) IN
       /\ <<n, name>> \in known /\ vrfs' = known
    /\ checkAllocate(n, p, <<n, name>>)
    /\ \E d \in {{}, Within(p)} : pfx' = pfx \cup {[id |-> FreePid, vrf |-> <<n, name>>, p |-> p, dhcp |-> d]}
    /\ UNCHANGED <<pools, addrs>>

UpdatePrefix(r) ==
    /\ Call /\ r \in pfx
    /\ \E d \in Ranges(r.p) : pfx' = (pfx \ {r}) \cup {[r EXCEPT !.dhcp = d]}
    /\ UNCHANGED <<spaces, vrfs, pools, addrs>>

\* ContainingPrefix: the longest of the prefixes, in VRFs of this name or in any.
Containing(a, R) == {r \in R : a \in Within(r.p) /\ \A o \in R : a \in Within(o.p) => o.p[1] <= r.p[1]}
ContainingPrefix(a, name) ==
    LET named == Containing(a, {r \in pfx : r.vrf[2] = name}) IN
    IF named # {} THEN named ELSE Containing(a, pfx)

\* ResolveAddressPrefix: the prefix the form names, or the most specific one.
ResolveAddressPrefix(a) ==
    {r \in pfx : a \in Within(r.p)} \cup UNION {ContainingPrefix(a, name) : name \in VrfNames}

\* ApiCreateDCIMAddress, and ApiUpdateDCIMAddress of the row `old`.
WriteAddress(old, a) ==
    /\ Call /\ \A o \in addrs \ {old} : o.a # a
    /\ \E r \in ResolveAddressPrefix(a) :
          addrs' = (addrs \ {old}) \cup {[a |-> a, pid |-> r.id, vrf |-> r.vrf[2]]}
    /\ UNCHANGED <<spaces, vrfs, pools, pfx>>

DeleteAddress(o) ==
    /\ Call /\ o \in addrs /\ addrs' = addrs \ {o} /\ UNCHANGED <<spaces, vrfs, pools, pfx>>

\* The more specific allocations of the same VRF.
Siblings(r) == {o \in pfx \ {r} : o.vrf = r.vrf /\ strictlyContains(r.p, o.p)}

DeletePrefix(r) ==
    /\ Call /\ r \in pfx /\ Siblings(r) = {} /\ \A o \in addrs : o.pid # r.id
    /\ pfx' = pfx \ {r} /\ UNCHANGED <<spaces, vrfs, pools, addrs>>

PlanNext ==
    \/ \E n \in Spaces : \/ CreateNamespace(n) \/ DeleteNamespace(n)
                         \/ \E p \in Masked : AddPool(n, p) \/ DeletePool(n, p)
                         \/ \E name \in VrfNames : CreateVRF(n, name) \/ \E p \in Masked : Allocate(n, name, p)
    \/ \E v \in vrfs : DeleteVRF(v) \/ \E name \in Extra : UpdateVRF(v, name)
    \/ \E r \in pfx : UpdatePrefix(r) \/ DeletePrefix(r)
    \/ \E a \in Address : \E o \in addrs \cup {NoRow} : WriteAddress(o, a)
    \/ \E o \in addrs : DeleteAddress(o)

PlanSpec == PlanInit /\ [][PlanNext]_planvars
----------------------------------------------------------------------------
(* The forest *)

\* An allocation lies between the parent and e.
Between(p, e, R) == \E o \in R \ {e} : strictlyContains(p, o.p) /\ strictlyContains(o.p, e.p)

\* vrfPrefixChildren: the top of a VRF, or the next level under a prefix.
Tops(v) == LET R == {r \in pfx : r.vrf = v} IN
    {e \in R : \A o \in R \ {e} : ~strictlyContains(o.p, e.p)}
prefixChildren(r) == LET R == {o \in pfx : o.vrf = r.vrf} IN
    {e \in R : strictlyContains(r.p, e.p) /\ ~Between(r.p, e, R)}
\* The levels a reader opens, from namespaceChildren of every root down.
Levels == {Tops(v) : v \in vrfs} \cup {prefixChildren(r) : r \in pfx}

\* coverageFrac, in addresses: what the immediate allocated children cover.
Used(p, R) == LET kids == {e \in R : strictlyContains(p, e.p) /\ ~Between(p, e, R)} IN
    IF \E e \in R : e.p = p /\ e \in kids THEN Size(p)
    ELSE Cardinality(UNION {{<<e, a>> : a \in Within(e.p)} : e \in kids})
----------------------------------------------------------------------------
(* The pages of hosts *)

Pages(p) == IF Width - p[1] <= PageBits THEN 1 ELSE 2 ^ (Width - p[1] - PageBits)
PageSize(p) == IF Width - p[1] <= PageBits THEN Size(p) ELSE 2 ^ PageBits
\* PrefixHosts: the page asked for is brought into range; it starts at a multiple of the size.
PageOf(p, k) == LET i == IF k >= Pages(p) THEN Pages(p) - 1 ELSE k
                    first == p[2] * Size(p) + i * PageSize(p) IN
    first .. first + PageSize(p) - 1

\* Mutant of markPrefixHosts: a child that starts before the page marks nothing.
markPrefixHostsIn(page, c) == IF c[2] * Size(c) \in page THEN Within(c) \cap page ELSE {}

\* markPrefixHosts: a child prefix takes its addresses of the page.
markPrefixHosts(page, c) == Within(c) \cap page

markAllocatedHosts(r, page) ==
    UNION {markPrefixHosts(page, e.p) : e \in Siblings(r)}
        \cup {o.a : o \in {x \in addrs : x.a \in page /\ x.pid \in {r.id} \cup {e.id : e \in Siblings(r)}}}
----------------------------------------------------------------------------
PlanTypeOK ==
    /\ spaces \subseteq Spaces /\ vrfs \subseteq Spaces \X VrfNames
    /\ \A r \in pfx : r.vrf \in vrfs /\ r.p \in Masked /\ r.dhcp \subseteq Within(r.p)
    /\ \A v \in vrfs : v[1] \in spaces /\ <<v[1], PlanDefault>> \in vrfs

\* An address belongs to exactly one VRF of a namespace: allocations that overlap
\* there are of the same VRF, whichever order they came in (checkAllocate).
OneVrfPerAddress ==
    \A r, o \in pfx : r.vrf[1] = o.vrf[1] /\ r # o /\ Overlaps(r.p, o.p) => r.vrf = o.vrf /\ r.p # o.p

\* Every allocation is in exactly one level of the forest, so a reader that opens
\* every node meets it once (Roots, Children, vrfPrefixChildren), and the coverage
\* a node shows is the number of its addresses that some child covers.
ForestIsExact ==
    /\ \A r \in pfx : Cardinality({<<L, r>> : L \in {M \in Levels : r \in M}}) = 1
    /\ \A r \in pfx : LET R == {o \in pfx : o.vrf = r.vrf} IN
          Used(r.p, R) = Cardinality(UNION {Within(o.p) : o \in Siblings(r)})

\* The pages of a prefix show each of its addresses once, and an address as taken
\* when a row of the prefix or of one inside holds it or a child covers it
\* (PrefixHosts, markAllocatedHosts), wherever the child begins.
PagesAreExact ==
    \A r \in pfx :
        /\ Within(r.p) = UNION {PageOf(r.p, k) : k \in 0 .. Pages(r.p) - 1}
        /\ \A i, j \in 0 .. Pages(r.p) - 1 : i # j => PageOf(r.p, i) \cap PageOf(r.p, j) = {}
        /\ \A k \in 0 .. Pages(r.p) : \A a \in PageOf(r.p, k) :
             a \in markAllocatedHosts(r, PageOf(r.p, k)) <=>
                \/ \E e \in Siblings(r) : a \in Within(e.p)
                \/ \E o \in addrs : o.a = a /\ \E e \in pfx : e.id = o.pid /\ e.vrf = r.vrf /\ containsPrefix(r.p, e.p)

\* An address row's prefix is there and holds it: the plan never takes a prefix
\* away from the addresses and prefixes inside it (DeletePrefix, DeleteVRF).
AddressesHeld == \A o \in addrs : \E r \in pfx : r.id = o.pid /\ o.a \in Within(r.p)

============================================================================
