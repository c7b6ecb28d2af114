----------------------------- MODULE ConfigTree -----------------------------
(***************************************************************************)
(* The configuration tree: first its shape, then the values stored in it.  *)
(***************************************************************************)
EXTENDS Integers, FiniteSets, Sequences, SequencesExt, TLC, FiniteSetsExt

-----------------------------------------------------------------------------
(***************************************************************************)
(* The configuration tree (cfgmgmt/scope.go, resolve.go, seed.go) and its  *)
(* mirror of the NetBox regions and sites (netbox/config_tree.go,          *)
(* sites.go).  A request checks what it was asked against the tree and     *)
(* then writes; nothing is locked in between.  A NetBox sync puts the      *)
(* mirrored nodes where NetBox has them, drops the ones NetBox lost and    *)
(* puts the device under its site.  One device with one interface and one  *)
(* service; folder, region, site and location obey one rule and are        *)
(* "folder", cli and resource are "cli".  Endpoint children, variable      *)
(* assignments and names are left out.                                     *)
(***************************************************************************)

CONSTANTS
    TreeClient,
    Region,         \* the NetBox objects that are mirrored
    DevSite,        \* the site of the device in NetBox
    None,
    CreateKinds, UpdateKinds,   \* the kinds a request may ask for
    MoveAt,         \* the positions among the siblings it may ask for
    MaxId,          \* row ids
    MaxAsks,        \* requests
    MaxSyncs, MaxEdits      \* syncs, and edits in NetBox

TreeRoot == 1
Services == 2       \* the reserved folder _services
Kind == {"folder", "device", "interface", "parameter", "cli", "service"}
AtEnd == MaxId       \* sort_order omitted

VARIABLES
    tree,       \* the rows: [up, kind, order, nb, ids]
    nextNode,
    nbUp,       \* NetBox: the parent of each region, or "top", or "gone"
    req,        \* req[c]: the request that passed its checks, with the row it read
    unshared,      \* unshared[c]: nothing was written since
    asks, syncs, edits

treevars == <<tree, nextNode, nbUp, req, unshared, asks, syncs, edits>>

Row(up, kind, nb, ids) == [up |-> up, kind |-> kind, order |-> 0, nb |-> nb, ids |-> ids]
NoAsk == [op |-> "none"]
Above == CHOOSE r \in Region : r # DevSite

\* The tree after a first sync: the device's site is in the other region.
TreeInit ==
    /\ nbUp = [r \in Region |-> IF r = DevSite THEN Above ELSE "top"]
    /\ tree \in {1 :> Row(None, "folder", None, {}) @@ 2 :> Row(1, "folder", None, {})
                 @@ 3 :> Row(1, "folder", Above, {}) @@ 4 :> Row(3, "folder", DevSite, {})
                 @@ 5 :> Row(4, "device", None, {"device"})
                 @@ 6 :> Row(5, "interface", None, {"device", "interface"})
                 @@ 7 :> Row(p, "service", None, {"service"}) : p \in {2, 5}}
    /\ nextNode = 8
    /\ req = [c \in TreeClient |-> NoAsk] /\ unshared = [c \in TreeClient |-> TRUE]
    /\ asks = 0 /\ syncs = 0 /\ edits = 0

Kids(t, n) == {x \in DOMAIN t : t[x].up = n}
\* WalkParents: n and its ancestors; None is among them when the walk ends well.
RECURSIVE WalkUp(_, _, _)
WalkUp(t, n, seen) ==
    IF n \in seen \/ n \notin DOMAIN t THEN seen \cup {n} ELSE WalkUp(t, t[n].up, seen \cup {n})
Line(t, n) == WalkUp(t, n, {})
EndsHere(t, n) == None \in Line(t, n)
\* DescendantScopes, n included.
Below(t, n) == {x \in DOMAIN t : n \in Line(t, x)}
TreeWithout(t, S) == [x \in DOMAIN t \ S |-> t[x]]
Find(t, k) == {x \in DOMAIN t : t[x].kind = k}

\* Mutant of CanHang: only the node itself is refused.
CanHangSelf(t, n, p) == p # n /\ p \in DOMAIN t /\ EndsHere(t, p)

\* WouldCycle finds no cycle, and no error on the way up.
CanHang(t, n, p) == p # n /\ p \in DOMAIN t /\ EndsHere(t, p) /\ n \notin Line(t, p)

\* assertParentKind.
ParentAllows(k, ids, parent) ==
    CASE k = "folder" \/ k = "device" -> parent.kind = "folder"
      [] k = "interface" -> parent.kind = "device" /\ "device" \in ids /\ "device" \in parent.ids
      [] k = "parameter" -> parent.kind \in {"folder", "device", "interface", "service"}
      [] k = "cli" -> parent.kind \in {"folder", "device", "interface"}
      [] k = "service" -> parent.kind \in {"folder", "device"}

\* assertScopeUnique: there is one device, one interface, one service.
Unique(t, k, n) == k \in {"device", "interface", "service"} => Find(t, k) \subseteq {n}

\* Order("sort_order, name"); names are taken to sort as the ids do.
Before(t, x, y) == t[x].order < t[y].order \/ (t[x].order = t[y].order /\ x < y)
Sorted(t, S) ==
    [i \in 1 .. Cardinality(S) |->
        CHOOSE x \in S : Cardinality({y \in S : Before(t, y, x)}) = i - 1]
NumberedNode(t, seq) ==
    [x \in DOMAIN t |-> IF \E i \in DOMAIN seq : seq[i] = x
                        THEN [t[x] EXCEPT !.order = (CHOOSE i \in DOMAIN seq : seq[i] = x) - 1]
                        ELSE t[x]]
\* placeAmongSiblings, compactSiblings.
PlaceNode(t, n, p, pos) ==
    LET sib == Sorted(t, Kids(t, p) \ {n})
        at == IF pos > Len(sib) THEN Len(sib) ELSE pos
    IN  NumberedNode(t, InsertAt(sib, at + 1, n))
Compact(t, p) == NumberedNode(t, Sorted(t, Kids(t, p)))

\* AttachDevice: the device's node goes under p, or is made there, with its
\* interface's.  The parent was read by the caller.
AttachDevice(t, p, next) ==
    LET has == Find(t, "device") # {}
        dev == IF has THEN CHOOSE x \in Find(t, "device") : TRUE ELSE next
        t1 == IF has THEN [t EXCEPT ![dev].up = p]
              ELSE next :> Row(p, "device", None, {"device"}) @@ t
        free == IF has THEN next ELSE next + 1
    IN  IF Find(t, "interface") # {} THEN [t |-> t1, next |-> free, id |-> dev]
        ELSE [t |-> free :> Row(dev, "interface", None, {"device", "interface"}) @@ t1,
              next |-> free + 1, id |-> dev]
CanAttach(t, p) ==
    /\ p \in DOMAIN t /\ ParentAllows("device", {"device"}, t[p])
    /\ \A d \in Find(t, "device") : CanHang(t, d, p)

-----------------------------------------------------------------------------
(* Requests: what is asked, and the checks it has to pass. *)

\* isReservedFolder.
ReservedNode(t, n, kind) == n = Services /\ kind = "folder" /\ t[n].up = TreeRoot

\* moveScopeTx up to its first write; row is the row with the patched kind.
MayMove(t, n, row, p) ==
    /\ n # TreeRoot /\ row.kind # "interface" /\ p \in DOMAIN t
    /\ row.up # p =>
         /\ ~ReservedNode(t, n, row.kind) /\ CanHang(t, n, p)
         /\ ParentAllows(row.kind, row.ids, t[p])
         /\ row.kind = "device" => "device" \in row.ids /\ CanAttach(t, p)
         /\ row.kind # "device" => Unique(t, row.kind, n)

Needs(k) == IF k \in {"device", "interface", "service"} THEN {k} ELSE {}
\* UpdateScope: a new kind, with the id that kind needs, and perhaps a new parent.
MayUpdate(t, n, k, p) ==
    /\ n # TreeRoot /\ k # t[n].kind
    /\ IF p # t[n].up THEN MayMove(t, n, [t[n] EXCEPT !.kind = k], p)
                      ELSE p \in DOMAIN t /\ ParentAllows(k, t[n].ids, t[p])
    /\ Unique(t, k, n)

\* DeleteScope.
MayDelete(t, n) ==
    n # TreeRoot /\ t[n].kind # "interface" /\ (t[n].kind # "service" => Kids(t, n) = {})

Take(c, r) ==
    /\ req[c] = NoAsk /\ asks < MaxAsks /\ asks' = asks + 1
    /\ req' = [req EXCEPT ![c] = r] /\ unshared' = [unshared EXCEPT ![c] = TRUE]
    /\ UNCHANGED <<tree, nextNode, nbUp, syncs, edits>>

\* CreateScope: the parent is read and its kind checked.
AskCreate(c) == \E p \in DOMAIN tree, k \in CreateKinds :
    /\ ParentAllows(k, {}, tree[p])
    /\ Take(c, [op |-> "create", up |-> p, kind |-> k])
\* AttachDevice and AttachService: the API's create of a device or a service.
AskAttach(c) == \E p \in DOMAIN tree :
    \/ CanAttach(tree, p) /\ Take(c, [op |-> "attachdev", up |-> p])
    \/ /\ Find(tree, "service") = {} /\ ParentAllows("service", {"service"}, tree[p])
       /\ Take(c, [op |-> "attachsvc", up |-> p])
AskMove(c) == \E n, p \in DOMAIN tree, pos \in MoveAt :
    /\ MayMove(tree, n, tree[n], p)
    /\ Take(c, [op |-> "move", id |-> n, row |-> tree[n], up |-> p, pos |-> pos])
AskUpdate(c) == \E n, p \in DOMAIN tree, k \in UpdateKinds :
    /\ MayUpdate(tree, n, k, p)
    /\ Take(c, [op |-> "update", id |-> n, row |-> [tree[n] EXCEPT !.kind = k], up |-> p,
                pos |-> AtEnd])
AskDelete(c) == \E n \in DOMAIN tree :
    /\ MayDelete(tree, n) /\ Take(c, [op |-> "delete", id |-> n, row |-> tree[n]])
AskDetach(c) == \E n \in Find(tree, "device") :
    Take(c, [op |-> "detach", id |-> n, row |-> tree[n]])

-----------------------------------------------------------------------------
(* The writes. *)

TreeWrote(c) == unshared' = [d \in TreeClient |-> unshared[d] /\ (d = c \/ req[d] = NoAsk)]
PutNode(c, t, next) ==
    /\ tree' = t /\ nextNode' = next /\ req' = [req EXCEPT ![c] = NoAsk] /\ TreeWrote(c)
    /\ UNCHANGED <<nbUp, asks, syncs, edits>>

Create(c) ==
    /\ req[c].op = "create" /\ nextNode <= MaxId
    /\ PutNode(c, nextNode :> Row(req[c].up, req[c].kind, None, {}) @@ tree, nextNode + 1)

\* The indexes on device, interface and service refuse a second row.
AttachNode(c) ==
    \/ /\ req[c].op = "attachdev" /\ nextNode < MaxId
       /\ LET a == AttachDevice(tree, req[c].up, nextNode) IN PutNode(c, a.t, a.next)
    \/ /\ req[c].op = "attachsvc" /\ nextNode <= MaxId
       /\ IF Find(tree, "service") # {} THEN PutNode(c, tree, nextNode)
          ELSE PutNode(c, nextNode :> Row(req[c].up, "service", None, {"service"}) @@ tree, nextNode + 1)

\* Save writes the row as it was read, and inserts it if it is gone.
Saved(t, n, row) == n :> row @@ t

\* moveScopeTx from its first write on.
MovedNode(t, r, next) ==
    LET changed == r.row.up # r.up
        dev == changed /\ r.row.kind = "device"
        a == AttachDevice(t, r.up, next)
        n == IF dev THEN a.id ELSE r.id
        t1 == IF dev THEN a.t
              ELSE IF changed THEN Saved(t, n, [r.row EXCEPT !.up = r.up]) ELSE t
        t2 == IF n \in DOMAIN t1 THEN PlaceNode(t1, n, r.up, r.pos) ELSE t1
    IN  [t |-> IF changed THEN Compact(t2, r.row.up) ELSE t2,
         next |-> IF dev THEN a.next ELSE next, id |-> n]

\* AttachDevice inside the move looks again, and its error undoes the move;
\* so does the reload of a row that is gone.
Move(c) ==
    /\ req[c].op = "move" /\ nextNode < MaxId
    /\ LET m == MovedNode(tree, req[c], nextNode)
       IN  IF \/ req[c].row.kind = "device" /\ req[c].row.up # req[c].up /\ ~CanAttach(tree, req[c].up)
              \/ m.id \notin DOMAIN m.t
           THEN PutNode(c, tree, nextNode) ELSE PutNode(c, m.t, m.next)

Update(c) ==
    /\ req[c].op = "update" /\ nextNode < MaxId
    /\ LET r == req[c]
           m == IF r.row.up = r.up THEN [t |-> tree, next |-> nextNode, id |-> r.id]
                ELSE MovedNode(tree, r, nextNode)
           row == IF r.row.up = r.up THEN r.row ELSE m.t[m.id]
           new == [row EXCEPT !.kind = r.row.kind, !.ids = @ \cup Needs(r.row.kind)]
       IN  IF \/ r.row.kind = "device" /\ r.row.up # r.up /\ ~CanAttach(tree, r.up)
              \/ ~Unique(m.t, r.row.kind, m.id)
           THEN PutNode(c, tree, nextNode) ELSE PutNode(c, Saved(m.t, m.id, new), m.next)

\* Deleting a service is detaching it: its descendants go with it.
DeleteNode(c) ==
    /\ req[c].op = "delete"
    /\ IF req[c].row.kind = "service" /\ req[c].id \in DOMAIN tree
       THEN PutNode(c, TreeWithout(tree, Below(tree, req[c].id)), nextNode)
       ELSE PutNode(c, TreeWithout(tree, {req[c].id}), nextNode)

\* Mutant of KeptNodes: the services go under the device's children's parent, unchanged.
KeptNodesNot(t, n, dest) == t

\* DetachDevice: services directly under the device move to dest ...
KeptNodes(t, n, dest) ==
    [x \in DOMAIN t |-> IF t[x].up = n /\ t[x].kind = "service"
                        THEN [t[x] EXCEPT !.up = dest] ELSE t[x]]
\* ... and what is left under it is deleted.
Detach(c) ==
    /\ req[c].op = "detach"
    /\ LET r == req[c]
           dest == IF r.row.up \in DOMAIN tree THEN r.row.up ELSE Services
           t1 == KeptNodes(tree, r.id, dest)
       IN  IF r.id \notin DOMAIN tree THEN PutNode(c, tree, nextNode)
           ELSE PutNode(c, TreeWithout(t1, Below(t1, r.id)), nextNode)

-----------------------------------------------------------------------------
(* NetBox and its mirror. *)

\* A region or site is moved or deleted in NetBox, which keeps a tree.
NetboxEdit == \E r \in Region, p \in Region \cup {"top", "gone"} :
    /\ edits < MaxEdits /\ edits' = edits + 1
    /\ nbUp[r] # "gone" /\ nbUp[r] # p /\ p # r
    /\ p \in Region => nbUp[p] \notin {r, "gone"}
    /\ p = "gone" => \A s \in Region : nbUp[s] # r
    /\ nbUp' = [nbUp EXCEPT ![r] = p]
    /\ UNCHANGED <<tree, nextNode, req, unshared, asks, syncs>>

Mirror(t, r) == {x \in DOMAIN t : t[x].nb = r}
Present == {r \in Region : nbUp[r] # "gone"}

\* Seed: the service gets a node under _services when it has none.
Seed(t, next) ==
    IF Find(t, "service") # {} \/ Services \notin DOMAIN t THEN [t |-> t, next |-> next]
    ELSE [t |-> next :> Row(Services, "service", None, {"service"}) @@ t, next |-> next + 1]

\* The parent upsertConfigNode gives node x of region r: the one NetBox has, or
\* the root when that is not mirrored; an object at the top of NetBox stays.
Hung(t, r, x, p) == IF p = x THEN TreeRoot ELSE p
Upsert(t, r) ==
    [x \in DOMAIN t |->
        IF t[x].nb # r THEN t[x]
        ELSE LET M == Mirror(t, nbUp[r])
                 p == IF nbUp[r] = "top" THEN t[x].up
                      ELSE IF M = {} THEN TreeRoot ELSE CHOOSE m \in M : TRUE
             IN  [t[x] EXCEPT !.kind = "folder", !.up = Hung(t, r, x, p)]]
\* deleteConfigNode: the children move up.
DropNodes(t, x) ==
    TreeWithout([y \in DOMAIN t |-> IF t[y].up = x THEN [t[y] EXCEPT !.up = t[x].up] ELSE t[y]], {x})

\* placeSyncedDevices: the device under its site's node, or under the root.
PlaceDevice(t, next) ==
    LET S == {x \in Mirror(t, DevSite) : t[x].kind = "folder"}
        p == IF S = {} THEN TreeRoot ELSE CHOOSE x \in S : TRUE
    IN  IF CanAttach(t, p) THEN AttachDevice(t, p, next) ELSE [t |-> t, next |-> next]

Synced(t, next) ==
    /\ tree' = t /\ nextNode' = next /\ syncs' = syncs + 1
    /\ unshared' = [d \in TreeClient |-> unshared[d] /\ req[d] = NoAsk]
    /\ UNCHANGED <<nbUp, req, asks, edits>>

\* syncSites: the missing nodes under the root, then every parent, then the
\* nodes NetBox has lost; nothing is dropped on an empty answer.
SyncAll ==
    /\ syncs < MaxSyncs /\ nextNode + 4 <= MaxId
    /\ LET s == Seed(tree, nextNode)
           new == SetToSeq({r \in Present : Mirror(s.t, r) = {}})
           t1 == s.t @@ [i \in s.next .. s.next + Len(new) - 1 |->
                            Row(TreeRoot, "folder", new[i - s.next + 1], {})]
           t2 == FoldSet(LAMBDA r, t : Upsert(t, r), t1, Present)
           lost == {x \in DOMAIN t2 : t2[x].nb # None /\ t2[x].nb \notin Present}
           t3 == IF Present = {} THEN t2 ELSE FoldSet(LAMBDA x, t : DropNodes(t, x), t2, lost)
           d == PlaceDevice(t3, s.next + Len(new))
       IN  Synced(d.t, d.next)

\* SyncDCIMTreeItem: the webhook's or the delta sync's refresh of one object.
SyncItem == \E r \in Region :
    /\ syncs < MaxSyncs /\ nextNode + 4 <= MaxId
    /\ IF nbUp[r] = "gone"
       THEN LET t1 == FoldSet(LAMBDA x, t : DropNodes(t, x), tree, Mirror(tree, r))
                s == Seed(t1, nextNode)
                d == PlaceDevice(s.t, s.next)
            IN  IF r = DevSite THEN Synced(d.t, d.next) ELSE Synced(t1, nextNode)
       ELSE LET s == Seed(tree, nextNode)
                has == Mirror(s.t, r) # {}
                t1 == IF has THEN s.t ELSE s.next :> Row(TreeRoot, "folder", r, {}) @@ s.t
                n1 == IF has THEN s.next ELSE s.next + 1
                t2 == Upsert(t1, r)
                d == PlaceDevice(t2, n1)
            IN  IF r = DevSite THEN Synced(d.t, d.next) ELSE Synced(t2, n1)

TreeNext ==
    \/ \E c \in TreeClient :
         \/ AskCreate(c) \/ AskAttach(c) \/ AskMove(c) \/ AskUpdate(c) \/ AskDelete(c)
         \/ AskDetach(c) \/ Create(c) \/ AttachNode(c) \/ Move(c) \/ Update(c) \/ DeleteNode(c)
         \/ Detach(c)
    \/ NetboxEdit \/ SyncAll \/ SyncItem

TreeSpec == TreeInit /\ [][TreeNext]_treevars

-----------------------------------------------------------------------------
Rooted == \A n \in DOMAIN tree : EndsHere(tree, n)

\* A request whose checks are still true when it writes - nothing was written
\* in between - never leaves a node that does not hang off the root, whatever
\* kinds and parents were changed before.
RequestsKeepRooted ==
    \A c \in TreeClient : req[c] # NoAsk /\ req'[c] = NoAsk /\ unshared[c] /\ Rooted => Rooted'

\* Detaching a device loses no service that hung under it: it goes where the
\* device was.
DetachKeepsServices ==
    \A c \in TreeClient :
      req[c].op = "detach" /\ req'[c] = NoAsk /\ unshared[c]
      => \A x \in Kids(tree, req[c].id) :
           tree[x].kind = "service" => x \in DOMAIN tree' /\ EndsHere(tree', x)

-----------------------------------------------------------------------------
(***************************************************************************)
(* Values of configuration variables (internal/cfgmgmt/resolve.go,         *)
(* scope.go, seed.go): where an operator's write is stored, how a value is *)
(* found for an interface, and the migration of assignments from the       *)
(* folders, devices and interfaces themselves onto a reserved child named  *)
(* "parameters".  The migration is part of Seed, which runs at start and   *)
(* in every NetBox sync, outside any transaction, and can stop half-way.   *)
(* The tree of organisational scopes is the one above; it is fixed         *)
(* here.                                                                   *)
(***************************************************************************)

CONSTANTS
    Org,            \* ids of folders, devices and interface nodes, all below MinParam
    ParentOf,       \* Org -> its parent, 0 for the root
    MIface,         \* interfaces
    ScopeOfIface,   \* interface -> its node, 0 when it has none
    ScopeOfDevice,  \* interface -> its device's node, 0 when it has none
    PlatformOf,     \* interface -> its device's platform
    Var,
    Plain,          \* values that are written
    ValueStarts,    \* [defs, asg, params]
    ParamBodies,    \* [name, enabled, plats] an operator saves for a parameter object
    VarBodies,      \* [val, secret, plats] an operator saves for a variable
    MinParam, MaxParam, MaxValueCalls, MaxValueEvents

VARIABLES
    params,     \* id -> [parent, name, order, enabled, plats]: the parameter objects
    lastId,     \* the highest scope id handed out
    defs,       \* variable -> [default, secret, required, plats]
    asg,        \* variable -> scope id -> value, "null", or "-" when there is no row
    seed,       \* Seed's migration: what it does and what it has read
    seen,       \* <<variable, scope>> shown to a client as "***"
    intended,   \* variable -> Org -> what was last written or deleted there, or the old row
    raced,      \* <<variable, scope>> deleted while Seed held its old value
    strayed,    \* Org whose reserved child was renamed, moved or doubled
    unveiled,   \* variables that were secret and are not any more
    valueCalls, seeds

valuevars == <<params, lastId, defs, asg, seed, seen, intended, raced, strayed, unveiled,
               valueCalls, seeds>>

Reserved == 2               \* the rank of the name "parameters" among names 1..3
ParamIds == MinParam .. MaxParam
Ids == Org \cup ParamIds
Root == CHOOSE o \in Org : ParentOf[o] = 0
Off == [at |-> "off", left |-> {}, scope |-> 0, child |-> 0, rows |-> {}]

ValueInit ==
    /\ \E s \in ValueStarts :
          /\ params = s.params /\ defs = s.defs
          /\ lastId = Max({MinParam - 1} \cup DOMAIN s.params)
          /\ asg = [v \in Var |-> [i \in Ids |-> IF <<v, i>> \in DOMAIN s.asg THEN s.asg[v, i] ELSE "-"]]
          /\ intended = [v \in Var |-> [o \in Org |-> IF <<v, o>> \in DOMAIN s.asg THEN s.asg[v, o] ELSE "-"]]
    /\ seed = Off /\ seen = {} /\ raced = {} /\ strayed = {} /\ unveiled = {}
    /\ valueCalls = 0 /\ seeds = 0

\* One budget for requests and runs of Seed.
ValueBudget == valueCalls + seeds < MaxValueEvents
ValueCall == ValueBudget /\ valueCalls < MaxValueCalls /\ valueCalls' = valueCalls + 1

-----------------------------------------------------------------------------
(* Reading the tree.                                                       *)

Children(o) == {p \in DOMAIN params : params[p].parent = o}
ReservedOf(o) == {p \in Children(o) : params[p].name = Reserved}

\* First(): the lowest id; 0 when there is none.
findParametersChild(o) == IF ReservedOf(o) = {} THEN 0 ELSE Min(ReservedOf(o))

\* The parent of a reserved child; 0 for every other scope.
reservedParametersParent(s) ==
    IF s \in DOMAIN params /\ params[s].name = Reserved THEN params[s].parent ELSE 0

StartScope(i) ==
    IF ScopeOfIface[i] # 0 THEN ScopeOfIface[i]
    ELSE IF ScopeOfDevice[i] # 0 THEN ScopeOfDevice[i] ELSE Root

WalkParents[o \in Org] == IF ParentOf[o] = 0 THEN <<o>> ELSE <<o>> \o WalkParents[ParentOf[o]]

-----------------------------------------------------------------------------
(* resolveDefAt: from the start scope up, the parameter children by        *)
(* sort_order and name, both descending; then the default.                 *)

platformAllowed(def, plat) == def.plats = {} \/ plat \in def.plats

parameterObjectAllowed(p, plat) ==
    /\ params[p].enabled
    /\ \/ params[p].plats = {} \/ plat \in params[p].plats
       \/ plat = "sros-md" /\ "sros" \in params[p].plats

Comes(p, q) ==
    \/ params[p].order > params[q].order
    \/ params[p].order = params[q].order /\ params[p].name > params[q].name

Holding(v, o, plat) ==
    {p \in Children(o) : parameterObjectAllowed(p, plat) /\ asg[v][p] \notin {"-", "null"}}

\* Mutant of FirstOf: the children in the other direction.
LastOf(ps) == CHOOSE p \in ps : \A q \in ps \ {p} : ~Comes(p, q)

FirstOf(ps) == CHOOSE p \in ps : \A q \in ps \ {p} : ~Comes(q, p)

Default(v) == IF defs[v].default # "-" THEN defs[v].default
              ELSE IF defs[v].required THEN "error" ELSE "-"

resolveDefAt(v, start, plat) ==
    LET chain == WalkParents[start]
        at == {n \in 1 .. Len(chain) : Holding(v, chain[n], plat) # {}}
    IN  IF at = {} THEN Default(v) ELSE asg[v][FirstOf(Holding(v, chain[Min(at)], plat))]

Resolve(i, v) ==
    IF platformAllowed(defs[v], PlatformOf[i]) THEN resolveDefAt(v, StartScope(i), PlatformOf[i]) ELSE "-"

-----------------------------------------------------------------------------
(* Assignments: ApiConfigAssignmentList, -Upsert and -Delete.              *)

\* What the list of a scope shows; a folder's shows the reserved child's rows over its own.
winningAssignment(v, s) ==
    LET c == IF s \in Org THEN findParametersChild(s) ELSE 0
    IN  IF c # 0 /\ asg[v][c] # "-" THEN asg[v][c] ELSE asg[v][s]

\* The values shown as "***".
RedactAssignmentSecrets(s) == {v \in Var : defs[v].secret /\ winningAssignment(v, s) \notin {"-", "null"}}

ApiConfigAssignmentList(s) ==
    /\ s \in Org \cup DOMAIN params
    /\ ~(RedactAssignmentSecrets(s) \X {s} \subseteq seen)
    /\ seen' = seen \cup (RedactAssignmentSecrets(s) \X {s})
    /\ UNCHANGED <<params, lastId, defs, asg, seed, intended, raced, strayed, unveiled, valueCalls, seeds>>

\* ensureParametersChild: the id it has or gets.
NewId == lastId + 1
Numbered == lastId' = Max({lastId} \cup DOMAIN params')
ChildId(o) == IF ReservedOf(o) = {} THEN NewId ELSE findParametersChild(o)
ensureParametersChild(o) ==
    IF ReservedOf(o) # {} THEN params
    ELSE [p \in DOMAIN params \cup {NewId} |->
            IF p = NewId THEN [parent |-> o, name |-> Reserved, order |-> 0, enabled |-> TRUE, plats |-> {}]
            ELSE params[p]]

SecretDefaultUnchanged(val) == val \in {"null", "***"}

\* A write onto a folder, device or interface goes to its reserved child; the old row
\* follows while there is one.
UpsertAssignment(v, s, val) ==
    LET own == IF s \in Org THEN s ELSE reservedParametersParent(s)
        primary == IF s \in Org THEN ChildId(s) ELSE s
    IN  /\ ValueCall /\ s \in Org \cup DOMAIN params /\ primary <= MaxParam
        /\ ~(defs[v].secret /\ SecretDefaultUnchanged(val))      \* kept as stored, or 400
        /\ ~(defs[v].required /\ val = "null")
        /\ val = "***" => <<v, s>> \in seen
        /\ params' = IF s \in Org THEN ensureParametersChild(s) ELSE params
        /\ asg' = [asg EXCEPT ![v] = [i \in Ids |->
                     IF i = primary \/ (i = own /\ @[i] # "-") THEN val ELSE @[i]]]
        /\ intended' = [intended EXCEPT ![v] = [o \in Org |-> IF o = own THEN val ELSE @[o]]]
        /\ Numbered
        /\ UNCHANGED <<defs, seed, seen, raced, strayed, unveiled, seeds>>

\* Seed has read this row and has yet to write its copy.
InHand(v, o) == seed.at = "rows" /\ seed.scope = o /\ \E r \in seed.rows : r[1] = v

\* Mutant of AlsoDeleted: only the row that was asked for.
AlsoDeletedNone(s) == {}

\* The rows that go with the one of scope s: its old row, or its copy.
AlsoDeleted(s) ==
    IF s \in Org THEN {findParametersChild(s)} \ {0} ELSE {reservedParametersParent(s)} \ {0}

DeleteAssignment(v, s) ==
    LET own == IF s \in Org THEN s ELSE reservedParametersParent(s)
    IN  /\ ValueCall /\ s \in Org \cup DOMAIN params /\ asg[v][s] # "-"
        /\ asg' = [asg EXCEPT ![v] = [i \in Ids |-> IF i \in {s} \cup AlsoDeleted(s) THEN "-" ELSE @[i]]]
        /\ intended' = [intended EXCEPT ![v] = [o \in Org |-> IF o = own THEN "-" ELSE @[o]]]
        /\ raced' = IF InHand(v, own) THEN raced \cup {<<v, own>>} ELSE raced
        /\ UNCHANGED <<params, lastId, defs, seed, seen, strayed, unveiled, seeds>>

-----------------------------------------------------------------------------
(* Parameter objects.  Siblings of other kinds leave the order of the      *)
(* parameter objects among themselves alone.                               *)

Precedes(p, q) ==
    \/ params[p].order < params[q].order
    \/ params[p].order = params[q].order /\ params[p].name < params[q].name
    \/ params[p].order = params[q].order /\ params[p].name = params[q].name /\ p < q

Place(q, sibs) == Cardinality({r \in sibs : Precedes(r, q)})

\* placeAmongSiblings: the place of q when p is put at position pos of parent o.
placeAmongSiblings(p, o, pos, q) ==
    LET sibs == Children(o) \ {p}
    IN  IF q = p THEN Min({pos, Cardinality(sibs)})
        ELSE IF Place(q, sibs) < pos THEN Place(q, sibs) ELSE Place(q, sibs) + 1

\* compactSiblings of the parent p left.
compactSiblings(p, q) == Place(q, Children(params[p].parent) \ {p})

\* The reserved child of o is renamed, moved away or doubled.
Strays(os) == strayed' = strayed \cup (os \cap Org)

CreateScope(o, name, order) ==
    /\ ValueCall /\ NewId <= MaxParam
    /\ params' = [p \in DOMAIN params \cup {NewId} |->
          IF p = NewId THEN [parent |-> o, name |-> name, order |-> order, enabled |-> TRUE, plats |-> {}]
          ELSE params[p]]
    /\ Strays(IF name = Reserved /\ ReservedOf(o) # {} THEN {o} ELSE {})
    /\ Numbered
    /\ UNCHANGED <<defs, asg, seed, seen, intended, raced, unveiled, seeds>>

\* UpdateScope without a new parent: name, enabled and platforms.
UpdateScope(p, b) ==
    /\ ValueCall /\ p \in DOMAIN params
    /\ params' = [params EXCEPT ![p].name = b.name, ![p].enabled = b.enabled, ![p].plats = b.plats]
    /\ Strays(IF b.name # params[p].name /\ Reserved \in {b.name, params[p].name} THEN {params[p].parent} ELSE {})
    /\ Numbered
    /\ UNCHANGED <<defs, asg, seed, seen, intended, raced, unveiled, seeds>>

\* MoveScope: to a new parent, or to another place under its own.
MoveScope(p, o, pos) ==
    /\ ValueCall /\ p \in DOMAIN params
    /\ params' = [q \in DOMAIN params |->
          IF q = p THEN [params[p] EXCEPT !.parent = o, !.order = placeAmongSiblings(p, o, pos, p)]
          ELSE IF params[q].parent = o THEN [params[q] EXCEPT !.order = placeAmongSiblings(p, o, pos, q)]
          ELSE IF params[q].parent = params[p].parent THEN [params[q] EXCEPT !.order = compactSiblings(p, q)]
          ELSE params[q]]
    /\ Strays(IF params[p].name = Reserved /\ params[p].parent # o THEN {o, params[p].parent} ELSE {})
    /\ Numbered
    /\ UNCHANGED <<defs, asg, seed, seen, intended, raced, unveiled, seeds>>

\* Whether variable v's row at scope i goes with object p: with a reserved child's rows go
\* the old rows of the same variables.
deleteParameterAssignments(p, v, i) ==
    i = p \/ (i = reservedParametersParent(p) /\ asg[v][p] # "-")

\* deleteScopeSubtree of a parameter object.
DeleteScope(p) ==
    LET o == reservedParametersParent(p)
        had == {v \in Var : asg[v][p] # "-"}
    IN  /\ ValueCall /\ p \in DOMAIN params
        /\ params' = [q \in DOMAIN params \ {p} |-> params[q]]
        /\ asg' = [v \in Var |-> [i \in Ids |->
                     IF deleteParameterAssignments(p, v, i) THEN "-" ELSE asg[v][i]]]
        /\ intended' = [v \in Var |-> [i \in Org |-> IF i = o /\ v \in had THEN "-" ELSE intended[v][i]]]
        /\ raced' = raced \cup {<<v, o>> : v \in {w \in had : InHand(w, o)}}
        /\ Numbered
        /\ UNCHANGED <<defs, seed, seen, strayed, unveiled, seeds>>

-----------------------------------------------------------------------------
(* ApiConfigVariableUpdate: a secret's default is kept unless a new one is *)
(* given; a client never sees it.                                          *)

ApiConfigVariableUpdate(v, b) ==
    LET kept == (defs[v].secret \/ b.secret) /\ SecretDefaultUnchanged(b.val)
    IN  /\ ValueCall
        /\ defs' = [defs EXCEPT ![v].default = IF kept THEN @ ELSE IF b.val = "null" THEN "-" ELSE b.val,
                                ![v].secret = b.secret, ![v].plats = b.plats]
        /\ unveiled' = IF defs[v].secret /\ ~b.secret THEN unveiled \cup {v} ELSE unveiled
        /\ UNCHANGED <<params, lastId, asg, seed, seen, intended, raced, strayed, seeds>>

-----------------------------------------------------------------------------
(* Seed: copyAssignmentsOntoParameterChildren, then                        *)
(* moveAssignmentsOntoParameterChildren.                                   *)

Assigned == {o \in Org : \E v \in Var : asg[v][o] # "-"}

SeedBegin ==
    /\ seed.at = "off" /\ ValueBudget /\ seeds' = seeds + 1
    /\ seed' = [Off EXCEPT !.at = "copy", !.left = Assigned]
    /\ UNCHANGED <<params, lastId, defs, asg, seen, intended, raced, strayed, unveiled, valueCalls>>

\* A scope of the copy: its child is found or made and its rows are read.
SeedScope(o) ==
    /\ seed.at = "copy" /\ o \in seed.left /\ ChildId(o) <= MaxParam
    /\ params' = ensureParametersChild(o)
    /\ seed' = [at |-> "rows", left |-> seed.left \ {o}, scope |-> o, child |-> ChildId(o),
                rows |-> {<<v, asg[v][o]>> : v \in {w \in Var : asg[w][o] # "-"}}]
    /\ Numbered
    /\ UNCHANGED <<defs, asg, seen, intended, raced, strayed, unveiled, valueCalls, seeds>>

\* A row is copied when the child has none.
Copied(v) == asg[v][seed.child] = "-"

SeedRow(r) ==
    /\ seed.at = "rows" /\ r \in seed.rows
    /\ asg' = IF Copied(r[1]) THEN [asg EXCEPT ![r[1]][seed.child] = r[2]] ELSE asg
    /\ seed' = [seed EXCEPT !.rows = @ \ {r}]
    /\ UNCHANGED <<params, lastId, defs, seen, intended, raced, strayed, unveiled, valueCalls, seeds>>

SeedScopeDone ==
    /\ seed.at = "rows" /\ seed.rows = {}
    /\ seed' = [seed EXCEPT !.at = "copy"]
    /\ UNCHANGED <<params, lastId, defs, asg, seen, intended, raced, strayed, unveiled, valueCalls, seeds>>

SeedMoveBegin ==
    /\ seed.at = "copy" /\ seed.left = {}
    /\ seed' = [Off EXCEPT !.at = "move", !.left = Assigned]
    /\ UNCHANGED <<params, lastId, defs, asg, seen, intended, raced, strayed, unveiled, valueCalls, seeds>>

\* A scope of the move: old rows that have a copy are deleted.
SeedMove(o) ==
    LET c == findParametersChild(o)
    IN  /\ seed.at = "move" /\ o \in seed.left
        /\ asg' = IF c = 0 THEN asg
                  ELSE [v \in Var |-> [asg[v] EXCEPT ![o] = IF asg[v][c] = "-" THEN @ ELSE "-"]]
        /\ seed' = [seed EXCEPT !.left = @ \ {o}]
        /\ UNCHANGED <<params, lastId, defs, seen, intended, raced, strayed, unveiled, valueCalls, seeds>>

\* The end, or an error or a stop of the process at any point.
SeedEnd ==
    /\ seed.at # "off" /\ seed' = Off
    /\ UNCHANGED <<params, lastId, defs, asg, seen, intended, raced, strayed, unveiled, valueCalls, seeds>>

ValueNext ==
    \/ \E s \in Org \cup DOMAIN params : ApiConfigAssignmentList(s)
    \/ \E v \in Var, s \in Org \cup DOMAIN params, val \in Plain \cup {"null", "***"} : UpsertAssignment(v, s, val)
    \/ \E v \in Var, s \in Org \cup DOMAIN params : DeleteAssignment(v, s)
    \/ \E o \in Org, n \in 1 .. 3, k \in 0 .. 1 : CreateScope(o, n, k)
    \/ \E p \in DOMAIN params :
          \/ \E b \in ParamBodies : UpdateScope(p, b)
          \/ \E o \in Org, k \in 0 .. 1 : MoveScope(p, o, k)
          \/ DeleteScope(p)
    \/ \E v \in Var, b \in VarBodies : ApiConfigVariableUpdate(v, b)
    \/ SeedBegin \/ SeedScopeDone \/ SeedMoveBegin \/ SeedEnd
    \/ \E o \in Org : SeedScope(o) \/ SeedMove(o)
    \/ \E r \in seed.rows : SeedRow(r)

ValueSpec == ValueInit /\ [][ValueNext]_valuevars

-----------------------------------------------------------------------------
ValueTypeOK ==
    /\ DOMAIN params \subseteq ParamIds
    /\ \A p \in DOMAIN params : params[p].parent \in Org /\ params[p].name \in 1 .. 3
    /\ \A v \in Var : \A i \in Ids : asg[v][i] \in Plain \cup {"null", "***", "-"}
    /\ seed.at \in {"off", "copy", "rows", "move"}

\* What was last written at a folder, device or interface is what it has: in the reserved
\* child, or still in the old row.  A Seed stopped anywhere and run again loses nothing
\* and brings nothing back that was deleted (DeleteAssignment, deleteParameterAssignments).
\* Left out: rows deleted between Seed's read and its copy, and reserved children that were
\* renamed, moved or doubled.
ValuesKept ==
    \A v \in Var, o \in Org : <<v, o>> \notin raced /\ o \notin strayed =>
       winningAssignment(v, o) = intended[v][o]

Written(v, p) == IF params[p].name = Reserved THEN intended[v][params[p].parent] ELSE asg[v][p]

\* An interface gets the value written nearest to it: of the nearest scope with an enabled
\* parameter object for its platform that was given one, from the object that comes last by
\* order and name; otherwise the default.  Left out: scopes whose old rows wait for Seed.
ResolvesAsWritten ==
    \A v \in Var, i \in MIface :
       LET chain == WalkParents[StartScope(i)]
           given(n) == {p \in Children(chain[n]) :
                          parameterObjectAllowed(p, PlatformOf[i]) /\ Written(v, p) \notin {"-", "null"}}
       IN  /\ platformAllowed(defs[v], PlatformOf[i])
           /\ \A n \in 1 .. Len(chain) :
                 /\ chain[n] \notin strayed /\ <<v, chain[n]>> \notin raced
                 /\ asg[v][chain[n]] # "-" =>
                       ReservedOf(chain[n]) # {} /\ asg[v][findParametersChild(chain[n])] # "-"
           => \/ /\ \A n \in 1 .. Len(chain) : given(n) = {}
                 /\ Resolve(i, v) = Default(v)
              \/ \E n \in 1 .. Len(chain) : \E p \in given(n) :
                    /\ \A m \in 1 .. n - 1 : given(m) = {}
                    /\ \A q \in given(n) : ~Comes(q, p)
                    /\ Resolve(i, v) = Written(v, p)

\* A client that sends back the list it was shown never stores the placeholder it was
\* shown for a secret (RedactAssignmentSecrets, SecretDefaultUnchanged).  Left out:
\* variables that ceased to be secret meanwhile.
PlaceholderNotStored == \A v \in Var \ unveiled : \A i \in Ids : asg[v][i] # "***"
=============================================================================
