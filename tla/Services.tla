------------------------------ MODULE Services ------------------------------
(***************************************************************************)
(* Services: first their rows in the database, then their configuration on *)
(* the network.                                                            *)
(***************************************************************************)
EXTENDS Integers, FiniteSets, Sequences

-----------------------------------------------------------------------------
(***************************************************************************)
(* Service numbers, tree nodes and pool prefixes (cfgmgmt/service.go,      *)
(* resource.go, web/handler_service.go).  A create without an id takes the *)
(* next number of its category, from the rows it locks; one with an id     *)
(* checks that it is free.  A service gets one node in the configuration   *)
(* tree, and a prefix that AllocateResource reported free.  The database   *)
(* is PostgreSQL at READ COMMITTED: a locking SELECT returns the rows that *)
(* were there when it began, after waiting for their locks, without those  *)
(* deleted meanwhile and without those inserted meanwhile.                 *)
(***************************************************************************)

CONSTANTS
    Client,         \* requests
    Asks,           \* what they ask: [kind, num, prefix]; num 0 for "the next one"
    Category,         \* the prefixes of the resource pool
    FirstRows,      \* numbers in use at the start
    MaxNum,         \* the largest number the five digits hold
    Nothing

VARIABLES
    rows,       \* the services: [id, num, prefix]; id is the row's key
    nodes,      \* the services that have a canonical tree node
    nextId,
    lock,       \* lock[i]: the transaction that has row i locked
    ph,         \* ph[c]: where the request is
    ask,        \* ask[c]: what it asks
    snap,       \* snap[c]: the rows its locking SELECT began with
    num,        \* num[c]: the number or the row it settled on
    free,       \* free[c]: the prefix AllocateResource called free
    alone       \* alone[c]: no other request has written since it began to look

svcvars == <<rows, nodes, nextId, lock, ph, ask, snap, num, free, alone>>

SvcInit ==
    /\ rows = {[id |-> n, num |-> n, prefix |-> Nothing] : n \in FirstRows}
    /\ nodes = {} /\ nextId = MaxNum + 2
    /\ lock = [i \in 1 .. MaxNum + 1 + Cardinality(Client) |-> Nothing]
    /\ ph = [c \in Client |-> "idle"] /\ ask \in [Client -> Asks]
    /\ snap = [c \in Client |-> {}] /\ num = [c \in Client |-> 0]
    /\ free = [c \in Client |-> Nothing] /\ alone = [c \in Client |-> TRUE]

To(c, s) == ph' = [ph EXCEPT ![c] = s]
Busy(c) == ph[c] \notin {"idle", "done"}
Unlock(c) == lock' = [i \in DOMAIN lock |-> IF lock[i] = c THEN Nothing ELSE lock[i]]
\* c writes: the requests under way have looked at a table that is no longer so.
Wrote(c) == alone' = [d \in Client |-> alone[d] /\ (d = c \/ ~Busy(d))]

\* serviceIDShape: five digits.
Shaped(r) == r.num <= MaxNum
Highest(R) == IF R = {} THEN 0 ELSE CHOOSE n \in {r.num : r \in R} : \A r \in R : r.num <= n
\* Mutant of NextServiceId: the first number no row has.
FirstGap(R) == CHOOSE n \in 1 .. MaxNum + 1 : n = Cardinality(R) + 1

\* nextServiceID: one more than the highest number of the rows it was given.
NextServiceId(R) == Highest({r \in R : Shaped(r)}) + 1

\* AllocateResource: the operator's form shows what occupiedPrefixes leaves free.
AllocateNumber(c) ==
    /\ ph[c] = "idle" /\ ask[c].kind = "create" /\ ask[c].prefix
    /\ free' = [free EXCEPT ![c] = IF \E p \in Category : \A r \in rows : r.prefix # p
                                   THEN CHOOSE p \in Category : \A r \in rows : r.prefix # p
                                   ELSE Nothing]
    /\ To(c, "form") /\ UNCHANGED <<rows, nodes, nextId, lock, ask, snap, num, alone>>

\* CreateServiceRecord begins: the locking SELECT, or the count of the given id.
Begin(c) ==
    /\ ask[c].kind = "create" /\ ph[c] = (IF ask[c].prefix THEN "form" ELSE "idle")
    /\ IF ask[c].num = 0
       THEN To(c, "select") /\ snap' = [snap EXCEPT ![c] = rows] /\ UNCHANGED num
       ELSE /\ To(c, IF \E r \in rows : r.num = ask[c].num THEN "done" ELSE "insert")
            /\ num' = [num EXCEPT ![c] = ask[c].num] /\ UNCHANGED snap
    /\ UNCHANGED <<rows, nodes, nextId, lock, ask, free, alone>>

\* The SELECT has all its rows locked.
Select(c) ==
    /\ ph[c] = "select" /\ \A r \in snap[c] : lock[r.id] = Nothing \/ r \notin rows
    /\ LET kept == snap[c] \cap rows
       IN  /\ lock' = [i \in DOMAIN lock |-> IF \E r \in kept : r.id = i THEN c ELSE lock[i]]
           /\ num' = [num EXCEPT ![c] = NextServiceId(kept)]
    /\ To(c, "insert") /\ UNCHANGED <<rows, nodes, nextId, ask, snap, free, alone>>

\* The row is inserted and the transaction commits.
Insert(c) ==
    /\ ph[c] = "insert" /\ ask[c].kind = "create"
    /\ rows' = rows \cup {[id |-> nextId, num |-> num[c], prefix |-> free[c]]}
    /\ nextId' = nextId + 1 /\ Unlock(c) /\ Wrote(c) /\ To(c, "done")
    /\ UNCHANGED <<nodes, ask, snap, num, free>>

\* A delete waits for the row's lock.
Delete(c) ==
    /\ ph[c] = "idle" /\ ask[c].kind = "delete" /\ To(c, "done")
    /\ \E r \in rows : lock[r.id] = Nothing /\ rows' = rows \ {r}
                       /\ nodes' = nodes \ {r.id}
    /\ Wrote(c) /\ UNCHANGED <<nextId, lock, ask, snap, num, free>>

\* insertCanonicalService looks for the service's node ...
Look(c) ==
    /\ ph[c] = "idle" /\ ask[c].kind = "attach"
    /\ \E r \in rows :
         /\ To(c, IF r.id \in nodes THEN "done" ELSE "insert")
         /\ num' = [num EXCEPT ![c] = r.id]
    /\ UNCHANGED <<rows, nodes, nextId, lock, ask, snap, free, alone>>

\* ... and creates it, unless the index idx_config_scopes_one_service has one now.
Attach(c) ==
    /\ ph[c] = "insert" /\ ask[c].kind = "attach" /\ To(c, "done")
    /\ nodes' = nodes \cup {num[c]} /\ Wrote(c)
    /\ UNCHANGED <<rows, nextId, lock, ask, snap, num, free>>

SvcNext == \E c \in Client :
    \/ AllocateNumber(c) \/ Begin(c) \/ Select(c) \/ Insert(c) \/ Delete(c) \/ Look(c) \/ Attach(c)

SvcSpec == SvcInit /\ [][SvcNext]_svcvars

-----------------------------------------------------------------------------
SameNum(r, s) == r # s /\ r.num = s.num
\* The create that made row r overlapped no other write, and the five digits sufficed.
Undisturbed == \A c \in Client : alone[c]

\* What the code does guarantee: two services have the same number or the same
\* prefix only after two requests overlapped, or once the digits are used up.
SerialIsUnique ==
    Undisturbed =>
        /\ \A r, s \in rows : r.num <= MaxNum => ~SameNum(r, s)
        /\ \A r, s \in rows : r # s /\ r.prefix # Nothing => r.prefix # s.prefix

-----------------------------------------------------------------------------
(***************************************************************************)
(* A service on the network: its endpoints in Factum with the snapshot of  *)
(* what was last pushed (the applied columns), the configuration           *)
(* on the devices and the objects in NetBox.  ApiServiceEndpointsPut and   *)
(* apiServiceGenericPush of web/handler_config.go, ApiServiceDelete and    *)
(* ApiServiceUnrealize of web/handler_service.go, the helpers of           *)
(* web/handler_service_eline.go, ReplaceEndpoints of                       *)
(* internal/cfgmgmt/endpoints.go and deleteServiceEndpointScope of         *)
(* internal/cfgmgmt/scope.go.  No lock is held over a request; every call  *)
(* to a device or to NetBox may fail.                                      *)
(***************************************************************************)

CONSTANTS
    Caller,        \* clients of the API
    Dev, Ifc,      \* devices and interface names (positive numbers)
    Wants,         \* the endpoint lists a PUT may ask for: sequences of
                   \* [dev, ifc, vlan], one per interface; vlan 0 for none
    Cleanups,      \* the flags of a delete: records of [device, netbox]
    MaxReqs, MaxErrs, MaxNb, MaxTree

VARIABLES
    eps,           \* the rows, oldest first: [id, dev, ifc, vlan, sub, term] and
                   \* the snapshot [adev, aifc, avlan]; 0 for none
    live,          \* the service's configuration: a set of [dev, ifc, vlan]
    subs,          \* NetBox: subinterface id -> [dev, ifc, vlan]
    terms,         \* NetBox: ids of terminations
    rowIds, nbIds, \* the last ids given
    job,           \* per client: the request it is in
    reqs, errs,
    trees          \* endpoints deleted in the configuration tree

realvars == <<eps, live, subs, terms, rowIds, nbIds, job, reqs, errs, trees>>

Idle == [at |-> "idle", want |-> <<>>, rows |-> <<>>, todo |-> {}, new |-> <<>>, moved |-> FALSE,
         bad |-> FALSE, netbox |-> FALSE]

RealInit ==
    /\ eps = <<>> /\ live = {} /\ subs = <<>> /\ terms = {} /\ rowIds = 0 /\ nbIds = 0
    /\ job = [c \in Caller |-> Idle] /\ reqs = 0 /\ errs = 0 /\ trees = 0

Elems(s) == {s[k] : k \in DOMAIN s}
Cut(f, S) == [x \in DOMAIN f \ S |-> f[x]]
SameBinding(a, b) == a.dev = b.dev /\ a.ifc = b.ifc

Err == errs < MaxErrs /\ errs' = errs + 1
NoErr == UNCHANGED errs

Store == <<eps, live, subs, terms, rowIds, nbIds>>

-----------------------------------------------------------------------------
(* Helpers of the handlers.                                                *)

endpointsNeedingTeardown(old, new) ==
    {e \in Elems(old) : e.adev # 0 /\ \A w \in Elems(new) : ~SameBinding(e, w)}

endpointNeedsAddPush(e) == e.adev # e.dev \/ e.aifc # e.ifc

\* The old row of a wanted endpoint: that of its interface, or the only one
\* with its VLAN; 0 for none.
matchPrevEndpoint(prev, w) ==
    LET same == {k \in DOMAIN prev : SameBinding(prev[k], w)}
        vlan == {k \in DOMAIN prev : prev[k].vlan = w.vlan}
    IN  IF same # {} THEN CHOOSE k \in same : \A j \in same : k <= j
        ELSE IF Cardinality(vlan) = 1 THEN CHOOSE k \in vlan : TRUE ELSE 0

\* Mutant of carryAppliedSnapshots: only unchanged endpoints keep theirs.
carrySame(prev, new) ==
    [k \in DOMAIN new |-> LET same == {j \in DOMAIN prev : SameBinding(prev[j], new[k]) /\ prev[j].vlan = new[k].vlan}
                          IN  IF same = {} THEN 0 ELSE CHOOSE j \in same : TRUE]

\* Which old row's snapshot each new row takes: the same endpoint's, then that
\* of the only unused row with its VLAN, then the one left over; 0 for none.
carryAppliedSnapshots(prev, new) ==
    LET Used(m) == Elems(m)
        Free(m) == DOMAIN prev \ Used(m)
        same == [k \in DOMAIN new |->
                   LET s == {j \in DOMAIN prev : SameBinding(prev[j], new[k]) /\ prev[j].vlan = new[k].vlan}
                   IN  IF s = {} THEN 0 ELSE CHOOSE j \in s : TRUE]
        byVlan[n \in 0..Len(new)] ==
            IF n = 0 THEN same
            ELSE LET m == byVlan[n - 1]
                     s == {j \in Free(m) : prev[j].vlan = new[n].vlan}
                 IN  IF m[n] = 0 /\ Cardinality(s) = 1 THEN [m EXCEPT ![n] = CHOOSE j \in s : TRUE] ELSE m
        m2 == byVlan[Len(new)]
        lone == {k \in DOMAIN new : m2[k] = 0}
    IN  IF Cardinality(lone) = 1 /\ Cardinality(Free(m2)) = 1
        THEN [k \in DOMAIN new |-> IF k \in lone THEN CHOOSE j \in Free(m2) : TRUE ELSE m2[k]]
        ELSE m2

\* ReplaceEndpoints: all rows are new; the snapshots are carried over.
Replaced(prev, new) ==
    LET m == carryAppliedSnapshots(prev, new)
    IN  [k \in DOMAIN new |->
           [id |-> rowIds + k, dev |-> new[k].dev, ifc |-> new[k].ifc, vlan |-> new[k].vlan,
            sub |-> new[k].sub, term |-> new[k].term,
            adev |-> IF m[k] = 0 THEN 0 ELSE prev[m[k]].adev,
            aifc |-> IF m[k] = 0 THEN 0 ELSE prev[m[k]].aifc,
            avlan |-> IF m[k] = 0 THEN 0 ELSE prev[m[k]].avlan]]

\* A push to a device: the translation first removes what the service has
\* there, then adds the endpoints given (the cleanup contract).
Pushed(d, E) == {l \in live : l.dev # d} \cup {[dev |-> d, ifc |-> e.ifc, vlan |-> e.vlan] : e \in E}

\* stampAppliedOnDevice: the rows are found by id.
Stamped(E) ==
    [k \in DOMAIN eps |->
       IF \E e \in E : e.id = eps[k].id
       THEN [eps[k] EXCEPT !.adev = eps[k].dev, !.aifc = eps[k].ifc,
                           !.avlan = (CHOOSE e \in E : e.id = eps[k].id).vlan]
       ELSE eps[k]]

-----------------------------------------------------------------------------
(* PUT /api/service/:id/endpoints.                                         *)

Ends(c) == job' = [job EXCEPT ![c] = Idle]

PutEnds(c, w) ==
    /\ job[c].at = "idle" /\ reqs < MaxReqs /\ reqs' = reqs + 1
    /\ LET gone == endpointsNeedingTeardown(eps, w)
       IN  job' = [job EXCEPT ![c] = [Idle EXCEPT !.at = "teardown", !.want = w, !.moved = gone # {},
                                                  !.todo = {e.adev : e \in gone}]]
    /\ UNCHANGED <<Store, errs>>

\* removeServiceCLIFromDevice: the remove part, for one device.
Teardown(c, d) ==
    /\ job[c].at \in {"teardown", "unpush"} /\ d \in job[c].todo
    /\ \/ live' = Pushed(d, {}) /\ NoErr /\ job' = [job EXCEPT ![c].todo = @ \ {d}]
       \/ Err /\ UNCHANGED live /\ job' = [job EXCEPT ![c].todo = @ \ {d}, ![c].bad = TRUE]
    /\ UNCHANGED <<eps, subs, terms, rowIds, nbIds, reqs>>

\* A failed removal ends the request; otherwise reconcileServiceNetbox reads the
\* rows again.
TornDown(c) ==
    /\ job[c].at = "teardown" /\ job[c].todo = {}
    /\ IF job[c].bad THEN Ends(c)
       ELSE job' = [job EXCEPT ![c].at = "reconcile", ![c].rows = eps, ![c].new = <<>>]
    /\ UNCHANGED <<Store, reqs, errs>>

\* One endpoint in NetBox: the old objects go, if they can; a subinterface,
\* when there is a VLAN, and a termination are made.
ReconcileOne(c) ==
    LET j == job[c]
        w == j.want[Len(j.new) + 1]
        k == matchPrevEndpoint(j.rows, w)
        oldSub == IF k = 0 THEN 0 ELSE j.rows[k].sub
        oldTerm == IF k = 0 THEN 0 ELSE j.rows[k].term
        left == Cut(subs, {oldSub})
        name == [dev |-> w.dev, ifc |-> w.ifc, vlan |-> w.vlan]
        taken == w.vlan # 0 /\ \E i \in DOMAIN left : left[i] = name
    IN  /\ j.at = "reconcile" /\ Len(j.new) < Len(j.want) /\ nbIds + 2 <= MaxNb
        /\ \/ /\ taken /\ Ends(c) /\ NoErr
              /\ subs' = left /\ terms' = terms \ {oldTerm} /\ UNCHANGED nbIds
           \/ /\ ~taken /\ Err /\ Ends(c)                        \* no subinterface
              /\ subs' = left /\ terms' = terms \ {oldTerm} /\ UNCHANGED nbIds
           \/ /\ ~taken
              /\ subs' = IF w.vlan = 0 THEN left
                         ELSE [i \in DOMAIN left \cup {nbIds + 1} |-> IF i = nbIds + 1 THEN name ELSE left[i]]
              /\ nbIds' = nbIds + 2
              /\ \/ Err /\ Ends(c) /\ terms' = terms \ {oldTerm}  \* no termination
                 \/ /\ NoErr /\ terms' = (terms \ {oldTerm}) \cup {nbIds + 2}
                    /\ job' = [job EXCEPT ![c].new = Append(@,
                           [dev |-> w.dev, ifc |-> w.ifc, vlan |-> w.vlan,
                            sub |-> IF w.vlan = 0 THEN 0 ELSE nbIds + 1, term |-> nbIds + 2])]
        /\ UNCHANGED <<eps, live, rowIds, reqs>>

\* Mutant of Unused: a row with the VLAN of a wanted endpoint counts as used.
UnusedByVlan(prev, want) == {e \in Elems(prev) : \A w \in Elems(want) : ~SameBinding(e, w) /\ e.vlan # w.vlan}

\* The rows no wanted endpoint took over.
Unused(prev, want) == {prev[k] : k \in DOMAIN prev \ {matchPrevEndpoint(prev, w) : w \in Elems(want)}}

\* The NetBox objects of unused rows go; the rows are replaced.
ReplaceEndpoints(c) ==
    LET j == job[c]
        gone == Unused(j.rows, j.want)
    IN  /\ j.at = "reconcile" /\ Len(j.new) = Len(j.want)
        /\ subs' = Cut(subs, {e.sub : e \in gone}) /\ terms' = terms \ {e.term : e \in gone}
        /\ eps' = Replaced(eps, j.new) /\ rowIds' = rowIds + Len(j.new)
        /\ IF j.moved THEN job' = [job EXCEPT ![c].at = "read"] ELSE Ends(c)
        /\ UNCHANGED <<live, nbIds, reqs, errs>>

\* After a removal the rows are read again and pushed where they must be.
AddRead(c) ==
    /\ job[c].at = "read"
    /\ job' = [job EXCEPT ![c].at = "add", ![c].rows = eps,
                          ![c].todo = {e.dev : e \in {x \in Elems(eps) : endpointNeedsAddPush(x)}}]
    /\ UNCHANGED <<Store, reqs, errs>>

Add(c, d) ==
    LET E == {e \in Elems(job[c].rows) : e.dev = d /\ endpointNeedsAddPush(e)}
    IN  /\ job[c].at = "add" /\ d \in job[c].todo
        /\ \/ Err /\ Ends(c) /\ UNCHANGED <<live, eps>>
           \/ Err /\ Ends(c) /\ live' = Pushed(d, E) /\ UNCHANGED eps     \* not stamped
           \/ /\ live' = Pushed(d, E) /\ eps' = Stamped(E) /\ NoErr
              /\ job' = [job EXCEPT ![c].todo = @ \ {d}]
        /\ UNCHANGED <<subs, terms, rowIds, nbIds, reqs>>

-----------------------------------------------------------------------------
(* POST /api/service/:id/push.                                             *)

Push(c) ==
    /\ job[c].at = "idle" /\ reqs < MaxReqs /\ reqs' = reqs + 1 /\ eps # <<>>
    /\ job' = [job EXCEPT ![c] = [Idle EXCEPT !.at = "push", !.rows = eps, !.todo = {e.dev : e \in Elems(eps)}]]
    /\ UNCHANGED <<Store, errs>>

PushDevice(c, d) ==
    LET E == {e \in Elems(job[c].rows) : e.dev = d}
    IN  /\ job[c].at = "push" /\ d \in job[c].todo
        /\ \/ Err /\ UNCHANGED <<live, eps>>
           \/ Err /\ live' = Pushed(d, E) /\ UNCHANGED eps
           \/ live' = Pushed(d, E) /\ eps' = Stamped(E) /\ NoErr
        /\ job' = [job EXCEPT ![c].todo = @ \ {d}]
        /\ UNCHANGED <<subs, terms, rowIds, nbIds, reqs>>

Finished(c) ==
    /\ job[c].at \in {"push", "add"} /\ job[c].todo = {} /\ Ends(c)
    /\ UNCHANGED <<Store, reqs, errs>>

-----------------------------------------------------------------------------
(* DELETE /api/service/:id and POST /api/service/:id/unrealize.            *)

Clean(c, f) ==
    /\ job[c].at = "idle" /\ reqs < MaxReqs /\ reqs' = reqs + 1
    /\ job' = [job EXCEPT ![c] = [Idle EXCEPT !.at = "unpush", !.netbox = f.netbox,
                   !.todo = IF f.device THEN {IF e.adev # 0 THEN e.adev ELSE e.dev : e \in Elems(eps)} ELSE {}]]
    /\ UNCHANGED <<Store, errs>>

\* removeServiceFromNetbox stops at the first call that fails; an object that
\* is gone fails too.
Unpushed(c) ==
    /\ job[c].at = "unpush" /\ job[c].todo = {}
    /\ \/ job[c].bad /\ Ends(c) /\ NoErr /\ UNCHANGED <<subs, terms>>
       \/ /\ ~job[c].bad /\ ~job[c].netbox
          /\ job' = [job EXCEPT ![c].at = "drop"] /\ NoErr /\ UNCHANGED <<subs, terms>>
       \/ /\ ~job[c].bad /\ job[c].netbox
          /\ {e.sub : e \in Elems(eps)} \ {0} \subseteq DOMAIN subs /\ {e.term : e \in Elems(eps)} \ {0} \subseteq terms
          /\ subs' = Cut(subs, {e.sub : e \in Elems(eps)}) /\ terms' = terms \ {e.term : e \in Elems(eps)}
          /\ job' = [job EXCEPT ![c].at = "drop"] /\ NoErr
       \/ /\ ~job[c].bad /\ job[c].netbox /\ Ends(c)
          /\ \E n \in 0..Len(eps) :
                LET done == {eps[k] : k \in 1..n}
                IN  /\ \/ Err
                       \/ /\ NoErr /\ n < Len(eps)
                          /\ \/ eps[n + 1].sub \notin DOMAIN subs \cup {0}
                             \/ eps[n + 1].term \notin terms \cup {0}
                    /\ subs' = Cut(subs, {e.sub : e \in done}) /\ terms' = terms \ {e.term : e \in done}
    /\ UNCHANGED <<eps, live, rowIds, nbIds, reqs>>

\* The transaction: the endpoints go, with the node and the type.
DropEnd(c) ==
    /\ job[c].at = "drop" /\ eps' = <<>> /\ Ends(c)
    /\ UNCHANGED <<live, subs, terms, rowIds, nbIds, reqs, errs>>

\* deleteServiceEndpointScope: one endpoint less, nothing else.
TreeDelete(k) ==
    /\ trees < MaxTree /\ trees' = trees + 1 /\ k \in DOMAIN eps
    /\ eps' = Replaced(eps, SubSeq(eps, 1, k - 1) \o SubSeq(eps, k + 1, Len(eps))) /\ rowIds' = rowIds + Len(eps) - 1
    /\ UNCHANGED <<live, subs, terms, nbIds, job, reqs, errs>>

RealNext ==
    \/ /\ UNCHANGED trees
       /\ \E c \in Caller :
          \/ \E w \in Wants : PutEnds(c, w)
          \/ \E f \in Cleanups : Clean(c, f)
          \/ \E d \in Dev : Teardown(c, d) \/ Add(c, d) \/ PushDevice(c, d)
          \/ TornDown(c) \/ ReconcileOne(c) \/ ReplaceEndpoints(c) \/ AddRead(c)
          \/ Push(c) \/ Finished(c) \/ Unpushed(c) \/ DropEnd(c)
    \/ \E k \in 1..2 : TreeDelete(k)

RealSpec == RealInit /\ [][RealNext]_realvars

-----------------------------------------------------------------------------

AtRest == \A c \in Caller : job[c].at = "idle"

RealTypeOK ==
    /\ \A e \in Elems(eps) : e.dev \in Dev /\ e.ifc \in Ifc /\ e.id \in 1..rowIds /\ e.adev \in Dev \cup {0}
    /\ live \subseteq [dev : Dev, ifc : Ifc, vlan : Nat]
    /\ terms \subseteq 1..nbIds /\ DOMAIN subs \subseteq 1..nbIds
    /\ reqs \in 0..MaxReqs /\ errs \in 0..MaxErrs

\* While no call fails and only the API changes endpoints, NetBox has, at rest, exactly the subinterfaces and the
\* terminations the endpoints record, however endpoints were moved, renumbered
\* and removed (reconcileServiceNetbox: "idempotent across edits").
NetboxExact ==
    AtRest /\ errs = 0 /\ trees = 0 =>
        /\ DOMAIN subs = {e.sub : e \in Elems(eps)} \ {0}
        /\ terms = {e.term : e \in Elems(eps)}
        /\ \A e \in Elems(eps) : e.vlan # 0 => subs[e.sub] = [dev |-> e.dev, ifc |-> e.ifc, vlan |-> e.vlan]

\* Replacing the rows, of which at most one is changed, loses no snapshot: a
\* moved or renumbered endpoint still names the device that carries it
\* (carryAppliedSnapshots).
MoveKeepsSnapshot ==
    LET kept == {k \in DOMAIN eps : k \in DOMAIN eps' /\ SameBinding(eps[k], eps'[k]) /\ eps[k].vlan = eps'[k].vlan}
    IN  rowIds' # rowIds /\ Len(eps') = Len(eps) /\ Cardinality(kept) >= Len(eps) - 1
        => {e.adev : e \in Elems(eps')} = {e.adev : e \in Elems(eps)}
=============================================================================
