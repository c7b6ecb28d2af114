------------------------------- MODULE Cables -------------------------------
(***************************************************************************)
(* Cables kept in two places: factum's connections table, edited by the    *)
(* connection requests, and NetBox's cables, mirrored by delta and full    *)
(* sync and by the webhook that announces a deletion                       *)
(* (internal/dcim/cables.go, internal/netbox/webhook.go, delta.go,         *)
(* factum2-netbox.go, web/handle_dcim_connections.go).                     *)
(*                                                                         *)
(* A row is [id, nb, ends]: nb is the NetBox cable id, 0 for a cable only  *)
(* factum has.  The only constraint of the table is that a nonzero nb is   *)
(* unique; a request's check and its write are separate statements.        *)
(***************************************************************************)
EXTENDS Integers, FiniteSets, TLC

CONSTANTS
    Client,     \* connection requests
    Port,       \* interfaces in factum
    NbPort,     \* interfaces in NetBox; Port \cap NbPort are linked
    MaxCables,  \* bound: cables ever created in NetBox
    MaxCableRows,    \* bound: rows ever created in factum
    MaxEdits,   \* bound: changes made in NetBox itself
    MaxSyncs    \* bound: full syncs

VARIABLES
    rows,     \* connections
    cableId,  \* interfaces.cable_id of the linked ports
    lastRow,  \* last row id given out
    nbc,      \* NetBox: cable id -> its two ports, {} once deleted
    changed,  \* NetBox cables with a change the cursor has not passed
    req,      \* what each request is doing
    sync,     \* what the sync is doing
    calm,     \* no request and no webhook has written since the sync fetched
    edits, syncs

cablevars == <<rows, cableId, lastRow, nbc, changed, req, sync, calm, edits, syncs>>

Linked == Port \cap NbPort
Pairs(S) == {e \in SUBSET S : Cardinality(e) = 2}
CableIds == DOMAIN nbc
NewCable == Cardinality(CableIds) + 1
With(f, k, v) == [x \in DOMAIN f \cup {k} |-> IF x = k THEN v ELSE f[x]]

Asked == [at |-> "new", id |-> 0, ends |-> {}, nb |-> 0]
NoSync == [at |-> "idle", todo |-> {}, got |-> <<>>, had |-> {}]

CableInit ==
    /\ rows = {} /\ cableId = [p \in Linked |-> 0] /\ lastRow = 0
    /\ nbc = <<>> /\ changed = {}
    /\ req = [c \in Client |-> Asked] /\ sync = NoSync
    /\ calm = TRUE /\ edits = 0 /\ syncs = 0

-----------------------------------------------------------------------------
(* NetBox allows one cable per port (external).                            *)

NbPortFree(e, except) == \A c \in CableIds \ {except} : nbc[c] \cap e = {}
NbPut(c, e) == nbc' = With(nbc, c, e) /\ changed' = changed \cup {c}

NetboxEdit ==
    /\ edits < MaxEdits /\ edits' = edits + 1
    /\ \/ \E e \in Pairs(NbPort) : NbPortFree(e, 0) /\ NewCable <= MaxCables /\ NbPut(NewCable, e)
       \/ \E c \in CableIds, e \in Pairs(NbPort) :
            nbc[c] \notin {{}, e} /\ NbPortFree(e, c) /\ NbPut(c, e)
       \/ \E c \in CableIds : nbc[c] # {} /\ NbPut(c, {})
    /\ calm' = FALSE
    /\ UNCHANGED <<rows, cableId, lastRow, req, sync, syncs>>

-----------------------------------------------------------------------------
(* The table's statements, as the set of rows they leave.                  *)

\* Mutant of LocalOn: factum's own cables on the ports are left.
LocalOnLeft(e) == {}

\* deleteLocalCablesOnInterfaces.
LocalOn(e) == {r \in rows : r.nb = 0 /\ r.ends \cap e # {}}
Touching(e) == {r \in rows : r.ends \cap e # {}}
Joining(e) == {r \in rows : r.ends = e}
ByNb(n) == {r \in rows : r.nb = n}
The(S) == CHOOSE x \in S : TRUE

\* keepOnePair: a NetBox-backed row first, then the oldest.
Keeper(S) ==
    LET backed == {r \in S : r.nb # 0}
        of == IF backed # {} THEN backed ELSE S
    IN The({r \in of : \A s \in of : r.id <= s.id})

NewCableRow(n, e) == [id |-> lastRow + 1, nb |-> n, ends |-> e]

\* releaseCableID and the deletion of the row of one NetBox cable.
Released(ids, n) == [p \in Linked |-> IF ids[p] = n THEN 0 ELSE ids[p]]
DeleteByNb(n) == rows' = rows \ ByNb(n) /\ cableId' = Released(cableId, n)

-----------------------------------------------------------------------------
(* Connection requests.                                                    *)

CableTo(c, at, n) == req' = [req EXCEPT ![c].at = at, ![c].nb = n]
CableDone(c) == req' = [req EXCEPT ![c] = [Asked EXCEPT !.at = "done"]]
Quiet == UNCHANGED <<edits, syncs, sync>>

\* ApiDCIMConnectionCreate up to NetBox: a cable that already joins the ports
\* is answered, one that uses either is a conflict.
Create(c) ==
    \E e \in Pairs(Port) :
        /\ req[c].at = "new"
        /\ calm' = FALSE /\ Quiet
        /\ IF Touching(e) = {}
           THEN /\ req' = [req EXCEPT ![c] = [Asked EXCEPT !.ends = e,
                             !.at = IF e \subseteq Linked THEN "nbcreate" ELSE "check"]]
                /\ UNCHANGED rows
           ELSE /\ CableDone(c)
                /\ rows' = IF Touching(e) = Joining(e)
                           THEN (rows \ Joining(e)) \cup {Keeper(Joining(e))} ELSE rows
        /\ UNCHANGED <<cableId, lastRow, nbc, changed>>

CreateNetbox(c) ==
    /\ req[c].at = "nbcreate"
    /\ IF NbPortFree(req[c].ends, 0) /\ NewCable <= MaxCables
       THEN NbPut(NewCable, req[c].ends) /\ CableTo(c, "check", NewCable)
       ELSE CableDone(c) /\ UNCHANGED <<nbc, changed>>
    /\ calm' = FALSE /\ Quiet /\ UNCHANGED <<rows, cableId, lastRow>>

\* createCable's check; bindExistingPair when a row already joins the ports.
Check(c) ==
    LET e == req[c].ends
        n == req[c].nb
        keep == Keeper(Joining(e))
        one == (rows \ Joining(e)) \cup {keep}
        Answered == CableDone(c) /\ UNCHANGED <<nbc, changed>>
        \* The request fails: the NetBox cable it created is deleted again.
        Refused == CableDone(c) /\ (IF n # 0 /\ nbc[n] # {} THEN NbPut(n, {}) ELSE UNCHANGED <<nbc, changed>>)
    IN /\ req[c].at = "check"
       /\ IF Touching(e) = {} THEN CableTo(c, "insert", n) /\ UNCHANGED <<rows, nbc, changed>>
          ELSE IF Touching(e) # Joining(e) THEN Refused /\ UNCHANGED rows
          ELSE IF n = 0 \/ keep.nb = n THEN Answered /\ rows' = one
          ELSE IF keep.nb # 0 THEN Refused /\ rows' = one
          ELSE IF ByNb(n) = {} THEN Answered /\ rows' = (one \ {keep}) \cup {[keep EXCEPT !.nb = n]}
          ELSE Refused /\ rows' = one
       /\ calm' = FALSE /\ Quiet /\ UNCHANGED <<cableId, lastRow>>

Insert(c) ==
    LET e == req[c].ends
        n == req[c].nb
    IN /\ req[c].at = "insert" /\ lastRow < MaxCableRows
       /\ CableDone(c)
       /\ IF n # 0 /\ ByNb(n) # {}
          THEN /\ UNCHANGED <<rows, lastRow>>
               /\ IF The(ByNb(n)).ends = e \/ nbc[n] = {} THEN UNCHANGED <<nbc, changed>>
                  ELSE NbPut(n, {})
          ELSE rows' = rows \cup {NewCableRow(n, e)} /\ lastRow' = lastRow + 1 /\ UNCHANGED <<nbc, changed>>
       /\ calm' = FALSE /\ Quiet /\ UNCHANGED cableId

\* ApiDCIMConnectionUpdate with its call to NetBox.
Update(c) ==
    \E r \in rows, e \in Pairs(Port) :
        /\ req[c].at = "new"
        /\ calm' = FALSE /\ Quiet
        /\ LET On(at, n) == req' = [req EXCEPT ![c] = [at |-> at, id |-> r.id, ends |-> e, nb |-> n]]
           IN IF r.nb # 0 /\ ~(e \subseteq Linked) THEN CableDone(c) /\ UNCHANGED <<nbc, changed>>
              ELSE IF r.nb # 0
              THEN IF nbc[r.nb] # {} /\ NbPortFree(e, r.nb)
                   THEN NbPut(r.nb, e) /\ On("recheck", 0)
                   ELSE CableDone(c) /\ UNCHANGED <<nbc, changed>>
              ELSE IF e \subseteq Linked
              THEN IF NbPortFree(e, 0) /\ NewCable <= MaxCables
                   THEN NbPut(NewCable, e) /\ On("stamp", NewCable)
                   ELSE CableDone(c) /\ UNCHANGED <<nbc, changed>>
              ELSE On("recheck", 0) /\ UNCHANGED <<nbc, changed>>
        /\ UNCHANGED <<rows, cableId, lastRow>>

\* StampCableNetboxID: a row the sync made first wins, the local one goes.
Stamp(c) ==
    LET n == req[c].nb
        win == ByNb(n)
        mine == {r \in rows : r.id = req[c].id}
    IN /\ req[c].at = "stamp"
       /\ IF win = {}
          THEN /\ rows' = {IF r \in mine THEN [r EXCEPT !.nb = n] ELSE r : r \in rows}
               /\ CableTo(c, "recheck", 0)
          ELSE IF The(win).ends = req[c].ends
          THEN /\ rows' = rows \ (mine \ win)
               /\ req' = [req EXCEPT ![c] = [@ EXCEPT !.at = "recheck", !.nb = 0, !.id = The(win).id]]
          ELSE CableDone(c) /\ UNCHANGED rows
       /\ calm' = FALSE /\ Quiet /\ UNCHANGED <<cableId, lastRow, nbc, changed>>

\* UpdateCable: the row is read and the ports are free for it, then it is
\* saved.  Saving a row that is gone inserts it again.
Recheck(c) ==
    LET mine == {r \in rows : r.id = req[c].id}
    IN /\ req[c].at = "recheck"
       /\ IF mine = {} \/ Touching(req[c].ends) \ mine # {} THEN CableDone(c)
          ELSE CableTo(c, "save", The(mine).nb)
       /\ calm' = FALSE /\ Quiet /\ UNCHANGED <<rows, cableId, lastRow, nbc, changed>>

Save(c) ==
    LET new == [id |-> req[c].id, nb |-> req[c].nb, ends |-> req[c].ends]
        others == {r \in rows : r.id # req[c].id}
    IN /\ req[c].at = "save" /\ CableDone(c)
       /\ rows' = IF new.nb # 0 /\ \E r \in others : r.nb = new.nb THEN rows ELSE others \cup {new}
       /\ calm' = FALSE /\ Quiet /\ UNCHANGED <<cableId, lastRow, nbc, changed>>

Delete(c) ==
    \E r \in rows :
        /\ req[c].at = "new"
        /\ IF r.nb = 0 THEN UNCHANGED <<nbc, changed>> /\ req' = [req EXCEPT ![c] = [Asked EXCEPT !.at = "remove", !.id = r.id]]
           ELSE IF nbc[r.nb] = {} THEN UNCHANGED <<nbc, changed>> /\ CableDone(c)
           ELSE NbPut(r.nb, {}) /\ req' = [req EXCEPT ![c] = [Asked EXCEPT !.at = "remove", !.id = r.id]]
        /\ calm' = FALSE /\ Quiet /\ UNCHANGED <<rows, cableId, lastRow>>

Remove(c) ==
    /\ req[c].at = "remove" /\ CableDone(c)
    /\ rows' = {r \in rows : r.id # req[c].id}
    /\ calm' = FALSE /\ Quiet /\ UNCHANGED <<cableId, lastRow, nbc, changed>>

\* The webhook of a deletion, and the request that forgets a deleted cable.
DeletedHook ==
    \E n \in CableIds :
        /\ nbc[n] = {} /\ ByNb(n) # {}
        /\ DeleteByNb(n)
        /\ calm' = FALSE /\ Quiet /\ UNCHANGED <<lastRow, nbc, changed, req>>

-----------------------------------------------------------------------------
(* The sync of one changed cable (applyCables, ApplyCable).                *)

Still == UNCHANGED <<lastRow, nbc, req, edits, syncs>>

\* The change is listed and the cable fetched.
FetchCable ==
    /\ sync.at = "idle"
    /\ \E n \in changed :
         /\ changed' = changed \ {n}
         /\ sync' = [NoSync EXCEPT !.at = "clear", !.todo = {n}, !.got = (n :> nbc[n])]
    /\ calm' = TRUE
    /\ UNCHANGED <<rows, cableId>> /\ Still

\* A cable that is gone, or with an end factum does not have, loses its row.
\* Otherwise the ports are cleared: factum's own cables on them and the other
\* NetBox cables, with the cable_id of both their ends.
\* Mutant of OtherCables: the other NetBox cables on the ports are left.
OtherCablesLeft(n, e) == {}

OtherCables(n, e) == {r \in rows : r.nb \notin {0, n} /\ r.ends \cap e # {}}

Clear ==
    /\ sync.at = "clear"
    /\ \E n \in sync.todo :
         LET e == sync.got[n]
             gone == {r.nb : r \in OtherCables(n, e)} \cup {n}
         IN IF e = {} \/ ~(e \subseteq Port)
            THEN DeleteByNb(n) /\ sync' = NoSync
            ELSE /\ rows' = (rows \ OtherCables(n, e)) \ LocalOn(e)
                 /\ cableId' = [p \in Linked |-> IF p \in e THEN n
                                                 ELSE IF cableId[p] \in gone THEN 0 ELSE cableId[p]]
                 /\ sync' = [sync EXCEPT !.at = "put", !.had = {r.nb : r \in ByNb(n)}]
    /\ UNCHANGED <<calm, changed>> /\ Still

\* Create, or the update of the row that was there; of the one that appeared
\* since, too.
PutCable ==
    /\ sync.at = "put" /\ sync' = NoSync
    /\ \E n \in sync.todo :
         LET e == sync.got[n]
             moved == {IF r.nb = n THEN [r EXCEPT !.ends = e] ELSE r : r \in rows}
         IN IF n \notin sync.had /\ ByNb(n) = {}
            THEN lastRow < MaxCableRows /\ rows' = rows \cup {NewCableRow(n, e)} /\ lastRow' = lastRow + 1
            ELSE rows' = moved /\ UNCHANGED lastRow
    /\ UNCHANGED <<calm, changed, cableId, nbc, req, edits, syncs>>

-----------------------------------------------------------------------------
(* syncCables: the whole inventory.                                        *)

Resolved(got) == {n \in DOMAIN got : got[n] # {} /\ got[n] \subseteq Port}

FetchAll ==
    /\ sync.at = "idle" /\ syncs < MaxSyncs /\ syncs' = syncs + 1
    /\ sync' = [NoSync EXCEPT !.at = "each", !.got = nbc, !.todo = Resolved(nbc),
                              !.had = {r.nb : r \in rows}]
    /\ calm' = TRUE
    /\ UNCHANGED <<rows, cableId, lastRow, nbc, changed, req, edits>>

PutEach ==
    /\ sync.at = "each" /\ lastRow < MaxCableRows
    /\ \E n \in sync.todo :
         LET e == sync.got[n]
             kept == rows \ LocalOn(e)
         IN /\ sync' = [sync EXCEPT !.todo = @ \ {n}]
            /\ IF n \notin sync.had /\ ByNb(n) = {}
               THEN rows' = kept \cup {NewCableRow(n, e)} /\ lastRow' = lastRow + 1
               ELSE /\ rows' = {IF r.nb = n THEN [r EXCEPT !.ends = e] ELSE r : r \in kept}
                    /\ UNCHANGED lastRow
    /\ UNCHANGED <<calm, changed, cableId, nbc, req, edits, syncs>>

\* The rows of cables NetBox no longer has go, unless no cable resolved.
SweepCables ==
    /\ sync.at = "each" /\ sync.todo = {} /\ sync' = NoSync
    /\ rows' = IF Resolved(sync.got) = {} THEN rows
               ELSE {r \in rows : r.nb = 0 \/ r.nb \in Resolved(sync.got)}
    /\ UNCHANGED <<calm, changed, cableId>> /\ Still

-----------------------------------------------------------------------------

CableRequest(c) ==
    \/ Create(c) \/ CreateNetbox(c) \/ Check(c) \/ Insert(c) \/ Update(c) \/ Stamp(c)
    \/ Recheck(c) \/ Save(c) \/ Delete(c) \/ Remove(c)

CableNext ==
    \/ NetboxEdit \/ DeletedHook \/ FetchCable \/ Clear \/ PutCable
    \/ FetchAll \/ PutEach \/ SweepCables
    \/ \E c \in Client : CableRequest(c)

CableSpec == CableInit /\ [][CableNext]_cablevars

-----------------------------------------------------------------------------

CableTypeOK ==
    /\ \A r \in rows : r.id \in 1..MaxCableRows /\ r.nb \in 0..MaxCables /\ r.ends \in Pairs(Port)
    /\ changed \subseteq CableIds
    /\ cableId \in [Linked -> 0..MaxCables]

Agrees(n) == IF n \in Resolved(nbc) THEN \E r \in ByNb(n) : r.ends = nbc[n] ELSE ByNb(n) = {}

\* When the sync has applied a changed cable and nothing else was written since
\* it was fetched, factum's row of it is NetBox's, no other cable is on its
\* ports, and exactly its ports carry its id -- whatever the requests had left
\* behind (ApplyCable, deleteOtherCablesOnInterfaces, releaseCableID).
DeltaSettles ==
    \A n \in sync.todo :
      sync.at \in {"clear", "put"} /\ sync'.at = "idle" /\ calm =>
         /\ Agrees(n)'
         /\ \A r \in rows' : n \in Resolved(nbc) /\ r.ends \cap nbc[n] # {} => r.nb = n
         /\ \A p \in Linked : cableId'[p] = n <=> n \in Resolved(nbc) /\ p \in nbc[n]

\* A full sync makes the NetBox-backed rows NetBox's cables, and leaves no
\* factum-only cable on their ports (syncCables), when nothing else was
\* written since it fetched them and some cable resolved.
FullRepairs ==
    sync.at = "each" /\ sync'.at = "idle" /\ calm /\ Resolved(nbc) # {} =>
      /\ \A n \in CableIds : Agrees(n)'
      /\ \A r, s \in rows' : r.nb # 0 /\ r # s => r.ends \cap s.ends = {}

=============================================================================
