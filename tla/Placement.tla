----------------------------- MODULE Placement -----------------------------
(***************************************************************************)
(* Devices in racks (dcim/placement.go, rack.go).  Place and Unmount run   *)
(* in a transaction that locks the device's placement row, the racks in    *)
(* the order of their numbers and the device, reads the placement again,   *)
(* checks and writes.  A rack edit, a rack delete and a device type edit   *)
(* check first and write later, without those locks; the NetBox import     *)
(* writes its own placements unchecked (netbox/racks.go).  The database is *)
(* PostgreSQL at READ COMMITTED: a locked row is waited for, and of the    *)
(* transactions that wait for each other one is aborted.                   *)
(***************************************************************************)
EXTENDS Integers, FiniteSets

CONSTANTS
    Proc,           \* requests in flight
    Device,
    Rack,           \* a set of positive numbers: the racks' ids
    Edits,          \* requests: [kind, dev, rack, off, face, ver, to]
    Unplaced,
    TicksPerU,
    RackTicks,      \* the racks' height at the start
    DevTicks,       \* the devices' height at the start
    Start,          \* the placements at the start
    ImportAt,       \* where NetBox may say a device is: a set of <<rack, offset>>
    MaxImports

NoProc == "nobody"
Face == {"front", "rear"}
Slot == [rack : Rack, off : Int, face : Face, local : BOOLEAN, ver : Nat]
Request == [kind : {"place", "unmount", "shrink", "delete", "resize"}, dev : Device, rack : Rack,
            off : Int, face : Face, ver : Nat, to : Int]

\* IntervalsOverlap, and OutOfRack.
Overlap(a, ha, b, hb) == a < b + hb /\ b < a + ha
OutOfRack(off, h, rackTicks) == off < 0 \/ h < 0 \/ off + h > rackTicks

\* The placements at the start are ones the checks would have let through.
StartOK ==
    \A s \in Start : \A d \in Device : s[d] # Unplaced /\ s[d].local =>
        /\ ~OutOfRack(s[d].off, DevTicks, RackTicks)
        /\ \A o \in Device \ {d} :
             s[o] # Unplaced /\ s[o].local /\ s[o].rack = s[d].rack /\ s[o].face = s[d].face
                => ~Overlap(s[d].off, DevTicks, s[o].off, DevTicks)

ASSUME PlacementAssumption ==
    /\ Rack \subseteq Nat \ {0} /\ IsFiniteSet(Rack)
    /\ TicksPerU \in Nat \ {0} /\ RackTicks \in Nat /\ DevTicks \in Nat /\ MaxImports \in Nat
    /\ NoProc \notin Proc /\ Unplaced \notin Slot
    /\ Edits \subseteq Request /\ ImportAt \subseteq Rack \X Int
    /\ Start \subseteq [Device -> Slot \cup {Unplaced}] /\ StartOK

VARIABLES
    place,      \* place[d]: [rack, off, face, local, ver], or Unplaced
    ticks,      \* ticks[r]: the rack's height; 0 when the rack is deleted
    size,       \* size[d]: the height of the device's type; a model of half depth
    rowLock, rackLock, devLock,     \* holders of the row locks
    ph,         \* ph[p]: where the request is
    edit,       \* edit[p]: the request
    need,       \* need[p]: racks still to lock
    stale,      \* a check was outrun: see SaveRack, DeleteRack, SaveType
    imports

vars == <<place, ticks, size, rowLock, rackLock, devLock, ph, edit, need, stale, imports>>
locks == <<rowLock, rackLock, devLock>>
data == <<place, ticks, size>>

Init ==
    /\ place \in Start /\ ticks = [r \in Rack |-> RackTicks]
    /\ size = [d \in Device |-> DevTicks]
    /\ rowLock = [d \in Device |-> NoProc] /\ rackLock = [r \in Rack |-> NoProc]
    /\ devLock = [d \in Device |-> NoProc]
    /\ ph = [p \in Proc |-> "idle"] /\ edit \in [Proc -> Edits] /\ need = [p \in Proc |-> {}]
    /\ stale = FALSE /\ imports = 0

To(p, s) == ph' = [ph EXCEPT ![p] = s]
Drop(l, p) == [x \in DOMAIN l |-> IF l[x] = p THEN NoProc ELSE l[x]]
\* The transaction ends: its locks go.
End(p) ==
    /\ rowLock' = Drop(rowLock, p) /\ rackLock' = Drop(rackLock, p) /\ devLock' = Drop(devLock, p)
    /\ To(p, "done") /\ need' = [need EXCEPT ![p] = {}]

-----------------------------------------------------------------------------
(* Occupancy: OccupiesFace, ConflictsWith *)

Collide(off, h, face, d) == Overlap(off, h, place[d].off, size[d]) /\ face = place[d].face

\* Mutant of Fits: the end of an interval counts as taken only beyond the start.
FitsBetween(e) ==
    /\ size[e.dev] > 0 /\ ~OutOfRack(e.off, size[e.dev], ticks[e.rack])
    /\ e.off % TicksPerU = 0 /\ size[e.dev] % TicksPerU = 0
    /\ \A d \in Device \ {e.dev} :
         place[d] # Unplaced /\ place[d].rack = e.rack => place[d].off # e.off \/ place[d].face # e.face

\* validateSlot and checkOccupancy, for the device's height now.
Fits(e) ==
    /\ size[e.dev] > 0 /\ ~OutOfRack(e.off, size[e.dev], ticks[e.rack])
    /\ e.off % TicksPerU = 0 /\ size[e.dev] % TicksPerU = 0
    /\ \A d \in Device \ {e.dev} :
         place[d] # Unplaced /\ place[d].rack = e.rack => ~Collide(e.off, size[e.dev], e.face, d)

-----------------------------------------------------------------------------
(* Place and Unmount *)

Tx(p) == edit[p].kind \in {"place", "unmount"}

\* existingPlacement: the row, if there is one, is locked.
ReadRow(p) ==
    /\ ph[p] = "idle" /\ Tx(p)
    /\ LET d == edit[p].dev
           target == IF edit[p].kind = "place" THEN {edit[p].rack} ELSE {}
       IN  IF place[d] = Unplaced
           THEN IF edit[p].kind = "unmount" THEN End(p)
                ELSE To(p, "racks") /\ need' = [need EXCEPT ![p] = target] /\ UNCHANGED locks
           ELSE /\ rowLock[d] = NoProc /\ rowLock' = [rowLock EXCEPT ![d] = p]
                /\ need' = [need EXCEPT ![p] = target \cup {place[d].rack}] /\ To(p, "racks")
                /\ UNCHANGED <<rackLock, devLock>>
    /\ UNCHANGED <<data, edit, stale, imports>>

\* Mutant of NextRack: the highest number first for one kind of request.
NextRackAnyOrder(p) ==
    CHOOSE r \in need[p] : \A s \in need[p] : IF edit[p].rack % 2 = 0 THEN r <= s ELSE r >= s

\* lockOrder.
NextRack(p) == CHOOSE r \in need[p] : \A s \in need[p] : r <= s

\* lockRacks; a rack that is gone ends the request.
LockRack(p) ==
    /\ ph[p] = "racks" /\ need[p] # {}
    /\ LET r == NextRack(p)
       IN  /\ rackLock[r] = NoProc
           /\ IF ticks[r] = 0 THEN End(p)
              ELSE /\ rackLock' = [rackLock EXCEPT ![r] = p]
                   /\ need' = [need EXCEPT ![p] = @ \ {r}]
                   /\ UNCHANGED <<rowLock, devLock, ph>>
    /\ UNCHANGED <<data, edit, stale, imports>>

LockDevice(p) ==
    /\ ph[p] = "racks" /\ need[p] = {} /\ devLock[edit[p].dev] = NoProc
    /\ devLock' = [devLock EXCEPT ![edit[p].dev] = p] /\ To(p, "again")
    /\ UNCHANGED <<data, rowLock, rackLock, edit, need, stale, imports>>

\* Mutant of Again: the occupancy was checked before the locks were taken.
AgainUnchecked(p) ==
    /\ ph[p] = "again"
    /\ LET d == edit[p].dev
           cur == place[d]
           ok == /\ cur # Unplaced => cur.local /\ edit[p].ver \in {0, cur.ver}
                 /\ edit[p].kind = "unmount" => cur # Unplaced
       IN  /\ cur # Unplaced => rowLock[d] \in {NoProc, p}
           /\ IF ok THEN /\ To(p, "commit")
                         /\ rowLock' = IF cur = Unplaced THEN rowLock ELSE [rowLock EXCEPT ![d] = p]
                         /\ UNCHANGED <<rackLock, devLock, need>>
              ELSE End(p)
    /\ UNCHANGED <<data, edit, stale, imports>>

\* The placement is read again, as it is now; then the checks.
Again(p) ==
    /\ ph[p] = "again"
    /\ LET d == edit[p].dev
           cur == place[d]
           ok == /\ cur # Unplaced => cur.local /\ edit[p].ver \in {0, cur.ver}
                 /\ IF edit[p].kind = "unmount" THEN cur # Unplaced ELSE Fits(edit[p])
       IN  /\ cur # Unplaced => rowLock[d] \in {NoProc, p}
           /\ IF ok THEN /\ To(p, "commit")
                         /\ rowLock' = IF cur = Unplaced THEN rowLock ELSE [rowLock EXCEPT ![d] = p]
                         /\ UNCHANGED <<rackLock, devLock, need>>
              ELSE End(p)
    /\ UNCHANGED <<data, edit, stale, imports>>

Placed(e, cur) ==
    [rack |-> e.rack, off |-> e.off, face |-> e.face, local |-> TRUE,
     ver |-> IF cur = Unplaced THEN 1 ELSE cur.ver + 1]

\* Delete, Save or Create; the index on device_id refuses a row the import created meanwhile.
Commit(p) ==
    /\ ph[p] = "commit" /\ End(p)
    /\ LET e == edit[p]
       IN  place' = IF place[e.dev] # Unplaced /\ rowLock[e.dev] # p THEN place
                    ELSE [place EXCEPT ![e.dev] =
                            IF e.kind = "unmount" THEN Unplaced ELSE Placed(e, place[e.dev])]
    /\ UNCHANGED <<ticks, size, edit, stale, imports>>

-----------------------------------------------------------------------------
(* Deadlock: who waits for whom, and the transaction the database aborts *)

Blocker(p) ==
    LET d == edit[p].dev
    IN  CASE ph[p] = "idle" /\ Tx(p) /\ place[d] # Unplaced -> rowLock[d]
          [] ph[p] = "racks" /\ need[p] # {} -> rackLock[NextRack(p)]
          [] ph[p] = "racks" /\ need[p] = {} -> devLock[d]
          [] ph[p] = "again" /\ place[d] # Unplaced /\ rowLock[d] # p -> rowLock[d]
          [] OTHER -> NoProc

Cycle(S) == S # {} /\ {Blocker(p) : p \in S} = S

Abort(p) ==
    /\ \E S \in SUBSET Proc : p \in S /\ Cycle(S)
    /\ End(p) /\ UNCHANGED <<data, edit, stale, imports>>

-----------------------------------------------------------------------------
(* Edits that check without the locks.  stale records that what the check     *)
(* found no longer held when the edit was written.                            *)

InRack(r) == {d \in Device : place[d] # Unplaced /\ place[d].rack = r}

\* ValidateRackHeight; the rack's row is written later, when nobody locks it.
CheckRack(p) ==
    /\ ph[p] = "idle" /\ edit[p].kind = "shrink"
    /\ LET e == edit[p]
       IN  To(p, IF e.to > 0 /\ ticks[e.rack] > 0
                    /\ \A d \in InRack(e.rack) : size[d] <= 0 \/ ~OutOfRack(place[d].off, size[d], e.to)
                 THEN "save" ELSE "done")
    /\ UNCHANGED <<data, locks, edit, need, stale, imports>>

SaveRack(p) ==
    /\ ph[p] = "save" /\ edit[p].kind = "shrink" /\ rackLock[edit[p].rack] = NoProc /\ To(p, "done")
    /\ LET e == edit[p]
       IN  /\ ticks' = [ticks EXCEPT ![e.rack] = e.to]
           /\ stale' = (stale \/ ticks[e.rack] = 0
                        \/ \E d \in InRack(e.rack) : OutOfRack(place[d].off, size[d], e.to))
    /\ UNCHANGED <<place, size, locks, edit, need, imports>>

\* DeleteRack counts the devices and deletes in a second transaction.
CountRack(p) ==
    /\ ph[p] = "idle" /\ edit[p].kind = "delete"
    /\ To(p, IF ticks[edit[p].rack] > 0 /\ InRack(edit[p].rack) = {} THEN "save" ELSE "done")
    /\ UNCHANGED <<data, locks, edit, need, stale, imports>>

DeleteRack(p) ==
    /\ ph[p] = "save" /\ edit[p].kind = "delete" /\ rackLock[edit[p].rack] = NoProc /\ To(p, "done")
    /\ ticks' = [ticks EXCEPT ![edit[p].rack] = 0]
    /\ stale' = (stale \/ InRack(edit[p].rack) # {})
    /\ UNCHANGED <<place, size, locks, edit, need, imports>>

\* What ValidateDeviceTypeResize accepts: the device with its new height.
ResizeFits(d, h) ==
    place[d] # Unplaced =>
        /\ h > 0 /\ ~OutOfRack(place[d].off, h, ticks[place[d].rack])
        /\ place[d].local => h % TicksPerU = 0
        /\ \A o \in InRack(place[d].rack) \ {d} :
             ~(Overlap(place[d].off, h, place[o].off, size[o]) /\ place[o].face = place[d].face)

CheckType(p) ==
    /\ ph[p] = "idle" /\ edit[p].kind = "resize"
    /\ To(p, IF ResizeFits(edit[p].dev, edit[p].to) THEN "save" ELSE "done")
    /\ UNCHANGED <<data, locks, edit, need, stale, imports>>

SaveType(p) ==
    /\ ph[p] = "save" /\ edit[p].kind = "resize" /\ To(p, "done")
    /\ size' = [size EXCEPT ![edit[p].dev] = edit[p].to]
    /\ stale' = (stale \/ ~ResizeFits(edit[p].dev, edit[p].to) \/ \E q \in Proc : ph[q] = "commit")
    /\ UNCHANGED <<place, ticks, locks, edit, need, imports>>

\* syncDevicePlacements writes a device that has no local placement.
Import(d, r, off) ==
    /\ imports < MaxImports /\ imports' = imports + 1 /\ rowLock[d] = NoProc
    /\ place[d] # Unplaced => ~place[d].local
    /\ place' = [place EXCEPT ![d] =
                   [rack |-> r, off |-> off, face |-> "front", local |-> FALSE,
                    ver |-> IF place[d] = Unplaced THEN 1 ELSE place[d].ver]]
    /\ UNCHANGED <<ticks, size, locks, ph, edit, need, stale>>

\* ... and deletes the row of a device NetBox no longer has in a rack.
ImportGone(d) ==
    /\ imports < MaxImports /\ imports' = imports + 1 /\ rowLock[d] = NoProc
    /\ place[d] # Unplaced /\ ~place[d].local
    /\ place' = [place EXCEPT ![d] = Unplaced]
    /\ UNCHANGED <<ticks, size, locks, ph, edit, need, stale>>

Step(p) ==
    \/ ReadRow(p) \/ LockRack(p) \/ LockDevice(p) \/ Again(p) \/ Commit(p) \/ Abort(p)
    \/ CheckRack(p) \/ SaveRack(p) \/ CountRack(p) \/ DeleteRack(p) \/ CheckType(p) \/ SaveType(p)

Next ==
    \/ \E p \in Proc : Step(p)
    \/ \E d \in Device, at \in ImportAt : Import(d, at[1], at[2])
    \/ \E d \in Device : ImportGone(d)

\* A request runs to its end; the database picks a victim in every cycle.
Spec == Init /\ [][Next]_vars /\ \A p \in Proc : WF_vars(Step(p))

-----------------------------------------------------------------------------
TypeOK ==
    /\ place \in [Device -> Slot \cup {Unplaced}]
    /\ ticks \in [Rack -> Int] /\ size \in [Device -> Int]
    /\ rowLock \in [Device -> Proc \cup {NoProc}] /\ devLock \in [Device -> Proc \cup {NoProc}]
    /\ rackLock \in [Rack -> Proc \cup {NoProc}]
    /\ ph \in [Proc -> {"idle", "racks", "again", "commit", "save", "done"}]
    /\ edit \in [Proc -> Edits] /\ need \in [Proc -> SUBSET Rack]
    /\ stale \in BOOLEAN /\ imports \in 0 .. MaxImports

Local(d) == place[d] # Unplaced /\ place[d].local

\* Two devices that operators placed never share a slot of a rack face, however
\* their moves interleave; only an edit whose check was outrun could do it.
NoOverlap ==
    ~stale => \A d, o \in Device :
        d # o /\ Local(d) /\ Local(o) /\ place[d].rack = place[o].rack /\ place[d].face = place[o].face
            => ~Overlap(place[d].off, size[d], place[o].off, size[o])

\* ... and every one of them lies within a rack that exists.
InsideRack ==
    ~stale => \A d \in Device : Local(d) => ~OutOfRack(place[d].off, size[d], ticks[place[d].rack])

\* What Place and Unmount promise of the rows.
PlacementSafe == TypeOK /\ NoOverlap /\ InsideRack

\* Moves between the same racks in opposite directions never wait for each
\* other: a cycle of waits takes a device that was unplaced when one request
\* looked for its row (existingPlacement locks nothing then), and placed later.
OnlyLateRowDeadlocks == \A S \in SUBSET Proc : Cycle(S) => \E p \in S : ph[p] = "again"

=============================================================================
