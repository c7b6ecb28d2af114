--------------------------- MODULE PlacementProof ---------------------------
(***************************************************************************)
(* PlacementSafe and OnlyLateRowDeadlocks for every set of requests, racks *)
(* and devices.  The inductive invariant says what the locks protect: a    *)
(* request that is about to write holds the rack it writes to, so what its *)
(* checks found still holds, and a request holds only racks below the ones *)
(* it still needs.                                                         *)
(***************************************************************************)
EXTENDS Placement, FiniteSetTheorems, WellFoundedInduction, TLAPS

\* A transaction is one of Place or Unmount, and has taken all its locks before it reads again.
PhaseOK ==
    \A p \in Proc :
        /\ ph[p] \in {"racks", "again", "commit"} => Tx(p)
        /\ ph[p] \in {"again", "commit"} => need[p] = {}

\* Who holds a lock is inside its transaction.
HoldersOK ==
    \A p \in Proc :
        /\ \A d \in Device : rowLock[d] = p => ph[p] \in {"racks", "again", "commit"}
        /\ \A d \in Device : devLock[d] = p => ph[p] \in {"again", "commit"}
        /\ \A r \in Rack : rackLock[r] = p => ph[p] \in {"racks", "again", "commit"}

\* Racks are locked in the order of their numbers.
OrderOK == \A p \in Proc : \A r \in Rack : rackLock[r] = p => \A s \in need[p] : r < s

\* The rack a device goes to is locked, or still to be.
TargetOK ==
    \A p \in Proc : edit[p].kind = "place" =>
        /\ ph[p] = "racks" => edit[p].rack \in need[p] \/ rackLock[edit[p].rack] = p
        /\ ph[p] \in {"again", "commit"} => rackLock[edit[p].rack] = p

\* The slot request e asks for is within its rack, and free of what operators placed.
SlotFree(e) ==
    /\ ~OutOfRack(e.off, size[e.dev], ticks[e.rack])
    /\ \A d \in Device \ {e.dev} :
         Local(d) /\ place[d].rack = e.rack => ~Collide(e.off, size[e.dev], e.face, d)

\* What the checks found still holds when the row is written.
CheckedOK ==
    ~stale => \A p \in Proc : ph[p] = "commit" /\ edit[p].kind = "place" => SlotFree(edit[p])

LockInv == TypeOK /\ PhaseOK /\ HoldersOK /\ OrderOK /\ TargetOK
PlaceInv == LockInv /\ CheckedOK /\ NoOverlap /\ InsideRack

-----------------------------------------------------------------------------
(* The locks.                                                              *)

\* The end of a transaction: its locks are gone, the others' are as they were.
LEMMA EndFacts ==
  ASSUME TypeOK, NEW p \in Proc, End(p), edit' = edit
  PROVE  /\ rowLock' \in [Device -> Proc \cup {NoProc}]
         /\ devLock' \in [Device -> Proc \cup {NoProc}]
         /\ rackLock' \in [Rack -> Proc \cup {NoProc}]
         /\ need' \in [Proc -> SUBSET Rack]
         /\ ph' \in [Proc -> {"idle", "racks", "again", "commit", "save", "done"}]
         /\ ph'[p] = "done"
         /\ \A q \in Proc \ {p} : ph'[q] = ph[q] /\ need'[q] = need[q]
         /\ \A d \in Device, q \in Proc : (rowLock'[d] = q <=> (rowLock[d] = q /\ q # p))
         /\ \A d \in Device, q \in Proc : (devLock'[d] = q <=> (devLock[d] = q /\ q # p))
         /\ \A r \in Rack, q \in Proc : (rackLock'[r] = q <=> (rackLock[r] = q /\ q # p))
<1>1. /\ rowLock \in [Device -> Proc \cup {NoProc}] /\ devLock \in [Device -> Proc \cup {NoProc}]
      /\ rackLock \in [Rack -> Proc \cup {NoProc}] /\ need \in [Proc -> SUBSET Rack]
      /\ ph \in [Proc -> {"idle", "racks", "again", "commit", "save", "done"}]
  BY ZenonT(30) DEF TypeOK
<1>2. /\ rowLock' = Drop(rowLock, p) /\ rackLock' = Drop(rackLock, p) /\ devLock' = Drop(devLock, p)
      /\ ph' = [ph EXCEPT ![p] = "done"] /\ need' = [need EXCEPT ![p] = {}]
  BY ZenonT(30) DEF End, To
<1>3. /\ rowLock' \in [Device -> Proc \cup {NoProc}]
      /\ \A d \in Device, q \in Proc : (rowLock'[d] = q <=> (rowLock[d] = q /\ q # p))
  <2>1. /\ Drop(rowLock, p) \in [Device -> Proc \cup {NoProc}]
        /\ \A x \in Device, q \in Proc : Drop(rowLock, p)[x] = q => rowLock[x] = q /\ q # p
        /\ \A x \in Device, q \in Proc : rowLock[x] = q /\ q # p => Drop(rowLock, p)[x] = q
    BY ZenonT(30), <1>1, PlacementAssumption DEF Drop
  <2> QED
    BY <1>2, <2>1, Zenon
<1>4. /\ devLock' \in [Device -> Proc \cup {NoProc}]
      /\ \A d \in Device, q \in Proc : (devLock'[d] = q <=> (devLock[d] = q /\ q # p))
  <2>1. /\ Drop(devLock, p) \in [Device -> Proc \cup {NoProc}]
        /\ \A x \in Device, q \in Proc : Drop(devLock, p)[x] = q => devLock[x] = q /\ q # p
        /\ \A x \in Device, q \in Proc : devLock[x] = q /\ q # p => Drop(devLock, p)[x] = q
    BY ZenonT(30), <1>1, PlacementAssumption DEF Drop
  <2> QED
    BY <1>2, <2>1, Zenon
<1>5. /\ rackLock' \in [Rack -> Proc \cup {NoProc}]
      /\ \A r \in Rack, q \in Proc : (rackLock'[r] = q <=> (rackLock[r] = q /\ q # p))
  <2>1. /\ Drop(rackLock, p) \in [Rack -> Proc \cup {NoProc}]
        /\ \A x \in Rack, q \in Proc : Drop(rackLock, p)[x] = q => rackLock[x] = q /\ q # p
        /\ \A x \in Rack, q \in Proc : rackLock[x] = q /\ q # p => Drop(rackLock, p)[x] = q
    BY ZenonT(30), <1>1, PlacementAssumption DEF Drop
  <2> QED
    BY <1>2, <2>1, Zenon
<1>6. /\ need' \in [Proc -> SUBSET Rack]
      /\ ph' \in [Proc -> {"idle", "racks", "again", "commit", "save", "done"}]
      /\ ph'[p] = "done" /\ \A q \in Proc \ {p} : ph'[q] = ph[q] /\ need'[q] = need[q]
  BY ZenonT(30), <1>1, <1>2
<1> QED
  BY ZenonT(30), <1>3, <1>4, <1>5, <1>6

\* The part of LockInv that is not about types.
Locked == PhaseOK /\ HoldersOK /\ OrderOK /\ TargetOK

LEMMA RequestFacts ==
  ASSUME TypeOK, NEW p \in Proc
  PROVE  /\ edit[p] \in Request
         /\ edit[p].dev \in Device /\ edit[p].rack \in Rack /\ edit[p].off \in Int
         /\ edit[p].to \in Int /\ edit[p].face \in Face /\ edit[p].ver \in Nat
  BY PlacementAssumption DEF TypeOK, Request

LEMMA EndLocked ==
  ASSUME LockInv, NEW p \in Proc, End(p), edit' = edit
  PROVE  Locked'
<1> TypeOK /\ PhaseOK /\ HoldersOK /\ OrderOK /\ TargetOK
  BY ZenonT(30) DEF LockInv
<1>1. PhaseOK'
  BY ZenonT(30), EndFacts DEF PhaseOK, Tx
<1>2. HoldersOK'
  BY EndFacts DEF HoldersOK
<1>3. OrderOK'
  BY EndFacts DEF OrderOK
<1>4. TargetOK'
  BY EndFacts, RequestFacts DEF TargetOK
<1> QED
  BY ZenonT(30), <1>1, <1>2, <1>3, <1>4 DEF Locked

\* A finite set of numbers that is not empty has a least one.
LEMMA LeastOf ==
  ASSUME NEW T, T \subseteq Int, IsFiniteSet(T), T # {}
  PROVE  \E x \in T : \A y \in T : x <= y
<1> DEFINE Upto(x) == {y \in T : y <= x}
           U == {Upto(x) : x \in T}
           R == StrictSubsetOrdering(T)
<1>1. IsWellFoundedOn(R, FiniteSubsetsOf(T))
  BY ZenonT(30), FS_StrictSubsetOrderingWellFounded
<1>2. U \subseteq FiniteSubsetsOf(T) /\ U # {}
  <2>1. FiniteSubsetsOf(T) = SUBSET T
    BY ZenonT(30), FS_FiniteSubsetsOfFinite
  <2>2. PICK x \in T : TRUE
    BY ZenonT(30)
  <2>3. Upto(x) \in U
    BY ZenonT(30)
  <2>4. U \subseteq SUBSET T
    BY ZenonT(30)
  <2> HIDE DEF U
  <2> QED
    BY ZenonT(30), <2>1, <2>3, <2>4
<1>3. PICK m \in U : \A u \in U : ~(<<u, m>> \in R)
  BY ZenonT(30), <1>1, <1>2, WFMin
<1>4. PICK x \in T : m = Upto(x)
  BY ZenonT(30), <1>3
<1>5. ASSUME NEW y \in T, y < x PROVE FALSE
  <2> x \in Int /\ y \in Int
    BY ZenonT(30)
  <2>1. x \in Upto(x) /\ x \notin Upto(y)
    BY <1>5
  <2>2. ASSUME NEW z \in Upto(y) PROVE z \in Upto(x)
    <3>1. z \in T /\ z \in Int /\ z <= y
      BY ZenonT(30)
    <3> QED
      BY <1>5, <3>1
  <2>3. Upto(y) \subseteq Upto(x) /\ Upto(y) # Upto(x) /\ Upto(y) \in U
    BY ZenonT(30), <2>1, <2>2
  <2>4. <<Upto(y), m>> \in R
    BY ZenonT(30), <1>4, <2>3 DEF StrictSubsetOrdering
  <2> QED
    BY ZenonT(30), <1>3, <2>3, <2>4
<1> QED
  BY <1>5

LEMMA GreatestOf ==
  ASSUME NEW T, T \subseteq Int, IsFiniteSet(T), T # {}
  PROVE  \E x \in T : \A y \in T : y <= x
<1> DEFINE N == {-x : x \in T}
           f == [x \in T |-> -x]
<1>1. IsFiniteSet(N)
  <2>1. f \in Surjection(T, N)
    BY ZenonT(30) DEF Surjection
  <2> QED
    BY ZenonT(30), <2>1, FS_Surjection
<1>2. N \subseteq Int /\ N # {}
  <2>1. PICK x \in T : TRUE
    BY ZenonT(30)
  <2>2. -x \in N
    BY ZenonT(30)
  <2>3. ASSUME NEW y \in T PROVE -y \in Int
    OBVIOUS
  <2> QED
    BY ZenonT(30), <2>2, <2>3
<1>3. PICK m \in N : \A y \in N : m <= y
  <2> HIDE DEF N
  <2> QED
    BY ZenonT(30), <1>1, <1>2, LeastOf
<1>4. PICK x \in T : m = -x
  BY ZenonT(30)
<1>5. ASSUME NEW y \in T PROVE y <= x
  <2>1. -y \in N /\ x \in Int /\ y \in Int
    BY ZenonT(30)
  <2>2. -x <= -y
    BY ZenonT(30), <1>3, <1>4, <2>1
  <2> QED
    BY <2>1, <2>2
<1> QED
  BY ZenonT(30), <1>5

\* lockOrder takes the smallest of the racks a request needs.
LEMMA NextRackFacts ==
  ASSUME TypeOK, NEW p \in Proc, need[p] # {}
  PROVE  NextRack(p) \in need[p] /\ NextRack(p) \in Rack /\ \A s \in need[p] : NextRack(p) <= s
<1>1. need[p] \subseteq Rack /\ need[p] \subseteq Int /\ IsFiniteSet(Rack)
  <2>1. need[p] \subseteq Rack
    BY ZenonT(30) DEF TypeOK
  <2>2. Rack \subseteq Int /\ IsFiniteSet(Rack)
    BY PlacementAssumption
  <2> QED
    BY ZenonT(30), <2>1, <2>2
<1>2. IsFiniteSet(need[p])
  BY ZenonT(30), <1>1, FS_Subset
<1>3. \E r \in need[p] : \A s \in need[p] : r <= s
  BY ZenonT(30), <1>1, <1>2, LeastOf
<1> QED
  BY ZenonT(30), <1>1, <1>3 DEF NextRack

\* Steps outside of the transactions.
LEMMA OutsideLocked ==
  ASSUME LockInv, NEW p \in Proc, ph[p] \in {"idle", "save"}, NEW s \in {"save", "done"}, To(p, s),
         UNCHANGED <<locks, edit, need>>
  PROVE  Locked'
<1>1. TypeOK /\ PhaseOK /\ HoldersOK /\ OrderOK /\ TargetOK
  BY ZenonT(30) DEF LockInv
<1>2. ph \in [Proc -> {"idle", "racks", "again", "commit", "save", "done"}]
  BY ZenonT(30), <1>1 DEF TypeOK
<1>3. ph'[p] = s /\ \A q \in Proc \ {p} : ph'[q] = ph[q]
  BY ZenonT(30), <1>2 DEF To
<1>4. rowLock' = rowLock /\ rackLock' = rackLock /\ devLock' = devLock /\ edit' = edit /\ need' = need
  BY ZenonT(30) DEF locks
<1>5. PhaseOK'
  BY ZenonT(30), <1>1, <1>3, <1>4 DEF PhaseOK, Tx
<1>6. HoldersOK'
  BY ZenonT(30), <1>1, <1>3, <1>4 DEF HoldersOK
<1>7. OrderOK'
  BY ZenonT(30), <1>1, <1>4 DEF OrderOK
<1>8. TargetOK'
  BY ZenonT(30), <1>1, <1>3, <1>4 DEF TargetOK
<1> QED
  BY ZenonT(30), <1>5, <1>6, <1>7, <1>8 DEF Locked

LEMMA ReadRowLocked ==
  ASSUME LockInv, NEW p \in Proc, ReadRow(p)
  PROVE  Locked'
<1> DEFINE d == edit[p].dev
           target == IF edit[p].kind = "place" THEN {edit[p].rack} ELSE {}
<1>1. TypeOK /\ PhaseOK /\ HoldersOK /\ OrderOK /\ TargetOK
  BY ZenonT(30) DEF LockInv
<1>2. /\ ph \in [Proc -> {"idle", "racks", "again", "commit", "save", "done"}]
      /\ need \in [Proc -> SUBSET Rack] /\ rowLock \in [Device -> Proc \cup {NoProc}]
      /\ d \in Device
  BY ZenonT(30), <1>1, RequestFacts DEF TypeOK
<1>3. ph[p] = "idle" /\ Tx(p) /\ edit' = edit
  BY ZenonT(30) DEF ReadRow
<1>4. CASE End(p)
  BY ZenonT(30), <1>3, <1>4, EndLocked
<1>5. CASE /\ ph' = [ph EXCEPT ![p] = "racks"] /\ rackLock' = rackLock /\ devLock' = devLock
           /\ rowLock' = rowLock \/ rowLock' = [rowLock EXCEPT ![d] = p]
           /\ \E N : need' = [need EXCEPT ![p] = N] /\ target \subseteq N
  <2>1. PICK N : need' = [need EXCEPT ![p] = N] /\ target \subseteq N
    BY ZenonT(30), <1>5
  <2>2. /\ ph'[p] = "racks" /\ need'[p] = N
        /\ \A q \in Proc \ {p} : ph'[q] = ph[q] /\ need'[q] = need[q]
    BY ZenonT(30), <1>2, <1>5, <2>1
  <2>3. \A x \in Device, q \in Proc \ {p} : rowLock'[x] = q => rowLock[x] = q
    BY ZenonT(30), <1>2, <1>5
  <2>4. PhaseOK'
    BY ZenonT(30), <1>1, <1>3, <2>2 DEF PhaseOK, Tx
  <2>5. HoldersOK'
    BY <1>1, <1>3, <1>5, <2>2, <2>3 DEF HoldersOK
  <2>6. OrderOK'
    BY ZenonT(30), <1>1, <1>3, <1>5, <2>2 DEF OrderOK, HoldersOK
  <2>7. TargetOK'
    BY ZenonT(30), <1>1, <1>3, <1>5, <2>1, <2>2 DEF TargetOK
  <2> QED
    BY ZenonT(30), <2>4, <2>5, <2>6, <2>7 DEF Locked
<1>6. End(p) \/ (/\ ph' = [ph EXCEPT ![p] = "racks"] /\ rackLock' = rackLock /\ devLock' = devLock
                 /\ rowLock' = rowLock \/ rowLock' = [rowLock EXCEPT ![d] = p]
                 /\ \E N : need' = [need EXCEPT ![p] = N] /\ target \subseteq N)
  <2>1. CASE place[d] = Unplaced
    BY ZenonT(30), <2>1 DEF ReadRow, To, locks
  <2>2. CASE place[d] # Unplaced
    BY ZenonT(30), <2>2 DEF ReadRow, To
  <2> QED
    BY ZenonT(30), <2>1, <2>2
<1> QED
  BY ZenonT(30), <1>4, <1>5, <1>6

LEMMA LockRackLocked ==
  ASSUME LockInv, NEW p \in Proc, LockRack(p)
  PROVE  Locked'
<1> DEFINE r == NextRack(p)
<1>1. TypeOK /\ PhaseOK /\ HoldersOK /\ OrderOK /\ TargetOK
  BY ZenonT(30) DEF LockInv
<1>2. /\ need \in [Proc -> SUBSET Rack] /\ rackLock \in [Rack -> Proc \cup {NoProc}]
      /\ Rack \subseteq Int
  BY <1>1, PlacementAssumption DEF TypeOK
<1>3. ph[p] = "racks" /\ need[p] # {} /\ edit' = edit /\ rackLock[r] = NoProc
  BY ZenonT(30) DEF LockRack
<1>4. r \in need[p] /\ r \in Rack /\ \A s \in need[p] : r <= s
  BY ZenonT(30), <1>1, <1>3, NextRackFacts
<1>5. CASE End(p)
  BY ZenonT(30), <1>3, <1>5, EndLocked
<1>6. CASE /\ rackLock' = [rackLock EXCEPT ![r] = p] /\ need' = [need EXCEPT ![p] = need[p] \ {r}]
           /\ UNCHANGED <<rowLock, devLock, ph>>
  <2>1. /\ need'[p] = need[p] \ {r} /\ \A q \in Proc \ {p} : need'[q] = need[q]
        /\ rackLock'[r] = p /\ \A s \in Rack \ {r} : rackLock'[s] = rackLock[s]
    BY ZenonT(30), <1>2, <1>4, <1>6
  <2>2. PhaseOK'
    BY ZenonT(30), <1>1, <1>3, <1>6, <2>1 DEF PhaseOK, Tx
  <2>3. HoldersOK'
    BY <1>1, <1>3, <1>6, <2>1 DEF HoldersOK
  <2>4. OrderOK'
    <3> SUFFICES ASSUME NEW q \in Proc, NEW t \in Rack, rackLock'[t] = q, NEW s \in need'[q]
                 PROVE  t < s
      BY ZenonT(30) DEF OrderOK
    <3>1. s \in need[q] /\ s \in Int /\ t \in Int /\ r \in Int
      BY ZenonT(30), <1>2, <1>4, <2>1
    <3>2. CASE t = r
      <4>1. q = p /\ s # r /\ r <= s
        BY ZenonT(30), <1>4, <2>1, <3>1, <3>2
      <4> QED
        BY <3>1, <3>2, <4>1
    <3>3. CASE t # r
      BY ZenonT(30), <1>1, <2>1, <3>1, <3>3 DEF OrderOK
    <3> QED
      BY ZenonT(30), <3>2, <3>3
  <2>5. TargetOK'
    <3> SUFFICES ASSUME NEW q \in Proc, edit[q].kind = "place", ph[q] \in {"racks", "again", "commit"}
                 PROVE  /\ ph[q] = "racks" => edit[q].rack \in need'[q] \/ rackLock'[edit[q].rack] = q
                        /\ ph[q] \in {"again", "commit"} => rackLock'[edit[q].rack] = q
      BY ZenonT(30), <1>3, <1>6 DEF TargetOK
    <3>1. edit[q].rack \in Rack
      BY ZenonT(30), <1>1, RequestFacts
    <3>2. CASE q = p
      BY ZenonT(30), <1>1, <1>3, <2>1, <3>1, <3>2 DEF TargetOK
    <3>3. CASE q # p
      <4>1. rackLock[edit[q].rack] = q => rackLock'[edit[q].rack] = q
        BY ZenonT(30), <1>3, <2>1, <3>1, PlacementAssumption
      <4> QED
        BY ZenonT(30), <1>1, <2>1, <3>3, <4>1 DEF TargetOK
    <3> QED
      BY ZenonT(30), <3>2, <3>3
  <2> QED
    BY ZenonT(30), <2>2, <2>3, <2>4, <2>5 DEF Locked
<1> QED
  BY ZenonT(30), <1>5, <1>6 DEF LockRack

LEMMA LockDeviceLocked ==
  ASSUME LockInv, NEW p \in Proc, LockDevice(p)
  PROVE  Locked'
<1>1. TypeOK /\ PhaseOK /\ HoldersOK /\ OrderOK /\ TargetOK
  BY ZenonT(30) DEF LockInv
<1>2. /\ devLock \in [Device -> Proc \cup {NoProc}] /\ edit[p].dev \in Device
      /\ ph \in [Proc -> {"idle", "racks", "again", "commit", "save", "done"}]
  BY ZenonT(30), <1>1, RequestFacts DEF TypeOK
<1>3. /\ ph[p] = "racks" /\ need[p] = {} /\ rowLock' = rowLock /\ rackLock' = rackLock
      /\ edit' = edit /\ need' = need /\ ph' = [ph EXCEPT ![p] = "again"]
      /\ devLock' = [devLock EXCEPT ![edit[p].dev] = p]
  BY ZenonT(30) DEF LockDevice, To
<1>4. ph'[p] = "again" /\ \A q \in Proc \ {p} : ph'[q] = ph[q]
  BY ZenonT(30), <1>2, <1>3
<1>5. \A d \in Device, q \in Proc \ {p} : devLock'[d] = q => devLock[d] = q
  BY ZenonT(30), <1>2, <1>3
<1>6. PhaseOK'
  BY ZenonT(30), <1>1, <1>3, <1>4 DEF PhaseOK, Tx
<1>7. HoldersOK'
  BY ZenonT(30), <1>1, <1>3, <1>4, <1>5 DEF HoldersOK
<1>8. OrderOK'
  BY ZenonT(30), <1>1, <1>3 DEF OrderOK
<1>9. TargetOK'
  BY ZenonT(30), <1>1, <1>3, <1>4 DEF TargetOK
<1> QED
  BY ZenonT(30), <1>6, <1>7, <1>8, <1>9 DEF Locked

LEMMA AgainLocked ==
  ASSUME LockInv, NEW p \in Proc, Again(p)
  PROVE  Locked'
<1> DEFINE d == edit[p].dev
<1>1. TypeOK /\ PhaseOK /\ HoldersOK /\ OrderOK /\ TargetOK
  BY ZenonT(30) DEF LockInv
<1>2. /\ rowLock \in [Device -> Proc \cup {NoProc}] /\ d \in Device
      /\ ph \in [Proc -> {"idle", "racks", "again", "commit", "save", "done"}]
  BY ZenonT(30), <1>1, RequestFacts DEF TypeOK
<1>3. ph[p] = "again" /\ edit' = edit
  BY ZenonT(30) DEF Again
<1>4. CASE End(p)
  BY ZenonT(30), <1>3, <1>4, EndLocked
<1>5. CASE /\ ph' = [ph EXCEPT ![p] = "commit"] /\ UNCHANGED <<rackLock, devLock, need>>
           /\ rowLock' = rowLock \/ rowLock' = [rowLock EXCEPT ![d] = p]
  <2>1. ph'[p] = "commit" /\ \A q \in Proc \ {p} : ph'[q] = ph[q]
    BY ZenonT(30), <1>2, <1>5
  <2>2. \A x \in Device, q \in Proc \ {p} : rowLock'[x] = q => rowLock[x] = q
    BY ZenonT(30), <1>2, <1>5
  <2>3. PhaseOK'
    BY ZenonT(30), <1>1, <1>3, <1>5, <2>1 DEF PhaseOK, Tx
  <2>4. HoldersOK'
    BY ZenonT(30), <1>1, <1>3, <1>5, <2>1, <2>2 DEF HoldersOK
  <2>5. OrderOK'
    BY ZenonT(30), <1>1, <1>5 DEF OrderOK
  <2>6. TargetOK'
    BY ZenonT(30), <1>1, <1>3, <1>5, <2>1 DEF TargetOK
  <2> QED
    BY ZenonT(30), <2>3, <2>4, <2>5, <2>6 DEF Locked
<1>6. End(p) \/ (/\ ph' = [ph EXCEPT ![p] = "commit"] /\ UNCHANGED <<rackLock, devLock, need>>
                 /\ rowLock' = rowLock \/ rowLock' = [rowLock EXCEPT ![d] = p])
  BY ZenonT(30) DEF Again, To
<1> QED
  BY ZenonT(30), <1>4, <1>5, <1>6

\* Types of what a request does.
LEMMA StepTypes ==
  ASSUME TypeOK, NEW p \in Proc, Step(p)
  PROVE  TypeOK'
<1> DEFINE d == edit[p].dev
<1>1. /\ place \in [Device -> Slot \cup {Unplaced}]
      /\ ticks \in [Rack -> Int] /\ size \in [Device -> Int]
      /\ rowLock \in [Device -> Proc \cup {NoProc}] /\ devLock \in [Device -> Proc \cup {NoProc}]
      /\ rackLock \in [Rack -> Proc \cup {NoProc}]
      /\ ph \in [Proc -> {"idle", "racks", "again", "commit", "save", "done"}]
      /\ edit \in [Proc -> Edits] /\ need \in [Proc -> SUBSET Rack]
      /\ stale \in BOOLEAN /\ imports \in 0 .. MaxImports
  BY ZenonT(30) DEF TypeOK
<1>2. edit' = edit /\ imports' = imports
  BY Zenon DEF Step, ReadRow, LockRack, LockDevice, Again, Commit, Abort, CheckRack, SaveRack,
     CountRack,
     DeleteRack, CheckType, SaveType
<1>3. /\ d \in Device /\ edit[p].rack \in Rack /\ edit[p].off \in Int /\ edit[p].to \in Int
      /\ edit[p].face \in Face
  BY ZenonT(30), RequestFacts
<1>4. place' \in [Device -> Slot \cup {Unplaced}]
  <2>1. CASE Commit(p)
    <3>1. place[d] # Unplaced => place[d].ver \in Nat
      BY ZenonT(30), <1>1, <1>3 DEF Slot
    <3>2. Placed(edit[p], place[d]) \in Slot
      BY <1>3, <3>1 DEF Placed, Slot
    <3> QED
      BY ZenonT(30), <1>1, <1>3, <2>1, <3>2 DEF Commit
  <2>2. CASE ~Commit(p)
    <3>1. place' = place
      BY <2>2, Zenon DEF Step, ReadRow, LockRack, LockDevice, Again, Abort, CheckRack, SaveRack,
         CountRack, DeleteRack, CheckType, SaveType, data
    <3> QED
      BY ZenonT(30), <1>1, <3>1
  <2> QED
    BY ZenonT(30), <2>1, <2>2
<1>5. ticks' \in [Rack -> Int] /\ size' \in [Device -> Int]
  <2>1. \/ ticks' = ticks /\ size' = size
        \/ ticks' = [ticks EXCEPT ![edit[p].rack] = edit[p].to] /\ size' = size
        \/ ticks' = [ticks EXCEPT ![edit[p].rack] = 0] /\ size' = size
        \/ ticks' = ticks /\ size' = [size EXCEPT ![d] = edit[p].to]
    BY Zenon DEF Step, ReadRow, LockRack, LockDevice, Again, Commit, Abort, CheckRack, SaveRack,
       CountRack, DeleteRack, CheckType, SaveType, data
  <2> QED
    BY <1>1, <1>3, <2>1
<1>6. stale' \in BOOLEAN
  BY <1>1, Zenon DEF Step, ReadRow, LockRack, LockDevice, Again, Commit, Abort, CheckRack,
     SaveRack, CountRack,
     DeleteRack, CheckType, SaveType
<1>7. /\ rowLock' \in [Device -> Proc \cup {NoProc}] /\ devLock' \in [Device -> Proc \cup {NoProc}]
      /\ rackLock' \in [Rack -> Proc \cup {NoProc}]
      /\ ph' \in [Proc -> {"idle", "racks", "again", "commit", "save", "done"}]
      /\ need' \in [Proc -> SUBSET Rack]
  <2>1. CASE End(p)
    BY ZenonT(30), <1>2, <2>1, EndFacts
  <2>2. CASE ReadRow(p) /\ ~End(p)
    <3>1. place[d] # Unplaced => place[d].rack \in Rack
      BY ZenonT(30), <1>1, <1>3 DEF Slot
    <3> QED
      BY <1>1, <1>3, <2>2, <3>1 DEF ReadRow, To, locks
  <2>3. CASE LockRack(p) /\ ~End(p)
    <3>1. NextRack(p) \in Rack
      BY ZenonT(30), <2>3, NextRackFacts DEF LockRack
    <3> QED
      BY <1>1, <2>3, <3>1 DEF LockRack
  <2>4. CASE LockDevice(p)
    BY ZenonT(30), <1>1, <1>3, <2>4 DEF LockDevice, To
  <2>5. CASE Again(p) /\ ~End(p)
    BY ZenonT(30), <1>1, <1>3, <2>5 DEF Again, To
  <2>6. CASE UNCHANGED <<locks, need>> /\ \E s \in {"save", "done"} : To(p, s)
    BY ZenonT(30), <1>1, <2>6 DEF To, locks
  <2>7. CASE CheckRack(p) \/ SaveRack(p) \/ CountRack(p) \/ DeleteRack(p) \/ CheckType(p) \/ SaveType(p)
    <3>1. UNCHANGED <<locks, need>> /\ (To(p, "save") \/ To(p, "done"))
      BY <2>7, Zenon DEF CheckRack, SaveRack, CountRack, DeleteRack, CheckType, SaveType
    <3> QED
      BY ZenonT(30), <2>6, <3>1
  <2> QED
    BY ZenonT(30), <2>1, <2>2, <2>3, <2>4, <2>5, <2>7 DEF Step, Commit, Abort
<1> QED
  BY ZenonT(30), <1>1, <1>2, <1>4, <1>5, <1>6, <1>7 DEF TypeOK

\* syncDevicePlacements writes no lock, and no row that is local.
LEMMA ImportFacts ==
  ASSUME TypeOK, NEW d \in Device, ImportGone(d) \/ \E at \in ImportAt : Import(d, at[1], at[2])
  PROVE  /\ TypeOK' /\ UNCHANGED <<ticks, size, locks, ph, edit, need, stale>>
         /\ \A x \in Device : Local(x)' => Local(x) /\ place'[x] = place[x]
<1>1. /\ place \in [Device -> Slot \cup {Unplaced}] /\ imports \in 0 .. MaxImports /\ MaxImports \in Nat
      /\ Unplaced \notin Slot
  BY ZenonT(30), PlacementAssumption DEF TypeOK
<1>2. /\ UNCHANGED <<ticks, size, locks, ph, edit, need, stale>>
      /\ imports < MaxImports /\ imports' = imports + 1
  BY ZenonT(30) DEF Import, ImportGone
<1>3. PICK new : /\ place' = [place EXCEPT ![d] = new]
                 /\ new = Unplaced \/ (new \in Slot /\ ~new.local)
  <2>1. CASE ImportGone(d)
    BY ZenonT(30), <2>1 DEF ImportGone
  <2>2. ASSUME NEW at \in ImportAt, Import(d, at[1], at[2])
        PROVE  \E new : /\ place' = [place EXCEPT ![d] = new]
                        /\ new = Unplaced \/ (new \in Slot /\ ~new.local)
    <3> DEFINE new == [rack |-> at[1], off |-> at[2], face |-> "front", local |-> FALSE,
                       ver |-> IF place[d] = Unplaced THEN 1 ELSE place[d].ver]
    <3>1. at[1] \in Rack /\ at[2] \in Int
      BY ZenonT(30), PlacementAssumption
    <3>2. place[d] # Unplaced => place[d].ver \in Nat
      BY ZenonT(30), <1>1 DEF Slot
    <3>3. new \in Slot /\ ~new.local
      BY ZenonT(30), <3>1, <3>2 DEF Slot, Face
    <3>4. place' = [place EXCEPT ![d] = new]
      BY ZenonT(30), <2>2 DEF Import
    <3> QED
      BY ZenonT(30), <3>3, <3>4
  <2> QED
    BY ZenonT(30), <2>1, <2>2
<1>4. place' \in [Device -> Slot \cup {Unplaced}] /\ imports' \in 0 .. MaxImports
  BY <1>1, <1>2, <1>3
<1>5. \A x \in Device : Local(x)' => Local(x) /\ place'[x] = place[x]
  BY ZenonT(30), <1>1, <1>3 DEF Local
<1> QED
  BY ZenonT(30), <1>2, <1>4, <1>5 DEF TypeOK, locks

LEMMA LockInit == Init => LockInv
<1> SUFFICES ASSUME Init PROVE LockInv
  BY ZenonT(30)
<1>1. place \in [Device -> Slot \cup {Unplaced}] /\ imports \in 0 .. MaxImports
  BY PlacementAssumption DEF Init
<1>2. ticks \in [Rack -> Int] /\ size \in [Device -> Int]
  <2>1. RackTicks \in Int /\ DevTicks \in Int
    BY PlacementAssumption
  <2> QED
    BY ZenonT(30), <2>1 DEF Init
<1>3. TypeOK
  BY ZenonT(30), <1>1, <1>2 DEF Init, TypeOK
<1>4. PhaseOK /\ HoldersOK /\ OrderOK /\ TargetOK
  BY ZenonT(30), PlacementAssumption DEF Init, PhaseOK, HoldersOK, OrderOK, TargetOK
<1> QED
  BY ZenonT(30), <1>3, <1>4 DEF LockInv

LEMMA LockStep ==
  ASSUME LockInv, [Next]_vars
  PROVE  LockInv'
<1>1. TypeOK /\ PhaseOK /\ HoldersOK /\ OrderOK /\ TargetOK
  BY ZenonT(30) DEF LockInv
<1>2. ASSUME UNCHANGED <<locks, ph, edit, need>> PROVE Locked'
  BY ZenonT(30), <1>1, <1>2 DEF Locked, PhaseOK, HoldersOK, OrderOK, TargetOK, Tx, locks
<1>3. ASSUME NEW p \in Proc, Step(p) PROVE LockInv'
  <2>1. TypeOK'
    BY ZenonT(30), <1>1, <1>3, StepTypes
  <2>2. Locked'
    <3>1. CASE ReadRow(p)
      BY ZenonT(30), <3>1, ReadRowLocked
    <3>2. CASE LockRack(p)
      BY ZenonT(30), <3>2, LockRackLocked
    <3>3. CASE LockDevice(p)
      BY ZenonT(30), <3>3, LockDeviceLocked
    <3>4. CASE Again(p)
      BY ZenonT(30), <3>4, AgainLocked
    <3>5. CASE Commit(p) \/ Abort(p)
      <4>1. End(p) /\ edit' = edit
        BY ZenonT(30), <3>5 DEF Commit, Abort
      <4> QED
        BY ZenonT(30), <4>1, EndLocked
    <3>6. CASE CheckRack(p) \/ SaveRack(p) \/ CountRack(p) \/ DeleteRack(p) \/ CheckType(p) \/ SaveType(p)
      <4>1. /\ UNCHANGED <<locks, edit, need>> /\ (To(p, "save") \/ To(p, "done"))
            /\ ph[p] \in {"idle", "save"}
        BY <3>6, Zenon DEF CheckRack, SaveRack, CountRack, DeleteRack, CheckType, SaveType
      <4> QED
        BY ZenonT(30), <4>1, OutsideLocked
    <3> QED
      BY ZenonT(30), <1>3, <3>1, <3>2, <3>3, <3>4, <3>5, <3>6 DEF Step
  <2> QED
    BY ZenonT(30), <2>1, <2>2 DEF LockInv, Locked
<1>4. ASSUME NEW d \in Device, ImportGone(d) \/ \E at \in ImportAt : Import(d, at[1], at[2])
      PROVE  LockInv'
  <2>1. TypeOK' /\ UNCHANGED <<locks, ph, edit, need>>
    BY ZenonT(30), <1>1, <1>4, ImportFacts
  <2> QED
    BY ZenonT(30), <1>2, <2>1 DEF LockInv, Locked
<1>5. CASE UNCHANGED vars
  <2>1. TypeOK'
    BY ZenonT(30), <1>1, <1>5 DEF TypeOK, vars
  <2>2. UNCHANGED <<locks, ph, edit, need>>
    BY ZenonT(30), <1>5 DEF vars, locks
  <2> QED
    BY ZenonT(30), <1>2, <2>1, <2>2 DEF LockInv, Locked
<1> QED
  BY ZenonT(30), <1>3, <1>4, <1>5 DEF Next

-----------------------------------------------------------------------------
(* The slots.                                                              *)

\* A step that takes no local row anywhere and changes no height.
LEMMA QuietStep ==
  ASSUME PlaceInv, UNCHANGED <<ticks, size, edit, stale>>,
         \A x \in Device : Local(x)' => Local(x) /\ place'[x] = place[x]
  PROVE  /\ NoOverlap' /\ InsideRack'
         /\ \A p \in Proc : ~stale' /\ ph[p] = "commit" /\ edit[p].kind = "place" => SlotFree(edit[p])'
<1>1. CheckedOK /\ NoOverlap /\ InsideRack
  BY ZenonT(30) DEF PlaceInv
<1>2. ticks' = ticks /\ size' = size /\ edit' = edit /\ stale' = stale
  BY ZenonT(30)
<1>3. NoOverlap'
  BY <1>1, <1>2 DEF NoOverlap, Overlap
<1>4. InsideRack'
  BY <1>1, <1>2 DEF InsideRack, OutOfRack
<1>5. ASSUME NEW p \in Proc, ~stale', ph[p] = "commit", edit[p].kind = "place"
      PROVE  SlotFree(edit[p])'
  <2>1. SlotFree(edit[p])
    BY <1>1, <1>2, <1>5 DEF CheckedOK
  <2> QED
    BY ZenonT(30), <1>2, <2>1 DEF SlotFree, Collide, Overlap, OutOfRack
<1> QED
  BY ZenonT(30), <1>3, <1>4, <1>5

LEMMA OverlapSymmetric ==
  ASSUME NEW a \in Int, NEW b \in Int, NEW h \in Int, NEW k \in Int
  PROVE  Overlap(a, h, b, k) <=> Overlap(b, k, a, h)
  BY ZenonT(30) DEF Overlap

\* The write of a placement.
LEMMA PlaceCommit ==
  ASSUME PlaceInv, NEW p \in Proc, Commit(p), edit[p].kind = "place",
         place' = [place EXCEPT ![edit[p].dev] = Placed(edit[p], place[edit[p].dev])]
  PROVE  NoOverlap' /\ InsideRack' /\ CheckedOK'
<1> DEFINE e == edit[p]
<1>1. LockInv /\ TypeOK /\ TargetOK /\ CheckedOK /\ NoOverlap /\ InsideRack
  BY ZenonT(30) DEF PlaceInv, LockInv
<1>2. ph[p] = "commit" /\ End(p) /\ UNCHANGED <<ticks, size, edit, stale>>
  BY ZenonT(30) DEF Commit
<1>3. /\ e.dev \in Device /\ e.rack \in Rack /\ e.off \in Int
      /\ place \in [Device -> Slot \cup {Unplaced}] /\ size \in [Device -> Int]
  BY ZenonT(30), <1>1, RequestFacts DEF TypeOK
<1>4. /\ place'[e.dev].rack = e.rack /\ place'[e.dev].off = e.off /\ place'[e.dev].face = e.face
      /\ \A x \in Device \ {e.dev} : place'[x] = place[x]
  BY ZenonT(30), <1>3 DEF Placed
<1>5. ~stale => SlotFree(e)
  BY ZenonT(30), <1>1, <1>2 DEF CheckedOK
<1>6. ASSUME NEW x \in Device, x # e.dev, Local(x)', ~stale, place[x].rack = e.rack,
             place[x].face = e.face
      PROVE  ~Overlap(e.off, size[e.dev], place[x].off, size[x])
  BY ZenonT(30), <1>4, <1>5, <1>6 DEF SlotFree, Collide, Local
<1>7. NoOverlap'
  <2> SUFFICES ASSUME ~stale, NEW d \in Device, NEW o \in Device, d # o, Local(d)', Local(o)',
                      place'[d].rack = place'[o].rack, place'[d].face = place'[o].face
               PROVE  ~Overlap(place'[d].off, size[d], place'[o].off, size[o])
    BY ZenonT(30), <1>2 DEF NoOverlap, Overlap
  <2>1. CASE d = e.dev
    BY ZenonT(30), <1>4, <1>6, <2>1
  <2>2. CASE o = e.dev
    <3>1. ~Overlap(e.off, size[e.dev], place[d].off, size[d])
      BY ZenonT(30), <1>4, <1>6, <2>2
    <3>2. place[d].off \in Int
      BY ZenonT(30), <1>3, <1>4, <2>2 DEF Local, Slot
    <3> QED
      BY ZenonT(30), <1>3, <1>4, <2>2, <3>1, <3>2, OverlapSymmetric
  <2>3. CASE d # e.dev /\ o # e.dev
    BY ZenonT(30), <1>1, <1>4, <2>3 DEF NoOverlap, Local
  <2> QED
    BY ZenonT(30), <2>1, <2>2, <2>3
<1>8. InsideRack'
  <2> SUFFICES ASSUME ~stale, NEW d \in Device, Local(d)'
               PROVE  ~OutOfRack(place'[d].off, size[d], ticks[place'[d].rack])
    BY ZenonT(30), <1>2 DEF InsideRack, OutOfRack
  <2>1. CASE d = e.dev
    BY ZenonT(30), <1>4, <1>5, <2>1 DEF SlotFree
  <2>2. CASE d # e.dev
    BY ZenonT(30), <1>1, <1>4, <2>2 DEF InsideRack, Local
  <2> QED
    BY ZenonT(30), <2>1, <2>2
<1>9. CheckedOK'
  <2> SUFFICES ASSUME ~stale, NEW q \in Proc, ph'[q] = "commit", edit[q].kind = "place"
               PROVE  SlotFree(edit[q])'
    BY ZenonT(30), <1>2 DEF CheckedOK
  <2>1. q # p /\ ph[q] = "commit"
    BY ZenonT(30), <1>1, <1>2, EndFacts
  <2>2. SlotFree(edit[q]) /\ edit[q].rack # e.rack
    BY ZenonT(30), <1>1, <1>2, <2>1 DEF CheckedOK, TargetOK
  <2>3. \A x \in Device : Local(x)' /\ place'[x].rack = edit[q].rack => Local(x) /\ place'[x] = place[x]
    BY ZenonT(30), <1>4, <2>2 DEF Local
  <2> QED
    BY ZenonT(30), <1>2, <2>2, <2>3 DEF SlotFree, Collide, Overlap, OutOfRack
<1> QED
  BY ZenonT(30), <1>7, <1>8, <1>9

\* A rack's height is written while no transaction holds the rack.
LEMMA HeightStep ==
  ASSUME PlaceInv, NEW p \in Proc, SaveRack(p) \/ DeleteRack(p)
  PROVE  NoOverlap' /\ InsideRack' /\ CheckedOK'
<1> DEFINE r == edit[p].rack
<1>1. TypeOK /\ TargetOK /\ CheckedOK /\ NoOverlap /\ InsideRack
  BY ZenonT(30) DEF PlaceInv, LockInv
<1>2. /\ ticks \in [Rack -> Int] /\ r \in Rack
      /\ ph \in [Proc -> {"idle", "racks", "again", "commit", "save", "done"}]
  BY ZenonT(30), <1>1, RequestFacts DEF TypeOK
<1>3. PICK h : /\ ticks' = [ticks EXCEPT ![r] = h]
               /\ ~stale' => ~stale /\ \A d \in InRack(r) : ~OutOfRack(place[d].off, size[d], h)
               /\ rackLock[r] = NoProc /\ UNCHANGED <<place, size, edit>> /\ To(p, "done")
  <2>1. CASE SaveRack(p)
    BY ZenonT(30), <2>1 DEF SaveRack
  <2>2. CASE DeleteRack(p)
    BY ZenonT(30), <2>2 DEF DeleteRack
  <2> QED
    BY ZenonT(30), <2>1, <2>2
<1>4. ticks'[r] = h /\ \A s \in Rack \ {r} : ticks'[s] = ticks[s]
  BY ZenonT(30), <1>2, <1>3
<1>5. NoOverlap'
  BY ZenonT(30), <1>1, <1>3 DEF NoOverlap, Overlap, Local
<1>6. InsideRack'
  <2> SUFFICES ASSUME ~stale', NEW d \in Device, Local(d)
               PROVE  ~OutOfRack(place[d].off, size[d], ticks'[place[d].rack])
    BY ZenonT(30), <1>3 DEF InsideRack, OutOfRack, Local
  <2>1. place[d].rack \in Rack
    BY ZenonT(30), <1>1 DEF TypeOK, Local, Slot
  <2>2. CASE place[d].rack = r
    BY ZenonT(30), <1>3, <1>4, <2>2 DEF InRack, Local
  <2>3. CASE place[d].rack # r
    BY ZenonT(30), <1>1, <1>3, <1>4, <2>1, <2>3 DEF InsideRack
  <2> QED
    BY ZenonT(30), <2>2, <2>3
<1>7. CheckedOK'
  <2> SUFFICES ASSUME ~stale', NEW q \in Proc, ph'[q] = "commit", edit[q].kind = "place"
               PROVE  SlotFree(edit[q])'
    BY ZenonT(30), <1>3 DEF CheckedOK
  <2>1. ph[q] = "commit"
    BY ZenonT(30), <1>2, <1>3 DEF To
  <2>2. SlotFree(edit[q]) /\ edit[q].rack # r /\ edit[q].rack \in Rack
    BY ZenonT(30), <1>1, <1>3, <2>1, RequestFacts, PlacementAssumption DEF CheckedOK, TargetOK
  <2> QED
    BY ZenonT(30), <1>3, <1>4, <2>2 DEF SlotFree, Collide, Overlap, OutOfRack, Local
<1> QED
  BY ZenonT(30), <1>5, <1>6, <1>7

\* A device's height is written while nothing is about to be placed.
LEMMA ResizeStep ==
  ASSUME PlaceInv, NEW p \in Proc, SaveType(p)
  PROVE  NoOverlap' /\ InsideRack' /\ CheckedOK'
<1> DEFINE x == edit[p].dev
           h == edit[p].to
<1>1. TypeOK /\ CheckedOK /\ NoOverlap /\ InsideRack
  BY ZenonT(30) DEF PlaceInv, LockInv
<1>2. /\ place \in [Device -> Slot \cup {Unplaced}] /\ size \in [Device -> Int]
      /\ ph \in [Proc -> {"idle", "racks", "again", "commit", "save", "done"}]
      /\ x \in Device /\ h \in Int
  BY ZenonT(30), <1>1, RequestFacts DEF TypeOK
<1>3. /\ size' = [size EXCEPT ![x] = h] /\ UNCHANGED <<place, ticks, edit>> /\ To(p, "done")
      /\ ~stale' => ~stale /\ ResizeFits(x, h) /\ \A q \in Proc : ph[q] # "commit"
  BY ZenonT(30) DEF SaveType
<1>4. size'[x] = h /\ \A d \in Device \ {x} : size'[d] = size[d]
  BY ZenonT(30), <1>2, <1>3
<1>5. ASSUME ~stale', NEW o \in Device, o # x, Local(x), Local(o), place[o].rack = place[x].rack,
             place[o].face = place[x].face
      PROVE  ~Overlap(place[x].off, h, place[o].off, size[o])
  BY ZenonT(30), <1>3, <1>5 DEF ResizeFits, InRack, Local
<1>6. NoOverlap'
  <2> SUFFICES ASSUME ~stale', NEW d \in Device, NEW o \in Device, d # o, Local(d), Local(o),
                      place[d].rack = place[o].rack, place[d].face = place[o].face
               PROVE  ~Overlap(place[d].off, size'[d], place[o].off, size'[o])
    BY ZenonT(30), <1>3 DEF NoOverlap, Overlap, Local
  <2>1. CASE d = x
    BY ZenonT(30), <1>4, <1>5, <2>1
  <2>2. CASE o = x
    <3>1. ~Overlap(place[x].off, h, place[d].off, size[d])
      BY ZenonT(30), <1>5, <2>2
    <3>2. place[d].off \in Int /\ place[x].off \in Int
      BY ZenonT(30), <1>2, <2>2 DEF Local, Slot
    <3> QED
      BY ZenonT(30), <1>2, <1>4, <2>2, <3>1, <3>2, OverlapSymmetric
  <2>3. CASE d # x /\ o # x
    BY ZenonT(30), <1>1, <1>3, <1>4, <2>3 DEF NoOverlap
  <2> QED
    BY ZenonT(30), <2>1, <2>2, <2>3
<1>7. InsideRack'
  <2> SUFFICES ASSUME ~stale', NEW d \in Device, Local(d)
               PROVE  ~OutOfRack(place[d].off, size'[d], ticks[place[d].rack])
    BY ZenonT(30), <1>3 DEF InsideRack, OutOfRack, Local
  <2>1. CASE d = x
    BY ZenonT(30), <1>3, <1>4, <2>1 DEF ResizeFits, Local
  <2>2. CASE d # x
    BY ZenonT(30), <1>1, <1>3, <1>4, <2>2 DEF InsideRack
  <2> QED
    BY ZenonT(30), <2>1, <2>2
<1>8. CheckedOK'
  BY ZenonT(30), <1>2, <1>3 DEF CheckedOK, To
<1> QED
  BY ZenonT(30), <1>6, <1>7, <1>8

LEMMA PlaceInit == Init => PlaceInv
<1> SUFFICES ASSUME Init PROVE PlaceInv
  BY ZenonT(30)
<1>1. LockInv
  BY ZenonT(30), LockInit
<1>2. /\ place \in Start /\ StartOK /\ ticks = [r \in Rack |-> RackTicks]
      /\ size = [d \in Device |-> DevTicks] /\ ph = [p \in Proc |-> "idle"]
  BY ZenonT(30), PlacementAssumption DEF Init
<1>3. NoOverlap
  BY ZenonT(30), <1>2 DEF NoOverlap, StartOK, Local
<1>4. InsideRack
  <2>1. \A d \in Device : Local(d) => place[d].rack \in Rack
    BY ZenonT(30), <1>1 DEF LockInv, TypeOK, Local, Slot
  <2> QED
    BY ZenonT(30), <1>2, <2>1 DEF InsideRack, StartOK, Local
<1>5. CheckedOK
  BY ZenonT(30), <1>2 DEF CheckedOK
<1> QED
  BY ZenonT(30), <1>1, <1>3, <1>4, <1>5 DEF PlaceInv

LEMMA PlaceStep ==
  ASSUME PlaceInv, [Next]_vars
  PROVE  PlaceInv'
<1>1. LockInv /\ TypeOK /\ PhaseOK
  BY ZenonT(30) DEF PlaceInv, LockInv
<1>2. /\ place \in [Device -> Slot \cup {Unplaced}]
      /\ ph \in [Proc -> {"idle", "racks", "again", "commit", "save", "done"}]
  BY ZenonT(30), <1>1 DEF TypeOK
<1>3. LockInv'
  BY ZenonT(30), <1>1, LockStep
<1>4. ASSUME UNCHANGED <<place, ticks, size, edit, stale>>,
             \A q \in Proc : ph'[q] = "commit" => ph[q] = "commit"
      PROVE  NoOverlap' /\ InsideRack' /\ CheckedOK'
  <2>1. \A x \in Device : Local(x)' => Local(x) /\ place'[x] = place[x]
    BY ZenonT(30), <1>4 DEF Local
  <2> QED
    BY ZenonT(30), <1>4, <2>1, QuietStep DEF CheckedOK
<1>5. ASSUME NEW p \in Proc, Step(p) PROVE NoOverlap' /\ InsideRack' /\ CheckedOK'
  <2>1. CASE Again(p)
    <3>1. UNCHANGED <<place, ticks, size, edit, stale>>
      BY ZenonT(30), <2>1 DEF Again, data
    <3>2. \A x \in Device : Local(x)' => Local(x) /\ place'[x] = place[x]
      BY ZenonT(30), <3>1 DEF Local
    <3>3. \A q \in Proc \ {p} : ph'[q] = "commit" => ph[q] = "commit"
      BY ZenonT(30), <1>2, <2>1 DEF Again, To, End
    <3>4. ph'[p] = "commit" /\ edit[p].kind = "place" => Fits(edit[p])
      BY ZenonT(30), <1>2, <2>1 DEF Again, To, End
    <3>5. Fits(edit[p]) => SlotFree(edit[p])'
      BY ZenonT(30), <3>1 DEF Fits, SlotFree, Collide, Overlap, OutOfRack, Local
    <3> QED
      BY ZenonT(30), <3>1, <3>2, <3>3, <3>4, <3>5, QuietStep DEF CheckedOK
  <2>2. CASE Commit(p)
    <3>1. ph'[p] = "done" /\ \A q \in Proc \ {p} : ph'[q] = ph[q]
      BY ZenonT(30), <1>1, <2>2, EndFacts DEF Commit
    <3>2. UNCHANGED <<ticks, size, edit, stale>> /\ edit[p].kind \in {"place", "unmount"}
      BY ZenonT(30), <1>1, <2>2 DEF Commit, PhaseOK, Tx
    <3>3. CASE edit[p].kind = "place" /\ place' # place
      <4>1. place' = [place EXCEPT ![edit[p].dev] = Placed(edit[p], place[edit[p].dev])]
        BY ZenonT(30), <2>2, <3>3 DEF Commit
      <4> QED
        BY ZenonT(30), <2>2, <3>3, <4>1, PlaceCommit
    <3>4. CASE edit[p].kind = "unmount" \/ place' = place
      <4>1. place' = place \/ place' = [place EXCEPT ![edit[p].dev] = Unplaced]
        BY ZenonT(30), <2>2, <3>4 DEF Commit
      <4>2. \A x \in Device : Local(x)' => Local(x) /\ place'[x] = place[x]
        BY ZenonT(30), <1>2, <4>1 DEF Local
      <4> QED
        BY ZenonT(30), <3>1, <3>2, <4>2, QuietStep DEF CheckedOK
    <3> QED
      BY ZenonT(30), <3>2, <3>3, <3>4
  <2>3. CASE SaveRack(p) \/ DeleteRack(p)
    BY ZenonT(30), <2>3, HeightStep
  <2>4. CASE SaveType(p)
    BY ZenonT(30), <2>4, ResizeStep
  <2>5. CASE ReadRow(p) \/ LockRack(p) \/ LockDevice(p) \/ Abort(p)
             \/ CheckRack(p) \/ CountRack(p) \/ CheckType(p)
    <3>1. UNCHANGED <<place, ticks, size, edit, stale>>
      BY <2>5, Zenon DEF ReadRow, LockRack, LockDevice, Abort, CheckRack, CountRack, CheckType, data
    <3>2. \/ ph' = ph \/ \E s \in {"racks", "again", "save", "done"} : ph' = [ph EXCEPT ![p] = s]
      BY ZenonT(30), <2>5 DEF ReadRow, LockRack, LockDevice, Abort, CheckRack, CountRack,
         CheckType, To, End
    <3>3. \A q \in Proc : ph'[q] = "commit" => ph[q] = "commit"
      BY ZenonT(30), <1>2, <3>2
    <3> QED
      BY ZenonT(30), <1>4, <3>1, <3>3
  <2> QED
    BY ZenonT(30), <1>5, <2>1, <2>2, <2>3, <2>4, <2>5 DEF Step
<1>6. ASSUME NEW d \in Device, ImportGone(d) \/ \E at \in ImportAt : Import(d, at[1], at[2])
      PROVE  NoOverlap' /\ InsideRack' /\ CheckedOK'
  <2>1. /\ UNCHANGED <<ticks, size, edit, stale>> /\ ph' = ph
        /\ \A x \in Device : Local(x)' => Local(x) /\ place'[x] = place[x]
    BY ZenonT(30), <1>1, <1>6, ImportFacts
  <2> QED
    BY ZenonT(30), <2>1, QuietStep DEF CheckedOK
<1>7. CASE UNCHANGED vars
  BY ZenonT(30), <1>3, <1>4, <1>7 DEF PlaceInv, vars
<1> QED
  BY ZenonT(30), <1>3, <1>5, <1>6, <1>7 DEF Next, PlaceInv

\* Place and Unmount keep operators' devices apart and inside their racks, for any requests in
\* flight, unless a height was changed on a check that no longer held (PlacementSafe).
THEOREM PlacementsStaySafe == Spec => []PlacementSafe
<1>1. Init => PlaceInv
  BY ZenonT(30), PlaceInit
<1>2. PlaceInv /\ [Next]_vars => PlaceInv'
  BY ZenonT(30), PlaceStep
<1>3. PlaceInv => PlacementSafe
  BY ZenonT(30) DEF PlaceInv, LockInv, PlacementSafe
<1> QED
  BY <1>1, <1>2, <1>3, PTL DEF Spec

-----------------------------------------------------------------------------
(* Waiting.                                                                *)

\* A request that others wait for, and that waits itself, waits for a rack; and the racks along
\* such waits have ever higher numbers.
LEMMA WaitsGoUp ==
  ASSUME LockInv, NEW S \in SUBSET Proc, Cycle(S), \A p \in S : ph[p] # "again", NEW p \in S
  PROVE  /\ ph[p] = "racks" /\ need[p] # {}
         /\ Blocker(p) \in S /\ need[Blocker(p)] # {} /\ NextRack(p) < NextRack(Blocker(p))
<1>1. TypeOK /\ PhaseOK /\ HoldersOK /\ OrderOK
  BY ZenonT(30) DEF LockInv
<1>2. \A q \in S : Blocker(q) \in S /\ \E o \in S : Blocker(o) = q
  BY ZenonT(30) DEF Cycle
<1>3. NoProc \notin S
  BY ZenonT(30), PlacementAssumption
<1>4. ASSUME NEW o \in S
      PROVE  \/ \E d \in Device : rowLock[d] = Blocker(o)
             \/ ph[o] = "racks" /\ need[o] # {} /\ Blocker(o) = rackLock[NextRack(o)]
             \/ ph[o] = "racks" /\ need[o] = {} /\ \E d \in Device : devLock[d] = Blocker(o)
  <2>1. edit[o].dev \in Device /\ ph[o] # "again" /\ Blocker(o) # NoProc
    BY ZenonT(30), <1>1, <1>2, <1>3, RequestFacts
  <2> QED
    BY ZenonT(30), <2>1 DEF Blocker
<1>5. ASSUME NEW q \in S PROVE ph[q] = "racks"
  <2>1. PICK o \in S : Blocker(o) = q
    BY ZenonT(30), <1>2
  <2>2. ph[o] = "racks" /\ need[o] # {} => NextRack(o) \in Rack
    BY ZenonT(30), <1>1, NextRackFacts
  <2>3. ph[q] \in {"racks", "again", "commit"}
    BY ZenonT(30), <1>1, <1>4, <2>1, <2>2 DEF HoldersOK
  <2>4. ph[q] # "commit"
    BY ZenonT(30), <1>2, <1>3 DEF Blocker
  <2> QED
    BY ZenonT(30), <2>3, <2>4
<1>6. ASSUME NEW q \in S
      PROVE  need[q] # {} /\ Blocker(q) = rackLock[NextRack(q)]
  <2>1. need[q] # {}
    <3>1. SUFFICES ASSUME need[q] = {} PROVE FALSE
      BY ZenonT(30)
    <3>2. Blocker(q) = devLock[edit[q].dev] /\ edit[q].dev \in Device
      BY ZenonT(30), <1>1, <1>5, <3>1, RequestFacts DEF Blocker
    <3>3. Blocker(q) \in S /\ ph[Blocker(q)] \in {"again", "commit"}
      BY ZenonT(30), <1>1, <1>2, <3>2 DEF HoldersOK
    <3> QED
      BY ZenonT(30), <1>5, <3>3
  <2> QED
    BY ZenonT(30), <1>5, <2>1 DEF Blocker
<1>7. DEFINE b == Blocker(p)
<1>8. b \in S /\ b \in Proc /\ need[p] # {} /\ need[b] # {} /\ rackLock[NextRack(p)] = b
  BY ZenonT(30), <1>2, <1>6
<1>9. NextRack(p) \in Rack /\ NextRack(b) \in need[b]
  BY ZenonT(30), <1>1, <1>8, NextRackFacts
<1> QED
  BY ZenonT(30), <1>1, <1>5, <1>8, <1>9 DEF OrderOK

LEMMA NoCycleOfRacks == LockInv => OnlyLateRowDeadlocks
<1> SUFFICES ASSUME LockInv, NEW S \in SUBSET Proc, Cycle(S), \A p \in S : ph[p] # "again"
             PROVE  FALSE
  BY ZenonT(30) DEF OnlyLateRowDeadlocks
<1> DEFINE T == {NextRack(p) : p \in S}
<1>1. TypeOK /\ Rack \subseteq Int /\ IsFiniteSet(Rack)
  BY PlacementAssumption DEF LockInv
<1>2. T \subseteq Rack
  BY ZenonT(30), <1>1, WaitsGoUp, NextRackFacts
<1>3. T # {} /\ T \subseteq Int /\ IsFiniteSet(T)
  <2>1. IsFiniteSet(T) /\ T \subseteq Int
    <3> HIDE DEF T
    <3> QED
      BY ZenonT(30), <1>1, <1>2, FS_Subset
  <2>2. S # {}
    BY ZenonT(30) DEF Cycle
  <2> QED
    BY ZenonT(30), <2>1, <2>2
<1>4. PICK m \in T : \A y \in T : y <= m
  <2> HIDE DEF T
  <2> QED
    BY ZenonT(30), <1>3, GreatestOf
<1>5. PICK p \in S : m = NextRack(p)
  BY ZenonT(30)
<1>6. Blocker(p) \in S /\ NextRack(p) < NextRack(Blocker(p))
  BY ZenonT(30), WaitsGoUp
<1>7. NextRack(Blocker(p)) \in T /\ NextRack(Blocker(p)) <= m
  BY ZenonT(30), <1>4, <1>6
<1> QED
  BY <1>2, <1>1, <1>4, <1>5, <1>6, <1>7

\* Transactions wait for each other in a cycle only when one of them found its device unplaced and
\* the row appeared before it read again: lockOrder excludes all other cycles (OnlyLateRowDeadlocks).
THEOREM OnlyLateRowsDeadlock == Spec => []OnlyLateRowDeadlocks
<1>1. Init => LockInv
  BY ZenonT(30), LockInit
<1>2. LockInv /\ [Next]_vars => LockInv'
  BY ZenonT(30), LockStep
<1> QED
  BY <1>1, <1>2, NoCycleOfRacks, PTL DEF Spec

=============================================================================
