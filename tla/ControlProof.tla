---------------------------- MODULE ControlProof ----------------------------
(***************************************************************************)
(* What the two loops of the primary that act on rows operators edit keep  *)
(* true: RemoteManager's dial loops (ConnSafe), for every set of nodes and *)
(* settings and every number of edits and faults, and the scheduler's tick *)
(* (SchedulerSafe, OneRunPerActivation), for any set of schedules, any     *)
(* crons and any number of edits, ticks, failures and restarts.            *)
(*                                                                         *)
(* ConnSafe is not inductive: that the cancel function in m.active is that *)
(* of the newest loop (ActiveOK, StartedOK) makes reconcile cancel the one *)
(* loop that is not cancelled yet; that a node has a loop per edit at most *)
(* (GenOK) keeps the numbering of the loops in range; and a node that was  *)
(* never edited has one loop, which alone writes its entries (FirstOK).    *)
(* The scheduler's invariant relates the copy a Tick loaded to the row in  *)
(* the table (CopyInv) and the last run to the row's NextRunAt (RunInv).   *)
(***************************************************************************)
EXTENDS JobScheduler, HubConn, WellFoundedInduction, TLAPS

-----------------------------------------------------------------------------
(* The dial loops and connections of RemoteManager.                        *)

\* The settings reconcile has acted on, and has loaded.
Acted(n) == IF nodes[n] = NoConn THEN Off ELSE nodes[n]
Seen(n)  == IF snap = NoConn THEN Acted(n) ELSE snap[n]

One(b) == IF b THEN 1 ELSE 0

\* A loop is started for an edit, and an edit that no loop was started for yet
\* is still in the row or in what reconcile has loaded.
GenOK == \A n \in Node :
    loopGen[n] + One(row[n] # Seen(n)) + One(Seen(n) # Acted(n)) <= connUsed.edits + 1

\* m.active and m.nodes are kept together and name the newest loop.
ActiveOK == \A n \in Node :
    /\ active[n] = NoConn <=> nodes[n] = NoConn
    /\ active[n] # NoConn => active[n] = <<n, loopGen[n]>>

StartedOK == \A l \in Loop : loopPc[l] = "new" <=> l[2] > loopGen[l[1]]

Controlled == \A l \in Loop : loopPc[l] # "new" /\ ~cancelled[l] => active[l[1]] = l

HeldOK == RegisteredIsHeld /\ \A n \in Node : conns[n] # NoConn => conns[n][1] = n

\* The first loop of a node is alone until the row is edited.
FirstOK == \A n \in Node : loopGen[n] = 1 =>
    /\ loopPc[<<n, 1>>] \in {"mark", "up"} => conns[n] = <<n, 1>>
    /\ loopPc[<<n, 1>>] = "up" => status[n]

ConnInv == /\ ConnTypeOK /\ GenOK /\ ActiveOK /\ StartedOK /\ Controlled
           /\ HeldOK /\ FirstOK

-----------------------------------------------------------------------------
(* One dial loop at a time.                                                *)

LEMMA LoopFacts ==
    /\ \A l \in Loop : l[1] \in Node /\ l[2] \in Nat /\ l[2] >= 1 /\ l = <<l[1], l[2]>>
    /\ NoConn \notin Loop
<1>1. MaxConnEdits \in Nat
  BY ZenonT(30), HubConnAssumption
<1>2. \A l \in Loop : l[1] \in Node /\ l[2] \in 1 .. MaxConnEdits + 1 /\ l = <<l[1], l[2]>>
  BY DEF Loop
<1>3. Loop \subseteq Node \X Nat
  BY <1>1 DEF Loop
<1> QED
  BY <1>1, <1>2, <1>3, HubConnAssumption

\* A step of a dial loop is its own: it moves its own counter and writes its
\* own node's entries, and a loop that was not started takes none.
LEMMA DialFrame ==
  ASSUME ConnTypeOK, NEW l \in Loop, DialLoop(l)
  PROVE  /\ UNCHANGED <<row, snap, active, nodes, loopGen, cancelled>>
         /\ connUsed'.edits = connUsed.edits
         /\ loopPc[l] # "new" /\ loopPc'[l] # "new"
         /\ \A k \in Loop : k # l => loopPc'[k] = loopPc[k]
         /\ \A n \in Node : n # l[1] => conns'[n] = conns[n] /\ status'[n] = status[n]
<1>1. /\ loopPc \in [Loop -> Places] /\ conns \in [Node -> Loop \cup {NoConn}]
      /\ status \in [Node -> BOOLEAN]
      /\ connUsed \in [edits : 0 .. MaxConnEdits, faults : 0 .. MaxConnFaults]
  BY ZenonT(30) DEF ConnTypeOK
<1>2. CASE Check(l)
  BY ZenonT(30), <1>1, <1>2 DEF Check, LoopGoto, mgrVars
<1>3. CASE DialFail(l)
  BY ZenonT(30), <1>1, <1>3 DEF DialFail, LoopGoto, SetStatus, ConnFault, mgrVars
<1>4. CASE DialOk(l)
  BY ZenonT(30), <1>1, <1>4 DEF DialOk, LoopGoto, mgrVars
<1>5. CASE ReadHello(l)
  BY ZenonT(30), <1>1, <1>5 DEF ReadHello, LoopGoto, SetStatus, ConnFault, mgrVars
<1>6. CASE RegisterConn(l)
  BY ZenonT(30), <1>1, <1>6 DEF RegisterConn, LoopGoto, mgrVars
<1>7. CASE Mark(l)
  BY ZenonT(30), <1>1, <1>7 DEF Mark, LoopGoto, SetStatus, mgrVars
<1>8. CASE ReadErr(l)
  BY ZenonT(30), <1>1, <1>8 DEF ReadErr, LoopGoto, SetStatus, mgrVars
<1>9. CASE UnregisterConn(l)
  BY ZenonT(30), <1>1, <1>9 DEF UnregisterConn, LoopGoto, mgrVars
<1>10. CASE Returned(l)
  BY ZenonT(30), <1>1, <1>10 DEF Returned, LoopGoto, mgrVars
<1>11. CASE Wake(l)
  BY ZenonT(30), <1>1, <1>11 DEF Wake, LoopGoto, mgrVars
<1> QED
  BY ZenonT(30), <1>2, <1>3, <1>4, <1>5, <1>6, <1>7, <1>8, <1>9, <1>10, <1>11 DEF DialLoop

LEMMA SocketFrame ==
  ASSUME ConnTypeOK, NEW l \in Loop, Watch(l) \/ Drop(l)
  PROVE  /\ UNCHANGED <<row, snap, active, nodes, loopGen, cancelled, loopPc, conns, status>>
         /\ connUsed'.edits = connUsed.edits
  BY ZenonT(30) DEF ConnTypeOK, Watch, Drop, ConnFault, mgrVars

LEMMA EditFrame ==
  ASSUME ConnTypeOK, NEW n \in Node, Edit(n)
  PROVE  /\ UNCHANGED <<snap, active, nodes, loopGen, cancelled, loopPc, conns, status>>
         /\ connUsed'.edits = connUsed.edits + 1
         /\ \A m \in Node : m # n => row'[m] = row[m]
<1>1. /\ row \in [Node -> Config \cup {Off}]
      /\ connUsed \in [edits : 0 .. MaxConnEdits, faults : 0 .. MaxConnFaults]
  BY ZenonT(30) DEF ConnTypeOK
<1> QED
  BY ZenonT(30), <1>1 DEF Edit, mgrVars, loopVars

-----------------------------------------------------------------------------
(* Types.                                                                  *)

LEMMA BackoffType ==
  ASSUME ConnTypeOK, NEW l \in Loop PROVE NextBackoff(l) \in MinBackoff .. MaxBackoff
<1>1. backoff[l] \in MinBackoff .. MaxBackoff
  BY ZenonT(30) DEF ConnTypeOK
<1>2. \A b \in MinBackoff .. MaxBackoff : Least(2 * b, MaxBackoff) \in MinBackoff .. MaxBackoff
  BY HubConnAssumption DEF Least
<1> QED
  BY <1>1, <1>2, HubConnAssumption DEF NextBackoff

LEMMA DialType ==
  ASSUME ConnTypeOK, NEW l \in Loop, DialLoop(l) PROVE ConnTypeOK'
<1>1. /\ loopPc \in [Loop -> Places] /\ conns \in [Node -> Loop \cup {NoConn}]
      /\ alive \in [Loop -> BOOLEAN] /\ connected \in [Loop -> BOOLEAN]
      /\ backoff \in [Loop -> MinBackoff .. MaxBackoff] /\ status \in [Node -> BOOLEAN]
      /\ connUsed \in [edits : 0 .. MaxConnEdits, faults : 0 .. MaxConnFaults] /\ l[1] \in Node
  BY ZenonT(30), LoopFacts DEF ConnTypeOK
<1>2. ASSUME ConnFault PROVE connUsed' \in [edits : 0 .. MaxConnEdits, faults : 0 .. MaxConnFaults]
  BY <1>1, <1>2, HubConnAssumption DEF ConnFault
<1>3. ASSUME NEW s \in Places, LoopGoto(l, s) PROVE loopPc' \in [Loop -> Places]
  BY ZenonT(30), <1>1, <1>3 DEF LoopGoto
<1>4. ASSUME NEW b \in BOOLEAN, SetStatus(l, b) PROVE status' \in [Node -> BOOLEAN]
  BY ZenonT(30), <1>1, <1>4 DEF SetStatus
<1>5. UNCHANGED <<row, snap, active, nodes, loopGen, cancelled>>
  BY ZenonT(30), DialFrame
<1> DEFINE Typed ==
      /\ loopPc' \in [Loop -> Places] /\ conns' \in [Node -> Loop \cup {NoConn}]
      /\ alive' \in [Loop -> BOOLEAN] /\ connected' \in [Loop -> BOOLEAN]
      /\ backoff' \in [Loop -> MinBackoff .. MaxBackoff] /\ status' \in [Node -> BOOLEAN]
      /\ connUsed' \in [edits : 0 .. MaxConnEdits, faults : 0 .. MaxConnFaults]
<1>6. ASSUME Check(l) PROVE Typed
  BY ZenonT(30), <1>1, <1>3, <1>6 DEF Check, Places
<1>7. ASSUME DialFail(l) PROVE Typed
  BY ZenonT(30), <1>1, <1>2, <1>3, <1>4, <1>7 DEF DialFail, Places
<1>8. ASSUME DialOk(l) PROVE Typed
  BY ZenonT(30), <1>1, <1>3, <1>8 DEF DialOk, Places
<1>9. ASSUME ReadHello(l) PROVE Typed
  BY ZenonT(30), <1>1, <1>2, <1>3, <1>4, <1>9 DEF ReadHello, Places
<1>10. ASSUME RegisterConn(l) PROVE Typed
  BY ZenonT(30), <1>1, <1>3, <1>10 DEF RegisterConn, Places
<1>11. ASSUME Mark(l) PROVE Typed
  BY ZenonT(30), <1>1, <1>3, <1>4, <1>11 DEF Mark, Places
<1>12. ASSUME ReadErr(l) PROVE Typed
  BY ZenonT(30), <1>1, <1>3, <1>4, <1>12 DEF ReadErr, Places
<1>13. ASSUME UnregisterConn(l) PROVE Typed
  BY ZenonT(30), <1>1, <1>3, <1>13 DEF UnregisterConn, Places
<1>14. ASSUME Returned(l) PROVE Typed
  BY ZenonT(30), <1>1, <1>3, <1>14, BackoffType DEF Returned, Places
<1>15. ASSUME Wake(l) PROVE Typed
  BY ZenonT(30), <1>1, <1>3, <1>15 DEF Wake, Places
<1>16. Typed
  BY ZenonT(30), <1>6, <1>7, <1>8, <1>9, <1>10, <1>11, <1>12, <1>13, <1>14, <1>15 DEF DialLoop
<1> QED
  BY ZenonT(30), <1>5, <1>16 DEF ConnTypeOK

-----------------------------------------------------------------------------
(* reconcile.                                                              *)

\* What reconcile does with one node.
LEMMA ReconcileNode ==
  ASSUME ConnInv, Reconcile, NEW n \in Node
  PROVE  /\ snap \in [Node -> Config \cup {Off}]
         /\ Stops(n) => active'[n] = NoConn /\ nodes'[n] = NoConn /\ loopGen'[n] = loopGen[n]
         /\ Starts(n) => /\ active'[n] = <<n, loopGen[n] + 1>> /\ nodes'[n] = snap[n]
                         /\ loopGen'[n] = loopGen[n] + 1 /\ <<n, loopGen[n] + 1>> \in Loop
         /\ ~Stops(n) /\ ~Starts(n) =>
               active'[n] = active[n] /\ nodes'[n] = nodes[n] /\ loopGen'[n] = loopGen[n]
         /\ ~(Stops(n) /\ Starts(n))
<1>1. snap \in [Node -> Config \cup {Off}] /\ snap # NoConn
  BY ZenonT(30) DEF ConnInv, ConnTypeOK, Reconcile
<1>2. ~(Stops(n) /\ Starts(n))
  BY ZenonT(30) DEF Stops, Starts
<1>3. loopGen[n] \in Nat /\ connUsed.edits \in 0 .. MaxConnEdits /\ MaxConnEdits \in Nat
  BY HubConnAssumption DEF ConnInv, ConnTypeOK
<1>4. ASSUME Starts(n) PROVE <<n, loopGen[n] + 1>> \in Loop
  <2>1. Seen(n) # Acted(n)
    BY ZenonT(30), <1>1, <1>4 DEF Seen, Acted, Starts
  <2>2. loopGen[n] + One(row[n] # Seen(n)) + 1 <= connUsed.edits + 1
    BY ZenonT(30), <2>1 DEF ConnInv, GenOK, One
  <2>3. One(row[n] # Seen(n)) \in {0, 1}
    BY ZenonT(30) DEF One
  <2>4. loopGen[n] + 1 \in 1 .. MaxConnEdits + 1
    BY <1>3, <2>2, <2>3
  <2> QED
    BY ZenonT(30), <2>4 DEF Loop
<1>5. ASSUME Stops(n)
      PROVE  active'[n] = NoConn /\ nodes'[n] = NoConn /\ loopGen'[n] = loopGen[n]
  BY ZenonT(30), <1>2, <1>5 DEF Reconcile
<1>6. ASSUME Starts(n)
      PROVE  active'[n] = <<n, loopGen[n] + 1>> /\ nodes'[n] = snap[n] /\ loopGen'[n] = loopGen[n] + 1
  BY ZenonT(30), <1>2, <1>6 DEF Reconcile
<1>7. ASSUME ~Stops(n), ~Starts(n)
      PROVE  active'[n] = active[n] /\ nodes'[n] = nodes[n] /\ loopGen'[n] = loopGen[n]
  BY ZenonT(30), <1>7 DEF Reconcile
<1> QED
  BY ZenonT(30), <1>1, <1>2, <1>4, <1>5, <1>6, <1>7

\* ... and with one loop.
LEMMA ReconcileLoop ==
  ASSUME ConnInv, Reconcile, NEW l \in Loop
  PROVE  /\ loopPc'[l] = IF Starts(l[1]) /\ l[2] = loopGen[l[1]] + 1 THEN "check" ELSE loopPc[l]
         /\ cancelled[l] => cancelled'[l]
         /\ (Stops(l[1]) \/ Restarts(l[1])) /\ active[l[1]] = l => cancelled'[l]
<1>1. l[1] \in Node /\ l = <<l[1], l[2]>>
  BY ZenonT(30), LoopFacts
<1>2. (\E n \in {m \in Node : Starts(m)} : l = <<n, loopGen[n] + 1>>)
          <=> Starts(l[1]) /\ l[2] = loopGen[l[1]] + 1
  BY <1>1
<1>3. loopPc'[l] = IF \E n \in {m \in Node : Starts(m)} : l = <<n, loopGen[n] + 1>>
                   THEN "check" ELSE loopPc[l]
  BY ZenonT(30) DEF Reconcile
<1>4. cancelled'[l] = (cancelled[l] \/ \E n \in Node : (Stops(n) \/ Restarts(n)) /\ active[n] = l)
  BY ZenonT(30) DEF Reconcile
<1> QED
  BY ZenonT(30), <1>1, <1>2, <1>3, <1>4

LEMMA ReconcileType ==
  ASSUME ConnInv, Reconcile PROVE ConnTypeOK'
<1>1. ConnTypeOK
  BY ZenonT(30) DEF ConnInv
<1>2. UNCHANGED <<row, alive, connected, backoff, conns, status, connUsed>> /\ snap' = NoConn
  BY ZenonT(30) DEF Reconcile
<1>3. ASSUME NEW n \in Node
      PROVE  /\ active'[n] \in Loop \cup {NoConn} /\ nodes'[n] \in Config \cup {NoConn}
             /\ loopGen'[n] \in 0 .. MaxConnEdits + 1
  <2>1. active[n] \in Loop \cup {NoConn} /\ nodes[n] \in Config \cup {NoConn}
        /\ loopGen[n] \in 0 .. MaxConnEdits + 1
    BY ZenonT(30), <1>1 DEF ConnTypeOK
  <2>2. ASSUME Starts(n) PROVE snap[n] \in Config /\ loopGen[n] + 1 \in 0 .. MaxConnEdits + 1
    <3>1. snap[n] \in Config
      BY ZenonT(30), <2>2, ReconcileNode DEF Starts
    <3>2. <<n, loopGen[n] + 1>> \in Loop
      BY ZenonT(30), <2>2, ReconcileNode
    <3> QED
      BY <3>1, <3>2, HubConnAssumption DEF Loop
  <2> QED
    BY ZenonT(30), <2>1, <2>2, ReconcileNode
<1>4. /\ active' \in [Node -> Loop \cup {NoConn}] /\ nodes' \in [Node -> Config \cup {NoConn}]
      /\ loopGen' \in [Node -> 0 .. MaxConnEdits + 1]
  <2>1. /\ active' = [n \in Node |-> active'[n]] /\ nodes' = [n \in Node |-> nodes'[n]]
        /\ loopGen' = [n \in Node |-> loopGen'[n]]
    BY DEF Reconcile
  <2> QED
    BY ZenonT(30), <1>3, <2>1
<1>5. loopPc' \in [Loop -> Places]
  <2>1. loopPc' = [l \in Loop |-> loopPc'[l]]
    BY ZenonT(30) DEF Reconcile
  <2>2. \A l \in Loop : loopPc'[l] \in Places
    BY ZenonT(30), <1>1, ReconcileLoop DEF ConnTypeOK, Places
  <2> QED
    BY ZenonT(30), <2>1, <2>2
<1>6. cancelled' \in [Loop -> BOOLEAN]
  BY ZenonT(30) DEF Reconcile
<1> QED
  BY ZenonT(30), <1>1, <1>2, <1>4, <1>5, <1>6 DEF ConnTypeOK

LEMMA KeepsConnType ==
  ASSUME ConnInv, [ConnNext]_connvars PROVE ConnTypeOK'
<1>1. ConnTypeOK
  BY ZenonT(30) DEF ConnInv
<1>2. ASSUME NEW n \in Node, Edit(n) PROVE ConnTypeOK'
  <2>1. connUsed' \in [edits : 0 .. MaxConnEdits, faults : 0 .. MaxConnFaults]
    BY <1>1, <1>2, HubConnAssumption DEF Edit, ConnTypeOK
  <2>2. row' \in [Node -> Config \cup {Off}]
    BY ZenonT(30), <1>1, <1>2 DEF Edit, ConnTypeOK
  <2> QED
    BY ZenonT(30), <1>1, <1>2, <2>1, <2>2 DEF Edit, ConnTypeOK, mgrVars, loopVars
<1>3. CASE LoadRows
  BY ZenonT(30), <1>1, <1>3 DEF LoadRows, ConnTypeOK, loopVars
<1>4. CASE Reconcile
  BY ZenonT(30), <1>4, ReconcileType
<1>5. ASSUME NEW l \in Loop, DialLoop(l) PROVE ConnTypeOK'
  BY ZenonT(30), <1>1, <1>5, DialType
<1>6. ASSUME NEW l \in Loop, Watch(l) \/ Drop(l) PROVE ConnTypeOK'
  <2>1. alive' \in [Loop -> BOOLEAN]
    BY ZenonT(30), <1>1, <1>6 DEF Watch, Drop, ConnTypeOK
  <2>2. connUsed' \in [edits : 0 .. MaxConnEdits, faults : 0 .. MaxConnFaults]
    BY <1>1, <1>6, HubConnAssumption DEF Watch, Drop, ConnFault, ConnTypeOK
  <2> QED
    BY ZenonT(30), <1>1, <1>6, <2>1, <2>2 DEF Watch, Drop, ConnTypeOK, mgrVars
<1>7. CASE UNCHANGED connvars
  BY ZenonT(30), <1>1, <1>7 DEF ConnTypeOK, connvars, mgrVars, loopVars
<1> QED
  BY ZenonT(30), <1>2, <1>3, <1>4, <1>5, <1>6, <1>7 DEF ConnNext, Manager

-----------------------------------------------------------------------------
(* The invariant.                                                          *)

\* The steps that leave the loops, their numbering and their settings alone.
LEMMA ConnSteps ==
  ASSUME ConnInv, [ConnNext]_connvars
  PROVE  \/ Reconcile
         \/ \E l \in Loop : DialLoop(l)
         \/ /\ UNCHANGED <<active, nodes, loopGen, cancelled, loopPc, conns, status>>
            /\ \/ LoadRows
               \/ \E n \in Node : Edit(n)
               \/ UNCHANGED <<row, snap>> /\ connUsed'.edits = connUsed.edits
<1>1. ConnTypeOK
  BY ZenonT(30) DEF ConnInv
<1>2. LoadRows => UNCHANGED <<active, nodes, loopGen, cancelled, loopPc, conns, status>>
  BY ZenonT(30) DEF LoadRows, loopVars
<1>3. UNCHANGED connvars =>
        /\ UNCHANGED <<active, nodes, loopGen, cancelled, loopPc, conns, status, row, snap>>
        /\ connUsed'.edits = connUsed.edits
  BY ZenonT(30) DEF connvars, mgrVars, loopVars
<1> QED
  BY ZenonT(30), <1>1, <1>2, <1>3, EditFrame, SocketFrame DEF ConnNext, Manager

LEMMA KeepsGenOK ==
  ASSUME ConnInv, [ConnNext]_connvars PROVE GenOK'
<1> DEFINE Sum(n) == loopGen[n] + One(row[n] # Seen(n)) + One(Seen(n) # Acted(n))
<1> SUFFICES ASSUME NEW n \in Node PROVE Sum(n)' <= connUsed'.edits + 1
  BY ZenonT(30) DEF GenOK, One, Seen, Acted
<1>1. loopGen[n] \in Nat /\ connUsed.edits \in Nat /\ Sum(n) <= connUsed.edits + 1
  BY HubConnAssumption DEF ConnInv, ConnTypeOK, GenOK
<1>2. \A b : One(b) \in {0, 1}
  BY ZenonT(30) DEF One
<1>3. ASSUME NEW m \in Node, Edit(m), UNCHANGED <<nodes, loopGen>> PROVE Sum(n)' <= connUsed'.edits + 1
  <2>1. connUsed'.edits = connUsed.edits + 1 /\ UNCHANGED <<snap, nodes, loopGen>>
    BY ZenonT(30), <1>3, EditFrame DEF ConnInv
  <2>2. Seen(n)' = Seen(n) /\ Acted(n)' = Acted(n)
    BY ZenonT(30), <2>1 DEF Seen, Acted
  <2>3. Sum(n)' <= Sum(n) + 1
    BY <1>1, <2>1, <2>2 DEF One
  <2>4. Sum(n) \in Nat /\ Sum(n)' \in Nat
    BY <1>1, <2>1 DEF One
  <2> QED
    BY <1>1, <2>1, <2>3, <2>4
<1>4. CASE LoadRows
  <2>1. snap = NoConn /\ snap' = row /\ UNCHANGED <<row, nodes, loopGen, connUsed>>
    BY ZenonT(30), <1>4 DEF LoadRows
  <2>2. Acted(n)' = Acted(n) /\ Seen(n) = Acted(n) /\ (Seen(n)' = row[n] \/ Seen(n)' = Seen(n))
    BY ZenonT(30), <2>1 DEF Seen, Acted
  <2> QED
    BY <1>1, <2>1, <2>2 DEF One
<1>5. CASE Reconcile
  <2>1. snap' = NoConn /\ snap # NoConn /\ UNCHANGED <<row, connUsed>>
    BY ZenonT(30), <1>5 DEF Reconcile
  <2>2. Seen(n)' = Acted(n)' /\ Seen(n) = snap[n]
    BY ZenonT(30), <2>1 DEF Seen, Acted
  <2>3. nodes[n] \in Config \cup {NoConn} /\ snap[n] \in Config \cup {Off}
    BY ZenonT(30), <1>5, ReconcileNode DEF ConnInv, ConnTypeOK
  <2>4. active[n] = NoConn <=> nodes[n] = NoConn
    BY ZenonT(30) DEF ConnInv, ActiveOK
  <2>5. Acted(n)' = snap[n]
    BY ZenonT(30), <1>5, <2>3, <2>4, ReconcileNode, HubConnAssumption DEF Acted, Stops, Starts
  <2>6. loopGen'[n] = loopGen[n] \/ (loopGen'[n] = loopGen[n] + 1 /\ snap[n] # Acted(n))
    BY ZenonT(30), <1>5, <2>3, ReconcileNode DEF Acted, Starts
  <2> QED
    BY <1>1, <2>1, <2>2, <2>5, <2>6 DEF One
<1>6. CASE UNCHANGED <<row, snap, nodes, loopGen>> /\ connUsed'.edits = connUsed.edits
  BY ZenonT(30), <1>1, <1>6 DEF One, Seen, Acted
<1>7. ASSUME NEW l \in Loop, DialLoop(l)
      PROVE  UNCHANGED <<row, snap, nodes, loopGen>> /\ connUsed'.edits = connUsed.edits
  BY ZenonT(30), <1>7, DialFrame DEF ConnInv
<1> QED
  BY ZenonT(30), <1>3, <1>4, <1>5, <1>6, <1>7, ConnSteps

LEMMA KeepsActiveOK ==
  ASSUME ConnInv, [ConnNext]_connvars PROVE ActiveOK' /\ StartedOK' /\ Controlled'
<1>1. CASE UNCHANGED <<active, nodes, loopGen, cancelled, loopPc>>
  BY ZenonT(30), <1>1 DEF ConnInv, ActiveOK, StartedOK, Controlled
<1>2. ASSUME NEW l \in Loop, DialLoop(l) PROVE ActiveOK' /\ StartedOK' /\ Controlled'
  BY <1>2, DialFrame DEF ConnInv, ActiveOK, StartedOK, Controlled
<1>3. CASE Reconcile
  <2>1. ActiveOK'
    <3> SUFFICES ASSUME NEW n \in Node
                 PROVE  /\ active'[n] = NoConn <=> nodes'[n] = NoConn
                        /\ active'[n] # NoConn => active'[n] = <<n, loopGen'[n]>>
      BY ZenonT(30) DEF ActiveOK
    <3>1. Starts(n) => snap[n] # NoConn /\ <<n, loopGen[n] + 1>> # NoConn
      <4>1. snap \in [Node -> Config \cup {Off}] /\ (Starts(n) => <<n, loopGen[n] + 1>> \in Loop)
        BY ZenonT(30), <1>3, ReconcileNode
      <4>2. Starts(n) => snap[n] # Off
        BY ZenonT(30) DEF Starts
      <4>3. NoConn \notin Loop /\ NoConn \notin Config
        BY ZenonT(30), LoopFacts, HubConnAssumption
      <4> QED
        BY ZenonT(30), <4>1, <4>2, <4>3
    <3>2. /\ active[n] = NoConn <=> nodes[n] = NoConn
          /\ active[n] # NoConn => active[n] = <<n, loopGen[n]>>
      BY ZenonT(30) DEF ConnInv, ActiveOK
    <3> QED
      BY ZenonT(30), <1>3, <3>1, <3>2, ReconcileNode
  <2>2. ASSUME NEW l \in Loop PROVE loopPc'[l] = "new" <=> l[2] > loopGen'[l[1]]
    <3>1. l[1] \in Node /\ l[2] \in Nat /\ loopGen[l[1]] \in Nat
      BY LoopFacts, HubConnAssumption DEF ConnInv, ConnTypeOK
    <3>2. loopPc[l] = "new" <=> l[2] > loopGen[l[1]]
      BY ZenonT(30) DEF ConnInv, StartedOK
    <3>3. CASE Starts(l[1])
      <4>1. loopGen'[l[1]] = loopGen[l[1]] + 1
        BY ZenonT(30), <1>3, <3>1, <3>3, ReconcileNode
      <4>2. loopPc'[l] = IF l[2] = loopGen[l[1]] + 1 THEN "check" ELSE loopPc[l]
        BY ZenonT(30), <1>3, <3>3, ReconcileLoop
      <4> QED
        BY <3>1, <3>2, <4>1, <4>2
    <3>4. CASE ~Starts(l[1])
      BY ZenonT(30), <1>3, <3>1, <3>2, <3>4, ReconcileNode, ReconcileLoop
    <3> QED
      BY ZenonT(30), <3>3, <3>4
  <2>3. ASSUME NEW l \in Loop, loopPc'[l] # "new", ~cancelled'[l] PROVE active'[l[1]] = l
    <3>1. l[1] \in Node /\ l = <<l[1], l[2]>>
      BY ZenonT(30), LoopFacts
    <3>2. CASE Starts(l[1]) /\ l[2] = loopGen[l[1]] + 1
      BY ZenonT(30), <1>3, <3>1, <3>2, ReconcileNode
    <3>3. CASE ~(Starts(l[1]) /\ l[2] = loopGen[l[1]] + 1)
      <4>1. loopPc[l] # "new" /\ ~cancelled[l]
        BY ZenonT(30), <1>3, <2>3, <3>3, ReconcileLoop
      <4>2. active[l[1]] = l
        BY ZenonT(30), <4>1 DEF ConnInv, Controlled
      <4>3. ~Stops(l[1]) /\ ~Restarts(l[1])
        BY ZenonT(30), <1>3, <2>3, <4>2, ReconcileLoop
      <4>4. nodes[l[1]] # NoConn
        BY ZenonT(30), <3>1, <4>2, LoopFacts DEF ConnInv, ActiveOK
      <4>5. ~Starts(l[1])
        BY ZenonT(30), <4>3, <4>4 DEF Starts, Restarts
      <4> QED
        BY ZenonT(30), <1>3, <3>1, <4>2, <4>3, <4>5, ReconcileNode
    <3> QED
      BY ZenonT(30), <3>2, <3>3
  <2> QED
    BY ZenonT(30), <2>1, <2>2, <2>3 DEF StartedOK, Controlled
<1> QED
  BY ZenonT(30), <1>1, <1>2, <1>3, ConnSteps

LEMMA KeepsHeldOK ==
  ASSUME ConnInv, [ConnNext]_connvars PROVE HeldOK'
<1> SUFFICES ASSUME NEW n \in Node, conns'[n] # NoConn
             PROVE  conns'[n][1] = n /\ loopPc'[conns'[n]] \in {"mark", "up", "closing"}
  BY ZenonT(30) DEF HeldOK, RegisteredIsHeld
<1>1. /\ conns \in [Node -> Loop \cup {NoConn}] /\ loopPc \in [Loop -> Places] /\ ConnTypeOK
      /\ conns[n] # NoConn => conns[n][1] = n /\ loopPc[conns[n]] \in {"mark", "up", "closing"}
  BY ZenonT(30) DEF ConnInv, ConnTypeOK, HeldOK, RegisteredIsHeld
<1>2. CASE UNCHANGED <<conns, loopPc>>
  BY ZenonT(30), <1>1, <1>2
<1>3. CASE Reconcile
  <2>1. conns' = conns /\ conns[n] \in Loop
    BY ZenonT(30), <1>1, <1>3 DEF Reconcile
  <2>2. loopPc[conns[n]] # "new"
    BY ZenonT(30), <1>1, <2>1
  <2>3. conns[n][2] <= loopGen[n] /\ loopGen[n] \in Nat
    BY SMTT(30), <1>1, <2>1, <2>2, LoopFacts, HubConnAssumption DEF ConnInv, StartedOK, ConnTypeOK
  <2>4. loopPc'[conns[n]] = loopPc[conns[n]]
    <3>1. conns[n][2] # loopGen[conns[n][1]] + 1
      BY <1>1, <2>1, <2>3, LoopFacts
    <3> QED
      BY ZenonT(30), <1>3, <2>1, <3>1, ReconcileLoop
  <2> QED
    BY ZenonT(30), <1>1, <2>1, <2>4
<1>4. ASSUME NEW l \in Loop, DialLoop(l)
      PROVE  conns'[n][1] = n /\ loopPc'[conns'[n]] \in {"mark", "up", "closing"}
  <2>1. l[1] \in Node
    BY ZenonT(30), LoopFacts
  <2>2. CASE RegisterConn(l)
    BY ZenonT(30), <1>1, <2>1, <2>2, LoopFacts DEF RegisterConn, LoopGoto
  <2>3. CASE UnregisterConn(l)
    <3>1. n = l[1] => conns[n] # l
      BY ZenonT(30), <1>1, <2>1, <2>3 DEF UnregisterConn
    <3>2. conns[n] # l
      BY ZenonT(30), <1>1, <3>1, LoopFacts
    <3>3. conns'[n] = conns[n]
      BY ZenonT(30), <1>1, <2>3, <3>2 DEF UnregisterConn
    <3>4. loopPc'[conns[n]] = loopPc[conns[n]]
      BY ZenonT(30), <1>1, <1>4, <3>2, <3>3, DialFrame
    <3> QED
      BY ZenonT(30), <1>1, <3>3, <3>4
  <2>4. ASSUME ~RegisterConn(l), ~UnregisterConn(l)
        PROVE  /\ conns' = conns
               /\ loopPc[l] \in {"mark", "up", "closing"} => loopPc'[l] \in {"mark", "up", "closing"}
    BY ZenonT(30), <1>1, <1>4, <2>4 DEF DialLoop, Check, DialFail, DialOk, ReadHello, Mark,
       ReadErr, Returned, Wake, LoopGoto
  <2>5. CASE ~RegisterConn(l) /\ ~UnregisterConn(l)
    <3>1. conns'[n] = conns[n]
      BY Zenon, <2>4, <2>5
    <3>2. \A k \in Loop : k # l => loopPc'[k] = loopPc[k]
      BY ZenonT(30), <1>1, <1>4, DialFrame
    <3> QED
      BY ZenonT(30), <1>1, <2>4, <2>5, <3>1, <3>2
  <2> QED
    BY ZenonT(30), <2>2, <2>3, <2>5
<1> QED
  BY ZenonT(30), <1>2, <1>3, <1>4, ConnSteps

LEMMA KeepsFirstOK ==
  ASSUME ConnInv, [ConnNext]_connvars PROVE FirstOK'
<1> SUFFICES ASSUME NEW n \in Node, loopGen'[n] = 1
             PROVE  /\ loopPc'[<<n, 1>>] \in {"mark", "up"} => conns'[n] = <<n, 1>>
                    /\ loopPc'[<<n, 1>>] = "up" => status'[n]
  BY ZenonT(30) DEF FirstOK
<1> DEFINE f == <<n, 1>>
<1>1. /\ conns \in [Node -> Loop \cup {NoConn}] /\ loopPc \in [Loop -> Places] /\ ConnTypeOK
      /\ status \in [Node -> BOOLEAN] /\ f \in Loop /\ f[1] = n /\ f[2] = 1 /\ loopGen[n] \in Nat
  BY SMTT(30), HubConnAssumption DEF ConnInv, ConnTypeOK, Loop
<1>2. loopGen[n] = 1 => /\ loopPc[f] \in {"mark", "up"} => conns[n] = f
                        /\ loopPc[f] = "up" => status[n]
  BY ZenonT(30) DEF ConnInv, FirstOK
<1>3. CASE UNCHANGED <<loopGen, loopPc, conns, status>>
  BY ZenonT(30), <1>2, <1>3
<1>4. CASE Reconcile
  <2>1. conns' = conns /\ status' = status
    BY ZenonT(30), <1>4 DEF Reconcile
  <2>2. CASE Starts(n)
    <3>1. loopGen[n] = 0
      <4>1. loopGen'[n] = loopGen[n] + 1
        BY ZenonT(30), <1>4, <2>2, ReconcileNode
      <4> QED
        BY <1>1, <4>1
    <3>2. loopPc'[f] = "check"
      BY <1>1, <1>4, <2>2, <3>1, ReconcileLoop
    <3> QED
      BY ZenonT(30), <3>2
  <2>3. CASE ~Starts(n)
    <3>1. loopGen[n] = 1 /\ loopPc'[f] = loopPc[f]
      BY ZenonT(30), <1>1, <1>4, <2>3, ReconcileNode, ReconcileLoop
    <3> QED
      BY ZenonT(30), <1>2, <2>1, <3>1
  <2> QED
    BY ZenonT(30), <2>2, <2>3
<1>5. ASSUME NEW l \in Loop, DialLoop(l)
      PROVE  /\ loopPc'[f] \in {"mark", "up"} => conns'[n] = f
             /\ loopPc'[f] = "up" => status'[n]
  <2>1. loopGen[n] = 1
    BY ZenonT(30), <1>1, <1>5, DialFrame
  <2>2. CASE l[1] # n
    BY ZenonT(30), <1>1, <1>2, <1>5, <2>1, <2>2, DialFrame
  <2>3. CASE l[1] = n
    <3>1. loopPc[l] # "new"
      BY ZenonT(30), <1>1, <1>5, DialFrame
    <3>2. ~(l[2] > 1)
      BY ZenonT(30), <2>1, <2>3, <3>1 DEF ConnInv, StartedOK
    <3>3. l = f
      BY <2>3, <3>2, LoopFacts
    <3>4. CASE RegisterConn(f)
      BY ZenonT(30), <1>1, <3>4 DEF RegisterConn, LoopGoto
    <3>5. CASE Mark(f)
      BY ZenonT(30), <1>1, <1>2, <2>1, <3>5 DEF Mark, LoopGoto, SetStatus
    <3>6. ASSUME ~RegisterConn(f), ~Mark(f) PROVE loopPc'[f] \notin {"mark", "up"}
      BY ZenonT(30), <1>1, <1>5, <3>3, <3>6
         DEF DialLoop, Check, DialFail, DialOk, ReadHello, ReadErr, Returned,
         UnregisterConn, Wake, LoopGoto
    <3> QED
      BY ZenonT(30), <3>4, <3>5, <3>6
  <2> QED
    BY ZenonT(30), <2>2, <2>3
<1> QED
  BY ZenonT(30), <1>3, <1>4, <1>5, ConnSteps

LEMMA ConnInvInit == ConnInit => ConnInv
<1> SUFFICES ASSUME ConnInit PROVE ConnInv
  BY ZenonT(30)
<1>1. ConnTypeOK
  BY SMTT(30), HubConnAssumption DEF ConnInit, ConnTypeOK, Places
<1>2. GenOK
  BY HubConnAssumption DEF ConnInit, GenOK, Seen, Acted, One
<1>3. ActiveOK /\ StartedOK /\ Controlled
  BY LoopFacts DEF ConnInit, ActiveOK, StartedOK, Controlled
<1>4. HeldOK /\ FirstOK
  BY DEF ConnInit, HeldOK, RegisteredIsHeld, FirstOK
<1> QED
  BY ZenonT(30), <1>1, <1>2, <1>3, <1>4 DEF ConnInv

\* Dispatchable follows: with one loop started, a settled loop is the first.
LEMMA ConnInvSafe == ConnInv => ConnSafe
<1> SUFFICES ASSUME ConnInv PROVE ConnSafe
  BY ZenonT(30)
<1>1. OneActiveLoop /\ RegisteredIsHeld
  BY ZenonT(30) DEF ConnInv, OneActiveLoop, Controlled, HeldOK
<1>2. ASSUME NEW n \in Node, NEW l \in Loop, Settled(n, l), loopGen[n] = 1
      PROVE  conns[n] = l /\ status[n]
  <2>1. l[1] = n /\ loopPc[l] = "up"
    BY ZenonT(30), <1>2 DEF Settled
  <2>2. ~(l[2] > 1)
    BY ZenonT(30), <1>2, <2>1 DEF ConnInv, StartedOK
  <2>3. l = <<n, 1>>
    BY <2>1, <2>2, LoopFacts
  <2> QED
    BY ZenonT(30), <1>2, <2>1, <2>3 DEF ConnInv, FirstOK
<1> QED
  BY ZenonT(30), <1>1, <1>2 DEF ConnSafe, Dispatchable

\* Every node has one loop that is not cancelled, m.conns keeps no connection
\* that was torn down, and the only connection of a node can be dispatched to,
\* for every number of nodes, edits and faults.
THEOREM ConnectionsStaySafe == ConnSpec => []ConnSafe
<1>1. ConnInv /\ [ConnNext]_connvars => ConnInv'
  BY ZenonT(30), KeepsConnType, KeepsGenOK, KeepsActiveOK, KeepsHeldOK, KeepsFirstOK DEF ConnInv
<1> QED
  BY <1>1, ConnInvInit, ConnInvSafe, PTL DEF ConnSpec

-----------------------------------------------------------------------------
(* The scheduler.                                                          *)

\* What an operator's request holds between reading the clock and writing.
EditInv ==
    edit # None => /\ edit.fields.enabled <=> edit.next # None
                   /\ edit.next # None => edit.next > edit.at
                   /\ edit.at <= clock

\* A copy whose row can still be claimed by this Tick agrees with the row.
CopyInv ==
    \A d \in due : IsDue(d.id, now) /\ ~rows[d.id].late => rows[d.id].target = d.target

\* A row no operator has written since its last run is next due after that run.
RunInv ==
    \A s \in Sched : ran[s] # None =>
        /\ ran[s].gen <= gen[s] /\ ran[s].at <= now
        /\ ran[s].gen = gen[s] /\ rows[s] # None /\ rows[s].next # None
           => rows[s].next > ran[s].at

\* What a claim has established when the job is about to start.
ClaimInv ==
    pc = "start" =>
        LET s == First.id
        IN  /\ claim.late \/ claim.target = First.target
            /\ claim.gen <= gen[s]
            /\ ran[s] # None /\ ran[s].gen = claim.gen => claim.due > ran[s].at
            /\ claim.gen = gen[s] /\ rows[s] # None /\ rows[s].next # None
               => rows[s].next > now

IInv ==
    TypeOK /\ EditInv /\ EnabledIffNext /\ CopyInv /\ RunsWhatTheRowHeld /\ RunInv /\ ClaimInv

-----------------------------------------------------------------------------
\* Counting up one entry of a table of counters, as every write of a row does
\* with its generation, changes that entry only.
LEMMA Above ==
  ASSUME NEW a \in Nat, NEW b \in Nat, a <= b, NEW c, c = b + 1 PROVE a <= c /\ a # c
  OBVIOUS

LEMMA Increment ==
  ASSUME NEW S, NEW f \in [S -> Nat], NEW g, NEW x \in S, g = [f EXCEPT ![x] = f[x] + 1]
  PROVE  /\ g \in [S -> Nat]
         /\ \A y \in S : g[y] = IF y = x THEN f[y] + 1 ELSE f[y]
  OBVIOUS

\* A set of naturals that is not empty has a least element.
LEMMA LeastOf ==
    ASSUME NEW S \in SUBSET Nat, S # {}
    PROVE  \E t \in S : \A u \in S : t <= u
<1>1. \E t \in S : \A u \in S : ~(<<u, t>> \in OpToRel(<, Nat))
  BY NatLessThanWellFounded, WFMin, Zenon
<1>2. PICK t \in S : \A u \in S : ~(<<u, t>> \in OpToRel(<, Nat))
  BY ZenonT(30), <1>1
<1>3. \A u \in S : t <= u
  <2> TAKE u \in S
  <2>1. ~(u < t)
    BY ZenonT(30), <1>2 DEF OpToRel
  <2> QED
    BY <2>1
<1> QED
  BY ZenonT(30), <1>3

\* NextRun answers with an activation strictly later than it was asked about.
LEMMA NextRunLater ==
    ASSUME NEW c \in Cron, NEW a \in Nat
    PROVE  NextRun(c, a) = None \/ (NextRun(c, a) \in Nat /\ NextRun(c, a) > a)
<1> DEFINE coming == {t \in Activations[c] : t > a}
<1>1. CASE coming = {}
  BY ZenonT(30), <1>1 DEF NextRun
<1>2. CASE coming # {}
  <2>1. coming \in SUBSET Nat
    BY ZenonT(30), JobSchedulerAssumption
  <2> HIDE DEF coming
  <2>2. \E t \in coming : \A u \in coming : t <= u
    BY ZenonT(30), <1>2, <2>1, LeastOf
  <2>3. (CHOOSE t \in coming : \A u \in coming : t <= u) \in coming
    BY ZenonT(30), <2>2
  <2>4. NextRun(c, a) \in coming
    BY ZenonT(30), <2>3 DEF NextRun, coming
  <2> QED
    BY ZenonT(30), <2>1, <2>4 DEF coming
<1> QED
  BY ZenonT(30), <1>1, <1>2

\* The row fire works on is one that Tick loaded.
LEMMA FirstLoaded ==
    ASSUME due \subseteq Copies, due # {}
    PROVE  First \in due
<1> DEFINE ids == {d.id : d \in due}
<1>1. ids \in SUBSET Nat /\ ids # {}
  <2>1. \A d \in due : d.id \in Nat
    BY ZenonT(30), JobSchedulerAssumption DEF Copies
  <2>2. PICK d \in due : TRUE
    BY ZenonT(30)
  <2>3. d.id \in ids
    BY ZenonT(30)
  <2> QED
    BY ZenonT(30), <2>1
<1> HIDE DEF ids
<1>2. PICK n \in ids : \A m \in ids : n <= m
  BY ZenonT(30), <1>1, LeastOf
<1>3. PICK d \in due : d.id = n
  BY ZenonT(30) DEF ids
<1>4. \A e \in due : d.id <= e.id
  BY ZenonT(30), <1>2, <1>3 DEF ids
<1> QED
  BY ZenonT(30), <1>4 DEF First

-----------------------------------------------------------------------------
LEMMA InitInv == Init => IInv
<1> SUFFICES ASSUME Init PROVE IInv
  BY ZenonT(30)
<1> USE JobSchedulerAssumption
<1>1. TypeOK
  BY DEF Init, TypeOK, Times
<1> QED
  BY ZenonT(30), <1>1 DEF Init, IInv, EditInv, EnabledIffNext, CopyInv, RunsWhatTheRowHeld,
     RunInv, ClaimInv

\* The bounds' counters stay within the bounds.
LEMMA SpendType ==
    ASSUME TypeOK, NEW what \in {"edits", "crashes", "fails", "late"}, NEW max \in Nat,
           what = "edits" => max = MaxEdits, what = "crashes" => max = MaxCrashes,
           what = "fails" => max = MaxFails, what = "late" => max = MaxLate,
           Spend(what, max)
    PROVE  used' \in [edits : 0 .. MaxEdits, crashes : 0 .. MaxCrashes, fails : 0 .. MaxFails,
                      late : 0 .. MaxLate]
BY DEF TypeOK, Spend

\* What is known of the row fire works on.
LEMMA FirstType ==
    ASSUME TypeOK, due # {}
    PROVE  /\ First \in due /\ First \in Copies
           /\ First.id \in Sched /\ First.target \in Target /\ First.cron \in Cron
           /\ rows[First.id] \in Row \cup {None}
<1>1. First \in due /\ First \in Copies
  BY ZenonT(30), FirstLoaded DEF TypeOK
<1> QED
  BY ZenonT(30), <1>1 DEF TypeOK, Copies

\* What leaves the variables of a conjunct alone leaves the conjunct alone.
LEMMA SameEdit == ASSUME EditInv, UNCHANGED <<edit, clock>> PROVE EditInv'
  BY Zenon DEF EditInv

LEMMA SameNext == ASSUME EnabledIffNext, rows' = rows PROVE EnabledIffNext'
  BY Zenon DEF EnabledIffNext

LEMMA FewerCopies == ASSUME CopyInv, UNCHANGED <<now, rows>>, due' \subseteq due PROVE CopyInv'
  BY Zenon DEF CopyInv, IsDue

LEMMA SameRan == ASSUME RunsWhatTheRowHeld, ran' = ran PROVE RunsWhatTheRowHeld'
  BY Zenon DEF RunsWhatTheRowHeld

LEMMA SameRun == ASSUME RunInv, UNCHANGED <<ran, gen, now, rows>> PROVE RunInv'
  BY Zenon DEF RunInv

LEMMA NoClaim == ASSUME pc' # "start" PROVE ClaimInv'
  BY Zenon DEF ClaimInv

LEMMA SameClaim == ASSUME ClaimInv, UNCHANGED <<pc, due, claim, now, gen, ran, rows>> PROVE ClaimInv'
  BY Zenon DEF ClaimInv, First

\* A later Tick keeps what is known of the runs before it.
LEMMA LaterRun ==
  ASSUME TypeOK, RunInv, UNCHANGED <<ran, gen, rows>>, now' \in Int, now <= now' PROVE RunInv'
<1>1. \A s \in Sched : ran[s] # None => ran[s].at \in Int
  BY DEF TypeOK, Ran, Times
<1>2. now \in Int
  BY DEF TypeOK, Times
<1>3. \A s \in Sched : ran[s] # None => ran[s].at <= now
  BY Zenon DEF RunInv
<1>4. \A s \in Sched : ran[s] # None => ran[s].at <= now'
  BY <1>1, <1>2, <1>3
<1> QED
  BY Zenon, <1>4 DEF RunInv

LEMMA StepAdvance == ASSUME IInv, Advance PROVE IInv'
<1>0. TypeOK /\ EditInv /\ EnabledIffNext /\ CopyInv /\ RunsWhatTheRowHeld /\ RunInv /\ ClaimInv
  BY Zenon DEF IInv
<1>a. UNCHANGED <<rows, edit, now, due, pc, claim, ran, gen, used>>
  BY Zenon DEF Advance, tick
<1>b. clock \in Nat /\ now \in 0 .. clock /\ clock' = clock + 1 /\ clock' \in Times
  BY <1>0, JobSchedulerAssumption DEF TypeOK, Times, Advance
<1>1. TypeOK'
  <2>1. now \in 0 .. clock'
    BY <1>b
  <2> QED
    BY ZenonT(30), <1>0, <1>a, <1>b, <2>1 DEF TypeOK
<1>2. EditInv'
  <2>1. edit # None => edit.at \in Int
    BY <1>0 DEF TypeOK, Edits, Times
  <2>2. edit # None => edit.at <= clock'
    BY <1>0, <1>b, <2>1 DEF EditInv
  <2> QED
    BY Zenon, <1>0, <1>a, <2>2 DEF EditInv
<1>3. EnabledIffNext'
  BY Zenon, <1>0, <1>a, SameNext
<1>4. CopyInv'
  BY Zenon, <1>0, <1>a, FewerCopies
<1>5. RunsWhatTheRowHeld'
  BY Zenon, <1>0, <1>a, SameRan
<1>6. RunInv'
  BY Zenon, <1>0, <1>a, SameRun
<1>7. ClaimInv'
  BY Zenon, <1>0, <1>a, SameClaim
<1> QED
  BY Zenon, <1>1, <1>2, <1>3, <1>4, <1>5, <1>6, <1>7 DEF IInv

LEMMA StepSubmit == ASSUME NEW s \in Sched, NEW f \in Fields, IInv, Submit(s, f) PROVE IInv'
<1>0. TypeOK /\ EditInv /\ EnabledIffNext /\ CopyInv /\ RunsWhatTheRowHeld /\ RunInv /\ ClaimInv
  BY Zenon DEF IInv
<1>a. UNCHANGED <<clock, rows, now, due, pc, claim, ran, gen>>
  BY Zenon DEF Submit, tick
<1>b. clock \in Nat /\ clock \in Times /\ f.cron \in Cron
  BY <1>0 DEF TypeOK, Times, Fields
<1>c. NextRun(f.cron, clock) = None \/ (NextRun(f.cron, clock) \in Nat /\ NextRun(f.cron, clock) > clock)
  BY ZenonT(30), <1>b, NextRunLater
<1>1. TypeOK'
  <2>1. edit' \in Edits
    BY ZenonT(30), <1>b, <1>c DEF Submit, Edits
  <2>2. used' \in [edits : 0 .. MaxEdits, crashes : 0 .. MaxCrashes, fails : 0 .. MaxFails,
                   late : 0 .. MaxLate]
    <3>1. MaxEdits \in Nat /\ Spend("edits", MaxEdits)
      BY ZenonT(30), JobSchedulerAssumption DEF Submit
    <3> QED
      BY ZenonT(30), <1>0, <3>1, SpendType
  <2> QED
    BY ZenonT(30), <1>0, <1>a, <2>1, <2>2 DEF TypeOK
<1>2. EditInv'
  <2>1. /\ edit'.fields = f /\ edit'.at = clock
        /\ edit'.next = IF f.enabled THEN NextRun(f.cron, clock) ELSE None
        /\ f.enabled => NextRun(f.cron, clock) # None
    BY ZenonT(30) DEF Submit
  <2>3. edit'.fields.enabled <=> edit'.next # None
    BY Zenon, <2>1
  <2>4. edit'.next # None => edit'.next > edit'.at
    BY Zenon, <1>c, <2>1
  <2>5. edit'.at <= clock'
    BY <1>a, <1>b, <2>1
  <2> QED
    BY Zenon, <2>3, <2>4, <2>5 DEF EditInv
<1>3. EnabledIffNext'
  BY Zenon, <1>0, <1>a, SameNext
<1>4. CopyInv'
  BY Zenon, <1>0, <1>a, FewerCopies
<1>5. RunsWhatTheRowHeld'
  BY Zenon, <1>0, <1>a, SameRan
<1>6. RunInv'
  BY Zenon, <1>0, <1>a, SameRun
<1>7. ClaimInv'
  BY Zenon, <1>0, <1>a, SameClaim
<1> QED
  BY Zenon, <1>1, <1>2, <1>3, <1>4, <1>5, <1>6, <1>7 DEF IInv

LEMMA StepWrite == ASSUME IInv, Write PROVE IInv'
<1>0. TypeOK /\ EditInv /\ EnabledIffNext /\ CopyInv /\ RunsWhatTheRowHeld /\ RunInv /\ ClaimInv
  BY Zenon DEF IInv
<1>s. PICK s : s = edit.id
  BY ZenonT(30)
<1> DEFINE new == [enabled |-> edit.fields.enabled, target |-> edit.fields.target,
                   cron |-> edit.fields.cron, next |-> edit.next,
                   err |-> IF edit.create THEN FALSE ELSE rows[s].err, late |-> clock > edit.at]
<1>a. /\ edit # None /\ s \in Sched /\ edit.fields \in Fields
      /\ edit.at \in Nat /\ edit.next \in Nat \cup {None}
  BY <1>0, <1>s DEF Write, TypeOK, Edits, Times
<1>b. UNCHANGED <<clock, now, due, pc, claim, ran, used>> /\ edit' = None
  BY Zenon DEF Write, tick
<1>c. \/ rows' = rows
      \/ (edit.create \/ rows[s] # None) /\ rows' = [rows EXCEPT ![s] = new]
  BY Zenon, <1>s DEF Write
<1>d. /\ rows \in [Sched -> Row \cup {None}] /\ gen \in [Sched -> Nat]
      /\ ran \in [Sched -> Ran \cup {None}]
  BY Zenon, <1>0 DEF TypeOK
<1>e. /\ edit.fields.enabled <=> edit.next # None
      /\ edit.next # None => edit.next > edit.at
      /\ edit.at <= clock
  BY Zenon, <1>0, <1>a DEF EditInv
<1>f. \A x \in Sched : rows'[x] = rows[x] \/ (x = s /\ rows'[x] = new)
  <2> HIDE DEF new
  <2> QED
    BY ZenonT(30), <1>c, <1>d
<1>g. gen' \in [Sched -> Nat] /\ \A x \in Sched : gen'[x] = IF x = s THEN gen[x] + 1 ELSE gen[x]
  BY <1>a, <1>d, <1>s, Increment DEF Write
<1>h. new.next = edit.next /\ (new.enabled <=> edit.fields.enabled) /\ (new.late <=> clock > edit.at)
  BY Zenon
<1>1. TypeOK'
  <2>1. edit.create \/ rows[s] # None => new \in Row
    <3>1. (clock > edit.at) \in BOOLEAN
      OBVIOUS
    <3>2. edit.create \/ rows[s] # None
          => (IF edit.create THEN FALSE ELSE rows[s].err) \in BOOLEAN
      BY ZenonT(30), <1>a, <1>d DEF Row
    <3> QED
      BY ZenonT(30), <1>a, <3>1, <3>2 DEF Row, Fields
  <2> HIDE DEF new
  <2>2. rows' \in [Sched -> Row \cup {None}]
    BY ZenonT(30), <1>c, <1>d, <2>1
  <2> QED
    BY ZenonT(30), <1>0, <1>b, <1>g, <2>2 DEF TypeOK
<1> HIDE DEF new
<1>2. EditInv'
  BY Zenon, <1>b DEF EditInv
<1>3. EnabledIffNext'
  BY ZenonT(30), <1>0, <1>e, <1>f, <1>h DEF EnabledIffNext
<1>4. CopyInv'
  <2> SUFFICES ASSUME NEW d \in due, IsDue(d.id, now)', ~rows'[d.id].late
               PROVE  rows'[d.id].target = d.target
    BY Zenon, <1>b DEF CopyInv
  <2>1. d.id \in Sched
    BY ZenonT(30), <1>0 DEF TypeOK, Copies
  <2>2. CASE rows'[d.id] = rows[d.id]
    BY ZenonT(30), <1>0, <1>b, <2>2 DEF CopyInv, IsDue
  <2>3. CASE d.id = s /\ rows'[d.id] = new
    <3>1. ~(clock > edit.at)
      BY Zenon, <1>h, <2>3
    <3>2. edit.next # None /\ edit.next <= now
      BY Zenon, <1>b, <1>h, <2>3 DEF IsDue
    <3>3. clock \in Nat /\ now \in Nat /\ now <= clock
      BY <1>0 DEF TypeOK, Times
    <3> QED
      BY <1>a, <1>e, <3>1, <3>2, <3>3
  <2> QED
    BY ZenonT(30), <1>f, <2>1, <2>2, <2>3
<1>5. RunsWhatTheRowHeld'
  BY Zenon, <1>0, <1>b, SameRan
<1>6. RunInv'
  <2> SUFFICES ASSUME NEW x \in Sched, ran[x] # None
               PROVE  /\ ran[x].gen <= gen'[x] /\ ran[x].at <= now
                      /\ ran[x].gen = gen'[x] /\ rows'[x] # None /\ rows'[x].next # None
                         => rows'[x].next > ran[x].at
    BY ZenonT(30), <1>b DEF RunInv
  <2>1. ran[x].gen \in Nat /\ gen[x] \in Nat
    BY ZenonT(30), <1>d DEF Ran
  <2>2. /\ ran[x].gen <= gen[x] /\ ran[x].at <= now
        /\ ran[x].gen = gen[x] /\ rows[x] # None /\ rows[x].next # None
           => rows[x].next > ran[x].at
    BY Zenon, <1>0 DEF RunInv
  <2>3. CASE x = s
    <3>1. gen'[x] = gen[x] + 1
      BY Zenon, <1>g, <2>3
    <3>2. ran[x].gen <= gen'[x] /\ ran[x].gen # gen'[x]
      BY Zenon, <2>1, <2>2, <3>1, Above
    <3> QED
      BY Zenon, <2>2, <3>2
  <2>4. CASE x # s
    BY ZenonT(30), <1>f, <1>g, <2>2, <2>4
  <2> QED
    BY Zenon, <2>3, <2>4
<1>7. ClaimInv'
  <2> SUFFICES ASSUME pc = "start"
               PROVE  LET x == First.id
                      IN  /\ claim.late \/ claim.target = First.target
                          /\ claim.gen <= gen'[x]
                          /\ ran[x] # None /\ ran[x].gen = claim.gen => claim.due > ran[x].at
                          /\ claim.gen = gen'[x] /\ rows'[x] # None /\ rows'[x].next # None
                             => rows'[x].next > now
    BY ZenonT(30), <1>b DEF ClaimInv, First
  <2>1. First.id \in Sched
    BY ZenonT(30), <1>0, FirstType DEF TypeOK
  <2>2. claim.gen \in Nat /\ gen[First.id] \in Nat
    BY ZenonT(30), <1>0, <2>1 DEF TypeOK, Claims
  <2>3. /\ claim.late \/ claim.target = First.target
        /\ claim.gen <= gen[First.id]
        /\ ran[First.id] # None /\ ran[First.id].gen = claim.gen => claim.due > ran[First.id].at
        /\ claim.gen = gen[First.id] /\ rows[First.id] # None /\ rows[First.id].next # None
           => rows[First.id].next > now
    BY ZenonT(30), <1>0 DEF ClaimInv
  <2>4. CASE First.id = s
    <3>1. gen'[First.id] = gen[First.id] + 1
      BY Zenon, <1>g, <2>1, <2>4
    <3>2. claim.gen <= gen'[First.id] /\ claim.gen # gen'[First.id]
      BY Zenon, <2>2, <2>3, <3>1, Above
    <3> QED
      BY ZenonT(30), <2>3, <3>2
  <2>5. CASE First.id # s
    BY ZenonT(30), <1>f, <1>g, <2>1, <2>3, <2>5
  <2> QED
    BY Zenon, <2>4, <2>5
<1> QED
  BY Zenon, <1>1, <1>2, <1>3, <1>4, <1>5, <1>6, <1>7 DEF IInv

LEMMA StepDelete == ASSUME NEW s \in Sched, IInv, Delete(s) PROVE IInv'
<1>0. TypeOK /\ EditInv /\ EnabledIffNext /\ CopyInv /\ RunsWhatTheRowHeld /\ RunInv /\ ClaimInv
  BY Zenon DEF IInv
<1>a. UNCHANGED <<clock, edit, now, due, pc, claim, ran>>
  BY Zenon DEF Delete, tick
<1>b. rows \in [Sched -> Row \cup {None}] /\ gen \in [Sched -> Nat]
  BY Zenon, <1>0 DEF TypeOK
<1>c. /\ rows' \in [Sched -> Row \cup {None}]
      /\ \A x \in Sched : rows'[x] = IF x = s THEN None ELSE rows[x]
  BY ZenonT(30), <1>b DEF Delete
<1>d. gen' \in [Sched -> Nat] /\ \A x \in Sched : gen'[x] = IF x = s THEN gen[x] + 1 ELSE gen[x]
  BY <1>b, Increment DEF Delete
<1>1. TypeOK'
  <2>1. used' \in [edits : 0 .. MaxEdits, crashes : 0 .. MaxCrashes, fails : 0 .. MaxFails,
                   late : 0 .. MaxLate]
    <3>1. MaxEdits \in Nat /\ Spend("edits", MaxEdits)
      BY ZenonT(30), JobSchedulerAssumption DEF Delete
    <3> QED
      BY ZenonT(30), <1>0, <3>1, SpendType
  <2> QED
    BY ZenonT(30), <1>0, <1>a, <1>c, <1>d, <2>1 DEF TypeOK
<1>2. EditInv'
  BY Zenon, <1>0, <1>a, SameEdit
<1>3. EnabledIffNext'
  BY ZenonT(30), <1>0, <1>c DEF EnabledIffNext
<1>4. CopyInv'
  <2>1. \A d \in due : d.id \in Sched
    BY ZenonT(30), <1>0 DEF TypeOK, Copies
  <2> QED
    BY ZenonT(30), <1>0, <1>a, <1>c, <2>1 DEF CopyInv, IsDue
<1>5. RunsWhatTheRowHeld'
  BY Zenon, <1>0, <1>a, SameRan
<1>6. RunInv'
  <2> SUFFICES ASSUME NEW x \in Sched, ran[x] # None
               PROVE  /\ ran[x].gen <= gen'[x] /\ ran[x].at <= now
                      /\ ran[x].gen = gen'[x] /\ rows'[x] # None /\ rows'[x].next # None
                         => rows'[x].next > ran[x].at
    BY ZenonT(30), <1>a DEF RunInv
  <2>1. ran[x].gen \in Nat /\ gen[x] \in Nat
    BY ZenonT(30), <1>0, <1>b DEF TypeOK, Ran
  <2>2. /\ ran[x].gen <= gen[x] /\ ran[x].at <= now
        /\ ran[x].gen = gen[x] /\ rows[x] # None /\ rows[x].next # None
           => rows[x].next > ran[x].at
    BY Zenon, <1>0 DEF RunInv
  <2>3. ran[x].gen <= gen'[x]
    BY <1>d, <2>1, <2>2
  <2> QED
    BY ZenonT(30), <1>c, <1>d, <2>2, <2>3
<1>7. ClaimInv'
  <2> SUFFICES ASSUME pc = "start"
               PROVE  LET x == First.id
                      IN  /\ claim.late \/ claim.target = First.target
                          /\ claim.gen <= gen'[x]
                          /\ ran[x] # None /\ ran[x].gen = claim.gen => claim.due > ran[x].at
                          /\ claim.gen = gen'[x] /\ rows'[x] # None /\ rows'[x].next # None
                             => rows'[x].next > now
    BY ZenonT(30), <1>a DEF ClaimInv, First
  <2>1. First.id \in Sched
    BY ZenonT(30), <1>0, FirstType DEF TypeOK
  <2>2. claim.gen \in Nat /\ gen[First.id] \in Nat
    BY ZenonT(30), <1>0, <2>1 DEF TypeOK, Claims
  <2>3. /\ claim.late \/ claim.target = First.target
        /\ claim.gen <= gen[First.id]
        /\ ran[First.id] # None /\ ran[First.id].gen = claim.gen => claim.due > ran[First.id].at
        /\ claim.gen = gen[First.id] /\ rows[First.id] # None /\ rows[First.id].next # None
           => rows[First.id].next > now
    BY ZenonT(30), <1>0 DEF ClaimInv
  <2>4. claim.gen <= gen'[First.id]
    BY <1>d, <2>1, <2>2, <2>3
  <2> QED
    BY ZenonT(30), <1>c, <1>d, <2>1, <2>3, <2>4
<1> QED
  BY Zenon, <1>1, <1>2, <1>3, <1>4, <1>5, <1>6, <1>7 DEF IInv

\* A Tick of any time from the last one up to the clock.
LEMMA TickKeeps ==
  ASSUME IInv, NEW t \in 0 .. clock, t \in Int, now <= t, Tick(t),
         used' \in [edits : 0 .. MaxEdits, crashes : 0 .. MaxCrashes, fails : 0 .. MaxFails,
                    late : 0 .. MaxLate]
  PROVE  IInv'
<1>0. TypeOK /\ EditInv /\ EnabledIffNext /\ CopyInv /\ RunsWhatTheRowHeld /\ RunInv /\ ClaimInv
  BY Zenon DEF IInv
<1>a. UNCHANGED <<clock, rows, edit, claim, ran, gen>> /\ now' = t /\ pc' = "fire"
  BY Zenon DEF Tick
<1>b. \A d \in due' : \E x \in Sched : rows[x] # None /\ d = Loaded(x)
  BY Zenon DEF Tick, IsDue
<1>1. TypeOK'
  <2>1. \A x \in Sched : rows[x] # None => Loaded(x) \in Copies
    BY ZenonT(30), <1>0 DEF TypeOK, Row, Loaded, Copies
  <2>2. due' \subseteq Copies
    BY Zenon, <1>b, <2>1
  <2>3. now' \in 0 .. clock'
    BY Zenon, <1>a
  <2>4. pc' \in {"idle", "fire", "start", "record"} /\ pc' \notin {"start", "record"}
    BY ZenonT(30), <1>a
  <2> QED
    BY ZenonT(30), <1>0, <1>a, <2>2, <2>3, <2>4 DEF TypeOK
<1>2. EditInv'
  BY Zenon, <1>0, <1>a, SameEdit
<1>3. EnabledIffNext'
  BY Zenon, <1>0, <1>a, SameNext
<1>4. CopyInv'
  <2> SUFFICES ASSUME NEW d \in due' PROVE rows'[d.id].target = d.target
    BY Zenon DEF CopyInv
  <2>1. PICK x \in Sched : d = Loaded(x)
    BY Zenon, <1>b
  <2>2. d.id = x /\ d.target = rows[x].target
    BY ZenonT(30), <2>1 DEF Loaded
  <2> QED
    BY Zenon, <1>a, <2>2
<1>5. RunsWhatTheRowHeld'
  BY Zenon, <1>0, <1>a, SameRan
<1>6. RunInv'
  BY Zenon, <1>0, <1>a, LaterRun
<1>7. ClaimInv'
  BY Zenon, <1>a, NoClaim
<1> QED
  BY Zenon, <1>1, <1>2, <1>3, <1>4, <1>5, <1>6, <1>7 DEF IInv

LEMMA StepTickNow == ASSUME IInv, TickNow PROVE IInv'
<1>0. TypeOK /\ EditInv /\ EnabledIffNext /\ CopyInv /\ RunsWhatTheRowHeld /\ RunInv /\ ClaimInv
  BY Zenon DEF IInv
<1>b. now \in 0 .. clock /\ clock \in Nat
  BY <1>0 DEF TypeOK, Times
<1>c. clock \in 0 .. clock /\ now <= clock /\ clock \in Int /\ Tick(clock)
  BY <1>b DEF TickNow
<1>d. used' \in [edits : 0 .. MaxEdits, crashes : 0 .. MaxCrashes, fails : 0 .. MaxFails,
                 late : 0 .. MaxLate]
  BY Zenon, <1>0 DEF TypeOK, TickNow
<1> QED
  BY Zenon, <1>c, <1>d, TickKeeps

LEMMA StepTickLate == ASSUME IInv, TickLate PROVE IInv'
<1>0. TypeOK /\ EditInv /\ EnabledIffNext /\ CopyInv /\ RunsWhatTheRowHeld /\ RunInv /\ ClaimInv
  BY Zenon DEF IInv
<1>a. PICK t \in now .. clock - 1 : Tick(t) /\ Spend("late", MaxLate)
  BY Zenon DEF TickLate
<1>b. now \in 0 .. clock /\ clock \in Nat
  BY <1>0 DEF TypeOK, Times
<1>c. t \in 0 .. clock /\ now <= t /\ t \in Int /\ Tick(t)
  BY <1>a, <1>b
<1>d. used' \in [edits : 0 .. MaxEdits, crashes : 0 .. MaxCrashes, fails : 0 .. MaxFails,
                 late : 0 .. MaxLate]
  <2>1. MaxLate \in Nat
    BY ZenonT(30), JobSchedulerAssumption
  <2> QED
    BY ZenonT(30), <1>0, <1>a, <2>1, SpendType
<1> QED
  BY Zenon, <1>c, <1>d, TickKeeps

LEMMA StepTickDone == ASSUME IInv, TickDone PROVE IInv'
<1>0. TypeOK /\ EditInv /\ EnabledIffNext /\ CopyInv /\ RunsWhatTheRowHeld /\ RunInv /\ ClaimInv
  BY Zenon DEF IInv
<1>a. UNCHANGED <<clock, rows, edit, now, due, claim, ran, gen, used>> /\ pc' = "idle" /\ due' \subseteq due
      /\ pc' # "start"
  BY Zenon DEF TickDone
<1>1. TypeOK'
  <2>1. pc' \in {"idle", "fire", "start", "record"} /\ pc' \notin {"start", "record"}
    BY ZenonT(30), <1>a
  <2> QED
    BY ZenonT(30), <1>0, <1>a, <2>1 DEF TypeOK
<1>2. EditInv'
  BY Zenon, <1>0, <1>a, SameEdit
<1>3. EnabledIffNext'
  BY Zenon, <1>0, <1>a, SameNext
<1>4. CopyInv'
  BY Zenon, <1>0, <1>a, FewerCopies
<1>5. RunsWhatTheRowHeld'
  BY Zenon, <1>0, <1>a, SameRan
<1>6. RunInv'
  BY Zenon, <1>0, <1>a, SameRun
<1>7. ClaimInv'
  BY Zenon, <1>0, <1>a, NoClaim
<1> QED
  BY Zenon, <1>1, <1>2, <1>3, <1>4, <1>5, <1>6, <1>7 DEF IInv

LEMMA StepDisable == ASSUME IInv, Disable PROVE IInv'
<1>0. TypeOK /\ EditInv /\ EnabledIffNext /\ CopyInv /\ RunsWhatTheRowHeld /\ RunInv /\ ClaimInv
  BY Zenon DEF IInv
<1>a. UNCHANGED <<clock, edit, now, pc, claim, ran, gen, used>> /\ due' \subseteq due /\ pc' # "start"
      /\ pc' \notin {"start", "record"} /\ due # {}
  BY ZenonT(30) DEF Disable
<1>b. First.id \in Sched /\ rows \in [Sched -> Row \cup {None}] /\ due \subseteq Copies
  BY Zenon, <1>0, <1>a, FirstType DEF TypeOK
<1>c. \/ rows' = rows
      \/ /\ rows[First.id] # None
         /\ rows' = [rows EXCEPT ![First.id].enabled = FALSE, ![First.id].err = TRUE,
                                 ![First.id].next = None]
  BY Zenon DEF Disable
<1>d. \A x \in Sched : \/ rows'[x] = rows[x]
                       \/ rows'[x] \in Row /\ ~rows'[x].enabled /\ rows'[x].next = None
  <2> SUFFICES ASSUME NEW x \in Sched, rows'[x] # rows[x]
               PROVE  rows'[x] \in Row /\ ~rows'[x].enabled /\ rows'[x].next = None
    BY Zenon
  <2> DEFINE r == rows[x]
  <2>1. x = First.id
    BY ZenonT(30), <1>b, <1>c
  <2>2. r \in Row /\ rows'[x] = [[[r EXCEPT !.enabled = FALSE] EXCEPT !.err = TRUE] EXCEPT !.next = None]
    BY ZenonT(30), <1>b, <1>c, <2>1
  <2> HIDE DEF r
  <2> QED
    BY ZenonT(30), <2>2 DEF Row
<1>1. TypeOK'
  <2>1. rows' \in [Sched -> Row \cup {None}]
    <3>1. DOMAIN rows' = Sched /\ rows' = [x \in Sched |-> rows'[x]]
      BY ZenonT(30), <1>b, <1>c
    <3>2. \A x \in Sched : rows'[x] \in Row \cup {None}
      BY ZenonT(30), <1>b, <1>d
    <3> QED
      BY Zenon, <3>1, <3>2
  <2>2. due' \subseteq Copies
    BY Zenon, <1>a, <1>b
  <2> QED
    BY ZenonT(30), <1>0, <1>a, <2>1, <2>2 DEF TypeOK
<1>2. EditInv'
  BY Zenon, <1>0, <1>a, SameEdit
<1>3. EnabledIffNext'
  BY ZenonT(30), <1>0, <1>d DEF EnabledIffNext
<1>4. CopyInv'
  <2>1. \A d \in due : d.id \in Sched
    BY ZenonT(30), <1>b DEF Copies
  <2> QED
    BY ZenonT(30), <1>0, <1>a, <1>d, <2>1 DEF CopyInv, IsDue
<1>5. RunsWhatTheRowHeld'
  BY Zenon, <1>0, <1>a, SameRan
<1>6. RunInv'
  BY ZenonT(30), <1>0, <1>a, <1>d DEF RunInv
<1>7. ClaimInv'
  BY Zenon, <1>a, NoClaim
<1> QED
  BY Zenon, <1>1, <1>2, <1>3, <1>4, <1>5, <1>6, <1>7 DEF IInv

LEMMA StepClaim == ASSUME IInv, Claim PROVE IInv'
<1>0. TypeOK /\ EditInv /\ EnabledIffNext /\ CopyInv /\ RunsWhatTheRowHeld /\ RunInv /\ ClaimInv
  BY Zenon DEF IInv
<1>s. PICK s, next : s = First.id /\ next = NextRun(First.cron, now)
  BY Zenon
<1>a. First \in due /\ First.cron \in Cron /\ s \in Sched /\ due # {}
  <2>1. due # {}
    BY Zenon DEF Claim
  <2> QED
    BY Zenon, <1>0, <1>s, <2>1, FirstType
<1>b. UNCHANGED <<clock, edit, now, ran, gen, used>> /\ pc = "fire"
  BY Zenon DEF Claim
<1>c. now \in Nat /\ next \in Nat /\ next > now
  <2>1. now \in Nat
    BY <1>0 DEF TypeOK, Times
  <2>2. next # None
    BY Zenon, <1>s DEF Claim
  <2> QED
    BY Zenon, <1>a, <1>s, <2>1, <2>2, NextRunLater
<1>d. /\ rows \in [Sched -> Row \cup {None}] /\ gen \in [Sched -> Nat]
      /\ ran \in [Sched -> Ran \cup {None}] /\ due \subseteq Copies
  BY Zenon, <1>0 DEF TypeOK
<1>e. \/ /\ IsDue(s, now) /\ due' = due /\ pc' = "start"
         /\ rows' = [rows EXCEPT ![s].next = next, ![s].err = FALSE]
         /\ claim' = [due |-> rows[s].next, target |-> rows[s].target, late |-> rows[s].late,
                      gen |-> gen[s]]
      \/ due' = due \ {First} /\ rows' = rows /\ claim' = claim /\ pc' = pc
  BY Zenon, <1>s DEF Claim
<1>f. CASE due' = due \ {First} /\ rows' = rows /\ claim' = claim /\ pc' = pc
  <2>1. due' \subseteq due /\ pc' # "start" /\ pc' \notin {"start", "record"}
    BY ZenonT(30), <1>b, <1>f
  <2>2. TypeOK'
    BY ZenonT(30), <1>0, <1>b, <1>f, <2>1 DEF TypeOK
  <2> QED
    BY Zenon, <1>0, <1>b, <1>f, <2>1, <2>2, SameEdit, SameNext, FewerCopies, SameRan, SameRun,
       NoClaim DEF IInv
<1>g. CASE /\ IsDue(s, now) /\ due' = due /\ pc' = "start"
           /\ rows' = [rows EXCEPT ![s].next = next, ![s].err = FALSE]
           /\ claim' = [due |-> rows[s].next, target |-> rows[s].target, late |-> rows[s].late,
                        gen |-> gen[s]]
  <2>a. rows[s] \in Row /\ rows[s].next \in Nat /\ rows[s].next <= now /\ rows[s].enabled
    BY ZenonT(30), <1>a, <1>d, <1>g DEF IsDue, Row
  <2>b. /\ rows'[s] \in Row /\ rows'[s].next = next /\ (rows'[s].enabled <=> rows[s].enabled)
        /\ \A x \in Sched : x # s => rows'[x] = rows[x]
    <3> DEFINE r == rows[s]
    <3>1. r \in Row /\ rows'[s] = [[r EXCEPT !.next = next] EXCEPT !.err = FALSE]
      BY ZenonT(30), <1>a, <1>d, <1>g, <2>a
    <3>2. \A x \in Sched : x # s => rows'[x] = rows[x]
      BY ZenonT(30), <1>d, <1>g
    <3> HIDE DEF r
    <3>3. rows'[s] \in Row /\ rows'[s].next = next /\ (rows'[s].enabled <=> r.enabled)
      BY ZenonT(30), <1>c, <3>1 DEF Row
    <3> QED
      BY Zenon, <3>2, <3>3 DEF r
  <2>c. /\ claim' \in Claims /\ claim'.due = rows[s].next /\ claim'.target = rows[s].target
        /\ claim'.late = rows[s].late /\ claim'.gen = gen[s]
    <3>1. rows[s].target \in Target /\ rows[s].late \in BOOLEAN /\ gen[s] \in Nat
      BY Zenon, <1>a, <1>d, <2>a DEF Row
    <3> QED
      BY ZenonT(30), <1>g, <2>a, <3>1 DEF Claims
  <2>1. TypeOK'
    <3>1. rows' \in [Sched -> Row \cup {None}]
      <4>1. DOMAIN rows' = Sched /\ rows' = [x \in Sched |-> rows'[x]]
        BY ZenonT(30), <1>d, <1>g
      <4>2. \A x \in Sched : rows'[x] \in Row \cup {None}
        BY ZenonT(30), <1>d, <2>b
      <4> QED
        BY Zenon, <4>1, <4>2
    <3>2. pc' \in {"idle", "fire", "start", "record"}
      BY ZenonT(30), <1>g
    <3> QED
      BY ZenonT(30), <1>0, <1>a, <1>b, <1>g, <2>c, <3>1, <3>2 DEF TypeOK
  <2>2. EditInv'
    BY Zenon, <1>0, <1>b, SameEdit
  <2>3. EnabledIffNext'
    <3>1. next # None
      BY ZenonT(30), <1>c, JobSchedulerAssumption
    <3> QED
      BY ZenonT(30), <1>0, <2>a, <2>b, <3>1 DEF EnabledIffNext
  <2>4. CopyInv'
    <3> SUFFICES ASSUME NEW d \in due, IsDue(d.id, now)', ~rows'[d.id].late
                 PROVE  rows'[d.id].target = d.target
      BY Zenon, <1>g DEF CopyInv
    <3>1. d.id \in Sched
      BY ZenonT(30), <1>d DEF Copies
    <3>2. d.id # s
      <4>1. ~(next <= now)
        BY <1>c
      <4>2. rows'[d.id].next <= now
        BY Zenon, <1>b DEF IsDue
      <4> QED
        BY Zenon, <2>b, <4>1, <4>2
    <3>3. rows'[d.id] = rows[d.id]
      BY Zenon, <2>b, <3>1, <3>2
    <3> QED
      BY Zenon, <1>0, <1>b, <3>3 DEF CopyInv, IsDue
  <2>5. RunsWhatTheRowHeld'
    BY Zenon, <1>0, <1>b, SameRan
  <2>6. RunInv'
    <3>1. ran[s] # None => ran[s].at \in Int /\ ran[s].at <= now
      BY <1>0, <1>a, <1>d DEF RunInv, Ran, Times
    <3>2. ran[s] # None => next > ran[s].at
      BY <1>c, <3>1
    <3> QED
      BY ZenonT(30), <1>0, <1>b, <2>b, <3>2 DEF RunInv
  <2>7. ClaimInv'
    <3>1. First' = First
      BY Zenon, <1>g DEF First
    <3>2. claim'.late \/ claim'.target = First.target
      BY ZenonT(30), <1>0, <1>a, <1>g, <1>s, <2>c DEF CopyInv
    <3>3. ran[s] # None /\ ran[s].gen = gen[s] => rows[s].next > ran[s].at
      BY ZenonT(30), <1>0, <1>a, <1>g DEF RunInv, IsDue
    <3>4. gen[s] \in Nat /\ gen[s] <= gen[s]
      BY <1>a, <1>d
    <3> QED
      BY ZenonT(30), <1>b, <1>c, <1>s, <2>b, <2>c, <3>1, <3>2, <3>3, <3>4 DEF ClaimInv
  <2> QED
    BY Zenon, <2>1, <2>2, <2>3, <2>4, <2>5, <2>6, <2>7 DEF IInv
<1> QED
  BY Zenon, <1>e, <1>f, <1>g

LEMMA StepClaimError == ASSUME IInv, ClaimError PROVE IInv'
<1>0. TypeOK /\ EditInv /\ EnabledIffNext /\ CopyInv /\ RunsWhatTheRowHeld /\ RunInv /\ ClaimInv
  BY Zenon DEF IInv
<1>a. UNCHANGED <<clock, rows, edit, now, pc, claim, ran, gen>> /\ due' \subseteq due /\ pc = "fire"
      /\ pc' # "start"
  BY Zenon DEF ClaimError
<1>1. TypeOK'
  <2>1. used' \in [edits : 0 .. MaxEdits, crashes : 0 .. MaxCrashes, fails : 0 .. MaxFails,
                   late : 0 .. MaxLate]
    <3>1. MaxFails \in Nat /\ Spend("fails", MaxFails)
      BY ZenonT(30), JobSchedulerAssumption DEF ClaimError
    <3> QED
      BY ZenonT(30), <1>0, <3>1, SpendType
  <2>2. pc' \notin {"start", "record"}
    BY ZenonT(30), <1>a
  <2> QED
    BY ZenonT(30), <1>0, <1>a, <2>1, <2>2 DEF TypeOK
<1>2. EditInv'
  BY Zenon, <1>0, <1>a, SameEdit
<1>3. EnabledIffNext'
  BY Zenon, <1>0, <1>a, SameNext
<1>4. CopyInv'
  BY Zenon, <1>0, <1>a, FewerCopies
<1>5. RunsWhatTheRowHeld'
  BY Zenon, <1>0, <1>a, SameRan
<1>6. RunInv'
  BY Zenon, <1>0, <1>a, SameRun
<1>7. ClaimInv'
  BY Zenon, <1>0, <1>a, NoClaim
<1> QED
  BY Zenon, <1>1, <1>2, <1>3, <1>4, <1>5, <1>6, <1>7 DEF IInv

LEMMA StepStart == ASSUME IInv, Start PROVE IInv'
<1>0. TypeOK /\ EditInv /\ EnabledIffNext /\ CopyInv /\ RunsWhatTheRowHeld /\ RunInv /\ ClaimInv
  BY Zenon DEF IInv
<1>s. PICK s : s = First.id
  BY ZenonT(30)
<1> DEFINE job == [due |-> claim.due, at |-> now, gen |-> claim.gen, target |-> First.target,
                   held |-> claim.target, late |-> claim.late]
<1>a. /\ UNCHANGED <<clock, rows, edit, now, gen, used>> /\ pc = "start" /\ pc' = "fire"
      /\ due' \subseteq due /\ claim' = None /\ pc' # "start"
  BY Zenon DEF Start
<1>b. due # {} /\ claim \in Claims /\ ran \in [Sched -> Ran \cup {None}]
  BY ZenonT(30), <1>0, <1>a DEF TypeOK
<1>c. s \in Sched /\ First.target \in Target
  BY Zenon, <1>0, <1>b, <1>s, FirstType
<1>d. now \in Times /\ now \in Int
  <2>1. clock \in Times /\ now \in 0 .. clock /\ MaxTime \in Nat
    BY Zenon, <1>0, JobSchedulerAssumption DEF TypeOK
  <2> QED
    BY <2>1 DEF Times
<1>e. job \in Ran /\ ran' = [ran EXCEPT ![s] = job]
  BY ZenonT(30), <1>b, <1>c, <1>d, <1>s DEF Ran, Claims, Start
<1>f. job.gen = claim.gen /\ job.at = now /\ job.target = First.target /\ job.held = claim.target
      /\ job.late = claim.late
  BY Zenon
<1> HIDE DEF job
<1>g. /\ ran' \in [Sched -> Ran \cup {None}] /\ ran'[s] = job
      /\ \A x \in Sched : x # s => ran'[x] = ran[x]
  BY ZenonT(30), <1>b, <1>c, <1>e
<1>h. /\ claim.late \/ claim.target = First.target
      /\ claim.gen <= gen[s]
      /\ claim.gen = gen[s] /\ rows[s] # None /\ rows[s].next # None => rows[s].next > now
  BY ZenonT(30), <1>0, <1>a, <1>s DEF ClaimInv
<1>1. TypeOK'
  <2>1. pc' \in {"idle", "fire", "start", "record"} /\ pc' \notin {"start", "record"}
    BY ZenonT(30), <1>a
  <2> QED
    BY ZenonT(30), <1>0, <1>a, <1>g, <2>1 DEF TypeOK
<1>2. EditInv'
  BY Zenon, <1>0, <1>a, SameEdit
<1>3. EnabledIffNext'
  BY Zenon, <1>0, <1>a, SameNext
<1>4. CopyInv'
  BY Zenon, <1>0, <1>a, FewerCopies
<1>5. RunsWhatTheRowHeld'
  BY ZenonT(30), <1>0, <1>f, <1>g, <1>h DEF RunsWhatTheRowHeld
<1>6. RunInv'
  <2>1. now <= now
    BY <1>d
  <2> QED
    BY ZenonT(30), <1>0, <1>a, <1>f, <1>g, <1>h, <2>1 DEF RunInv
<1>7. ClaimInv'
  BY Zenon, <1>a, NoClaim
<1> QED
  BY Zenon, <1>1, <1>2, <1>3, <1>4, <1>5, <1>6, <1>7 DEF IInv

LEMMA StepStartFails == ASSUME IInv, StartFails PROVE IInv'
<1>0. TypeOK /\ EditInv /\ EnabledIffNext /\ CopyInv /\ RunsWhatTheRowHeld /\ RunInv /\ ClaimInv
  BY Zenon DEF IInv
<1>a. UNCHANGED <<clock, rows, edit, now, due, ran, gen>> /\ pc = "start" /\ pc' = "record"
      /\ claim' = None /\ due' \subseteq due /\ pc' # "start"
  BY Zenon DEF StartFails
<1>1. TypeOK'
  <2>1. used' \in [edits : 0 .. MaxEdits, crashes : 0 .. MaxCrashes, fails : 0 .. MaxFails,
                   late : 0 .. MaxLate]
    <3>1. MaxFails \in Nat /\ Spend("fails", MaxFails)
      BY ZenonT(30), JobSchedulerAssumption DEF StartFails
    <3> QED
      BY ZenonT(30), <1>0, <3>1, SpendType
  <2>2. due # {} /\ pc' \in {"idle", "fire", "start", "record"}
    BY ZenonT(30), <1>0, <1>a DEF TypeOK
  <2> QED
    BY ZenonT(30), <1>0, <1>a, <2>1, <2>2 DEF TypeOK
<1>2. EditInv'
  BY Zenon, <1>0, <1>a, SameEdit
<1>3. EnabledIffNext'
  BY Zenon, <1>0, <1>a, SameNext
<1>4. CopyInv'
  BY Zenon, <1>0, <1>a, FewerCopies
<1>5. RunsWhatTheRowHeld'
  BY Zenon, <1>0, <1>a, SameRan
<1>6. RunInv'
  BY Zenon, <1>0, <1>a, SameRun
<1>7. ClaimInv'
  BY Zenon, <1>0, <1>a, NoClaim
<1> QED
  BY Zenon, <1>1, <1>2, <1>3, <1>4, <1>5, <1>6, <1>7 DEF IInv

LEMMA StepRecordError == ASSUME IInv, RecordError PROVE IInv'
<1>0. TypeOK /\ EditInv /\ EnabledIffNext /\ CopyInv /\ RunsWhatTheRowHeld /\ RunInv /\ ClaimInv
  BY Zenon DEF IInv
<1>a. UNCHANGED <<clock, edit, now, claim, ran, gen, used>> /\ due' \subseteq due /\ pc' = "fire"
      /\ pc' # "start" /\ pc' \in {"idle", "fire", "start", "record"} /\ pc' \notin {"start", "record"}
      /\ pc \in {"start", "record"}
  BY ZenonT(30) DEF RecordError
<1>b. First.id \in Sched /\ rows \in [Sched -> Row \cup {None}] /\ due \subseteq Copies
  <2>1. due # {}
    BY Zenon, <1>0, <1>a DEF TypeOK
  <2> QED
    BY Zenon, <1>0, <2>1, FirstType DEF TypeOK
<1>c. \/ rows' = rows
      \/ rows[First.id] # None /\ rows' = [rows EXCEPT ![First.id].err = TRUE]
  BY Zenon DEF RecordError
<1>d. \A x \in Sched : \/ rows'[x] = rows[x]
                       \/ /\ rows[x] # None /\ rows'[x] \in Row
                          /\ (rows'[x].enabled <=> rows[x].enabled) /\ rows'[x].next = rows[x].next
                          /\ rows'[x].target = rows[x].target /\ (rows'[x].late <=> rows[x].late)
  <2> SUFFICES ASSUME NEW x \in Sched, rows'[x] # rows[x]
               PROVE  /\ rows[x] # None /\ rows'[x] \in Row
                      /\ (rows'[x].enabled <=> rows[x].enabled) /\ rows'[x].next = rows[x].next
                      /\ rows'[x].target = rows[x].target /\ (rows'[x].late <=> rows[x].late)
    BY Zenon
  <2> DEFINE r == rows[x]
  <2>1. x = First.id
    BY ZenonT(30), <1>b, <1>c
  <2>2. r \in Row /\ r # None /\ rows'[x] = [r EXCEPT !.err = TRUE]
    BY ZenonT(30), <1>b, <1>c, <2>1
  <2> HIDE DEF r
  <2>3. /\ rows'[x] \in Row /\ (rows'[x].enabled <=> r.enabled) /\ rows'[x].next = r.next
        /\ rows'[x].target = r.target /\ (rows'[x].late <=> r.late)
    BY ZenonT(30), <2>2 DEF Row
  <2> QED
    BY Zenon, <2>2, <2>3 DEF r
<1>1. TypeOK'
  <2>1. rows' \in [Sched -> Row \cup {None}]
    <3>1. DOMAIN rows' = Sched /\ rows' = [x \in Sched |-> rows'[x]]
      BY ZenonT(30), <1>b, <1>c
    <3>2. \A x \in Sched : rows'[x] \in Row \cup {None}
      BY ZenonT(30), <1>b, <1>d
    <3> QED
      BY Zenon, <3>1, <3>2
  <2>2. due' \subseteq Copies
    BY Zenon, <1>a, <1>b
  <2> QED
    BY ZenonT(30), <1>0, <1>a, <2>1, <2>2 DEF TypeOK
<1>2. EditInv'
  BY Zenon, <1>0, <1>a, SameEdit
<1>3. EnabledIffNext'
  BY ZenonT(30), <1>0, <1>d DEF EnabledIffNext
<1>4. CopyInv'
  <2>1. \A d \in due : d.id \in Sched
    BY ZenonT(30), <1>b DEF Copies
  <2> QED
    BY ZenonT(30), <1>0, <1>a, <1>d, <2>1 DEF CopyInv, IsDue
<1>5. RunsWhatTheRowHeld'
  BY Zenon, <1>0, <1>a, SameRan
<1>6. RunInv'
  BY ZenonT(30), <1>0, <1>a, <1>d DEF RunInv
<1>7. ClaimInv'
  BY Zenon, <1>a, NoClaim
<1> QED
  BY Zenon, <1>1, <1>2, <1>3, <1>4, <1>5, <1>6, <1>7 DEF IInv

LEMMA StepCrash == ASSUME IInv, Crash PROVE IInv'
<1>0. TypeOK /\ EditInv /\ EnabledIffNext /\ CopyInv /\ RunsWhatTheRowHeld /\ RunInv /\ ClaimInv
  BY Zenon DEF IInv
<1>a. UNCHANGED <<clock, rows, ran, gen>> /\ edit' = None /\ now' = clock /\ due' = {} /\ claim' = None
      /\ pc' = "idle" /\ pc' # "start"
  BY Zenon DEF Crash
<1>b. clock \in Nat /\ clock \in Int /\ clock \in 0 .. clock /\ now <= clock
  BY <1>0 DEF TypeOK, Times
<1>1. TypeOK'
  <2>1. used' \in [edits : 0 .. MaxEdits, crashes : 0 .. MaxCrashes, fails : 0 .. MaxFails,
                   late : 0 .. MaxLate]
    <3>1. MaxCrashes \in Nat /\ Spend("crashes", MaxCrashes)
      BY ZenonT(30), JobSchedulerAssumption DEF Crash
    <3> QED
      BY ZenonT(30), <1>0, <3>1, SpendType
  <2>2. pc' \in {"idle", "fire", "start", "record"} /\ pc' \notin {"start", "record"} /\ due' \subseteq Copies
    BY ZenonT(30), <1>a
  <2> QED
    BY ZenonT(30), <1>0, <1>a, <1>b, <2>1, <2>2 DEF TypeOK
<1>2. EditInv'
  BY Zenon, <1>a DEF EditInv
<1>3. EnabledIffNext'
  BY Zenon, <1>0, <1>a, SameNext
<1>4. CopyInv'
  BY Zenon, <1>a DEF CopyInv
<1>5. RunsWhatTheRowHeld'
  BY Zenon, <1>0, <1>a, SameRan
<1>6. RunInv'
  BY Zenon, <1>0, <1>a, <1>b, LaterRun
<1>7. ClaimInv'
  BY Zenon, <1>a, NoClaim
<1> QED
  BY Zenon, <1>1, <1>2, <1>3, <1>4, <1>5, <1>6, <1>7 DEF IInv

LEMMA StepInv == IInv /\ [Next]_vars => IInv'
<1> SUFFICES ASSUME IInv, [Next]_vars PROVE IInv'
  BY ZenonT(30)
<1>1. CASE UNCHANGED vars
  <2>1. UNCHANGED <<clock, rows, edit, now, due, pc, claim, ran, gen, used>>
    BY Zenon, <1>1 DEF vars, tick
  <2>2. TypeOK'
    BY ZenonT(30), <2>1 DEF IInv, TypeOK
  <2>3. due' \subseteq due
    BY Zenon, <2>1
  <2> QED
    BY Zenon, <2>1, <2>2, <2>3, SameEdit, SameNext, FewerCopies, SameRan, SameRun, SameClaim
       DEF IInv
<1>2. CASE Next
  <2>1. ASSUME NEW s \in Sched, NEW f \in Fields, Submit(s, f) PROVE IInv'
    BY ZenonT(30), <2>1, StepSubmit
  <2>2. ASSUME NEW s \in Sched, Delete(s) PROVE IInv'
    BY ZenonT(30), <2>2, StepDelete
  <2>3. CASE Fire
    BY ZenonT(30), <2>3, StepDisable, StepClaim, StepStart, StepRecordError, StepTickDone DEF Fire
  <2> QED
    BY ZenonT(30), <1>2, <2>1, <2>2, <2>3, StepAdvance, StepWrite, StepTickNow, StepTickLate,
       StepClaimError,
       StepStartFails, StepCrash DEF Next
<1> QED
  BY ZenonT(30), <1>1, <1>2

LEMMA Invariance == Spec => []IInv
<1> QED
  BY InitInv, StepInv, PTL DEF Spec

\* The scheduler keeps its types for every value of its constants.
THEOREM SchedulerTypes == Spec => []TypeOK
<1>1. IInv => TypeOK
  BY ZenonT(30) DEF IInv
<1> QED
  BY <1>1, Invariance, PTL

\* A row has a NextRunAt exactly while it is enabled, for any interleaving of
\* operators, ticks and restarts.
THEOREM NextFollowsEnabled == Spec => []EnabledIffNext
<1>1. IInv => EnabledIffNext
  BY ZenonT(30) DEF IInv
<1> QED
  BY <1>1, Invariance, PTL

\* fire starts a job from the copy Tick loaded, and the conditional claim
\* makes that copy agree with the row.
THEOREM ClaimedCopyIsCurrent == Spec => []RunsWhatTheRowHeld
<1>1. IInv => RunsWhatTheRowHeld
  BY ZenonT(30) DEF IInv
<1> QED
  BY <1>1, Invariance, PTL

\* Both at once: what the scheduler's rows promise its ticks and its operators.
THEOREM SchedulerStaysSafe == Spec => []SchedulerSafe
<1>1. IInv => SchedulerSafe
  BY ZenonT(30) DEF IInv, SchedulerSafe
<1> QED
  BY <1>1, Invariance, PTL

\* No activation of a cron runs twice, across restarts, late ticks and
\* failed claims.
THEOREM ActivationRunsOnce == Spec => OneRunPerActivation
<1> DEFINE Once(s) == ran'[s] # ran[s] /\ ran[s] # None /\ ran'[s].gen = ran[s].gen
                      => ran'[s].due > ran[s].at
<1>1. ASSUME IInv, [Next]_vars, NEW s \in Sched PROVE Once(s)
  <2>1. CASE ran' = ran
    BY ZenonT(30), <2>1
  <2>2. CASE Start
    <3>1. First.id \in Sched /\ pc = "start" /\ ran \in [Sched -> Ran \cup {None}]
      BY ZenonT(30), <1>1, <2>2, FirstType DEF IInv, Start, TypeOK
    <3>2. s # First.id => ran'[s] = ran[s]
      BY <2>2 DEF Start
    <3>3. s = First.id => ran'[s].gen = claim.gen /\ ran'[s].due = claim.due
      BY ZenonT(30), <2>2, <3>1 DEF Start
    <3> QED
      BY ZenonT(30), <1>1, <3>1, <3>2, <3>3 DEF IInv, ClaimInv
  <2>3. ran' = ran \/ Start
    BY ZenonT(30), <1>1 DEF Next, vars, Advance, Submit, Write, Delete, TickNow, TickLate, Tick,
       Fire,
       TickDone, Disable, Claim, RecordError, ClaimError, StartFails, Crash
  <2> QED
    BY ZenonT(30), <2>2, <2>3
<1>2. IInv /\ [Next]_vars =>
        [\A s \in Sched :
           /\ ran'[s] # ran[s] /\ ran[s] # None
           /\ ran'[s].gen = ran[s].gen
           => ran'[s].due > ran[s].at]_vars
  BY ZenonT(30), <1>1
<1> QED
  BY <1>2, Invariance, PTL DEF Spec, OneRunPerActivation

=============================================================================
