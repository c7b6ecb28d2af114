-------------------------- MODULE SharedLinksProof --------------------------
(***************************************************************************)
(* Two connections that many calls share: the session to the primary that  *)
(* a worker's RPC calls go over (RpcSafe), and the SSH connection to a     *)
(* device that packet captures go over (ExecSafe); for every number of     *)
(* calls, sessions, captures and faults.                                   *)
(*                                                                         *)
(* RpcSafe is not inductive.  That a caller is told when its session ends  *)
(* needs the current session to have neither ended nor been replaced       *)
(* (SessionsOK), a map that was emptied to stay empty (EndedEmpty) and a   *)
(* caller without an answer to be in the map of its own session (CallsOK,  *)
(* WaitersOK).  That a request is answered once needs it to be on one wire *)
(* or in one handler, never in both (WireOK).                              *)
(***************************************************************************)
EXTENDS HubRpc, SshExec, FiniteSetTheorems, TLAPS

-----------------------------------------------------------------------------
(* The connection captures share.  RefsExact makes refs = 0 mean that      *)
(* nobody uses the connection, and DialOwnsSlot that a finished dial finds *)
(* the slot empty; ExecTypes adds the types TypeOK leaves out.             *)

CaptureSteps == {"acquire", "wait", "dial", "start", "stream", "discard", "done"}

ExecTypes ==
    /\ conn \in Seq({"live", "gone", "closed"}) /\ client \in 0 .. Len(conn)
    /\ step \in [Capture -> CaptureSteps] /\ uses \in [Capture -> 0 .. Len(conn)]
    /\ refs \in Nat /\ dialing \in BOOLEAN
    /\ \A c \in Capture : step[c] \in {"start", "stream", "discard"} => uses[c] # 0

OneDial ==
    /\ \A c, d \in Capture : step[c] = "dial" /\ step[d] = "dial" => c = d
    /\ dialing <=> \E c \in Capture : step[c] = "dial"
    /\ dialing => client = 0

ExecInv == ExecTypes /\ OneDial /\ RefsExact

LEMMA UsersFinite == IsFiniteSet(Users)
  BY ZenonT(30), SshExecAssumption, FS_Subset DEF Users

\* Nobody holds a count of zero.
LEMMA NoUsers == ASSUME RefsExact, refs = 0 PROVE Users = {}
  BY ZenonT(30), UsersFinite, FS_EmptySet DEF RefsExact

\* The slot is empty when a dial ends.
LEMMA DialFinds == ASSUME ExecInv, NEW c \in Capture, step[c] = "dial" PROVE client = 0 /\ dialing
  BY ZenonT(30) DEF ExecInv, OneDial

\* Steps that move one capture.
LEMMA OneMoves ==
  ASSUME ExecTypes, NEW c \in Capture, NEW w \in CaptureSteps, step' = [step EXCEPT ![c] = w]
  PROVE  /\ step' \in [Capture -> CaptureSteps]
         /\ \A d \in Capture : step'[d] = IF d = c THEN w ELSE step[d]
  BY ZenonT(30) DEF ExecTypes

\* The end of a dial moves its own capture and the waiting ones.
LEMMA AllWoken ==
  ASSUME ExecTypes, NEW c \in Capture, NEW w \in CaptureSteps, Woken(c, w)
  PROVE  /\ step' \in [Capture -> CaptureSteps] /\ step'[c] = w
         /\ \A d \in Capture : d # c => \/ step'[d] = step[d] /\ step[d] # "wait"
                                        \/ step'[d] = "acquire" /\ step[d] = "wait"
  BY ZenonT(30) DEF ExecTypes, Woken, CaptureSteps

\* How a step changes who uses a connection decides how it may change refs.
LEMMA CountSame == ASSUME RefsExact, Users' = Users, refs' = refs PROVE RefsExact'
  BY ZenonT(30) DEF RefsExact
LEMMA CountOneMore ==
  ASSUME RefsExact, NEW c \in Capture, c \notin Users, Users' = Users \cup {c}, refs' = refs + 1
  PROVE  RefsExact'
<1>1. Cardinality(Users \cup {c}) = Cardinality(Users) + 1
  BY ZenonT(30), UsersFinite, FS_AddElement
<1> QED
  BY ZenonT(30), <1>1 DEF RefsExact
LEMMA CountOneLess ==
  ASSUME RefsExact, refs \in Nat, NEW c \in Capture, c \in Users, Users' = Users \ {c},
         refs' = IF refs > 0 THEN refs - 1 ELSE 0
  PROVE  RefsExact' /\ refs' = refs - 1 /\ refs > 0
<1>1. Cardinality(Users \ {c}) = Cardinality(Users) - 1
  BY ZenonT(30), UsersFinite, FS_RemoveElement
<1>2. Cardinality(Users) # 0
  BY ZenonT(30), UsersFinite, FS_EmptySet
<1> QED
  BY <1>1, <1>2 DEF RefsExact

\* A connection changes its state; the list of dials stays.
LEMMA ConnChanges ==
  ASSUME ExecTypes, NEW x \in DOMAIN conn, NEW v \in {"live", "gone", "closed"},
         conn' = [conn EXCEPT ![x] = v]
  PROVE  /\ conn' \in Seq({"live", "gone", "closed"}) /\ Len(conn') = Len(conn)
         /\ DOMAIN conn' = DOMAIN conn
         /\ \A y \in DOMAIN conn : conn'[y] = IF y = x THEN v ELSE conn[y]
  BY DEF ExecTypes

LEMMA AcquireKeeps ==
  ASSUME ExecInv, NEW c \in Capture,
         AcquireOther(c) \/ AcquireCached(c) \/ AcquireWaits(c) \/ AcquireDials(c)
  PROVE  ExecInv'
<1>0. ExecTypes /\ OneDial /\ RefsExact
  BY ZenonT(30) DEF ExecInv
<1>1. CASE AcquireOther(c) /\ refs > 0
  <2>1. step' = [step EXCEPT ![c] = "done"] /\ step[c] = "acquire"
    BY ZenonT(30), <1>1 DEF AcquireOther, Go
  <2>2. UNCHANGED <<client, conn, refs, dialing, uses>>
    BY ZenonT(30), <1>1 DEF AcquireOther
  <2>3. \A d \in Capture : step'[d] = IF d = c THEN "done" ELSE step[d]
    BY ZenonT(30), <1>0, <2>1 DEF ExecTypes
  <2>4. ExecTypes'
    BY ZenonT(30), <1>0, <2>1, <2>2, <2>3 DEF ExecTypes, CaptureSteps
  <2>5. OneDial'
    BY <1>0, <2>1, <2>2, <2>3 DEF OneDial
  <2>6. Users' = Users
    BY <2>1, <2>3 DEF Users
  <2> QED
    BY ZenonT(30), <1>0, <2>2, <2>4, <2>5, <2>6, CountSame DEF ExecInv
<1>2. CASE AcquireOther(c) /\ ~(refs > 0)
  <2>1. /\ UNCHANGED <<step, refs, dialing, uses>> /\ client # 0
        /\ client' = 0 /\ conn' = [conn EXCEPT ![client] = "closed"]
    BY ZenonT(30), <1>2 DEF AcquireOther, CloseClient
  <2>2. ExecTypes'
    BY <1>0, <2>1 DEF ExecTypes
  <2>3. OneDial'
    BY ZenonT(30), <1>0, <2>1 DEF OneDial
  <2>4. Users' = Users
    BY ZenonT(30), <2>1 DEF Users
  <2> QED
    BY ZenonT(30), <1>0, <2>1, <2>2, <2>3, <2>4, CountSame DEF ExecInv
<1>3. CASE AcquireCached(c)
  <2>1. /\ step[c] = "acquire" /\ client # 0 /\ step' = [step EXCEPT ![c] = "start"]
        /\ uses' = [uses EXCEPT ![c] = client] /\ refs' = refs + 1
        /\ UNCHANGED <<client, dialing, conn>>
    BY ZenonT(30), <1>3 DEF AcquireCached, Take, Go
  <2>2. \A d \in Capture : step'[d] = IF d = c THEN "start" ELSE step[d]
    BY ZenonT(30), <1>0, <2>1 DEF ExecTypes
  <2>3. ExecTypes'
    BY <1>0, <2>1, <2>2 DEF ExecTypes, CaptureSteps
  <2>4. OneDial'
    BY <1>0, <2>1, <2>2 DEF OneDial
  <2>5. Users' = Users \cup {c} /\ c \notin Users
    BY ZenonT(30), <2>1, <2>2 DEF Users
  <2> QED
    BY ZenonT(30), <1>0, <2>1, <2>3, <2>4, <2>5, CountOneMore DEF ExecInv
<1>4. CASE AcquireWaits(c)
  <2>1. /\ step[c] = "acquire" /\ step' = [step EXCEPT ![c] = "wait"]
        /\ UNCHANGED <<client, refs, dialing, conn, uses>>
    BY ZenonT(30), <1>4 DEF AcquireWaits, Go, slot
  <2>2. \A d \in Capture : step'[d] = IF d = c THEN "wait" ELSE step[d]
    BY ZenonT(30), <1>0, <2>1 DEF ExecTypes
  <2>3. ExecTypes'
    BY ZenonT(30), <1>0, <2>1, <2>2 DEF ExecTypes, CaptureSteps
  <2>4. OneDial'
    BY <1>0, <2>1, <2>2 DEF OneDial
  <2>5. Users' = Users
    BY <2>1, <2>2 DEF Users
  <2> QED
    BY ZenonT(30), <1>0, <2>1, <2>3, <2>4, <2>5, CountSame DEF ExecInv
<1>5. CASE AcquireDials(c)
  <2>1. /\ step[c] = "acquire" /\ step' = [step EXCEPT ![c] = "dial"] /\ client = 0
        /\ dialing = FALSE /\ dialing' = TRUE /\ UNCHANGED <<client, refs, conn, uses>>
    BY ZenonT(30), <1>0, <1>5 DEF AcquireDials, Go, ExecTypes
  <2>2. \A d \in Capture : step'[d] = IF d = c THEN "dial" ELSE step[d]
    BY ZenonT(30), <1>0, <2>1 DEF ExecTypes
  <2>3. ExecTypes'
    BY ZenonT(30), <1>0, <2>1, <2>2 DEF ExecTypes, CaptureSteps
  <2>4. OneDial'
    BY ZenonT(30), <1>0, <2>1, <2>2 DEF OneDial
  <2>5. Users' = Users
    BY <2>1, <2>2 DEF Users
  <2> QED
    BY ZenonT(30), <1>0, <2>1, <2>3, <2>4, <2>5, CountSame DEF ExecInv
<1> QED
  BY ZenonT(30), <1>1, <1>2, <1>3, <1>4, <1>5

LEMMA DialKeeps ==
  ASSUME ExecInv, NEW c \in Capture, DialFails(c) \/ DialOk(c) PROVE ExecInv'
<1>0. ExecTypes /\ OneDial /\ RefsExact /\ step[c] = "dial" /\ client = 0
  BY ZenonT(30), DialFinds DEF ExecInv, DialFails, DialOk
<1>1. \A d \in Capture : d # c => step[d] # "dial"
  BY ZenonT(30), <1>0 DEF OneDial
<1>2. CASE DialFails(c)
  <2>1. Woken(c, "done") /\ dialing' = FALSE /\ UNCHANGED <<client, refs, conn, uses>>
    BY ZenonT(30), <1>2 DEF DialFails
  <2>2. /\ step' \in [Capture -> CaptureSteps] /\ step'[c] = "done"
        /\ \A d \in Capture : d # c => \/ step'[d] = step[d] /\ step[d] # "wait"
                                       \/ step'[d] = "acquire" /\ step[d] = "wait"
    BY ZenonT(30), <1>0, <2>1, AllWoken DEF CaptureSteps
  <2>3. ExecTypes'
    BY ZenonT(30), <1>0, <2>1, <2>2 DEF ExecTypes
  <2>4. OneDial'
    BY ZenonT(30), <1>1, <2>1, <2>2 DEF OneDial
  <2>5. Users' = Users
    BY ZenonT(30), <1>0, <2>2 DEF Users
  <2> QED
    BY ZenonT(30), <1>0, <2>1, <2>3, <2>4, <2>5, CountSame DEF ExecInv
<1>3. CASE DialOk(c)
  <2>1. /\ Woken(c, "start") /\ dialing' = FALSE /\ conn' = Append(conn, "live")
        /\ client' = Len(conn) + 1 /\ refs' = refs + 1 /\ uses' = [uses EXCEPT ![c] = Len(conn) + 1]
    BY ZenonT(30), <1>0, <1>3 DEF DialOk
  <2>2. /\ step' \in [Capture -> CaptureSteps] /\ step'[c] = "start"
        /\ \A d \in Capture : d # c => \/ step'[d] = step[d] /\ step[d] # "wait"
                                       \/ step'[d] = "acquire" /\ step[d] = "wait"
    BY ZenonT(30), <1>0, <2>1, AllWoken DEF CaptureSteps
  <2>3. conn' \in Seq({"live", "gone", "closed"}) /\ Len(conn') = Len(conn) + 1 /\ Len(conn) \in Nat
    BY <1>0, <2>1 DEF ExecTypes
  <2>4. uses' \in [Capture -> 0 .. Len(conn')] /\ \A d \in Capture : d # c => uses'[d] = uses[d]
    BY <1>0, <2>1, <2>3 DEF ExecTypes
  <2>5. \A d \in Capture : step'[d] \in {"start", "stream", "discard"} => uses'[d] # 0
    BY <1>0, <2>1, <2>2, <2>3, <2>4 DEF ExecTypes
  <2>6. ExecTypes'
    <3>1. client' \in 0 .. Len(conn') /\ refs' \in Nat
      BY <1>0, <2>1, <2>3 DEF ExecTypes
    <3>2. dialing' \in BOOLEAN
      BY ZenonT(30), <2>1
    <3> QED
      BY <2>2, <2>3, <2>4, <2>5, <3>1, <3>2, Zenon DEF ExecTypes
  <2>7. OneDial'
    BY ZenonT(30), <1>1, <2>1, <2>2 DEF OneDial
  <2>8. Users' = Users \cup {c} /\ c \notin Users
    BY ZenonT(30), <1>0, <2>2 DEF Users
  <2> QED
    BY ZenonT(30), <1>0, <2>1, <2>6, <2>7, <2>8, CountOneMore DEF ExecInv
<1> QED
  BY ZenonT(30), <1>2, <1>3

LEMMA OpenKeeps ==
  ASSUME ExecInv, NEW c \in Capture, StartOk(c) \/ StartFails(c) \/ NoSession(c) \/ StreamEnds(c)
  PROVE  ExecInv'
<1>0. ExecTypes /\ OneDial /\ RefsExact
  BY ZenonT(30) DEF ExecInv
<1>1. CASE StartOk(c)
  <2>1. /\ step[c] = "start" /\ step' = [step EXCEPT ![c] = "stream"]
        /\ UNCHANGED <<client, refs, dialing, conn, uses>>
    BY ZenonT(30), <1>1 DEF StartOk, Go, slot
  <2>2. \A d \in Capture : step'[d] = IF d = c THEN "stream" ELSE step[d]
    BY ZenonT(30), <1>0, <2>1 DEF ExecTypes
  <2>3. ExecTypes'
    BY ZenonT(30), <1>0, <2>1, <2>2 DEF ExecTypes, CaptureSteps
  <2>4. OneDial'
    BY <1>0, <2>1, <2>2 DEF OneDial
  <2>5. Users' = Users
    BY ZenonT(30), <2>1, <2>2 DEF Users
  <2> QED
    BY ZenonT(30), <1>0, <2>1, <2>3, <2>4, <2>5, CountSame DEF ExecInv
<1>2. CASE StartFails(c) \/ NoSession(c) \/ StreamEnds(c)
  <2>1. PICK w \in {"done", "discard"} :
          /\ step' = [step EXCEPT ![c] = w]
          /\ \/ w = "discard" /\ uses' = uses
             \/ w = "done" /\ uses' = [uses EXCEPT ![c] = 0]
    <3>1. CASE StartFails(c) \/ StreamEnds(c)
      BY ZenonT(30), <3>1 DEF StartFails, StreamEnds, Drop, Go
    <3>2. CASE NoSession(c)
      BY ZenonT(30), <3>2 DEF NoSession, Drop, Go
    <3> QED
      BY ZenonT(30), <1>2, <3>1, <3>2
  <2>2. /\ step[c] \in {"start", "stream"} /\ refs' = (IF refs > 0 THEN refs - 1 ELSE 0)
        /\ UNCHANGED <<client, dialing, conn>>
    BY ZenonT(30), <1>2 DEF StartFails, NoSession, StreamEnds, Drop
  <2>3. \A d \in Capture : step'[d] = IF d = c THEN w ELSE step[d]
    BY ZenonT(30), <1>0, <2>1 DEF ExecTypes
  <2>4. Users' = Users \ {c} /\ c \in Users
    BY ZenonT(30), <2>1, <2>2, <2>3 DEF Users
  <2>5. RefsExact' /\ refs' = refs - 1 /\ refs > 0
    BY ZenonT(30), <1>0, <2>2, <2>4, CountOneLess DEF ExecTypes
  <2>6. uses' \in [Capture -> 0 .. Len(conn)] /\ \A d \in Capture : d # c => uses'[d] = uses[d]
    <3>1. Len(conn) \in Nat /\ uses \in [Capture -> 0 .. Len(conn)] /\ 0 \in 0 .. Len(conn)
      BY <1>0 DEF ExecTypes
    <3>2. CASE uses' = uses
      BY ZenonT(30), <3>1, <3>2
    <3>3. CASE uses' = [uses EXCEPT ![c] = 0]
      BY ZenonT(30), <3>1, <3>3
    <3> QED
      BY ZenonT(30), <2>1, <3>2, <3>3
  <2>7. \A d \in Capture : step'[d] \in {"start", "stream", "discard"} => uses'[d] # 0
    BY ZenonT(30), <1>0, <2>1, <2>2, <2>3, <2>6 DEF ExecTypes
  <2>8. refs' \in Nat /\ step' \in [Capture -> CaptureSteps]
    BY <1>0, <2>1, <2>5 DEF ExecTypes, CaptureSteps
  <2>9. ExecTypes'
    BY <1>0, <2>2, <2>6, <2>7, <2>8, Zenon DEF ExecTypes
  <2>10. OneDial'
    BY <1>0, <2>1, <2>2, <2>3 DEF OneDial
  <2> QED
    BY ZenonT(30), <2>5, <2>9, <2>10 DEF ExecInv
<1> QED
  BY ZenonT(30), <1>1, <1>2

LEMMA DiscardKeeps ==
  ASSUME ExecInv, NEW c \in Capture, Discard(c) PROVE ExecInv'
<1>0. ExecTypes /\ OneDial /\ RefsExact
  BY ZenonT(30) DEF ExecInv
<1>1. PICK w \in {"done", "acquire"} : step' = [step EXCEPT ![c] = w]
  BY ZenonT(30) DEF Discard, Go
<1>2. /\ step[c] = "discard" /\ uses' = [uses EXCEPT ![c] = 0] /\ UNCHANGED <<refs, dialing>>
  BY ZenonT(30) DEF Discard
<1>3. \/ client # 0 /\ client' = 0 /\ conn' = [conn EXCEPT ![client] = "closed"]
      \/ UNCHANGED <<client, conn>>
  BY ZenonT(30), <1>0, <1>2 DEF Discard, CloseClient, ExecTypes
<1>4. \A d \in Capture : step'[d] = IF d = c THEN w ELSE step[d]
  BY ZenonT(30), <1>0, <1>1 DEF ExecTypes
<1>5. /\ conn' \in Seq({"live", "gone", "closed"}) /\ Len(conn') = Len(conn)
      /\ client' \in 0 .. Len(conn) /\ (client = 0 => client' = 0)
  BY <1>0, <1>3 DEF ExecTypes
<1>6. uses' \in [Capture -> 0 .. Len(conn)] /\ \A d \in Capture : d # c => uses'[d] = uses[d]
  BY <1>0, <1>2 DEF ExecTypes
<1>7. \A d \in Capture : step'[d] \in {"start", "stream", "discard"} => uses'[d] # 0
  BY ZenonT(30), <1>0, <1>1, <1>4, <1>6 DEF ExecTypes
<1>8. step' \in [Capture -> CaptureSteps]
  BY ZenonT(30), <1>0, <1>1 DEF ExecTypes, CaptureSteps
<1>9. ExecTypes'
  BY <1>0, <1>2, <1>5, <1>6, <1>7, <1>8, Zenon DEF ExecTypes
<1>10. OneDial'
  BY ZenonT(30), <1>0, <1>1, <1>2, <1>4, <1>5 DEF OneDial
<1>11. Users' = Users
  BY ZenonT(30), <1>1, <1>2, <1>4 DEF Users
<1> QED
  BY ZenonT(30), <1>0, <1>2, <1>9, <1>10, <1>11, CountSame DEF ExecInv

LEMMA OthersKeep ==
  ASSUME ExecInv, Expire \/ \E x \in DOMAIN conn : ConnLost(x) \/ Forget(x) PROVE ExecInv'
<1>0. ExecTypes /\ OneDial /\ RefsExact
  BY ZenonT(30) DEF ExecInv
<1>1. UNCHANGED <<refs, dialing, step, uses>>
  BY ZenonT(30) DEF Expire, ConnLost, Forget, slot
<1>2. /\ conn' \in Seq({"live", "gone", "closed"}) /\ Len(conn') = Len(conn)
      /\ client' \in 0 .. Len(conn) /\ (client = 0 => client' = 0)
  <2>1. CASE Expire
    BY <1>0, <2>1 DEF Expire, CloseClient, ExecTypes
  <2>2. CASE \E x \in DOMAIN conn : ConnLost(x)
    BY <1>0, <2>2 DEF ConnLost, ExecTypes, slot
  <2>3. CASE \E x \in DOMAIN conn : Forget(x)
    BY <1>0, <2>3 DEF Forget, ExecTypes
  <2> QED
    BY ZenonT(30), <2>1, <2>2, <2>3
<1>3. ExecTypes'
  BY <1>0, <1>1, <1>2, Zenon DEF ExecTypes
<1>4. OneDial'
  BY ZenonT(30), <1>0, <1>1, <1>2 DEF OneDial
<1>5. Users' = Users
  BY ZenonT(30), <1>1 DEF Users
<1> QED
  BY ZenonT(30), <1>0, <1>1, <1>3, <1>4, <1>5, CountSame DEF ExecInv

LEMMA ExecStep == ExecInv /\ [Next]_vars => ExecInv'
<1> SUFFICES ASSUME ExecInv, [Next]_vars PROVE ExecInv'
  BY ZenonT(30)
<1>1. CASE UNCHANGED vars
  BY ZenonT(30), <1>1 DEF ExecInv, ExecTypes, OneDial, RefsExact, Users, vars
<1> QED
  BY ZenonT(30), <1>1, AcquireKeeps, DialKeeps, OpenKeeps, DiscardKeeps, OthersKeep
     DEF Next, Acquire, Open

LEMMA ExecStart == Init => ExecInv
<1> SUFFICES ASSUME Init PROVE ExecInv
  BY ZenonT(30)
<1>1. conn \in Seq({"live", "gone", "closed"}) /\ Len(conn) = 0
  BY DEF Init
<1>2. ExecTypes
  <2>1. client \in 0 .. Len(conn) /\ refs \in Nat /\ uses \in [Capture -> 0 .. Len(conn)]
    BY <1>1 DEF Init
  <2>2. dialing \in BOOLEAN
    BY ZenonT(30) DEF Init
  <2>3. step \in [Capture -> CaptureSteps] /\ \A c \in Capture : step[c] = "acquire"
    BY ZenonT(30) DEF Init, CaptureSteps
  <2> QED
    BY ZenonT(30), <1>1, <2>1, <2>2, <2>3 DEF ExecTypes
<1>3. OneDial
  BY ZenonT(30) DEF Init, OneDial
<1>4. Users = {}
  BY ZenonT(30) DEF Init, Users
<1> QED
  BY ZenonT(30), <1>2, <1>3, <1>4, FS_EmptySet DEF Init, ExecInv, RefsExact

LEMMA ExecInvariant == Spec => []ExecInv
  BY ExecStart, ExecStep, PTL DEF Spec

\* The slot of a device counts the captures that hold its connection exactly,
\* and there is one dial at a time which finds the slot empty (acquire,
\* release, discard and expire of drivers/sshexec.go), for any number of
\* captures, passwords, failed dials and lost connections.
THEOREM SlotStaysSafe == Spec => []ExecSafe
<1>1. ExecInv => ExecSafe
  <2> SUFFICES ASSUME ExecInv PROVE ExecSafe
    BY ZenonT(30)
  <2>1. TypeOK
    BY DEF ExecInv, ExecTypes, TypeOK, Users
  <2>2. Cardinality({c \in Capture : step[c] = "dial"}) <= 1
    <3> DEFINE D == {c \in Capture : step[c] = "dial"}
    <3>1. CASE D = {}
      BY <3>1, FS_EmptySet
    <3>2. CASE D # {}
      <4>1. PICK c \in Capture : D = {c}
        BY ZenonT(30), <3>2 DEF ExecInv, OneDial
      <4> QED
        BY <4>1, FS_Singleton
    <3> QED
      BY ZenonT(30), <3>1, <3>2
  <2> QED
    BY ZenonT(30), <2>1, <2>2 DEF ExecInv, OneDial, DialOwnsSlot, ExecSafe
<1> QED
  BY <1>1, ExecInvariant, PTL

\* No step closes a connection while a capture uses it: expire, discard and an
\* acquire with another password close a client only when the count is zero.
THEOREM InUseStaysOpen == Spec => NeverClosedInUse
<1>1. ASSUME ExecInv, [Next]_vars, NEW c \in Users, conn[uses[c]] # "closed"
      PROVE  conn'[uses[c]] # "closed"
  <2>1. /\ c \in Capture /\ refs # 0 /\ uses[c] \in DOMAIN conn
    <3>1. refs # 0
      BY ZenonT(30), <1>1, NoUsers DEF ExecInv
    <3> QED
      BY <1>1, <3>1 DEF ExecInv, ExecTypes, Users
  <2>2. ASSUME NEW d \in Capture, DialOk(d) PROVE conn'[uses[c]] # "closed"
    <3>1. conn' = Append(conn, "live")
      BY ZenonT(30), <1>1, <2>2, DialFinds DEF DialOk
    <3> QED
      BY <1>1, <2>1, <3>1 DEF ExecInv, ExecTypes
  <2>3. ASSUME NEW x \in DOMAIN conn, ConnLost(x) PROVE conn'[uses[c]] # "closed"
    BY ZenonT(30), <1>1, <2>1, <2>3 DEF ConnLost, ExecInv, ExecTypes
  <2>4. ASSUME NEW d \in Capture, Acquire(d) \/ Open(d) \/ StartFails(d) \/ StreamEnds(d), ~DialOk(d)
        PROVE  conn' = conn
    BY <1>1, <2>1, <2>4 DEF Acquire, AcquireOther, AcquireCached, AcquireWaits, AcquireDials,
       DialFails,
       Open, StartOk, NoSession, Discard, StartFails, StreamEnds, ExecInv, ExecTypes
  <2>5. ~Expire
    BY ZenonT(30), <1>1, <2>1 DEF Expire
  <2>6. ASSUME NEW x \in DOMAIN conn, Forget(x) PROVE conn' = conn
    BY ZenonT(30), <2>6 DEF Forget
  <2>7. CASE UNCHANGED vars
    BY ZenonT(30), <1>1, <2>7 DEF vars
  <2> QED
    BY ZenonT(30), <1>1, <2>2, <2>3, <2>4, <2>5, <2>6, <2>7 DEF Next
<1>2. ExecInv /\ [Next]_vars =>
        [\A c \in Users : conn[uses[c]] # "closed" => conn'[uses[c]] # "closed"]_vars
  BY ZenonT(30), <1>1
<1> QED
  BY <1>2, ExecInvariant, PTL DEF Spec, NeverClosedInUse

-----------------------------------------------------------------------------
(* Worker-to-primary RPC.                                                  *)

\* The current session is neither torn down nor replaced, and a session that
\* has not begun has replaced nothing and was not replaced.
SessionsOK ==
    /\ hub # NoRpc => phase[hub] \in {"replacing", "up"}
    /\ \A n \in Session : phase[n] = "new" => prev[n] = NoRpc
    /\ \A n \in Session : prev[n] # NoRpc => prev[n] # hub /\ phase[prev[n]] # "new"

InCall(r) == rpcPc[r] \in {"send", "wait", "cleanup"}

\* A waiter is a call under way on that session.
WaitersOK == \A s \in Session : \A r \in rpcWaiters[s] : sess[r] = s /\ InCall(r)

\* A call that has no answer yet is in the map of its session.
CallsOK == \A r \in Req :
    /\ InCall(r) => sess[r] \in Session
    /\ rpcPc[r] \in {"send", "wait"} /\ rpcCh[r] = NoRpc => r \in rpcWaiters[sess[r]]

EndedEmpty == \A s \in Session : Ended(s) => rpcWaiters[s] = {}

\* A request is on the wire of its session, or a handler has it.
WireOK ==
    /\ \A r \in Req : rpcPc[r] \in {"start", "send"} =>
           handler[r] = "none" /\ \A s \in Session : r \notin up[s]
    /\ \A s \in Session : \A r \in up[s] : sess[r] = s /\ handler[r] = "none"
    /\ \A r \in Req : handler[r] # "none" => on[r] \in Session

AnsweredOK == \A r \in Req : sent[r] = IF handler[r] \in {"leave", "done"} THEN 1 ELSE 0

Counted == {r \in Req : handler[r] \in {"serve", "leave", "panic"}}
CountOK == inFlight = Cardinality(Counted) /\ inFlight <= MaxInFlight

RpcInv == /\ RpcTypeOK /\ SessionsOK /\ NewestIsCurrent /\ WaitersOK /\ CallsOK /\ EndedEmpty
          /\ WireOK /\ AnsweredOK /\ CountOK

-----------------------------------------------------------------------------
(* Which steps write what.                                                 *)

LEMMA SessionWriters ==
  ASSUME [RpcNext]_rpcvars
  PROVE  \/ \E s \in Session : SetSession(s) \/ FailPrev(s) \/ ClearSession(s) \/ FailOwn(s)
         \/ UNCHANGED <<hub, phase, prev>>
  BY ZenonT(60) DEF RpcNext, rpcvars, agentVars, HubConnection, SendCall, Handle, ReadResponse,
     DeliverReply,
     BreakSession, ReadRequest, RegisterRpc, Refuse, Send, ReceiveReply, CleanupCall, Timeout,
     Enter, Serve, Leave, Recover

LEMMA WaiterWriters ==
  ASSUME [RpcNext]_rpcvars
  PROVE  \/ \E s \in Session : FailPrev(s) \/ FailOwn(s) \/ DeliverReply(s)
         \/ \E r \in Req : SendCall(r) \/ Timeout(r)
         \/ UNCHANGED <<rpcWaiters, rpcCh, rpcPc, sess>>
  BY ZenonT(60) DEF RpcNext, rpcvars, agentVars, rpcCallVars, HubConnection, SetSession,
     ClearSession, Handle,
     ReadResponse, BreakSession, ReadRequest, Enter, Serve, Leave, Recover

LEMMA RequestWriters ==
  ASSUME [RpcNext]_rpcvars
  PROVE  \/ \E s \in Session : BreakSession(s) \/ ReadRequest(s)
         \/ \E r \in Req : SendCall(r) \/ Timeout(r) \/ Handle(r)
         \/ UNCHANGED <<rpcPc, sess, up, handler, on, sent, inFlight>>
  BY ZenonT(60) DEF RpcNext, rpcvars, rpcCallVars, wireVars, hubVars, HubConnection, SetSession,
     FailPrev,
     ClearSession, FailOwn, ReadResponse, DeliverReply

-----------------------------------------------------------------------------
(* The sessions.                                                           *)

LEMMA KeepsSessions ==
  ASSUME RpcInv, [RpcNext]_rpcvars PROVE SessionsOK' /\ NewestIsCurrent'
<1>1. /\ hub \in Session \cup {NoRpc} /\ NoRpc \notin Session
      /\ phase \in [Session -> {"new", "replacing", "up", "failing", "gone"}]
      /\ prev \in [Session -> Session \cup {NoRpc}]
      /\ SessionsOK /\ NewestIsCurrent
  BY ZenonT(30), HubRpcAssumption DEF RpcInv, RpcTypeOK
<1>2. ASSUME NEW s \in Session, SetSession(s) PROVE SessionsOK' /\ NewestIsCurrent'
  <2>1. hub # s /\ prev[s] = NoRpc /\ \A n \in Session : prev[n] # s
    BY ZenonT(30), <1>1, <1>2 DEF SetSession, SessionsOK
  <2>2. /\ hub' = s /\ prev' = [prev EXCEPT ![s] = hub]
        /\ phase' = [phase EXCEPT ![s] = "replacing"]
    BY ZenonT(30), <1>2 DEF SetSession
  <2>3. SessionsOK'
    BY ZenonT(30), <1>1, <2>1, <2>2 DEF SessionsOK
  <2>4. ASSUME NEW t \in Session, t # s, phase'[t] \in {"replacing", "up"},
               \A n \in Session : prev'[n] # t
        PROVE  FALSE
    <3>1. \A n \in Session : prev[n] # t
      BY ZenonT(30), <1>1, <2>1, <2>2, <2>4
    <3> QED
      BY ZenonT(30), <1>1, <2>2, <2>4, <3>1 DEF NewestIsCurrent
  <2> QED
    BY ZenonT(30), <2>2, <2>3, <2>4 DEF NewestIsCurrent
<1>3. ASSUME NEW s \in Session, FailPrev(s) PROVE SessionsOK' /\ NewestIsCurrent'
  BY ZenonT(30), <1>1, <1>3 DEF FailPrev, SessionsOK, NewestIsCurrent
<1>4. ASSUME NEW s \in Session, ClearSession(s) PROVE SessionsOK' /\ NewestIsCurrent'
  BY ZenonT(30), <1>1, <1>4 DEF ClearSession, SessionsOK, NewestIsCurrent
<1>5. ASSUME NEW s \in Session, FailOwn(s) PROVE SessionsOK' /\ NewestIsCurrent'
  BY ZenonT(30), <1>1, <1>5 DEF FailOwn, SessionsOK, NewestIsCurrent
<1>6. CASE UNCHANGED <<hub, phase, prev>>
  BY ZenonT(30), <1>1, <1>6 DEF SessionsOK, NewestIsCurrent
<1> QED
  BY ZenonT(30), <1>2, <1>3, <1>4, <1>5, <1>6, SessionWriters

-----------------------------------------------------------------------------
(* The callers.                                                            *)

\* A session ends when failWaiters runs for it, and at no other step.
LEMMA EndedStep ==
  ASSUME RpcInv, [RpcNext]_rpcvars, NEW s \in Session, Ended(s)'
  PROVE  \/ Ended(s)
         \/ FailOwn(s)
         \/ \E n \in Session : prev[n] = s /\ FailPrev(n)
<1>1. /\ phase \in [Session -> {"new", "replacing", "up", "failing", "gone"}]
      /\ prev \in [Session -> Session \cup {NoRpc}] /\ SessionsOK
  BY ZenonT(30) DEF RpcInv, RpcTypeOK
<1>2. ASSUME NEW t \in Session, SetSession(t) PROVE Ended(s)
  BY ZenonT(30), <1>1, <1>2 DEF SetSession, Ended, SessionsOK
<1>3. ASSUME NEW t \in Session, FailPrev(t) PROVE Ended(s) \/ (prev[t] = s /\ FailPrev(t))
  BY ZenonT(30), <1>1, <1>3 DEF FailPrev, Ended
<1>4. ASSUME NEW t \in Session, ClearSession(t) PROVE Ended(s)
  BY ZenonT(30), <1>1, <1>4 DEF ClearSession, Ended
<1>5. ASSUME NEW t \in Session, FailOwn(t) PROVE Ended(s) \/ FailOwn(s)
  BY ZenonT(30), <1>1, <1>5 DEF FailOwn, Ended
<1>6. CASE UNCHANGED <<hub, phase, prev>>
  BY ZenonT(30), <1>6 DEF Ended
<1> QED
  BY ZenonT(30), <1>2, <1>3, <1>4, <1>5, <1>6, SessionWriters

\* The current session has not ended.
LEMMA CurrentNotEnded ==
  ASSUME RpcInv, hub # NoRpc PROVE ~Ended(hub)
<1>1. /\ hub \in Session \cup {NoRpc} /\ SessionsOK
      /\ prev \in [Session -> Session \cup {NoRpc}]
  BY ZenonT(30) DEF RpcInv, RpcTypeOK
<1> QED
  BY ZenonT(30), <1>1 DEF SessionsOK, Ended

\* failWaiters: the map is empty and everybody who was in it has an answer.
LEMMA FailWaiters ==
  ASSUME RpcInv, NEW s \in Session, rpcCh' = Failed(s), rpcWaiters' = [rpcWaiters EXCEPT ![s] = {}],
         UNCHANGED <<rpcPc, sess>>
  PROVE  /\ WaitersOK' /\ CallsOK' /\ rpcWaiters'[s] = {}
         /\ \A t \in Session : rpcWaiters[t] = {} => rpcWaiters'[t] = {}
<1>1. /\ rpcWaiters \in [Session -> SUBSET Req] /\ rpcCh \in [Req -> Kind \cup {"lost", NoRpc}]
      /\ sess \in [Req -> Session \cup {NoRpc}] /\ WaitersOK /\ CallsOK /\ NoRpc # "lost"
  BY ZenonT(30), HubRpcAssumption DEF RpcInv, RpcTypeOK
<1>2. \A t \in Session : rpcWaiters'[t] = IF t = s THEN {} ELSE rpcWaiters[t]
  BY ZenonT(30), <1>1
<1>3. \A r \in Req : rpcCh'[r] = IF r \in rpcWaiters[s] /\ rpcCh[r] = NoRpc THEN "lost" ELSE rpcCh[r]
  BY ZenonT(30) DEF Failed
<1>4. WaitersOK'
  BY ZenonT(30), <1>1, <1>2 DEF WaitersOK, InCall
<1>5. CallsOK'
  BY ZenonT(30), <1>1, <1>2, <1>3 DEF CallsOK, InCall
<1> QED
  BY ZenonT(30), <1>2, <1>4, <1>5

LEMMA KeepsCalls ==
  ASSUME RpcInv, [RpcNext]_rpcvars PROVE WaitersOK' /\ CallsOK'
<1>1. /\ rpcWaiters \in [Session -> SUBSET Req] /\ rpcCh \in [Req -> Kind \cup {"lost", NoRpc}]
      /\ rpcPc \in [Req -> {"start", "send", "wait", "cleanup", "done"}]
      /\ sess \in [Req -> Session \cup {NoRpc}] /\ hub \in Session \cup {NoRpc}
      /\ WaitersOK /\ CallsOK /\ NoRpc \notin Session
  BY ZenonT(30), HubRpcAssumption DEF RpcInv, RpcTypeOK
<1>2. ASSUME NEW s \in Session, FailPrev(s) PROVE WaitersOK' /\ CallsOK'
  <2>1. CASE prev[s] = NoRpc
    BY ZenonT(30), <1>1, <1>2, <2>1 DEF FailPrev, rpcCallVars, WaitersOK, CallsOK, InCall
  <2>2. CASE prev[s] # NoRpc
    <3>1. prev[s] \in Session
      BY ZenonT(30), <2>2 DEF RpcInv, RpcTypeOK
    <3> QED
      BY ZenonT(30), <1>2, <2>2, <3>1, FailWaiters DEF FailPrev, rpcCallVars
  <2> QED
    BY ZenonT(30), <2>1, <2>2
<1>3. ASSUME NEW s \in Session, FailOwn(s) PROVE WaitersOK' /\ CallsOK'
  BY ZenonT(30), <1>3, FailWaiters DEF FailOwn, rpcCallVars
<1>4. ASSUME NEW s \in Session, DeliverReply(s) PROVE WaitersOK' /\ CallsOK'
  <2>1. UNCHANGED <<rpcWaiters, rpcPc, sess>>
    BY ZenonT(30), <1>4 DEF DeliverReply, rpcCallVars
  <2>2. \A r \in Req : rpcCh[r] # NoRpc => rpcCh'[r] # NoRpc
    BY ZenonT(30), <1>1, <1>4 DEF DeliverReply
  <2>3. WaitersOK'
    BY ZenonT(30), <1>1, <2>1 DEF WaitersOK, InCall
  <2>4. CallsOK'
    BY ZenonT(30), <1>1, <2>1, <2>2 DEF CallsOK, InCall
  <2> QED
    BY ZenonT(30), <2>3, <2>4
<1>5. ASSUME NEW r \in Req, RegisterRpc(r) PROVE WaitersOK' /\ CallsOK'
  <2>1. /\ hub \in Session /\ rpcPc[r] = "start" /\ rpcCh' = rpcCh
        /\ sess' = [sess EXCEPT ![r] = hub] /\ rpcPc' = [rpcPc EXCEPT ![r] = "send"]
        /\ rpcWaiters' = [rpcWaiters EXCEPT ![hub] = @ \cup {r}]
    BY ZenonT(30), <1>1, <1>5 DEF RegisterRpc
  <2>2. WaitersOK'
    BY <1>1, <2>1 DEF WaitersOK, InCall
  <2>3. CallsOK'
    BY ZenonT(30), <1>1, <2>1 DEF CallsOK, InCall
  <2> QED
    BY ZenonT(30), <2>2, <2>3
<1>6. ASSUME NEW r \in Req, Refuse(r) PROVE WaitersOK' /\ CallsOK'
  <2>1. /\ UNCHANGED <<rpcWaiters, sess, rpcCh>> /\ rpcPc[r] = "start"
        /\ rpcPc' = [rpcPc EXCEPT ![r] = "done"]
    BY ZenonT(30), <1>6 DEF Refuse, agentVars
  <2> QED
    BY <1>1, <2>1 DEF WaitersOK, CallsOK, InCall
<1>7. ASSUME NEW r \in Req, Send(r) \/ ReceiveReply(r) \/ Timeout(r) PROVE WaitersOK' /\ CallsOK'
  <2>1. /\ UNCHANGED <<rpcWaiters, sess, rpcCh>> /\ rpcPc[r] \in {"send", "wait"}
        /\ \E w \in {"wait", "cleanup"} : rpcPc' = [rpcPc EXCEPT ![r] = w]
    BY ZenonT(30), <1>7 DEF Send, ReceiveReply, Timeout, ReturnCall, agentVars
  <2>2. PICK w \in {"wait", "cleanup"} : rpcPc' = [rpcPc EXCEPT ![r] = w]
    BY ZenonT(30), <2>1
  <2>3. WaitersOK'
    BY ZenonT(30), <1>1, <2>1, <2>2 DEF WaitersOK, InCall
  <2>4. CallsOK'
    BY ZenonT(30), <1>1, <2>1, <2>2 DEF CallsOK, InCall
  <2> QED
    BY ZenonT(30), <2>3, <2>4
<1>8. ASSUME NEW r \in Req, CleanupCall(r) PROVE WaitersOK' /\ CallsOK'
  <2>1. /\ UNCHANGED <<sess, rpcCh>> /\ rpcPc[r] = "cleanup" /\ rpcPc' = [rpcPc EXCEPT ![r] = "done"]
        /\ rpcWaiters' = [rpcWaiters EXCEPT ![sess[r]] = @ \ {r}] /\ sess[r] \in Session
    BY ZenonT(30), <1>1, <1>8 DEF CleanupCall, CallsOK, InCall
  <2>2. WaitersOK'
    BY <1>1, <2>1 DEF WaitersOK, InCall
  <2>3. CallsOK'
    BY ZenonT(30), <1>1, <2>1 DEF CallsOK, InCall
  <2> QED
    BY ZenonT(30), <2>2, <2>3
<1>9. CASE UNCHANGED <<rpcWaiters, rpcCh, rpcPc, sess>>
  BY ZenonT(30), <1>1, <1>9 DEF WaitersOK, CallsOK, InCall
<1> QED
  BY ZenonT(30), <1>2, <1>3, <1>4, <1>5, <1>6, <1>7, <1>8, <1>9, WaiterWriters DEF SendCall

\* A map that was emptied stays empty: a call registers in the current session.
LEMMA KeepsEndedEmpty ==
  ASSUME RpcInv, [RpcNext]_rpcvars PROVE EndedEmpty'
<1>1. /\ rpcWaiters \in [Session -> SUBSET Req] /\ EndedEmpty
      /\ sess \in [Req -> Session \cup {NoRpc}] /\ hub \in Session \cup {NoRpc}
      /\ prev \in [Session -> Session \cup {NoRpc}] /\ NoRpc \notin Session
  BY ZenonT(30), HubRpcAssumption DEF RpcInv, RpcTypeOK
<1>2. ASSUME NEW s \in Session, Ended(s) PROVE rpcWaiters'[s] = {}
  <2>1. rpcWaiters[s] = {}
    BY ZenonT(30), <1>1, <1>2 DEF EndedEmpty
  <2>2. ASSUME NEW n \in Session, FailPrev(n) PROVE rpcWaiters'[s] = {}
    BY ZenonT(30), <1>1, <2>1, <2>2 DEF FailPrev
  <2>3. ASSUME NEW n \in Session, FailOwn(n) PROVE rpcWaiters'[s] = {}
    BY ZenonT(30), <1>1, <2>1, <2>3 DEF FailOwn
  <2>4. ASSUME NEW n \in Session, DeliverReply(n) PROVE rpcWaiters'[s] = {}
    BY ZenonT(30), <2>1, <2>4 DEF DeliverReply
  <2>5. ASSUME NEW r \in Req, RegisterRpc(r) PROVE rpcWaiters'[s] = {}
    <3>1. hub # s /\ rpcWaiters' = [rpcWaiters EXCEPT ![hub] = @ \cup {r}]
      BY ZenonT(30), <1>2, <2>5, CurrentNotEnded DEF RegisterRpc
    <3> QED
      BY ZenonT(30), <1>1, <2>1, <3>1
  <2>6. ASSUME NEW r \in Req, CleanupCall(r) PROVE rpcWaiters'[s] = {}
    BY ZenonT(30), <1>1, <2>1, <2>6 DEF CleanupCall
  <2>7. ASSUME NEW r \in Req, Refuse(r) \/ Send(r) \/ ReceiveReply(r) \/ Timeout(r)
        PROVE  rpcWaiters'[s] = {}
    BY ZenonT(30), <2>1, <2>7 DEF Refuse, Send, ReceiveReply, Timeout, agentVars
  <2> QED
    BY ZenonT(30), <2>1, <2>2, <2>3, <2>4, <2>5, <2>6, <2>7, WaiterWriters DEF SendCall
<1>3. ASSUME NEW s \in Session, FailOwn(s) PROVE rpcWaiters'[s] = {}
  BY ZenonT(30), <1>1, <1>3 DEF FailOwn
<1>4. ASSUME NEW s \in Session, NEW n \in Session, prev[n] = s, FailPrev(n) PROVE rpcWaiters'[s] = {}
  BY ZenonT(30), <1>1, <1>4 DEF FailPrev
<1> QED
  BY ZenonT(30), <1>2, <1>3, <1>4, EndedStep DEF EndedEmpty

-----------------------------------------------------------------------------
(* The requests.                                                           *)

\* A step of a call that is not Send leaves the wire alone.
LEMMA CallLeavesWire ==
  ASSUME NEW r \in Req, RegisterRpc(r) \/ Refuse(r) \/ ReceiveReply(r) \/ Timeout(r) \/ CleanupCall(r)
  PROVE  UNCHANGED <<up, handler, on, sent, inFlight>>
  BY ZenonT(30) DEF RegisterRpc, Refuse, ReceiveReply, Timeout, CleanupCall, wireVars, hubVars

LEMMA KeepsWire ==
  ASSUME RpcInv, [RpcNext]_rpcvars PROVE WireOK'
<1>1. /\ up \in [Session -> SUBSET Req] /\ on \in [Req -> Session \cup {NoRpc}]
      /\ rpcPc \in [Req -> {"start", "send", "wait", "cleanup", "done"}]
      /\ sess \in [Req -> Session \cup {NoRpc}] /\ broken \in [Session -> BOOLEAN]
      /\ handler \in [Req -> {"none", "enter", "serve", "leave", "panic", "recover", "done"}]
      /\ WireOK /\ CallsOK
  BY ZenonT(30) DEF RpcInv, RpcTypeOK
<1>2. ASSUME NEW s \in Session, BreakSession(s) PROVE WireOK'
  <2>1. up' = [up EXCEPT ![s] = {}] /\ UNCHANGED <<rpcPc, sess, handler, on>>
    BY ZenonT(30), <1>2 DEF BreakSession, rpcCallVars, hubVars
  <2> QED
    BY ZenonT(30), <1>1, <2>1 DEF WireOK
<1>3. ASSUME NEW s \in Session, ReadRequest(s) PROVE WireOK'
  <2>1. UNCHANGED <<rpcPc, sess>>
    BY ZenonT(30), <1>3 DEF ReadRequest, rpcCallVars
  <2>2. PICK r \in up[s] : /\ up' = [up EXCEPT ![s] = @ \ {r}]
                           /\ handler' = [handler EXCEPT ![r] = "enter"] /\ on' = [on EXCEPT ![r] = s]
    BY ZenonT(30), <1>3 DEF ReadRequest
  <2>3. r \in Req /\ sess[r] = s /\ rpcPc[r] \notin {"start", "send"}
    BY ZenonT(30), <1>1, <2>2 DEF WireOK
  <2> QED
    BY <1>1, <2>1, <2>2, <2>3 DEF WireOK
<1>4. ASSUME NEW r \in Req, Send(r) PROVE WireOK'
  <2>1. /\ UNCHANGED <<sess, handler, on>> /\ rpcPc[r] = "send" /\ sess[r] \in Session
        /\ handler[r] = "none"
    <3>1. UNCHANGED <<sess, handler, on>> /\ rpcPc[r] = "send"
      BY ZenonT(30), <1>4 DEF Send, agentVars, hubVars
    <3>2. sess[r] \in Session
      BY ZenonT(30), <1>1, <3>1 DEF CallsOK, InCall
    <3>3. handler[r] = "none"
      BY ZenonT(30), <1>1, <3>1 DEF WireOK
    <3> QED
      BY ZenonT(30), <3>1, <3>2, <3>3
  <2>2. CASE /\ up' = [up EXCEPT ![sess[r]] = IF broken[sess[r]] THEN {} ELSE @ \cup {r}]
             /\ rpcPc' = [rpcPc EXCEPT ![r] = "wait"]
    BY <1>1, <2>1, <2>2 DEF WireOK
  <2>3. CASE up' = up /\ rpcPc' = [rpcPc EXCEPT ![r] = "cleanup"]
    BY ZenonT(30), <1>1, <2>1, <2>3 DEF WireOK
  <2> QED
    BY ZenonT(30), <1>4, <2>2, <2>3 DEF Send, ReturnCall
<1>5. ASSUME NEW r \in Req, RegisterRpc(r) PROVE WireOK'
  <2>1. /\ UNCHANGED <<up, handler, on>> /\ rpcPc[r] = "start"
        /\ sess' = [sess EXCEPT ![r] = hub] /\ rpcPc' = [rpcPc EXCEPT ![r] = "send"]
    BY ZenonT(30), <1>5, CallLeavesWire DEF RegisterRpc
  <2> QED
    BY ZenonT(30), <1>1, <2>1 DEF WireOK
<1>6. ASSUME NEW r \in Req, Refuse(r) \/ ReceiveReply(r) \/ Timeout(r) \/ CleanupCall(r) PROVE WireOK'
  <2>1. UNCHANGED <<up, handler, on>>
    BY ZenonT(30), <1>6, CallLeavesWire
  <2>2. sess' = sess /\ \E w \in {"cleanup", "done"} : rpcPc' = [rpcPc EXCEPT ![r] = w]
    BY ZenonT(30), <1>6 DEF Refuse, ReceiveReply, Timeout, CleanupCall, ReturnCall
  <2> QED
    BY <1>1, <2>1, <2>2 DEF WireOK
<1>7. ASSUME NEW r \in Req, Handle(r) PROVE WireOK'
  <2>1. UNCHANGED <<rpcPc, sess, up, on>> /\ handler[r] # "none"
    BY ZenonT(30), <1>7 DEF Handle, Enter, Serve, Leave, Recover, rpcCallVars, wireVars
  <2>2. \A q \in Req : q # r => handler'[q] = handler[q]
    BY ZenonT(30), <1>1, <1>7 DEF Handle, Enter, Serve, Leave, Recover, Becomes
  <2> QED
    BY ZenonT(30), <1>1, <2>1, <2>2 DEF WireOK
<1>8. CASE UNCHANGED <<rpcPc, sess, up, handler, on>>
  BY ZenonT(30), <1>1, <1>8 DEF WireOK
<1> QED
  BY ZenonT(30), <1>2, <1>3, <1>4, <1>5, <1>6, <1>7, <1>8, RequestWriters DEF SendCall

\* handleHubRequest of one request: its next place, what it counts and sends.
LEMMA HandleStep ==
  ASSUME RpcInv, NEW r \in Req, Handle(r)
  PROVE  \E w \in {"serve", "leave", "panic", "recover", "done"} :
            /\ handler' = [handler EXCEPT ![r] = w]
            /\ \/ handler[r] = "enter" /\ w = "done" /\ inFlight' = inFlight
                  /\ sent' = [sent EXCEPT ![r] = @ + 1]
               \/ handler[r] = "enter" /\ w = "serve" /\ inFlight < MaxInFlight
                  /\ inFlight' = inFlight + 1 /\ sent' = sent
               \/ handler[r] = "serve" /\ w = "leave" /\ inFlight' = inFlight
                  /\ sent' = [sent EXCEPT ![r] = @ + 1]
               \/ handler[r] = "serve" /\ w = "panic" /\ inFlight' = inFlight /\ sent' = sent
               \/ handler[r] = "leave" /\ w = "done" /\ inFlight' = inFlight - 1 /\ sent' = sent
               \/ handler[r] = "panic" /\ w = "recover" /\ inFlight' = inFlight - 1 /\ sent' = sent
               \/ handler[r] = "recover" /\ w = "done" /\ inFlight' = inFlight
                  /\ sent' = [sent EXCEPT ![r] = @ + 1]
<1>1. CASE Enter(r)
  BY ZenonT(30), <1>1 DEF Enter, Becomes, Answer
<1>2. CASE Serve(r)
  BY ZenonT(30), <1>2 DEF Serve, Becomes, Answer
<1>3. CASE Leave(r)
  <2>1. CASE handler[r] = "leave"
    BY ZenonT(30), <1>3, <2>1 DEF Leave, Becomes
  <2>2. CASE handler[r] = "panic"
    BY ZenonT(30), <1>3, <2>2 DEF Leave, Becomes
  <2> QED
    BY ZenonT(30), <1>3, <2>1, <2>2 DEF Leave
<1>4. CASE Recover(r)
  BY ZenonT(30), <1>4 DEF Recover, Becomes, Answer
<1> QED
  BY ZenonT(30), <1>1, <1>2, <1>3, <1>4 DEF Handle

\* A request that is read was not handled before.
LEMMA ReadStep ==
  ASSUME RpcInv, NEW s \in Session, ReadRequest(s)
  PROVE  /\ UNCHANGED <<sent, inFlight>>
         /\ \E r \in Req : handler[r] = "none" /\ handler' = [handler EXCEPT ![r] = "enter"]
<1>1. up \in [Session -> SUBSET Req] /\ WireOK
  BY ZenonT(30) DEF RpcInv, RpcTypeOK
<1> QED
  BY ZenonT(30), <1>1 DEF ReadRequest, WireOK

LEMMA KeepsAnswered ==
  ASSUME RpcInv, [RpcNext]_rpcvars PROVE AnsweredOK'
<1>1. /\ handler \in [Req -> {"none", "enter", "serve", "leave", "panic", "recover", "done"}]
      /\ sent \in [Req -> Nat] /\ AnsweredOK
  BY ZenonT(30) DEF RpcInv, RpcTypeOK
<1>2. ASSUME NEW r \in Req, Handle(r) PROVE AnsweredOK'
  <2>1. PICK w \in {"serve", "leave", "panic", "recover", "done"} :
          /\ handler' = [handler EXCEPT ![r] = w]
          /\ \/ handler[r] \in {"enter", "serve", "recover"} /\ w \in {"leave", "done"}
                /\ sent' = [sent EXCEPT ![r] = @ + 1]
             \/ sent' = sent /\ (handler[r] = "leave" <=> w = "done")
                /\ handler[r] \in {"enter", "serve", "leave", "panic"} /\ w # "leave"
    BY ZenonT(30), <1>2, HandleStep
  <2> QED
    BY <1>1, <2>1 DEF AnsweredOK
<1>3. ASSUME NEW s \in Session, ReadRequest(s) PROVE AnsweredOK'
  BY ZenonT(30), <1>1, <1>3, ReadStep DEF AnsweredOK
<1>4. CASE UNCHANGED <<handler, sent>>
  BY ZenonT(30), <1>1, <1>4 DEF AnsweredOK
<1>5. ASSUME NEW s \in Session, BreakSession(s) PROVE UNCHANGED <<handler, sent>>
  BY ZenonT(30), <1>5 DEF BreakSession, hubVars
<1>6. ASSUME NEW r \in Req, Send(r) PROVE UNCHANGED <<handler, sent>>
  BY ZenonT(30), <1>6 DEF Send, hubVars
<1> QED
  BY ZenonT(30), <1>2, <1>3, <1>4, <1>5, <1>6, RequestWriters, CallLeavesWire DEF SendCall

LEMMA KeepsCount ==
  ASSUME RpcInv, [RpcNext]_rpcvars PROVE CountOK'
<1> DEFINE Here == {"serve", "leave", "panic"}
<1>1. /\ handler \in [Req -> {"none", "enter", "serve", "leave", "panic", "recover", "done"}]
      /\ inFlight \in Nat /\ MaxInFlight \in Nat /\ IsFiniteSet(Req) /\ CountOK
  BY ZenonT(30), HubRpcAssumption DEF RpcInv, RpcTypeOK
<1>2. IsFiniteSet(Counted) /\ Cardinality(Counted) = inFlight /\ inFlight <= MaxInFlight
  BY ZenonT(30), <1>1, FS_Subset DEF Counted, CountOK
<1>3. ASSUME NEW r \in Req, Handle(r) PROVE CountOK'
  <2>1. PICK w \in {"serve", "leave", "panic", "recover", "done"} :
          /\ handler' = [handler EXCEPT ![r] = w]
          /\ \/ inFlight' = inFlight /\ (handler[r] \in Here <=> w \in Here)
             \/ inFlight' = inFlight + 1 /\ inFlight < MaxInFlight /\ handler[r] \notin Here /\ w \in Here
             \/ inFlight' = inFlight - 1 /\ handler[r] \in Here /\ w \notin Here
    BY ZenonT(30), <1>3, HandleStep
  <2>2. CASE inFlight' = inFlight /\ (handler[r] \in Here <=> w \in Here)
    <3>1. Counted' = Counted
      BY ZenonT(30), <1>1, <2>1, <2>2 DEF Counted
    <3> QED
      BY ZenonT(30), <1>2, <2>2, <3>1 DEF CountOK
  <2>3. CASE inFlight' = inFlight + 1 /\ inFlight < MaxInFlight /\ handler[r] \notin Here /\ w \in Here
    <3>1. Counted' = Counted \cup {r} /\ r \notin Counted
      BY ZenonT(30), <1>1, <2>1, <2>3 DEF Counted
    <3>2. Cardinality(Counted') = inFlight + 1
      BY ZenonT(30), <1>2, <3>1, FS_AddElement
    <3> QED
      BY <1>1, <2>3, <3>2 DEF CountOK
  <2>4. CASE inFlight' = inFlight - 1 /\ handler[r] \in Here /\ w \notin Here
    <3>1. Counted' = Counted \ {r} /\ r \in Counted
      BY ZenonT(30), <1>1, <2>1, <2>4 DEF Counted
    <3>2. Cardinality(Counted') = inFlight - 1
      BY ZenonT(30), <1>2, <3>1, FS_RemoveElement
    <3> QED
      BY <1>1, <1>2, <2>4, <3>2 DEF CountOK
  <2> QED
    BY ZenonT(30), <2>1, <2>2, <2>3, <2>4
<1>4. ASSUME NEW s \in Session, ReadRequest(s) PROVE CountOK'
  <2>1. Counted' = Counted /\ inFlight' = inFlight
    BY ZenonT(30), <1>1, <1>4, ReadStep DEF Counted
  <2> QED
    BY ZenonT(30), <1>2, <2>1 DEF CountOK
<1>5. CASE UNCHANGED <<handler, inFlight>>
  BY ZenonT(30), <1>1, <1>5 DEF CountOK, Counted
<1>6. ASSUME NEW s \in Session, BreakSession(s) PROVE UNCHANGED <<handler, inFlight>>
  BY ZenonT(30), <1>6 DEF BreakSession, hubVars
<1>7. ASSUME NEW r \in Req, Send(r) PROVE UNCHANGED <<handler, inFlight>>
  BY ZenonT(30), <1>7 DEF Send, hubVars
<1> QED
  BY ZenonT(30), <1>3, <1>4, <1>5, <1>6, <1>7, RequestWriters, CallLeavesWire DEF SendCall

-----------------------------------------------------------------------------
(* Types, and the theorem.                                                 *)

\* A fault is counted.
LEMMA FaultTypes ==
  ASSUME RpcInv, NEW kind \in {"breaks", "stuck", "timeouts"}, RpcFault(kind)
  PROVE  rpcUsed' \in [breaks : Nat, stuck : Nat, timeouts : Nat]
<1>1. rpcUsed \in [breaks : Nat, stuck : Nat, timeouts : Nat]
  BY ZenonT(30) DEF RpcInv, RpcTypeOK
<1>2. rpcUsed' = [rpcUsed EXCEPT ![kind] = @ + 1]
  BY ZenonT(30) DEF RpcFault
<1> QED
  BY <1>1, <1>2

\* A response goes to the wire of the connection its request came from.
LEMMA AnswerTypes ==
  ASSUME RpcInv, NEW r \in Req, NEW k \in Kind, handler[r] # "none", Answer(r, k)
  PROVE  /\ down' \in [Session -> SUBSET Response] /\ sent' \in [Req -> Nat]
         /\ rpcUsed' \in [breaks : Nat, stuck : Nat, timeouts : Nat]
<1>1. /\ on[r] \in Session /\ down \in [Session -> SUBSET Response] /\ sent \in [Req -> Nat]
      /\ rpcUsed \in [breaks : Nat, stuck : Nat, timeouts : Nat] /\ broken \in [Session -> BOOLEAN]
  BY ZenonT(30) DEF RpcInv, RpcTypeOK, WireOK
<1>2. [req |-> r, kind |-> k] \in Response
  BY ZenonT(30) DEF Response
<1>3. Put(on[r], r, k) \in SUBSET Response
  BY ZenonT(30), <1>1, <1>2 DEF Put
<1>4. down' \in [Session -> SUBSET Response]
  BY ZenonT(30), <1>1, <1>3 DEF Answer
<1>5. sent' \in [Req -> Nat]
  BY SMTT(30), <1>1 DEF Answer
<1>6. rpcUsed' \in [breaks : Nat, stuck : Nat, timeouts : Nat]
  BY ZenonT(30), <1>1, FaultTypes DEF Answer, StuckSession
<1> QED
  BY ZenonT(30), <1>4, <1>5, <1>6

LEMMA KeepsSessionTypes ==
  ASSUME RpcInv, NEW s \in Session, HubConnection(s) \/ BreakSession(s) \/ ReadRequest(s)
  PROVE  RpcTypeOK'
<1>1. SetSession(s) => RpcTypeOK'
  BY SMTT(30) DEF RpcInv, RpcTypeOK, SetSession, rpcCallVars, wireVars, hubVars
<1>2. FailPrev(s) => RpcTypeOK'
  BY SMTT(30) DEF RpcInv, RpcTypeOK, FailPrev, Failed, rpcCallVars, wireVars, hubVars
<1>3. ClearSession(s) => RpcTypeOK'
  BY ZenonT(30) DEF RpcInv, RpcTypeOK, ClearSession, rpcCallVars, wireVars, hubVars
<1>4. FailOwn(s) => RpcTypeOK'
  BY SMTT(30) DEF RpcInv, RpcTypeOK, FailOwn, Failed, rpcCallVars, wireVars, hubVars
<1>5. ReadResponse(s) => RpcTypeOK'
  BY SMTT(30) DEF RpcInv, RpcTypeOK, ReadResponse, rpcCallVars, hubVars
<1>6. DeliverReply(s) => RpcTypeOK'
  <2> SUFFICES ASSUME DeliverReply(s) PROVE RpcTypeOK'
    BY ZenonT(30)
  <2>1. rpcReading[s] \in Response
    BY ZenonT(30) DEF RpcInv, RpcTypeOK, DeliverReply
  <2>2. rpcReading[s].req \in Req /\ rpcReading[s].kind \in Kind
    BY ZenonT(30), <2>1 DEF Response
  <2>3. rpcCh' \in [Req -> Kind \cup {"lost", NoRpc}]
    <3>1. rpcCh \in [Req -> Kind \cup {"lost", NoRpc}]
      BY ZenonT(30) DEF RpcInv, RpcTypeOK
    <3>2. PICK v \in {rpcCh[rpcReading[s].req], rpcReading[s].kind} :
            rpcCh' = [rpcCh EXCEPT ![rpcReading[s].req] = v]
      BY ZenonT(30), <3>1, <2>2 DEF DeliverReply
    <3> QED
      BY ZenonT(30), <3>1, <3>2, <2>2
  <2> QED
    BY ZenonT(30), <2>3 DEF RpcInv, RpcTypeOK, DeliverReply, rpcCallVars, wireVars, hubVars
<1>7. BreakSession(s) => RpcTypeOK'
  <2> SUFFICES ASSUME BreakSession(s) PROVE RpcTypeOK'
    BY ZenonT(30)
  <2>1. /\ broken \in [Session -> BOOLEAN] /\ up \in [Session -> SUBSET Req]
        /\ down \in [Session -> SUBSET Response]
    BY ZenonT(30) DEF RpcInv, RpcTypeOK
  <2>2. /\ broken' = [broken EXCEPT ![s] = TRUE] /\ up' = [up EXCEPT ![s] = {}]
        /\ down' = [down EXCEPT ![s] = {}] /\ RpcFault("breaks")
    BY ZenonT(30) DEF BreakSession
  <2>3. /\ broken' \in [Session -> BOOLEAN] /\ up' \in [Session -> SUBSET Req]
        /\ down' \in [Session -> SUBSET Response]
    BY ZenonT(30), <2>1, <2>2
  <2>4. rpcUsed' \in [breaks : Nat, stuck : Nat, timeouts : Nat]
    BY ZenonT(30), <2>2, FaultTypes
  <2> QED
    BY ZenonT(30), <2>3, <2>4 DEF RpcInv, RpcTypeOK, BreakSession, rpcCallVars, hubVars
<1>8. ReadRequest(s) => RpcTypeOK'
  <2> SUFFICES ASSUME ReadRequest(s) PROVE RpcTypeOK'
    BY ZenonT(30)
  <2>1. /\ up \in [Session -> SUBSET Req] /\ on \in [Req -> Session \cup {NoRpc}]
        /\ handler \in [Req -> {"none", "enter", "serve", "leave", "panic", "recover", "done"}]
    BY ZenonT(30) DEF RpcInv, RpcTypeOK
  <2>2. PICK r \in up[s] : /\ up' = [up EXCEPT ![s] = @ \ {r}]
                           /\ handler' = [handler EXCEPT ![r] = "enter"] /\ on' = [on EXCEPT ![r] = s]
    BY ZenonT(30) DEF ReadRequest
  <2>3. /\ up' \in [Session -> SUBSET Req] /\ on' \in [Req -> Session \cup {NoRpc}]
        /\ handler' \in [Req -> {"none", "enter", "serve", "leave", "panic", "recover", "done"}]
    BY ZenonT(30), <2>1, <2>2
  <2> QED
    BY ZenonT(30), <2>3 DEF RpcInv, RpcTypeOK, ReadRequest, agentVars, rpcCallVars
<1> QED
  BY ZenonT(30), <1>1, <1>2, <1>3, <1>4, <1>5, <1>6, <1>7, <1>8 DEF HubConnection

LEMMA KeepsCallTypes ==
  ASSUME RpcInv, NEW r \in Req, SendCall(r) \/ Timeout(r) PROVE RpcTypeOK'
<1> DEFINE Stage == {"start", "send", "wait", "cleanup", "done"}
<1> DEFINE Result == Kind \cup {"lost", "disconnected", "tooLarge", "stuck", "timeout", NoRpc}
<1>0. /\ rpcPc \in [Req -> Stage] /\ rpcResult \in [Req -> Result]
      /\ sess \in [Req -> Session \cup {NoRpc}] /\ rpcCh \in [Req -> Kind \cup {"lost", NoRpc}]
      /\ up \in [Session -> SUBSET Req] /\ broken \in [Session -> BOOLEAN]
      /\ rpcWaiters \in [Session -> SUBSET Req] /\ hub \in Session \cup {NoRpc}
      /\ rpcUsed \in [breaks : Nat, stuck : Nat, timeouts : Nat]
  BY ZenonT(30) DEF RpcInv, RpcTypeOK
<1>1. ASSUME NEW what \in Result, ReturnCall(r, what)
      PROVE  rpcPc' \in [Req -> Stage] /\ rpcResult' \in [Req -> Result]
  BY ZenonT(30), <1>0, <1>1 DEF ReturnCall
<1>2. RegisterRpc(r) => RpcTypeOK'
  BY SMTT(30) DEF RpcInv, RpcTypeOK, RegisterRpc, wireVars, hubVars
<1>3. Refuse(r) => RpcTypeOK'
  BY SMTT(30) DEF RpcInv, RpcTypeOK, Refuse, agentVars, wireVars, hubVars
<1>4. Send(r) => RpcTypeOK'
  <2> SUFFICES ASSUME Send(r) PROVE RpcTypeOK'
    BY ZenonT(30)
  <2>1. sess[r] \in Session
    BY ZenonT(30) DEF RpcInv, CallsOK, InCall, Send
  <2>2. CASE /\ up' = [up EXCEPT ![sess[r]] = IF broken[sess[r]] THEN {} ELSE @ \cup {r}]
             /\ rpcPc' = [rpcPc EXCEPT ![r] = "wait"] /\ UNCHANGED <<rpcResult, rpcUsed>>
    <3>1. up' \in [Session -> SUBSET Req] /\ rpcPc' \in [Req -> Stage]
      BY ZenonT(30), <1>0, <2>1, <2>2
    <3> QED
      BY ZenonT(30), <1>0, <2>2, <3>1 DEF RpcInv, RpcTypeOK, Send, agentVars, hubVars
  <2>3. CASE StuckSession /\ ReturnCall(r, "stuck") /\ UNCHANGED up
    <3>1. rpcPc' \in [Req -> Stage] /\ rpcResult' \in [Req -> Result]
      BY ZenonT(30), <1>1, <2>3
    <3>2. rpcUsed' \in [breaks : Nat, stuck : Nat, timeouts : Nat]
      BY ZenonT(30), <2>3, FaultTypes DEF StuckSession
    <3> QED
      BY ZenonT(30), <1>0, <2>3, <3>1, <3>2 DEF RpcInv, RpcTypeOK, Send, agentVars, hubVars
  <2> QED
    BY ZenonT(30), <2>2, <2>3 DEF Send
<1>5. ReceiveReply(r) => RpcTypeOK'
  <2> SUFFICES ASSUME ReceiveReply(r) PROVE RpcTypeOK'
    BY ZenonT(30)
  <2>1. ReturnCall(r, rpcCh[r])
    BY ZenonT(30) DEF ReceiveReply
  <2>2. rpcPc' \in [Req -> Stage] /\ rpcResult' \in [Req -> Result]
    BY ZenonT(30), <1>0, <1>1, <2>1
  <2> QED
    BY ZenonT(30), <1>0, <2>2 DEF RpcInv, RpcTypeOK, ReceiveReply, agentVars, wireVars, hubVars
<1>6. Timeout(r) => RpcTypeOK'
  <2> SUFFICES ASSUME Timeout(r) PROVE RpcTypeOK'
    BY ZenonT(30)
  <2>1. RpcFault("timeouts") /\ ReturnCall(r, "timeout")
    BY ZenonT(30) DEF Timeout
  <2>2. rpcPc' \in [Req -> Stage] /\ rpcResult' \in [Req -> Result]
    BY ZenonT(30), <1>1, <2>1
  <2>3. rpcUsed' \in [breaks : Nat, stuck : Nat, timeouts : Nat]
    BY ZenonT(30), <2>1, FaultTypes
  <2> QED
    BY ZenonT(30), <1>0, <2>2, <2>3 DEF RpcInv, RpcTypeOK, Timeout, agentVars, wireVars, hubVars
<1>7. CleanupCall(r) => RpcTypeOK'
  <2> SUFFICES ASSUME CleanupCall(r) PROVE RpcTypeOK'
    BY ZenonT(30)
  <2>1. sess[r] \in Session
    BY ZenonT(30) DEF RpcInv, CallsOK, InCall, CleanupCall
  <2>2. rpcPc' \in [Req -> Stage] /\ rpcWaiters' \in [Session -> SUBSET Req]
    BY ZenonT(30), <1>0, <2>1 DEF CleanupCall
  <2> QED
    BY ZenonT(30), <1>0, <2>2 DEF RpcInv, RpcTypeOK, CleanupCall, wireVars, hubVars
<1> QED
  BY ZenonT(30), <1>2, <1>3, <1>4, <1>5, <1>6, <1>7 DEF SendCall

LEMMA KeepsHandlerTypes ==
  ASSUME RpcInv, NEW r \in Req, Handle(r) PROVE RpcTypeOK'
<1>1. UNCHANGED <<agentVars, rpcCallVars, rpcCh, up, on>>
  BY ZenonT(30) DEF Handle, Enter, Serve, Leave, Recover, wireVars
<1>2. /\ down' \in [Session -> SUBSET Response] /\ sent' \in [Req -> Nat]
      /\ rpcUsed' \in [breaks : Nat, stuck : Nat, timeouts : Nat]
  <2>1. CASE \E k \in Kind : Answer(r, k)
    <3>1. handler[r] # "none"
      BY ZenonT(30) DEF Handle, Enter, Serve, Leave, Recover
    <3> QED
      BY ZenonT(30), <2>1, <3>1, AnswerTypes
  <2>2. CASE UNCHANGED <<sent, down, rpcUsed>>
    BY ZenonT(30), <2>2 DEF RpcInv, RpcTypeOK
  <2>3. (\E k \in Kind : Answer(r, k)) \/ UNCHANGED <<sent, down, rpcUsed>>
    BY ZenonT(30) DEF Handle, Enter, Serve, Leave, Recover, wireVars, Kind
  <2> QED
    BY ZenonT(30), <2>1, <2>2, <2>3
<1>3. handler' \in [Req -> {"none", "enter", "serve", "leave", "panic", "recover", "done"}]
  BY SMTT(30) DEF RpcInv, RpcTypeOK, Handle, Enter, Serve, Leave, Recover, Becomes
<1>4. inFlight' \in Nat
  <2>1. Leave(r) => inFlight > 0
    <3>1. Leave(r) => r \in Counted
      BY ZenonT(30) DEF Leave, Counted
    <3>2. IsFiniteSet(Counted)
      BY ZenonT(30), HubRpcAssumption, FS_Subset DEF Counted
    <3>3. Counted # {} => Cardinality(Counted) # 0
      BY ZenonT(30), <3>2, FS_EmptySet
    <3> QED
      BY <3>1, <3>3 DEF RpcInv, RpcTypeOK, CountOK
  <2> QED
    <3>1. inFlight \in Nat
      BY ZenonT(30) DEF RpcInv, RpcTypeOK
    <3>2. inFlight' \in {inFlight, inFlight + 1} \/ (Leave(r) /\ inFlight' = inFlight - 1)
      BY ZenonT(30) DEF Handle, Enter, Serve, Leave, Recover
    <3> QED
      BY <2>1, <3>1, <3>2
<1> QED
  BY ZenonT(30), <1>1, <1>2, <1>3, <1>4 DEF RpcInv, RpcTypeOK, agentVars, rpcCallVars

LEMMA KeepsRpcTypes ==
  ASSUME RpcInv, [RpcNext]_rpcvars PROVE RpcTypeOK'
<1>1. CASE UNCHANGED rpcvars
  BY ZenonT(30), <1>1 DEF RpcInv, RpcTypeOK, rpcvars, agentVars, rpcCallVars, wireVars, hubVars
<1> QED
  BY ZenonT(30), <1>1, KeepsSessionTypes, KeepsCallTypes, KeepsHandlerTypes DEF RpcNext

\* A call from a worker is counted exactly while it is served, is answered at
\* most once, and is never left waiting on a session that has ended; the newest
\* session is the one in use (DoHubRequest, setHubSession and clearHubSession
\* of the worker, handleHubRequest of the primary), for every number of calls,
\* sessions and faults and every limit per node.
THEOREM CallsStaySafe == RpcSpec => []RpcSafe
<1>1. RpcInit => RpcInv
  <2> SUFFICES ASSUME RpcInit PROVE RpcInv
    BY ZenonT(30)
  <2>1. RpcTypeOK
    BY ZenonT(30) DEF RpcInit, RpcTypeOK
  <2>2. SessionsOK /\ NewestIsCurrent
    BY ZenonT(30) DEF RpcInit, SessionsOK, NewestIsCurrent
  <2>3. WaitersOK /\ CallsOK /\ EndedEmpty
    BY ZenonT(30) DEF RpcInit, WaitersOK, CallsOK, InCall, EndedEmpty
  <2>4. WireOK /\ AnsweredOK
    BY ZenonT(30) DEF RpcInit, WireOK, AnsweredOK
  <2>5. CountOK
    <3>1. Counted = {}
      BY ZenonT(30) DEF RpcInit, Counted
    <3> QED
      BY SMTT(30), <3>1, FS_EmptySet, HubRpcAssumption DEF RpcInit, CountOK
  <2> QED
    BY ZenonT(30), <2>1, <2>2, <2>3, <2>4, <2>5 DEF RpcInv
<1>2. RpcInv /\ [RpcNext]_rpcvars => RpcInv'
  BY ZenonT(30), KeepsRpcTypes, KeepsSessions, KeepsCalls, KeepsEndedEmpty, KeepsWire,
     KeepsAnswered, KeepsCount
     DEF RpcInv
<1>3. RpcInv => RpcSafe
  <2> SUFFICES ASSUME RpcInv PROVE RpcSafe
    BY ZenonT(30)
  <2>1. InFlightExact
    BY ZenonT(30) DEF RpcInv, CountOK, Counted, InFlightExact
  <2>2. OneResponse
    BY SMTT(30) DEF RpcInv, AnsweredOK, OneResponse
  <2>3. NoStrandedCaller
    BY ZenonT(30) DEF RpcInv, RpcTypeOK, CallsOK, WaitersOK, EndedEmpty, InCall, NoStrandedCaller
  <2> QED
    BY ZenonT(30), <2>1, <2>2, <2>3 DEF RpcInv, RpcSafe
<1> QED
  BY <1>1, <1>2, <1>3, PTL DEF RpcSpec

=============================================================================
