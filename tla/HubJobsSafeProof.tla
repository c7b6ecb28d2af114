-------------------------- MODULE HubJobsSafeProof --------------------------
(***************************************************************************)
(* What dispatch keeps true of reservations, commands, rows and log lines, *)
(* each under the conditions it needs and no other:                        *)
(*                                                                         *)
(*   FinishLoggedOnce    always;                                           *)
(*   OneInFlight,                                                          *)
(*   EventsAttached      while no node is edited (~Edits);                 *)
(*   OneOpenRowPerJob    while no statement fails (MaxFaults = 0);         *)
(*   NoOrphanRow         while no statement fails and the primary is not   *)
(*                       restarted (MaxRestarts = 0).                      *)
(*                                                                         *)
(* None of them is inductive.  They rest on DispatchInv for a task whose   *)
(* command is not sent yet; afterwards the command is in flight only while *)
(* the reservation stands (WireInv), and a resolver that has got past its  *)
(* update has finished the row (OwnerInv).                                 *)
(***************************************************************************)
EXTENDS HubJobsProof, HubJobsDispatchProof

-----------------------------------------------------------------------------
(* While no node is edited, a command that a live connection owes an exit  *)
(* for still has its reservation and its row: WireInv.  It rests on        *)
(* DispatchInv for what is not sent yet, on a node having one connection   *)
(* at a time (SingleLink), and on who releases a target knowing that its   *)
(* command has ended (EndedOK) or went to the node that is gone (SentOK).  *)

\* A connection that was picked, used or registered has been dialled.
DialledOK ==
    /\ \A n \in Node : conns[n] # None => link[conns[n]] # "new"
    /\ \A j \in Job : pc[j] = "send" => link[via[j]] # "new"
    /\ \A x \in Task : sentTo[x] # None => link[sentTo[x]] # "new"

\* Without edits a node has one connection at a time.
SingleLink == \A c, d \in Conn : c # d /\ NodeOf[c] = NodeOf[d] =>
              link[c] \in {"new", "gone"} \/ link[d] \in {"new", "gone"}

\* The node on a reservation is the one its command was sent to.
SentOK == /\ \A j \in Job : pc[j] = "setNode" => sentTo[Cur(j)] = via[j]
          /\ \A t \in Target : running[t].task # None /\ running[t].node # None =>
                sentTo[running[t].task] # None /\ running[t].node = NodeOf[sentTo[running[t].task]]

\* Whoever is about to release a target has seen its command end, or knows
\* that none was sent.
EndedOK == /\ \A a \in Actor : res[a] # Idle /\ (res[a].clear \/ res[a].step = "clear") =>
                 cmd[res[a].task] \in {"unsent", "reported"}
           /\ hk # None => cmd[hk] = "unsent"

\* A command in flight still has its reservation and its row.
FlightOK == \A x \in Task : InFlight(x) => Holds(x) /\ running[TargetOf(x)].pk

WireInv == DialledOK /\ SingleLink /\ SentOK /\ EndedOK /\ FlightOK /\ EventsAttached

-----------------------------------------------------------------------------
(* WireInv, while no node is edited.                                       *)

\* A connection is dialled once, and comes up only by being dialled.
LEMMA LinkStep ==
  ASSUME TypeInv, [Next]_vars, NEW c \in Conn
  PROVE  /\ link'[c] = "new" => link[c] = "new"
         /\ link'[c] \notin {"new", "gone"} => link[c] \notin {"new", "gone"} \/ Connect(c)
         /\ link'[c] = "up" => link[c] = "up" \/ Connect(c)
<1>1. link \in [Conn -> {"new", "up", "broken", "removed", "failing", "gone"}]
  BY ZenonT(30) DEF TypeInv, TypeOK
<1>2. ASSUME NEW d \in Conn, Connect(d)
      PROVE  link'[c] = link[c] \/ (d = c /\ link'[c] = "up")
  BY ZenonT(30), <1>1, <1>2 DEF Connect
<1>3. ASSUME NEW d \in Conn, Drop(d) \/ Unregister(d) \/ FailRunning(d)
      PROVE  link'[c] = link[c] \/ (link[c] \in {"up", "broken", "removed"}
                                    /\ link'[c] \in {"broken", "removed", "failing"})
  BY ZenonT(30), <1>1, <1>3 DEF Drop, Unregister, FailRunning
<1>4. ASSUME NEW d \in Conn, FailNext(d) PROVE link'[c] = link[c] \/ link'[c] = "gone"
  BY ZenonT(30), <1>1, <1>4 DEF FailNext
<1>5. CASE Restart
  BY ZenonT(30), <1>1, <1>5 DEF Restart
<1> QED
  BY ZenonT(30), <1>2, <1>3, <1>4, <1>5, LinkWriters

LEMMA KeepsSingleLink ==
  ASSUME TypeInv, SingleLink, ~Edits, [Next]_vars PROVE SingleLink'
<1> SUFFICES ASSUME NEW c \in Conn, NEW d \in Conn, c # d, NodeOf[c] = NodeOf[d],
                    link'[c] \notin {"new", "gone"}, link'[d] \notin {"new", "gone"}
             PROVE  FALSE
  BY ZenonT(30) DEF SingleLink
<1>1. link \in [Conn -> {"new", "up", "broken", "removed", "failing", "gone"}]
  BY ZenonT(30) DEF TypeInv, TypeOK
<1>2. ASSUME NEW e \in Conn, NEW f \in Conn, Connect(e), e # f, NodeOf[e] = NodeOf[f]
      PROVE  link'[f] \in {"new", "gone"}
  BY ZenonT(30), <1>1, <1>2 DEF Connect
<1> QED
  BY ZenonT(30), <1>2, LinkStep DEF SingleLink

LEMMA KeepsDialledOK ==
  ASSUME TypeInv, DialledOK, [Next]_vars PROVE DialledOK'
<1>1. /\ conns \in [Node -> Conn \cup {None}] /\ via \in [Job -> Conn \cup {None}]
      /\ sentTo \in [Task -> Conn \cup {None}] /\ pc \in [Job -> Steps] /\ None \notin Conn
      /\ link \in [Conn -> {"new", "up", "broken", "removed", "failing", "gone"}]
      /\ NodeOf \in [Conn -> Node]
  BY ZenonT(30), HubJobsAssumption DEF TypeInv, TypeOK
<1>2. ASSUME NEW n \in Node, conns'[n] # None PROVE link'[conns'[n]] # "new"
  <2>1. CASE conns'[n] = conns[n]
    BY ZenonT(30), <1>1, <1>2, <2>1, LinkStep DEF DialledOK
  <2>2. ASSUME NEW c \in Conn, Connect(c), conns'[n] # conns[n] PROVE link'[conns'[n]] # "new"
    BY ZenonT(30), <1>1, <2>2 DEF Connect
  <2>3. ASSUME NEW c \in Conn, Unregister(c) PROVE conns'[n] = conns[n]
    BY ZenonT(30), <1>1, <1>2, <2>3 DEF Unregister
  <2>4. ASSUME NEW c \in Conn, Drop(c) \/ FailRunning(c) \/ FailNext(c) PROVE conns' = conns
    BY ZenonT(30), <2>4 DEF Drop, FailRunning, FailNext
  <2>5. ~Restart
    BY ZenonT(30), <1>2 DEF Restart
  <2> QED
    BY ZenonT(30), <2>1, <2>2, <2>3, <2>4, <2>5, LinkWriters
<1>3. ASSUME NEW j \in Job, pc'[j] = "send" PROVE link'[via'[j]] # "new"
  <2>1. ASSUME pc[j] = "send", via'[j] = via[j] PROVE link'[via'[j]] # "new"
    BY ZenonT(30), <1>1, <2>1, LinkStep DEF DialledOK, TypeInv, ViaOK
  <2>2. ASSUME Pick(j) PROVE link'[via'[j]] # "new"
    <3>1. PICK n \in Node : conns[n] # None /\ via'[j] = conns[n]
      BY ZenonT(30), <1>1, <1>3, <2>2 DEF Pick, FailUnsent, Goto
    <3> QED
      BY ZenonT(30), <1>1, <2>2, <3>1 DEF Pick, DialledOK
  <2>3. Starter(j) => Pick(j)
    <3>1. ~CreateConflict(j) /\ ~WaitTask(j)
      BY ZenonT(30), <1>1, <1>3 DEF CreateConflict, WaitTask, NextTarget, Goto
    <3>2. ~StartSingle(j) /\ ~CreateJob(j) /\ ~FinishEmpty(j) /\ ~ReserveNext(j)
      BY ZenonT(30), <1>1, <1>3 DEF StartSingle, CreateJob, FinishEmpty, ReserveNext, Goto
    <3>3. ~CreateTask(j) /\ ~Send(j) /\ ~SetNode(j)
      BY ZenonT(30), <1>1, <1>3 DEF CreateTask, Send, FailUnsent, SetNode, Goto
    <3> QED
      BY ZenonT(30), <3>1, <3>2, <3>3 DEF Starter
  <2>4. ASSUME NEW i \in Job, Starter(i), i # j PROVE pc'[j] = pc[j] /\ via'[j] = via[j]
    BY ZenonT(30), <2>4, GoStep
  <2>5. ~Restart
    BY ZenonT(30), <1>3 DEF Restart
  <2> QED
    BY ZenonT(30), <1>3, <2>1, <2>2, <2>3, <2>4, <2>5, GoWriters
<1>4. ASSUME NEW x \in Task, sentTo'[x] # None PROVE link'[sentTo'[x]] # "new"
  <2>1. CASE sentTo'[x] = sentTo[x]
    BY ZenonT(30), <1>1, <1>4, <2>1, LinkStep DEF DialledOK
  <2>2. ASSUME NEW j \in Job, Send(j), sentTo'[x] # sentTo[x] PROVE link'[sentTo'[x]] # "new"
    <3>1. sentTo'[x] = via[j] /\ link' = link
      BY ZenonT(30), <1>1, <2>2 DEF Send, wireVars
    <3>2. link[via[j]] # "new"
      BY ZenonT(30), <2>2 DEF Send, DialledOK
    <3> QED
      BY ZenonT(30), <3>1, <3>2
  <2>3. ASSUME NEW y \in Task, Agent(y) PROVE sentTo' = sentTo
    BY ZenonT(30), <2>3 DEF Agent, AgentStart, AgentExit
  <2>4. ASSUME NEW c \in Conn, NEW y \in Task, ReadExit(c, y) PROVE sentTo' = sentTo
    BY ZenonT(30), <2>4 DEF ReadExit
  <2> QED
    BY ZenonT(30), <2>1, <2>2, <2>3, <2>4, WireWriters
<1> QED
  BY ZenonT(30), <1>2, <1>3, <1>4 DEF DialledOK

\* What can happen to the command of a task in one step.
Sends(x, j)  == /\ Send(j) /\ x = Cur(j) /\ ~Passed(x)
                /\ cmd'[x] = "queued" /\ sentTo'[x] = via[j] /\ pc'[j] = "setNode"
                /\ UNCHANGED <<running, link, res, hk, idx, via>>
Advance(x)   == /\ cmd[x] \in {"queued", "running"} /\ cmd'[x] \in {"running", "exited", "dropped"}
                /\ sentTo'[x] = sentTo[x] /\ UNCHANGED <<running, link, res, hk>>
Report(x)    == /\ \E c \in Conn : ReadExit(c, x)
                /\ cmd'[x] = "reported" /\ sentTo'[x] = sentTo[x]

LEMMA CmdStep ==
  ASSUME TypeInv, [Next]_vars, NEW x \in Task
  PROVE  \/ cmd'[x] = cmd[x] /\ sentTo'[x] = sentTo[x]
         \/ \E j \in Job : Sends(x, j)
         \/ Advance(x)
         \/ Report(x)
<1>1. /\ cmd \in [Task -> {"unsent", "queued", "running", "exited", "reported", "dropped"}]
      /\ sentTo \in [Task -> Conn \cup {None}] /\ pc \in [Job -> Steps] /\ idx \in [Job -> Nat \ {0}]
  BY ZenonT(30) DEF TypeInv, TypeOK
<1>2. ASSUME NEW j \in Job, Send(j), ~(cmd'[x] = cmd[x] /\ sentTo'[x] = sentTo[x]) PROVE Sends(x, j)
  <2>1. /\ cmd' = [cmd EXCEPT ![Cur(j)] = "queued"] /\ sentTo' = [sentTo EXCEPT ![Cur(j)] = via[j]]
        /\ Goto(j, "setNode") /\ UNCHANGED <<running, link, res, hk, idx, via>>
    BY ZenonT(30), <1>2 DEF Send, wireVars
  <2>2. x = Cur(j)
    BY ZenonT(30), <1>1, <1>2, <2>1
  <2>3. ~Passed(x)
    BY <1>1, <1>2, <2>2 DEF Passed, Cur, Send, Past
  <2> QED
    BY ZenonT(30), <1>1, <1>2, <2>1, <2>2, <2>3 DEF Sends, Goto
<1>3. ASSUME NEW y \in Task, Agent(y), cmd'[x] # cmd[x] PROVE Advance(x)
  BY ZenonT(30), <1>1, <1>3 DEF Agent, AgentStart, AgentExit, Advance, hubVars
<1>4. ASSUME NEW y \in Task, Agent(y) PROVE sentTo' = sentTo
  BY ZenonT(30), <1>4 DEF Agent, AgentStart, AgentExit
<1>5. ASSUME NEW c \in Conn, NEW y \in Task, ReadExit(c, y), cmd'[x] # cmd[x] PROVE Report(x)
  BY ZenonT(30), <1>1, <1>5 DEF ReadExit, Report
<1>6. ASSUME NEW c \in Conn, NEW y \in Task, ReadExit(c, y) PROVE sentTo' = sentTo
  BY ZenonT(30), <1>6 DEF ReadExit
<1> QED
  BY ZenonT(30), <1>2, <1>3, <1>4, <1>5, <1>6, WireWriters

\* A command that StartJob has passed is not sent again.
LEMMA SentOnce ==
  ASSUME TypeInv, [Next]_vars, NEW x \in Task, Passed(x)
  PROVE  /\ sentTo'[x] = sentTo[x]
         /\ cmd[x] \in {"unsent", "reported"} => cmd'[x] \in {"unsent", "reported"}
         /\ cmd[x] = "unsent" => cmd'[x] = "unsent"
<1>1. ASSUME Report(x) PROVE cmd[x] = "exited" /\ cmd'[x] = "reported" /\ sentTo'[x] = sentTo[x]
  BY ZenonT(30), <1>1 DEF Report, ReadExit
<1> QED
  BY ZenonT(30), <1>1, CmdStep DEF Sends, Advance

LEMMA KeepsSentOK ==
  ASSUME TypeInv, DispatchInv, SentOK, [Next]_vars PROVE SentOK'
<1>1. /\ running \in [Target -> Reservation] /\ pc \in [Job -> Steps] /\ idx \in [Job -> Nat \ {0}]
      /\ None \notin Conn /\ None \notin Task
  BY ZenonT(30), HubJobsAssumption DEF TypeInv, TypeOK
<1>2. ASSUME NEW j \in Job, pc'[j] = "setNode" PROVE sentTo'[Cur(j)'] = via'[j]
  <2>1. CASE Starter(j)
    <3>1. ~CreateConflict(j) /\ ~WaitTask(j)
      BY ZenonT(30), <1>1, <1>2 DEF CreateConflict, WaitTask, NextTarget, Goto
    <3>2. ~StartSingle(j) /\ ~CreateJob(j) /\ ~FinishEmpty(j) /\ ~ReserveNext(j)
      BY ZenonT(30), <1>1, <1>2 DEF StartSingle, CreateJob, FinishEmpty, ReserveNext, Goto
    <3>3. ~CreateTask(j) /\ ~Pick(j) /\ ~SetNode(j)
      BY ZenonT(30), <1>1, <1>2 DEF CreateTask, Pick, FailUnsent, SetNode, Goto
    <3>4. Send(j) /\ Cur(j) \in Task
      BY ZenonT(30), <2>1, <3>1, <3>2, <3>3, AtTask DEF Starter, Send, Working
    <3>5. sentTo' = [sentTo EXCEPT ![Cur(j)] = via[j]] /\ idx' = idx /\ via' = via
      BY ZenonT(30), <1>1, <1>2, <3>4 DEF Send, FailUnsent, Goto
    <3> QED
      BY ZenonT(30), <3>4, <3>5 DEF Cur, TypeInv, TypeOK
  <2>2. CASE ~Starter(j)
    <3>1. pc'[j] = pc[j] /\ idx'[j] = idx[j] /\ via'[j] = via[j]
      BY ZenonT(30), <1>2, <2>2, GoWriters, GoStep DEF Restart
    <3>2. Cur(j) \in Task /\ Cur(j)' = Cur(j) /\ Passed(Cur(j))
      BY ZenonT(30), <1>1, <1>2, <3>1, AtTask DEF Working, Cur, Passed, Past
    <3>3. sentTo'[Cur(j)] = sentTo[Cur(j)]
      BY ZenonT(30), <3>2, SentOnce
    <3>4. sentTo[Cur(j)] = via[j]
      BY ZenonT(30), <1>2, <3>1 DEF SentOK
    <3> QED
      BY ZenonT(30), <3>1, <3>2, <3>3, <3>4
  <2> QED
    BY ZenonT(30), <2>1, <2>2
<1>3. ASSUME NEW t \in Target, running'[t].task # None, running'[t].node # None
      PROVE  LET s == sentTo'[running'[t].task] IN s # None /\ running'[t].node = NodeOf[s]
  <2>1. CASE running'[t].task = running[t].task /\ running'[t].node = running[t].node
    <3>1. running[t].task \in Task /\ Passed(running[t].task)
      BY ZenonT(30), <1>1, <1>3, <2>1 DEF Reservation, DispatchInv, NodeOK
    <3>2. sentTo'[running[t].task] = sentTo[running[t].task]
      BY ZenonT(30), <3>1, SentOnce
    <3> QED
      BY ZenonT(30), <1>3, <2>1, <3>2 DEF SentOK
  <2>2. ASSUME NEW j \in Job, Sets(t, j)
        PROVE  LET s == sentTo'[running'[t].task] IN s # None /\ running'[t].node = NodeOf[s]
    <3>1. running'[t].task = Cur(j) /\ running'[t].node = NodeOf[via[j]]
      BY <1>1, <2>2 DEF Sets, Holds, Reservation
    <3>2. sentTo' = sentTo /\ sentTo[Cur(j)] = via[j] /\ via[j] \in Conn
      BY ZenonT(30), <2>2 DEF Sets, SetNode, wireVars, SentOK, TypeInv, ViaOK
    <3> QED
      BY ZenonT(30), <1>1, <3>1, <3>2
  <2>3. ~Frees(t) /\ \A j \in Job : ~Takes(t, j)
    BY <1>3 DEF Frees, Takes, Free
  <2>4. ASSUME NEW j \in Job, Marks(t, j)
        PROVE  running'[t].task = running[t].task /\ running'[t].node = running[t].node
    BY <1>1, <2>4 DEF Marks, Reservation
  <2> QED
    BY ZenonT(30), <2>1, <2>2, <2>3, <2>4, ReservationStep DEF Keeps
<1> QED
  BY ZenonT(30), <1>2, <1>3 DEF SentOK

LEMMA KeepsEndedOK ==
  ASSUME TypeInv, DispatchInv, EndedOK, [Next]_vars PROVE EndedOK'
<1> DEFINE Ended(x) == cmd'[x] \in {"unsent", "reported"}
<1>1. /\ pc \in [Job -> Steps] /\ idx \in [Job -> Nat \ {0}] /\ None \notin Task
      /\ hk \in Task \cup {None}
  BY ZenonT(30), HubJobsAssumption DEF TypeInv, TypeOK
<1>2. ASSUME NEW j \in Job, pc[j] \in {"createTask", "pick", "send"}
      PROVE  Cur(j) \in Task /\ cmd[Cur(j)] = "unsent"
  BY <1>1, <1>2, AtTask DEF Working, DispatchInv, CmdOK, Passed, Past
<1>3. ASSUME NEW a \in Actor, res'[a] # Idle, res'[a].clear \/ res'[a].step = "clear"
      PROVE  Ended(res'[a].task)
  <2>1. CASE Goes(a)
    <3>1. res[a] # Idle /\ res'[a].task = res[a].task /\ (res[a].clear \/ res[a].step = "clear")
      BY ZenonT(30), <1>3, <2>1 DEF Goes
    <3>2. res[a].task \in Task /\ Passed(res[a].task) /\ cmd[res[a].task] \in {"unsent", "reported"}
      BY ZenonT(30), <3>1 DEF TypeInv, ResOK, DispatchInv, ResPast, EndedOK
    <3> QED
      BY ZenonT(30), <3>1, <3>2, SentOnce
  <2>2. ASSUME a \in Job, Gives(a) PROVE Ended(res'[a].task)
    <3>1. CASE Pick(a)
      BY ZenonT(30), <1>2, <2>2, <3>1 DEF Gives, Pick, wireVars
    <3>2. CASE Send(a)
      <4>1. cmd' = cmd
        BY ZenonT(30), <1>1, <2>2, <3>2 DEF Gives, Send, Goto, wireVars
      <4> QED
        BY ZenonT(30), <1>2, <2>2, <3>2, <4>1 DEF Gives, Send
    <3>3. ~CreateConflict(a)
      BY ZenonT(30), <1>3, <2>2 DEF Gives
    <3> QED
      BY ZenonT(30), <2>2, <3>1, <3>2, <3>3 DEF Gives
  <2>3. ~Tears(a)
    BY ZenonT(30), <1>3 DEF Tears
  <2>4. ASSUME Reads(a) PROVE Ended(res'[a].task)
    <3>1. PICK x \in Task : ReadExit(a, x) /\ res'[a].task = x
      BY ZenonT(30), <2>4 DEF Reads
    <3>2. x \in DOMAIN cmd /\ cmd' = [cmd EXCEPT ![x] = "reported"]
      BY ZenonT(30), <3>1 DEF ReadExit, TypeInv, TypeOK
    <3> QED
      BY ZenonT(30), <3>1, <3>2
  <2>5. ASSUME KeepsHouse PROVE Ended(res'[HK].task)
    BY ZenonT(30), <2>5 DEF KeepsHouse, RunHousekeeping, EndedOK, wireVars
  <2> QED
    BY ZenonT(30), <1>3, <2>1, <2>2, <2>3, <2>4, <2>5, ResolveStep
<1>4. ASSUME hk' # None PROVE cmd'[hk'] = "unsent"
  <2>1. CASE UNCHANGED hk
    BY ZenonT(30), <1>1, <1>4, <2>1, SentOnce DEF DispatchInv, HkOK, EndedOK
  <2>2. ASSUME NEW j \in Job, CreateTask(j), hk' # hk PROVE cmd'[hk'] = "unsent"
    BY ZenonT(30), <1>2, <2>2 DEF CreateTask, wireVars
  <2>3. ~RunHousekeeping /\ ~Restart
    BY ZenonT(30), <1>4 DEF RunHousekeeping, Restart
  <2> QED
    BY ZenonT(30), <2>1, <2>2, <2>3, HkWriters
<1> QED
  BY ZenonT(30), <1>3, <1>4 DEF EndedOK

\* A command is in flight because it was, or because it was just sent.
LEMMA FlightBegins ==
  ASSUME TypeInv, DialledOK, [Next]_vars, NEW x \in Task, InFlight(x)'
  PROVE  InFlight(x) \/ \E j \in Job : Sends(x, j)
<1>1. sentTo'[x] # None /\ link'[sentTo'[x]] = "up" /\ cmd'[x] \in {"queued", "running", "exited"}
  BY ZenonT(30) DEF InFlight
<1>2. CASE \E j \in Job : Sends(x, j)
  BY ZenonT(30), <1>2
<1>3. CASE ~ \E j \in Job : Sends(x, j)
  <2>1. sentTo'[x] = sentTo[x] /\ cmd[x] \in {"queued", "running", "exited"}
    BY ZenonT(30), <1>1, <1>3, CmdStep DEF Advance, Report
  <2>2. sentTo[x] \in Conn /\ link[sentTo[x]] # "new"
    BY ZenonT(30), <1>1, <2>1 DEF TypeInv, TypeOK, DialledOK
  <2>3. link[sentTo[x]] = "up"
    BY ZenonT(30), <1>1, <2>1, <2>2, LinkStep DEF Connect
  <2> QED
    BY ZenonT(30), <1>1, <2>1, <2>3 DEF InFlight
<1> QED
  BY ZenonT(30), <1>2, <1>3

\* While a command is in flight nothing releases its target.
LEMMA FlightNotFreed ==
  ASSUME TypeInv, DispatchInv, WireInv, NEW x \in Task, InFlight(x), InFlight(x)'
  PROVE  ~FreedBy(TargetOf(x))
<1> DEFINE t == TargetOf(x)
<1>1. running[t].task = x /\ running[t].pk /\ x # None /\ t \in Target
  BY ZenonT(30), TaskFacts, HubJobsAssumption DEF WireInv, FlightOK, Holds
<1>2. Passed(x)
  BY ZenonT(30) DEF InFlight, DispatchInv, CmdOK
<1>3. ASSUME NEW j \in Job, CreateJob(j) \/ CreateTask(j), x = Cur(j) PROVE FALSE
  BY <1>2, <1>3 DEF CreateJob, CreateTask, Passed, Cur, Past, TypeInv, TypeOK
<1>4. ASSUME NEW a \in Actor, Clear(a), x = res[a].task PROVE FALSE
  <2>1. res[a] # Idle
    BY <1>4 DEF Clear, Idle
  <2> QED
    BY ZenonT(30), <1>4, <2>1 DEF Clear, WireInv, EndedOK, InFlight
<1>5. ASSUME NEW c \in Conn, FailRunning(c), running[t].node = NodeOf[c] PROVE FALSE
  <2>1. NodeOf[c] # None
    BY ZenonT(30), HubJobsAssumption
  <2>2. sentTo[x] \in Conn /\ NodeOf[sentTo[x]] = NodeOf[c]
    BY <1>1, <1>5, <2>1, SMTT(30) DEF WireInv, SentOK, TypeInv, TypeOK
  <2>3. link[sentTo[x]] = "up" /\ link[c] = "removed"
    BY ZenonT(30), <1>5 DEF InFlight, FailRunning
  <2> QED
    BY ZenonT(30), <2>2, <2>3 DEF WireInv, SingleLink
<1>6. ~Restart
  <2>1. sentTo'[x] \in Conn \/ ~Restart
    BY ZenonT(30) DEF InFlight, Restart, wireVars, TypeInv, TypeOK
  <2> QED
    BY ZenonT(30), <2>1 DEF InFlight, Restart
<1> QED
  BY ZenonT(30), <1>1, <1>3, <1>4, <1>5, <1>6 DEF FreedBy

LEMMA KeepsFlightOK ==
  ASSUME TypeInv, DispatchInv, WireInv, [Next]_vars PROVE FlightOK'
<1> SUFFICES ASSUME NEW x \in Task, InFlight(x)'
             PROVE  running'[TargetOf(x)].task = x /\ running'[TargetOf(x)].pk
  BY ZenonT(30) DEF FlightOK, Holds, TargetOf
<1> DEFINE t == TargetOf(x)
<1>1. running \in [Target -> Reservation] /\ t \in Target /\ x # None
  BY ZenonT(30), TaskFacts, HubJobsAssumption DEF TypeInv, TypeOK
<1>2. ASSUME NEW j \in Job, Sends(x, j) PROVE running'[t].task = x /\ running'[t].pk
  BY ZenonT(30), <1>2 DEF Sends, Send, DispatchInv, HoldOK, PkOK, Holds
<1>3. CASE InFlight(x)
  <2>1. running[t].task = x /\ running[t].pk
    BY ZenonT(30), <1>3 DEF WireInv, FlightOK, Holds
  <2>2. ~FreedBy(t) /\ \A j \in Job : ~Takes(t, j)
    BY ZenonT(30), <1>1, <1>3, <2>1, FlightNotFreed DEF Takes
  <2>3. ASSUME NEW j \in Job, Marks(t, j) \/ Sets(t, j)
        PROVE  running'[t].task = x /\ running'[t].pk
    BY ZenonT(30), <1>1, <2>1, <2>3 DEF Marks, Sets, Reservation
  <2> QED
    BY ZenonT(30), <1>1, <2>1, <2>2, <2>3, ReservationStep DEF Keeps
<1> QED
  BY ZenonT(30), <1>2, <1>3, FlightBegins DEF WireInv

LEMMA KeepsEventsAttached ==
  ASSUME TypeInv, WireInv, [Next]_vars PROVE EventsAttached'
<1> SUFFICES ASSUME NEW x \in Task PROVE ev'[x] # "orphan"
  BY ZenonT(30) DEF EventsAttached
<1>1. ev \in [Task -> {"none", "attached", "orphan"}] /\ ev[x] # "orphan"
  BY ZenonT(30) DEF TypeInv, TypeOK, WireInv, EventsAttached
<1>2. \/ UNCHANGED ev
      \/ \E c \in Conn, y \in Task : ReadEvent(c, y)
      \/ RunHousekeeping
  BY ZenonT(60) DEF Next, Starter, Resolver, Reader, Agent, vars, dbVars, hubVars, goVars, wireVars,
     StartSingle, CreateJob, FinishEmpty, ReserveNext, CreateConflict, CreateTask, Pick, Send,
     SetNode, WaitTask, UpdateRow, CountTotal, CountRemaining, FinishJob, Clear, ResolveFault,
     Connect, Drop, Unregister, FailRunning, FailNext, ReadExit, AgentStart, AgentExit, Restart
<1>3. ASSUME NEW c \in Conn, NEW y \in Task, ReadEvent(c, y) PROVE ev'[x] # "orphan"
  <2>1. InFlight(y)
    BY ZenonT(30), <1>3, HubJobsAssumption DEF ReadEvent, InFlight
  <2>2. Holds(y) /\ running[TargetOf(y)].pk
    BY ZenonT(30), <2>1 DEF WireInv, FlightOK
  <2> QED
    BY ZenonT(30), <1>1, <1>3, <2>2 DEF ReadEvent
<1>4. CASE RunHousekeeping
  <2>1. \/ ev' = [y \in Task |-> CASE y = hk -> "attached"
                                   [] y[1] \in Trimmed(hk[1]) \/ ev[y] = "orphan" -> "none"
                                   [] OTHER -> ev[y]]
        \/ ev' = ev
        \/ ev' = [ev EXCEPT ![hk] = "attached"]
    BY ZenonT(30), <1>4 DEF RunHousekeeping
  <2> QED
    BY ZenonT(30), <1>1, <2>1
<1> QED
  BY ZenonT(30), <1>1, <1>2, <1>3, <1>4

LEMMA WireInvariant == ASSUME ~Edits PROVE Spec => []WireInv
<1>1. Init => WireInv
  <2> SUFFICES ASSUME Init PROVE WireInv
    BY ZenonT(30)
  <2>1. DialledOK /\ SingleLink
    BY ZenonT(30) DEF Init, DialledOK, SingleLink
  <2>2. SentOK /\ FlightOK /\ EventsAttached
    BY ZenonT(30) DEF Init, SentOK, FlightOK, InFlight, EventsAttached, Free
  <2>3. EndedOK
    BY ZenonT(30) DEF Init, EndedOK
  <2> QED
    BY ZenonT(30), <2>1, <2>2, <2>3 DEF WireInv
<1>2. TypeInv /\ DispatchInv /\ WireInv /\ [Next]_vars => WireInv'
  BY ZenonT(30), KeepsDialledOK, KeepsSingleLink, KeepsSentOK, KeepsEndedOK, KeepsFlightOK,
     KeepsEventsAttached
     DEF WireInv
<1> QED
  BY <1>1, <1>2, TypeInvariant, DispatchInvariant, PTL DEF Spec

-----------------------------------------------------------------------------
(* Rows and log lines.                                                     *)

\* Only the task a batch is at has an unfinished row.
OpenIsCurrent == \A x \in Task : row[x] = "open" => x[2] = idx[x[1]]

\* resolveTask goes on after the row is finished or gone, and a teardown
\* collects its list once.
ResolvedOK == \A a \in Actor : res[a].step \notin {"idle", "update"} => row[res[a].task] # "open"
FailingOK  == \A c \in Conn : stale[c] # {} => link[c] = "failing"
OwnerInv   == ResolvedOK /\ FailingOK /\ NoOrphanRow

\* A job is logged when it is finished, and not before.
LogAt(j) ==
    /\ logged[j] <= 1
    /\ pc[j] \in {"start", "createJob", "finishEmpty"} => logged[j] = 0
    /\ job[j] \in {"none", "open"} /\ Len(Plan[j]) # 0 => logged[j] = 0
LogInv == \A j \in Job : LogAt(j)

-----------------------------------------------------------------------------
(* LogInv.                                                                 *)

LEMMA JobWriters ==
  ASSUME [Next]_vars
  PROVE  \/ UNCHANGED <<job, logged>>
         \/ \E j \in Job : CreateJob(j) \/ FinishEmpty(j)
         \/ \E a \in Actor : FinishJob(a)
         \/ RunHousekeeping
  BY ZenonT(60) DEF Next, Starter, Resolver, Reader, Agent, vars, dbVars, hubVars, goVars, wireVars,
     StartSingle, ReserveNext, CreateConflict, CreateTask, Pick, Send, SetNode, WaitTask, UpdateRow,
     CountTotal, CountRemaining, Clear, ResolveFault, Connect, Drop, Unregister, FailRunning, FailNext,
     ReadEvent, ReadExit, AgentStart, AgentExit, Restart

\* StartJob does not come back to its first steps.
Early == {"start", "createJob", "finishEmpty"}

LEMMA EarlyStep ==
  ASSUME TypeInv, [Next]_vars, NEW j \in Job, pc'[j] \in Early PROVE pc[j] \in Early
<1>1. pc \in [Job -> Steps]
  BY ZenonT(30) DEF TypeInv, TypeOK
<1>2. CASE Starter(j)
  <2>1. CASE StartSingle(j) \/ CreateJob(j) \/ FinishEmpty(j)
    BY ZenonT(30), <2>1 DEF StartSingle, CreateJob, FinishEmpty, Early
  <2>2. ~ReserveNext(j) /\ ~CreateTask(j) /\ ~SetNode(j)
    BY ZenonT(30), <1>1 DEF ReserveNext, CreateTask, SetNode, Goto, Early
  <2>3. ~CreateConflict(j) /\ ~WaitTask(j)
    BY ZenonT(30), <1>1 DEF CreateConflict, WaitTask, NextTarget, Goto, Early
  <2>4. ~Pick(j) /\ ~Send(j)
    BY ZenonT(30), <1>1 DEF Pick, Send, FailUnsent, Goto, Early
  <2> QED
    BY ZenonT(30), <1>2, <2>1, <2>2, <2>3, <2>4 DEF Starter
<1>3. ASSUME NEW i \in Job, Starter(i), i # j PROVE pc[j] \in Early
  BY ZenonT(30), <1>3, GoStep
<1>4. CASE Restart
  BY ZenonT(30), <1>4 DEF Restart, Early
<1> QED
  BY ZenonT(30), <1>2, <1>3, <1>4, GoWriters

LEMMA KeepsLogInv ==
  ASSUME HistInv, LogInv, [Next]_vars PROVE LogInv'
<1> SUFFICES ASSUME NEW j \in Job PROVE LogAt(j)'
  BY ZenonT(30) DEF LogInv
<1>1. /\ job \in [Job -> {"none", "open", "done", "trimmed"}] /\ logged \in [Job -> Nat]
      /\ pc \in [Job -> Steps]
  BY ZenonT(30) DEF HistInv, TypeInv, TypeOK
<1>2. LogAt(j) /\ StartAt(j) /\ TypeInv
  BY ZenonT(30) DEF LogInv, HistInv, StartOK
<1>3. pc'[j] \in Early => pc[j] \in Early /\ logged[j] = 0
  BY ZenonT(30), <1>2, EarlyStep DEF LogAt, Early
<1>4. CASE job'[j] = job[j] /\ logged'[j] = logged[j]
  BY ZenonT(30), <1>2, <1>3, <1>4 DEF LogAt, Early
<1>5. ASSUME NEW i \in Job, CreateJob(i) PROVE LogAt(j)'
  <2>1. logged' = logged
    BY ZenonT(30), <1>5 DEF CreateJob
  <2>2. j # i => job'[j] = job[j]
    BY ZenonT(30), <1>1, <1>5 DEF CreateJob, NewJobRow
  <2>3. j = i => logged[j] = 0
    BY ZenonT(30), <1>2, <1>5 DEF CreateJob, LogAt
  <2> QED
    BY <1>3, <1>4, <2>1, <2>2, <2>3 DEF LogAt, Early
<1>6. ASSUME NEW i \in Job, FinishEmpty(i) PROVE LogAt(j)'
  <2>1. j # i => job'[j] = job[j] /\ logged'[j] = logged[j]
    BY ZenonT(30), <1>1, <1>6 DEF FinishEmpty
  <2>2. j = i => logged'[j] = 1 /\ pc'[j] = "done" /\ Len(Plan[j]) = 0
    BY <1>1, <1>2, <1>6 DEF FinishEmpty, Goto, LogAt, StartAt
  <2> QED
    BY <1>4, <2>1, <2>2 DEF LogAt
<1>7. ASSUME NEW a \in Actor, FinishJob(a) PROVE LogAt(j)'
  <2> DEFINE i == res[a].task[1]
  <2>1. CASE UNCHANGED <<job, logged>>
    BY ZenonT(30), <1>4, <2>1
  <2>2. CASE job[i] = "open" /\ job' = [job EXCEPT ![i] = "done"] /\ logged' = [logged EXCEPT ![i] = @ + 1]
    <3>1. res[a] # Idle
      BY <1>7 DEF FinishJob, Idle
    <3>2. i \in Job /\ Len(Plan[i]) # 0
      BY <3>1, TaskFacts DEF HistInv, TypeInv, ResOK
    <3>3. j # i => job'[j] = job[j] /\ logged'[j] = logged[j]
      BY ZenonT(30), <1>1, <2>2
    <3>4. j = i => logged'[j] = 1 /\ job'[j] = "done"
      BY <1>1, <1>2, <2>2, <3>2, SMTT(30) DEF LogAt
    <3>5. j = i => pc[j] \notin Early
      BY ZenonT(30), <1>2, <2>2, <3>2 DEF StartAt, Early
    <3> QED
      BY <1>3, <1>4, <3>3, <3>4, <3>5 DEF LogAt, Early
  <2> QED
    BY ZenonT(30), <1>7, <2>1, <2>2 DEF FinishJob
<1>8. CASE RunHousekeeping
  <2>1. logged' = logged /\ (job'[j] = job[j] \/ job'[j] = "trimmed")
    BY ZenonT(30), <1>1, <1>8 DEF RunHousekeeping
  <2> QED
    BY ZenonT(30), <1>2, <1>3, <2>1 DEF LogAt, Early
<1> QED
  BY ZenonT(30), <1>4, <1>5, <1>6, <1>7, <1>8, JobWriters

\* However many goroutines count zero remaining tasks, and whatever fails or
\* restarts meanwhile, "job finished" is logged once.
THEOREM FinishIsLoggedOnce == Spec => []FinishLoggedOnce
<1>1. Init => LogInv
  BY DEF Init, LogInv, LogAt
<1>2. HistInv /\ LogInv /\ [Next]_vars => LogInv'
  BY ZenonT(30), KeepsLogInv
<1>3. LogInv => FinishLoggedOnce
  BY ZenonT(30) DEF LogInv, LogAt, FinishLoggedOnce
<1> QED
  BY <1>1, <1>2, <1>3, HistInvariant, PTL DEF Spec

-----------------------------------------------------------------------------
(* OpenIsCurrent, while no statement fails.                                *)

LEMMA NoFault == ASSUME MaxFaults = 0, TypeInv PROVE ~Fault
<1>1. used.faults \in Nat
  BY ZenonT(30) DEF TypeInv, TypeOK, Spent
<1> QED
  BY <1>1 DEF Fault

\* Housekeeping only deletes rows.
LEMMA TrimsRows ==
  ASSUME TypeInv, RunHousekeeping, NEW x \in Task PROVE row'[x] = row[x] \/ row'[x] = "none"
<1>1. \/ row' = [y \in Task |-> IF y[1] \in Trimmed(hk[1]) THEN "none" ELSE row[y]]
      \/ row' = row
  BY ZenonT(30) DEF RunHousekeeping
<1> QED
  BY ZenonT(30), <1>1

\* A batch leaves a target only when its row is not unfinished.
LEMMA Advances ==
  ASSUME MaxFaults = 0, TypeInv, [Next]_vars, NEW j \in Job, idx'[j] # idx[j]
  PROVE  row[Cur(j)] # "open" /\ row' = row
<1>1. idx \in [Job -> Nat \ {0}]
  BY ZenonT(30) DEF TypeInv, TypeOK
<1>2. ASSUME NEW i \in Job, Starter(i), idx' # idx PROVE WaitTask(i) /\ i = j
  <2>1. i = j
    BY ZenonT(30), <1>2, GoStep
  <2>2. ~CreateConflict(i)
    BY ZenonT(30), <1>2, NoFault DEF CreateConflict
  <2>3. ~Pick(i) /\ ~Send(i)
    BY ZenonT(30), <1>2 DEF Pick, Send
  <2> QED
    BY ZenonT(30), <1>2, <2>1, <2>2, <2>3
       DEF Starter, StartSingle, CreateJob, FinishEmpty, ReserveNext,
       CreateTask, SetNode
<1>3. CASE WaitTask(j)
  <2>1. idx[j] < Len(Plan[j])
    BY ZenonT(30), <1>3 DEF WaitTask, NextTarget
  <2>2. ~Single(j)
    <3>1. idx[j] \in Nat /\ idx[j] # 0 /\ Len(Plan[j]) \in Nat
      BY ZenonT(30), <1>1, TaskFacts
    <3>2. \A m, n \in Nat : m # 0 /\ m < n => n # 1
      OBVIOUS
    <3> QED
      BY ZenonT(30), <2>1, <3>1, <3>2 DEF Single
  <2> QED
    BY ZenonT(30), <1>3, <2>2, NoFault DEF WaitTask, dbVars
<1>4. ~Restart
  BY ZenonT(30) DEF Restart
<1> QED
  BY ZenonT(30), <1>2, <1>3, <1>4, GoWriters

LEMMA KeepsOpenIsCurrent ==
  ASSUME MaxFaults = 0, TypeInv, OpenIsCurrent, [Next]_vars PROVE OpenIsCurrent'
<1> SUFFICES ASSUME NEW x \in Task, row'[x] = "open" PROVE x[2] = idx'[x[1]]
  BY ZenonT(30) DEF OpenIsCurrent
<1>1. row \in [Task -> {"none", "open", "done"}] /\ idx \in [Job -> Nat \ {0}]
  BY ZenonT(30) DEF TypeInv, TypeOK
<1>2. x[1] \in Job /\ x = <<x[1], x[2]>>
  BY ZenonT(30), TaskFacts
<1>3. CASE row[x] = "open"
  <2>1. x[2] = idx[x[1]]
    BY ZenonT(30), <1>3 DEF OpenIsCurrent
  <2>2. Cur(x[1]) = x
    BY ZenonT(30), <1>2, <2>1 DEF Cur
  <2> QED
    BY ZenonT(30), <1>2, <1>3, <2>1, <2>2, Advances
<1>4. CASE row[x] # "open"
  <2>1. ASSUME NEW j \in Job, CreateConflict(j) \/ CreateTask(j) PROVE x[2] = idx'[x[1]]
    <3>1. NewRow(Cur(j)) /\ idx' = idx
      BY ZenonT(30), <1>4, <2>1, NoFault DEF CreateConflict, CreateTask
    <3>2. x = Cur(j)
      BY ZenonT(30), <1>1, <1>4, <3>1 DEF NewRow
    <3> QED
      BY ZenonT(30), <3>1, <3>2 DEF Cur
  <2>2. ~ \E a \in Actor : UpdateRow(a)
    BY ZenonT(30), <1>1, <1>4 DEF UpdateRow
  <2>3. ~RunHousekeeping
    BY ZenonT(30), <1>1, <1>4, TrimsRows
  <2> QED
    BY ZenonT(30), <1>4, <2>1, <2>2, <2>3, RowWriters
<1> QED
  BY ZenonT(30), <1>3, <1>4

\* A batch has one unfinished task at a time as long as no poll of
\* waitForTaskFinished fails: connections and the process may come and go.
THEOREM OneTaskAtATime == MaxFaults = 0 => (Spec => []OneOpenRowPerJob)
<1> SUFFICES ASSUME MaxFaults = 0 PROVE Spec => []OneOpenRowPerJob
  BY ZenonT(30)
<1>1. Init => OpenIsCurrent
  BY ZenonT(30) DEF Init, OpenIsCurrent
<1>2. TypeInv /\ OpenIsCurrent /\ [Next]_vars => OpenIsCurrent'
  BY ZenonT(30), KeepsOpenIsCurrent
<1>3. OpenIsCurrent => OneOpenRowPerJob
  BY TaskFacts DEF OpenIsCurrent, OneOpenRowPerJob
<1> QED
  BY <1>1, <1>2, <1>3, TypeInvariant, PTL DEF Spec

-----------------------------------------------------------------------------
(* OwnerInv, while no statement fails and the primary is not restarted.    *)

\* A row that StartJob inserts is of a task it has not passed.
LEMMA InsertsCurrent ==
  ASSUME TypeInv, [Next]_vars, NEW x \in Task, row'[x] = "open", row[x] # "open"
  PROVE  \E j \in Job : /\ x = Cur(j) /\ ~Passed(x)
                        /\ \/ CreateConflict(j) /\ NewRow(x)
                           \/ CreateTask(j) /\ NewRow(x)
<1>1. row \in [Task -> {"none", "open", "done"}] /\ idx \in [Job -> Nat \ {0}]
  BY ZenonT(30) DEF TypeInv, TypeOK
<1>2. ASSUME NEW j \in Job, CreateConflict(j) \/ CreateTask(j)
      PROVE  x = Cur(j) /\ ~Passed(x) /\ NewRow(x)
  <2>1. NewRow(Cur(j))
    BY ZenonT(30), <1>2 DEF CreateConflict, CreateTask
  <2>2. x = Cur(j)
    BY ZenonT(30), <1>1, <2>1 DEF NewRow
  <2>3. pc[j] \notin Past
    BY ZenonT(30), <1>2 DEF CreateConflict, CreateTask, Past
  <2> QED
    BY <1>1, <2>1, <2>2, <2>3 DEF Passed, Cur
<1>3. ~ \E a \in Actor : UpdateRow(a)
  BY ZenonT(30), <1>1 DEF UpdateRow
<1>4. ~RunHousekeeping
  BY ZenonT(30), <1>1, TrimsRows
<1> QED
  BY ZenonT(30), <1>2, <1>3, <1>4, RowWriters

LEMMA KeepsResolvedOK ==
  ASSUME TypeInv, DispatchInv, ResolvedOK, MaxFaults = 0, [Next]_vars PROVE ResolvedOK'
<1> SUFFICES ASSUME NEW a \in Actor, res'[a].step \notin {"idle", "update"}
             PROVE  row'[res'[a].task] # "open"
  BY ZenonT(30) DEF ResolvedOK
<1>1. row \in [Task -> {"none", "open", "done"}] /\ res \in [Actor -> Resolving]
  BY ZenonT(30) DEF TypeInv, TypeOK
<1>2. Goes(a)
  BY ResolveStep DEF Gives, Tears, Reads, KeepsHouse, Idle
<1>3. res[a].task \in Task /\ Passed(res[a].task) /\ res'[a].task = res[a].task
  BY ZenonT(30), <1>2 DEF Goes, TypeInv, ResOK, DispatchInv, ResPast
<1>4. CASE UpdateRow(a)
  BY ZenonT(30), <1>1, <1>3, <1>4 DEF UpdateRow
<1>5. CASE ~UpdateRow(a)
  <2>1. res[a].step \notin {"idle", "update"}
    <3>1. ~ResolveFault(a)
      BY ZenonT(30), NoFault DEF ResolveFault
    <3>2. Resolver(a) => res[a].step \notin {"idle", "update"}
      BY ZenonT(30), <1>5 DEF Resolver, CountTotal, CountRemaining, FinishJob, Clear
    <3> QED
      BY ZenonT(30), <1>2, <3>1, <3>2 DEF Goes
  <2>2. row[res[a].task] # "open"
    BY ZenonT(30), <2>1 DEF ResolvedOK
  <2> QED
    BY ZenonT(30), <1>3, <2>2, InsertsCurrent
<1> QED
  BY ZenonT(30), <1>4, <1>5

LEMMA KeepsFailingOK ==
  ASSUME TypeInv, FailingOK, [Next]_vars PROVE FailingOK'
<1> SUFFICES ASSUME NEW c \in Conn, stale'[c] # {} PROVE link'[c] = "failing"
  BY ZenonT(30) DEF FailingOK
<1>1. link \in [Conn -> {"new", "up", "broken", "removed", "failing", "gone"}]
      /\ stale \in [Conn -> SUBSET Task]
  BY ZenonT(30) DEF TypeInv, TypeOK
<1>2. ASSUME NEW d \in Conn, Connect(d) \/ Drop(d) \/ Unregister(d) PROVE link'[c] = "failing"
  BY ZenonT(30), <1>1, <1>2 DEF Connect, Drop, Unregister, FailingOK
<1>3. ASSUME NEW d \in Conn, FailRunning(d) PROVE link'[c] = "failing"
  BY ZenonT(30), <1>1, <1>3 DEF FailRunning, FailingOK
<1>4. ASSUME NEW d \in Conn, FailNext(d) PROVE link'[c] = "failing"
  BY ZenonT(30), <1>1, <1>4 DEF FailNext, FailingOK
<1>5. ~Restart
  BY ZenonT(30) DEF Restart
<1> QED
  BY ZenonT(30), <1>2, <1>3, <1>4, <1>5, LinkWriters DEF FailingOK

\* A resolveTask that is about to finish a row does so.
LEMMA UpdatePending ==
  ASSUME TypeInv, DispatchInv, MaxFaults = 0, [Next]_vars, ~Restart,
         NEW a \in Actor, res[a].step = "update", row'[res[a].task] = "open"
  PROVE  res'[a] = res[a]
<1>1. row \in [Task -> {"none", "open", "done"}] /\ res \in [Actor -> Resolving]
  BY ZenonT(30) DEF TypeInv, TypeOK
<1>2. res[a] # Idle /\ res[a].task \in Task
  BY DEF Idle, TypeInv, ResOK
<1>3. ASSUME NEW j \in Job, CreateConflict(j) \/ Pick(j) \/ Send(j), res' # res PROVE res'[a] = res[a]
  <2>1. a # j
    BY ZenonT(30), <1>2, <1>3, StarterResolves DEF DispatchInv, OwnOK
  <2> QED
    BY <1>1, <1>3, <2>1, StarterResolves
<1>4. ASSUME NEW b \in Actor, Resolver(b) PROVE res'[a] = res[a]
  <2>1. CASE b # a
    BY ZenonT(30), <1>4, <2>1, ResolverKeepsTask
  <2>2. CASE b = a
    <3>1. UpdateRow(a)
      BY ZenonT(30), <1>4, <2>2 DEF Resolver, CountTotal, CountRemaining, FinishJob, Clear
    <3> QED
      BY ZenonT(30), <1>1, <1>2, <3>1 DEF UpdateRow
  <2> QED
    BY ZenonT(30), <2>1, <2>2
<1>5. ~ \E b \in Actor : ResolveFault(b)
  BY ZenonT(30), NoFault DEF ResolveFault
<1>6. ASSUME NEW c \in Conn, FailNext(c) \/ \E x \in Task : ReadExit(c, x) PROVE res'[a] = res[a]
  BY ZenonT(30), <1>1, <1>2, <1>6 DEF FailNext, ReadExit
<1>7. CASE RunHousekeeping
  BY ZenonT(30), <1>1, <1>2, <1>7 DEF RunHousekeeping
<1> QED
  BY ZenonT(30), <1>3, <1>4, <1>5, <1>6, <1>7, ResWriters

\* A task loses its target, while its row is unfinished, to a teardown only.
LEMMA HoldLost ==
  ASSUME TypeInv, DispatchInv, ResolvedOK, MaxFaults = 0, [Next]_vars, ~Restart,
         NEW x \in Task, Holds(x), row[x] = "open", ~Holds(x)'
  PROVE  \E c \in Conn : x \in stale'[c]
<1> DEFINE t == TargetOf(x)
<1>1. running \in [Target -> Reservation] /\ stale \in [Conn -> SUBSET Task] /\ t \in Target /\ x # None
  BY ZenonT(30), TaskFacts, HubJobsAssumption DEF TypeInv, TypeOK
<1>2. running[t].task = x /\ running'[t].task # x
  BY ZenonT(30) DEF Holds, TargetOf
<1>3. ~Keeps(t) /\ \A j \in Job : ~Takes(t, j) /\ ~Marks(t, j) /\ ~Sets(t, j)
  BY ZenonT(30), <1>1, <1>2 DEF Keeps, Takes, Marks, Sets, Reservation
<1>4. Frees(t) /\ FreedBy(t)
  BY ZenonT(30), <1>1, <1>3, ReservationStep
<1>5. ASSUME NEW j \in Job PROVE ~CreateJob(j)
  BY ZenonT(30), <1>2, NoFault DEF CreateJob
<1>6. ASSUME NEW j \in Job, CreateTask(j) PROVE FALSE
  <2>1. running' = IF Holds(Cur(j)) THEN [running EXCEPT ![TargetOf(Cur(j))].pk = TRUE] ELSE running
    BY ZenonT(30), <1>6, NoFault DEF CreateTask
  <2>2. running'[t].task = running[t].task
    BY ZenonT(30), <1>1, <2>1 DEF Reservation
  <2> QED
    BY ZenonT(30), <1>2, <2>2
<1>7. ASSUME NEW a \in Actor, Clear(a), running[t].task = res[a].task PROVE FALSE
  BY ZenonT(30), <1>2, <1>7 DEF Clear, ResolvedOK
<1>8. ASSUME NEW c \in Conn, FailRunning(c), running[t].task # None, running[t].node = NodeOf[c]
      PROVE  x \in stale'[c]
  BY ZenonT(30), <1>1, <1>2, <1>8 DEF FailRunning
<1> QED
  BY ZenonT(30), <1>4, <1>5, <1>6, <1>7, <1>8 DEF FreedBy

\* A teardown's list is worked off, not lost.
LEMMA StaleLost ==
  ASSUME TypeInv, FailingOK, [Next]_vars, ~Restart,
         NEW c \in Conn, NEW x \in stale[c], x \notin stale'[c]
  PROVE  res'[c].task = x /\ res'[c].step = "update"
<1>1. /\ res \in [Actor -> Resolving] /\ stale \in [Conn -> SUBSET Task]
      /\ link \in [Conn -> {"new", "up", "broken", "removed", "failing", "gone"}] /\ c \in Actor
  BY ZenonT(30) DEF TypeInv, TypeOK, Actor
<1>2. ASSUME NEW d \in Conn, FailRunning(d) PROVE FALSE
  BY ZenonT(30), <1>1, <1>2 DEF FailRunning, FailingOK
<1>3. ASSUME NEW d \in Conn, FailNext(d) PROVE res'[c].task = x /\ res'[c].step = "update"
  <2>1. PICK y \in stale[d] : /\ res' = [res EXCEPT ![d] = Resolve(y, FALSE)]
                              /\ stale' = [stale EXCEPT ![d] = @ \ {y}]
    BY ZenonT(30), <1>3 DEF FailNext
  <2>2. d = c /\ y = x
    BY ZenonT(30), <1>1, <2>1
  <2> QED
    BY ZenonT(30), <1>1, <2>1, <2>2 DEF Resolve
<1>4. ~ \E d \in Conn : Connect(d) \/ Drop(d) \/ Unregister(d)
  BY ZenonT(30) DEF Connect, Drop, Unregister
<1> QED
  BY ZenonT(30), <1>2, <1>3, <1>4, LinkWriters

LEMMA KeepsNoOrphanRow ==
  ASSUME TypeInv, DispatchInv, OwnerInv, MaxFaults = 0, [Next]_vars, ~Restart
  PROVE  NoOrphanRow'
<1> DEFINE Owned(x) == \/ Holds(x)'
                       \/ \E c \in Conn : x \in stale'[c]
                       \/ \E a \in Actor : res'[a].task = x /\ res'[a].step = "update"
<1> SUFFICES ASSUME NEW x \in Task, row'[x] = "open" PROVE Owned(x)
  BY ZenonT(30) DEF NoOrphanRow, Holds, TargetOf
<1>1. res \in [Actor -> Resolving] /\ running \in [Target -> Reservation] /\ Conn \subseteq Actor
  BY ZenonT(30) DEF TypeInv, TypeOK, Actor
<1>2. CASE row[x] = "open"
  <2>1. CASE Holds(x)
    BY ZenonT(30), <1>2, <2>1, HoldLost DEF OwnerInv
  <2>2. ASSUME NEW c \in Conn, x \in stale[c] PROVE Owned(x)
    BY ZenonT(30), <1>1, <2>2, StaleLost DEF OwnerInv
  <2>3. ASSUME NEW a \in Actor, res[a].task = x, res[a].step = "update" PROVE Owned(x)
    BY ZenonT(30), <2>3, UpdatePending
  <2> QED
    BY ZenonT(30), <1>2, <2>1, <2>2, <2>3 DEF OwnerInv, NoOrphanRow
<1>3. CASE row[x] # "open"
  <2>1. PICK j \in Job : /\ x = Cur(j) /\ ~Passed(x)
                         /\ \/ CreateConflict(j) /\ NewRow(x)
                            \/ CreateTask(j) /\ NewRow(x)
    BY ZenonT(30), <1>3, InsertsCurrent
  <2>2. CASE CreateConflict(j)
    <3>1. j \in Actor /\ res' = [res EXCEPT ![j] = Resolve(x, FALSE)]
      BY ZenonT(30), <2>1, <2>2, NoFault DEF CreateConflict, Actor
    <3>2. res'[j].task = x /\ res'[j].step = "update"
      BY ZenonT(30), <1>1, <3>1 DEF Resolve
    <3> QED
      BY ZenonT(30), <3>1, <3>2
  <2>3. CASE CreateTask(j)
    <3>1. TargetOf(x) \in Target /\ Holds(x)
      BY ZenonT(30), <2>1, <2>3, TaskFacts DEF CreateTask, DispatchInv, HoldOK
    <3>2. running' = [running EXCEPT ![TargetOf(x)].pk = TRUE]
      BY ZenonT(30), <2>1, <2>3, <3>1, NoFault DEF CreateTask
    <3>3. running'[TargetOf(x)].task = x
      BY ZenonT(30), <1>1, <3>1, <3>2 DEF Holds, Reservation
    <3> QED
      BY ZenonT(30), <3>3 DEF Holds, TargetOf
  <2> QED
    BY ZenonT(30), <2>1, <2>2, <2>3
<1> QED
  BY ZenonT(30), <1>2, <1>3

LEMMA NoRestart == ASSUME MaxRestarts = 0, TypeInv PROVE ~Restart
<1>1. used.restarts \in Nat
  BY ZenonT(30) DEF TypeInv, TypeOK, Spent
<1> QED
  BY <1>1 DEF Restart

\* Every unfinished row keeps somebody who will finish it, as long as no
\* statement fails and the process lives: edits, lost connections and lost
\* exit lines included.
THEOREM RowsAreOwned == MaxFaults = 0 /\ MaxRestarts = 0 => (Spec => []NoOrphanRow)
<1> SUFFICES ASSUME MaxFaults = 0, MaxRestarts = 0 PROVE Spec => []NoOrphanRow
  BY ZenonT(30)
<1>1. Init => OwnerInv
  BY DEF Init, OwnerInv, ResolvedOK, FailingOK, NoOrphanRow, Idle
<1>2. TypeInv /\ DispatchInv /\ OwnerInv /\ [Next]_vars => OwnerInv'
  BY ZenonT(30), KeepsResolvedOK, KeepsFailingOK, KeepsNoOrphanRow, NoRestart DEF OwnerInv
<1>3. OwnerInv => NoOrphanRow
  BY ZenonT(30) DEF OwnerInv
<1> QED
  BY <1>1, <1>2, <1>3, TypeInvariant, DispatchInvariant, PTL DEF Spec

-----------------------------------------------------------------------------
(* The contract.                                                           *)

\* While no node is edited, no two commands of one target are in flight,
\* whatever connections break, statements fail or processes restart.
THEOREM TargetsRunOnce == ~Edits => (Spec => []OneInFlight)
<1> SUFFICES ASSUME ~Edits PROVE Spec => []OneInFlight
  BY ZenonT(30)
<1>1. WireInv => OneInFlight
  BY ZenonT(30) DEF WireInv, FlightOK, OneInFlight, Holds
<1> QED
  BY <1>1, WireInvariant, PTL

\* Under the same condition every event that is read finds its task's row.
THEOREM EventsReachTheirRow == ~Edits => (Spec => []EventsAttached)
<1> SUFFICES ASSUME ~Edits PROVE Spec => []EventsAttached
  BY ZenonT(30)
<1>1. WireInv => EventsAttached
  BY ZenonT(30) DEF WireInv
<1> QED
  BY <1>1, WireInvariant, PTL

\* The contract of the job side, for every set of jobs, plans, nodes and
\* connections and every number of lost connections and exit lines.
THEOREM JobsStaySafe ==
  MaxFaults = 0 /\ MaxRestarts = 0 /\ ~Edits => (Spec => []JobsSafe)
<1> SUFFICES ASSUME MaxFaults = 0, MaxRestarts = 0, ~Edits PROVE Spec => []JobsSafe
  BY ZenonT(30)
<1>1. OneInFlight /\ EventsAttached /\ NoOrphanRow /\ OneOpenRowPerJob
      /\ FinishedJobIsComplete /\ FinishLoggedOnce => JobsSafe
  BY ZenonT(30) DEF JobsSafe
<1>2. Spec => []OneInFlight /\ []EventsAttached
  BY ZenonT(30), TargetsRunOnce, EventsReachTheirRow
<1>3. Spec => []NoOrphanRow /\ []OneOpenRowPerJob
  BY ZenonT(30), RowsAreOwned, OneTaskAtATime
<1> QED
  BY <1>1, <1>2, <1>3, JobsFinishComplete, FinishIsLoggedOnce, PTL

=============================================================================
