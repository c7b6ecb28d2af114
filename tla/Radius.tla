------------------------------- MODULE Radius -------------------------------
(***************************************************************************)
(* The RADIUS server of a worker: first its login log, then its requests.  *)
(***************************************************************************)
EXTENDS Integers, Sequences, SequencesExt, FiniteSets

-----------------------------------------------------------------------------
(***************************************************************************)
(* The login log of a worker's RADIUS server (radius/server.go) on its way *)
(* to the primary (web/handle_radius.go).  Handlers enqueue events in      *)
(* memory; reportLoop, one goroutine, flushes the queue to the primary     *)
(* every second and spools to a file what it could not ship; the spool is  *)
(* drained once, when the server starts.  The process may stop, or be      *)
(* killed, at any step.                                                    *)
(***************************************************************************)

CONSTANTS
    MaxEvents,      \* bound: events logged
    Batch,          \* events in one flush (100)
    HubBatch,       \* events the primary takes in one request (100)
    MaxSpool,       \* lines the spool keeps (1000)
    MaxLogFaults       \* bound: outages, late answers, disk errors and kills

ASSUME RadiusLogAssumption ==
    {MaxEvents, Batch, HubBatch, MaxSpool} \subseteq Nat \ {0} /\ MaxLogFaults \in Nat

Event == 1 .. MaxEvents

VARIABLES
    n,          \* events logged so far: 1 .. n
    queue,      \* s.queue
    batch,      \* what flush is about to report
    spool,      \* events.jsonl
    pc,         \* reportLoop: "off", "drain", "remove", "loop", "report", "trim"
    stop,       \* "no", "asked" (ctx is done), "final" (the last flush was taken)
    rows,       \* rows[e]: rows of e in the primary's log
    up,         \* the primary answers
    logLost,       \* events no part of the program holds any more
    logFaults      \* faults so far

logvars == <<n, queue, batch, spool, pc, stop, rows, up, logLost, logFaults>>

LogInit ==
    /\ n = 0 /\ queue = <<>> /\ batch = <<>> /\ spool = <<>> /\ pc = "drain"
    /\ stop = "no" /\ rows = [e \in Event |-> 0] /\ up = TRUE /\ logLost = {} /\ logFaults = 0

Fault == logFaults < MaxLogFaults /\ logFaults' = logFaults + 1
Keep(s, m) == SubSeq(s, Len(s) - m + 1, Len(s))

\* enqueue, from any handler still running.
Enqueue ==
    /\ pc # "off" /\ n < MaxEvents
    /\ n' = n + 1 /\ queue' = Append(queue, n + 1)
    /\ UNCHANGED <<batch, spool, pc, stop, rows, up, logLost, logFaults>>

\* ApiRadiusEvents: 1 to 100 events, stored in one Create.
Stored(events) == [e \in Event |-> rows[e] + IF e \in Range(events) THEN 1 ELSE 0]
Takes(events) == up /\ Len(events) \in 1 .. HubBatch

\* Report: shipped; refused or not answered; or stored, with the answer late.
ReportOk(events) == Takes(events) /\ rows' = Stored(events) /\ UNCHANGED logFaults
ReportFails(events) == (stop = "asked" \/ ~Takes(events)) /\ UNCHANGED <<rows, logFaults>>
ReportLate(events) == Takes(events) /\ rows' = Stored(events) /\ Fault

\* Mutant of SpoolThen: the file is written anew.
SpoolOver(events) ==
    /\ UNCHANGED logLost /\ spool' = events /\ pc' = "trim"

\* spool: the events are appended to the file, which is trimmed after.
SpoolThen(events) ==
    /\ UNCHANGED logLost /\ spool' = spool \o events /\ pc' = "trim"

\* ... or the file cannot be opened, and the events are dropped.
SpoolFails(events, next) ==
    /\ logLost' = logLost \cup Range(events) /\ UNCHANGED spool /\ pc' = next /\ Fault

\* drainSpool, at the start: the whole file in one request.
Drain ==
    /\ pc = "drain"
    /\ IF spool = <<>> THEN pc' = "loop" /\ UNCHANGED <<rows, logFaults>>
       ELSE \/ ReportOk(spool) /\ pc' = "remove"
            \/ (ReportFails(spool) \/ ReportLate(spool)) /\ pc' = "loop"
    /\ UNCHANGED <<n, queue, batch, spool, stop, up, logLost>>

\* os.RemoveSpool, whose error is ignored.
RemoveSpool ==
    /\ pc = "remove" /\ pc' = "loop"
    /\ \/ spool' = <<>> /\ UNCHANGED logFaults
       \/ UNCHANGED spool /\ Fault
    /\ UNCHANGED <<n, queue, batch, stop, rows, up, logLost>>

\* Mutant of Flush: what is over one batch is forgotten.
FlushHead ==
    /\ pc = "loop" /\ stop # "final"
    /\ queue' = <<>> /\ stop' = IF stop = "asked" THEN "final" ELSE stop
    /\ batch' = SubSeq(queue, 1, IF Len(queue) > Batch THEN Batch ELSE Len(queue))
    /\ pc' = IF queue = <<>> THEN "loop" ELSE "report"
    /\ UNCHANGED <<n, spool, rows, up, logLost, logFaults>>

\* flush, on the ticker or, when ctx is done, for the last time: the queue is
\* taken; what is over one batch goes to the spool.
Flush ==
    /\ pc = "loop" /\ stop # "final"
    /\ queue' = <<>>
    /\ stop' \in IF stop = "asked" THEN {"asked", "final"} ELSE {stop}
    /\ IF Len(queue) > Batch
       THEN LET rest == SubSeq(queue, Batch + 1, Len(queue))
            IN  /\ batch' = SubSeq(queue, 1, Batch)
                /\ \/ SpoolThen(rest) /\ UNCHANGED logFaults
                   \/ SpoolFails(rest, "report")
       ELSE /\ batch' = queue /\ pc' = IF queue = <<>> THEN "loop" ELSE "report"
            /\ UNCHANGED <<spool, logLost, logFaults>>
    /\ UNCHANGED <<n, rows, up>>

\* The batch is reported; one that fails is spooled.
Report ==
    /\ pc = "report" /\ batch' = <<>>
    /\ \/ ReportOk(batch) /\ pc' = "loop" /\ UNCHANGED <<spool, logLost>>
       \/ (ReportFails(batch) \/ ReportLate(batch)) /\ SpoolThen(batch)
       \/ ~Takes(batch) /\ SpoolFails(batch, "loop") /\ UNCHANGED rows
    /\ UNCHANGED <<n, queue, stop, up>>

\* Mutant of Trim: the newest lines go.
TrimNewest ==
    /\ pc = "trim" /\ pc' = IF batch = <<>> THEN "loop" ELSE "report"
    /\ spool' = IF Len(spool) > MaxSpool THEN SubSeq(spool, 1, MaxSpool) ELSE spool
    /\ logLost' = logLost \cup {e \in Range(spool) \ Range(spool') : rows[e] = 0}
    /\ UNCHANGED <<n, queue, batch, stop, rows, up, logFaults>>

\* trimSpool: the file is rewritten with its newest lines.
Trim ==
    /\ pc = "trim" /\ pc' = IF batch = <<>> THEN "loop" ELSE "report"
    /\ spool' = IF Len(spool) > MaxSpool THEN Keep(spool, MaxSpool) ELSE spool
    /\ logLost' = logLost \cup {e \in Range(spool) \ Range(spool') : rows[e] = 0}
    /\ UNCHANGED <<n, queue, batch, stop, rows, up, logFaults>>

\* ctx is cancelled; Run waits for reportLoop, not for the handlers.
Stop ==
    /\ pc # "off" /\ stop = "no" /\ stop' = "asked"
    /\ UNCHANGED <<n, queue, batch, spool, pc, rows, up, logLost, logFaults>>

Exit ==
    /\ pc = "loop" /\ stop = "final" /\ pc' = "off" /\ queue' = <<>>
    /\ logLost' = logLost \cup Range(queue)
    /\ UNCHANGED <<n, batch, spool, stop, rows, up, logFaults>>

StartLog ==
    /\ pc = "off" /\ pc' = "drain" /\ stop' = "no"
    /\ UNCHANGED <<n, queue, batch, spool, rows, up, logLost, logFaults>>

\* The process is killed: memory is gone, and a file being rewritten is empty.
Kill ==
    /\ pc # "off" /\ Fault /\ pc' = "off" /\ queue' = <<>> /\ batch' = <<>>
    /\ spool' \in {spool} \cup IF pc = "trim" /\ Len(spool) > MaxSpool THEN {<<>>} ELSE {}
    /\ logLost' = logLost \cup {e \in 1 .. n : rows[e] = 0 /\ e \notin Range(spool')}
    /\ UNCHANGED <<n, stop, rows, up>>

\* The primary goes away, and comes back.
Outage ==
    /\ up' = ~up /\ (IF up THEN Fault ELSE UNCHANGED logFaults)
    /\ UNCHANGED <<n, queue, batch, spool, pc, stop, rows, logLost>>

LogNext ==
    \/ Enqueue \/ Drain \/ RemoveSpool \/ Flush \/ Report \/ Trim
    \/ Stop \/ Exit \/ StartLog \/ Kill \/ Outage

LogSpec == LogInit /\ [][LogNext]_logvars

\* The goroutine is scheduled, the ticker ticks and a supervisor starts the
\* process again; nothing obliges anyone to stop it.
LogFairness ==
    /\ WF_logvars(Drain) /\ WF_logvars(RemoveSpool) /\ WF_logvars(Flush) /\ WF_logvars(Report)
    /\ WF_logvars(Trim) /\ WF_logvars(Exit) /\ WF_logvars(StartLog)

LogFairSpec == LogSpec /\ LogFairness

-----------------------------------------------------------------------------
(* Properties.                                                             *)

\* Every variable keeps its type; without a kill halfway, the file exceeds its
\* limit only while spool is at work on it.
LogTypeOK ==
    /\ n \in 0 .. MaxEvents /\ queue \in Seq(Event) /\ batch \in Seq(Event)
    /\ spool \in Seq(Event) /\ rows \in [Event -> Nat] /\ up \in BOOLEAN
    /\ pc \in {"off", "drain", "remove", "loop", "report", "trim"}
    /\ stop \in {"no", "asked", "final"} /\ logLost \subseteq Event /\ logFaults \in 0 .. MaxLogFaults
    /\ (pc # "trim" /\ logFaults = 0) => Len(spool) <= MaxSpool

\* Across flushes, failed reports, spooling, draining and restarts every event
\* is in memory, in the file, at the primary, or was lost to a limit, a disk
\* error or the end of the process: flush and drainSpool drop nothing.
NothingVanishes ==
    /\ LogTypeOK
    /\ \A e \in 1 .. n :
        \/ e \in Range(queue) \cup Range(batch) \cup Range(spool) \cup logLost
        \/ rows[e] > 0

\* The log tab shows an event more than once only by a fault: an answer
\* that came late, a file that could not be removed, a kill in between.
OneRowPerFault == \A e \in Event : rows[e] <= 1 + logFaults

\* trimSpool gives up the oldest lines: no step takes a line out of the file
\* and leaves an older one in it.
OldestGoFirst ==
    [][\A i \in DOMAIN spool : \A j \in 1 .. i - 1 :
          (spool[i] \notin Range(spool') /\ spool[j] # spool[i])
              => spool[j] \notin Range(spool')]_logvars

Shipped(e) == rows[e] > 0 \/ e \in logLost

\* A restart ships what the worker held: with the primary up for good and a
\* drainSpool that runs again and again unhurried, all that was logged reaches
\* it, as long as the file is never longer than what the primary takes at once.
ShippedByRestart ==
    (<>[]up /\ []<><<Drain /\ stop = "no">>_logvars /\ [](Len(spool) <= HubBatch)) =>
        <>[](\A e \in 1 .. n : Shipped(e))

\* No event of the login log disappears, and a repeated row has a cause.
LogSafe == NothingVanishes /\ OneRowPerFault

-----------------------------------------------------------------------------
(***************************************************************************)
(* Access requests at a worker's RADIUS server (radius/server.go).  A      *)
(* client retransmits a request until it is answered.  readOnce gives each *)
(* packet a slot and a goroutine, or drops it; begin and storeReplay keep, *)
(* per source and RADIUS identifier, the last request authenticator and    *)
(* its reply, so that a duplicate is neither worked on twice nor answered  *)
(* differently.  A request is known by its authenticator; several requests *)
(* may carry the same identifier, since a client has 256 of them and each  *)
(* of its sockets numbers its own.                                         *)
(***************************************************************************)

CONSTANTS
    Req,            \* requests (authenticators) of one source
    KeyOf,          \* KeyOf[r]: r's identifier
    NoAnswer,
    Slots,          \* goroutines at a time (64)
    Copies,         \* copies of a request its client sends at most
    MaxExpired      \* bound: replay entries that reach their end (replayFor, 5 s)

ASSUME RadiusLoginAssumption ==
    /\ DOMAIN KeyOf = Req /\ Slots \in Nat \ {0} /\ {Copies, MaxExpired} \subseteq Nat

Key == {KeyOf[r] : r \in Req}
Copy == Req \X (1 .. Copies)        \* the k-th packet of r
Reply == {"accept", "reject"}

VARIABLES
    loginPc,         \* pc[c]: "unsent", "begin", "work", "answer", "store", "done", "lost"
    out,        \* out[c]: the reply this goroutine has decided on; None for no reply
    replay,     \* s.replay: [auth, reply, done], or None
    passedTo,       \* sent[r]: the replies sent to r's client
    loginUsed        \* entries expired so far

loginvars == <<loginPc, out, replay, passedTo, loginUsed>>

LoginInit ==
    /\ loginPc = [c \in Copy |-> "unsent"] /\ out = [c \in Copy |-> NoAnswer]
    /\ replay = [k \in Key |-> NoAnswer] /\ passedTo = [r \in Req |-> {}] /\ loginUsed = 0

LoginGoto(c, step) == loginPc' = [loginPc EXCEPT ![c] = step]
KeyOfCopy(c) == KeyOf[c[1]]
Busy == {c \in Copy : loginPc[c] \in {"begin", "work", "answer", "store"}}

\* The client sends a packet, in its order; readOnce takes it, or it is lost on
\* the way, over the rate limit or without a free slot.
Receive(c) ==
    /\ loginPc[c] = "unsent" /\ \A k \in 1 .. c[2] - 1 : loginPc[<<c[1], k>>] # "unsent"
    /\ \E step \in {"begin", "lost"} :
         LoginGoto(c, step) /\ (step = "begin" => Cardinality(Busy) < Slots)
    /\ UNCHANGED <<out, replay, passedTo, loginUsed>>

Resend(r, e) == IF e = NoAnswer THEN passedTo ELSE [passedTo EXCEPT ![r] = @ \cup {e}]

\* Mutant of Begin: the authenticator is not compared.
BeginByKey(c) ==
    /\ loginPc[c] = "begin"
    /\ LET k == KeyOfCopy(c)
           e == replay[k]
       IN  IF e # NoAnswer
           THEN /\ passedTo' = IF e.done THEN Resend(c[1], [of |-> e.auth, reply |-> e.reply]) ELSE passedTo
                /\ LoginGoto(c, "done") /\ UNCHANGED <<replay, out>>
           ELSE /\ replay' = [replay EXCEPT ![k] = [auth |-> c[1], reply |-> NoAnswer, done |-> FALSE]]
                /\ LoginGoto(c, "work") /\ UNCHANGED <<passedTo, out>>
    /\ UNCHANGED loginUsed

\* Mutant of Begin: only an answered duplicate is recognised.
BeginIfDone(c) ==
    /\ loginPc[c] = "begin"
    /\ LET k == KeyOfCopy(c)
           e == replay[k]
       IN  IF e # NoAnswer /\ e.auth = c[1] /\ e.done
           THEN /\ passedTo' = Resend(c[1], [of |-> e.auth, reply |-> e.reply])
                /\ LoginGoto(c, "done") /\ UNCHANGED <<replay, out>>
           ELSE /\ replay' = [replay EXCEPT ![k] = [auth |-> c[1], reply |-> NoAnswer, done |-> FALSE]]
                /\ LoginGoto(c, "work") /\ UNCHANGED <<passedTo, out>>
    /\ UNCHANGED loginUsed

\* begin: a duplicate gets the stored reply or, while the first is at work,
\* nothing; any other request takes the entry over.
Begin(c) ==
    /\ loginPc[c] = "begin"
    /\ LET k == KeyOfCopy(c)
           e == replay[k]
       IN  IF e # NoAnswer /\ e.auth = c[1]
           THEN /\ passedTo' = IF e.done THEN Resend(c[1], [of |-> e.auth, reply |-> e.reply]) ELSE passedTo
                /\ LoginGoto(c, "done") /\ UNCHANGED <<replay, out>>
           ELSE /\ replay' = [replay EXCEPT ![k] = [auth |-> c[1], reply |-> NoAnswer, done |-> FALSE]]
                /\ LoginGoto(c, "work") /\ UNCHANGED <<passedTo, out>>
    /\ UNCHANGED loginUsed

\* gate, the directories and authorize decide; a packet gate drops has no reply.
Work(c) ==
    /\ loginPc[c] = "work"
    /\ \/ \E o \in Reply : out' = [out EXCEPT ![c] = o] /\ LoginGoto(c, "answer")
       \/ LoginGoto(c, "done") /\ UNCHANGED out
    /\ UNCHANGED <<replay, passedTo, loginUsed>>

\* finish: the reply is sent first ...
Answer(c) ==
    /\ loginPc[c] = "answer" /\ LoginGoto(c, "store")
    /\ passedTo' = Resend(c[1], [of |-> c[1], reply |-> out[c]])
    /\ UNCHANGED <<out, replay, loginUsed>>

\* ... and stored for the duplicates, whatever the entry holds by now.
StoreReplay(c) ==
    /\ loginPc[c] = "store" /\ LoginGoto(c, "done")
    /\ replay' = [replay EXCEPT ![KeyOfCopy(c)] = [auth |-> c[1], reply |-> out[c], done |-> TRUE]]
    /\ UNCHANGED <<out, passedTo, loginUsed>>

\* An entry past its end no longer counts; its request may still be at work,
\* since a directory has authTimeout (8 s) to answer.
Expire(k) ==
    /\ replay[k] # NoAnswer /\ loginUsed < MaxExpired /\ loginUsed' = loginUsed + 1
    /\ replay' = [replay EXCEPT ![k] = NoAnswer]
    /\ UNCHANGED <<loginPc, out, passedTo>>

LoginNext ==
    \/ \E c \in Copy : Receive(c) \/ Begin(c) \/ Work(c) \/ Answer(c) \/ StoreReplay(c)
    \/ \E k \in Key : Expire(k)

LoginSpec == LoginInit /\ [][LoginNext]_loginvars

-----------------------------------------------------------------------------
(* Properties.                                                             *)

\* Every variable keeps its type, and no more goroutines run than there are
\* slots.
LoginTypeOK ==
    /\ loginPc \in [Copy -> {"unsent", "begin", "work", "answer", "store", "done", "lost"}]
    /\ out \in [Copy -> Reply \cup {NoAnswer}]
    /\ replay \in [Key -> [auth : Req, reply : Reply \cup {NoAnswer}, done : BOOLEAN] \cup {NoAnswer}]
    /\ passedTo \in [Req -> SUBSET [of : Req, reply : Reply]]
    /\ loginUsed \in 0 .. MaxExpired
    /\ Cardinality(Busy) <= Slots

\* No entry has expired, and no request with the same key has arrived: a
\* client takes an identifier again only after replayFor.
Alone(r) ==
    /\ loginUsed = 0
    /\ \A q \in Req \ {r} : KeyOf[q] = KeyOf[r] => \A k \in 1 .. Copies : loginPc[<<q, k>>] = "unsent"

\* begin's promise, "proceed is false when a duplicate is already running": a
\* request is at work in at most one goroutine at a time, while it has its key
\* to itself.
OneWorker ==
    \A r \in Req : Alone(r) =>
        Cardinality({k \in 1 .. Copies : loginPc[<<r, k>>] \in {"work", "answer", "store"}}) <= 1

\* A client that retransmits within replayFor never gets two different answers
\* to one request, whatever the directories say the second time.
OneAnswer == \A r \in Req : Alone(r) => Cardinality(passedTo[r]) <= 1

\* A stored reply is only ever sent to the request it answers: its
\* authenticator was computed from that request.
ReplyIsForRequest == LoginTypeOK /\ \A r \in Req : \A e \in passedTo[r] : e.of = r

\* One goroutine works on a request, it gets one answer, and its own.
LoginSafe == ReplyIsForRequest /\ OneWorker /\ OneAnswer
=============================================================================
