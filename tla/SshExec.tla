------------------------------ MODULE SshExec ------------------------------
(***************************************************************************)
(* The cached SSH connection of a device that packet captures share        *)
(* (drivers/sshexec.go).  A capture takes the slot's client, or dials one  *)
(* while later captures wait, opens an exec channel on it, and drops its   *)
(* reference when the stream ends.  The connection stays for the next      *)
(* capture until it has been idle, has died, or is wanted with another     *)
(* password.                                                               *)
(***************************************************************************)
EXTENDS Integers, Sequences, FiniteSets

CONSTANTS
    Capture,        \* calls of openCachedSSHExec
    PwFor,          \* PwFor[c]: the password the capture brings
    Nobody,
    MaxLost         \* bound: failed dials, lost connections, refused channels

ASSUME SshExecAssumption == IsFiniteSet(Capture) /\ DOMAIN PwFor = Capture /\ MaxLost \in Nat

VARIABLES
    client,     \* slot.client: the number of the dial, 0 for none
    password,   \* slot.password
    refs, dialing,
    conn,       \* conn[x]: "live", "gone" (the peer is lost) or "closed"; x-th dial
    step,       \* step[c]: where the capture is
    uses,       \* uses[c]: the client it acquired, 0 for none
    retried,    \* retried[c]: it is on its second attempt
    lost

vars == <<client, password, refs, dialing, conn, step, uses, retried, lost>>
slot == <<client, password, refs, dialing>>

Init ==
    /\ client = 0 /\ password = Nobody /\ refs = 0 /\ dialing = FALSE /\ conn = <<>>
    /\ step = [c \in Capture |-> "acquire"] /\ uses = [c \in Capture |-> 0]
    /\ retried = [c \in Capture |-> FALSE] /\ lost = 0

Go(c, s) == step' = [step EXCEPT ![c] = s]
Lose == lost < MaxLost /\ lost' = lost + 1
\* takeClientLocked, and the Close that follows it.
CloseClient == client' = 0 /\ conn' = [conn EXCEPT ![client] = "closed"]
Take(c, x) == uses' = [uses EXCEPT ![c] = x] /\ refs' = refs + 1 /\ Go(c, "start")

-----------------------------------------------------------------------------
(* acquire *)

\* Mutant of AcquireOther: a connection in use is closed too.
AcquireOtherTakes(c) ==
    /\ step[c] = "acquire" /\ client # 0 /\ password # PwFor[c]
    /\ CloseClient /\ UNCHANGED <<step, password, refs, dialing, uses, retried, lost>>

\* The client was dialed with another password: refused while somebody uses it,
\* else it is closed and the loop starts over.
AcquireOther(c) ==
    /\ step[c] = "acquire" /\ client # 0 /\ password # PwFor[c]
    /\ IF refs > 0 THEN Go(c, "done") /\ UNCHANGED <<client, conn>>
       ELSE CloseClient /\ UNCHANGED step
    /\ UNCHANGED <<password, refs, dialing, uses, retried, lost>>

AcquireCached(c) ==
    /\ step[c] = "acquire" /\ client # 0 /\ password = PwFor[c] /\ Take(c, client)
    /\ UNCHANGED <<client, password, dialing, conn, retried, lost>>

\* Somebody is dialing: wait for the broadcast.
AcquireWaits(c) ==
    /\ step[c] = "acquire" /\ client = 0 /\ dialing /\ Go(c, "wait")
    /\ UNCHANGED <<slot, conn, uses, retried, lost>>

\* Mutant of AcquireDials: the flag is not looked at.
AcquireDialsToo(c) ==
    /\ step[c] = "acquire" /\ client = 0 /\ dialing' = TRUE /\ Go(c, "dial")
    /\ UNCHANGED <<client, password, refs, conn, uses, retried, lost>>

AcquireDials(c) ==
    /\ step[c] = "acquire" /\ client = 0 /\ ~dialing /\ dialing' = TRUE /\ Go(c, "dial")
    /\ UNCHANGED <<client, password, refs, conn, uses, retried, lost>>

\* The end of a dial wakes every waiter.
Woken(c, s) == step' = [d \in Capture |-> IF d = c THEN s
                                          ELSE IF step[d] = "wait" THEN "acquire" ELSE step[d]]

\* Mutant of DialFails: only a dial that succeeds wakes the waiters.
DialFailsSilent(c) ==
    /\ step[c] = "dial" /\ Lose /\ dialing' = FALSE /\ Go(c, "done")
    /\ UNCHANGED <<client, password, refs, conn, uses, retried>>

DialFails(c) ==
    /\ step[c] = "dial" /\ Lose /\ dialing' = FALSE /\ Woken(c, "done")
    /\ UNCHANGED <<client, password, refs, conn, uses, retried>>

\* The slot gets the client; one that another dial put there meanwhile is used
\* instead, refused, or closed (DialOwnsSlot: it never is there).
DialOk(c) ==
    /\ step[c] = "dial" /\ dialing' = FALSE
    /\ LET x == Len(conn) + 1
           same == client # 0 /\ password = PwFor[c]
       IN  IF same
           THEN /\ conn' = Append(conn, "closed") /\ UNCHANGED <<client, password>>
                /\ refs' = refs + 1 /\ uses' = [uses EXCEPT ![c] = client] /\ Woken(c, "start")
           ELSE IF client # 0 /\ refs > 0
           THEN /\ conn' = Append(conn, "closed") /\ UNCHANGED <<client, password, refs, uses>>
                /\ Woken(c, "done")
           ELSE /\ conn' = Append(IF client # 0 THEN [conn EXCEPT ![client] = "closed"] ELSE conn, "live")
                /\ client' = x /\ password' = PwFor[c]
                /\ refs' = refs + 1 /\ uses' = [uses EXCEPT ![c] = x] /\ Woken(c, "start")
    /\ UNCHANGED <<retried, lost>>

-----------------------------------------------------------------------------
(* openCachedSSHExec *)

\* startExecOnClient opens the channel ...
StartOk(c) ==
    /\ step[c] = "start" /\ conn[uses[c]] = "live" /\ Go(c, "stream")
    /\ UNCHANGED <<slot, conn, uses, retried, lost>>

Drop(c, s) == refs' = (IF refs > 0 THEN refs - 1 ELSE 0) /\ Go(c, s)

\* ... or the device refuses the command, or the caller has gone.
StartFails(c) ==
    /\ step[c] = "start" /\ Lose /\ Drop(c, "done") /\ uses' = [uses EXCEPT ![c] = 0]
    /\ UNCHANGED <<client, password, dialing, conn, retried>>

\* NewSession fails: the connection is gone (errSSHExecSession), or the device
\* has no channel left.
NoSession(c) ==
    /\ step[c] = "start"
    /\ \/ conn[uses[c]] # "live" /\ UNCHANGED lost
       \/ conn[uses[c]] = "live" /\ Lose
    /\ Drop(c, "discard")
    /\ UNCHANGED <<client, password, dialing, conn, uses, retried>>

\* Mutant of Discard: the other captures on the connection are not counted.
DiscardUsed(c) ==
    /\ step[c] = "discard"
    /\ IF client = uses[c] THEN CloseClient ELSE UNCHANGED <<client, conn>>
    /\ Go(c, IF retried[c] THEN "done" ELSE "acquire")
    /\ retried' = [retried EXCEPT ![c] = TRUE] /\ uses' = [uses EXCEPT ![c] = 0]
    /\ UNCHANGED <<password, refs, dialing, lost>>

\* discard closes the client if nobody uses it; then there is one more attempt.
Discard(c) ==
    /\ step[c] = "discard"
    /\ IF client = uses[c] /\ refs = 0 THEN CloseClient ELSE UNCHANGED <<client, conn>>
    /\ Go(c, IF retried[c] THEN "done" ELSE "acquire")
    /\ retried' = [retried EXCEPT ![c] = TRUE] /\ uses' = [uses EXCEPT ![c] = 0]
    /\ UNCHANGED <<password, refs, dialing, lost>>

\* The stream is closed, by its reader or by the context, once.
StreamEnds(c) ==
    /\ step[c] = "stream" /\ Drop(c, "done") /\ uses' = [uses EXCEPT ![c] = 0]
    /\ UNCHANGED <<client, password, dialing, conn, retried, lost>>

-----------------------------------------------------------------------------
\* expire, after the idle timeout.
Expire ==
    /\ client # 0 /\ refs = 0 /\ CloseClient
    /\ UNCHANGED <<password, refs, dialing, step, uses, retried, lost>>

ConnLost(x) ==
    /\ conn[x] = "live" /\ Lose /\ conn' = [conn EXCEPT ![x] = "gone"]
    /\ UNCHANGED <<slot, step, uses, retried>>

\* The goroutine behind client.Wait takes a dead client out of the slot.
Forget(x) ==
    /\ conn[x] # "live" /\ client = x /\ client' = 0
    /\ UNCHANGED <<password, refs, dialing, conn, step, uses, retried, lost>>

Acquire(c) ==
    \/ AcquireOther(c) \/ AcquireCached(c) \/ AcquireWaits(c) \/ AcquireDials(c)
    \/ DialFails(c) \/ DialOk(c)
Open(c) == StartOk(c) \/ NoSession(c) \/ Discard(c)

Next ==
    \/ \E c \in Capture : Acquire(c) \/ Open(c) \/ StartFails(c) \/ StreamEnds(c)
    \/ Expire
    \/ \E x \in DOMAIN conn : ConnLost(x) \/ Forget(x)

\* A dial and an SSH request have timeouts; a stream may last.
Spec == Init /\ [][Next]_vars /\ \A c \in Capture : WF_vars(Acquire(c)) /\ WF_vars(Open(c))

-----------------------------------------------------------------------------
Users == {c \in Capture : step[c] \in {"start", "stream"}}

TypeOK ==
    /\ client \in 0 .. Len(conn) /\ refs \in Nat /\ dialing \in BOOLEAN
    /\ \A c \in Users : uses[c] \in DOMAIN conn

\* The count that keeps the connection open is the number of captures that
\* hold one, whichever dial their client came from (acquire, release).
RefsExact == refs = Cardinality(Users)

\* The slot never closes a connection a capture is using: not for idleness,
\* not for another password, not because a channel could not be opened.
NeverClosedInUse == [][\A c \in Users : conn[uses[c]] # "closed" => conn'[uses[c]] # "closed"]_vars

\* There is one dial at a time and it finds the slot empty: the branches after
\* the dial for a client that somebody else put there never run.
DialOwnsSlot ==
    /\ Cardinality({c \in Capture : step[c] = "dial"}) <= 1
    /\ dialing <=> \E c \in Capture : step[c] = "dial"
    /\ dialing => client = 0

\* What the slot keeps true of its connection at every moment.
ExecSafe == TypeOK /\ RefsExact /\ DialOwnsSlot
=============================================================================
