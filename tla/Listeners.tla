------------------------------ MODULE Listeners ------------------------------
(***************************************************************************)
(* The listeners a worker runs beside the hub (radius/server.go,           *)
(* ldapsrv/server.go): RADIUS on UDP, LDAP and LDAPS on TCP.  A refresh    *)
(* loop fetches the configuration from the hub, applies it and caches it   *)
(* on disk; each listen loop follows the configuration in force, binding,  *)
(* rebinding and closing its socket.  The process may crash and starts     *)
(* again from the cache.  The two servers share nothing: a behaviour is    *)
(* that of one of them.                                                    *)
(***************************************************************************)
EXTENDS Integers

CONSTANTS
    Plain,          \* the loop every server has: RADIUS, LDAP
    Tls,            \* the LDAP server's second loop: LDAPS
    Addr,           \* addresses to listen on
    Off,            \* no address: the service is disabled
    MaxEdits,       \* bound: changes of the configuration on the hub
    MaxBindFails,   \* bound: listen calls that fail
    MaxFetchFails,  \* bound: fetches that fail
    MaxSaveFails,   \* bound: writes of the cache that fail
    MaxCrashes      \* bound: restarts

Loop == {Plain, Tls}

ASSUME ListenersAssumption ==
    /\ Addr \subseteq Nat /\ Off \notin Nat /\ Plain # Tls
    /\ {MaxEdits, MaxBindFails, MaxFetchFails, MaxSaveFails, MaxCrashes} \subseteq Nat

Config == [Loop -> Addr \cup {Off}]

VARIABLES
    server,     \* which server this is
    hub,        \* the configuration on the hub
    cfg,        \* the configuration in force (s.idx, s.cfg)
    disk,       \* the cached configuration
    saving,     \* a configuration has been applied and not yet written to disk
    bound,      \* bound[l]: the local variable of l's listen loop
    sock,       \* sock[l]: the address of the open socket, or Off
    goneBack,   \* some edit went back to an address that was in use before
    panicked,   \* a listen loop called a method of a nil listener
    used

opVars == <<server, goneBack>>     \* what no step of the worker changes
listenvars == <<opVars, hub, cfg, disk, saving, bound, sock, panicked, used>>
AllOff == [l \in Loop |-> Off]

Loops == IF server = "radius" THEN {Plain} ELSE Loop

ListenInit ==
    /\ server \in {"radius", "ldap"} /\ goneBack = FALSE
    /\ hub = AllOff /\ cfg = AllOff /\ disk = AllOff /\ saving = FALSE
    /\ bound = AllOff /\ sock = AllOff /\ panicked = FALSE
    /\ used = [edits |-> 0, binds |-> 0, fetches |-> 0, saves |-> 0,
               crashes |-> 0]

Spend(what, max) == used[what] < max /\ used' = [used EXCEPT ![what] = @ + 1]

\* An administrator enables, moves or disables a listener on the hub.
Edit(l, a) ==
    /\ l \in Loops /\ a # hub[l] /\ Spend("edits", MaxEdits)
    /\ goneBack' = (goneBack \/ a \in {cfg[l], disk[l], bound[l]} \ {Off})
    /\ hub' = [hub EXCEPT ![l] = a]
    /\ UNCHANGED <<server, cfg, disk, saving, bound, sock, panicked>>

-----------------------------------------------------------------------------
(* The refresh loop.                                                       *)

FetchFails ==
    /\ ~saving /\ ~panicked /\ Spend("fetches", MaxFetchFails)
    /\ UNCHANGED <<opVars, hub, cfg, disk, saving, bound, sock, panicked>>

\* refresh: an unchanged body is ignored; a new one is applied ...
Apply ==
    /\ ~saving /\ ~panicked /\ hub # cfg /\ cfg' = hub /\ saving' = TRUE
    /\ UNCHANGED <<opVars, hub, disk, bound, sock, panicked, used>>

\* Mutant of Save: the cache is only written once.
SaveOnce ==
    /\ saving /\ ~panicked /\ saving' = FALSE
    /\ disk' = IF disk = AllOff THEN cfg ELSE disk
    /\ UNCHANGED <<opVars, hub, cfg, bound, sock, panicked, used>>

\* ... and written to a temporary file that replaces the cache.
Save ==
    /\ saving /\ ~panicked /\ saving' = FALSE /\ disk' = cfg
    /\ UNCHANGED <<opVars, hub, cfg, bound, sock, panicked, used>>

\* The write fails: logged, and not tried again before the next change.
SaveFails ==
    /\ saving /\ ~panicked /\ saving' = FALSE /\ Spend("saves", MaxSaveFails)
    /\ UNCHANGED <<opVars, hub, cfg, disk, bound, sock, panicked>>

-----------------------------------------------------------------------------
(* The listen loops.                                                       *)

\* RADIUS disabled: whatever was bound is closed and forgotten.
RadiusOff(l) ==
    /\ ~panicked /\ server = "radius" /\ cfg[l] = Off /\ bound[l] # Off
    /\ sock' = [sock EXCEPT ![l] = Off] /\ bound' = [bound EXCEPT ![l] = Off]
    /\ UNCHANGED <<opVars, hub, cfg, disk, saving, panicked, used>>

\* LDAP disabled, or LDAPS without an address: an open socket is closed.
LdapOff(l) ==
    /\ ~panicked /\ server = "ldap" /\ cfg[l] = Off /\ sock[l] # Off
    /\ sock' = [sock EXCEPT ![l] = Off] /\ bound' = [bound EXCEPT ![l] = Off]
    /\ UNCHANGED <<opVars, hub, cfg, disk, saving, panicked, used>>

\* Mutant of Bind: only a loop that has no address binds one.
BindOnce(l) ==
    /\ ~panicked /\ cfg[l] # Off /\ bound[l] = Off
    /\ \/ sock' = [sock EXCEPT ![l] = cfg[l]] /\ bound' = [bound EXCEPT ![l] = cfg[l]]
             /\ UNCHANGED used
       \/ sock' = [sock EXCEPT ![l] = Off] /\ Spend("binds", MaxBindFails) /\ UNCHANGED bound
    /\ UNCHANGED <<opVars, hub, cfg, disk, saving, panicked>>

\* A new address: the old socket is closed before the new one is opened; when
\* that fails `bound` still names the old address.
Bind(l) ==
    /\ ~panicked /\ cfg[l] # Off /\ bound[l] # cfg[l]
    /\ \/ sock' = [sock EXCEPT ![l] = cfg[l]] /\ bound' = [bound EXCEPT ![l] = cfg[l]]
             /\ UNCHANGED used
       \/ sock' = [sock EXCEPT ![l] = Off] /\ Spend("binds", MaxBindFails) /\ UNCHANGED bound
    /\ UNCHANGED <<opVars, hub, cfg, disk, saving, panicked>>

\* The address is bound already.  readOnce without a socket sleeps; Accept on
\* a nil listener panics, and a panic in a goroutine ends the process.
AcceptOnNil(l) ==
    /\ ~panicked /\ server = "ldap" /\ cfg[l] # Off /\ bound[l] = cfg[l] /\ sock[l] = Off
    /\ panicked' = TRUE
    /\ UNCHANGED <<opVars, hub, cfg, disk, saving, bound, sock, used>>

-----------------------------------------------------------------------------
\* The process ends and is started again: loadCache, and nothing is bound.
Crash ==
    /\ ~panicked /\ Spend("crashes", MaxCrashes)
    /\ cfg' = disk /\ saving' = FALSE /\ bound' = AllOff /\ sock' = AllOff
    /\ UNCHANGED <<opVars, hub, disk, panicked>>

Refresh == Apply \/ Save
Listen(l) == RadiusOff(l) \/ LdapOff(l) \/ Bind(l) \/ AcceptOnNil(l)

ListenNext ==
    \/ \E l \in Loop : Listen(l) \/ \E a \in Addr \cup {Off} : Edit(l, a)
    \/ Refresh \/ FetchFails \/ SaveFails \/ Crash

ListenSpec == ListenInit /\ [][ListenNext]_listenvars

\* The refresh ticker and the loops go on; a bounded number of calls fail.
ListenFairSpec == ListenSpec /\ WF_listenvars(Refresh) /\ \A l \in Loop : WF_listenvars(Listen(l))

-----------------------------------------------------------------------------
(* Properties.                                                             *)

\* Every variable keeps its type.
ListenTypeOK ==
    /\ server \in {"radius", "ldap"} /\ goneBack \in BOOLEAN
    /\ {hub, cfg, disk, bound, sock} \subseteq Config
    /\ saving \in BOOLEAN /\ panicked \in BOOLEAN
    /\ used \in [edits : 0 .. MaxEdits, binds : 0 .. MaxBindFails,
                 fetches : 0 .. MaxFetchFails, saves : 0 .. MaxSaveFails,
                 crashes : 0 .. MaxCrashes]

\* A failed bind leaves `bound` at the old address; that does no harm as long
\* as no configuration goes back to an address in use before.
Harmless == used.binds = 0 \/ ~goneBack

\* No listen loop calls Accept on a listener it does not have.
NoPanic == ListenTypeOK /\ (Harmless => ~panicked)

\* "Run ... serves until ctx ends": once the hub's configuration stays as it
\* is, every enabled listener has its socket on its address and every
\* disabled one has none, failed binds, fetches and restarts included.
Serves == []Harmless => <>[](sock = hub)

\* A restart falls back by one configuration at most: what is cached is what
\* is in force, except while it is being written or when a write has failed.
CacheIsCurrent == ~saving /\ used.saves = 0 => disk = cfg

\* No listener is used before it exists, and the cache is what is in force.
ListenSafe == NoPanic /\ CacheIsCurrent

=============================================================================
