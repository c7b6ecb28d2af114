------------------------------- MODULE Icinga -------------------------------
(***************************************************************************)
(* Icinga: the configuration files, then the polling of interfaces and     *)
(* endpoints.                                                              *)
(***************************************************************************)
EXTENDS FiniteSets, Integers, Sequences, Folds

-----------------------------------------------------------------------------
(* factum2-icinga sync: what Factum holds is rendered into four Icinga      *)
(* configuration files, each installed only when it differs from the one on  *)
(* disk, and Icinga is asked to reload when this run installed any.          *)
(*                                                                           *)
(* A device is its monitored flag, whether it is enabled with an address,    *)
(* its interface alarms and its alarm destination.  The text of a file is    *)
(* abstracted to the objects it defines.  Icinga is external: a reload that  *)
(* meets a host defined twice, or a service without its host, is refused.    *)

CONSTANTS
    HostName,       \* names of devices and of the addresses checked for certificates
    Literal,        \* those of them that are IP addresses
    Dest, NoDest,   \* alarm destinations
    FacStarts,      \* what Factum may hold at first
    MaxIcRuns, MaxIcEdits, MaxIcFaults

VARIABLES
    fac,        \* Factum: dev, and the hosts of applied endpoints and certificates
    file,       \* the files on disk
    loaded,     \* the files as Icinga last loaded them
    icAt,       \* the step the run is at; "idle" between runs
    gotHosts,        \* the devices and endpoints this run fetched
    users,      \* fic.Users
    chg,        \* some file was installed by this run
    undisturbed,\* Factum was not edited during this run
    failedOnce, \* some run ended in an error
    icEnd,      \* how the last run ended
    icRuns, icEdits, icFaults

icvars == <<fac, file, loaded, icAt, gotHosts, users, chg, undisturbed, failedOnce,
            icEnd, icRuns, icEdits, icFaults>>

DevRec == [mon : BOOLEAN, up : BOOLEAN, alarm : BOOLEAN, dest : Dest \cup {NoDest}]

Empty == [hosts |-> {}, users |-> {}, certs |-> [checks |-> {}, extra |-> {}], ifaces |-> {}]

-----------------------------------------------------------------------------
(* The devices Sync keeps of those it fetched, and deviceEligible. *)
Monitored(dev) == {h \in DOMAIN dev : dev[h].mon}

deviceEligible(d) == d.up

(* ListIcingaElines: applied endpoints on enabled devices with an address,  *)
(* each with the device's monitored flag.                                    *)
ListIcingaElines == {[host |-> h, mon |-> fac.dev[h].mon] :
                        h \in {x \in fac.applied : x \in DOMAIN fac.dev /\ fac.dev[x].up}}

(* selectInterfaceTargets and selectElineTargets: the hosts that get        *)
(* service objects.                                                          *)
selectInterfaceTargets(dev) == {h \in Monitored(dev) : dev[h].alarm /\ deviceEligible(dev[h])}
selectElineTargets(rows) == {r.host : r \in {x \in rows : x.mon}}

(* collectCertChecks and extraCertHostObjects: a certificate check on an    *)
(* address no device is named after gets a host object in the same file.     *)
collectCertChecks == fac.certs
extraCertHostObjects(checks, existing) == (checks \cap Literal) \ existing

-----------------------------------------------------------------------------
Rest == UNCHANGED <<icRuns, icEdits>>

End(e) == /\ icAt' = "idle" /\ icEnd' = e
          /\ failedOnce' = (failedOnce \/ e = "error")

(* Any call of the run fails: the run returns the error where it stands.    *)
RunFails ==
    /\ icAt # "idle" /\ icFaults < MaxIcFaults
    /\ icFaults' = icFaults + 1
    /\ End("error")
    /\ Rest /\ UNCHANGED <<fac, file, loaded, gotHosts, users, chg, undisturbed>>

FetchHosts ==
    /\ icAt = "idle" /\ icRuns < MaxIcRuns
    /\ icRuns' = icRuns + 1
    /\ gotHosts' = [dev |-> [h \in Monitored(fac.dev) |-> fac.dev[h]], rows |-> {}]
    /\ users' = {} /\ chg' = FALSE /\ undisturbed' = TRUE
    /\ icAt' = "elines" /\ icEnd' = "running"
    /\ UNCHANGED <<fac, file, loaded, failedOnce, icEdits, icFaults>>

GetElines ==
    /\ icAt = "elines"
    /\ gotHosts' = [gotHosts EXCEPT !.rows = ListIcingaElines]
    /\ icAt' = "hosts"
    /\ Rest /\ UNCHANGED <<fac, file, loaded, users, chg, undisturbed, failedOnce, icEnd, icFaults>>

\* Mutant of InstallConf: only the last file's answer decides on the reload.
InstallLast(f, content, next) ==
    /\ icAt = f /\ icAt' = next
    /\ file' = [file EXCEPT ![f] = content]
    /\ chg' = (file[f] # content)
    /\ Rest /\ UNCHANGED <<fac, loaded, gotHosts, undisturbed, failedOnce, icEnd, icFaults>>

(* installConfFile: an equal file is left, and says nothing changed.        *)
InstallConf(f, content, next) ==
    /\ icAt = f /\ icAt' = next
    /\ file' = [file EXCEPT ![f] = content]
    /\ chg' = (chg \/ file[f] # content)
    /\ Rest /\ UNCHANGED <<fac, loaded, gotHosts, undisturbed, failedOnce, icEnd, icFaults>>

writeDevices ==
    LET on == {h \in DOMAIN gotHosts.dev : deviceEligible(gotHosts.dev[h])}
    IN  /\ InstallConf("hosts", on, "users")
        /\ users' = {gotHosts.dev[h].dest : h \in on} \ {NoDest}

writeUsers == InstallConf("users", users, "certs") /\ UNCHANGED users

(* writeCerts reads the hosts file that is on disk by now.                  *)
writeCerts ==
    /\ InstallConf("certs", [checks |-> collectCertChecks,
                         extra |-> extraCertHostObjects(collectCertChecks, file.hosts)], "ifaces")
    /\ UNCHANGED users

writeInterfaces ==
    /\ InstallConf("ifaces", selectInterfaceTargets(gotHosts.dev) \cup selectElineTargets(gotHosts.rows), "reload")
    /\ UNCHANGED users

(* Icinga, external: the configuration it accepts. *)
Defined(f) == f.hosts \cup f.certs.extra
Valid(f) == /\ f.hosts \cap f.certs.extra = {}
            /\ f.ifaces \subseteq Defined(f)
            /\ (f.certs.checks \cap Literal) \subseteq Defined(f)

Reload ==
    /\ icAt = "reload"
    /\ \/ ~chg /\ End("fine") /\ UNCHANGED loaded
       \/ chg /\ Valid(file) /\ loaded' = file /\ End("fine")
       \/ chg /\ ~Valid(file) /\ End("error") /\ UNCHANGED loaded
    /\ Rest /\ UNCHANGED <<fac, file, gotHosts, users, chg, undisturbed, icFaults>>

(* Operators and the other syncs change what Factum holds, at any time. The *)
(* certificates came with the settings, which are fetched before the run.    *)
EditHosts ==
    /\ icEdits < MaxIcEdits /\ icEdits' = icEdits + 1
    /\ \/ \E h \in HostName, d \in DevRec :
             fac' = [fac EXCEPT !.dev = [x \in DOMAIN fac.dev \cup {h} |->
                                            IF x = h THEN d ELSE fac.dev[x]]]
       \/ \E h \in DOMAIN fac.dev :
             fac' = [fac EXCEPT !.dev = [x \in DOMAIN fac.dev \ {h} |-> fac.dev[x]],
                                !.applied = @ \ {h}]
       \/ \E h \in DOMAIN fac.dev : fac' = [fac EXCEPT !.applied = (@ \cup {h}) \ (@ \cap {h})]
       \/ icAt = "idle" /\ \E h \in Literal : fac' = [fac EXCEPT !.certs = (@ \cup {h}) \ (@ \cap {h})]
    /\ fac' # fac
    /\ undisturbed' = FALSE
    /\ UNCHANGED <<file, loaded, icAt, gotHosts, users, chg, failedOnce, icEnd, icRuns, icFaults>>

IcInit ==
    /\ fac \in FacStarts
    /\ file = Empty /\ loaded = Empty
    /\ icAt = "idle" /\ gotHosts = [dev |-> << >>, rows |-> {}]
    /\ users = {} /\ chg = FALSE /\ undisturbed = TRUE /\ failedOnce = FALSE
    /\ icEnd = "none" /\ icRuns = 0 /\ icEdits = 0 /\ icFaults = 0

IcNext ==
    \/ FetchHosts \/ GetElines \/ writeDevices \/ writeUsers \/ writeCerts
    \/ writeInterfaces \/ Reload \/ RunFails \/ EditHosts

IcSpec == IcInit /\ [][IcNext]_icvars

-----------------------------------------------------------------------------
IcTypeOK ==
    /\ DOMAIN fac.dev \subseteq HostName /\ fac.certs \subseteq Literal
    /\ \A f \in {file, loaded} : f.hosts \subseteq HostName /\ f.users \subseteq Dest
    /\ icAt \in {"idle", "elines", "hosts", "users", "certs", "ifaces", "reload"}

(* When a run has written its files and Factum was not edited meanwhile, the *)
(* four files fit together: Icinga accepts them, and every alarm destination *)
(* of a host is a user (writeDevices, writeCerts, writeInterfaces choose      *)
(* hosts by three different conditions, from two fetches and a file).         *)
FilesFit ==
    (icAt = "reload" /\ undisturbed) =>
        /\ Valid(file)
        /\ file.users = {gotHosts.dev[h].dest : h \in file.hosts} \ {NoDest}

(* A run that ended without an error leaves Icinga running on the files on   *)
(* disk, as long as no earlier run failed (Sync, installConfFile).            *)
ReloadedIfUntroubled == (icEnd = "fine" /\ icAt = "idle" /\ ~failedOnce) => loaded = file

-----------------------------------------------------------------------------
(* factum2-icinga poll: one passive result per monitored interface and per  *)
(* applied ELINE endpoint, collected by a pool of workers, one device each,   *)
(* and submitted to Icinga.  The service objects the results name are the     *)
(* ones sync wrote with the same two selections.                              *)
(*                                                                            *)
(* Names are numbers, in the order Go sorts them; IfBase and SidBase say      *)
(* which of them an object name cannot tell apart, FoldOf which differ only   *)
(* in case.  Devices are external: what they answer is chosen freely.         *)

CONSTANTS
    PHost,          \* monitored hosts, numbered in the order of their names
    IfName,         \* interface names
    Sid,            \* ELINE service ids
    IfBase, SidBase, FoldOf,
    VendorOf,       \* elineVendor of a host: "eos", "ios-xr", "sros", "other"
    EAPI,           \* an eAPI account is configured
    Inventories,    \* what Factum may hold: ifs, els
    AnswerNames,    \* the ifName tables a device may answer with
    PWTables,       \* the pseudowire tables a device may answer with
    Reads,          \* <<admin, oper>> pairs, 0 for a missing column
    PollWorkers, MaxCycles

VARIABLES
    inv,        \* what Factum holds: interfaces of a host, ELINE rows
    phase,      \* of each host in this cycle: "none", "queued", "polling", "done"
    results,    \* what pollDevice returned for a host
    sent,       \* how often Icinga was given a result of an object, this cycle
    submitErr,  \* a submission of this cycle failed
    cycles

pollvars == <<inv, phase, results, sent, submitErr, cycles>>

OK == 0
WARN == 1
CRIT == 2
UNKNOWN == 3

SortedSeq(S) == CHOOSE s \in [1 .. Cardinality(S) -> S] :
                    \A i, j \in DOMAIN s : i < j => s[i] < s[j]

-----------------------------------------------------------------------------
(* Selection and names *)

(* The n-th of several names with one base is "base #n". *)
Numbered(S, base, x) == <<base[x], Cardinality({y \in S : y <= x /\ base[y] = base[x]})>>

assignServiceNames(h) ==
    LET seq == SortedSeq(inv.ifs[h])
    IN  [i \in DOMAIN seq |-> [name |-> seq[i], service |-> Numbered(inv.ifs[h], IfBase, seq[i])]]

SidsOn(rows, h) == {r.sid : r \in {x \in rows : x.host = h /\ x.mon}}

(* The pseudowire id of a service on a host: the first row that has one.    *)
PwOf(rows, h, s) ==
    LET ids == {r.pw : r \in {x \in rows : x.host = h /\ x.sid = s /\ x.mon}} \ {0}
    IN  IF ids = {} THEN 0 ELSE CHOOSE i \in ids : TRUE

(* linkElinePeers: every later end of a service names the earliest host.    *)
linkElinePeers(rows, h, s) ==
    LET earlier == {g \in PHost : g < h /\ s \in SidsOn(rows, g)}
    IN  IF earlier = {} THEN 0 ELSE CHOOSE g \in earlier : \A f \in earlier : g <= f

selectPollTargets(rows, h) ==
    LET seq == SortedSeq(SidsOn(rows, h))
        svc(g, s) == Numbered(SidsOn(rows, g), SidBase, s)
    IN  [i \in DOMAIN seq |->
           LET peer == linkElinePeers(rows, h, seq[i])
           IN  [sid |-> seq[i], pw |-> PwOf(rows, h, seq[i]), service |-> svc(h, seq[i]),
                peer |-> IF peer = 0 THEN << >> ELSE <<peer, svc(peer, seq[i])>>]]

mergePollTargets(h) == [ifs |-> assignServiceNames(h), els |-> selectPollTargets(inv.els, h)]

Elems(s) == {s[i] : i \in DOMAIN s}

(* The service objects sync wrote for a host. *)
Objects(h) == {<<"iface", t.service>> : t \in Elems(mergePollTargets(h).ifs)}
              \cup {<<"eline", t.service>> : t \in Elems(mergePollTargets(h).els)}

-----------------------------------------------------------------------------
(* Readings *)

operText(o) == CASE o \in {1, 3, 6} -> OK [] o \in {2, 7} -> CRIT [] o = 5 -> WARN [] OTHER -> UNKNOWN
pwOperText(o) == CASE o \in {1, 3} -> OK [] o \in {2, 6} -> CRIT [] o = 4 -> WARN [] OTHER -> UNKNOWN
ciscoOperText(o) == CASE o \in {1, 3} -> OK [] o \in {2, 7} -> CRIT [] o = 5 -> WARN [] OTHER -> UNKNOWN
nokiaOperText(o) == CASE o = 1 -> OK [] o = 2 -> CRIT [] OTHER -> UNKNOWN

\* text is what oper reads as.
evalAdminOper(admin, oper, text) ==
    IF admin \notin {0, 1} THEN IF admin \in {2, 3} THEN OK ELSE UNKNOWN
    ELSE IF oper = 0 THEN UNKNOWN ELSE text

(* evalInterface differs in one thing: a missing ifAdminStatus is unknown.  *)
evalInterface(read) == IF read[1] = 0 THEN UNKNOWN ELSE evalAdminOper(read[1], read[2], operText(read[2]))

(* matchWanted: each wanted name takes the row of that name, else a row of  *)
(* that name in another case, if no earlier one took it.  first says which   *)
(* of two rows the map yields first.                                         *)
\* Mutant of matchWanted: a row already taken is matched again.
matchWantedAgain(names, wants, first) ==
    LET hit(w, eq(_, _)) == {i \in DOMAIN names : eq(names[i], w.name)}
        same(a, b) == a = b
        fold(a, b) == FoldOf[a] = FoldOf[b]
        row(w) == IF hit(w, same) # {} THEN hit(w, same) ELSE hit(w, fold)
    IN  {<<CHOOSE i \in row(w) : \A j \in row(w) : first[i] <= first[j], w>> :
            w \in {x \in Elems(wants) : row(x) # {}}}

matchWanted(names, wants, first) ==
    LET hit(w, eq(_, _)) == {i \in DOMAIN names : eq(names[i], w.name)}
        same(a, b) == a = b
        fold(a, b) == FoldOf[a] = FoldOf[b]
        top(S) == CHOOSE i \in S : \A j \in S : first[i] <= first[j]
        taken(acc) == {m[1] : m \in acc}
        free(acc, w, eq(_, _)) == hit(w, eq) # {} /\ top(hit(w, eq)) \notin taken(acc)
        take(w, acc) == CASE free(acc, w, same) -> acc \cup {<<top(hit(w, same)), w>>}
                          [] ~free(acc, w, same) /\ free(acc, w, fold) -> acc \cup {<<top(hit(w, fold)), w>>}
                          [] OTHER -> acc
    IN  MapThenFoldSet(take, {}, LAMBDA i : wants[i],
                       LAMBDA S : CHOOSE i \in S : \A j \in S : i >= j, DOMAIN wants)

(* collectSamples: by ifName, the names it does not have by ifDescr of the  *)
(* rows left; the interfaces matched are read, the others are unknown.        *)
collectSamples(ifs, names, descr, first, read) ==
    LET m == matchWanted(names, ifs, first)
        missing == SelectSeq(ifs, LAMBDA w : \A x \in m : x[2] # w)
        left == [i \in DOMAIN descr \ {x[1] : x \in m} |-> descr[i]]
        all == m \cup matchWanted(left, missing, first)
    IN  [i \in DOMAIN ifs |->
            LET rows == {x[1] : x \in {y \in all : y[2] = ifs[i]}}
            IN  <<<<"iface", ifs[i].service>>,
                  IF rows = {} THEN UNKNOWN ELSE evalInterface(read), rows>>]

(* findPW: the row with the pseudowire id, the one with the name among       *)
(* several, the first of them; without one, the row with the name.           *)
findPW(rows, t) ==
    LET byId == {i \in DOMAIN rows : t.pw # 0 /\ rows[i].id = t.pw}
        named(S) == {i \in S : rows[i].name = t.sid}
        low(S) == CHOOSE i \in S : \A j \in S : i <= j
    IN  CASE byId # {} /\ named(byId) # {} -> low(named(byId))
          [] byId # {} /\ named(byId) = {} -> low(byId)
          [] byId = {} /\ named(DOMAIN rows) # {} -> low(named(DOMAIN rows))
          [] OTHER -> 0

collectPWTable(t, rows, mib) ==
    LET i == findPW(rows, t)
        o == rows[i].read[2]
    IN  IF i = 0 THEN UNKNOWN
        ELSE evalAdminOper(rows[i].read[1], o, IF mib = "std" THEN pwOperText(o) ELSE ciscoOperText(o))

(* collectNokia reads by the service-id itself, and only an epipe.          *)
collectNokia(t, rows) ==
    LET mine == {i \in DOMAIN rows : rows[i].id = t.pw}
    IN  IF t.pw = 0 \/ mine = {} THEN UNKNOWN
        ELSE LET r == rows[CHOOSE i \in mine : \A j \in mine : i <= j].read
             IN  evalAdminOper(r[1], r[2], nokiaOperText(r[2]))

(* evalEOSPatch, of a patch found by name or by pseudowire id.              *)
readingsFromEOS(t, rows) ==
    LET i == findPW(rows, t)
    IN  IF i = 0 THEN UNKNOWN
        ELSE IF rows[i].read[2] = 1 THEN OK
        ELSE IF rows[i].read[1] = 2 THEN OK ELSE CRIT

(* collectElines: the MIB the vendor has; another vendor's agent answers one *)
(* of the three; a missing MIB is unknown.                                   *)
collectElines(h, t, mib, rows) ==
    CASE mib = "none" -> UNKNOWN
      [] mib = "std" /\ VendorOf[h] \in {"eos", "other"} -> collectPWTable(t, rows, mib)
      [] mib = "cisco" /\ VendorOf[h] \in {"ios-xr", "other"} -> collectPWTable(t, rows, mib)
      [] mib = "nokia" /\ VendorOf[h] \in {"sros", "other"} -> collectNokia(t, rows)
      [] OTHER -> UNKNOWN

-----------------------------------------------------------------------------
(* The poll *)

eosEAPIReady(h) == VendorOf[h] = "eos" /\ EAPI

AllUnknown(tag, ts) == [i \in DOMAIN ts |-> <<<<tag, ts[i].service>>, UNKNOWN, {}>>]

PollStart ==
    /\ cycles < MaxCycles /\ \A h \in PHost : phase[h] \in {"none", "done"}
    /\ cycles' = cycles + 1
    /\ \E i \in Inventories : inv' = i
    /\ phase' = [h \in PHost |-> IF inv'.ifs[h] # {} \/ SidsOn(inv'.els, h) # {} THEN "queued" ELSE "none"]
    /\ results' = [h \in PHost |-> << >>]
    /\ sent' = {} /\ submitErr' = FALSE

(* pollDevice, one of at most PollWorkers at a time. *)
Interfaces(h, dial) ==
    LET ifs == mergePollTargets(h).ifs
    IN  IF dial # "ok" THEN {AllUnknown("iface", ifs)}
        ELSE {collectSamples(ifs, names, descr, first, r) :
                 names \in AnswerNames, descr \in AnswerNames, first \in {<<1, 2>>, <<2, 1>>}, r \in Reads}

Elines(h, dial) ==
    LET els == mergePollTargets(h).els
        each(f(_)) == [i \in DOMAIN els |-> <<<<"eline", els[i].service>>, f(els[i]), {}>>]
    IN  IF eosEAPIReady(h)
        THEN {each(LAMBDA t : readingsFromEOS(t, rows)) : rows \in PWTables} \cup {AllUnknown("eline", els)}
        ELSE IF dial = "ok"
        THEN {each(LAMBDA t : collectElines(h, t, mib, rows)) :
                mib \in {"none", "std", "cisco", "nokia"}, rows \in PWTables} \cup {AllUnknown("eline", els)}
        ELSE {AllUnknown("eline", els)}

pollDevice(h) ==
    /\ phase[h] = "queued" /\ Cardinality({g \in PHost : phase[g] = "polling"}) < PollWorkers
    /\ \E dial \in {"ok", "fails"} : \E a \in Interfaces(h, dial), b \in Elines(h, dial) :
         results' = [results EXCEPT ![h] = a \o b]
    /\ phase' = [phase EXCEPT ![h] = "polling"]
    /\ UNCHANGED <<inv, sent, submitErr, cycles>>

Given(h, r) == <<h, r[1], r[2]>>

Submit(h) ==
    /\ phase[h] = "polling"
    /\ sent' = sent \cup {Given(h, r) : r \in Elems(results[h])}
    /\ phase' = [phase EXCEPT ![h] = "done"]
    /\ UNCHANGED <<inv, results, submitErr, cycles>>

(* The pipe or the API refuses after some of the results. *)
SubmitFails(h) ==
    /\ phase[h] = "polling" /\ ~submitErr
    /\ \E n \in 0 .. Len(results[h]) - 1 :
         sent' = sent \cup {Given(h, results[h][i]) : i \in 1 .. n}
    /\ submitErr' = TRUE
    /\ phase' = [phase EXCEPT ![h] = "done"]
    /\ UNCHANGED <<inv, results, cycles>>

PollInit ==
    /\ inv \in Inventories
    /\ phase = [h \in PHost |-> "none"] /\ results = [h \in PHost |-> << >>]
    /\ sent = {} /\ submitErr = FALSE /\ cycles = 0

PollNext ==
    \/ PollStart
    \/ \E h \in PHost : pollDevice(h) \/ Submit(h) \/ SubmitFails(h)

PollSpec == PollInit /\ [][PollNext]_pollvars

-----------------------------------------------------------------------------
PollTypeOK ==
    /\ inv \in Inventories
    /\ phase \in [PHost -> {"none", "queued", "polling", "done"}]

(* When every device of a cycle is done and no submission failed, each       *)
(* service object sync wrote got exactly one result, no result names         *)
(* anything else, and no two interfaces of a device were read from one row    *)
(* of its table (pollOnce, collectSamples, matchWanted).                      *)
OneResultEach ==
    LET at(h) == {s \in sent : s[1] = h}
    IN  ((\A h \in PHost : phase[h] \in {"none", "done"}) /\ cycles > 0 /\ ~submitErr) =>
          \A h \in PHost :
            /\ {s[2] : s \in at(h)} = Objects(h) /\ Cardinality(at(h)) = Cardinality(Objects(h))
            /\ \A i, j \in DOMAIN results[h] : i # j => results[h][i][3] \cap results[h][j][3] = {}

(* Exactly one end of an ELINE service notifies by itself; every other end    *)
(* names, as its parent, that end and the object it really has there          *)
(* (selectElineTargets, linkElinePeers).                                       *)
OneEndNotifies ==
    \A s \in Sid :
        LET ends == {h \in PHost : s \in SidsOn(inv.els, h)}
            t(h) == CHOOSE x \in Elems(selectPollTargets(inv.els, h)) : x.sid = s
            lone == {h \in ends : t(h).peer = << >>}
        IN  ends # {} =>
              /\ Cardinality(lone) = 1
              /\ \A h \in ends \ lone : \E l \in lone : t(h).peer = <<l, t(l).service>>
=============================================================================
