------------------------------ MODULE MCAdmin -------------------------------
(***************************************************************************)
(* The services around the network data for TLC, each on its own: logins,  *)
(* the built-in directory and the edits of an external one, LibreNMS and   *)
(* Icinga, DNS, certificates and the import of customers from Lime.        *)
(***************************************************************************)

EXTENDS Accounts, Directories, LibreNMS, Icinga, DnsZones, CertFiles, LimeSync, TLC, Sequences

-----------------------------------------------------------------------------
\* Small folder trees and role graphs of the internal directory.

DY_NameOf == CHOOSE f \in [RoleId -> CName] : \A x, y \in RoleId : f[x] = f[y] => x = y
DY_Flat == [r \in RoleId |-> [name |-> DY_NameOf[r], ou |-> 0]]
DY_Lists == {<<>>} \cup {<<r>> : r \in RoleId} \cup {<<x, y>> : x, y \in RoleId}
DY_Acyclic(N) == \A r \in RoleId : ~Reaches(N, r, {r})
\* Every nesting, with every person; and a role in every forest of two folders.
DY_Nested == {[ou |-> [o \in {} |-> 0], role |-> DY_Flat, nests |-> n, holds |-> h, refs |-> {}] :
              n \in {m \in SUBSET (RoleId \X RoleId) : DY_Acyclic(m)}, h \in DY_Lists}
DY_Forest == {[ou |-> f, role |-> [DY_Flat EXCEPT ![1].ou = 2], nests |-> {}, holds |-> <<>>,
            refs |-> {[dn |-> RoleDN(f, [DY_Flat EXCEPT ![1].ou = 2], 1), role |-> 1]}] :
              f \in {g \in [OuId -> [name : OuName, parent : OuId \cup {0}]] :
                        /\ g[1].parent = 0 /\ g[2].parent \in {0, 1}
                        /\ g[1].name = g[2].name => g[2].parent = 1
                        /\ \A o \in OuId \ {1, 2} : g[o].parent = 2}}
DY_Starts == DY_Nested \cup DY_Forest

-----------------------------------------------------------------------------
\* A person and two groups of an external directory.

LE_Starts == { [person |-> (<<"uid","a">> :> "a" @@ <<"cn","x">> :> u),
              group |-> ("g" :> gm @@ "p" :> pm), refs |-> r] :
              u \in {"a","b"}, gm \in {{<<"uid","a">>}, {<<"uid","a">>,<<"cn","x">>}},
              pm \in SUBSET {"a","b"}, r \in {{"g"}, {"p"}} }
  \cup { [person |-> (<<"uid","a">> :> "a" @@ <<"uid","b">> :> "b"),
          group |-> ("g" :> {<<"uid","a">>, <<"uid","b">>} @@ "h" :> {<<"uid","b">>}
                     @@ "p" :> {"a"}),
          refs |-> {"g", "h"}] }

-----------------------------------------------------------------------------
\* The devices of Factum and LibreNMS a sync starts from.

NmsDev(on, m, ip, id) == [on |-> on, monitored |-> m, ip |-> ip, id |-> id]
Listed(h) == [host |-> h, disabled |-> FALSE, ignore |-> FALSE]
LN_Starts == {
  [fdev |-> ("x" :> NmsDev(TRUE, TRUE, "i1", 1) @@ "y" :> NmsDev(TRUE, TRUE, "i2", 0)),
   nms |-> (1 :> Listed("i1")), used |-> 1],
  [fdev |-> ("x" :> NmsDev(FALSE, TRUE, "i1", 1) @@ "y" :> NmsDev(TRUE, TRUE, "i2", 0)),
   nms |-> (1 :> Listed("i1") @@ 2 :> Listed("i2")), used |-> 2],
  [fdev |-> ("x" :> NmsDev(TRUE, TRUE, "i1", 0) @@ "y" :> NmsDev(TRUE, FALSE, NoIp, 0)),
   nms |-> (1 :> Listed("i2") @@ 2 :> Listed("i1")), used |-> 2],
  [fdev |-> ("x" :> NmsDev(TRUE, TRUE, "i2", 0) @@ "y" :> NmsDev(TRUE, TRUE, "i3", 1)),
   nms |-> (1 :> Listed("i2")), used |-> 1]}

-----------------------------------------------------------------------------
\* Places that share a LibreNMS location.

LP_Starts == { [where |-> w, pin |-> [n \in {w[d] : d \in PinDev} \ {NoPlace} |-> NoPlace],
              fplace |-> [d \in PinDev |-> [loc |-> NoPlace, at |-> a[d]]]] :
              w \in [PinDev -> {"town", "ca", NoPlace}], a \in [PinDev -> Coord \cup {NoPlace}] }
LP_Cells == "c1" :> "ca" @@ "c2" :> "cb"

-----------------------------------------------------------------------------


\* 2000 units in a degree of latitude, 1600 of longitude
OL_LatA == {0, 2000, 4000, 100, 200, 29, 630}
OL_LngA == {0, 1600, 3200, 80, 160, 23, 500}
OL_SitesA == {[rank |-> 1, lat |-> 30, lng |-> 24], [rank |-> 2, lat |-> 1500, lng |-> 900]}

-----------------------------------------------------------------------------
\* Small inventories and files of the Icinga sync.

IC_D(m, u, a, t) == [mon |-> m, up |-> u, alarm |-> a, dest |-> t]
IC_F(d, a, c) == [dev |-> d, applied |-> a, certs |-> c]
IC_FS == {IC_F(<< >>, {}, {}), IC_F([h \in {"h"} |-> IC_D(TRUE, TRUE, TRUE, "m")], {"h"}, {"i"}),
       IC_F([h \in {"h", "i"} |-> IC_D(TRUE, h = "h", FALSE, NoDest)], {"i"}, {"i"})}

-----------------------------------------------------------------------------
\* Hosts, interfaces and services of a polling cycle.

PO_R(h, s, w) == [host |-> h, sid |-> s, pw |-> w, mon |-> TRUE]
PO_I(a, b, e) == [ifs |-> [h \in {1, 2} |-> IF h = 1 THEN a ELSE b], els |-> e]
PO_Inv == {PO_I({1, 2}, {}, {PO_R(1, 1, 1), PO_R(2, 1, 1), PO_R(1, 2, 2)}), PO_I({1}, {2, 3}, {PO_R(2, 2, 0), PO_R(2, 1, 1), PO_R(1, 1, 2)})}
PO_Ib == <<1, 1, 2>>
PO_Fo == <<1, 1, 2>>
PO_V == <<"eos", "other">>
PO_AN == {<<1, 2>>, <<2, 1>>, <<3, 2>>, <<2>>}
PO_P(i, n, r) == [id |-> i, name |-> n, read |-> r]
PO_PW == {<<PO_P(1, 2, <<1, 1>>), PO_P(1, 1, <<1, 2>>)>>, <<PO_P(2, 1, <<2, 5>>)>>}
PO_RR == {<<1, 1>>, <<1, 7>>, <<0, 1>>}

-----------------------------------------------------------------------------
\* Small zones, templates and prefixes for the DNS sync.

DN_Zones == [x \in {"n","d"} |-> IF x = "n" THEN {"z"} ELSE {"c","z"}]
DN_Db(s, y, t, z) == [soa |-> s, policy |-> y, template |-> t, zone |-> z]
DN_T1 == [name |-> "a", soa |-> 1, policy |-> 0, ns |-> {"n"}]
DN_Zone(n, ty, t, r) == [name |-> n, type |-> ty, template |-> t, records |-> r]
DN_Bodies == [soa |-> {[name |-> "b"]}, policy |-> {[name |-> "b"]},
      template |-> {DN_T1, [DN_T1 EXCEPT !.soa = 2, !.policy = 1], [DN_T1 EXCEPT !.name = "b", !.policy = 1, !.ns = {}]},
      zone |-> {DN_Zone("z", "forward", 1, {"www", "comment"}), DN_Zone("c", "forward", 2, {"www"}), DN_Zone("z", "reverse", 2, {})}]
DN_Start(z, e, n, f) == [db |-> DN_Db(<<[name |-> "a"]>>, <<[name |-> "a"]>>, <<DN_T1, [DN_T1 EXCEPT !.name = "b", !.policy = 1]>>, z),
        seq |-> [soa |-> 1, policy |-> 1, template |-> 2, zone |-> Len(z)],
        settings |-> [zones |-> TRUE, dhcp |-> TRUE], edits |-> e, syncs |-> n, faults |-> f]
DN_Starts == {DN_Start(z, b[1], b[2], b[3]) : z \in {<< >>, <<DN_Zone("z","forward",2,{})>>}, b \in {<<0,1,1>>, <<1,0,0>>}}
DN_Records == {{}, {"www", "comment"}, {"www"}}

-----------------------------------------------------------------------------
\* Small certificate tables and an import file.

CF_Names == <<"a", "b", "default">>
CF_File(a, h, c) == [accounts |-> a, challenges |-> h, certificates |-> c]
CF_Cert(a, h, k, d) == [account |-> a, challenge |-> h, key |-> k, domains |-> d]
CF_HandWritten == {CF_File(<< >>, "b" :> "http", "a" :> CF_Cert("", "a", "", TRUE)),
       CF_File("a" :> [server |-> "own"], "a" :> "rfc2136" @@ "b" :> "http", "b" :> CF_Cert("", "a", "RSA", TRUE)),
       CF_File("b" :> [server |-> ""], "b" :> "rfc2136", "a" :> CF_Cert("", "", "", TRUE)),
       CF_File(<< >>, "b" :> "http", << >>)}
CF_HandEnv == {NoEnv, [given |-> TRUE, cred |-> "k2", extra |-> {}]}
CF_Saves == [accounts |-> {[server |-> ""], [server |-> "own"]},
       challenges |-> {[cred |-> "k2", extra |-> {}], [cred |-> "k1", extra |-> {"x"}], [cred |-> "", extra |-> {}]},
       certificates |-> {[account |-> "a", challenge |-> "a", key |-> "", domains |-> d, host |-> TRUE] : d \in BOOLEAN}]
CF_Starts == {[accounts |-> << >>, challenges |-> << >>, certificates |-> << >>],
       [accounts |-> "a" :> [server |-> ""], challenges |-> "a" :> [cred |-> "k1", extra |-> {"x"}],
        certificates |-> "a" :> [account |-> "a", challenge |-> "a", key |-> "", domains |-> TRUE, host |-> TRUE]]}

-----------------------------------------------------------------------------
(* A small instance of LimeSync for TLC. *)

\* One company has every delivery and person, the other is open or not.
LM_Starts ==
  LET c == CHOOSE x \in Company : TRUE IN
  {[NoLime EXCEPT !.cos = cs, !.at = [d \in Delivery |-> c], !.works = [h \in Person |-> c]] :
     cs \in {x \in SUBSET Company : c \in x}}

-----------------------------------------------------------------------------
VARIABLE
    sys     \* the component that runs in this behaviour; the variables of the others stay put

AccountsOff ==
    /\ user = 0 /\ dirPw = 0 /\ sessions = 0 /\ tokens = 0 /\ recent = 0 /\ call = 0 /\ met = 0
    /\ pws = 0 /\ ids = 0 /\ calls = 0

DirectoryOff ==
    /\ ou = 0 /\ role = 0 /\ nests = 0 /\ holds = 0 /\ personOu = 0 /\ refs = 0 /\ edited = 0

EditsOff ==
    /\ person = 0 /\ group = 0 /\ grefs = 0 /\ ereq = 0 /\ estep = 0 /\ todo = 0 /\ had = 0
    /\ ecalls = 0 /\ efaults = 0

LibreOff ==
    /\ fdev = 0 /\ nms = 0 /\ pend = 0 /\ keep = 0 /\ delay = 0 /\ today = 0 /\ nmsAt = 0
    /\ seen = 0 /\ want = 0 /\ queue = 0 /\ rows = 0 /\ still = 0 /\ stuck = 0 /\ used = 0
    /\ runsN = 0 /\ editsN = 0 /\ faultsN = 0

PinsOff ==
    /\ where = 0 /\ pin = 0 /\ fplace = 0 /\ plan = 0 /\ snapped = 0 /\ visit = 0 /\ pinAt = 0
    /\ wrote = 0 /\ pinRuns = 0 /\ pinEdits = 0

OlcOff ==
    /\ p = 0 /\ q = 0 /\ near = 0

IcingaOff ==
    /\ fac = 0 /\ file = 0 /\ loaded = 0 /\ icAt = 0 /\ gotHosts = 0 /\ users = 0 /\ chg = 0
    /\ undisturbed = 0 /\ failedOnce = 0 /\ icEnd = 0 /\ icRuns = 0 /\ icEdits = 0 /\ icFaults = 0

PollOff ==
    /\ inv = 0 /\ phase = 0 /\ results = 0 /\ sent = 0 /\ submitErr = 0 /\ cycles = 0

DnsOff ==
    /\ db = 0 /\ seq = 0 /\ settings = 0 /\ prefixes = 0 /\ dnsDev = 0 /\ ask = 0 /\ answer = 0
    /\ conf = 0 /\ got = 0 /\ dnsAt = 0 /\ onDisk = 0 /\ served = 0 /\ quiet = 0 /\ current = 0
    /\ dnsEdits = 0 /\ dnsSyncs = 0 /\ dnsFaults = 0

CertsOff ==
    /\ accounts = 0 /\ challenges = 0 /\ certificates = 0 /\ fetched = 0 /\ certAt = 0 /\ yaml = 0
    /\ env = 0 /\ ran = 0 /\ calmSync = 0 /\ certEdits = 0 /\ certSyncs = 0 /\ certFaults = 0

LimeOff ==
    /\ lime = 0 /\ customers = 0 /\ services = 0 /\ factum = 0 /\ contacts = 0 /\ links = 0
    /\ run = 0 /\ before = 0 /\ changes = 0 /\ calm = 0 /\ mirrored = 0 /\ trusted = 0 /\ runs = 0
    /\ events = 0

PackInit ==
    /\ sys \in {"accounts", "directory", "edits", "libre", "pins", "olc", "icinga", "poll", "dns", "certs", "lime"}
    /\ IF sys = "accounts" THEN AccInit ELSE AccountsOff
    /\ IF sys = "directory" THEN DirInit ELSE DirectoryOff
    /\ IF sys = "edits" THEN EditInit ELSE EditsOff
    /\ IF sys = "libre" THEN NmsInit ELSE LibreOff
    /\ IF sys = "pins" THEN PinInit ELSE PinsOff
    /\ IF sys = "olc" THEN OlcInit ELSE OlcOff
    /\ IF sys = "icinga" THEN IcInit ELSE IcingaOff
    /\ IF sys = "poll" THEN PollInit ELSE PollOff
    /\ IF sys = "dns" THEN DnsInit ELSE DnsOff
    /\ IF sys = "certs" THEN CertInit ELSE CertsOff
    /\ IF sys = "lime" THEN LimeInit ELSE LimeOff

PackNext ==
    \/ sys = "accounts" /\ AccNext
       /\ UNCHANGED <<sys, dirvars, editvars, nmsvars, pinvars, olcvars, icvars, pollvars,
                        dnsvars, certvars, limevars>>
    \/ sys = "directory" /\ DirNext
       /\ UNCHANGED <<sys, accvars, editvars, nmsvars, pinvars, olcvars, icvars, pollvars,
                        dnsvars, certvars, limevars>>
    \/ sys = "edits" /\ EditNext
       /\ UNCHANGED <<sys, accvars, dirvars, nmsvars, pinvars, olcvars, icvars, pollvars, dnsvars,
                        certvars, limevars>>
    \/ sys = "libre" /\ NmsNext
       /\ UNCHANGED <<sys, accvars, dirvars, editvars, pinvars, olcvars, icvars, pollvars,
                        dnsvars, certvars, limevars>>
    \/ sys = "pins" /\ PinNext
       /\ UNCHANGED <<sys, accvars, dirvars, editvars, nmsvars, olcvars, icvars, pollvars,
                        dnsvars, certvars, limevars>>
    \/ sys = "olc" /\ OlcNext
       /\ UNCHANGED <<sys, accvars, dirvars, editvars, nmsvars, pinvars, icvars, pollvars,
                        dnsvars, certvars, limevars>>
    \/ sys = "icinga" /\ IcNext
       /\ UNCHANGED <<sys, accvars, dirvars, editvars, nmsvars, pinvars, olcvars, pollvars,
                        dnsvars, certvars, limevars>>
    \/ sys = "poll" /\ PollNext
       /\ UNCHANGED <<sys, accvars, dirvars, editvars, nmsvars, pinvars, olcvars, icvars, dnsvars,
                        certvars, limevars>>
    \/ sys = "dns" /\ DnsNext
       /\ UNCHANGED <<sys, accvars, dirvars, editvars, nmsvars, pinvars, olcvars, icvars,
                        pollvars, certvars, limevars>>
    \/ sys = "certs" /\ CertNext
       /\ UNCHANGED <<sys, accvars, dirvars, editvars, nmsvars, pinvars, olcvars, icvars,
                        pollvars, dnsvars, limevars>>
    \/ sys = "lime" /\ LimeNext
       /\ UNCHANGED <<sys, accvars, dirvars, editvars, nmsvars, pinvars, olcvars, icvars,
                        pollvars, dnsvars, certvars>>

PackVars == <<sys, accvars, dirvars, editvars, nmsvars, pinvars, olcvars, icvars, pollvars, dnsvars, certvars, limevars>>

PackSpec == PackInit /\ [][PackNext]_PackVars

-----------------------------------------------------------------------------
\* Logins: a session issued before a password or state change is refused after it, guesses against
\* one account stay within the limit, and a reset token works once.
AccountsSafe == sys = "accounts" => AccTypeOK /\ OldCookiesStop /\ GuessesBounded /\ TokenUsedOnce

\* The built-in directory: references follow renames and moves, folders stay a forest, and what
\* memberOf, member and the in-chain filter answer agrees, however roles nest.  An external
\* directory: when a request was answered with success the groups hold what it said, by DN and by
\* uid, and the stored references name entries by their present names.
DirectoriesAgree ==
    /\ sys = "directory" => DirTypeOK /\ RefsFollow /\ FoldersRooted /\ GroupsAgree
    /\ sys = "edits" => EditTypeOK /\ MembershipAsAnswered /\ GroupRefsFollow

\* LibreNMS: a device is deleted only after its days of grace, a wanted one is polled after a quiet
\* run, a shared location sits where its lowest device is, and places share a generated name only
\* when they share the cell.  Icinga: its files name only hosts they define, an untroubled run that
\* changed them reloads it, and a poll reports every check once.
MonitoringKept ==
    /\ [](sys = "libre" => NmsTypeOK /\ WantedIsPolled)
    /\ [](sys = "pins" => PinsFollowLowest)
    /\ [](sys = "olc" => SameNameSameCell)
    /\ [](sys = "icinga" => IcTypeOK /\ FilesFit /\ ReloadedIfUntroubled)
    /\ [](sys = "poll" => PollTypeOK /\ OneResultEach /\ OneEndNotifies)
    /\ [][sys = "libre" => GraceKept]_PackVars

\* DNS and certificates: after an undisturbed run the name server has loaded the zones as configured,
\* and an include written while nobody edited names only what it defines; importing what was just
\* written changes nothing that lego reads, and lego never runs on a half-written pair of files.
PublishedWhole ==
    /\ sys = "dns" => DnsTypeOK /\ Published /\ QuietIncludeLoads
    /\ sys = "certs" => CertTypeOK /\ ReimportMeansTheSame /\ LegoRunsWhole

\* Lime: an undisturbed full sync mirrors Lime, its report names every change, and what operators
\* added to a service is still there while Lime has the service where it was.
LimeMirrored ==
    /\ [](sys = "lime" => LimeTypeOK /\ FullMirrors /\ ReportTells)
    /\ [][sys = "lime" => EnrichmentStays]_PackVars
=============================================================================
