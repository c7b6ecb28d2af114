------------------------------ MODULE DnsZones ------------------------------
(* The DNS zone editor and the DNS sync.  Requests edit four tables: SOA     *)
(* templates, DNSSEC policies, DNS templates that name both, and zones that  *)
(* name a DNS template.  factum2-dns reads them over REST, table by table,   *)
(* then the devices, writes a records file and the two includes, and lets    *)
(* dnsmgr2 apply them.                                                       *)
(*                                                                           *)
(* A name is a model value; whether a host name belongs in a zone is given   *)
(* by ZonesOf.  The records file is the set of records of each domain.       *)
(* dnsmgr2 is external: it refuses an include that names a template it does  *)
(* not define.                                                               *)
EXTENDS Naturals, FiniteSets, TLC

CONSTANTS
    Operator,       \* the requests that may be under way at a time
    RowName,        \* names of SOA templates, policies and DNS templates
    ZoneName,       \* names of zones
    DefaultDomain,  \* Settings' default domain
    DnsDevice,      \* devices
    NsHost,         \* hosts of nameserver rows
    ZonesOf,        \* the zones a nameserver or a device's DNS name lies in
    RecordSet,      \* the records a zone is saved with
    Bodies,         \* the rows a request may write into each table
    DnsStarts,      \* what the tables may hold at first, and how much of each bound is used up
    MaxRowId, MaxDnsEdits, MaxDnsSyncs, MaxDnsFaults

VARIABLES
    db,         \* the four tables, each a function from ids to rows
    seq,        \* the last id given out in each table
    settings,   \* zones: DnsZonesEnabled, dhcp: DhcpEnabled
    prefixes,   \* the prefixes with a DHCP server
    dnsDev,     \* what each device is to the DNS sync
    ask,        \* the request each operator has had checked and not yet written
    answer,     \* the last deletion answered
    conf,       \* the configuration the worker has fetched so far
    got,        \* the devices it fetched
    dnsAt,      \* the step of the sync; "idle" between syncs
    onDisk,     \* the files the worker wrote
    served,     \* the files as dnsmgr2 last applied them
    quiet,      \* nothing was edited since the sync began
    current,    \* the last sync succeeded, and nothing was edited since it began
    dnsEdits, dnsSyncs, dnsFaults

dnsvars == <<db, seq, settings, prefixes, dnsDev, ask, answer, conf, got, dnsAt,
             onDisk, served, quiet, current, dnsEdits, dnsSyncs, dnsFaults>>

Table == {"soa", "policy", "template", "zone"}
NoReq == [op |-> "none"]
NoAnswer == [op |-> "none"]
NoConf == [zones |-> FALSE]
NoFiles == [records |-> << >>, include |-> [zones |-> {}, templates |-> {}, soas |-> {}, policies |-> {}],
            prefixes |-> {}]

(* The rows of each table.  A policy of 0 is none: OptionalPolicyID.        *)
Rows(t) ==
    CASE t \in {"soa", "policy"} -> [name : RowName]
      [] t = "template" -> [name : RowName, soa : 1..MaxRowId, policy : 0..MaxRowId, ns : SUBSET NsHost]
      [] t = "zone" -> [name : ZoneName, type : {"forward", "reverse"}, template : 1..MaxRowId,
                        records : RecordSet]

-----------------------------------------------------------------------------
(* The requests. *)

(* resolveTemplateRefs and parseZoneBody: the rows a body names are there.   *)
RefsFound(t, row) ==
    CASE t = "template" -> row.soa \in DOMAIN db.soa /\ row.policy \in DOMAIN db.policy \cup {0}
      [] t = "zone" -> row.template \in DOMAIN db.template
      [] OTHER -> TRUE

(* The rows that name row id of table t. *)
Users(t, id) ==
    CASE t = "soa" -> {x \in DOMAIN db.template : db.template[x].soa = id}
      [] t = "policy" -> {x \in DOMAIN db.template : db.template[x].policy = id}
      [] t = "template" -> {x \in DOMAIN db.zone : db.zone[x].template = id}
      [] OTHER -> {}

\* Mutant of Restricted: the tables are linked without constraint:OnDelete:RESTRICT.
RestrictedNot(t, id) == FALSE
(* OnDelete:RESTRICT of the models: the database refuses to delete a row in use. *)
Restricted(t, id) == Users(t, id) # {}

Edited == quiet' = FALSE /\ current' = FALSE
WorkerStands == UNCHANGED <<conf, got, dnsAt, onDisk, served, dnsSyncs, dnsFaults>>
TablesStand == UNCHANGED <<db, seq, settings, prefixes, dnsDev>>

(* The first half of a create or update: the row is loaded, the body is     *)
(* parsed and the rows it names are looked up.                               *)
CheckSave(o, t, id, row) ==
    /\ ask[o] = NoReq /\ dnsEdits < MaxDnsEdits
    /\ id = 0 \/ id \in DOMAIN db[t]
    /\ RefsFound(t, row)
    /\ ask' = [ask EXCEPT ![o] = [op |-> "save", table |-> t, id |-> id, row |-> row]]
    /\ dnsEdits' = dnsEdits + 1
    /\ TablesStand /\ WorkerStands /\ UNCHANGED <<answer, quiet, current>>

(* The second half, one transaction: names are unique, the rows it names    *)
(* must still be there, nameservers and records are replaced with it.  Save  *)
(* of a row that was deleted meanwhile inserts it again.                     *)
WriteSave(o) ==
    LET r == ask[o]
        id == IF r.id = 0 THEN seq[r.table] + 1 ELSE r.id
        taken == \E x \in DOMAIN db[r.table] \ {id} : db[r.table][x].name = r.row.name
    IN  /\ r.op = "save" /\ id <= MaxRowId
        /\ ask' = [ask EXCEPT ![o] = NoReq]
        /\ IF taken \/ ~RefsFound(r.table, r.row)
             THEN UNCHANGED <<db, seq, quiet, current>>
             ELSE /\ db' = [db EXCEPT ![r.table] = [x \in DOMAIN @ \cup {id} |->
                                                      IF x = id THEN r.row ELSE @[x]]]
                  /\ seq' = [seq EXCEPT ![r.table] = IF id > @ THEN id ELSE @]
                  /\ Edited
        /\ WorkerStands /\ UNCHANGED <<settings, prefixes, dnsDev, answer, dnsEdits>>

(* The first half of a delete.  ApiDnsPolicyDelete counts on a column       *)
(* dnssec_policy_id; the table calls it dns_sec_policy_id, so the count      *)
(* itself fails and the request ends there.                                  *)
CheckDelete(o, t, id) ==
    /\ ask[o] = NoReq /\ dnsEdits < MaxDnsEdits /\ id \in DOMAIN db[t]
    /\ dnsEdits' = dnsEdits + 1
    /\ IF t = "policy" \/ (t # "zone" /\ Users(t, id) # {})
         THEN /\ answer' = [op |-> "refused", table |-> t, users |-> Users(t, id)]
              /\ UNCHANGED ask
         ELSE /\ ask' = [ask EXCEPT ![o] = [op |-> "delete", table |-> t, id |-> id]]
              /\ UNCHANGED answer
    /\ TablesStand /\ WorkerStands /\ UNCHANGED <<quiet, current>>

WriteDelete(o) ==
    LET r == ask[o]
    IN  /\ r.op = "delete"
        /\ ask' = [ask EXCEPT ![o] = NoReq]
        /\ IF r.id \notin DOMAIN db[r.table] \/ Restricted(r.table, r.id)
             THEN UNCHANGED <<db, quiet, current>>
             ELSE /\ db' = [db EXCEPT ![r.table] = [x \in DOMAIN @ \ {r.id} |-> @[x]]]
                  /\ Edited
        /\ WorkerStands /\ UNCHANGED <<seq, settings, prefixes, dnsDev, answer, dnsEdits>>

(* The handlers of the four tables. *)
ApiDnsSOASave(o) == \E id \in 0..MaxRowId, row \in Bodies.soa : CheckSave(o, "soa", id, row)
ApiDnsPolicySave(o) == \E id \in 0..MaxRowId, row \in Bodies.policy : CheckSave(o, "policy", id, row)
ApiDnsTemplateSave(o) == \E id \in 0..MaxRowId, row \in Bodies.template : CheckSave(o, "template", id, row)
ApiDnsZoneSave(o) == \E id \in 0..MaxRowId, row \in Bodies.zone : CheckSave(o, "zone", id, row)
ApiDnsSOADelete(o) == \E id \in 1..MaxRowId : CheckDelete(o, "soa", id)
ApiDnsPolicyDelete(o) == \E id \in 1..MaxRowId : CheckDelete(o, "policy", id)
ApiDnsTemplateDelete(o) == \E id \in 1..MaxRowId : CheckDelete(o, "template", id)
ApiDnsZoneDelete(o) == \E id \in 1..MaxRowId : CheckDelete(o, "zone", id)

(* Settings, IPAM and the devices change by other requests and syncs.       *)
OtherEdit ==
    /\ dnsEdits < MaxDnsEdits /\ dnsEdits' = dnsEdits + 1
    /\ \/ settings' \in [zones : BOOLEAN, dhcp : BOOLEAN] /\ UNCHANGED <<prefixes, dnsDev>>
       \/ prefixes' \in SUBSET {"p"} /\ UNCHANGED <<settings, dnsDev>>
       \/ /\ \E d \in DnsDevice, k \in {"listed", "off", "ignored", "nameless"} :
                dnsDev' = [dnsDev EXCEPT ![d] = k]
          /\ UNCHANGED <<settings, prefixes>>
    /\ Edited
    /\ WorkerStands /\ UNCHANGED <<db, seq, ask, answer>>

-----------------------------------------------------------------------------
(* What the sync writes. *)

(* loadDNSSyncPayload, loadSOATemplates, loadZoneTemplates and              *)
(* loadDNSSECPolicies: rows by name, with the names of the rows they use.  A *)
(* row that is not found is the zero value.                                  *)
Unnamed == [name |-> "", soa |-> 0, policy |-> 0, ns |-> {}]
Row(t, id) == IF id \in DOMAIN db[t] THEN db[t][id] ELSE Unnamed
PolicyName(t) == Row("policy", t.policy).name
loadDNSSyncPayload ==
    {LET z == db.zone[i] t == Row("template", z.template)
     IN  [name |-> z.name, type |-> z.type, template |-> t.name, policy |-> PolicyName(t),
          ns |-> t.ns, records |-> z.records] : i \in DOMAIN db.zone}
loadSOATemplates == {db.soa[i].name : i \in DOMAIN db.soa}
loadZoneTemplates ==
    {LET t == db.template[i]
     IN  [name |-> t.name, soa |-> Row("soa", t.soa).name, policy |-> PolicyName(t), ns |-> t.ns] :
        i \in DOMAIN db.template}
loadDNSSECPolicies == {db.policy[i].name : i \in DOMAIN db.policy}

(* filterDevices *)
filterDevices(devs) == {d \in DnsDevice : devs[d] = "listed"}

(* deviceRecordsJSON, addressDNSNameRecords, templateNameserverRecords and  *)
(* zoneRecordsJSON.                                                          *)
addressDNSNameRecords(devs, z) == {<<"name", d>> : d \in {x \in devs : z \in ZonesOf[x]}}
deviceRecordsJSON(devs) ==
    {<<"host", d>> : d \in devs} \cup addressDNSNameRecords(devs, DefaultDomain)
templateNameserverRecords(z) == {<<"glue", n>> : n \in {x \in z.ns : z.name \in ZonesOf[x]}}
zoneRecordsJSON(z) == {<<"record", r>> : r \in z.records \ {"comment"}}

(* writeRecordsWithZones: a domain for each forward zone; the default       *)
(* domain's holds the devices, and is there without a zone too.              *)
writeRecordsWithZones(zones, devs) ==
    LET forward == {z \in zones : z.type = "forward"}
        own(n) == UNION {templateNameserverRecords(z) \cup zoneRecordsJSON(z) :
                            z \in {x \in forward : x.name = n}}
    IN  [n \in {z.name : z \in forward} \cup {DefaultDomain} |->
            own(n) \cup IF n = DefaultDomain THEN deviceRecordsJSON(devs)
                        ELSE addressDNSNameRecords(devs, n)]

(* RenderZoneInclude *)
RenderZoneInclude(zones, soas, templates, policies) ==
    [zones |-> {[name |-> z.name, type |-> z.type, template |-> z.template, policy |-> z.policy] : z \in zones},
     templates |-> templates, soas |-> soas, policies |-> policies]

(* dnsmgr2, external: every template and policy named is defined.           *)
Loads(inc) ==
    /\ \A z \in inc.zones : /\ \E t \in inc.templates : t.name = z.template
                            /\ z.policy \in inc.policies \cup {""}
    /\ \A t \in inc.templates : t.soa \in inc.soas /\ t.policy \in inc.policies \cup {""}

-----------------------------------------------------------------------------
(* The sync. *)

RequestsStand == UNCHANGED <<ask, answer, dnsEdits>>

(* Any call of the sync fails: it returns the error where it stands.        *)
SyncFails ==
    /\ dnsAt # "idle" /\ dnsFaults < MaxDnsFaults
    /\ dnsFaults' = dnsFaults + 1
    /\ dnsAt' = "idle"
    /\ TablesStand /\ RequestsStand
    /\ UNCHANGED <<conf, got, onDisk, served, quiet, current, dnsSyncs>>

(* ApiDNSConfig reads the settings, then table after table.                 *)
ReadSettings ==
    /\ dnsAt = "idle" /\ dnsSyncs < MaxDnsSyncs
    /\ dnsSyncs' = dnsSyncs + 1
    /\ conf' = [zones |-> settings.zones, dhcp |-> settings.dhcp,
                prefixes |-> IF settings.dhcp THEN prefixes ELSE {}, zone |-> {}]
    /\ dnsAt' = IF settings.zones THEN "zones" ELSE "devices"
    /\ quiet' = TRUE
    /\ TablesStand /\ RequestsStand /\ UNCHANGED <<got, onDisk, served, current, dnsFaults>>

Read(at, next, c) ==
    /\ dnsAt = at /\ dnsAt' = next
    /\ conf' = c
    /\ TablesStand /\ RequestsStand
    /\ UNCHANGED <<got, onDisk, served, quiet, current, dnsSyncs, dnsFaults>>

ApiDNSConfig ==
    \/ ReadSettings
    \/ Read("zones", "soas", [conf EXCEPT !.zone = loadDNSSyncPayload])
    \/ Read("soas", "templates", conf @@ ("soas" :> loadSOATemplates))
    \/ Read("templates", "policies", conf @@ ("templates" :> loadZoneTemplates))
    \/ Read("policies", "devices", conf @@ ("policies" :> loadDNSSECPolicies))

GetDevices ==
    /\ dnsAt = "devices" /\ dnsAt' = "records"
    /\ got' = filterDevices(dnsDev)
    /\ TablesStand /\ RequestsStand
    /\ UNCHANGED <<conf, onDisk, served, quiet, current, dnsSyncs, dnsFaults>>

(* installConfFile and installInclude: a file is replaced at once, or left  *)
(* when it is equal.                                                         *)
Install(at, next, files) ==
    /\ dnsAt = at /\ dnsAt' = next
    /\ onDisk' = files
    /\ TablesStand /\ RequestsStand
    /\ UNCHANGED <<conf, got, served, quiet, current, dnsSyncs, dnsFaults>>

WriteFiles ==
    \/ Install("records", "include",
               [onDisk EXCEPT !.records = writeRecordsWithZones(conf.zone, got)])
    \/ Install("include", "prefixes",
               IF conf.zones
                 THEN [onDisk EXCEPT !.include =
                          RenderZoneInclude(conf.zone, conf.soas, conf.templates, conf.policies)]
                 ELSE onDisk)
    \/ Install("prefixes", "update",
               IF conf.dhcp THEN [onDisk EXCEPT !.prefixes = conf.prefixes] ELSE onDisk)

\* Mutant of runUpdate: nothing is applied when the records file is the one applied last.
runUpdateChanged ==
    /\ dnsAt = "update" /\ dnsAt' = "idle"
    /\ IF onDisk.records = served.records \/ Loads(onDisk.include)
         THEN /\ served' = IF onDisk.records = served.records THEN served ELSE onDisk
              /\ current' = quiet
         ELSE UNCHANGED <<served, current>>
    /\ TablesStand /\ RequestsStand /\ UNCHANGED <<conf, got, onDisk, quiet, dnsSyncs, dnsFaults>>

(* runDnsmgrUpdate, whether a file changed or not. *)
runUpdate ==
    /\ dnsAt = "update" /\ dnsAt' = "idle"
    /\ IF Loads(onDisk.include)
         THEN served' = onDisk /\ current' = quiet
         ELSE UNCHANGED <<served, current>>
    /\ TablesStand /\ RequestsStand /\ UNCHANGED <<conf, got, onDisk, quiet, dnsSyncs, dnsFaults>>

-----------------------------------------------------------------------------
DnsInit ==
    /\ \E s \in DnsStarts :
          /\ db = s.db /\ seq = s.seq /\ settings = s.settings
          /\ dnsEdits = s.edits /\ dnsSyncs = s.syncs /\ dnsFaults = s.faults
    /\ prefixes = {} /\ dnsDev = [d \in DnsDevice |-> "listed"]
    /\ ask = [o \in Operator |-> NoReq] /\ answer = NoAnswer
    /\ conf = NoConf /\ got = {} /\ dnsAt = "idle"
    /\ onDisk = NoFiles /\ served = NoFiles
    /\ quiet = FALSE /\ current = FALSE

DnsNext ==
    \/ \E o \in Operator :
          \/ ApiDnsSOASave(o) \/ ApiDnsPolicySave(o) \/ ApiDnsTemplateSave(o) \/ ApiDnsZoneSave(o)
          \/ ApiDnsSOADelete(o) \/ ApiDnsPolicyDelete(o) \/ ApiDnsTemplateDelete(o) \/ ApiDnsZoneDelete(o)
          \/ WriteSave(o) \/ WriteDelete(o)
    \/ OtherEdit
    \/ SyncFails \/ ApiDNSConfig \/ GetDevices \/ WriteFiles \/ runUpdate

DnsSpec == DnsInit /\ [][DnsNext]_dnsvars

-----------------------------------------------------------------------------
(* The rows of each table have its fields, and the worker's step is one of  *)
(* the sync's.                                                               *)
DnsTypeOK ==
    /\ \A t \in Table : DOMAIN db[t] \subseteq 1..MaxRowId /\ \A i \in DOMAIN db[t] : db[t][i] \in Rows(t)
    /\ seq \in [Table -> 0..MaxRowId]
    /\ got \subseteq DnsDevice
    /\ dnsAt \in {"idle", "zones", "soas", "templates", "policies", "devices", "records",
                  "include", "prefixes", "update"}

(* Once a sync has succeeded and nothing was edited since it began, dnsmgr2 *)
(* serves what Factum holds: whatever earlier syncs left half written or     *)
(* unapplied, the next whole one repairs.  syncDevices applies "Always",     *)
(* because "a previous failed update still needs a retry".                   *)
Published ==
    current =>
        /\ served.records = writeRecordsWithZones(IF settings.zones THEN loadDNSSyncPayload ELSE {},
                                                  filterDevices(dnsDev))
        /\ settings.zones => served.include = RenderZoneInclude(loadDNSSyncPayload, loadSOATemplates,
                                                               loadZoneTemplates, loadDNSSECPolicies)
        /\ settings.dhcp => served.prefixes = prefixes

(* A sync during which nothing is edited never meets an include that names  *)
(* a template or policy it does not define, in whatever order the requests   *)
(* before it had their checks and their writes: a row in use is not deleted. *)
QuietIncludeLoads == dnsAt = "update" /\ quiet /\ conf.zones => Loads(onDisk.include)

=============================================================================
