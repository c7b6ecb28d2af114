------------------------------ MODULE LimeSync ------------------------------
(***************************************************************************)
(* The CRM half of Factum: internal/lime/lime.go reads companies,          *)
(* deliveries and persons from Lime and writes them as customers, services *)
(* and contacts, stamping every row it writes with the number of the run   *)
(* and pruning what the run did not stamp; web/handle_customer.go,         *)
(* handle_contact.go, handle_contact_customers.go and handler_service.go   *)
(* are the requests that edit the same tables meanwhile.                   *)
(*                                                                         *)
(* A Lime-owned row is named by its Lime id (source_id).  The fields Lime  *)
(* owns are one text; the fields Factum adds to a service (type, bandwidth,*)
(* endpoints, tree node, optical path) are the flag "rich", the operator's *)
(* NotifyMaintenance the flag "notify".  A run reads Lime's company list   *)
(* once (GetCompanies) and a company's persons when it comes to it.        *)
(***************************************************************************)
EXTENDS Naturals, FiniteSets, FiniteSetsExt, TLC

CONSTANTS
  Company, Delivery, Person,   \* ids in Lime
  LocalCustomer, LocalContact, \* rows made in Factum
  Text,                        \* values of the fields Lime owns
  None,                        \* no row, no company
  LimeStarts,                  \* what Lime may hold at first
  MaxRuns, MaxEvents           \* bounds: runs; edits, requests and faults together

VARIABLES
  lime,      \* what Lime holds
  customers, \* customers rows: None or [stamp, text]
  services,  \* Lime-sourced services rows: None or [customer, stamp, text, rich]
  factum,    \* the customers that have a service made in Factum
  contacts,  \* contacts rows: None or [stamp, text, notify]
  links,     \* customer_contacts rows: <<customer, contact>>
  run,       \* the running SyncCustomers, with what GetCompanies answered it
  before,    \* the Lime-owned rows when the run began
  changes,   \* lime.changes: the rows the run notes, by kind and id
  calm,      \* Lime has not changed since GetCompanies of the last run
  mirrored,  \* the last run was full and ended without an error
  trusted,   \* GetMax has never failed on a table that has rows
  runs, events

limevars == <<lime, customers, services, factum, contacts, links, run, before,
              changes, calm, mirrored, trusted, runs, events>>

Customer == Company \cup LocalCustomer
Contact == Person \cup LocalContact

NoLime == [cos |-> {}, name |-> [c \in Company |-> CHOOSE t \in Text : TRUE],
           at |-> [d \in Delivery |-> None], text |-> [d \in Delivery |-> CHOOSE t \in Text : TRUE],
           works |-> [p \in Person |-> None], active |-> [p \in Person |-> TRUE]]

Idle == [at |-> "idle", stamp |-> 0, full |-> FALSE, todo |-> {}, company |-> None, left |-> {},
         got |-> NoLime]

\* What the change report is about: the fields Lime owns and the links of its persons.
Owned(cu, sv, co, li) ==
  [customers |-> [c \in Company |-> IF cu[c] = None THEN None ELSE cu[c].text],
   services |-> [d \in Delivery |-> IF sv[d] = None THEN <<>> ELSE <<sv[d].customer, sv[d].text>>],
   contacts |-> [p \in Person |-> IF co[p] = None THEN None ELSE co[p].text],
   links |-> {l \in li : l[2] \in Person}]

LimeTypeOK ==
  /\ lime.cos \subseteq Company /\ lime.at \in [Delivery -> Company \cup {None}]
  /\ lime.works \in [Person -> Company \cup {None}]
  /\ \A c \in Customer : customers[c] # None => customers[c].stamp \in 0..(MaxRuns + 2)
  /\ \A d \in Delivery : services[d] # None => services[d].customer \in Company
  /\ \A p \in Contact : contacts[p] # None => contacts[p].notify \in BOOLEAN
  /\ factum \subseteq Customer /\ links \subseteq Customer \X Contact
  /\ run.at \in {"idle", "next", "deliver", "persons", "prune", "unlink", "customers"}
  /\ changes \subseteq {"Customer", "Service", "Contact"} \X (Company \cup Delivery \cup Person)

(***************************************************************************)
(* Lime's side.                                                            *)
(***************************************************************************)
\* A CRM user adds or closes a company (its deliveries and persons leave with
\* it), moves, adds, ends or renames a delivery, renames a company, moves or
\* retires a person.
LimeEdit(l) ==
  /\ events < MaxEvents
  /\ l # lime
  /\ lime' = l /\ calm' = FALSE /\ events' = events + 1
  /\ UNCHANGED <<customers, services, factum, contacts, links, run, before, changes,
                 mirrored, trusted, runs>>

Closed(c) == [lime EXCEPT !.cos = @ \ {c},
                          !.at = [d \in Delivery |-> IF lime.at[d] = c THEN None ELSE lime.at[d]],
                          !.works = [p \in Person |-> IF lime.works[p] = c THEN None ELSE lime.works[p]]]

LimeEdits ==
  \/ \E c \in Company \ lime.cos : LimeEdit([lime EXCEPT !.cos = @ \cup {c}])
  \/ \E c \in lime.cos : LimeEdit(Closed(c))
  \/ \E c \in lime.cos, t \in Text : LimeEdit([lime EXCEPT !.name[c] = t])
  \/ \E d \in Delivery, c \in lime.cos \cup {None} : LimeEdit([lime EXCEPT !.at[d] = c])
  \/ \E d \in Delivery, t \in Text : lime.at[d] # None /\ LimeEdit([lime EXCEPT !.text[d] = t])
  \/ \E p \in Person, c \in lime.cos \cup {None}, b \in BOOLEAN :
       LimeEdit([lime EXCEPT !.works[p] = c, !.active[p] = b])

(***************************************************************************)
(* SyncCustomers.                                                          *)
(***************************************************************************)
Stamps == {customers[c].stamp : c \in {x \in Customer : customers[x] # None}}

\* The number of the newest run, over the customers table only.  MAX over no
\* rows is NULL, which does not scan into a uint; SyncCustomers takes 1 for
\* that error, and for every other error of the query.
GetMax(failed) == IF failed \/ Stamps = {} THEN 1 ELSE Max(Stamps)

\* The run's own number; the companies named on the command line ("" is every
\* company, and only such a run is full).
SyncCustomers(full, only, failed) ==
  /\ run.at = "idle" /\ runs < MaxRuns
  /\ failed => events < MaxEvents
  /\ run' = [Idle EXCEPT !.at = "next", !.stamp = GetMax(failed) + 1, !.full = full,
                         !.todo = IF full THEN lime.cos ELSE lime.cos \cap {only}, !.got = lime]
  /\ calm' = TRUE /\ mirrored' = FALSE
  /\ before' = Owned(customers, services, contacts, links) /\ changes' = {}
  /\ trusted' = (trusted /\ (failed => Stamps = {}))
  /\ runs' = runs + 1 /\ events' = IF failed THEN events + 1 ELSE events
  /\ UNCHANGED <<lime, customers, services, factum, contacts, links>>

unchangedBySync == <<lime, factum, before, calm, trusted, runs, events>>

\* note: one line of the report for a row added, updated or removed; rows that
\* only got a new stamp are not noted.
note(kind, ids) == changes' = changes \cup ({kind} \X ids)

\* SaveCustomer for the next company of Lime's answer.
SaveCustomer(c) ==
  /\ run.at = "next" /\ c \in run.todo
  /\ customers' = [customers EXCEPT ![c] = [stamp |-> run.stamp, text |-> run.got.name[c]]]
  /\ note("Customer", IF customers[c] = None THEN {c}
                      ELSE IF customers[c].text # run.got.name[c] THEN {c} ELSE {})
  /\ run' = [run EXCEPT !.at = "deliver", !.todo = @ \ {c}, !.company = c,
                        !.left = {d \in Delivery : run.got.at[d] = c}]
  /\ UNCHANGED <<services, contacts, links, mirrored>> /\ UNCHANGED unchangedBySync

\* SaveDelivery: a stored row keeps what Factum added and takes Lime's fields,
\* the company included.
SaveDelivery(d) ==
  /\ run.at = "deliver" /\ d \in run.left
  /\ services' = [services EXCEPT ![d] =
       [customer |-> run.company, stamp |-> run.stamp, text |-> run.got.text[d],
        rich |-> services[d] # None /\ services[d].rich]]
  /\ note("Service", IF services[d] = None THEN {d}
                     ELSE IF <<services[d].text, services[d].customer>> # <<run.got.text[d], run.company>>
                          THEN {d} ELSE {})
  /\ run' = [run EXCEPT !.left = @ \ {d}]
  /\ UNCHANGED <<customers, contacts, links, mirrored>> /\ UNCHANGED unchangedBySync

\* GetPersons fetches the company's persons after its last delivery.
GetPersons ==
  /\ run.at = "deliver" /\ run.left = {}
  /\ run' = [run EXCEPT !.at = "persons", !.left = {p \in Person : lime.works[p] = run.company}]
  /\ UNCHANGED <<customers, services, contacts, links, changes, mirrored>>
  /\ UNCHANGED unchangedBySync

\* SaveContact keeps notify; a person Lime sent for the first time has it off.
SaveContact(p) ==
  [contacts EXCEPT ![p] = [stamp |-> run.stamp, text |-> CHOOSE t \in Text : TRUE,
                           notify |-> contacts[p] # None /\ contacts[p].notify]]

\* replaceContactCustomers: the company is the contact's only link.
replaceContactCustomers(p, c) == {l \in links : l[2] # p} \cup {<<c, p>>}

\* syncPerson: an active person is saved and linked to this company alone; an
\* inactive one loses the link to this company and is not stamped.
syncPerson(p) ==
  /\ run.at = "persons" /\ p \in run.left
  /\ IF lime.active[p]
     THEN /\ contacts' = SaveContact(p)
          /\ links' = replaceContactCustomers(p, run.company)
     ELSE /\ links' = links \ {<<run.company, p>>}
          /\ UNCHANGED contacts
  /\ note("Contact", IF links' # links \/ (contacts[p] = None /\ contacts'[p] # None) THEN {p} ELSE {})
  /\ run' = [run EXCEPT !.left = @ \ {p}]
  /\ UNCHANGED <<customers, services, mirrored>> /\ UNCHANGED unchangedBySync

PersonsDone ==
  /\ run.at = "persons" /\ run.left = {}
  /\ run' = [run EXCEPT !.at = "prune"]
  /\ UNCHANGED <<customers, services, contacts, links, changes, mirrored>>
  /\ UNCHANGED unchangedBySync

\* pruneStaleDeliveries: the company's services this run did not write go, with
\* their endpoints, tree node and optical path (deleteLimeService).
pruneStaleDeliveries ==
  LET stale == {d \in Delivery : /\ services[d] # None
                                 /\ services[d].customer = run.company
                                 /\ services[d].stamp < run.stamp} IN
  /\ run.at = "prune"
  /\ services' = [d \in Delivery |-> IF d \in stale THEN None ELSE services[d]]
  /\ note("Service", stale)
  /\ run' = [run EXCEPT !.at = "unlink"]
  /\ UNCHANGED <<customers, contacts, links, mirrored>> /\ UNCHANGED unchangedBySync

\* Mutant of pruneRemovedPersonLinks: persons Lime no longer lists stay linked.
pruneRemovedPersonLinksNone ==
  /\ run.at = "unlink"
  /\ run' = [run EXCEPT !.at = "next", !.company = None]
  /\ UNCHANGED <<links, changes, customers, services, contacts, mirrored>>
  /\ UNCHANGED unchangedBySync

\* pruneRemovedPersonLinks: the links of Lime persons not written this run; the
\* contact rows stay.
pruneRemovedPersonLinks ==
  LET stale == {p \in Person : /\ <<run.company, p>> \in links
                               /\ contacts[p] # None /\ contacts[p].stamp < run.stamp} IN
  /\ run.at = "unlink"
  /\ links' = links \ ({run.company} \X stale)
  /\ note("Contact", stale)
  /\ run' = [run EXCEPT !.at = "next", !.company = None]
  /\ UNCHANGED <<customers, services, contacts, mirrored>> /\ UNCHANGED unchangedBySync

\* The last company is done: a full run turns to the companies it did not see,
\* a filtered one ends.
CompaniesDone ==
  /\ run.at = "next" /\ run.todo = {}
  /\ run' = IF run.full
            THEN [run EXCEPT !.at = "customers",
                    !.todo = {c \in Company : customers[c] # None /\ customers[c].stamp < run.stamp}]
            ELSE Idle
  /\ UNCHANGED <<customers, services, contacts, links, changes, mirrored>>
  /\ UNCHANGED unchangedBySync

\* Mutant of pruneStaleCustomers: the contacts that lose their company are not noted.
pruneStaleCustomersSilent(c) ==
  LET gone == {d \in Delivery : services[d] # None /\ services[d].customer = c}
      keep == c \in factum IN
  /\ run.at = "customers" /\ c \in run.todo
  /\ services' = [d \in Delivery |-> IF d \in gone THEN None ELSE services[d]]
  /\ links' = IF keep THEN links ELSE {l \in links : l[1] # c}
  /\ customers' = IF keep THEN customers ELSE [customers EXCEPT ![c] = None]
  /\ changes' = changes \cup ({"Service"} \X gone)
                        \cup (IF keep THEN {} ELSE {<<"Customer", c>>})
  /\ run' = [run EXCEPT !.todo = @ \ {c}]
  /\ UNCHANGED <<contacts, mirrored>> /\ UNCHANGED unchangedBySync

\* pruneStaleCustomers, one company: its Lime services go; the row and its
\* links go unless a service made in Factum remains.
pruneStaleCustomers(c) ==
  LET gone == {d \in Delivery : services[d] # None /\ services[d].customer = c}
      keep == c \in factum IN
  /\ run.at = "customers" /\ c \in run.todo
  /\ services' = [d \in Delivery |-> IF d \in gone THEN None ELSE services[d]]
  /\ links' = IF keep THEN links ELSE {l \in links : l[1] # c}
  /\ customers' = IF keep THEN customers ELSE [customers EXCEPT ![c] = None]
  /\ changes' = changes \cup ({"Service"} \X gone)
                        \cup (IF keep THEN {}
                              ELSE {<<"Customer", c>>}
                                   \cup ({"Contact"} \X {p \in Person : <<c, p>> \in links}))
  /\ run' = [run EXCEPT !.todo = @ \ {c}]
  /\ UNCHANGED <<contacts, mirrored>> /\ UNCHANGED unchangedBySync

CustomersDone ==
  /\ run.at = "customers" /\ run.todo = {}
  /\ run' = Idle /\ mirrored' = TRUE
  /\ UNCHANGED <<customers, services, contacts, links, changes>> /\ UNCHANGED unchangedBySync

\* Lime or the database fails a call: SyncCustomers returns; what was written
\* stays, and the deferred reportChanges still mails the changes noted so far.
SyncError ==
  /\ run.at # "idle" /\ events < MaxEvents
  /\ run' = Idle /\ events' = events + 1
  /\ UNCHANGED <<lime, customers, services, factum, contacts, links, before, changes,
                 calm, mirrored, trusted, runs>>

SyncStep ==
  \/ \E c \in Company : SaveCustomer(c) \/ pruneStaleCustomers(c)
  \/ \E d \in Delivery : SaveDelivery(d)
  \/ GetPersons \/ PersonsDone
  \/ \E p \in Person : syncPerson(p)
  \/ pruneStaleDeliveries \/ pruneRemovedPersonLinks
  \/ CompaniesDone \/ CustomersDone \/ SyncError

(***************************************************************************)
(* Requests.                                                               *)
(***************************************************************************)
LimeAsked == /\ events < MaxEvents /\ events' = events + 1
         /\ UNCHANGED <<lime, run, before, changes, trusted, runs>>

\* ApiServiceTypeUpdate sets the type of any service, Lime's included;
\* ApiServiceUnrealize takes it away.
ApiServiceTypeUpdate(d, set) ==
  /\ LimeAsked /\ services[d] # None
  /\ services' = [services EXCEPT ![d].rich = set]
  /\ UNCHANGED <<customers, factum, contacts, links, calm, mirrored>>

\* ApiServiceCreate makes a service in Factum for any customer; ApiServiceDelete
\* takes the last one of a customer away (and refuses Lime's).
ApiServiceCreate(c) ==
  /\ LimeAsked /\ customers[c] # None
  /\ factum' = factum \cup {c}
  /\ UNCHANGED <<customers, services, contacts, links, calm, mirrored>>

ApiServiceDelete(c) ==
  /\ LimeAsked /\ c \in factum
  /\ factum' = factum \ {c} /\ calm' = FALSE
  /\ UNCHANGED <<customers, services, contacts, links, mirrored>>

\* SecureCRUDHandler.Create gives a row no run has stamped.
LocalRow == [stamp |-> 0, text |-> CHOOSE t \in Text : TRUE]

ApiCustomerCreate(c) ==
  /\ LimeAsked /\ c \in LocalCustomer /\ customers[c] = None
  /\ customers' = [customers EXCEPT ![c] = LocalRow]
  /\ UNCHANGED <<services, factum, contacts, links, calm, mirrored>>

\* ApiCustomerUpdate refuses Lime's rows.
ApiCustomerUpdate(c, t) ==
  /\ LimeAsked /\ customers[c] # None /\ c \notin Company
  /\ customers' = [customers EXCEPT ![c].text = t]
  /\ UNCHANGED <<services, factum, contacts, links, calm, mirrored>>

\* ApiCustomerDelete refuses Lime's rows and a customer that has services.
ApiCustomerDelete(c) ==
  /\ LimeAsked /\ customers[c] # None /\ c \notin Company
  /\ c \notin factum /\ \A d \in Delivery : services[d] # None => services[d].customer # c
  /\ customers' = [customers EXCEPT ![c] = None]
  /\ links' = {l \in links : l[1] # c}
  /\ UNCHANGED <<services, factum, contacts, calm, mirrored>>

ApiContactCreate(p) ==
  /\ LimeAsked /\ p \in LocalContact /\ contacts[p] = None
  /\ contacts' = [contacts EXCEPT ![p] = LocalRow @@ [notify |-> FALSE]]
  /\ UNCHANGED <<customers, services, factum, links, calm, mirrored>>

\* ApiContactUpdate: of a Lime contact only NotifyMaintenance changes.
ApiContactUpdate(p, b, t) ==
  /\ LimeAsked /\ contacts[p] # None
  /\ contacts' = [contacts EXCEPT ![p].notify = b, ![p].text = IF p \in Person THEN @ ELSE t]
  /\ UNCHANGED <<customers, services, factum, links, calm, mirrored>>

ApiContactDelete(p) ==
  /\ LimeAsked /\ contacts[p] # None /\ p \notin Person
  /\ contacts' = [contacts EXCEPT ![p] = None]
  /\ links' = {l \in links : l[2] # p}
  /\ UNCHANGED <<customers, services, factum, calm, mirrored>>

\* ApiContactCustomersPut replaces the links of a local contact.
ApiContactCustomersPut(p, cs) ==
  /\ LimeAsked /\ contacts[p] # None /\ p \notin Person
  /\ links' = {l \in links : l[2] # p} \cup (cs \X {p})
  /\ UNCHANGED <<customers, services, factum, contacts, calm, mirrored>>

Requests ==
  \/ \E d \in Delivery, b \in BOOLEAN : ApiServiceTypeUpdate(d, b)
  \/ \E c \in Customer : ApiServiceCreate(c) \/ ApiServiceDelete(c) \/ ApiCustomerCreate(c)
                         \/ ApiCustomerDelete(c)
  \/ \E c \in Customer, t \in Text : ApiCustomerUpdate(c, t)
  \/ \E p \in Contact : ApiContactCreate(p) \/ ApiContactDelete(p)
  \/ \E p \in Contact, b \in BOOLEAN, t \in Text : ApiContactUpdate(p, b, t)
  \/ \E p \in Contact, c \in {x \in Customer : customers[x] # None} : ApiContactCustomersPut(p, {c})

\* Before the first sync: rows made in Factum, or none.
LimeInit ==
  /\ lime \in LimeStarts /\ run = Idle
  /\ \E some \in BOOLEAN :
       /\ customers = [c \in Customer |-> IF some /\ c \in LocalCustomer THEN LocalRow ELSE None]
       /\ contacts = [p \in Contact |-> IF some /\ p \in LocalContact
                                        THEN LocalRow @@ [notify |-> FALSE] ELSE None]
       /\ factum \in IF some THEN SUBSET LocalCustomer ELSE {{}}
  /\ services = [d \in Delivery |-> None] /\ links = {}
  /\ before = Owned(customers, services, contacts, links) /\ changes = {}
  /\ calm = FALSE /\ mirrored = FALSE /\ trusted = TRUE
  /\ runs = 0 /\ events = 0

LimeNext ==
  \/ LimeEdits
  \/ \E full \in BOOLEAN, c \in Company, failed \in BOOLEAN : SyncCustomers(full, c, failed)
  \/ SyncStep
  \/ Requests

LimeSpec == LimeInit /\ [][LimeNext]_limevars

(***************************************************************************)
(* Properties.                                                             *)
(***************************************************************************)
\* After a full SyncCustomers that met no error and no change of Lime, the
\* Lime-owned rows are Lime's: a customer for each company (and those kept for
\* a service made in Factum), each delivery under its company, each active
\* person linked to the company alone (a kept customer of a closed company keeps
\* its persons) - whatever failed or filtered runs, moves and requests came
\* before.
FullMirrors ==
  run.at = "idle" /\ calm /\ mirrored /\ trusted =>
    /\ \A c \in Company :
         IF c \in lime.cos THEN customers[c] # None /\ customers[c].text = lime.name[c]
         ELSE customers[c] # None => c \in factum
    /\ \A d \in Delivery :
         IF lime.at[d] # None
         THEN services[d] # None /\ services[d].customer = lime.at[d] /\ services[d].text = lime.text[d]
         ELSE services[d] = None
    /\ \A p \in Person :
         {l \in links : l[2] = p /\ l[1] \notin factum \ lime.cos}
           = IF lime.works[p] # None /\ lime.active[p] THEN {<<lime.works[p], p>>} ELSE {}

\* lime.changes names every Lime-owned row that differs from what it was when
\* the run began, at each moment of the run and so also in the report of a run
\* that an error ended.
ReportTells ==
  LET now == Owned(customers, services, contacts, links) IN
  /\ \A c \in Company : now.customers[c] # before.customers[c] => <<"Customer", c>> \in changes
  /\ \A d \in Delivery : now.services[d] # before.services[d] => <<"Service", d>> \in changes
  /\ \A p \in Person :
       \/ now.contacts[p] # before.contacts[p]
       \/ {l \in now.links : l[2] = p} # {l \in before.links : l[2] = p}
       => <<"Contact", p>> \in changes

\* A run never takes away what Factum added to a service that Lime, in the
\* answer the run works from, still delivers under the company it is stored for.
EnrichmentStays ==
  \A d \in Delivery :
    services[d] # None /\ services[d].rich /\ run.at # "idle"
    /\ events' = events /\ run.got.at[d] = services[d].customer
    => services'[d] # None /\ services'[d].rich

=============================================================================
