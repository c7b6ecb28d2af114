------------------------------ MODULE CertFiles ------------------------------
(* Certificates: accounts, DNS-01 challenges and certificates are edited by  *)
(* requests or imported from a lego configuration, and factum2-certs writes  *)
(* them out as .lego.yaml and .env and runs lego.                            *)
(*                                                                           *)
(* The RFC2136 settings of a challenge are one credential, "" when unset; an *)
(* account is its server, a certificate its account, challenge, key type and *)
(* whether it has domains.  A file is the entries of each section by name.   *)
(* A save keeps the name of its row.  Requests do not overlap each other;    *)
(* the sync overlaps them.  lego is external: it reads both files when it    *)
(* runs, the last of two assignments of one variable counts.                 *)
EXTENDS Naturals, FiniteSets, Sequences, SequencesExt

CONSTANTS
    EntryNames,     \* the names of entries, in order
    Credential,     \* credentials, "" is none
    HandWritten,    \* the lego files an operator may import
    HandEnv,        \* the dotenv texts that may come with them
    Saves,          \* the rows an operator may save, by table
    CertStarts,     \* what the tables may hold at first
    MaxCertEdits, MaxCertSyncs, MaxCertFaults

VARIABLES
    accounts, challenges, certificates,  \* the tables, by name
    fetched,    \* the configuration the worker has read so far
    certAt,     \* the step of the sync; "idle" between syncs
    yaml, env,  \* the files on the worker, each with the sync that wrote it
    ran,        \* the files lego last ran with
    calmSync,   \* nothing was edited while the sync read the tables
    certEdits, certSyncs, certFaults

certvars == <<accounts, challenges, certificates, fetched, certAt, yaml, env, ran, calmSync,
              certEdits, certSyncs, certFaults>>

Names == ToSet(EntryNames)
Servers == {"", "le", "own"}
Keys == {"", "EC256", "RSA"}
DefaultServer == "le"
DefaultKey == "EC256"
NoEnv == [given |-> FALSE, cred |-> "", extra |-> {}]

AccountRow == [server : Servers]
ChallengeRow == [cred : Credential, extra : SUBSET {"x"}]
CertRow == [account : Names, challenge : Names, key : Keys, domains : BOOLEAN, host : BOOLEAN]

Put(f, n, row) == [x \in DOMAIN f \cup {n} |-> IF x = n THEN row ELSE f[x]]
Drop(f, n) == [x \in DOMAIN f \ {n} |-> f[x]]

-----------------------------------------------------------------------------
(* What the sync writes. *)

(* BuildLegoYAML: empty account fields are left out, a certificate's empty   *)
(* key type is written as the default.                                       *)
BuildLegoYAML(acc, chal, cert) ==
    [accounts |-> acc,
     challenges |-> [n \in DOMAIN chal |-> "rfc2136"],
     certificates |-> [n \in DOMAIN cert |->
                          [account |-> cert[n].account, challenge |-> cert[n].challenge,
                           key |-> IF cert[n].key = "" THEN DefaultKey ELSE cert[n].key,
                           domains |-> cert[n].domains]]]

(* BuildEnv: the credentials of all challenges in one file, by name; what    *)
(* a reader finds is the last assignment of each variable.                   *)
BuildEnv(chal) ==
    LET set == SelectSeq(EntryNames, LAMBDA n : n \in DOMAIN chal /\ chal[n].cred # "")
    IN  [given |-> \/ Cardinality(DOMAIN chal) > 1       \* a comment line for each
                   \/ \E n \in DOMAIN chal : chal[n].cred # "" \/ chal[n].extra # {},
         cred |-> IF set = << >> THEN "" ELSE chal[Last(set)].cred,
         extra |-> UNION {chal[n].extra : n \in DOMAIN chal}]

-----------------------------------------------------------------------------
(* The import. *)

(* resolveAccountName: without a name the only account, or a new "default".  *)
resolveAccountName(c, acc) ==
    CASE c.account # "" -> c.account
      [] c.account = "" /\ acc = << >> -> "default"
      [] c.account = "" /\ Cardinality(DOMAIN acc) = 1 -> CHOOSE n \in DOMAIN acc : TRUE
      [] OTHER -> "?"

resolveChallengeName(c, chal) ==
    CASE c.challenge # "" -> c.challenge
      [] c.challenge = "" /\ Cardinality(DOMAIN chal) = 1 -> CHOOSE n \in DOMAIN chal : TRUE
      [] OTHER -> "?"

resolveACMEServer(s) == IF s = "" THEN DefaultServer ELSE s

(* ParseLegoFile: the entries to import, or an error.  Only RFC2136          *)
(* challenges are taken; a certificate may not use another one.              *)
ParseLegoFile(f) ==
    LET resolved(c) == [c EXCEPT !.account = resolveAccountName(c, f.accounts),
                                 !.challenge = resolveChallengeName(c, f.challenges)]
        certs == [n \in DOMAIN f.certificates |-> resolved(f.certificates[n])]
        acc == [n \in DOMAIN f.accounts \cup {certs[c].account : c \in
                          {x \in DOMAIN certs : f.accounts = << >> /\ f.certificates[x].account = ""}} |->
                   [server |-> IF n \in DOMAIN f.accounts THEN resolveACMEServer(f.accounts[n].server)
                               ELSE DefaultServer]]
        chal == {n \in DOMAIN f.challenges : f.challenges[n] = "rfc2136"}
    IN  [ok |-> /\ \A n \in DOMAIN certs : /\ certs[n].domains
                                           /\ certs[n].account # "?" /\ certs[n].challenge # "?"
                                           /\ certs[n].challenge \notin DOMAIN f.challenges \ chal
                /\ DOMAIN acc \cup chal \cup DOMAIN certs # {},
         accounts |-> acc, challenges |-> chal, certificates |-> certs]

upsertImportedAccounts(rows, imp) ==
    [n \in DOMAIN rows \cup DOMAIN imp |-> IF n \in DOMAIN imp THEN imp[n] ELSE rows[n]]

(* upsertImportedChallenges: a value of the dotenv replaces the stored one, *)
(* a missing one leaves it; the extra lines are replaced as a whole.         *)
upsertImportedChallenges(rows, names, e) ==
    [n \in DOMAIN rows \cup names |->
        CASE n \notin names -> rows[n]
          [] n \in names \ DOMAIN rows -> [cred |-> e.cred, extra |-> e.extra]
          [] n \in names \cap DOMAIN rows ->
                [cred |-> IF e.given /\ e.cred # "" THEN e.cred ELSE rows[n].cred,
                 extra |-> IF e.given THEN e.extra ELSE rows[n].extra]]

\* Mutant of upsertImportedCertificates: an entry of the file replaces the whole row.
upsertImportedCertificatesWhole(rows, imp) ==
    [n \in DOMAIN rows \cup DOMAIN imp |->
        IF n \notin DOMAIN imp THEN rows[n]
          ELSE [account |-> imp[n].account, challenge |-> imp[n].challenge, key |-> imp[n].key,
                domains |-> TRUE, host |-> FALSE]]

upsertImportedCertificates(rows, imp) ==
    [n \in DOMAIN rows \cup DOMAIN imp |->
        CASE n \notin DOMAIN imp -> rows[n]
          [] n \in DOMAIN imp \ DOMAIN rows ->
                [account |-> imp[n].account, challenge |-> imp[n].challenge, key |-> imp[n].key,
                 domains |-> TRUE, host |-> FALSE]
          [] n \in DOMAIN imp \cap DOMAIN rows ->
                [rows[n] EXCEPT !.account = imp[n].account, !.challenge = imp[n].challenge, !.domains = TRUE,
                                !.key = IF imp[n].key = "" THEN @ ELSE imp[n].key]]

(* ApiCertsImport: one transaction; an account or challenge neither in the  *)
(* file nor stored undoes it.  The tables after it, as they were if refused. *)
Imported(f, e) ==
    LET p == ParseLegoFile(f)
        acc == upsertImportedAccounts(accounts, p.accounts)
        chal == upsertImportedChallenges(challenges, p.challenges, e)
    IN  IF p.ok /\ \A n \in DOMAIN p.certificates : /\ p.certificates[n].account \in DOMAIN acc
                                                   /\ p.certificates[n].challenge \in DOMAIN chal
          THEN [accounts |-> acc, challenges |-> chal,
                certificates |-> upsertImportedCertificates(certificates, p.certificates)]
          ELSE [accounts |-> accounts, challenges |-> challenges, certificates |-> certificates]

-----------------------------------------------------------------------------
(* The requests. *)

Asked == /\ certEdits < MaxCertEdits /\ certEdits' = certEdits + 1
         /\ calmSync' = FALSE
         /\ UNCHANGED <<fetched, certAt, yaml, env, ran, certSyncs, certFaults>>

ApiCertsImport(f, e) ==
    /\ Asked
    /\ accounts' = Imported(f, e).accounts
    /\ challenges' = Imported(f, e).challenges
    /\ certificates' = Imported(f, e).certificates

ApiCertAccountSave(n, row) ==
    /\ Asked /\ accounts' = Put(accounts, n, row)
    /\ UNCHANGED <<challenges, certificates>>

ApiCertAccountDelete(n) ==
    /\ Asked
    /\ n \in DOMAIN accounts /\ \A c \in DOMAIN certificates : certificates[c].account # n
    /\ accounts' = Drop(accounts, n)
    /\ UNCHANGED <<challenges, certificates>>

ApiCertChallengeSave(n, row) ==
    /\ Asked /\ challenges' = Put(challenges, n, row)
    /\ UNCHANGED <<accounts, certificates>>

ApiCertChallengeDelete(n) ==
    /\ Asked
    /\ n \in DOMAIN challenges /\ \A c \in DOMAIN certificates : certificates[c].challenge # n
    /\ challenges' = Drop(challenges, n)
    /\ UNCHANGED <<accounts, certificates>>

(* applyCertificate: the account and the challenge must be there; a list of *)
(* domains may be empty.                                                     *)
ApiCertificateSave(n, row) ==
    /\ Asked
    /\ row.account \in DOMAIN accounts /\ row.challenge \in DOMAIN challenges
    /\ certificates' = Put(certificates, n, row)
    /\ UNCHANGED <<accounts, challenges>>

ApiCertificateDelete(n) ==
    /\ Asked /\ n \in DOMAIN certificates
    /\ certificates' = Drop(certificates, n)
    /\ UNCHANGED <<accounts, challenges>>

-----------------------------------------------------------------------------
(* The sync.  ApiCertsConfig reads the tables one after the other. *)

TablesKeep == UNCHANGED <<accounts, challenges, certificates, certEdits>>

ReadAccounts ==
    /\ certAt = "idle" /\ certSyncs < MaxCertSyncs
    /\ certSyncs' = certSyncs + 1
    /\ fetched' = [accounts |-> accounts, challenges |-> << >>, certificates |-> << >>]
    /\ calmSync' = TRUE /\ certAt' = "challenges"
    /\ TablesKeep /\ UNCHANGED <<yaml, env, ran, certFaults>>

ReadChallenges ==
    /\ certAt = "challenges" /\ certAt' = "certificates"
    /\ fetched' = [fetched EXCEPT !.challenges = challenges]
    /\ TablesKeep /\ UNCHANGED <<yaml, env, ran, calmSync, certSyncs, certFaults>>

ReadCertificates ==
    /\ certAt = "certificates" /\ certAt' = "yaml"
    /\ fetched' = [fetched EXCEPT !.certificates = certificates]
    /\ TablesKeep /\ UNCHANGED <<yaml, env, ran, calmSync, certSyncs, certFaults>>

WriteYAML ==
    /\ certAt = "yaml" /\ certAt' = "env"
    /\ yaml' = [by |-> certSyncs, calm |-> calmSync,
                file |-> BuildLegoYAML(fetched.accounts, fetched.challenges, fetched.certificates)]
    /\ TablesKeep /\ UNCHANGED <<fetched, env, ran, calmSync, certSyncs, certFaults>>

WriteEnv ==
    /\ certAt = "env" /\ certAt' = "run"
    /\ env' = [by |-> certSyncs, vars |-> BuildEnv(fetched.challenges)]
    /\ TablesKeep /\ UNCHANGED <<fetched, yaml, ran, calmSync, certSyncs, certFaults>>

RunLego ==
    /\ certAt = "run" /\ certAt' = "idle"
    /\ ran' = [yaml |-> yaml, env |-> env, wanted |-> fetched.challenges]
    /\ TablesKeep /\ UNCHANGED <<fetched, yaml, env, calmSync, certSyncs, certFaults>>

(* A request or a write fails, or lego does: the sync ends there. *)
CertSyncFails ==
    /\ certAt # "idle" /\ certFaults < MaxCertFaults
    /\ certFaults' = certFaults + 1 /\ certAt' = "idle"
    /\ TablesKeep /\ UNCHANGED <<fetched, yaml, env, ran, calmSync, certSyncs>>

-----------------------------------------------------------------------------
NoYAML == [by |-> 0, calm |-> FALSE, file |-> BuildLegoYAML(<< >>, << >>, << >>)]
NoDotenv == [by |-> 0, vars |-> NoEnv]

CertInit ==
    /\ \E s \in CertStarts : accounts = s.accounts /\ challenges = s.challenges /\ certificates = s.certificates
    /\ fetched = [accounts |-> << >>, challenges |-> << >>, certificates |-> << >>]
    /\ certAt = "idle" /\ yaml = NoYAML /\ env = NoDotenv
    /\ ran = [yaml |-> NoYAML, env |-> NoDotenv, wanted |-> << >>]
    /\ calmSync = FALSE
    /\ certEdits = 0 /\ certSyncs = 0 /\ certFaults = 0

CertNext ==
    \/ \E n \in Names : \/ \E row \in Saves.accounts : ApiCertAccountSave(n, row)
                        \/ \E row \in Saves.challenges : ApiCertChallengeSave(n, row)
                        \/ \E row \in Saves.certificates : ApiCertificateSave(n, row)
                        \/ ApiCertAccountDelete(n) \/ ApiCertChallengeDelete(n) \/ ApiCertificateDelete(n)
    \/ \E f \in HandWritten, e \in HandEnv : ApiCertsImport(f, e)
    \/ ApiCertsImport(yaml.file, env.vars)
    \/ ReadAccounts \/ ReadChallenges \/ ReadCertificates \/ WriteYAML \/ WriteEnv \/ RunLego
    \/ CertSyncFails

CertSpec == CertInit /\ [][CertNext]_certvars

-----------------------------------------------------------------------------
(* The rows of each table have its fields. *)
CertTypeOK ==
    /\ DOMAIN accounts \subseteq Names /\ \A n \in DOMAIN accounts : accounts[n] \in AccountRow
    /\ DOMAIN challenges \subseteq Names /\ \A n \in DOMAIN challenges : challenges[n] \in ChallengeRow
    /\ DOMAIN certificates \subseteq Names /\ \A n \in DOMAIN certificates : certificates[n] \in CertRow
    /\ certAt \in {"idle", "challenges", "certificates", "yaml", "env", "run"}

(* What lego would do for the tables: servers and key types with the        *)
(* defaults filled in.                                                       *)
Meaning(t) ==
    [accounts |-> [n \in DOMAIN t.accounts |-> resolveACMEServer(t.accounts[n].server)],
     challenges |-> t.challenges,
     certificates |-> [n \in DOMAIN t.certificates |->
                          [t.certificates[n] EXCEPT !.key = IF @ = "" THEN DefaultKey ELSE @]]]

(* Importing the two files that a sync of these tables writes changes       *)
(* nothing lego could tell: what BuildLegoYAML and BuildEnv leave out,       *)
(* ParseLegoFile and the upserts fill in alike.  Said of tables whose        *)
(* challenges share their credentials and extra lines, which is all one      *)
(* .env can hold.                                                            *)
ReimportMeansTheSame ==
    (\A m, n \in DOMAIN challenges : challenges[m] = challenges[n])
      => LET now == [accounts |-> accounts, challenges |-> challenges, certificates |-> certificates]
         IN  Meaning(Imported(BuildLegoYAML(accounts, challenges, certificates), BuildEnv(challenges)))
                = Meaning(now)

(* lego never runs with the configuration of one sync and the credentials   *)
(* of another, and what an undisturbed sync gave it names only accounts and  *)
(* challenges it defines: WriteFiles stops at the first file it cannot       *)
(* write.                                                                    *)
LegoRunsWhole ==
    /\ ran.yaml.by = ran.env.by
    /\ ran.yaml.calm => LET f == ran.yaml.file
                        IN  \A n \in DOMAIN f.certificates :
                               /\ f.certificates[n].account \in DOMAIN f.accounts
                               /\ f.certificates[n].challenge \in DOMAIN f.challenges

=============================================================================
