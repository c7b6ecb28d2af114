------------------------------ MODULE Accounts ------------------------------
(***************************************************************************)
(* Accounts of the web interface: login against the local table and the    *)
(* directory (web/auth.go, web/ldap_chain.go), sessions that carry the     *)
(* user's token version, the profile and the administrator's form          *)
(* (web/handle_user_api.go) and the reset of a forgotten password          *)
(* (web/handle_password_reset.go).  A request reads the row, and a Save    *)
(* later writes every column back as it was read; other requests may come  *)
(* in between.  Passwords are numbered in the order they are chosen.       *)
(***************************************************************************)
EXTENDS Integers, Sequences, FiniteSets

CONSTANTS
    Member,        \* the people, each with one name and one address
    Browser,       \* concurrent requests
    NoUser,
    MaxAttempts,   \* passwordResetMaxCodeAttempts
    MaxPw, MaxTokens, MaxIds, MaxCalls

VARIABLES
    user,          \* member -> row [id, ldap, pw, ver], or NoUser
    dirPw,         \* member -> password in the directory, 0 for one it does not know
    sessions,      \* issued cookies: [id, ver, pw]
    tokens,        \* reset tokens, oldest first: [id, live, attempts, uses]
    recent,        \* members with a token younger than the cooldown
    call,          \* browser -> the request it is in
    met,           \* members on whom two saving requests have overlapped
    pws, ids, calls

accvars == <<user, dirPw, sessions, tokens, recent, call, met, pws, ids, calls>>

NoCall == [at |-> "none", who |-> NoUser, row |-> NoUser, pw |-> 0, change |-> FALSE, token |-> 0]

AccInit ==
    /\ user \in [Member -> {NoUser}] /\ dirPw \in [Member -> {0, 1}]
    /\ sessions = {} /\ tokens = <<>> /\ recent = {} /\ call = [b \in Browser |-> NoCall]
    /\ met = {} /\ pws = 1 /\ ids = 0 /\ calls = 0

UserRow(id) == {m \in Member : user[m] # NoUser /\ user[m].id = id}

\* RequireAPIAuth.
Accepted(s) == \E m \in UserRow(s.id) : user[m].ver = s.ver

Password(m) == IF user[m].ldap THEN dirPw[m] ELSE user[m].pw

Answer(b) == call' = [call EXCEPT ![b] = NoCall]

Begin(b) == call[b].at = "none" /\ calls < MaxCalls /\ calls' = calls + 1

Holds(b, m) == call[b].at \notin {"none", "issue"} /\ call[b].who = m
Busy(m) == \E b \in Browser : Holds(b, m)

\* The request goes on with a row it has read.
Goes(b, m, row, at, pw, change, token) ==
    /\ call' = [call EXCEPT ![b] = [at |-> at, who |-> m, row |-> row, pw |-> pw, change |-> change, token |-> token]]
    /\ met' = IF \E o \in Browser \ {b} : Holds(o, m) THEN met \cup {m} ELSE met

-----------------------------------------------------------------------------
(* Login.                                                                  *)

\* authenticateLDAP: some configured server is reached and takes the password;
\* a server that fails or rejects is passed over.
authenticateLDAP(m, p) == dirPw[m] # 0 /\ dirPw[m] = p

\* A local row is checked on the spot.
LoginLocal(b, m, p) ==
    /\ Begin(b) /\ user[m] # NoUser /\ ~user[m].ldap
    /\ sessions' = IF user[m].pw = p THEN sessions \cup {[id |-> user[m].id, ver |-> user[m].ver, pw |-> p]} ELSE sessions
    /\ UNCHANGED <<user, dirPw, tokens, recent, call, met, pws, ids>>

\* authenticateExistingLDAPUser and authenticateNewLDAPUser, up to the answer
\* of the directory.
LoginLDAP(b, m, p) ==
    /\ Begin(b) /\ (user[m] # NoUser => user[m].ldap)
    /\ \/ authenticateLDAP(m, p) /\ Goes(b, m, user[m], IF user[m] = NoUser THEN "create" ELSE "login", p, FALSE, 0)
       \/ UNCHANGED <<call, met>>
    /\ UNCHANGED <<user, dirPw, sessions, tokens, recent, pws, ids>>

\* The row is saved with what the directory says of the person.
LoginSaves(b) ==
    LET m == call[b].who IN
    /\ call[b].at = "login" /\ Answer(b)
    /\ user' = [user EXCEPT ![m] = call[b].row]
    /\ sessions' = sessions \cup {[id |-> call[b].row.id, ver |-> call[b].row.ver, pw |-> call[b].pw]}
    /\ UNCHANGED <<dirPw, tokens, recent, met, pws, ids, calls>>

\* A first login creates the row; the name is unique.
LoginCreates(b) ==
    LET m == call[b].who IN
    /\ call[b].at = "create" /\ Answer(b)
    /\ \/ user[m] # NoUser /\ UNCHANGED <<user, sessions, ids>>
       \/ /\ user[m] = NoUser /\ ids < MaxIds /\ ids' = ids + 1
          /\ user' = [user EXCEPT ![m] = [id |-> ids + 1, ldap |-> TRUE, pw |-> 0, ver |-> 1]]
          /\ sessions' = sessions \cup {[id |-> ids + 1, ver |-> 1, pw |-> call[b].pw]}
    /\ UNCHANGED <<dirPw, tokens, recent, met, pws, calls>>

-----------------------------------------------------------------------------
(* Administration and profile.                                             *)

ApiUserCreate(b, m) ==
    /\ Begin(b) /\ user[m] = NoUser /\ ids < MaxIds /\ pws < MaxPw /\ ids' = ids + 1 /\ pws' = pws + 1
    /\ user' = [user EXCEPT ![m] = [id |-> ids + 1, ldap |-> FALSE, pw |-> pws + 1, ver |-> 1]]
    /\ UNCHANGED <<dirPw, sessions, tokens, recent, call, met>>

ApiUserUpdate(b, m, change) ==
    /\ Begin(b) /\ user[m] # NoUser /\ (change => pws < MaxPw)
    /\ pws' = IF change THEN pws + 1 ELSE pws
    /\ Goes(b, m, user[m], "admin", pws + 1, change, 0)
    /\ UNCHANGED <<user, dirPw, sessions, tokens, recent, ids>>

ApiUserDelete(b, m) ==
    /\ Begin(b) /\ user[m] # NoUser /\ user' = [user EXCEPT ![m] = NoUser]
    /\ UNCHANGED <<dirPw, sessions, tokens, recent, call, met, pws, ids>>

\* A new password needs the current one, p; that of a directory user is
\* changed in the directory first.
ApiMeUpdate(b, s, p, change) ==
    /\ Begin(b) /\ Accepted(s) /\ (change => pws < MaxPw)
    /\ \E m \in UserRow(s.id) :
          \/ change /\ p # Password(m) /\ UNCHANGED <<call, met, pws, dirPw>>
          \/ /\ ~change \/ p = Password(m)
             /\ pws' = IF change THEN pws + 1 ELSE pws
             /\ dirPw' = IF change /\ user[m].ldap THEN [dirPw EXCEPT ![m] = pws + 1] ELSE dirPw
             /\ Goes(b, m, user[m], "me", pws + 1, change, 0)
    /\ UNCHANGED <<user, sessions, tokens, recent, ids>>

\* The Save of the three handlers.  Only the administrator's makes a directory
\* user a local one.
Written(m, c) ==
    IF c.change /\ (c.at = "admin" \/ ~c.row.ldap)
    THEN [c.row EXCEPT !.ldap = FALSE, !.pw = c.pw] ELSE c.row

Save(b) ==
    LET c == call[b] IN
    /\ c.at \in {"me", "admin", "reset"}
    /\ user' = IF c.at = "reset" /\ c.row.ldap THEN user     \* nothing to save
               ELSE [user EXCEPT ![c.who] = Written(c.who, c)]
    /\ IF c.change THEN call' = [call EXCEPT ![b].at = IF c.at = "reset" THEN "resetbump" ELSE "bump"] ELSE Answer(b)
    /\ UNCHANGED <<dirPw, sessions, tokens, recent, met, pws, ids, calls>>

\* Mutant of bumpTokenVersion: the version stays.
bumpNot(b) ==
    LET c == call[b] IN
    /\ c.at \in {"bump", "resetbump"}
    /\ IF c.at = "bump" THEN Answer(b) ELSE call' = [call EXCEPT ![b].at = "consume"]
    /\ UNCHANGED <<user, dirPw, sessions, tokens, recent, met, pws, ids, calls>>

\* One UPDATE of the row with that id, if it is still there.
bumpTokenVersion(b) ==
    LET c == call[b] IN
    /\ c.at \in {"bump", "resetbump"}
    /\ user' = IF user[c.who] # NoUser /\ user[c.who].id = c.row.id THEN [user EXCEPT ![c.who].ver = @ + 1] ELSE user
    /\ IF c.at = "bump" THEN Answer(b) ELSE call' = [call EXCEPT ![b].at = "consume"]
    /\ UNCHANGED <<dirPw, sessions, tokens, recent, met, pws, ids, calls>>

-----------------------------------------------------------------------------
(* Forgotten passwords.                                                    *)

\* sendPasswordResetEmailIfEligible: a person the directory knows gets a row;
\* within the cooldown nothing more happens.
ApiForgotPassword(b, m) ==
    LET found == user[m] # NoUser
        row == IF found THEN user[m] ELSE [id |-> ids + 1, ldap |-> TRUE, pw |-> 0, ver |-> 1]
    IN  /\ Begin(b)
        /\ \/ ~found /\ dirPw[m] = 0 /\ UNCHANGED <<user, ids, call>>
           \/ /\ found \/ (dirPw[m] # 0 /\ ids < MaxIds)
              /\ ids' = IF found THEN ids ELSE ids + 1
              /\ user' = [user EXCEPT ![m] = row]
              /\ call' = IF m \in recent THEN call
                         ELSE [call EXCEPT ![b] = [NoCall EXCEPT !.at = "issue", !.who = m, !.row = row]]
        /\ UNCHANGED <<dirPw, sessions, tokens, recent, met, pws>>

\* Earlier tokens of the user end; the new one is mailed.
Issue(b) ==
    /\ call[b].at = "issue" /\ Answer(b) /\ Len(tokens) < MaxTokens
    /\ tokens' = Append([k \in DOMAIN tokens |->
                           IF tokens[k].id = call[b].row.id THEN [tokens[k] EXCEPT !.live = FALSE] ELSE tokens[k]],
                        [id |-> call[b].row.id, live |-> TRUE, attempts |-> 0, uses |-> 0])
    /\ recent' = recent \cup {call[b].who}
    /\ UNCHANGED <<user, dirPw, sessions, met, pws, ids, calls>>

Cooldown(m) ==
    /\ m \in recent /\ recent' = recent \ {m}
    /\ UNCHANGED <<user, dirPw, sessions, tokens, call, met, pws, ids, calls>>

Expire(k) ==
    /\ tokens[k].live /\ tokens' = [tokens EXCEPT ![k].live = FALSE]
    /\ UNCHANGED <<user, dirPw, sessions, recent, call, met, pws, ids, calls>>

\* A token resolved: the directory password is changed at once, the local one
\* with the Save.
Redeem(b, m, row, k) ==
    /\ pws < MaxPw /\ pws' = pws + 1
    /\ dirPw' = IF row.ldap THEN [dirPw EXCEPT ![m] = pws + 1] ELSE dirPw
    /\ Goes(b, m, row, "reset", pws + 1, TRUE, k)

\* resolveResetToken by the link.
ResetByLink(b, k) ==
    /\ Begin(b) /\ tokens[k].live
    /\ \E m \in UserRow(tokens[k].id) : Redeem(b, m, user[m], k)
    /\ UNCHANGED <<user, sessions, tokens, recent, ids>>

Latest(m) ==
    LET own == {k \in DOMAIN tokens : tokens[k].live /\ tokens[k].id = user[m].id}
    IN  IF own = {} THEN 0 ELSE CHOOSE k \in own : \A j \in own : j <= k

\* By address and code: the newest live token is read.
ResetByCode(b, m) ==
    /\ Begin(b) /\ user[m] # NoUser /\ Latest(m) # 0
    /\ Goes(b, m, user[m], "code", 0, FALSE, Latest(m))
    /\ UNCHANGED <<user, dirPw, sessions, tokens, recent, pws, ids>>

\* One UPDATE counts the attempt while the token is live and below the cap;
\* then the code is compared.
Attempt(b, right) ==
    LET k == call[b].token
        m == call[b].who
    IN  /\ call[b].at = "code"
        /\ IF tokens[k].live /\ tokens[k].attempts < MaxAttempts
           THEN /\ tokens' = [tokens EXCEPT ![k].attempts = @ + 1]
                /\ IF right THEN Redeem(b, m, call[b].row, k)
                   ELSE Answer(b) /\ UNCHANGED <<dirPw, met, pws>>
           ELSE /\ tokens' = [tokens EXCEPT ![k].live = FALSE]
                /\ Answer(b) /\ UNCHANGED <<dirPw, met, pws>>
        /\ UNCHANGED <<user, sessions, recent, ids, calls>>

\* Mutant of consumeResetToken: the token stays.
consumeNot(b) ==
    LET k == call[b].token IN
    /\ call[b].at = "consume" /\ Answer(b)
    /\ tokens' = [tokens EXCEPT ![k].uses = @ + 1]
    /\ UNCHANGED <<user, dirPw, sessions, recent, met, pws, ids, calls>>

consumeResetToken(b) ==
    LET k == call[b].token IN
    /\ call[b].at = "consume" /\ Answer(b)
    /\ tokens' = [tokens EXCEPT ![k].live = FALSE, ![k].uses = @ + 1]
    /\ UNCHANGED <<user, dirPw, sessions, recent, met, pws, ids, calls>>

AccNext ==
    \/ \E b \in Browser :
          \/ \E m \in Member :
                \/ \E p \in 1..pws : LoginLocal(b, m, p) \/ LoginLDAP(b, m, p)
                \/ ApiUserCreate(b, m) \/ ApiUserDelete(b, m) \/ \E ch \in BOOLEAN : ApiUserUpdate(b, m, ch)
                \/ ApiForgotPassword(b, m) \/ ResetByCode(b, m)
          \/ \E s \in sessions, p \in 1..pws, ch \in BOOLEAN : ApiMeUpdate(b, s, p, ch)
          \/ LoginSaves(b) \/ LoginCreates(b) \/ Save(b) \/ bumpTokenVersion(b) \/ Issue(b)
          \/ \E k \in DOMAIN tokens : ResetByLink(b, k)
          \/ \E right \in BOOLEAN : Attempt(b, right)
          \/ consumeResetToken(b)
    \/ \E m \in Member : Cooldown(m)
    \/ \E k \in DOMAIN tokens : Expire(k)

AccSpec == AccInit /\ [][AccNext]_accvars

-----------------------------------------------------------------------------

AccTypeOK ==
    /\ \A m \in Member : user[m] # NoUser => user[m].id \in 1..ids /\ user[m].ver \in Nat \ {0} /\ user[m].pw \in 0..pws
    /\ \A k \in DOMAIN tokens : tokens[k].id \in 1..ids
    /\ met \subseteq Member

\* Once a password change has been answered, no cookie issued for an earlier
\* password is accepted, unless requests that save the row overlapped
\* (models.User: "Password changes increment it so a previously issued cookie
\* stops working").
OldCookiesStop ==
    \A s \in sessions : \A m \in UserRow(s.id) :
        Accepted(s) /\ ~Busy(m) /\ m \notin met => s.pw = Password(m)

\* However many requests guess at once, a token's code is compared at most
\* MaxAttempts times (the single UPDATE of resolveResetToken).
GuessesBounded == \A k \in DOMAIN tokens : tokens[k].attempts <= MaxAttempts

\* A reset token changes one password at most, unless requests overlapped.
TokenUsedOnce ==
    \A k \in DOMAIN tokens : tokens[k].uses > 1 => UserRow(tokens[k].id) \subseteq met

=============================================================================
