---------------------------- MODULE Directories -----------------------------
(***************************************************************************)
(* The two kinds of LDAP directory: the one Factum serves itself, then the *)
(* edits of an external one.                                               *)
(***************************************************************************)
EXTENDS Integers, Sequences, FiniteSets

-----------------------------------------------------------------------------
(***************************************************************************)
(* The internal LDAP directory: its folders, the roles published in them   *)
(* and the nesting of roles (web/handle_ldap_internal.go), the entries     *)
(* built from them (internal/ldapsrv/directory.go) and the in-chain search *)
(* (internal/ldapsrv/search.go).  RADIUS policies and role mappings refer  *)
(* to a role by its DN, so every change that moves a role rewrites them.   *)
(* Requests do not overlap here; a DN is the sequence of its names, equal  *)
(* when they are equal without regard to case.                             *)
(***************************************************************************)

CONSTANTS
    OuId, OuName,     \* ids (positive) and names of folders
    RoleId, CName,    \* ids (positive) and names of roles
    DirStarts,        \* what is there at first: records of the variables below
    MaxDirEdits

VARIABLES
    ou,               \* folder id -> [name, parent]; parent 0 is the base
    role,             \* role id -> [name, ou]; ou 0 is the folder Roles
    nests,            \* <<role, member>>
    holds,            \* the roles of the person, in order
    personOu,         \* the person's folder, 0 for People
    refs,             \* policies: [dn, role], role being the one meant
    edited

dirvars == <<ou, role, nests, holds, personOu, refs, edited>>

DirInit ==
    \E s \in DirStarts :
        /\ ou = s.ou /\ role = s.role /\ nests = s.nests /\ holds = s.holds /\ refs = s.refs
        /\ personOu = 0 /\ edited = 0

-----------------------------------------------------------------------------
(* Build.                                                                  *)

\* The walk stops at the base and at a folder it has seen.
RECURSIVE OUDN(_, _, _)
OUDN(F, o, seen) ==
    IF o = 0 \/ o \in seen THEN <<>> ELSE <<F[o].name>> \o OUDN(F, F[o].parent, seen \cup {o})

\* A role whose folder is gone is published in the folder Roles.
RoleDN(F, R, r) ==
    <<R[r].name>> \o (IF R[r].ou \in DOMAIN F THEN OUDN(F, R[r].ou, {}) ELSE <<"Roles">>)

\* The roles that have r as a direct member, in order.
RECURSIVE SortedIds(_)
SortedIds(S) ==
    IF S = {} THEN <<>> ELSE LET m == CHOOSE x \in S : \A y \in S : x <= y IN <<m>> \o SortedIds(S \ {m})

parents(r) == SortedIds({p \in RoleId : <<p, r>> \in nests})

\* ancestors, over a list of parents: those not yet seen, each followed by its
\* own ancestors; seen is shared by all branches.
RECURSIVE ancestors(_, _)
ancestors(todo, seen) ==
    IF todo = <<>> THEN [out |-> <<>>, seen |-> seen]
    ELSE IF Head(todo) \in seen THEN ancestors(Tail(todo), seen)
    ELSE LET up   == ancestors(parents(Head(todo)), seen \cup {Head(todo)})
             rest == ancestors(Tail(todo), up.seen)
         IN  [out |-> <<Head(todo)>> \o up.out \o rest.out, seen |-> rest.seen]

\* memberOf and the direct edges of an entry with the given groups: a group
\* already found above an earlier one is not listed again.
RECURSIVE Groups(_, _)
Groups(todo, seen) ==
    IF todo = <<>> THEN [all |-> <<>>, direct |-> {}]
    ELSE IF Head(todo) \in seen THEN Groups(Tail(todo), seen)
    ELSE LET up   == ancestors(parents(Head(todo)), seen \cup {Head(todo)})
             rest == Groups(Tail(todo), up.seen)
         IN  [all |-> <<Head(todo)>> \o up.out \o rest.all, direct |-> {Head(todo)} \cup rest.direct]

ThePerson == 0
MemberOf(e) == IF e = ThePerson THEN Groups(holds, {}) ELSE Groups(parents(e), {e})

DirectMembers(r) ==
    {m \in RoleId : <<r, m>> \in nests} \cup (IF \E k \in DOMAIN holds : holds[k] = r THEN {ThePerson} ELSE {})

-----------------------------------------------------------------------------
(* The in-chain matching rule of a search.                                 *)

RECURSIVE inChain(_, _, _, _)
inChain(e, attr, want, seen) ==
    LET next == IF attr = "memberof" THEN MemberOf(e).direct
                ELSE IF e = ThePerson THEN {} ELSE DirectMembers(e)
    IN  want \in next \/ \E n \in next \ (seen \cup {e}) : inChain(n, attr, want, seen \cup {e})

-----------------------------------------------------------------------------
(* Requests.                                                               *)

DirEdit == edited < MaxDirEdits /\ edited' = edited + 1

\* Mutant of rewriteRoleDNs: only the roles right inside folder o are looked at.
rewriteInside(F, R, o) ==
    {IF r.role \in DOMAIN R /\ R[r.role].ou = o THEN [r EXCEPT !.dn = RoleDN(F, R, r.role)] ELSE r : r \in refs}

\* Every reference to the old DN of a role is given its new one.
rewriteRoleDNs(F, R, o) ==
    LET moved == {r \in RoleId : RoleDN(ou, role, r) # RoleDN(F, R, r)}
    IN  {IF \E r \in moved : x.dn = RoleDN(ou, role, r)
         THEN [x EXCEPT !.dn = RoleDN(F, R, CHOOSE r \in moved : x.dn = RoleDN(ou, role, r))] ELSE x : x \in refs}

ouNameTaken(parent, name, self) == \E o \in DOMAIN ou \ {self} : ou[o].parent = parent /\ ou[o].name = name

ApiLdapOUCreate(o, name, parent) ==
    /\ DirEdit /\ o \notin DOMAIN ou /\ parent \in DOMAIN ou \cup {0} /\ ~ouNameTaken(parent, name, 0)
    /\ ou' = [x \in DOMAIN ou \cup {o} |-> IF x = o THEN [name |-> name, parent |-> parent] ELSE ou[x]]
    /\ UNCHANGED <<role, nests, holds, personOu, refs>>

\* Mutant of ouCycle: only the new parent itself is looked at.
ouCycleOne(o, parent) == parent = o

ouCycle(o, parent) ==
    LET up[n \in 0..Cardinality(DOMAIN ou)] ==
            IF n = 0 THEN {parent} ELSE up[n - 1] \cup {ou[x].parent : x \in up[n - 1] \cap DOMAIN ou}
    IN  o \in up[Cardinality(DOMAIN ou)]

ApiLdapOUUpdate(o, name, parent) ==
    /\ DirEdit /\ o \in DOMAIN ou /\ parent \in DOMAIN ou \cup {0}
    /\ ~ouCycle(o, parent) /\ ~ouNameTaken(parent, name, o)
    /\ ou' = [ou EXCEPT ![o] = [name |-> name, parent |-> parent]]
    /\ refs' = rewriteRoleDNs(ou', role, o)
    /\ UNCHANGED <<role, nests, holds, personOu>>

\* Only an empty folder goes.
ApiLdapOUDelete(o) ==
    /\ DirEdit /\ o \in DOMAIN ou /\ personOu # o
    /\ \A x \in DOMAIN ou : ou[x].parent # o
    /\ \A r \in RoleId : role[r].ou # o
    /\ ou' = [x \in DOMAIN ou \ {o} |-> ou[x]]
    /\ UNCHANGED <<role, nests, holds, personOu, refs>>

PlaceRole(r, o) ==
    /\ DirEdit /\ o \in DOMAIN ou \cup {0}
    /\ role' = [role EXCEPT ![r].ou = o]
    /\ refs' = rewriteRoleDNs(ou, role', o)
    /\ UNCHANGED <<ou, nests, holds, personOu>>

PlaceUser(o) ==
    /\ DirEdit /\ o \in DOMAIN ou \cup {0} /\ personOu' = o
    /\ UNCHANGED <<ou, role, nests, holds, refs>>

\* Names are unique; a Save with a taken one fails.
ApiRoleUpdate(r, name) ==
    /\ DirEdit /\ \A x \in RoleId \ {r} : role[x].name # name
    /\ role' = [role EXCEPT ![r].name = name]
    /\ refs' = rewriteRoleDNs(ou, role', role[r].ou)
    /\ UNCHANGED <<ou, nests, holds, personOu>>

\* memberCycle: from r, over the members wanted and the others' members.
RECURSIVE Reaches(_, _, _)
Reaches(N, from, seen) ==
    LET next == {m \in RoleId : <<from, m>> \in N}
    IN  next \cap seen # {} \/ \E m \in next : Reaches(N, m, seen \cup {m})
memberCycle(r, M) == Reaches({n \in nests : n[1] # r} \cup {<<r, m>> : m \in M}, r, {r})

ApiRoleMembersUpdate(r, M) ==
    /\ DirEdit /\ ~memberCycle(r, M \ {r})
    /\ nests' = {n \in nests : n[1] # r} \cup {<<r, m>> : m \in M \ {r}}
    /\ UNCHANGED <<ou, role, holds, personOu, refs>>

\* A policy or a mapping is made for a role, by the DN it has now.
RefCreate(r) ==
    /\ DirEdit /\ refs' = refs \cup {[dn |-> RoleDN(ou, role, r), role |-> r]}
    /\ UNCHANGED <<ou, role, nests, holds, personOu>>

DirNext ==
    \/ \E o \in OuId :
          \/ \E n \in OuName, p \in OuId \cup {0} : ApiLdapOUCreate(o, n, p) \/ ApiLdapOUUpdate(o, n, p)
          \/ ApiLdapOUDelete(o)
    \/ \E o \in OuId \cup {0} : PlaceUser(o) \/ \E r \in RoleId : PlaceRole(r, o)
    \/ \E r \in RoleId :
          \/ RefCreate(r)
          \/ \E n \in CName : ApiRoleUpdate(r, n)
          \/ \E M \in SUBSET RoleId : ApiRoleMembersUpdate(r, M)

DirSpec == DirInit /\ [][DirNext]_dirvars

-----------------------------------------------------------------------------

DirTypeOK ==
    /\ \A o \in DOMAIN ou : ou[o].name \in OuName /\ ou[o].parent \in DOMAIN ou \cup {0}
    /\ \A r \in RoleId : role[r].ou \in DOMAIN ou \cup {0}
    /\ nests \subseteq RoleId \X RoleId

\* A policy made for a role names the DN the role is published at, whatever
\* folders were renamed or moved above it since (rewriteRoleDNs).
RefsFollow == \A x \in refs : x.dn = RoleDN(ou, role, x.role)

\* The base is above every folder: ouCycle sees through any depth.
FoldersRooted ==
    \A S \in SUBSET DOMAIN ou : S # {} => \E o \in S : ou[o].parent \notin S

\* All groups of the person and of a role, by definition.
Above(S) ==
    LET R[n \in 0..Cardinality(RoleId)] ==
            IF n = 0 THEN S ELSE R[n - 1] \cup {p \in RoleId : \E m \in R[n - 1] : <<p, m>> \in nests}
    IN  R[Cardinality(RoleId)]
AllGroups(e) ==
    IF e = ThePerson THEN Above({holds[k] : k \in DOMAIN holds})
    ELSE Above({p \in RoleId : <<p, e>> \in nests})

\* memberOf lists every group above an entry once, whatever the nesting and the
\* order of the person's roles (Build's shared seen), and the in-chain rule
\* finds the same over the direct edges, up and down.
GroupsAgree ==
    \A e \in RoleId \cup {ThePerson} :
        LET m == MemberOf(e).all
        IN  /\ {m[k] : k \in DOMAIN m} = AllGroups(e) /\ Len(m) = Cardinality(AllGroups(e))
            /\ \A r \in RoleId : /\ inChain(e, "memberof", r, {}) <=> r \in AllGroups(e)
                                 /\ inChain(r, "member", e, {}) <=> r \in AllGroups(e)

-----------------------------------------------------------------------------
(***************************************************************************)
(* Edits of people and groups in an external directory:                    *)
(* internal/ldapauth/directory.go, called by web/handle_ldap_directory.go. *)
(*                                                                         *)
(* A person is an entry named by uid or by cn that carries a uid.  A group *)
(* lists its members either by DN (member, uniqueMember) or by uid         *)
(* (memberUid).  Factum's role mappings and RADIUS policies hold group     *)
(* DNs.  One LDAP operation is one step, and any of them may fail: a call  *)
(* is a row of operations without a transaction around them.  Requests do  *)
(* not overlap here.                                                       *)
(***************************************************************************)

CONSTANTS Uid,          \* uids people carry
          Cn,           \* names of the entries named by cn
          GName,        \* group DNs
          ByUid,        \* group DNs whose group keeps memberUid values
          Keep,         \* a person request that leaves the groups alone
          EditStarts,   \* the directories to start from
          MaxEditCalls, MaxEditFaults

VARIABLES person,   \* person DN |-> uid
          group,    \* group DN |-> set of member values
          grefs,    \* group DNs stored by Factum rows
          ereq,     \* the request served
          estep,    \* the operation it is at
          todo,     \* groups it still has to change
          had,      \* the person's groups when the request came
          ecalls, efaults

editvars == <<person, group, grefs, ereq, estep, todo, had, ecalls, efaults>>

PersonDN == ({"uid"} \X Uid) \cup ({"cn"} \X Cn)

NoEdit == [op |-> "none"]

\* The value that stands for the person in this group: setMembership.
ValueFor(g, dn, uid) == IF g \in ByUid THEN uid ELSE dn

\* directGroups: the groups that list the DN or the uid.
directGroups(dn, uid) ==
  {g \in DOMAIN group : ValueFor(g, dn, uid) \in group[g]}

OnlyOf(f, S) == [x \in S |-> f[x]]

(* The directory's answers: a failed operation changes nothing. *)
Fails ==
  /\ efaults < MaxEditFaults
  /\ efaults' = efaults + 1

\* A failed operation ends the call; CreatePerson first deletes its entry.
EditBroken ==
  /\ estep' = IF ereq.op = "create" /\ estep # "add" THEN "undo" ELSE "failed"
  /\ UNCHANGED <<person, group, grefs, ereq, todo, had, ecalls>>

\* The server refuses a value already there and an empty groupOfNames.
CanAdd(g, v) == v \notin group[g]
CanDrop(g) == g \in ByUid \/ Cardinality(group[g]) > 1

Onward(s) == estep' = s /\ UNCHANGED <<ereq, had, ecalls, efaults>>
-----------------------------------------------------------------------------
(* Requests. *)
Ask(r, first, groups) ==
  /\ estep = "idle" /\ ecalls < MaxEditCalls
  /\ ecalls' = ecalls + 1
  /\ ereq' = r
  /\ estep' = first
  /\ todo' = {}
  /\ had' = groups
  /\ UNCHANGED <<person, group, grefs, efaults>>

CreatePerson ==
  \E u \in Uid, want \in {Keep} \cup SUBSET GName :
    Ask([op |-> "create", dn |-> <<"uid", u>>, uid |-> u, want |-> want],
        "add", {})

UpdatePerson ==
  \E dn \in DOMAIN person, u \in Uid, want \in {Keep} \cup SUBSET GName :
    Ask([op |-> "update", dn |-> dn, old |-> dn, olduid |-> person[dn],
         uid |-> u, want |-> want],
        "rename", directGroups(dn, person[dn]))

DeletePerson ==
  \E dn \in DOMAIN person :
    Ask([op |-> "delete", dn |-> dn, old |-> dn, olduid |-> person[dn]],
        "dns", {})

\* CreateGroup: the members are DNs, and there is at least one.
CreateGroup ==
  \E g \in GName \ ByUid, dn \in DOMAIN person :
    Ask([op |-> "newgroup", dn |-> g, members |-> {dn}], "addgroup", {})

UpdateGroup ==
  \E g \in DOMAIN group, to \in GName :
    /\ (to \in ByUid) = (g \in ByUid)
    /\ \E ms \in SUBSET DOMAIN person :
         /\ g \notin ByUid => ms # {}
         /\ Ask([op |-> "group", dn |-> g, to |-> to,
                 members |-> IF g \in ByUid THEN {person[m] : m \in ms} ELSE ms],
                "regroup", {})

DeleteGroup ==
  \E g \in DOMAIN group : Ask([op |-> "nogroup", dn |-> g], "delgroup", {})
-----------------------------------------------------------------------------
(* The operations of a person request, in the code's order. *)
Add ==
  /\ estep = "add"
  /\ \/ /\ ereq.dn \notin DOMAIN person
        /\ person' = [d \in DOMAIN person \cup {ereq.dn} |->
                       IF d = ereq.dn THEN ereq.uid ELSE person[d]]
        /\ Onward("password")
        /\ UNCHANGED <<group, grefs, todo>>
     \/ ereq.dn \in DOMAIN person /\ EditBroken /\ UNCHANGED efaults
     \/ Fails /\ EditBroken

Undo ==
  /\ estep = "undo"
  /\ \/ person' = OnlyOf(person, DOMAIN person \ {ereq.dn}) /\ UNCHANGED efaults
     \/ Fails /\ UNCHANGED person
  /\ estep' = "failed"
  /\ UNCHANGED <<group, grefs, ereq, todo, had, ecalls>>

\* renamePersonIfNeeded, its ModifyDN.
Rename ==
  /\ estep = "rename"
  /\ LET to == <<"uid", ereq.uid>>
         renames == ereq.dn[1] = "uid" /\ ereq.dn # to IN
     \/ /\ ~renames
        /\ Onward("attrs")
        /\ UNCHANGED <<person, group, grefs, todo>>
     \/ /\ renames /\ to \notin DOMAIN person
        /\ person' = [d \in (DOMAIN person \ {ereq.dn}) \cup {to} |->
                       IF d = to THEN ereq.uid ELSE person[d]]
        /\ ereq' = [ereq EXCEPT !.dn = to]
        /\ estep' = "dns"
        /\ UNCHANGED <<group, grefs, todo, had, ecalls, efaults>>
     \/ renames /\ to \in DOMAIN person /\ EditBroken /\ UNCHANGED efaults
     \/ renames /\ Fails /\ EditBroken

\* rewriteAttrValue: every group that holds the old value, one Modify each.
\* The new value of a deletion is none.
rewriteAttrValue(groups, old, new, next) ==
  LET hit == {g \in groups : old \in group[g]}
      gone == ereq.op = "delete" IN
  \/ /\ hit = {} \/ (~gone /\ old = new)
     /\ Onward(next)
     /\ UNCHANGED <<person, group, grefs, todo>>
  \/ /\ gone \/ old # new
     /\ \E g \in hit :
          \/ /\ IF gone THEN CanDrop(g) ELSE CanAdd(g, new)
             /\ group' = [group EXCEPT ![g] =
                            (@ \ {old}) \cup (IF gone THEN {} ELSE {new})]
             /\ Onward(estep)
             /\ UNCHANGED <<person, grefs, todo>>
          \/ /\ ~(IF gone THEN CanDrop(g) ELSE CanAdd(g, new))
             /\ EditBroken /\ UNCHANGED efaults
          \/ Fails /\ EditBroken

rewriteMemberDN ==
  /\ estep = "dns"
  /\ rewriteAttrValue(DOMAIN group \ ByUid, ereq.old, ereq.dn, "uids")

\* Mutant of rewriteMemberUID: only a deletion looks at memberUid values.
rewriteMemberUIDNot ==
  /\ estep = "uids"
  /\ rewriteAttrValue(IF ereq.op = "delete" THEN DOMAIN group \cap ByUid ELSE {},
                      ereq.olduid,
                      IF ereq.op = "delete" THEN ereq.olduid ELSE ereq.uid,
                      IF ereq.op = "delete" THEN "del" ELSE "attrs")

rewriteMemberUID ==
  /\ estep = "uids"
  /\ rewriteAttrValue(DOMAIN group \cap ByUid, ereq.olduid,
                      IF ereq.op = "delete" THEN ereq.olduid ELSE ereq.uid,
                      IF ereq.op = "delete" THEN "del" ELSE "attrs")

\* applyAttrDiff and its Modify; the uid is the attribute that matters here.
SetAttrs ==
  /\ estep = "attrs"
  /\ \/ /\ person' = [person EXCEPT ![ereq.dn] = ereq.uid]
        /\ Onward("password")
        /\ UNCHANGED <<group, grefs, todo>>
     \/ Fails /\ EditBroken

PasswordModify ==
  /\ estep = "password"
  /\ \/ /\ Onward(IF ereq.want = Keep THEN "ok" ELSE "groups")
        /\ UNCHANGED <<person, group, grefs, todo>>
     \/ Fails /\ EditBroken

\* syncPersonGroups: the difference between the groups held and wanted.
syncPersonGroups ==
  /\ estep = "groups"
  /\ \/ /\ todo' = directGroups(ereq.dn, ereq.uid) \ ereq.want
        /\ Onward("leave")
        /\ UNCHANGED <<person, group, grefs>>
     \/ Fails /\ EditBroken

Leave ==
  /\ estep = "leave"
  /\ \/ /\ todo = {}
        /\ todo' = ereq.want \ directGroups(ereq.dn, ereq.uid)
        /\ Onward("join")
        /\ UNCHANGED <<person, group, grefs>>
     \/ \E g \in todo :
          \/ /\ CanDrop(g)
             /\ group' = [group EXCEPT ![g] = @ \ {ValueFor(g, ereq.dn, ereq.uid)}]
             /\ todo' = todo \ {g}
             /\ Onward("leave")
             /\ UNCHANGED <<person, grefs>>
          \/ ~CanDrop(g) /\ EditBroken /\ UNCHANGED efaults
          \/ Fails /\ EditBroken

\* A wanted group that is not in the directory cannot be read.
Join ==
  /\ estep = "join"
  /\ \/ /\ todo = {}
        /\ Onward("ok")
        /\ UNCHANGED <<person, group, grefs, todo>>
     \/ \E g \in todo :
          \/ /\ g \in DOMAIN group
             /\ group' = [group EXCEPT ![g] = @ \cup {ValueFor(g, ereq.dn, ereq.uid)}]
             /\ todo' = todo \ {g}
             /\ Onward("join")
             /\ UNCHANGED <<person, grefs>>
          \/ g \notin DOMAIN group /\ EditBroken /\ UNCHANGED efaults
          \/ Fails /\ EditBroken

Del ==
  /\ estep = "del"
  /\ \/ /\ person' = OnlyOf(person, DOMAIN person \ {ereq.dn})
        /\ Onward("ok")
        /\ UNCHANGED <<group, grefs, todo>>
     \/ Fails /\ EditBroken
-----------------------------------------------------------------------------
(* The operations of a group request. *)
AddGroup ==
  /\ estep = "addgroup"
  /\ \/ /\ ereq.dn \notin DOMAIN group
        /\ group' = [g \in DOMAIN group \cup {ereq.dn} |->
                      IF g = ereq.dn THEN ereq.members ELSE group[g]]
        /\ Onward("ok")
        /\ UNCHANGED <<person, grefs, todo>>
     \/ ereq.dn \in DOMAIN group /\ EditBroken /\ UNCHANGED efaults
     \/ Fails /\ EditBroken

\* UpdateGroup's ModifyDN.
RenameGroup ==
  /\ estep = "regroup"
  /\ \/ /\ ereq.to = ereq.dn
        /\ Onward("members")
        /\ UNCHANGED <<person, group, grefs, todo>>
     \/ /\ ereq.to # ereq.dn /\ ereq.to \notin DOMAIN group
        /\ group' = [g \in (DOMAIN group \ {ereq.dn}) \cup {ereq.to} |->
                      IF g = ereq.to THEN group[ereq.dn] ELSE group[g]]
        /\ Onward("members")
        /\ UNCHANGED <<person, grefs, todo>>
     \/ ereq.to # ereq.dn /\ ereq.to \in DOMAIN group /\ EditBroken /\ UNCHANGED efaults
     \/ ereq.to # ereq.dn /\ Fails /\ EditBroken

SetMembers ==
  /\ estep = "members"
  /\ \/ /\ group' = [group EXCEPT ![ereq.to] = ereq.members]
        /\ Onward(IF ereq.to = ereq.dn THEN "ok" ELSE "refs")
        /\ UNCHANGED <<person, grefs, todo>>
     \/ Fails /\ EditBroken

DelGroup ==
  /\ estep = "delgroup"
  /\ \/ /\ group' = OnlyOf(group, DOMAIN group \ {ereq.dn})
        /\ Onward("refs")
        /\ UNCHANGED <<person, grefs, todo>>
     \/ Fails /\ EditBroken

\* rewriteGroupDNReferences: Factum's rows follow the group or go with it.
rewriteGroupDNReferences ==
  /\ estep = "refs"
  /\ grefs' = (grefs \ {ereq.dn}) \cup
              (IF ereq.op = "group" /\ ereq.dn \in grefs THEN {ereq.to} ELSE {})
  /\ Onward("ok")
  /\ UNCHANGED <<person, group, todo>>

Answered ==
  /\ estep \in {"ok", "failed"}
  /\ estep' = "idle" /\ ereq' = NoEdit /\ todo' = {} /\ had' = {}
  /\ UNCHANGED <<person, group, grefs, ecalls, efaults>>
-----------------------------------------------------------------------------
EditInit ==
  /\ \E s \in EditStarts : person = s.person /\ group = s.group /\ grefs = s.refs
  /\ ereq = NoEdit /\ estep = "idle" /\ todo = {} /\ had = {}
  /\ ecalls = 0 /\ efaults = 0

EditNext ==
  \/ CreatePerson \/ UpdatePerson \/ DeletePerson
  \/ CreateGroup \/ UpdateGroup \/ DeleteGroup
  \/ Add \/ Undo \/ Rename \/ rewriteMemberDN \/ rewriteMemberUID \/ SetAttrs
  \/ PasswordModify \/ syncPersonGroups \/ Leave \/ Join \/ Del
  \/ AddGroup \/ RenameGroup \/ SetMembers \/ DelGroup \/ rewriteGroupDNReferences
  \/ Answered

EditSpec == EditInit /\ [][EditNext]_editvars
-----------------------------------------------------------------------------
\* Every person has a uid, and group values are DNs or uids as the group has it.
EditTypeOK ==
  /\ DOMAIN person \subseteq PersonDN
  /\ \A d \in DOMAIN person : person[d] \in Uid
  /\ \A g \in DOMAIN group :
       group[g] \subseteq (IF g \in ByUid THEN Uid ELSE PersonDN)

\* A call that is answered with success has left the memberships it promised:
\* an update that sends no groups carries the person's groups over to the new
\* DN and uid, one that sends groups leaves exactly those (UpdatePerson,
\* syncPersonGroups), and a deleted person is listed nowhere (DeletePerson).
\* An entry named by cn keeps its DN, so a change of its uid is not carried
\* into memberUid values; the statement leaves that case out.
MembershipAsAnswered ==
  estep = "ok" =>
    /\ ereq.op \in {"create", "update"} /\ ereq.want # Keep =>
         directGroups(ereq.dn, ereq.uid) = ereq.want
    /\ ereq.op = "update" /\ ereq.want = Keep
         /\ (ereq.dn[1] = "uid" \/ ereq.uid = ereq.olduid) =>
         had \subseteq directGroups(ereq.dn, ereq.uid)
    /\ ereq.op = "delete" => directGroups(ereq.old, ereq.olduid) = {}

\* Factum's mappings and policies name groups that exist once a group request
\* is answered with success (rewriteGroupDNReferences after the directory edit).
GroupRefsFollow ==
  (estep = "idle" /\ efaults = 0) => grefs \subseteq DOMAIN group
=============================================================================
