---------------------------- MODULE ConfigBundle -----------------------------
(* The configuration catalog (service definitions, variables, macros, CLI    *)
(* and parameter objects) and the bundles that carry a part of it from one   *)
(* installation to another.                                                  *)
(*                                                                           *)
(* A template (a CLI feature or a macro) is the macros it includes and the   *)
(* variables it reads; contexts, schemas, platforms of parameters and images *)
(* are left out, and all variables have one type.  A path is the sequence of *)
(* names from "global".  Requests are transactions and do not overlap.       *)
EXTENDS Naturals, FiniteSets, Sequences, FiniteSetsExt, SequencesExt

CONSTANTS
    Rank,           \* the alphabetical order of the names in paths
    CatBodies,      \* the bodies of requests, by kind of row
    CatStarts,      \* what the catalog may hold at first
    Others,         \* catalogs of other installations, whose exports are at hand
    MaxScope, MaxType, MaxCatCalls

VARIABLES cat, bundle, catCalls

catvars == <<cat, bundle, catCalls>>

NoFile == [types |-> {}, vars |-> {}, macros |-> {}, clis |-> {}, params |-> {}]

Put(f, n, row) == [x \in DOMAIN f \cup {n} |-> IF x = n THEN row ELSE f[x]]
Drop(f, S) == [x \in DOMAIN f \ S |-> f[x]]

(* A row of config_scopes; the last four are used by objects only. *)
Scope(parent, name, kind) ==
    [parent |-> parent, name |-> name, kind |-> kind, type |-> 0, plat |-> "",
     feats |-> << >>, vals |-> << >>]

(* An installation on which Seed has run and nothing was configured.  busy:  *)
(* connection types that services use; others: names of devices and services *)
(* that are not in the tree.                                                 *)
Empty == [vars |-> << >>, types |-> << >>, macros |-> << >>, busy |-> {}, others |-> {},
          scopes |-> <<Scope(0, "global", "folder"), Scope(1, "_catalog", "folder"), Scope(2, "cli", "folder")>>,
          next |-> 4, nextType |-> 1]

-----------------------------------------------------------------------------
(* The tree. *)

RECURSIVE path(_, _)
path(sc, i) == IF sc[i].parent = 0 THEN <<sc[i].name>> ELSE Append(path(sc, sc[i].parent), sc[i].name)

childrenNamed(sc, p, n) == {i \in DOMAIN sc : sc[i].parent = p /\ sc[i].name = n}

(* scopeMem.path refuses a name that a sibling shares, at every level. *)
RECURSIVE Exportable(_, _)
Exportable(sc, i) ==
    sc[i].parent # 0 =>
        Cardinality(childrenNamed(sc, sc[i].parent, sc[i].name)) = 1 /\ Exportable(sc, sc[i].parent)

Includes(feats) == UNION {feats[n].inc : n \in DOMAIN feats}
Reads(feats) == UNION {feats[n].reads : n \in DOMAIN feats}

OfKind(c, k) == {i \in DOMAIN c.scopes : c.scopes[i].kind = k}
TypeNamed(c, n) == {t \in DOMAIN c.types : c.types[t].name = n}

AddScope(c, row) == [c EXCEPT !.scopes = Put(@, c.next, row), !.next = @ + 1]

ensureChildFolder(c, p, n) ==
    IF childrenNamed(c.scopes, p, n) # {} THEN c ELSE AddScope(c, Scope(p, n, "folder"))

(* CatalogCLITypeFolder: global/_catalog/cli are seeded. *)
CatalogCLITypeFolder(c, n) == ensureChildFolder(c, 3, n)

serviceTypeFromCatalogPath(c, p) ==
    IF Len(p) >= 5 /\ p[2] = "_catalog" /\ p[3] = "cli" /\ TypeNamed(c, p[4]) # {} THEN p[4] ELSE ""

lookupCLIObjectByTypeID(c, t, plat) ==
    {i \in OfKind(c, "cli") : t # 0 /\ c.scopes[i].type = t /\ c.scopes[i].plat = plat}

-----------------------------------------------------------------------------
(* Export. *)

(* addTranslationCLIs: by service type, or by the catalog folder. *)
addTranslationCLIs(c, T, C) ==
    C \cup {i \in OfKind(c, "cli") :
               \/ c.scopes[i].type \in T
               \/ /\ Exportable(c.scopes, i)
                  /\ \E t \in T : c.types[t].name = serviceTypeFromCatalogPath(c, path(c.scopes, i))}

addTypesForCLIs(c, C, T) == T \cup ({c.scopes[i].type : i \in C} \cap DOMAIN c.types)

\* Mutant of addMacroClosure: macros included by macros are forgotten.
addMacroClosureOnce(c, pending) == pending \cap DOMAIN c.macros

RECURSIVE addMacroClosure(_, _)
addMacroClosure(c, pending) ==
    LET known == pending \cap DOMAIN c.macros
        more == known \cup UNION {c.macros[m].inc : m \in known}
    IN  IF more = pending \/ more = known THEN known ELSE addMacroClosure(c, more)

collectTemplateVars(c, C, M) ==
    UNION {Reads(c.scopes[i].feats) : i \in C} \cup UNION {c.macros[m].reads : m \in M}

addParametersForVars(c, names, S) ==
    S \cup {i \in OfKind(c, "parameter") : DOMAIN c.scopes[i].vals \cap names # {}}

(* What is exported: definitions, CLI objects, macros and parameter objects. *)
WithTranslations(c, x) == [x EXCEPT !.clis = addTranslationCLIs(c, x.types, @)]
WithTypes(c, x) == [x EXCEPT !.types = addTypesForCLIs(c, x.clis, @)]
WithMacros(c, x) ==
    [x EXCEPT !.macros = addMacroClosure(c, @ \cup UNION {Includes(c.scopes[i].feats) : i \in x.clis})]
WithParameters(c, x) == [x EXCEPT !.params = addParametersForVars(c, collectTemplateVars(c, x.clis, x.macros), @)]

Related(c, x) == WithParameters(c, WithMacros(c, WithTranslations(c, WithTypes(c, WithTranslations(c, x)))))

Ticked(c, sel) == [sel EXCEPT !.types = UNION {TypeNamed(c, n) : n \in @}]

Chosen(c, sel) == IF sel.related THEN Related(c, Ticked(c, sel)) ELSE Ticked(c, sel)

(* The variables that go with them. *)
CatNamed(c, x) ==
    ((IF x.related THEN collectTemplateVars(c, x.clis, x.macros) ELSE {})
       \cup UNION {DOMAIN c.scopes[i].vals : i \in x.params}) \cap DOMAIN c.vars

(* A selection the catalog can answer: every name is there, every path names *)
(* one object.                                                               *)
CanExport(c, sel) ==
    /\ sel.types # {} \/ sel.clis # {} \/ sel.macros # {} \/ sel.params # {}
    /\ \A n \in sel.types : TypeNamed(c, n) # {}
    /\ sel.macros \subseteq DOMAIN c.macros
    /\ sel.clis \subseteq OfKind(c, "cli") /\ sel.params \subseteq OfKind(c, "parameter")
    /\ LET x == Chosen(c, sel) IN \A i \in x.clis \cup x.params : Exportable(c.scopes, i)

Kept(c, v, value, sel) == IF c.vars[v].secret /\ ~sel.secrets THEN "" ELSE value

fillServiceDefinitions(c, T) == {[name |-> c.types[t].name, conns |-> c.types[t].conns] : t \in T}

fillMacros(c, M) == {[name |-> m, inc |-> c.macros[m].inc, reads |-> c.macros[m].reads] : m \in M}

fillCLIObjects(c, C) ==
    {LET s == c.scopes[i]
         p == path(c.scopes, i)
     IN  [path |-> p, plat |-> s.plat, feats |-> s.feats,
          type |-> IF s.type \in DOMAIN c.types THEN c.types[s.type].name ELSE serviceTypeFromCatalogPath(c, p)]
       : i \in C}

fillParameters(c, S, sel) ==
    {[path |-> path(c.scopes, i),
      vals |-> [v \in DOMAIN c.scopes[i].vals \cap DOMAIN c.vars |-> Kept(c, v, c.scopes[i].vals[v], sel)]] : i \in S}

fillVariables(c, V, sel) ==
    {[name |-> v, secret |-> c.vars[v].secret, required |-> c.vars[v].required,
      dflt |-> Kept(c, v, c.vars[v].dflt, sel)] : v \in V}

Filled(c, x) ==
    [types |-> fillServiceDefinitions(c, x.types), vars |-> fillVariables(c, CatNamed(c, x), x),
     macros |-> fillMacros(c, x.macros), clis |-> fillCLIObjects(c, x.clis), params |-> fillParameters(c, x.params, x)]

ExportBundle(c, sel) == Filled(c, Chosen(c, sel))

-----------------------------------------------------------------------------
(* Import: one transaction.  Each part takes and gives [ok, cat].            *)

Done(c) == [ok |-> TRUE, cat |-> c]
Refused == [ok |-> FALSE, cat |-> Empty]

rejectDuplicateBundleKeys(f) ==
    \E x, y \in f.clis : x # y /\ (x.path = y.path \/ (x.type # "" /\ x.type = y.type /\ x.plat = y.plat))

\* Mutant of importVariables: an omitted secret overwrites the stored one.
importVariablesClear(c, f) ==
    [c EXCEPT !.vars = [v \in DOMAIN c.vars \cup {r.name : r \in f.vars} |->
        IF \E r \in f.vars : r.name = v
        THEN LET r == CHOOSE r \in f.vars : r.name = v
             IN  [secret |-> r.secret, required |-> r.required, dflt |-> r.dflt]
        ELSE c.vars[v]]]

importVariables(c, f) ==
    [c EXCEPT !.vars = [v \in DOMAIN c.vars \cup {r.name : r \in f.vars} |->
        IF \E r \in f.vars : r.name = v
        THEN LET r == CHOOSE r \in f.vars : r.name = v
             IN  [secret |-> r.secret, required |-> r.required,
                  dflt |-> IF r.secret /\ r.dflt = "" /\ v \in DOMAIN c.vars THEN c.vars[v].dflt ELSE r.dflt]
        ELSE c.vars[v]]]

(* ReplaceConnectionTypes: one that a service uses cannot be left out. *)
ReplaceConnectionTypes(c, t, conns) ==
    IF (c.types[t].conns \ conns) \cap c.busy # {} THEN Refused
    ELSE Done([c EXCEPT !.types[t].conns = conns])

NewType(c, n) == [c EXCEPT !.types = Put(@, c.nextType, [name |-> n, conns |-> {}]), !.nextType = @ + 1]

Foldered(r, n) == IF r.ok THEN Done(CatalogCLITypeFolder(r.cat, n)) ELSE Refused

WithConnections(c, row) ==
    Foldered(ReplaceConnectionTypes(c, CHOOSE t \in TypeNamed(c, row.name) : TRUE, row.conns), row.name)

importServiceDefinition(c, row) ==
    WithConnections(IF TypeNamed(c, row.name) = {} THEN NewType(c, row.name) ELSE c, row)

importMacros(c, f) ==
    [c EXCEPT !.macros = [m \in DOMAIN c.macros \cup {r.name : r \in f.macros} |->
        IF \E r \in f.macros : r.name = m
        THEN LET r == CHOOSE r \in f.macros : r.name = m IN [inc |-> r.inc, reads |-> r.reads]
        ELSE c.macros[m]]]

(* createMissingFolder: not where a device or service is expected. *)
createMissingFolder(c, p, n) ==
    IF c.scopes[p].kind # "folder" \/ n \in c.others THEN Refused ELSE Done(AddScope(c, Scope(p, n, "folder")))

(* ensurePath: the catalog with the folders of a path, and the last one. *)
CatAt(r, p) == [ok |-> r.ok, cat |-> r.cat, at |-> p]

Child(c, p, n) ==
    LET hits == childrenNamed(c.scopes, p, n)
    IN  CASE Cardinality(hits) = 1 -> CatAt(Done(c), Min(hits))
          [] Cardinality(hits) > 1 -> CatAt(Refused, p)
          [] OTHER -> CatAt(createMissingFolder(c, p, n), c.next)

RECURSIVE ensurePath(_, _)
ensurePath(x, names) ==
    IF ~x.ok \/ names = << >> THEN x ELSE ensurePath(Child(x.cat, x.at, Head(names)), Tail(names))

ensureParent(c, p) == ensurePath(CatAt(Done(c), 1), Tail(Front(p)))

(* findCLIForImport: the object at the path and the one for the type and     *)
(* platform must be the same; {0} when they are not.                         *)
findCLIForImport(c, parent, name, t, plat) ==
    LET at == childrenNamed(c.scopes, parent, name)
        typed == lookupCLIObjectByTypeID(c, t, plat)
    IN  CASE at = {} /\ typed = {} -> {}
          [] at # {} /\ (c.scopes[Min(at)].kind # "cli" \/ (typed # {} /\ typed # {Min(at)})) -> {0}
          [] OTHER -> IF typed # {} THEN typed ELSE {Min(at)}

Stored(c, hit, row) ==
    CASE hit = {0} -> Refused
      [] hit = {} -> Done(AddScope(c, row))
      [] OTHER -> Done([c EXCEPT !.scopes[CHOOSE i \in hit : TRUE] = row])

PlaceCLI(up, row, t) ==
    IF ~up.ok \/ (t # 0 /\ row.plat = "") \/ up.cat.scopes[up.at].kind # "folder" THEN Refused
    ELSE Stored(up.cat, findCLIForImport(up.cat, up.at, Last(row.path), t, row.plat),
                [Scope(up.at, Last(row.path), "cli") EXCEPT !.type = t, !.plat = row.plat, !.feats = row.feats])

importCLIObject(c, row) ==
    IF row.type = "" THEN PlaceCLI(ensureParent(c, row.path), row, 0)
    ELSE IF TypeNamed(c, row.type) = {} THEN Refused
    ELSE PlaceCLI(ensureParent(c, row.path), row, Min(TypeNamed(c, row.type)))

(* replaceParameterAssignments: an omitted secret keeps what is stored. *)
Stays(c, old, vals, v) == c.vars[v].secret /\ vals[v] = ""

replaceParameterAssignments(c, i, vals) ==
    LET old == c.scopes[i].vals
        kept == {v \in DOMAIN vals : Stays(c, old, vals, v) => v \in DOMAIN old}
    IN  IF \/ ~(DOMAIN vals \subseteq DOMAIN c.vars)
           \/ \E v \in DOMAIN vals \ kept : c.vars[v].required
        THEN Refused
        ELSE Done([c EXCEPT !.scopes[i].vals =
                     [v \in kept |-> IF Stays(c, old, vals, v) THEN old[v] ELSE vals[v]]])

PlaceParameter(up, row) ==
    LET hits == childrenNamed(up.cat.scopes, up.at, Last(row.path))
    IN  CASE \/ ~up.ok \/ up.cat.scopes[up.at].kind # "folder"
             \/ \E i \in hits : up.cat.scopes[i].kind # "parameter" -> Refused
          [] hits = {} -> replaceParameterAssignments(
                            AddScope(up.cat, Scope(up.at, Last(row.path), "parameter")), up.cat.next, row.vals)
          [] OTHER -> replaceParameterAssignments(up.cat, Min(hits), row.vals)

importParameter(c, row) == PlaceParameter(ensureParent(c, row.path), row)

(* Rows of a file are in the order of their paths. *)
RECURSIVE PathLess(_, _)
PathLess(p, q) ==
    /\ q # << >>
    /\ \/ p = << >>
       \/ Rank[Head(p)] < Rank[Head(q)]
       \/ Head(p) = Head(q) /\ PathLess(Tail(p), Tail(q))

RECURSIVE InPathOrder(_)
InPathOrder(S) ==
    IF S = {} THEN << >>
    ELSE LET r == CHOOSE r \in S : \A x \in S : x = r \/ PathLess(r.path, x.path)
         IN  <<r>> \o InPathOrder(S \ {r})

importRow(c, section, row) ==
    CASE section = "types" -> importServiceDefinition(c, row)
      [] section = "clis" -> importCLIObject(c, row)
      [] section = "params" -> importParameter(c, row)

RECURSIVE importRows(_, _, _)
importRows(r, section, rows) ==
    IF ~r.ok \/ rows = << >> THEN r ELSE importRows(importRow(r.cat, section, Head(rows)), section, Tail(rows))

ImportBundle(c, f) ==
    IF f = NoFile \/ rejectDuplicateBundleKeys(f) THEN Refused
    ELSE importRows(importRows(importRows(Done(importMacros(importVariables(c, f), f)),
                                          "types", SetToSeq(f.types)),
                               "clis", InPathOrder(f.clis)),
                    "params", InPathOrder(f.params))

-----------------------------------------------------------------------------
(* Requests. *)

CatTypeOK ==
    /\ cat.next \in 4 .. MaxScope + 1 /\ cat.nextType \in 1 .. MaxType + 1
    /\ \A i \in DOMAIN cat.scopes : cat.scopes[i].parent \in {0} \cup DOMAIN cat.scopes
    /\ catCalls \in 0 .. MaxCatCalls

(* What an operator may tick: one object or everything. *)
Tick(t, i, m, p) == [types |-> t, clis |-> i, macros |-> m, params |-> p, related |-> TRUE, secrets |-> TRUE]

TypeNames(c) == {c.types[t].name : t \in DOMAIN c.types}

Everything(c) == Tick(TypeNames(c), OfKind(c, "cli"), DOMAIN c.macros, OfKind(c, "parameter"))

Ticks(c) ==
    LET picks == {Everything(c)} \cup {Tick({n}, {}, {}, {}) : n \in TypeNames(c)}
                 \cup {Tick({}, {i}, {}, {}) : i \in OfKind(c, "cli")} \cup {Tick({}, {}, {m}, {}) : m \in DOMAIN c.macros}
                 \cup {Tick({}, {}, {}, {p}) : p \in OfKind(c, "parameter")}
    IN  {[x EXCEPT !.related = rel, !.secrets = sec] : x \in picks, rel \in BOOLEAN, sec \in BOOLEAN}

CatInit ==
    /\ cat \in CatStarts /\ catCalls = 0
    /\ bundle \in {NoFile} \cup {ExportBundle(c, [Everything(c) EXCEPT !.secrets = sec]) : c \in Others, sec \in BOOLEAN}

Answer(c) ==
    /\ catCalls < MaxCatCalls /\ catCalls' = catCalls + 1
    /\ c.next <= MaxScope + 1 /\ c.nextType <= MaxType + 1
    /\ cat' = c /\ UNCHANGED bundle

AnswerIf(r) == r.ok /\ Answer(r.cat)

ApiConfigVariableCreate(b) ==
    /\ b.name \notin DOMAIN cat.vars
    /\ Answer([cat EXCEPT !.vars = Put(@, b.name, [secret |-> b.secret, required |-> b.required, dflt |-> b.dflt])])

(* A default that is not given stays when the variable is or was secret. *)
SaveVariable(b) ==
    /\ b.name \in DOMAIN cat.vars
    /\ Answer([cat EXCEPT !.vars[b.name] =
          [secret |-> b.secret, required |-> b.required,
           dflt |-> IF (@.secret \/ b.secret) /\ b.dflt = "" THEN @.dflt ELSE b.dflt]])

(* The assignments of the deleted id stay and mean nothing. *)
ApiConfigVariableDelete(v) ==
    Answer([cat EXCEPT !.vars = Drop(@, {v}),
                       !.scopes = [i \in DOMAIN cat.scopes |-> [cat.scopes[i] EXCEPT !.vals = Drop(cat.scopes[i].vals, {v})]]])

ApiConfigMacroSave(b) ==
    Answer([cat EXCEPT !.macros = Put(@, b.name, [inc |-> b.inc, reads |-> b.reads])])

ApiConfigMacroDelete(m) == Answer([cat EXCEPT !.macros = Drop(@, {m})])

ApiConfigServiceTypeCreate(b) ==
    /\ TypeNamed(cat, b.name) = {}
    /\ AnswerIf(importServiceDefinition(cat, b))

RenameCatalogCLITypeFolder(c, old, new) ==
    LET hits == childrenNamed(c.scopes, 3, old)
    IN  CASE old = new -> Done(c)
          [] old # new /\ hits = {} -> Done(CatalogCLITypeFolder(c, new))
          [] old # new /\ hits # {} /\ childrenNamed(c.scopes, 3, new) # {} -> Refused
          [] OTHER -> Done([c EXCEPT !.scopes[Min(hits)].name = new])

ApiConfigServiceTypeUpdate(t, b) ==
    /\ TypeNamed(cat, b.name) \subseteq {t}
    /\ LET moved == RenameCatalogCLITypeFolder(cat, cat.types[t].name, b.name)
           saved == ReplaceConnectionTypes([moved.cat EXCEPT !.types[t].name = b.name], t, b.conns)
       IN  moved.ok /\ saved.ok /\ Answer(CatalogCLITypeFolder(saved.cat, b.name))

deleteEmptyCatalogCLITypeFolder(sc, n) ==
    LET f == {i \in childrenNamed(sc, 3, n) : sc[i].kind = "folder"}
    IN  IF f # {} /\ \A i \in DOMAIN sc : sc[i].parent # Min(f) THEN Drop(sc, {Min(f)}) ELSE sc

DeleteTranslationCLIForType(c, t) ==
    [c EXCEPT !.scopes = deleteEmptyCatalogCLITypeFolder(
        Drop(c.scopes, {i \in OfKind(c, "cli") : c.scopes[i].type = t}), c.types[t].name)]

ApiConfigServiceTypeDelete(t) ==
    /\ cat.types[t].conns \cap cat.busy = {}
    /\ Answer([DeleteTranslationCLIForType(cat, t) EXCEPT !.types = Drop(@, {t})])

(* CreateScope for a CLI object: normalizeCLIScope, assertCLIUnique. *)
CreateCLI(b) ==
    /\ b.parent \in OfKind(cat, "folder") /\ b.type \in {0} \cup DOMAIN cat.types
    /\ b.type # 0 => b.plat # "" /\ lookupCLIObjectByTypeID(cat, b.type, b.plat) = {}
    /\ Answer(AddScope(cat, [Scope(b.parent, b.name, "cli") EXCEPT !.type = b.type, !.plat = b.plat]))

CreateParameter(b) ==
    /\ b.parent \in OfKind(cat, "folder")
    /\ Answer(AddScope(cat, Scope(b.parent, b.name, "parameter")))

ApiConfigFeatureCreate(i, b) ==
    /\ b.name \notin DOMAIN cat.scopes[i].feats
    /\ Answer([cat EXCEPT !.scopes[i].feats = Put(@, b.name, [inc |-> b.inc, reads |-> b.reads])])

ApiConfigFeatureUpdate(i, b) ==
    /\ b.name \in DOMAIN cat.scopes[i].feats
    /\ Answer([cat EXCEPT !.scopes[i].feats[b.name] = [inc |-> b.inc, reads |-> b.reads]])

ApiConfigFeatureDelete(i, n) == Answer([cat EXCEPT !.scopes[i].feats = Drop(@, {n})])

(* dualWriteScopeIDs: a value for a folder goes to its "parameters" child. *)
Target(c, i) ==
    LET own == {j \in childrenNamed(c.scopes, i, "parameters") : c.scopes[j].kind = "parameter"}
    IN  CASE c.scopes[i].kind = "parameter" -> [cat |-> c, at |-> i]
          [] c.scopes[i].kind # "parameter" /\ own # {} -> [cat |-> c, at |-> Min(own)]
          [] OTHER -> [cat |-> AddScope(c, Scope(i, "parameters", "parameter")), at |-> c.next]

SaveAssignment(i, v, value) ==
    /\ v \in DOMAIN cat.vars
    /\ LET x == Target(cat, i) IN Answer([x.cat EXCEPT !.scopes[x.at].vals = Put(@, v, value)])

RemoveAssignment(i, v) ==
    /\ v \in DOMAIN cat.scopes[i].vals
    /\ Answer([cat EXCEPT !.scopes[i].vals = Drop(@, {v})])

ApiConfigBundleExport(sel) ==
    /\ catCalls < MaxCatCalls /\ catCalls' = catCalls + 1
    /\ CanExport(cat, sel)
    /\ bundle' = ExportBundle(cat, sel) /\ UNCHANGED cat

ApiConfigBundleImport == bundle # NoFile /\ AnswerIf(ImportBundle(cat, bundle))

CatNext ==
    \/ \E b \in CatBodies.vars : ApiConfigVariableCreate(b) \/ SaveVariable(b)
    \/ \E v \in DOMAIN cat.vars : ApiConfigVariableDelete(v)
    \/ \E b \in CatBodies.macros : ApiConfigMacroSave(b)
    \/ \E m \in DOMAIN cat.macros : ApiConfigMacroDelete(m)
    \/ \E b \in CatBodies.types : ApiConfigServiceTypeCreate(b)
    \/ \E b \in CatBodies.types, t \in DOMAIN cat.types : ApiConfigServiceTypeUpdate(t, b)
    \/ \E t \in DOMAIN cat.types : ApiConfigServiceTypeDelete(t)
    \/ \E b \in CatBodies.clis : CreateCLI(b)
    \/ \E b \in CatBodies.params : CreateParameter(b)
    \/ \E i \in OfKind(cat, "cli"), b \in CatBodies.feats : ApiConfigFeatureCreate(i, b) \/ ApiConfigFeatureUpdate(i, b)
    \/ \E i \in OfKind(cat, "cli") : \E n \in DOMAIN cat.scopes[i].feats : ApiConfigFeatureDelete(i, n)
    \/ \E i \in OfKind(cat, "folder") \cup OfKind(cat, "parameter"), b \in CatBodies.vals : SaveAssignment(i, b.name, b.value)
    \/ \E i \in OfKind(cat, "parameter"), b \in CatBodies.vals : RemoveAssignment(i, b.name)
    \/ \E sel \in Ticks(cat) : ApiConfigBundleExport(sel)
    \/ ApiConfigBundleImport

CatSpec == CatInit /\ [][CatNext]_catvars

-----------------------------------------------------------------------------
(* Properties. *)

(* The service type an object stands for: its own or that of its folder. *)
TypeOf(c, i) ==
    IF c.scopes[i].type \in DOMAIN c.types THEN c.types[c.scopes[i].type].name
    ELSE serviceTypeFromCatalogPath(c, path(c.scopes, i))

(* What the catalog says, whatever its ids and empty folders. *)
Meaning(c) ==
    [vars |-> c.vars, macros |-> c.macros, types |-> {c.types[t] : t \in DOMAIN c.types},
     objects |-> {<<path(c.scopes, i), c.scopes[i].kind, TypeOf(c, i), c.scopes[i].plat, c.scopes[i].feats,
                    c.scopes[i].vals>> : i \in OfKind(c, "cli") \cup OfKind(c, "parameter")}]

(* Importing what the same installation just exported, whatever was ticked   *)
(* and with or without secrets, changes nothing: no secret is lost, no       *)
(* object is moved, doubled or detached from its definition.                 *)
OwnBundleKeeps ==
    \A sel \in Ticks(cat) : CanExport(cat, sel) =>
        LET r == ImportBundle(cat, ExportBundle(cat, sel)) IN r.ok => Meaning(r.cat) = Meaning(cat)

(* No untyped CLI object lies in the catalog folder of a definition. *)
NoStray == \A i \in OfKind(cat, "cli") :
    cat.scopes[i].type \notin DOMAIN cat.types => serviceTypeFromCatalogPath(cat, path(cat.scopes, i)) = ""

(* The macros that m pulls in, by way of others. *)
RECURSIVE Pulls(_, _)
Pulls(c, M) ==
    LET more == M \cup UNION {c.macros[m].inc : m \in M \cap DOMAIN c.macros}
    IN  IF more = M THEN M ELSE Pulls(c, more)

(* A file exported with its related objects and its secrets is taken by an   *)
(* empty installation, and there every exported template finds the macros it *)
(* pulls in and the variables all of them read, and these have the defaults  *)
(* and the values they had.                                                  *)
RelatedStandsAlone ==
    NoStray => \A sel \in Ticks(cat) : sel.related /\ sel.secrets /\ CanExport(cat, sel) =>
        LET f == ExportBundle(cat, sel)
            r == ImportBundle(Empty, f)
            uses == Pulls(cat, UNION {Includes(x.feats) : x \in f.clis} \cup {x.name : x \in f.macros})
                    \cap DOMAIN cat.macros
            reads == (UNION {Reads(x.feats) : x \in f.clis} \cup UNION {cat.macros[m].reads : m \in uses})
                     \cap DOMAIN cat.vars
        IN  /\ r.ok
            /\ uses \subseteq DOMAIN r.cat.macros /\ \A m \in uses : r.cat.macros[m] = cat.macros[m]
            /\ reads \subseteq DOMAIN r.cat.vars /\ \A v \in reads : r.cat.vars[v] = cat.vars[v]
            /\ \A i \in OfKind(cat, "parameter") : \A v \in reads \cap DOMAIN cat.scopes[i].vals :
                  \E j \in OfKind(r.cat, "parameter") :
                      /\ path(r.cat.scopes, j) = path(cat.scopes, i)
                      /\ v \in DOMAIN r.cat.scopes[j].vals /\ r.cat.scopes[j].vals[v] = cat.scopes[i].vals[v]

=============================================================================
