------------------------------ MODULE MCConfig ------------------------------
(***************************************************************************)
(* The configuration and planning parts for TLC, each on its own: the      *)
(* configuration tree, its variables and parameters, the catalog and its   *)
(* bundles, the realization of services, service records, optical paths,   *)
(* the address plan and maintenance windows.                               *)
(***************************************************************************)

EXTENDS ConfigTree, ConfigBundle, Services, Optical, AddressPlan, TLC

-----------------------------------------------------------------------------
\* Small trees with the variables stored in them.

CV_ParentOf == <<0, 1>>
CV_ScopeOfIface == [i |-> 2, k |-> 0]
CV_ScopeOfDevice == [i |-> 1, k |-> 0]
CV_PlatformOf == [i |-> "sros-md", k |-> "eos"]
CV_Def(sec, def) == [v |-> [default |-> def, secret |-> sec, required |-> FALSE, plats |-> {}]]
CV_Par(o, n, k) == [parent |-> o, name |-> n, order |-> k, enabled |-> TRUE, plats |-> {}]
CV_Starts ==
    {[defs |-> CV_Def(FALSE, "a"), params |-> <<>>,
      asg |-> <<"v", 1>> :> "a" @@ <<"v", 2>> :> "b"],
     [defs |-> CV_Def(TRUE, "-"), params |-> 3 :> CV_Par(1, 3, 0) @@ 4 :> CV_Par(1, 2, 0),
      asg |-> <<"v", 3>> :> "b"],
     [defs |-> CV_Def(FALSE, "-"), params |-> 3 :> CV_Par(2, 2, 0),
      asg |-> <<"v", 2>> :> "a"]}
CV_Params == {[name |-> 1, enabled |-> TRUE, plats |-> {"sros"}], [name |-> 2, enabled |-> FALSE, plats |-> {}]}
CV_Vars == {[val |-> "null", secret |-> TRUE, plats |-> {"sros-md"}], [val |-> "b", secret |-> FALSE, plats |-> {}]}

-----------------------------------------------------------------------------
(* A catalog with one definition whose CLI object includes a macro that      *)
(* includes a macro that reads a secret variable set on a parameter object.  *)

CB_Rank == [global |-> 1, _catalog |-> 2, cli |-> 3, line |-> 4, obj |-> 5, parameters |-> 6, site |-> 7, tree |-> 8]

CB_Text(i, r) == [inc |-> i, reads |-> r]
CB_Obj(p, n, t, f) == [Scope(p, n, "cli") EXCEPT !.type = t, !.plat = "eos", !.feats = [f1 |-> f]]

CB_Full ==
    [Empty EXCEPT
        !.vars = [key |-> [secret |-> TRUE, required |-> TRUE, dflt |-> ""], mtu |-> [secret |-> FALSE, required |-> FALSE, dflt |-> "a"]],
        !.types = <<[name |-> "line", conns |-> {"c"}]>>, !.nextType = 2, !.busy = {"c"}, !.others = {"tree"},
        !.macros = [m1 |-> CB_Text({"m2"}, {}), m2 |-> CB_Text({}, {"key"})],
        !.scopes = @ \o <<Scope(3, "line", "folder"), CB_Obj(4, "obj", 1, CB_Text({"m1"}, {"mtu"})), Scope(1, "site", "folder"),
                          [Scope(6, "parameters", "parameter") EXCEPT !.vals = [key |-> "a"]]>>,
        !.next = 8]

CB_Starts == {Empty,
              [CB_Full EXCEPT !.vars.key = [secret |-> TRUE, required |-> FALSE, dflt |-> "b"], !.macros.m2.inc = {"m1"}, !.busy = {}, !.others = {}]}

(* Another installation keeps the object elsewhere, for the same type, with  *)
(* a parameter object where this one has a folder.                           *)
CB_Others == {[CB_Full EXCEPT !.scopes[6].name = "tree", !.scopes[5].parent = 6, !.macros.m2.reads = {"mtu"}]}

CB_Bodies ==
    [vars |-> {[name |-> "key", secret |-> s, required |-> FALSE, dflt |-> IF s THEN "" ELSE "b"] : s \in BOOLEAN},
     macros |-> {[name |-> "m2", inc |-> {}, reads |-> {"mtu"}], [name |-> "m3", inc |-> {"m1", "gone"}, reads |-> {"mtu"}]},
     types |-> {[name |-> "line", conns |-> {}], [name |-> "tree", conns |-> {"c"}]},
     clis |-> {[parent |-> 4, name |-> "tree", type |-> t, plat |-> "sros"] : t \in {0, 1}}
              \cup {[parent |-> 1, name |-> "site", type |-> 0, plat |-> ""]},
     params |-> {[parent |-> 1, name |-> "parameters"], [parent |-> 6, name |-> "obj"]},
     feats |-> {[name |-> n, inc |-> {"m3"}, reads |-> {"key"}] : n \in {"f1", "f2"}},
     vals |-> {[name |-> "key", value |-> "b"], [name |-> "mtu", value |-> "a"]}]

-----------------------------------------------------------------------------
\* The endpoints of a service and what is live on its devices.

RZ_W(d, i, v) == [dev |-> d, ifc |-> i, vlan |-> v]
RZ_Bindings == {RZ_W(d, i, v) : d \in Dev, i \in Ifc, v \in {10, 20}}
RZ_Wants == {<<b>> : b \in RZ_Bindings} \cup {w \in RZ_Bindings \X RZ_Bindings : ~SameBinding(w[1], w[2])}
RZ_Cleanups == {[device |-> TRUE, netbox |-> TRUE]}

-----------------------------------------------------------------------------
\* Categories, numbers and requests for services.

SR_K(k, n, p) == [kind |-> k, num |-> n, prefix |-> p]
SR_Asks == {SR_K("create", 0, FALSE), SR_K("create", 0, TRUE), SR_K("create", 2, FALSE), SR_K("delete", 0, FALSE), SR_K("attach", 0, FALSE)}

-----------------------------------------------------------------------------


\* pe: 1 | txp: 2 client 3 line | r1: 4 add/drop 5 degree 6 degree 12 add/drop | ila: 7 8 9 | r2: 10 degree 11 add/drop
OP_OnDevice == <<"pe", "txp", "txp", "r1", "r1", "r1", "ila", "ila", "ila", "r2", "r2", "r1">>
OP_RoleOf == [d \in {"pe", "txp", "r1", "ila", "r2"} |-> IF d = "ila" THEN "amp" ELSE "node"]
OP_KindCF == [d \in {"pe", "txp", "r1", "ila", "r2"} |-> ""]
OP_Cab(n, i, j) == [id |-> n, a |-> i, b |-> j, local |-> FALSE]
OP_XC(n, k, i, j, f, src) == [id |-> n, kind |-> k, a |-> i, b |-> j, freq |-> f, source |-> src]
OP_P(r, f) == [role |-> r, freq |-> f]
OP_Ports == <<OP_P("",0), OP_P("txp_client",0), OP_P("txp_line",1), OP_P("roadm_adddrop",1), OP_P("roadm_degree",0),
              OP_P("roadm_degree",0), OP_P("",0), OP_P("",0), OP_P("",0), OP_P("roadm_degree",0), OP_P("roadm_adddrop",1), OP_P("roadm_adddrop",2)>>
OP_Map == [r \in {"amp", "node"} |-> IF r = "amp" THEN "ila" ELSE ""]
OP_NoMap == [r \in {"amp", "node"} |-> ""]
OP_KindMaps == {OP_Map, OP_NoMap}
OP_Starts == {
  [cables |-> {[OP_Cab(1,1,2) EXCEPT !.local = TRUE], OP_Cab(2,3,4), OP_Cab(3,5,7), OP_Cab(4,8,10)},
   xcs |-> {OP_XC(1,"tributary",2,3,0,""), OP_XC(2,"adddrop",12,5,2,"openroadm"), OP_XC(3,"adddrop",4,5,1,"openroadm"), OP_XC(4,"adddrop",11,10,1,""), OP_XC(5,"express",5,6,3,"")},
   ports |-> OP_Ports, kindMap |-> OP_Map,
   attached |-> [s \in OptService |-> IF s = "s1" THEN [NoPath EXCEPT !.a = 1, !.z = 11] ELSE NoPath]]}
OP_PortSaves == {[i |-> 12, role |-> "roadm_adddrop", freq |-> 3], [i |-> 4, role |-> "roadm_adddrop", freq |-> 2], [i |-> 11, role |-> "roadm_degree", freq |-> 0],
                 [i |-> 7, role |-> "fiber", freq |-> 0]}
OP_Xcs == {[kind |-> "express", a |-> 5, b |-> 6, freq |-> 1], [kind |-> "adddrop", a |-> 4, b |-> 6, freq |-> 1],
           [kind |-> "passthrough", a |-> 7, b |-> 9, freq |-> 0], [kind |-> "adddrop", a |-> 12, b |-> 5, freq |-> 3]}
OP_Cables == {{6, 9}, {5, 9}, {6, 10}, {1, 2}}
OP_Attaches == {[svc |-> "s1", a |-> 1, z |-> 10, mode |-> "wdm"], [svc |-> "s2", a |-> 6, z |-> 10, mode |-> "fiber"],
                [svc |-> "s2", a |-> 11, z |-> 2, mode |-> "wdm"], [svc |-> "s2", a |-> 9, z |-> 7, mode |-> "fiber"]}
OP_Inv == {[dev |-> "r1", kind |-> "roadm", ports |-> <<[i |-> 6, role |-> "roadm_degree", freq |-> 0], [i |-> 0, role |-> "fiber", freq |-> 0]>>,
            xcs |-> <<[kind |-> "adddrop", a |-> 6, b |-> 4, freq |-> 0], [kind |-> "express", a |-> 5, b |-> 6, freq |-> 2]>>],
           [dev |-> "r1", kind |-> "", ports |-> <<[i |-> 12, role |-> "roadm_degree", freq |-> 0], [i |-> 4, role |-> "roadm_adddrop", freq |-> 2]>>,
            xcs |-> <<[kind |-> "adddrop", a |-> 5, b |-> 4, freq |-> 0], [kind |-> "express", a |-> 12, b |-> 5, freq |-> 2], [kind |-> "passthrough", a |-> 5, b |-> 6, freq |-> 0]>>]}

-----------------------------------------------------------------------------
(***************************************************************************)
(* The address plan for TLC: started empty, and from every plan that       *)
(* checkAllocate can have built of up to two allocations in two VRFs,    *)
(* with an address in one of them.                                         *)
(***************************************************************************)

AP_Rows == {<<p, v>> : p \in Masked, v \in {PlanDefault, "red"}}
AP_Plans == {R \in {{x, y} : x \in AP_Rows, y \in AP_Rows} \cup {{}} :
              \A x, y \in R : x # y => x[1] # y[1] /\ (Overlaps(x[1], y[1]) => x[2] = y[2])}
\* A number for each row of a plan: its length and network.
AP_Id(p) == 2 ^ p[1] + p[2]
AP_Pfx(R) == {[id |-> AP_Id(x[1]), vrf |-> <<PlanRoot, x[2]>>, p |-> x[1], dhcp |-> {}] : x \in R}
AP_Addrs(R) == {{}} \cup {{[a |-> a, pid |-> AP_Id(x[1]), vrf |-> x[2]]} : a \in {1}, x \in {y \in R : 1 \in Within(y[1])}}
AP_Vrfs == {<<PlanRoot, PlanDefault>>, <<PlanRoot, "red">>, <<"n", PlanDefault>>}
AP_Pools(R) == {{}} \cup (IF R \in {{}, {<<<<1, 0>>, PlanDefault>>}} THEN {{<<PlanRoot, <<1, 0>>>>}, {<<PlanRoot, <<0, 0>>>>, <<PlanRoot, <<2, 1>>>>}} ELSE {})
AP_PlanStarts ==
    {[spaces |-> {}, vrfs |-> {}, pools |-> {}, pfx |-> {}, addrs |-> {}]}
      \cup UNION {{[spaces |-> {PlanRoot, "n"}, vrfs |-> AP_Vrfs, pools |-> q, pfx |-> AP_Pfx(R), addrs |-> A] :
              A \in AP_Addrs(R), q \in AP_Pools(R)} : R \in AP_Plans}

-----------------------------------------------------------------------------
\* Two windows, customers and their contacts.

MT_CustomerOf == [s1 |-> "k1", s2 |-> "k2"]
MT_Category == [s1 |-> "optical", s2 |-> ""]
MT_Starts == {[hops |-> [s1 |-> {"r1"}, s2 |-> {"r1"}], links |-> {<<"k1", "p1">>, <<"k2", "p1">>, <<"k1", "p2">>}]}

-----------------------------------------------------------------------------
VARIABLE
    sys     \* the component that runs in this behaviour; the variables of the others stay put

TreeOff ==
    /\ tree = 0 /\ nextNode = 0 /\ nbUp = 0 /\ req = 0 /\ unshared = 0 /\ asks = 0 /\ syncs = 0
    /\ edits = 0

ValuesOff ==
    /\ params = 0 /\ lastId = 0 /\ defs = 0 /\ asg = 0 /\ seed = 0 /\ seen = 0 /\ intended = 0
    /\ raced = 0 /\ strayed = 0 /\ unveiled = 0 /\ valueCalls = 0 /\ seeds = 0

BundleOff ==
    /\ cat = 0 /\ bundle = 0 /\ catCalls = 0

RealOff ==
    /\ eps = 0 /\ live = 0 /\ subs = 0 /\ terms = 0 /\ rowIds = 0 /\ nbIds = 0 /\ job = 0
    /\ reqs = 0 /\ errs = 0 /\ trees = 0

ServicesOff ==
    /\ rows = 0 /\ nodes = 0 /\ nextId = 0 /\ lock = 0 /\ ph = 0 /\ ask = 0 /\ snap = 0 /\ num = 0
    /\ free = 0 /\ alone = 0

OpticalOff ==
    /\ ocables = 0 /\ oxcs = 0 /\ oports = 0 /\ oifs = 0 /\ kindMap = 0 /\ okind = 0 /\ opaths = 0
    /\ oseq = 0 /\ silent = 0 /\ optCalls = 0

PlanOff ==
    /\ spaces = 0 /\ vrfs = 0 /\ pools = 0 /\ pfx = 0 /\ addrs = 0 /\ planCalls = 0

MaintOff ==
    /\ windows = 0 /\ hops = 0 /\ contacts = 0 /\ links = 0 /\ notes = 0 /\ nreq = 0 /\ told = 0
    /\ mails = 0 /\ overlapped = 0 /\ moved = 0 /\ maintCalls = 0 /\ mailFaults = 0

\* The tree with one request less, while regions move in NetBox.
Regions == INSTANCE ConfigTree WITH MaxAsks <- 1, MaxEdits <- 1

PackInit ==
    /\ sys \in {"tree", "regions", "values", "bundle", "real", "services", "optical", "plan", "maint"}
    /\ IF sys \in {"tree", "regions"} THEN TreeInit ELSE TreeOff
    /\ IF sys = "values" THEN ValueInit ELSE ValuesOff
    /\ IF sys = "bundle" THEN CatInit ELSE BundleOff
    /\ IF sys = "real" THEN RealInit ELSE RealOff
    /\ IF sys = "services" THEN SvcInit ELSE ServicesOff
    /\ IF sys = "optical" THEN OptInit ELSE OpticalOff
    /\ IF sys = "plan" THEN PlanInit ELSE PlanOff
    /\ IF sys = "maint" THEN MaintInit ELSE MaintOff

PackNext ==
    \/ sys = "tree" /\ TreeNext
       /\ UNCHANGED <<sys, valuevars, catvars, realvars, svcvars, optvars, planvars, maintvars>>
    \/ sys = "regions" /\ Regions!TreeNext
       /\ UNCHANGED <<sys, valuevars, catvars, realvars, svcvars, optvars, planvars, maintvars>>
    \/ sys = "values" /\ ValueNext
       /\ UNCHANGED <<sys, treevars, catvars, realvars, svcvars, optvars, planvars, maintvars>>
    \/ sys = "bundle" /\ CatNext
       /\ UNCHANGED <<sys, treevars, valuevars, realvars, svcvars, optvars, planvars, maintvars>>
    \/ sys = "real" /\ RealNext
       /\ UNCHANGED <<sys, treevars, valuevars, catvars, svcvars, optvars, planvars, maintvars>>
    \/ sys = "services" /\ SvcNext
       /\ UNCHANGED <<sys, treevars, valuevars, catvars, realvars, optvars, planvars, maintvars>>
    \/ sys = "optical" /\ OptNext
       /\ UNCHANGED <<sys, treevars, valuevars, catvars, realvars, svcvars, planvars, maintvars>>
    \/ sys = "plan" /\ PlanNext
       /\ UNCHANGED <<sys, treevars, valuevars, catvars, realvars, svcvars, optvars, maintvars>>
    \/ sys = "maint" /\ MaintNext
       /\ UNCHANGED <<sys, treevars, valuevars, catvars, realvars, svcvars, optvars, planvars>>

PackVars == <<sys, treevars, valuevars, catvars, realvars, svcvars, optvars, planvars, maintvars>>

PackSpec == PackInit /\ [][PackNext]_PackVars

-----------------------------------------------------------------------------
\* The tree: no request makes a cycle or hangs a node below nothing, and a sync that moves a
\* device's node keeps what was hung below it.
TreeStaysRooted ==
    /\ [][sys = "tree" => RequestsKeepRooted /\ DetachKeepsServices]_PackVars
    /\ [][sys = "regions" => Regions!RequestsKeepRooted /\ Regions!DetachKeepsServices]_PackVars

\* Variables, parameters and the catalog: a value goes only with its scope, the nearest one counts,
\* the placeholder of a secret is never stored; a bundle put back changes nothing, and the bundle
\* of one definition brings all it needs.
ConfigurationKept ==
    /\ sys = "values" => ValueTypeOK /\ ValuesKept /\ ResolvesAsWritten /\ PlaceholderNotStored
    /\ sys = "bundle" => CatTypeOK /\ OwnBundleKeeps /\ RelatedStandsAlone

\* Services: NetBox has exactly the objects of what is realized, an endpoint that moves keeps what
\* was applied to it, and serial numbers are not given twice.
RealizedExactly ==
    /\ [](sys = "real" => RealTypeOK /\ NetboxExact)
    /\ [](sys = "services" => SerialIsUnique)
    /\ [][sys = "real" => MoveKeepsSnapshot]_PackVars

\* Optical services: a path that counts as complete is the one the plant has now, the impact of a
\* resource names every service over it, and a degree carries a frequency once.
PathsCurrent == sys = "optical" => OptTypeOK /\ CompleteIsCurrent /\ ImpactIsWhole /\ DegreeFreqOnce

\* The address plan: an address belongs to one VRF, the tree shown is the containment of the
\* allocations, its pages add up to it, and an allocation with addresses stays.
PlanConsistent ==
    sys = "plan" => PlanTypeOK /\ OneVrfPerAddress /\ ForestIsExact /\ PagesAreExact /\ AddressesHeld

\* Maintenance windows: nobody gets one notice twice, and a notice names every service of the
\* customer that the window hits.
MaintenanceTold == sys = "maint" => MaintTypeOK /\ MailedOnce /\ ServicesTold
=============================================================================
