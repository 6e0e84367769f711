----------------------------- MODULE MCPlanning -----------------------------
(* Two families of instances: one varies the references between the        *)
(* resources, the other the stage of each resource and its approvals.      *)
EXTENDS Planning

rule == 1  test == 2  policy == 3  oldRule == 4
basic == 11  product == 12  extra == 13  oldBasic == 14
shop == 21  desk == 22

MCTypeOf == (rule :> "rule") @@ (test :> "scenario") @@ (policy :> "policy")
            @@ (oldRule :> "rule")
MCIdOf == [n \in 1 .. 14 |-> CASE n = oldRule -> rule [] n = oldBasic -> basic [] OTHER -> n]
MCVersionOf == [n \in Packages \cup Artifacts |-> IF n \in {oldRule, oldBasic} THEN 1 ELSE 2]

Base ==
  [loaded |-> Names,
   owner |-> (rule :> basic) @@ (test :> product) @@ (policy :> extra) @@ (oldRule :> oldBasic),
   deps |-> {<<product, basic>>}, rels |-> {<<test, rule>>}, vals |-> {<<rule, test>>}, passed |-> {},
   uses |-> [x \in Apps |-> {product}],
   scenarios |-> [x \in Apps |-> {test}], runbooks |-> [x \in Apps |-> {}],
   life |-> [n \in Names |-> "approved"],
   public |-> Names,
   rules |-> [l \in Lifecycles |-> {}], evidenced |-> {},
   approvals |-> [n \in Names |-> {}],
   profile |-> "local"]

Structures ==
  {[Base EXCEPT !.deps = {<<product, basic>>} \cup d, !.rels = r, !.vals = v, !.owner[policy] = o,
                !.uses = (shop :> u) @@ (desk :> {product}),
                !.scenarios[shop] = s, !.loaded = Names \ m] :
     d \in SUBSET {<<extra, product>>, <<extra, basic>>, <<extra, oldBasic>>, <<product, extra>>},
     r \in SUBSET {<<test, rule>>, <<policy, test>>, <<policy, rule>>, <<test, policy>>},
     v \in SUBSET {<<rule, test>>},
     o \in {product, extra},
     u \in {{product}, {extra}, {oldBasic}, {extra, oldBasic}},
     s \in {{}, {test}},
     m \in {{}, {oldRule, oldBasic}}}

Stages ==
  {[Base EXCEPT !.rels = {<<test, policy>>}, !.deps = {<<product, basic>>, <<product, extra>>},
                !.vals = v \cup w, !.passed = v, !.rules["published"] = {policy}, !.evidenced = e,
                !.approvals = [n \in Names |-> IF n \in a THEN {policy} ELSE {}],
                !.profile = p,
                !.life = [n \in Names |->
                            CASE n \in DOMAIN f -> f[n]
                              [] n \in {Root, shop} -> l
                              [] OTHER -> "published"]] :
     v \in {{}, {<<rule, test>>, <<oldRule, test>>}}, w \in {{}, {<<rule, test>>}},
     e \in {{}, {"published"}}, a \in {{test, rule}, Names}, p \in {"local", "release"},
     l \in {"candidate", "published"},
     f \in [{rule, test, policy, basic} -> {"draft", "approved", "published", "deprecated"}]}

MCFamilies == {Structures, Stages}
MCWorkOrders == {<<>>, <<desk>>, <<shop, desk>>, <<desk, desk>>}
=============================================================================
