------------------------------ MODULE MCTailored ------------------------------
(* Small instances of TailoredLifecycle. *)
EXTENDS TailoredLifecycle, TLC

MCProfiles == {"p1", "p2"} \cap Objects
MCRules == ({"r1"} \cap Objects) \cup {"s1", "s2"}
MCVariables == {"v1"}

\* s1, s2 and v1 are Rules and a Variable of another bundle, s1 with the id of r1.
\* v1 is a number between one and two.  "true" is a truth, "1" is one as well.
MCIdOf == "p1" :> "P_1" @@ "p2" :> "P_2" @@ "r1" :> "R_1" @@ "v1" :> "V_1"
            @@ "s1" :> "R_1" @@ "s2" :> "R_2"
MCBundleOf == [o \in Objects |-> "b1"] @@ [o \in {"s1", "s2", "v1"} |-> "b2"]
MCTypeOf == [v \in MCVariables |-> "number"]
MCOffered == [v \in MCVariables |-> {"1", "2"}]
MCTexts == {"", "1", "2", "7", "true"}
MCNumerals == {"1", "2", "7"}
MCTruths == {"1", "true"}

\* Specs: one that leaves the output type to its default, one for a Policy, one
\* for another Profile, which disables a rule and enables the rule of that id of the
\* other bundle, one without a Profile, one with a rule both enabled and disabled,
\* one with a value that its variable does not offer.
Plain == [extends |-> "p1", output |-> "unset",
          enable |-> <<"r1">>, disable |-> <<>>, set |-> <<>>]
PolicyWanted == [Plain EXCEPT !.output = "Policy"]
Other == [Plain EXCEPT !.extends = "p2", !.enable = <<"s1">>, !.disable = <<"r1">>]
Orphan == [Plain EXCEPT !.extends = "none"]
Twice == [Plain EXCEPT !.output = "ConfigMap", !.enable = <<"s2">>, !.disable = <<"s2">>]
Setting(text) == [PolicyWanted EXCEPT !.set = <<[var |-> "v1", value |-> text]>>]

PlainOnly == {Plain}
PlainOrOrphan == {Plain, Orphan}
PolicyOnly == {PolicyWanted}
Outputs == {Other, Twice, Setting("2"), Setting("7")}

\* Which faults happen, once each.
Once(kinds) == [k \in FaultKinds |-> IF k \in kinds THEN 1 ELSE 0]
NoFaults == Once({})
ApiCrashEdit == Once({"api", "crash", "edit"})
LateAndRemove == Once({"late", "remove"})
=============================================================================
