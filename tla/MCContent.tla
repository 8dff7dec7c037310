------------------------------ MODULE MCContent ------------------------------
(* Data streams for ContentParsing: some that vary the children of one element *)
(* and some that vary which elements there are.                                *)
EXTENDS ContentParsing, SequencesExt

\* Two ids may differ in case only.
MCNameOf == "P" :> "p" @@ "R_a" :> "r-a" @@ "r_a" :> "r-a" @@ "R_b" :> "r-b" @@ "V" :> "v"

\* Two controls, a reference that lists both, and the standard's name.
MCPieces ==
    "A" :> [sep \in {";", ","} |-> <<"A">>] @@
    "B" :> [sep \in {";", ","} |-> <<"B">>] @@
    "A;B" :> (";" :> <<"A", "B">> @@ "," :> <<"A;B">>) @@
    Standard :> [sep \in {";", ","} |-> <<Standard>>]

Selection(idref, on) == [idref |-> idref, selected |-> on]
Fix(system, platform, object) == [system |-> system, platform |-> platform, object |-> object]
Reference(href, text) == [href |-> href, text |-> text]
Val(selector, text) == [selector |-> selector, text |-> text]

P == [id |-> "P", titled |-> TRUE, select |-> <<Selection("R_a", TRUE)>>, setValue |-> <<"V">>]
R(id) == [id |-> id, titled |-> TRUE, fix |-> <<>>, reference |-> <<>>]
V == [id |-> "V", titled |-> TRUE, hidden |-> FALSE, type |-> "boolean", value |-> <<>>]

ManyProfiles ==
    [id: {"P"}, titled: {TRUE}, setValue: {<<>>, <<"", "V">>},
     select: BoundedSeq({Selection("R_a", TRUE), Selection("R_b", FALSE),
                         Selection("r_a", TRUE), Selection("", TRUE)}, 2)]
ManyFixes ==
    [id: {"R_a"}, titled: {TRUE}, reference: {<<>>},
     fix: BoundedSeq({Fix("ignition", "", "o1"), Fix("kubernetes", "ocp", "none"),
                      Fix("kubernetes", "ocp", "o2"), Fix("kubernetes", "ocp", "o3"),
                      Fix("ansible", "ocp", "o4")}, 3)]
ManyReferences ==
    [id: {"R_a"}, titled: {TRUE}, fix: {<<>>},
     reference: BoundedSeq({Reference("nist", "A"), Reference("nist", "B"),
                            Reference("nist", "A;B"), Reference("other", "A")}, 3)]
ManyValues ==
    [id: {"V"}, titled: {TRUE}, hidden: {FALSE}, type: {"none", "number", "boolean"},
     value: BoundedSeq({Val("none", ""), Val("none", "1"), Val("none", "2"),
                        Val("few", "1")}, 3)]

\* Which elements there are: good, without title or id, hidden, of one name.
Untitled(e) == [e EXCEPT !.titled = FALSE]
NoId(e) == [e EXCEPT !.id = ""]
SomeProfiles == {<<>>, <<P>>, <<P, Untitled(P)>>}
SomeRules == {<<>>, <<R("R_a")>>, <<R("r_a"), R("R_b"), R("R_a")>>, <<R("R_b"), NoId(R("")), R("R_a")>>}
SomeVariables == {<<>>, <<V>>, <<[NoId(V) EXCEPT !.hidden = TRUE], V>>, <<Untitled(V)>>}

MCDocs ==
    {<<<<p>>, rs, <<>>>> : p \in ManyProfiles, rs \in SomeRules}
      \cup {<<<<>>, <<r>>, <<>>>> : r \in ManyFixes \cup ManyReferences}
      \cup {<<<<>>, <<>>, <<v>>>> : v \in ManyValues}
      \cup (SomeProfiles \X SomeRules \X SomeVariables)
=============================================================================
