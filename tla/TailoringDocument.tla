-------------------------- MODULE TailoringDocument --------------------------
(***************************************************************************)
(* What a TailoredProfile asks for, which of it is acceptable              *)
(* (Variable.SetValue and the two get...FromSelections of its controller), *)
(* and the tailoring document made from it (pkg/xccdf/tailoring.go).       *)
(* Titles, descriptions, rationales and the XML around it all are left out.*)
(***************************************************************************)
EXTENDS Naturals, Sequences

CONSTANTS
    Profiles, Rules, Variables,  \* the names of the objects of each kind
    BundleOf,   \* BundleOf[o]: the ProfileBundle whose name the name o begins with
    IdOf,       \* IdOf[o]: the XCCDF id of the element that o was made from
    TypeOf,     \* TypeOf[v]: the type of the Variable v
    Offered,    \* Offered[v]: the values among its selections; {}: it has none
    Texts,      \* the values that users write; "" is the empty one
    Numerals,   \* the Texts that strconv.Atoi accepts
    Truths      \* the Texts that strconv.ParseBool accepts

Named == Profiles \cup Rules \cup Variables
Ids == {IdOf[o] : o \in Named}

\* The name of an object is made from its bundle's name and the id, so that the same
\* id may be found again in the objects of another bundle only.
ASSUME DocumentAssumption ==
    /\ \A o, q \in Named : BundleOf[o] = BundleOf[q] /\ IdOf[o] = IdOf[q] => o = q
    /\ "none" \notin Named \cup Ids
    /\ Rules \cap Variables = {} /\ Profiles \cap (Rules \cup Variables) = {}
    /\ TypeOf \in [Variables -> {"number", "bool", "string"}]
    /\ Offered \in [Variables -> SUBSET Texts]
    /\ Numerals \cup Truths \subseteq Texts \ {""}

\* extends: the Profile to extend, "none" if the field is empty.
TailoredSpec == [extends: Profiles \cup {"none"},
                 output: {"unset", "ConfigMap", "Policy"},
                 enable: Seq(Rules), disable: Seq(Rules),
                 set: Seq([var: Variables, value: Texts])]

TailoringDoc == [extends: Ids \cup {"none"},
                 select: Seq([idref: Ids, selected: BOOLEAN]),
                 values: Seq([idref: Ids, value: Texts])]

NoDocument == [extends |-> "none", select |-> <<>>, values |-> <<>>]

-----------------------------------------------------------------------------
(* Variable.SetValue *)

ValidType(v, text) ==
    \/ TypeOf[v] = "number" /\ text \in Numerals
    \/ TypeOf[v] = "bool" /\ text \in Truths
    \/ TypeOf[v] = "string" /\ text # ""

ValidValue(v, text) == Offered[v] # {} => text \in Offered[v]

\* (Typed: when the selections are not looked at.)
SettableTyped(v, text) == ValidType(v, text)
Settable(v, text) == ValidType(v, text) /\ ValidValue(v, text)

-----------------------------------------------------------------------------
(* The selections of a spec, in the order in which they are read *)

RulesOf(s) == s.enable \o s.disable
VariablesOf(s) == [i \in DOMAIN s.set |-> s.set[i].var]
Selections(s) == RulesOf(s) \o VariablesOf(s)

\* No rule before the i-th selection is the same rule.
FirstMention(s, i) == \A j \in 1..(i - 1) : RulesOf(s)[j] # RulesOf(s)[i]

\* The i-th selection is one the user may make, if its object exists.
Acceptable(s, i) ==
    IF i <= Len(RulesOf(s)) THEN FirstMention(s, i)
    ELSE LET set == s.set[i - Len(RulesOf(s))] IN Settable(set.var, set.value)

\* The rules to enable are selected, those to disable are not.  (AllOn: all are.)
SelectElementAllOn(s, i) == [idref |-> IdOf[RulesOf(s)[i]], selected |-> TRUE]
SelectElement(s, i) ==
    [idref |-> IdOf[RulesOf(s)[i]], selected |-> i <= Len(s.enable)]

Document(s) ==
    [extends |-> IdOf[s.extends],
     select  |-> [i \in DOMAIN RulesOf(s) |-> SelectElement(s, i)],
     values  |-> [i \in DOMAIN s.set |->
                    [idref |-> IdOf[s.set[i].var], value |-> s.set[i].value]]]
=============================================================================
