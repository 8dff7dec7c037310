----------------------- MODULE TailoredLifecycle_proofs -----------------------
(***************************************************************************)
(* Theorems about the life of a TailoredProfile, for all specs of the user,*)
(* all content, all numbers of incarnations and all budgets of faults, with*)
(* content caches that lag and without.                                    *)
(***************************************************************************)
EXTENDS TailoredLifecycle, TLAPS, SequenceTheorems

-----------------------------------------------------------------------------
(* What a spec selects and the document that is made from it.              *)

\* Sequences and their elements.
LEMMA SeqElements ==
    ASSUME NEW S, NEW q \in Seq(S)
    PROVE  /\ Len(q) \in Nat
           /\ DOMAIN q = 1..Len(q)
           /\ \A i \in 1..Len(q) : q[i] \in S
BY LenProperties, ElementOfSeq

LEMMA SeqOfFunction ==
    ASSUME NEW S, NEW n \in Nat, NEW f \in [1..n -> S]
    PROVE  f \in Seq(S) /\ Len(f) = n
OBVIOUS

LEMMA SeqWider ==
    ASSUME NEW S, NEW T, S \subseteq T, NEW q \in Seq(S)
    PROVE  q \in Seq(T)
<1>1. Len(q) \in Nat /\ q \in [1..Len(q) -> S]
  BY LenProperties
<1>2. q \in [1..Len(q) -> T]
  BY <1>1
<1> QED BY <1>1, <1>2, SeqOfFunction

LEMMA SeqJoined ==
    ASSUME NEW S, NEW q \in Seq(S), NEW r \in Seq(S)
    PROVE  /\ q \o r \in Seq(S)
           /\ Len(q \o r) = Len(q) + Len(r)
           /\ \A i \in 1..Len(q) : (q \o r)[i] = q[i]
           /\ \A i \in 1..Len(r) : (q \o r)[Len(q) + i] = r[i]
<1>1. Len(q) \in Nat /\ Len(r) \in Nat
  BY LenProperties
<1>2. /\ q \o r \in Seq(S)
      /\ Len(q \o r) = Len(q) + Len(r)
      /\ \A i \in 1..(Len(q) + Len(r)) :
           (q \o r)[i] = IF i <= Len(q) THEN q[i] ELSE r[i - Len(q)]
  BY ConcatProperties
<1> QED BY <1>1, <1>2

\* The ids of the objects are ids.
LEMMA IdType ==
    /\ \A p \in Profiles : IdOf[p] \in Ids
    /\ \A r \in Rules : IdOf[r] \in Ids
    /\ \A v \in Variables : IdOf[v] \in Ids
BY DEF Ids, Named

\* The parts of a spec.
LEMMA SpecSequences ==
    ASSUME NEW s \in TailoredSpec
    PROVE  /\ s.enable \in Seq(Rules) /\ s.disable \in Seq(Rules)
           /\ s.set \in Seq([var: Variables, value: Texts])
BY DEF TailoredSpec

LEMMA SpecDomains ==
    ASSUME NEW s \in TailoredSpec
    PROVE  /\ DOMAIN s.enable = 1..Len(s.enable)
           /\ DOMAIN s.disable = 1..Len(s.disable)
           /\ DOMAIN s.set = 1..Len(s.set)
BY SpecSequences, SeqElements

LEMMA SpecLengths ==
    ASSUME NEW s \in TailoredSpec
    PROVE  Len(s.enable) \in Nat /\ Len(s.disable) \in Nat /\ Len(s.set) \in Nat
BY SpecSequences, SeqElements

LEMMA SpecSettings ==
    ASSUME NEW s \in TailoredSpec, NEW i \in 1..Len(s.set)
    PROVE  s.set[i].var \in Variables /\ s.set[i].value \in Texts
<1>1. s.set[i] \in [var: Variables, value: Texts]
  BY SpecSequences, SeqElements
<1> QED BY <1>1

LEMMA SelectionsSequences ==
    ASSUME NEW s \in TailoredSpec
    PROVE  /\ RulesOf(s) \in Seq(Rules)
           /\ VariablesOf(s) \in Seq(Variables) /\ Len(VariablesOf(s)) = Len(s.set)
           /\ Selections(s) \in Seq(Rules \cup Variables)
           /\ Len(Selections(s)) = Len(RulesOf(s)) + Len(s.set)
<1>1. RulesOf(s) \in Seq(Rules)
  BY SpecSequences, SeqJoined DEF RulesOf
<1>2. VariablesOf(s) \in Seq(Variables) /\ Len(VariablesOf(s)) = Len(s.set)
  <2>1. VariablesOf(s) \in [1..Len(s.set) -> Variables]
    BY SpecDomains, SpecSettings DEF VariablesOf
  <2> QED BY <2>1, SpecLengths, SeqOfFunction
<1>3. /\ RulesOf(s) \in Seq(Rules \cup Variables)
      /\ VariablesOf(s) \in Seq(Rules \cup Variables)
  <2>1. Rules \subseteq Rules \cup Variables /\ Variables \subseteq Rules \cup Variables
    OBVIOUS
  <2> QED BY <1>1, <1>2, <2>1, SeqWider
<1>4. /\ Selections(s) \in Seq(Rules \cup Variables)
      /\ Len(Selections(s)) = Len(RulesOf(s)) + Len(VariablesOf(s))
  BY <1>3, SeqJoined DEF Selections
<1> QED BY <1>1, <1>2, <1>4

LEMMA SelectionsLengths ==
    ASSUME NEW s \in TailoredSpec
    PROVE  /\ Len(RulesOf(s)) \in Nat
           /\ Len(RulesOf(s)) = Len(s.enable) + Len(s.disable)
           /\ Len(Selections(s)) \in Nat
           /\ Len(Selections(s)) = Len(RulesOf(s)) + Len(s.set)
<1>1. Len(RulesOf(s)) = Len(s.enable) + Len(s.disable)
  BY SpecSequences, SeqJoined DEF RulesOf
<1>2. Len(RulesOf(s)) \in Nat /\ Len(Selections(s)) \in Nat
  BY SelectionsSequences, SeqElements
<1> QED BY <1>1, <1>2, SelectionsSequences

LEMMA SelectionsElements ==
    ASSUME NEW s \in TailoredSpec
    PROVE  /\ \A i \in 1..Len(s.enable) : RulesOf(s)[i] = s.enable[i]
           /\ \A i \in 1..Len(s.disable) :
                RulesOf(s)[Len(s.enable) + i] = s.disable[i]
           /\ \A i \in 1..Len(RulesOf(s)) : RulesOf(s)[i] \in Rules
           /\ \A i \in 1..Len(Selections(s)) :
                Selections(s)[i] \in Rules \cup Variables
<1>1. /\ \A i \in 1..Len(s.enable) : RulesOf(s)[i] = s.enable[i]
      /\ \A i \in 1..Len(s.disable) :
           RulesOf(s)[Len(s.enable) + i] = s.disable[i]
  <2> DEFINE on == s.enable
             off == s.disable
  <2>1. on \in Seq(Rules) /\ off \in Seq(Rules)
    BY SpecSequences
  <2>2. RulesOf(s) = on \o off
    BY DEF RulesOf
  <2> HIDE DEF on, off
  <2>3. /\ \A i \in 1..Len(on) : (on \o off)[i] = on[i]
        /\ \A i \in 1..Len(off) : (on \o off)[Len(on) + i] = off[i]
    BY <2>1, SeqJoined
  <2> QED BY <2>2, <2>3 DEF on, off
<1>2. \A i \in 1..Len(RulesOf(s)) : RulesOf(s)[i] \in Rules
  BY SelectionsSequences, SeqElements
<1>3. \A i \in 1..Len(Selections(s)) : Selections(s)[i] \in Rules \cup Variables
  BY SelectionsSequences, SeqElements
<1> QED BY <1>1, <1>2, <1>3

\* ... and the parts of the document.
LEMMA DocumentDomains ==
    ASSUME NEW s \in TailoredSpec
    PROVE  /\ Document(s).select =
                [i \in 1..Len(RulesOf(s)) |-> SelectElement(s, i)]
           /\ Document(s).values =
                [i \in 1..Len(s.set) |->
                   [idref |-> IdOf[s.set[i].var], value |-> s.set[i].value]]
           /\ DOMAIN Document(s).select = 1..Len(RulesOf(s))
           /\ DOMAIN Document(s).values = 1..Len(s.set)
<1>1. DOMAIN RulesOf(s) = 1..Len(RulesOf(s))
  BY SelectionsSequences, SeqElements
<1> QED BY <1>1, SpecDomains DEF Document

LEMMA DocumentParts ==
    ASSUME NEW s \in TailoredSpec
    PROVE  /\ Document(s).extends = IdOf[s.extends]
           /\ \A i \in 1..Len(RulesOf(s)) :
                /\ Document(s).select[i].idref = IdOf[RulesOf(s)[i]]
                /\ Document(s).select[i].selected = TRUE <=> i <= Len(s.enable)
                /\ Document(s).select[i].selected = FALSE <=> ~(i <= Len(s.enable))
           /\ \A i \in 1..Len(s.set) :
                Document(s).values[i] =
                  [idref |-> IdOf[s.set[i].var], value |-> s.set[i].value]
<1>1. \A i \in 1..Len(RulesOf(s)) : Document(s).select[i] = SelectElement(s, i)
  <2> DEFINE sel == Document(s).select
             n == Len(RulesOf(s))
  <2>1. sel = [i \in 1..n |-> SelectElement(s, i)]
    BY DocumentDomains
  <2> HIDE DEF sel, n
  <2>2. \A i \in 1..n : sel[i] = SelectElement(s, i)
    BY <2>1
  <2> QED BY <2>2 DEF sel, n
<1>2. ASSUME NEW i \in 1..Len(RulesOf(s))
      PROVE  /\ Document(s).select[i].idref = IdOf[RulesOf(s)[i]]
             /\ Document(s).select[i].selected = TRUE <=> i <= Len(s.enable)
             /\ Document(s).select[i].selected = FALSE <=> ~(i <= Len(s.enable))
  <2>1. Document(s).select[i] =
          [idref |-> IdOf[RulesOf(s)[i]], selected |-> i <= Len(s.enable)]
    BY <1>1 DEF SelectElement
  <2>2. /\ Document(s).select[i].idref = IdOf[RulesOf(s)[i]]
        /\ Document(s).select[i].selected = (i <= Len(s.enable))
    BY <2>1
  <2>3. CASE i <= Len(s.enable)
    <3>1. (i <= Len(s.enable)) = TRUE
      BY <2>3
    <3>2. Document(s).select[i].selected = TRUE
      BY <2>2, <3>1, Zenon
    <3> QED BY <2>2, <2>3, <3>2, Zenon
  <2>4. CASE ~(i <= Len(s.enable))
    <3>1. (i <= Len(s.enable)) = FALSE
      BY <2>4
    <3>2. Document(s).select[i].selected = FALSE
      BY <2>2, <3>1, Zenon
    <3> QED BY <2>2, <2>4, <3>2, Zenon
  <2> QED BY <2>3, <2>4
<1>3. \A i \in 1..Len(s.set) :
        Document(s).values[i] =
          [idref |-> IdOf[s.set[i].var], value |-> s.set[i].value]
  <2> DEFINE vals == Document(s).values
             n == Len(s.set)
             Value(i) == [idref |-> IdOf[s.set[i].var], value |-> s.set[i].value]
  <2>1. vals = [i \in 1..n |-> Value(i)]
    BY DocumentDomains
  <2> HIDE DEF vals, n, Value
  <2>2. \A i \in 1..n : vals[i] = Value(i)
    BY <2>1
  <2> QED BY <2>2 DEF vals, n, Value
<1>4. Document(s).extends = IdOf[s.extends]
  BY DEF Document
<1> QED BY <1>2, <1>3, <1>4

LEMMA DocumentType ==
    ASSUME NEW s \in TailoredSpec, s.extends \in Profiles
    PROVE  Document(s) \in TailoringDoc
<1> DEFINE Choices == [idref: Ids, selected: BOOLEAN]
           Settings == [idref: Ids, value: Texts]
<1>1. Document(s).select \in Seq(Choices)
  <2> DEFINE sel == Document(s).select
             n == Len(RulesOf(s))
  <2>1. n \in Nat
    BY SelectionsLengths
  <2>2. sel = [i \in 1..n |-> SelectElement(s, i)]
    BY DocumentDomains
  <2>3. ASSUME NEW i \in 1..n PROVE SelectElement(s, i) \in Choices
    <3> DEFINE on == i <= Len(s.enable)
    <3>1. IdOf[RulesOf(s)[i]] \in Ids
      BY SelectionsElements, IdType
    <3>2. on \in BOOLEAN
      BY SpecLengths, <2>1
    <3>3. SelectElement(s, i) = [idref |-> IdOf[RulesOf(s)[i]], selected |-> on]
      BY DEF SelectElement
    <3> HIDE DEF on, n
    <3> QED BY <3>1, <3>2, <3>3
  <2> HIDE DEF sel, n, Choices
  <2>4. sel \in [1..n -> Choices]
    BY <2>2, <2>3
  <2>5. sel \in Seq(Choices)
    BY <2>1, <2>4, SeqOfFunction
  <2> QED BY <2>5 DEF sel
<1>2. Document(s).values \in Seq(Settings)
  <2> DEFINE vals == Document(s).values
             n == Len(s.set)
             Value(i) == [idref |-> IdOf[s.set[i].var], value |-> s.set[i].value]
  <2>1. n \in Nat
    BY SpecLengths
  <2>2. vals = [i \in 1..n |-> Value(i)]
    BY DocumentDomains
  <2>3. ASSUME NEW i \in 1..n PROVE Value(i) \in Settings
    <3>1. s.set[i].var \in Variables /\ s.set[i].value \in Texts
      BY SpecSettings
    <3>2. IdOf[s.set[i].var] \in Ids
      BY <3>1, IdType
    <3> QED BY <3>1, <3>2
  <2> HIDE DEF vals, n, Value, Settings
  <2>4. vals \in [1..n -> Settings]
    BY <2>2, <2>3
  <2>5. vals \in Seq(Settings)
    BY <2>1, <2>4, SeqOfFunction
  <2> QED BY <2>5 DEF vals
<1>3. Document(s).extends \in Ids
  BY IdType, DocumentParts
<1>4. Document(s) = [extends |-> Document(s).extends,
                     select  |-> Document(s).select,
                     values  |-> Document(s).values]
  BY DEF Document
<1> QED BY <1>1, <1>2, <1>3, <1>4 DEF TailoringDoc

\* A document made of acceptable selections names no Rule twice: were one mentioned
\* twice, the second mention would not be acceptable.
LEMMA AcceptableRulesOnce ==
    ASSUME NEW s \in TailoredSpec,
           \A i \in 1..Len(Selections(s)) : Acceptable(s, i)
    PROVE  \E names \in [DOMAIN Document(s).select -> Rules] : SelectsOf(Document(s), names)
<1> DEFINE n == Len(RulesOf(s))
<1>1. n \in Nat /\ n <= Len(Selections(s)) /\ Len(Selections(s)) \in Nat
  <2>1. \A a, b \in Nat : a <= a + b
    OBVIOUS
  <2> QED BY <2>1, SpecLengths, SelectionsLengths
<1>2. \A i \in 1..n : RulesOf(s)[i] \in Rules
  BY SelectionsElements
<1>3. /\ DOMAIN Document(s).select = 1..n
      /\ \A i \in 1..n : Document(s).select[i].idref = IdOf[RulesOf(s)[i]]
  BY DocumentDomains, DocumentParts
<1>4. \A i \in 1..n : \A j \in 1..(i - 1) : RulesOf(s)[j] # RulesOf(s)[i]
  BY <1>1 DEF Acceptable, FirstMention
<1>5. ASSUME NEW i \in 1..n, NEW j \in 1..n, RulesOf(s)[i] = RulesOf(s)[j]
      PROVE  i = j
  <2>1. ~(i < j) /\ ~(j < i)
    BY <1>1, <1>4, <1>5
  <2> QED BY <1>1, <2>1
<1>6. RulesOf(s) \in [DOMAIN Document(s).select -> Rules]
  <2>1. RulesOf(s) \in [1..n -> Rules]
    BY SelectionsSequences, LenProperties
  <2> QED BY <1>3, <2>1
<1>7. SelectsOf(Document(s), RulesOf(s))
  BY <1>3, <1>5 DEF SelectsOf
<1> QED BY <1>6, <1>7

\* ... and sets no variable to a value that is not accepted.
LEMMA AcceptableValues ==
    ASSUME NEW s \in TailoredSpec,
           \A i \in 1..Len(Selections(s)) : Acceptable(s, i)
    PROVE  \A i \in DOMAIN Document(s).values : \E v \in Variables :
             /\ Document(s).values[i].idref = IdOf[v]
             /\ ValidType(v, Document(s).values[i].value)
             /\ ValidValue(v, Document(s).values[i].value)
<1> DEFINE n == Len(RulesOf(s))
<1>2. n \in Nat /\ Len(s.set) \in Nat /\ Len(Selections(s)) = n + Len(s.set)
  BY SpecLengths, SelectionsLengths
<1>3. ASSUME NEW i \in 1..Len(s.set)
      PROVE  Settable(s.set[i].var, s.set[i].value)
  <2>1. n + i \in 1..Len(Selections(s)) /\ ~(n + i <= n) /\ (n + i) - n = i
    BY <1>2
  <2>2. Acceptable(s, n + i)
    BY <2>1
  <2> QED BY <2>1, <2>2 DEF Acceptable
<1>4. DOMAIN Document(s).values = 1..Len(s.set)
  BY DocumentDomains
<1>5. ASSUME NEW i \in 1..Len(s.set)
      PROVE  /\ Document(s).values[i].idref = IdOf[s.set[i].var]
             /\ Document(s).values[i].value = s.set[i].value
             /\ s.set[i].var \in Variables
  <2>1. Document(s).values[i] = [idref |-> IdOf[s.set[i].var], value |-> s.set[i].value]
    BY DocumentParts
  <2> QED BY <2>1, SpecSettings
<1> QED BY <1>3, <1>4, <1>5 DEF Settable

\* Acceptable or not, a document says what the spec says that it is made from.
LEMMA DocumentSays ==
    ASSUME NEW s \in TailoredSpec
    PROVE  Says(Document(s), s)
<1> DEFINE d == Document(s)
           n == Len(RulesOf(s))
           on == Len(s.enable)
           off == Len(s.disable)
<1>1. on \in Nat /\ off \in Nat /\ n = on + off
  BY SpecLengths, SelectionsLengths
<1>2. /\ \A i \in 1..on : RulesOf(s)[i] = s.enable[i]
      /\ \A i \in 1..off : RulesOf(s)[on + i] = s.disable[i]
  BY SelectionsElements
<1>3. \A i \in 1..n : /\ d.select[i].idref = IdOf[RulesOf(s)[i]]
                      /\ d.select[i].selected = TRUE <=> i <= on
                      /\ d.select[i].selected = FALSE <=> ~(i <= on)
  BY DocumentParts
<1>4. DOMAIN s.enable = 1..on /\ DOMAIN s.disable = 1..off /\ DOMAIN d.select = 1..n
  BY SpecDomains, DocumentDomains
<1> HIDE DEF d, n, on, off
<1>5. ASSUME NEW id
      PROVE  id \in Switched(d, TRUE) <=> \E i \in 1..n : id = d.select[i].idref /\ i <= on
  BY <1>3, <1>4 DEF Switched
<1>6. ASSUME NEW id
      PROVE  id \in Switched(d, FALSE) <=>
               \E i \in 1..n : id = d.select[i].idref /\ ~(i <= on)
  BY <1>3, <1>4 DEF Switched
<1>7. ASSUME NEW id
      PROVE  /\ id \in IdsOf(s.enable) <=> \E i \in 1..on : id = IdOf[s.enable[i]]
             /\ id \in IdsOf(s.disable) <=> \E i \in 1..off : id = IdOf[s.disable[i]]
  BY <1>4 DEF IdsOf
<1>8. Switched(d, TRUE) = IdsOf(s.enable)
  <2>1. \A i : i \in 1..on <=> i \in 1..n /\ i <= on
    BY <1>1
  <2>2. \A i \in 1..on : d.select[i].idref = IdOf[s.enable[i]]
    BY <1>2, <1>3, <2>1
  <2>3. ASSUME NEW id
        PROVE  (\E i \in 1..n : id = d.select[i].idref /\ i <= on)
                 <=> (\E i \in 1..on : id = IdOf[s.enable[i]])
    BY <2>1, <2>2
  <2>4. ASSUME NEW id \in Switched(d, TRUE) PROVE id \in IdsOf(s.enable)
    <3>1. \E i \in 1..n : id = d.select[i].idref /\ i <= on
      BY <1>5, <2>4
    <3>2. \E i \in 1..on : id = IdOf[s.enable[i]]
      BY <2>3, <3>1
    <3> QED BY <1>7, <3>2
  <2>5. ASSUME NEW id \in IdsOf(s.enable) PROVE id \in Switched(d, TRUE)
    BY <1>5, <1>7, <2>3, <2>5
  <2> QED BY <2>4, <2>5
<1>9. Switched(d, FALSE) = IdsOf(s.disable)
  <2>1. ASSUME NEW i \in 1..n, ~(i <= on)
        PROVE  i - on \in 1..off /\ on + (i - on) = i
    BY <1>1, <2>1
  <2>2. ASSUME NEW i \in 1..off PROVE on + i \in 1..n /\ ~(on + i <= on)
    BY <1>1
  <2>3. ASSUME NEW id \in Switched(d, FALSE) PROVE id \in IdsOf(s.disable)
    <3>0. PICK i \in 1..n : id = d.select[i].idref /\ ~(i <= on)
      BY <1>6, <2>3
    <3>1. id = IdOf[RulesOf(s)[i]] /\ ~(i <= on)
      BY <1>3, <3>0
    <3>2. RulesOf(s)[on + (i - on)] = s.disable[i - on]
      BY <1>2, <2>1, <3>1
    <3>3. id = IdOf[s.disable[i - on]] /\ i - on \in 1..off
      BY <2>1, <3>1, <3>2
    <3> QED BY <1>7, <3>3
  <2>4. ASSUME NEW id \in IdsOf(s.disable) PROVE id \in Switched(d, FALSE)
    <3>1. PICK i \in 1..off : id = IdOf[s.disable[i]]
      BY <1>7, <2>4
    <3>2. id = d.select[on + i].idref /\ on + i \in 1..n /\ ~(on + i <= on)
      BY <1>2, <1>3, <2>2, <3>1
    <3> QED BY <1>6, <3>2
  <2> QED BY <2>3, <2>4
<1>10. \A i \in DOMAIN s.set : \E j \in DOMAIN d.values :
         d.values[j] = [idref |-> IdOf[s.set[i].var], value |-> s.set[i].value]
  <2> DEFINE Value(i) == [idref |-> IdOf[s.set[i].var], value |-> s.set[i].value]
  <2>1. DOMAIN s.set = 1..Len(s.set)
    BY SpecDomains
  <2>2. DOMAIN d.values = 1..Len(s.set)
    BY DocumentDomains DEF d
  <2>3. \A i \in 1..Len(s.set) : d.values[i] = Value(i)
    BY DocumentParts DEF d
  <2> HIDE DEF Value
  <2>4. \A i \in DOMAIN s.set : \E j \in DOMAIN d.values : d.values[j] = Value(i)
    BY <2>1, <2>2, <2>3
  <2> QED BY <2>4 DEF Value
<1> QED BY <1>8, <1>9, <1>10, DocumentParts DEF Says, d

-----------------------------------------------------------------------------
(* Type correctness, one lemma per actor. *)

\* The values of an absent object are of the object's type.
LEMMA AbsentType ==
    /\ NoTailored \in Tailored /\ NoTailored.uid = 0
    /\ NoOutput \in Output /\ NoOutput.of = 0
<1>1. AnySpec \in TailoredSpec
  BY TailoredAssumption DEF AnySpec
<1>2. 0 \in 0..MaxTp /\ 0 \in 0..MaxUid
  BY TailoredAssumption
<1>3. NoTailored \in Tailored /\ NoTailored.uid = 0
  BY <1>1, <1>2 DEF NoTailored, New, NoOwners, Tailored
<1>4. NoDocument \in TailoringDoc
  BY EmptySeq DEF NoDocument, TailoringDoc
<1> QED BY <1>2, <1>3, <1>4 DEF NoOutput, Output

\* The copies and the faults by name.
LEMMA Names ==
    /\ {"tpCache", "instance", "cmCache"} \subseteq Copies
    /\ TpCopies \subseteq Copies
BY DEF Copies, TpCopies

LEMMA FaultNames == {"api", "crash", "late", "edit", "remove"} \subseteq FaultKinds
BY DEF FaultKinds

\* A fault uses up a part of its budget.
LEMMA SpendType ==
    ASSUME left \in [FaultKinds -> Nat], NEW k \in FaultKinds, Spend(k)
    PROVE  left' \in [FaultKinds -> Nat]
BY DEF Spend

LEMMA AnsweredType ==
    ASSUME left \in [FaultKinds -> Nat], NEW lost \in BOOLEAN, Answered(lost)
    PROVE  left' \in [FaultKinds -> Nat]
BY SpendType, FaultNames DEF Answered

\* What is written of a TailoredProfile is one.
LEMMA WrittenType ==
    ASSUME NEW t \in Tailored
    PROVE  /\ [t EXCEPT !.spec = Defaulted(t.spec)] \in Tailored
           /\ Ready(t) \in Tailored
           /\ Failed(t) \in Tailored
<1>1. t.spec \in TailoredSpec
  BY DEF Tailored
<1>2. Defaulted(t.spec) \in TailoredSpec
  BY <1>1 DEF Defaulted, TailoredSpec
<1> QED BY <1>2 DEF Tailored, Ready, Failed

\* What a cache holds of an object or of the bundle is an incarnation of it.
LEMMA SeenType ==
    ASSUME StoreTypeOK, NEW now \in 0..MaxUid
    PROVE  Seen(now) \subseteq 0..MaxUid
BY TailoredAssumption DEF Seen, StoreTypeOK

\* The content comes and goes, and keeps its types.
LEMMA StoreKeepsTypeOK ==
    ASSUME StoreTypeOK,
           \/ CreateBundle \/ DeleteBundle
           \/ \E o \in Objects : (\E uid \in 1..born : Appear(o, uid)) \/ Vanish(o)
    PROVE  StoreTypeOK'
<1> USE TailoredAssumption DEF StoreTypeOK
<1>1. CASE CreateBundle
  BY <1>1 DEF CreateBundle
<1>2. CASE DeleteBundle
  BY <1>2 DEF DeleteBundle
<1>3. ASSUME NEW o \in Objects, NEW uid \in 1..born, Appear(o, uid)
      PROVE  StoreTypeOK'
  <2>1. uid \in 0..MaxUid
    OBVIOUS
  <2> QED BY <1>3, <2>1 DEF Appear
<1>4. ASSUME NEW o \in Objects, Vanish(o)
      PROVE  StoreTypeOK'
  BY <1>4 DEF Vanish
<1> QED BY <1>1, <1>2, <1>3, <1>4

LEMMA ContentTypeOK ==
    ASSUME TypeOK, Content \/ \E o \in Objects : CollectContent(o),
           UNCHANGED controller
    PROVE  TypeOK'
<1> USE DEF TypeOK, ClusterTypeOK
<1>1. StoreTypeOK'
  BY StoreKeepsTypeOK DEF Content, CollectContent
<1>2. left' \in [FaultKinds -> Nat]
  BY SpendType, FaultNames DEF Content, CollectContent
<1>3. UNCHANGED <<tp, cm, policy, tpCache, cmCache, fresh, queued, tpBorn>>
  BY DEF Content, CollectContent
<1>4. ControllerTypeOK'
  BY DEF controller, ControllerTypeOK
<1> QED BY <1>1, <1>2, <1>3, <1>4

\* The owners that live are kept, and there is one.
LEMMA DropEffect ==
    ASSUME ClusterTypeOK, DropOwners
    PROVE  /\ tp' \in Tailored
           /\ tp'.uid = tp.uid /\ tp'.spec = tp.spec /\ tp'.state = tp.state
           /\ tp'.ref = tp.ref /\ tp'.owners = LiveOwners(tp)
           /\ \E p \in Profiles : tp'.owners[p] # 0
<1>1. tp \in Tailored /\ tp' = [tp EXCEPT !.owners = LiveOwners(tp)]
  BY DEF ClusterTypeOK, DropOwners, WriteTailored
<1>2. LiveOwners(tp) \in [Profiles -> 0..MaxUid]
  <2>1. 0 \in 0..MaxUid
    BY TailoredAssumption
  <2> QED BY <1>1, <2>1 DEF LiveOwners, Tailored
<1>3. PICK p \in Profiles : tp.owners[p] # 0 /\ tp.owners[p] = objs[p]
  BY DEF DropOwners, OwnerLives
<1>4. LiveOwners(tp)[p] # 0
  BY <1>3 DEF LiveOwners
<1> HIDE DEF LiveOwners
<1>5. /\ tp' \in Tailored
      /\ tp'.uid = tp.uid /\ tp'.spec = tp.spec /\ tp'.state = tp.state
      /\ tp'.ref = tp.ref /\ tp'.owners = LiveOwners(tp)
  BY <1>1, <1>2 DEF Tailored
<1> QED BY <1>4, <1>5

\* The user, the informers and the collector of what was tailored.
LEMMA EnvironmentTypeOK ==
    ASSUME TypeOK, User \/ Informers \/ CollectTailored \/ DropOwners \/ CollectConfigMap,
           UNCHANGED controller
    PROVE  TypeOK'
<1> USE TailoredAssumption, AbsentType, Names
        DEF TypeOK, ClusterTypeOK, WriteTailored, WriteConfigMap
<1>1. ControllerTypeOK'
  BY DEF controller, ControllerTypeOK
<1>2. ASSUME UNCHANGED store PROVE StoreTypeOK'
  BY <1>2 DEF store, StoreTypeOK
<1>3. ASSUME NEW s \in Specs, CreateTailored(s)
      PROVE  TypeOK'
  <2>1. tpBorn + 1 \in 0..MaxTp
    BY <1>3 DEF CreateTailored
  <2>2. New(tpBorn + 1, s) \in Tailored
    BY <2>1 DEF New, NoOwners, Tailored
  <2> QED BY <1>1, <1>2, <1>3, <2>1, <2>2 DEF CreateTailored
<1>4. ASSUME NEW s \in Specs, EditTailored(s)
      PROVE  TypeOK'
  <2>1. [tp EXCEPT !.spec = s] \in Tailored
    BY DEF Tailored
  <2>2. left' \in [FaultKinds -> Nat]
    BY <1>4, SpendType, FaultNames DEF EditTailored
  <2> QED BY <1>1, <1>2, <1>4, <2>1, <2>2 DEF EditTailored
<1>5. CASE DeleteTailored \/ CollectTailored
  BY <1>1, <1>2, <1>5 DEF DeleteTailored, CollectTailored
<1>6. CASE RemoveOutput
  <2>1. left' \in [FaultKinds -> Nat]
    BY <1>6, SpendType, FaultNames DEF RemoveOutput
  <2> QED BY <1>1, <1>2, <1>6, <2>1 DEF RemoveOutput
<1>7. CASE CollectConfigMap
  BY <1>1, <1>2, <1>7 DEF CollectConfigMap
<1>8. CASE SyncTailored
  BY <1>1, <1>2, <1>8 DEF SyncTailored
<1>9. CASE SyncConfigMap
  BY <1>1, <1>2, <1>9 DEF SyncConfigMap
<1>10. CASE Resync
  BY <1>1, <1>2, <1>10 DEF Resync
<1>11. CASE DropOwners
  <2>1. tp' \in Tailored
    BY <1>11, DropEffect
  <2> QED BY <1>1, <1>2, <1>11, <2>1 DEF DropOwners
<1> QED BY <1>3, <1>4, <1>5, <1>6, <1>7, <1>8, <1>9, <1>10, <1>11
        DEF User, Informers

\* Reconcile is at the start, in the middle or at the end of the selections.
LEMMA SelectionPlace ==
    ASSUME NEW t \in Tailored
    PROVE  /\ t.spec \in TailoredSpec
           /\ Len(Selections(t.spec)) \in Nat
           /\ 1 \in 1..(Len(Selections(t.spec)) + 1)
<1>1. t.spec \in TailoredSpec
  BY DEF Tailored
<1>2. Len(Selections(t.spec)) \in Nat
  BY <1>1, SelectionsLengths
<1>3. \A n \in Nat : 1 \in 1..(n + 1)
  OBVIOUS
<1> QED BY <1>1, <1>2, <1>3

LEMMA ReturnType ==
    ASSUME queued \in BOOLEAN, NEW requeue \in BOOLEAN, Return(requeue)
    PROVE  ControllerTypeOK' /\ queued' \in BOOLEAN
<1>1. 1 \in 1..(Len(Selections(NoTailored.spec)) + 1)
  BY AbsentType, SelectionPlace
<1>2. 0 \in 0..MaxUid
  BY TailoredAssumption
<1> QED BY <1>1, <1>2, AbsentType DEF Return, ControllerTypeOK, ProfileCalls

\* Where a copy of the TailoredProfile is written, it is of its type.
LEMMA WriteType ==
    ASSUME ClusterTypeOK, NEW new \in Tailored, NEW released \in SUBSET Copies,
           WriteTailored(new, released)
    PROVE  tp' \in Tailored /\ fresh' \in SUBSET Copies
BY DEF ClusterTypeOK, WriteTailored

\* The controller keeps the types.
LEMMA ControllerKeepsTypeOK ==
    ASSUME TypeOK, ControllerNext
    PROVE  TypeOK'
<1> USE TailoredAssumption, AbsentType, Names DEF TypeOK
<1>1. ASSUME UNCHANGED store PROVE StoreTypeOK'
  BY <1>1 DEF store, StoreTypeOK, ClusterTypeOK
<1>2. ASSUME NEW lost, Answered(lost), lost \in BOOLEAN
      PROVE  left' \in [FaultKinds -> Nat]
  BY <1>2, AnsweredType DEF ClusterTypeOK
<1>3. ASSUME NEW k \in FaultKinds, Spend(k) PROVE left' \in [FaultKinds -> Nat]
  BY <1>3, SpendType DEF ClusterTypeOK
<1>4. ASSUME UNCHANGED cluster PROVE ClusterTypeOK'
  BY <1>4, <1>1 DEF cluster, ClusterTypeOK
<1>5. CASE GetTailored
  <2>1. ClusterTypeOK'
    BY <1>1, <1>5 DEF GetTailored, ClusterTypeOK
  <2>2. tpCache.spec.extends \in Profiles \cup {"none"}
    BY DEF ClusterTypeOK, Tailored, TailoredSpec
  <2>3. ControllerTypeOK'
    <3>1. tpCache \in Tailored /\ 0 \in 0..MaxUid
      BY DEF ClusterTypeOK
    <3>2. 1 \in 1..(Len(Selections(tpCache.spec)) + 1)
      BY <3>1, SelectionPlace
    <3> QED BY <1>5, <2>2, <3>1, <3>2
            DEF GetTailored, Validated, ControllerTypeOK, Calls, ProfileCalls
  <2> QED BY <2>1, <2>3
<1>6. ASSUME NEW lost \in BOOLEAN, SetOutputType(lost)
      PROVE  TypeOK'
  <2>1. [instance EXCEPT !.spec = Defaulted(instance.spec)] \in Tailored
    BY WrittenType DEF ControllerTypeOK
  <2>2. tp' \in Tailored /\ fresh' \in SUBSET Copies
    BY <1>6, <2>1, WriteType DEF SetOutputType
  <2> QED BY <1>1, <1>2, <1>6, <2>2, ReturnType DEF SetOutputType, ClusterTypeOK
<1>7. CASE GetProfile
  <2>1. instance.spec.extends \in Profiles
    BY <1>7 DEF GetProfile, ControllerTypeOK
  <2>2. objs[instance.spec.extends] \in 0..MaxUid
    BY <2>1 DEF ClusterTypeOK, StoreTypeOK, Named
  <2>3. base' \in 0..MaxUid
    BY <1>7, <2>2, SeenType DEF GetProfile, ClusterTypeOK
  <2>4. ControllerTypeOK'
    BY <1>7, <2>3 DEF GetProfile, ControllerTypeOK, Calls, ProfileCalls
  <2> QED BY <1>4, <1>7, <2>4 DEF GetProfile
<1>8. ASSUME NEW lost \in BOOLEAN, Adopt(lost)
      PROVE  TypeOK'
  <2>1. [instance EXCEPT !.owners = OwnersWith(@)] \in Tailored
    <3>1. instance.owners \in [Profiles -> 0..MaxUid] /\ base \in 0..MaxUid
      BY DEF ControllerTypeOK, Tailored
    <3>2. OwnersWith(instance.owners) \in [Profiles -> 0..MaxUid]
      BY <3>1 DEF OwnersWith
    <3> QED BY <3>2 DEF ControllerTypeOK, Tailored
  <2>2. tp' \in Tailored /\ fresh' \in SUBSET Copies
    BY <1>8, <2>1, WriteType DEF Adopt
  <2> QED BY <1>1, <1>2, <1>8, <2>2, ReturnType DEF Adopt, ClusterTypeOK
<1>9. CASE GetBundle
  <2>1. ClusterTypeOK' /\ ControllerTypeOK'
    <3>1. CASE Return(TRUE) /\ fresh' = fresh \ {"instance"}
      BY <1>1, <1>9, <3>1, ReturnType DEF GetBundle, ClusterTypeOK
    <3>2. CASE Proceed(SelectionOr(1)) /\ UNCHANGED fresh
      <4>1. ControllerTypeOK'
        BY <1>9, <3>2
        DEF GetBundle, Proceed, SelectionOr, ControllerTypeOK, Calls, ProfileCalls
      <4> QED BY <1>1, <1>9, <3>2, <4>1 DEF GetBundle, Proceed, ClusterTypeOK
    <3> QED BY <1>9, <3>1, <3>2 DEF GetBundle
  <2> QED BY <2>1
<1>10. CASE ReadSelection
  <2>1. Len(Selections(instance.spec)) \in Nat
    BY SelectionPlace DEF ControllerTypeOK
  <2>2. ControllerTypeOK'
    BY <1>10, <2>1
    DEF ReadSelection, BadSelection, SelectionOr, ControllerTypeOK, Calls, ProfileCalls
  <2> QED BY <1>4, <1>10, <2>2 DEF ReadSelection
<1>11. CASE GetOutput
  <2>1. CASE Return(FALSE) /\ fresh' = fresh \ {"instance"}
    BY <1>1, <1>11, <2>1, ReturnType DEF GetOutput, ClusterTypeOK
  <2>2. CASE Proceed(MissingOutput) /\ UNCHANGED fresh
    <3>1. ControllerTypeOK'
      BY <1>11, <2>2
      DEF GetOutput, Proceed, MissingOutput, ControllerTypeOK, Calls, ProfileCalls
    <3> QED BY <1>1, <1>11, <2>2, <3>1 DEF GetOutput, Proceed, ClusterTypeOK
  <2> QED BY <1>11, <2>1, <2>2 DEF GetOutput
<1>12. ASSUME NEW lost \in BOOLEAN, SetReady(lost)
       PROVE  TypeOK'
  <2>1. tp' \in Tailored /\ fresh' \in SUBSET Copies
    BY <1>12, WrittenType, WriteType DEF SetReady, ControllerTypeOK
  <2>2. CASE Return(TRUE)
    BY <1>1, <1>2, <1>12, <2>1, <2>2, ReturnType DEF SetReady, ClusterTypeOK
  <2>3. CASE Proceed("createOutput")
    <3>1. ControllerTypeOK'
      BY <1>12, <2>3 DEF SetReady, Proceed, ControllerTypeOK, Calls, ProfileCalls
    <3> QED BY <1>1, <1>2, <1>12, <2>1, <2>3, <3>1 DEF SetReady, Proceed, ClusterTypeOK
  <2> QED BY <1>12, <2>2, <2>3 DEF SetReady
<1>13. ASSUME NEW lost \in BOOLEAN, CreateOutput(lost)
       PROVE  TypeOK'
  <2>1. Rendered(instance) \in Output
    <3>1. instance.spec \in TailoredSpec /\ instance.uid \in 0..MaxTp
      BY DEF ControllerTypeOK, Tailored
    <3>2. instance.spec.extends \in Profiles
      BY <1>13 DEF CreateOutput, ControllerTypeOK, ProfileCalls
    <3> QED BY <3>1, <3>2, DocumentType DEF Rendered, Output
  <2>2. cm' \in Output /\ policy' \in Output /\ fresh' \in SUBSET Copies
    BY <1>13, <2>1 DEF CreateOutput, WriteConfigMap, ClusterTypeOK
  <2> QED BY <1>1, <1>2, <1>13, <2>2, ReturnType DEF CreateOutput, ClusterTypeOK
<1>14. ASSUME NEW lost \in BOOLEAN, SetError(lost)
       PROVE  TypeOK'
  <2>1. tp' \in Tailored /\ fresh' \in SUBSET Copies
    BY <1>14, WrittenType, WriteType DEF SetError, ControllerTypeOK
  <2> QED BY <1>1, <1>2, <1>14, <2>1, ReturnType DEF SetError, ClusterTypeOK
<1>15. CASE Refused
  BY <1>1, <1>15, ReturnType DEF Refused, ClusterTypeOK
<1>16. CASE CallFails
  <2>1. left' \in [FaultKinds -> Nat]
    BY <1>3, <1>16, FaultNames DEF CallFails
  <2> QED BY <1>1, <1>16, <2>1, ReturnType DEF CallFails, ClusterTypeOK
<1>17. CASE OperatorRestarts
  <2>1. left' \in [FaultKinds -> Nat]
    BY <1>3, <1>17, FaultNames DEF OperatorRestarts
  <2>2. fresh' \in SUBSET Copies
    BY <1>17 DEF OperatorRestarts, ClusterTypeOK
  <2>3. 1 \in 1..(Len(Selections(NoTailored.spec)) + 1)
    BY SelectionPlace
  <2>4. ControllerTypeOK'
    BY <1>17, <2>3 DEF OperatorRestarts, ControllerTypeOK, ProfileCalls
  <2> QED BY <1>1, <1>17, <2>1, <2>2, <2>4 DEF OperatorRestarts, ClusterTypeOK
<1> QED BY <1>5, <1>6, <1>7, <1>8, <1>9, <1>10, <1>11, <1>12, <1>13, <1>14, <1>15,
           <1>16, <1>17
        DEF ControllerNext, Reconcile

LEMMA StutterTypeOK == ASSUME TypeOK, UNCHANGED vars PROVE TypeOK'
<1>1. StoreTypeOK'
  BY DEF vars, cluster, store, TypeOK, ClusterTypeOK, StoreTypeOK
<1> QED BY <1>1 DEF vars, cluster, controller, TypeOK, ClusterTypeOK, ControllerTypeOK

LEMMA InitTypeOK == ASSUME Init PROVE TypeOK
<1> USE TailoredAssumption, AbsentType, Names DEF Init
<1>1. StoreTypeOK
  BY DEF ClusterInit, StoreInit, StoreTypeOK
<1>2. 0 \in 0..MaxTp /\ fresh \in SUBSET Copies
  BY DEF ClusterInit
<1>3. ClusterTypeOK
  BY <1>1, <1>2 DEF ClusterInit, ClusterTypeOK
<1>4. 1 \in 1..(Len(Selections(NoTailored.spec)) + 1)
  BY SelectionPlace
<1>5. ControllerTypeOK
  BY <1>4 DEF ControllerInit, ControllerTypeOK, ProfileCalls
<1> QED BY <1>3, <1>5 DEF TypeOK

LEMMA NextTypeOK == ASSUME TypeOK, Next PROVE TypeOK'
BY ContentTypeOK, EnvironmentTypeOK, ControllerKeepsTypeOK DEF Next, Collector

\* Every reachable state is well-typed: the content, the TailoredProfile, its outputs
\* with their documents, the caches, and Reconcile with what it relies on at each of
\* its calls - a Profile that is there to extend, an output type that is decided.
THEOREM TypeCorrect == Spec => []TypeOK
<1>1. TypeOK /\ [Next]_vars => TypeOK'
  BY NextTypeOK, StutterTypeOK
<1> QED BY <1>1, InitTypeOK, PTL DEF Spec

-----------------------------------------------------------------------------
(* What a step does to each object, whoever takes it.                      *)

\* u is a later version of t: it has the owners of t that live, some owner if t has
\* one, and an outputRef if t has.
Succeeds(u, t) ==
    /\ u.uid = t.uid
    /\ (\E p \in Profiles : t.owners[p] # 0) => (\E p \in Profiles : u.owners[p] # 0)
    /\ \A p \in Profiles : t.owners[p] # 0 /\ t.owners[p] = objs[p] => u.owners[p] # 0
    /\ t.ref # "none" => u.ref # "none"

\* The steps that change neither the TailoredProfile nor a copy of it that is held
\* against it.
OtherStep ==
    \/ Content \/ (\E o \in Objects : CollectContent(o)) \/ CollectConfigMap
    \/ RemoveOutput \/ SyncConfigMap \/ Resync

LEMMA NextSteps ==
    ASSUME Next
    PROVE  \/ OtherStep /\ UNCHANGED controller
           \/ (\E s \in Specs : CreateTailored(s)) /\ UNCHANGED controller
           \/ (\E s \in Specs : EditTailored(s)) /\ UNCHANGED controller
           \/ (DeleteTailored \/ CollectTailored) /\ UNCHANGED controller
           \/ DropOwners /\ UNCHANGED controller
           \/ SyncTailored /\ UNCHANGED controller
           \/ ControllerNext
BY DEF Next, User, Collector, Informers, OtherStep

LEMMA ControllerSteps ==
    ASSUME ControllerNext
    PROVE  \/ \E lost \in BOOLEAN : \/ SetOutputType(lost) \/ Adopt(lost)
                                    \/ SetReady(lost) \/ SetError(lost)
           \/ \E lost \in BOOLEAN : CreateOutput(lost)
           \/ GetTailored \/ GetProfile \/ GetBundle \/ ReadSelection \/ GetOutput
           \/ Refused \/ CallFails \/ OperatorRestarts
BY DEF ControllerNext, Reconcile

LEMMA OtherStepEffect ==
    ASSUME OtherStep
    PROVE  UNCHANGED <<tp, tpCache, tpBorn>> /\ fresh' \in {fresh, fresh \ {"cmCache"},
                                                            fresh \cup {"cmCache"}}
<1>1. CASE Content \/ (\E o \in Objects : CollectContent(o)) \/ Resync
  BY <1>1 DEF Content, CollectContent, Resync
<1>2. CASE CollectConfigMap \/ RemoveOutput \/ SyncConfigMap
  BY <1>2 DEF CollectConfigMap, RemoveOutput, SyncConfigMap, WriteConfigMap
<1> QED BY <1>1, <1>2 DEF OtherStep

\* The controller's writes are made from the current version.
LEMMA WriteEffect ==
    ASSUME TypeOK, CopiesCurrent, NEW lost \in BOOLEAN,
           SetOutputType(lost) \/ Adopt(lost) \/ SetReady(lost) \/ SetError(lost)
    PROVE  /\ instance = tp
           /\ Succeeds(tp', tp)
           /\ SetOutputType(lost) => tp'.spec = Defaulted(tp.spec) /\ tp'.state = tp.state
           /\ ~SetOutputType(lost) => tp'.spec = tp.spec
           /\ Adopt(lost) => tp'.state = tp.state
           /\ SetReady(lost) => tp'.ref # "none"
           /\ "tpCache" \in fresh' => "tpCache" \in fresh /\ tp' = tp
           /\ "instance" \notin fresh'
           /\ UNCHANGED <<cm, policy, tpCache, tpBorn>>
<1> USE DEF Succeeds, WriteTailored, TpCopies
<1>1. instance = tp /\ instance \in Tailored
  BY DEF SetOutputType, Adopt, SetReady, SetError, InstanceCurrent, CopiesCurrent,
         TypeOK, ControllerTypeOK
<1>2. CASE SetOutputType(lost)
  <2>1. tp' = [tp EXCEPT !.spec = Defaulted(tp.spec)] /\ rpc = "setOutputType"
    BY <1>1, <1>2 DEF SetOutputType
  <2>2. /\ tp'.uid = tp.uid /\ tp'.owners = tp.owners /\ tp'.ref = tp.ref
        /\ tp'.state = tp.state /\ tp'.spec = Defaulted(tp.spec)
    BY <1>1, <2>1 DEF Tailored
  <2> QED BY <1>1, <1>2, <2>1, <2>2 DEF SetOutputType, Adopt, SetReady, SetError
<1>3. CASE Adopt(lost)
  <2>1. tp' = [tp EXCEPT !.owners = OwnersWith(tp.owners)] /\ rpc = "adopt"
    BY <1>1, <1>3 DEF Adopt, OwnersWith
  <2>2. /\ tp'.uid = tp.uid /\ tp'.ref = tp.ref /\ tp'.state = tp.state
        /\ tp'.spec = tp.spec /\ tp'.owners = OwnersWith(tp.owners)
    BY <1>1, <2>1 DEF Tailored
  <2>3. base # 0
    BY <1>3 DEF Adopt, TypeOK, ControllerTypeOK, ProfileCalls
  <2>4. \A p \in Profiles : tp.owners[p] # 0 => tp'.owners[p] # 0
    BY <1>1, <2>2, <2>3 DEF OwnersWith, Tailored
  <2> QED BY <1>1, <1>3, <2>1, <2>2, <2>4 DEF SetOutputType, Adopt, SetReady, SetError
<1>4. CASE SetReady(lost)
  <2>1. tp' = Ready(tp) /\ rpc = "setReady"
    BY <1>1, <1>4 DEF SetReady
  <2>2. /\ tp'.uid = tp.uid /\ tp'.owners = tp.owners /\ tp'.spec = tp.spec
        /\ tp'.ref # "none"
    BY <1>1, <2>1 DEF Tailored, Ready
  <2> QED BY <1>1, <1>4, <2>1, <2>2 DEF SetOutputType, Adopt, SetReady, SetError
<1>5. CASE SetError(lost)
  <2>1. tp' = Failed(tp) /\ rpc = "setError"
    BY <1>1, <1>5 DEF SetError
  <2>2. /\ tp'.uid = tp.uid /\ tp'.owners = tp.owners /\ tp'.spec = tp.spec
        /\ tp'.ref = tp.ref
    BY <1>1, <2>1 DEF Tailored, Failed
  <2> QED BY <1>1, <1>5, <2>1, <2>2 DEF SetOutputType, Adopt, SetReady, SetError
<1> QED BY <1>2, <1>3, <1>4, <1>5

\* Its other steps write nothing of the TailoredProfile, and keep no new copy of it.
LEMMA ReadEffect ==
    ASSUME GetProfile \/ GetBundle \/ ReadSelection \/ GetOutput \/ Refused \/ CallFails
    PROVE  /\ UNCHANGED <<tp, cm, policy, tpCache, tpBorn>>
           /\ \/ fresh' = fresh /\ instance' = instance /\ rpc' \notin {"idle", "createOutput"}
              \/ fresh' = fresh \ {"instance"} /\ instance' = NoTailored /\ rpc' = "idle"
<1>1. CASE GetProfile \/ ReadSelection
  BY <1>1 DEF GetProfile, ReadSelection, cluster, SelectionOr, BadSelection
<1>2. CASE GetBundle \/ GetOutput
  BY <1>2 DEF GetBundle, GetOutput, Return, Proceed, SelectionOr, MissingOutput
<1>3. CASE Refused \/ CallFails
  BY <1>3 DEF Refused, CallFails, Return
<1> QED BY <1>1, <1>2, <1>3

LEMMA CreateEffect ==
    ASSUME NEW lost \in BOOLEAN, CreateOutput(lost)
    PROVE  /\ UNCHANGED <<tp, tpCache, tpBorn>>
           /\ rpc = "createOutput" /\ rpc' = "idle" /\ instance' = NoTailored
           /\ fresh' \in {fresh, fresh \ {"cmCache"}}
           /\ \/ /\ instance.spec.output = "Policy"
                 /\ policy' = Rendered(instance) /\ cm' = cm
              \/ /\ instance.spec.output # "Policy"
                 /\ cm' = Rendered(instance) /\ policy' = policy
BY DEF CreateOutput, Return, WriteConfigMap

\* The life of the TailoredProfile: it is deleted, created or written, and a copy of
\* it is kept, dropped or taken from the present version or from an older copy.
Gone == tp' = NoTailored /\ UNCHANGED <<tpCache, instance, tpBorn>>

Born == /\ tp'.uid = tpBorn + 1 /\ tpBorn' = tpBorn + 1
        /\ UNCHANGED <<tpCache, instance>>

Lives ==
    /\ Succeeds(tp', tp)
    /\ \/ tp'.spec = tp.spec
       \/ tp.spec.output = "unset"
       \/ \E s \in Specs : EditTailored(s)
    /\ tpBorn' = tpBorn
    /\ tpCache' = tpCache \/ (tpCache' = tp /\ tp' = tp)
    /\ instance' \in {instance, NoTailored} \/ (instance' = tpCache /\ tp' = tp)

LEMMA TailoredSteps ==
    ASSUME Inductive, Next
    PROVE  Gone \/ Born \/ Lives
<1> USE DEF Inductive
<1>1. CASE OtherStep /\ UNCHANGED controller
  BY <1>1, OtherStepEffect DEF Lives, Succeeds, controller
<1>2. ASSUME NEW s \in Specs, CreateTailored(s), UNCHANGED controller
      PROVE  Born
  BY <1>2 DEF Born, CreateTailored, WriteTailored, New, controller
<1>3. ASSUME NEW s \in Specs, EditTailored(s), UNCHANGED controller
      PROVE  Lives
  <2>1. tp' = [tp EXCEPT !.spec = s] /\ tp \in Tailored
    BY <1>3 DEF EditTailored, WriteTailored, TypeOK, ClusterTypeOK
  <2>2. Succeeds(tp', tp)
    BY <2>1 DEF Succeeds, Tailored
  <2> QED BY <1>3, <2>2 DEF Lives, EditTailored, controller
<1>4. CASE (DeleteTailored \/ CollectTailored) /\ UNCHANGED controller
  BY <1>4 DEF Gone, DeleteTailored, CollectTailored, WriteTailored, controller
<1>5. CASE SyncTailored /\ UNCHANGED controller
  BY <1>5 DEF Lives, Succeeds, SyncTailored, controller
<1>6. CASE ControllerNext
  <2>1. ASSUME NEW lost \in BOOLEAN,
               SetOutputType(lost) \/ Adopt(lost) \/ SetReady(lost) \/ SetError(lost)
        PROVE  Lives
    <3>1. /\ Succeeds(tp', tp) /\ instance = tp /\ UNCHANGED <<tpCache, tpBorn>>
          /\ ~SetOutputType(lost) => tp'.spec = tp.spec
      BY <2>1, WriteEffect
    <3>2. SetOutputType(lost) => tp.spec.output = "unset"
      BY <3>1 DEF SetOutputType, SpecsAgree
    <3>3. instance' \in {instance, NoTailored}
      BY <2>1 DEF SetOutputType, Adopt, SetReady, SetError, Return, Proceed
    <3> QED BY <3>1, <3>2, <3>3 DEF Lives
  <2>2. ASSUME NEW lost \in BOOLEAN, CreateOutput(lost) PROVE Lives
    BY <2>2, CreateEffect DEF Lives, Succeeds
  <2>3. CASE GetTailored
    BY <2>3 DEF Lives, Succeeds, GetTailored
  <2>4. CASE GetProfile \/ GetBundle \/ ReadSelection \/ GetOutput \/ Refused \/ CallFails
    BY <2>4, ReadEffect DEF Lives, Succeeds
  <2>5. CASE OperatorRestarts
    BY <2>5 DEF Lives, Succeeds, OperatorRestarts
  <2> QED BY <1>6, <2>1, <2>2, <2>3, <2>4, <2>5, ControllerSteps
<1>7. CASE DropOwners /\ UNCHANGED controller
  <2>1. Succeeds(tp', tp) /\ tp'.spec = tp.spec
    BY <1>7, DropEffect DEF Succeeds, LiveOwners, TypeOK
  <2> QED BY <1>7, <2>1 DEF Lives, DropOwners, controller
<1> QED BY <1>1, <1>2, <1>3, <1>4, <1>5, <1>6, <1>7, NextSteps

\* An output is deleted, or made at the end of Reconcile.
Produced == /\ rpc = "createOutput" /\ UNCHANGED <<tp, tpBorn>>
            /\ \/ /\ instance.spec.output = "Policy"
                  /\ policy' = Rendered(instance) /\ cm' = cm
               \/ /\ instance.spec.output # "Policy"
                  /\ cm' = Rendered(instance) /\ policy' = policy

LEMMA OutputSteps ==
    ASSUME Inductive, Next
    PROVE  Produced \/ (cm' \in {cm, NoOutput} /\ policy' \in {policy, NoOutput})
<1> USE DEF Inductive
<1>1. CASE OtherStep
  BY <1>1 DEF OtherStep, Content, CollectContent, CollectConfigMap, RemoveOutput,
              SyncConfigMap, Resync, WriteConfigMap
<1>2. CASE DeleteTailored \/ CollectTailored \/ DropOwners \/ SyncTailored
           \/ \E s \in Specs : CreateTailored(s) \/ EditTailored(s)
  BY <1>2
  DEF DeleteTailored, CollectTailored, DropOwners, SyncTailored, CreateTailored, EditTailored
<1>3. CASE ControllerNext
  <2>1. CASE \E lost \in BOOLEAN : SetOutputType(lost) \/ Adopt(lost) \/ SetReady(lost)
                                   \/ SetError(lost)
    BY <2>1, WriteEffect
  <2>2. CASE \E lost \in BOOLEAN : CreateOutput(lost)
    BY <2>2, CreateEffect DEF Produced
  <2>3. CASE GetTailored \/ OperatorRestarts
    BY <2>3 DEF GetTailored, OperatorRestarts
  <2>4. CASE GetProfile \/ GetBundle \/ ReadSelection \/ GetOutput \/ Refused \/ CallFails
    BY <2>4, ReadEffect
  <2> QED BY <1>3, <2>1, <2>2, <2>3, <2>4, ControllerSteps
<1> QED BY <1>1, <1>2, <1>3, NextSteps

-----------------------------------------------------------------------------
(* The inductive invariant, one lemma per conjunct. *)

\* Uids are numbers.
LEMMA UidType ==
    ASSUME TypeOK
    PROVE  /\ tp.uid \in Nat /\ tpCache.uid \in Nat /\ instance.uid \in Nat
           /\ cm.of \in Nat /\ policy.of \in Nat /\ tpBorn \in Nat
<1> USE TailoredAssumption DEF TypeOK, ClusterTypeOK, ControllerTypeOK
<1>1. tp.uid \in Nat /\ tpCache.uid \in Nat /\ instance.uid \in Nat
  BY DEF Tailored
<1>2. cm.of \in Nat /\ policy.of \in Nat
  BY DEF Output
<1>3. tpBorn \in Nat
  OBVIOUS
<1> QED BY <1>1, <1>2, <1>3

\* A write that changes the TailoredProfile makes every copy of it stale.
LEMMA CopiesCurrentStep ==
    ASSUME Inductive, Next
    PROVE  CopiesCurrent'
<1> USE DEF Inductive, CopiesCurrent
<1>1. CASE OtherStep /\ UNCHANGED controller
  BY <1>1, OtherStepEffect DEF controller
<1>2. CASE (\E s \in Specs : CreateTailored(s)) /\ UNCHANGED controller
  BY <1>2 DEF CreateTailored, WriteTailored, TpCopies, controller
<1>3. CASE (\E s \in Specs : EditTailored(s)) /\ UNCHANGED controller
  BY <1>3 DEF EditTailored, WriteTailored, TpCopies, controller
<1>4. CASE (DeleteTailored \/ CollectTailored \/ DropOwners) /\ UNCHANGED controller
  BY <1>4 DEF DeleteTailored, CollectTailored, DropOwners, WriteTailored, TpCopies, controller
<1>5. CASE SyncTailored /\ UNCHANGED controller
  BY <1>5 DEF SyncTailored, controller
<1>6. CASE ControllerNext
  <2>1. ASSUME NEW lost \in BOOLEAN,
               SetOutputType(lost) \/ Adopt(lost) \/ SetReady(lost) \/ SetError(lost)
        PROVE  CopiesCurrent'
    BY <2>1, WriteEffect
  <2>2. ASSUME NEW lost \in BOOLEAN, CreateOutput(lost) PROVE CopiesCurrent'
    BY <2>2, CreateEffect
  <2>3. CASE GetTailored
    BY <2>3 DEF GetTailored, Validated
  <2>4. CASE GetProfile \/ GetBundle \/ ReadSelection \/ GetOutput \/ Refused \/ CallFails
    BY <2>4, ReadEffect
  <2>5. CASE OperatorRestarts
    BY <2>5 DEF OperatorRestarts
  <2> QED BY <1>6, <2>1, <2>2, <2>3, <2>4, <2>5, ControllerSteps
<1> QED BY <1>1, <1>2, <1>3, <1>4, <1>5, <1>6, NextSteps

\* Uids are handed out in order.
LEMMA UidsBornStep ==
    ASSUME Inductive, Next
    PROVE  UidsBorn'
<1> USE UidType, AbsentType DEF Inductive, UidsBorn
<1>1. /\ tp'.uid <= tpBorn' /\ tpCache'.uid <= tpBorn' /\ instance'.uid <= tpBorn'
      /\ tpBorn <= tpBorn' /\ tpBorn' \in Nat
  <2>1. CASE Gone
    BY <2>1 DEF Gone
  <2>2. CASE Born
    BY <2>2 DEF Born
  <2>3. CASE Lives
    BY <2>3 DEF Lives, Succeeds
  <2> QED BY <2>1, <2>2, <2>3, TailoredSteps
<1>2. cm'.of \in {cm.of, 0, instance.uid} /\ policy'.of \in {policy.of, 0, instance.uid}
  BY OutputSteps DEF Produced, Rendered
<1> QED BY <1>1, <1>2

\* When some copy of this incarnation has an owner, it keeps one.
LEMMA OwnersKeptStep ==
    ASSUME Inductive, Next
    PROVE  OwnersKept'
<1> USE UidType, AbsentType DEF Inductive, OwnersKept, CopiesOfThis, Exists, Adopted
<1>1. CASE Gone
  BY <1>1 DEF Gone
<1>2. CASE Born
  BY <1>2 DEF Born, UidsBorn
<1>3. CASE Lives
  BY <1>3 DEF Lives, Succeeds
<1> QED BY <1>1, <1>2, <1>3, TailoredSteps

\* Where Reconcile goes from where it is, with the same TailoredProfile in hand.
Advances ==
    /\ instance' = instance
    /\ \/ rpc' = rpc /\ at' = at
       \/ /\ rpc = "getProfile" /\ rpc' \in {"setError", "getBundle", "adopt"}
          /\ rpc' = "getBundle" => instance.owners[instance.spec.extends] # 0
       \/ rpc = "getBundle" /\ rpc' = SelectionOr(1) /\ at' = 1
       \/ rpc = "readSelection" /\ rpc' = "setError"
       \/ /\ rpc = "readSelection" /\ Acceptable(instance.spec, at)
          /\ rpc' = SelectionOr(at + 1) /\ at' = at + 1
       \/ rpc = "getOutput" /\ rpc' = "setReady"
       \/ rpc = "setReady" /\ rpc' = "createOutput" /\ tp'.ref # "none"

LEMMA PlaceSteps ==
    ASSUME Inductive, Next
    PROVE  \/ rpc' = "idle"
           \/ rpc' = Validated(instance'.spec) /\ GetTailored
           \/ Advances
<1> USE DEF Inductive, Advances
<1>1. CASE UNCHANGED controller
  BY <1>1 DEF controller
<1>2. CASE ControllerNext
  <2>1. CASE GetTailored
    BY <2>1 DEF GetTailored
  <2>2. CASE GetProfile
    BY <2>2 DEF GetProfile
  <2>3. CASE GetBundle
    BY <2>3 DEF GetBundle, Return, Proceed, TypeOK, ControllerTypeOK
  <2>4. CASE ReadSelection
    BY <2>4 DEF ReadSelection, BadSelection
  <2>5. CASE GetOutput
    BY <2>5 DEF GetOutput, Return, Proceed, MissingOutput
  <2>6. ASSUME NEW lost \in BOOLEAN, SetReady(lost)
        PROVE  rpc' = "idle" \/ Advances
    <3>1. tp'.ref # "none"
      BY <2>6, WriteEffect
    <3> QED BY <2>6, <3>1 DEF SetReady, Return, Proceed
  <2>7. CASE \E lost \in BOOLEAN : \/ SetOutputType(lost) \/ Adopt(lost) \/ SetError(lost)
                                   \/ CreateOutput(lost)
    BY <2>7 DEF SetOutputType, Adopt, SetError, CreateOutput, Return
  <2>8. CASE Refused \/ CallFails \/ OperatorRestarts
    BY <2>8 DEF Refused, CallFails, OperatorRestarts, Return
  <2> QED BY <1>2, <2>1, <2>2, <2>3, <2>4, <2>5, <2>6, <2>7, <2>8, ControllerSteps
<1> QED BY <1>1, <1>2, NextSteps

\* Reconcile comes to the output only of an adopted TailoredProfile, and to its
\* creation only when the status names it.
LEMMA PreparedStep ==
    ASSUME Inductive, Next
    PROVE  PreparedForOutput'
<1> USE DEF Inductive, PreparedForOutput, ProfileCalls
<1>1. CASE rpc' = "idle"
  BY <1>1
<1>2. CASE rpc' = Validated(instance'.spec)
  BY <1>2 DEF Validated
<1>3. CASE Advances
  <2>1. rpc' \in ProfileCalls \ {"adopt"}
          => instance'.owners[instance'.spec.extends] # 0
    BY <1>3 DEF Advances, SelectionOr
  <2>2. ASSUME rpc' = "createOutput", instance' \in CopiesOfThis'
        PROVE  tp'.ref # "none"
    <3>1. instance' = instance /\ (rpc = "createOutput" \/ tp'.ref # "none")
      BY <1>3, <2>2 DEF Advances, SelectionOr
    <3>2. tp'.uid # 0 /\ instance.uid = tp'.uid
      BY <2>2, <3>1 DEF CopiesOfThis, Exists, CopiesCurrent, UidsBorn
    <3> QED
      <4>1. CASE Gone
        BY <3>2, <4>1, AbsentType DEF Gone
      <4>2. CASE Born
        BY <3>2, <4>2, UidType DEF Born, UidsBorn
      <4>3. CASE Lives
        BY <3>1, <3>2, <4>3 DEF Lives, Succeeds, CopiesOfThis, Exists
      <4> QED BY <4>1, <4>2, <4>3, TailoredSteps
  <2> QED BY <2>1, <2>2
<1> QED BY <1>1, <1>2, <1>3, PlaceSteps

\* No selection is left out of the reading.
LEMMA SelectionsReadStep ==
    ASSUME Inductive, Next
    PROVE  SelectionsRead'
<1> USE DEF Inductive, SelectionsRead
<1>1. CASE rpc' = "idle"
  BY <1>1
<1>2. CASE rpc' = Validated(instance'.spec)
  BY <1>2 DEF Validated
<1>3. CASE Advances
  <2>1. Len(Selections(instance.spec)) \in Nat /\ at \in 1..(Len(Selections(instance.spec)) + 1)
    BY SelectionPlace DEF TypeOK, ControllerTypeOK
  <2>2. CASE rpc = "getBundle" /\ rpc' = SelectionOr(1) /\ at' = 1
    BY <1>3, <2>1, <2>2 DEF SelectionOr, Advances
  <2>3. CASE rpc = "readSelection" /\ Acceptable(instance.spec, at)
             /\ rpc' = SelectionOr(at + 1) /\ at' = at + 1
    <3>1. at <= Len(Selections(instance.spec))
      BY <2>3 DEF TypeOK, ControllerTypeOK
    <3>2. \A i \in 1..at : Acceptable(instance.spec, i)
      BY <2>1, <2>3
    <3>3. CASE at + 1 <= Len(Selections(instance.spec))
      BY <1>3, <2>1, <2>3, <3>2, <3>3 DEF SelectionOr, Advances
    <3>4. CASE ~(at + 1 <= Len(Selections(instance.spec)))
      <4>1. at = Len(Selections(instance.spec)) /\ rpc' = "getOutput"
        BY <2>1, <2>3, <3>1, <3>4 DEF SelectionOr
      <4> QED BY <1>3, <3>2, <4>1 DEF Advances
    <3> QED BY <3>3, <3>4
  <2> QED BY <1>3, <2>2, <2>3 DEF Advances
<1> QED BY <1>1, <1>2, <1>3, PlaceSteps

\* Only an edit uses up the budget of edits.
LEMMA EditBudget ==
    ASSUME TypeOK, Next
    PROVE  \/ left'["edit"] = left["edit"] /\ ~ \E s \in Specs : EditTailored(s)
           \/ left["edit"] \in Nat /\ left'["edit"] = left["edit"] - 1
<1> DEFINE Kept == left'["edit"] = left["edit"]
<1>1. left \in [FaultKinds -> Nat] /\ "edit" \in FaultKinds
  BY FaultNames DEF TypeOK, ClusterTypeOK
<1>2. ASSUME NEW k, k # "edit", Spend(k) PROVE Kept
  BY <1>1, <1>2 DEF Spend
<1>3. ASSUME NEW lost, Answered(lost) PROVE Kept
  BY <1>2, <1>3 DEF Answered
<1>4. ASSUME NEW s \in Specs, EditTailored(s)
      PROVE  left["edit"] \in Nat /\ left'["edit"] = left["edit"] - 1
  BY <1>1, <1>4 DEF EditTailored, Spend
<1>5. ASSUME OtherStep PROVE Kept
  <2>1. CASE Content
    BY <1>2, <2>1 DEF Content
  <2>2. CASE RemoveOutput
    BY <1>2, <2>2 DEF RemoveOutput
  <2>3. CASE (\E o \in Objects : CollectContent(o)) \/ CollectConfigMap
             \/ SyncConfigMap \/ Resync
    BY <2>3 DEF CollectContent, CollectConfigMap, SyncConfigMap, Resync
  <2> QED BY <1>5, <2>1, <2>2, <2>3 DEF OtherStep
<1>6. ASSUME DeleteTailored \/ CollectTailored \/ DropOwners \/ SyncTailored
               \/ \E s \in Specs : CreateTailored(s)
      PROVE  Kept
  BY <1>6 DEF DeleteTailored, CollectTailored, DropOwners, SyncTailored, CreateTailored
<1>7. ASSUME ControllerNext PROVE Kept
  <2>1. CASE GetTailored \/ GetProfile \/ GetBundle \/ ReadSelection \/ GetOutput \/ Refused
    BY <2>1 DEF GetTailored, GetProfile, GetBundle, ReadSelection, GetOutput, Refused, cluster
  <2>2. ASSUME NEW lost, \/ SetOutputType(lost) \/ Adopt(lost) \/ SetReady(lost)
                         \/ SetError(lost) \/ CreateOutput(lost)
        PROVE  Kept
    BY <1>3, <2>2 DEF SetOutputType, Adopt, SetReady, SetError, CreateOutput
  <2>3. CASE CallFails \/ OperatorRestarts
    BY <1>2, <2>3 DEF CallFails, OperatorRestarts
  <2> QED BY <1>7, <2>1, <2>2, <2>3, ControllerSteps
<1>8. CASE \E s \in Specs : EditTailored(s)
  BY <1>4, <1>8
<1>9. CASE ~ \E s \in Specs : EditTailored(s)
  BY <1>5, <1>6, <1>7, <1>9, NextSteps
<1> QED BY <1>8, <1>9

\* So what is unedited after a step was unedited before it, and the step is no edit.
LEMMA UneditedBefore ==
    ASSUME Inductive, Next
    PROVE  /\ left'["edit"] <= Budget["edit"]
           /\ Unedited' => Unedited /\ ~ \E s \in Specs : EditTailored(s)
<1>1. left["edit"] <= Budget["edit"] /\ Budget["edit"] \in Nat
  BY TailoredAssumption, FaultNames DEF Inductive, SpecsAgree
<1>2. left["edit"] \in Nat
  BY FaultNames DEF Inductive, TypeOK, ClusterTypeOK
<1>3. CASE left'["edit"] = left["edit"] /\ ~ \E s \in Specs : EditTailored(s)
  BY <1>1, <1>3 DEF Unedited
<1>4. CASE left'["edit"] = left["edit"] - 1
  BY <1>1, <1>2, <1>4 DEF Unedited
<1> QED BY <1>3, <1>4, EditBudget DEF Inductive

\* While nothing is edited, the one change of the spec is that of the output type
\* from nothing to its default.
LEMMA SpecsAgreeStep ==
    ASSUME Inductive, Next
    PROVE  SpecsAgree'
<1> USE DEF Inductive
<1>1. rpc' = "setOutputType" => instance'.spec.output = "unset"
  <2>1. CASE rpc' = Validated(instance'.spec)
    BY <2>1 DEF Validated
  <2>2. CASE Advances
    BY <2>2 DEF Advances, SelectionOr, SpecsAgree
  <2> QED BY <2>1, <2>2, PlaceSteps
<1>2. ASSUME Unedited', NEW copy \in CopiesOfThis', copy.spec.output # "unset"
      PROVE  copy.spec = tp'.spec
  <2> USE DEF CopiesOfThis, Exists
  <2>1. Unedited /\ ~ \E s \in Specs : EditTailored(s)
    BY <1>2, UneditedBefore
  <2>2. \A c \in CopiesOfThis : c.spec.output # "unset" => c.spec = tp.spec
    BY <2>1 DEF SpecsAgree
  <2>3. CASE Gone
    BY <1>2, <2>3, AbsentType DEF Gone
  <2>4. CASE Born
    BY <1>2, <2>4, UidType DEF Born, UidsBorn
  <2>5. CASE Lives
    <3>1. tp'.uid = tp.uid /\ (tp'.spec = tp.spec \/ tp.spec.output = "unset")
      BY <2>1, <2>5 DEF Lives, Succeeds
    <3>2. copy \in CopiesOfThis \/ copy = tp' \/ copy = NoTailored
      BY <1>2, <2>5, <3>1 DEF Lives
    <3> QED BY <1>2, <2>2, <3>1, <3>2, AbsentType
  <2> QED BY <2>3, <2>4, <2>5, TailoredSteps
<1> QED BY <1>1, <1>2, UneditedBefore DEF SpecsAgree

\* Who owns the outputs after a step.
LEMMA OwnOutputs ==
    ASSUME Inductive, Next, Exists'
    PROVE  /\ OwnConfigMap' =>
                \/ Lives /\ OwnConfigMap /\ cm' = cm
                \/ Produced /\ instance \in CopiesOfThis /\ cm' = Rendered(instance)
                     /\ instance.spec.output # "Policy"
           /\ OwnPolicy' =>
                \/ Lives /\ OwnPolicy /\ policy' = policy
                \/ Produced /\ instance \in CopiesOfThis /\ policy' = Rendered(instance)
                     /\ instance.spec.output = "Policy"
<1> USE UidType, AbsentType DEF Inductive, OwnConfigMap, OwnPolicy, Exists
<1>1. CASE Gone
  BY <1>1 DEF Gone
<1>2. CASE Born
  <2>1. cm' \in {cm, NoOutput} /\ policy' \in {policy, NoOutput}
    BY <1>2, OutputSteps DEF Born, Produced
  <2> QED BY <1>2, <2>1 DEF Born, UidsBorn
<1>3. CASE Lives
  <2>1. tp'.uid = tp.uid /\ tp.uid # 0
    BY <1>3 DEF Lives, Succeeds
  <2>2. CASE Produced
    BY <1>3, <2>1, <2>2 DEF Produced, Rendered, CopiesOfThis
  <2>3. CASE cm' \in {cm, NoOutput} /\ policy' \in {policy, NoOutput}
    BY <1>3, <2>1, <2>3
  <2> QED BY <2>2, <2>3, OutputSteps
<1> QED BY <1>1, <1>2, <1>3, TailoredSteps

\* An output comes after the owner and the status, and these stay.
LEMMA AnnouncedStep ==
    ASSUME Inductive, Next
    PROVE  OutputAnnounced'
<1> SUFFICES ASSUME Exists', OwnConfigMap' \/ OwnPolicy'
             PROVE  Adopted(tp)' /\ tp'.ref # "none"
  BY DEF OutputAnnounced, OwnConfigMap, OwnPolicy
<1> USE DEF Inductive
<1>1. CASE Lives /\ (OwnConfigMap \/ OwnPolicy)
  BY <1>1 DEF Lives, Succeeds, OutputAnnounced, Adopted
<1>2. CASE Produced /\ instance \in CopiesOfThis
  <2>1. instance.spec.extends \in Profiles /\ rpc \in ProfileCalls \ {"adopt"}
    BY <1>2 DEF Produced, TypeOK, ControllerTypeOK, ProfileCalls
  <2>2. Adopted(instance)
    BY <2>1 DEF PreparedForOutput, Adopted
  <2>3. Adopted(tp) /\ tp.ref # "none"
    BY <1>2, <2>2 DEF Produced, PreparedForOutput, OwnersKept
  <2>4. tp' = tp
    BY <1>2 DEF Produced
  <2> QED BY <2>3, <2>4 DEF Adopted
<1> QED BY <1>1, <1>2, OwnOutputs

\* What makes the selections acceptable makes the document sound.
SoundDocument(d) ==
    /\ \E names \in [DOMAIN d.select -> Rules] : SelectsOf(d, names)
    /\ \A i \in DOMAIN d.values : \E v \in Variables :
         /\ d.values[i].idref = IdOf[v]
         /\ ValidType(v, d.values[i].value) /\ ValidValue(v, d.values[i].value)

LEMMA SoundDocuments ==
    RulesOnce /\ ValuesAccepted <=> \A d \in Documents : SoundDocument(d)
BY DEF RulesOnce, ValuesAccepted, SoundDocument

LEMMA ProducedIsSound ==
    ASSUME Inductive, rpc = "createOutput"
    PROVE  SoundDocument(Rendered(instance).doc)
<1>1. instance.spec \in TailoredSpec
  BY DEF Inductive, TypeOK, ControllerTypeOK, Tailored
<1>2. \A i \in 1..Len(Selections(instance.spec)) : Acceptable(instance.spec, i)
  BY DEF Inductive, SelectionsRead
<1>3. Rendered(instance).doc = Document(instance.spec)
  BY DEF Rendered
<1> QED BY <1>1, <1>2, <1>3, AcceptableRulesOnce, AcceptableValues DEF SoundDocument

LEMMA DocumentsStep ==
    ASSUME Inductive, Next
    PROVE  RulesOnce' /\ ValuesAccepted'
<1>1. \A d \in Documents : SoundDocument(d)
  BY SoundDocuments DEF Inductive
<1>2. ASSUME NEW d \in Documents' PROVE SoundDocument(d)
  <2>1. CASE Produced
    <3>1. d \in Documents \/ d = Rendered(instance).doc
      BY <1>2, <2>1 DEF Produced, Documents
    <3> QED BY <1>1, <2>1, <3>1, ProducedIsSound DEF Produced
  <2>2. CASE cm' \in {cm, NoOutput} /\ policy' \in {policy, NoOutput}
    <3>1. d \in Documents
      BY <1>2, <2>2, AbsentType DEF Documents
    <3> QED BY <1>1, <3>1
  <2> QED BY <2>1, <2>2, OutputSteps
<1> QED BY <1>2 DEF RulesOnce, ValuesAccepted, SoundDocument

\* While nothing is edited, an output that is there keeps saying what the spec says:
\* the default is decided before any output.
LEMMA OutputMatchesStep ==
    ASSUME Inductive, Next
    PROVE  OutputMatchesSpec'
<1> SUFFICES ASSUME Unedited', Exists'
             PROVE  /\ OwnConfigMap' => tp'.spec.output = "ConfigMap" /\ Says(cm'.doc, tp'.spec)
                    /\ OwnPolicy' => tp'.spec.output = "Policy" /\ Says(policy'.doc, tp'.spec)
  BY DEF OutputMatchesSpec, OwnConfigMap, OwnPolicy
<1> USE DEF Inductive
<1>1. Unedited /\ ~ \E s \in Specs : EditTailored(s)
  BY UneditedBefore
<1>2. ASSUME Lives, tp.spec.output # "unset" PROVE tp'.spec = tp.spec
  BY <1>1, <1>2 DEF Lives
<1>3. CASE Produced /\ instance \in CopiesOfThis
  <2>1. instance.spec.output # "unset" /\ instance.spec \in TailoredSpec
    BY <1>3 DEF Produced, TypeOK, ControllerTypeOK, ProfileCalls, Tailored
  <2>2. instance.spec = tp.spec /\ tp' = tp
    BY <1>1, <1>3, <2>1 DEF SpecsAgree, Produced
  <2>3. Rendered(instance).doc = Document(tp.spec) /\ Says(Document(tp.spec), tp.spec)
    BY <2>1, <2>2, DocumentSays DEF Rendered
  <2>4. tp.spec.output \in {"ConfigMap", "Policy"}
    BY <2>1, <2>2 DEF TailoredSpec
  <2>5. OwnConfigMap' /\ cm' = Rendered(instance) /\ instance.spec.output # "Policy"
          => tp'.spec.output = "ConfigMap" /\ Says(cm'.doc, tp'.spec)
    BY <2>2, <2>3, <2>4
  <2>6. OwnPolicy' /\ policy' = Rendered(instance) /\ instance.spec.output = "Policy"
          => tp'.spec.output = "Policy" /\ Says(policy'.doc, tp'.spec)
    BY <2>2, <2>3
  <2>7. OwnConfigMap => tp.spec.output = "ConfigMap" /\ Says(cm.doc, tp.spec)
    BY <1>1 DEF OutputMatchesSpec
  <2>8. OwnPolicy => tp.spec.output = "Policy" /\ Says(policy.doc, tp.spec)
    BY <1>1 DEF OutputMatchesSpec
  <2> QED BY <2>2, <2>5, <2>6, <2>7, <2>8, OwnOutputs
<1>4. CASE ~(Produced /\ instance \in CopiesOfThis)
  <2>1. OwnConfigMap' => Lives /\ OwnConfigMap /\ cm' = cm
    BY <1>4, OwnOutputs
  <2>2. OwnPolicy' => Lives /\ OwnPolicy /\ policy' = policy
    BY <1>4, OwnOutputs
  <2>3. /\ OwnConfigMap => tp.spec.output = "ConfigMap" /\ Says(cm.doc, tp.spec)
        /\ OwnPolicy => tp.spec.output = "Policy" /\ Says(policy.doc, tp.spec)
    BY <1>1 DEF OutputMatchesSpec
  <2>4. ASSUME OwnConfigMap'
        PROVE  tp'.spec.output = "ConfigMap" /\ Says(cm'.doc, tp'.spec)
    BY <1>2, <2>1, <2>3, <2>4
  <2>5. ASSUME OwnPolicy'
        PROVE  tp'.spec.output = "Policy" /\ Says(policy'.doc, tp'.spec)
    BY <1>2, <2>2, <2>3, <2>5
  <2> QED BY <2>4, <2>5
<1> QED BY <1>3, <1>4

-----------------------------------------------------------------------------
(* The theorems *)

LEMMA InitInductive == ASSUME Init PROVE Inductive
<1> USE AbsentType DEF Init, ClusterInit, ControllerInit
<1>1. TypeOK
  BY InitTypeOK
<1>2. CopiesCurrent
  BY DEF CopiesCurrent
<1>3. UidsBorn
  BY DEF UidsBorn
<1>4. OwnersKept /\ PreparedForOutput /\ SelectionsRead
  BY AbsentType DEF OwnersKept, PreparedForOutput, SelectionsRead, CopiesOfThis, Exists,
                    ProfileCalls
<1>5. SpecsAgree
  <2>1. Budget["edit"] \in Nat
    BY TailoredAssumption, FaultNames
  <2> QED BY <2>1 DEF SpecsAgree, CopiesOfThis, Exists
<1>6. OutputAnnounced /\ OutputMatchesSpec
  BY DEF OutputAnnounced, OutputMatchesSpec, OwnConfigMap, OwnPolicy, Exists
<1>7. RulesOnce /\ ValuesAccepted
  BY DEF RulesOnce, ValuesAccepted, Documents
<1> QED BY <1>1, <1>2, <1>3, <1>4, <1>5, <1>6, <1>7 DEF Inductive

LEMMA NextInductive == ASSUME Inductive, Next PROVE Inductive'
BY NextTypeOK, CopiesCurrentStep, UidsBornStep, OwnersKeptStep, PreparedStep,
   SelectionsReadStep, SpecsAgreeStep, AnnouncedStep, DocumentsStep, OutputMatchesStep
DEF Inductive

LEMMA StutterInductive == ASSUME Inductive, UNCHANGED vars PROVE Inductive'
<1> USE DEF vars, cluster, controller, Inductive
<1>1. TypeOK'
  BY StutterTypeOK
<1>2. CopiesCurrent' /\ UidsBorn'
  BY DEF CopiesCurrent, UidsBorn
<1>3. OwnersKept' /\ PreparedForOutput' /\ SelectionsRead'
  BY DEF OwnersKept, PreparedForOutput, SelectionsRead, CopiesOfThis, Exists, Adopted
<1>4. SpecsAgree'
  BY DEF SpecsAgree, CopiesOfThis, Exists, Unedited
<1>5. OutputAnnounced' /\ OutputMatchesSpec'
  BY DEF OutputAnnounced, OutputMatchesSpec, OwnConfigMap, OwnPolicy, Exists, Unedited, Adopted
<1>6. RulesOnce' /\ ValuesAccepted'
  BY DEF RulesOnce, ValuesAccepted, Documents
<1> QED BY <1>1, <1>2, <1>3, <1>4, <1>5, <1>6

\* The strengthening holds in every reachable state.
THEOREM InductiveInvariant == Spec => []Inductive
<1>1. Inductive /\ [Next]_vars => Inductive'
  BY NextInductive, StutterInductive
<1> QED BY <1>1, InitInductive, PTL DEF Spec

\* No ConfigMap or Policy of the TailoredProfile that exists without an owner in its
\* ownerReferences and an outputRef in its status.
THEOREM OutputIsAnnounced == Spec => []OutputAnnounced
<1>1. Inductive => OutputAnnounced
  BY DEF Inductive
<1> QED BY <1>1, InductiveInvariant, PTL

\* No document ever names a Rule object twice.
THEOREM RulesAreOnce == Spec => []RulesOnce
<1>1. Inductive => RulesOnce
  BY DEF Inductive
<1> QED BY <1>1, InductiveInvariant, PTL

\* No document ever sets a variable to a value of another type or one not offered.
THEOREM ValuesAreAccepted == Spec => []ValuesAccepted
<1>1. Inductive => ValuesAccepted
  BY DEF Inductive
<1> QED BY <1>1, InductiveInvariant, PTL

\* As long as the user edits nothing, an output is of the type that the spec asks
\* for and says what the spec says, from its creation on.
THEOREM OutputIsOfSpec == Spec => []OutputMatchesSpec
<1>1. Inductive => OutputMatchesSpec
  BY DEF Inductive
<1> QED BY <1>1, InductiveInvariant, PTL

\* The state of a TailoredProfile is only written by a Reconcile that has the
\* incarnation and the spec in hand that are there when it writes.
THEOREM StateIsOfThisSpec == Spec => StateOfThisSpec
<1> DEFINE Allowed == Exists /\ tp'.uid = tp.uid /\ tp'.state # tp.state
                        => instance.uid = tp.uid /\ instance.spec = tp.spec
<1>1. ASSUME Inductive, Next PROVE Allowed
  <2> SUFFICES ASSUME Exists, tp'.uid = tp.uid, tp'.state # tp.state
               PROVE  instance = tp
    OBVIOUS
  <2> USE DEF Exists
  <2>1. CASE OtherStep
    BY <2>1, OtherStepEffect
  <2>2. CASE \E s \in Specs : CreateTailored(s)
    BY <2>2 DEF CreateTailored
  <2>3. ASSUME NEW s \in Specs, EditTailored(s) PROVE FALSE
    <3>1. tp' = [tp EXCEPT !.spec = s] /\ tp \in Tailored
      BY <1>1, <2>3 DEF EditTailored, WriteTailored, Inductive, TypeOK, ClusterTypeOK
    <3> QED BY <3>1 DEF Tailored
  <2>4. CASE DeleteTailored \/ CollectTailored
    BY <2>4, AbsentType DEF DeleteTailored, CollectTailored, WriteTailored
  <2>5. CASE SyncTailored \/ DropOwners
    BY <1>1, <2>5, DropEffect DEF SyncTailored, Inductive, TypeOK
  <2>6. CASE ControllerNext
    <3>1. CASE \E lost \in BOOLEAN : \/ SetOutputType(lost) \/ Adopt(lost)
                                     \/ SetReady(lost) \/ SetError(lost)
      BY <1>1, <3>1, WriteEffect DEF Inductive
    <3>2. CASE \/ GetTailored \/ OperatorRestarts
               \/ \E lost \in BOOLEAN : CreateOutput(lost)
      BY <3>2, CreateEffect DEF GetTailored, OperatorRestarts
    <3>3. CASE GetProfile \/ GetBundle \/ ReadSelection \/ GetOutput \/ Refused \/ CallFails
      BY <3>3, ReadEffect
    <3> QED BY <2>6, <3>1, <3>2, <3>3, ControllerSteps
  <2> QED BY <1>1, <2>1, <2>2, <2>3, <2>4, <2>5, <2>6, NextSteps
<1>2. Inductive /\ [Next]_vars => [Allowed]_vars
  BY <1>1
<1> QED BY <1>2, InductiveInvariant, PTL DEF Spec, StateOfThisSpec

\* No step takes a Profile that exists off the owners of a TailoredProfile that stays,
\* or the last one.
THEOREM OwnersDoStay == Spec => OwnersStay
<1> DEFINE Allowed == Exists /\ tp'.uid = tp.uid /\ Adopted(tp)
                        => /\ Adopted(tp')
                           /\ \A p \in Profiles : tp.owners[p] # 0 /\ tp'.owners[p] = 0
                                                    => tp.owners[p] # objs[p]
<1>1. ASSUME Inductive, Next PROVE Allowed
  <2>1. CASE Gone
    BY <2>1, AbsentType DEF Gone, Exists
  <2>2. CASE Born
    BY <1>1, <2>2, UidType DEF Born, Inductive, UidsBorn
  <2>3. CASE Lives
    BY <2>3 DEF Lives, Succeeds, Adopted
  <2> QED BY <1>1, <2>1, <2>2, <2>3, TailoredSteps
<1>2. Inductive /\ [Next]_vars => [Allowed]_vars
  BY <1>1
<1> QED BY <1>2, InductiveInvariant, PTL DEF Spec, OwnersStay
=============================================================================
