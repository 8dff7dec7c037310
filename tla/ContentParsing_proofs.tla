------------------------ MODULE ContentParsing_proofs ------------------------
(***************************************************************************)
(* Theorems about what the parser makes of a data stream, for all data     *)
(* streams, of any length, and any number of crashes.                      *)
(***************************************************************************)
EXTENDS ContentParsing, TLAPS, SequenceTheorems

-----------------------------------------------------------------------------
(* Sequences and the places of a data stream. *)

\* The elements of each kind, by their kind.
ElementOf == <<ProfileElement, RuleElement, ValueElement>>

LEMMA Streams ==
    ASSUME TypeOK
    PROVE  /\ doc[1] \in Seq(ProfileElement)
           /\ doc[2] \in Seq(RuleElement)
           /\ doc[3] \in Seq(ValueElement)
<1>1. doc \in Seq(ProfileElement) \X Seq(RuleElement) \X Seq(ValueElement)
  BY ParsingAssumption DEF TypeOK
<1> QED BY <1>1

LEMMA StreamOf ==
    ASSUME TypeOK, NEW p \in 1..3
    PROVE  doc[p] \in Seq(ElementOf[p])
<1>1. p = 1 \/ p = 2 \/ p = 3
  OBVIOUS
<1>2. /\ ElementOf[1] = ProfileElement
      /\ ElementOf[2] = RuleElement
      /\ ElementOf[3] = ValueElement
  BY DEF ElementOf
<1> QED BY <1>1, <1>2, Streams

\* A place is a pass and a position in the elements of that pass.
LEMMA PlaceIs ==
    ASSUME TypeOK, NEW p \in 1..3, NEW i
    PROVE  <<p, i>> \in Places <=> i \in 1..Len(doc[p])
<1>1. DOMAIN doc[p] = 1..Len(doc[p])
  BY StreamOf
<1> QED BY <1>1 DEF Places

LEMMA PlaceParts ==
    ASSUME TypeOK, NEW q \in Places
    PROVE  /\ q[1] \in 1..3 /\ q[2] \in 1..Len(doc[q[1]]) /\ q = <<q[1], q[2]>>
           /\ At(q) \in ElementOf[q[1]]
<1>1. PICK p \in 1..3 : q \in {<<p, i>> : i \in DOMAIN doc[p]}
  BY DEF Places
<1>2. PICK i \in DOMAIN doc[p] : q = <<p, i>>
  BY <1>1
<1>3. doc[p] \in Seq(ElementOf[p])
  BY StreamOf
<1>4. i \in 1..Len(doc[p]) /\ doc[p][i] \in ElementOf[p]
  BY <1>3
<1>5. q[1] = p /\ q[2] = i
  BY <1>2
<1> QED BY <1>2, <1>4, <1>5 DEF At

\* The element being handled has a place.
LEMMA Here ==
    ASSUME TypeOK, pos <= Len(Elements)
    PROVE  <<pass, pos>> \in Places /\ At(<<pass, pos>>) = Element /\ Element \in ElementOf[pass]
<1>1. pass \in 1..3 /\ pos \in Nat \ {0} /\ Elements = doc[pass]
  BY DEF TypeOK, Elements
<1>2. doc[pass] \in Seq(ElementOf[pass])
  BY <1>1, StreamOf
<1>3. pos \in 1..Len(doc[pass])
  BY <1>1, <1>2
<1>4. At(<<pass, pos>>) = Element
  BY DEF At, Element, Elements
<1>5. Element \in ElementOf[pass]
  BY <1>2, <1>3 DEF Element, Elements
<1> QED BY <1>1, <1>3, <1>4, <1>5, PlaceIs

\* What an element of each kind consists of.
LEMMA Kinds ==
    ElementOf[1] = ProfileElement /\ ElementOf[2] = RuleElement /\ ElementOf[3] = ValueElement
BY DEF ElementOf

SelectChild == [idref: Ids \cup {Empty}, selected: BOOLEAN]
FixChild == [system: STRING, platform: STRING, object: STRING]
ReferenceChild == [href: STRING, text: Texts]
ValueChild == [selector: STRING, text: STRING]

LEMMA ProfileParts ==
    ASSUME NEW e \in ProfileElement
    PROVE  /\ e.id \in Ids \cup {Empty} /\ e.titled \in BOOLEAN
           /\ e.select \in Seq(SelectChild)
           /\ e.setValue \in Seq(STRING)
BY DEF ProfileElement, SelectChild

LEMMA RuleParts ==
    ASSUME NEW e \in RuleElement
    PROVE  /\ e.id \in Ids \cup {Empty} /\ e.titled \in BOOLEAN
           /\ e.fix \in Seq(FixChild)
           /\ e.reference \in Seq(ReferenceChild)
BY DEF RuleElement, FixChild, ReferenceChild

LEMMA ValueParts ==
    ASSUME NEW e \in ValueElement
    PROVE  /\ e.id \in Ids \cup {Empty} /\ e.titled \in BOOLEAN
           /\ e.hidden \in BOOLEAN /\ e.type \in STRING
           /\ e.value \in Seq(ValueChild)
BY DEF ValueElement, ValueChild

LEMMA IdOfElement ==
    ASSUME NEW p \in 1..3, NEW e \in ElementOf[p]
    PROVE  e.id \in Ids \cup {Empty}
<1>1. p = 1 \/ p = 2 \/ p = 3
  OBVIOUS
<1>2. CASE p = 1
  <2>1. e \in ProfileElement
    BY <1>2, Kinds
  <2> QED BY <2>1, ProfileParts
<1>3. CASE p = 2
  <2>1. e \in RuleElement
    BY <1>3, Kinds
  <2> QED BY <2>1, RuleParts
<1>4. CASE p = 3
  <2>1. e \in ValueElement
    BY <1>4, Kinds
  <2> QED BY <2>1, ValueParts
<1> QED BY <1>1, <1>2, <1>3, <1>4

\* A good element has a name.
LEMMA Named ==
    ASSUME NEW p \in 1..3, NEW e \in ElementOf[p], e.id # Empty
    PROVE  NameOf[e.id] \in STRING
<1>1. e.id \in Ids
  BY IdOfElement
<1> QED BY <1>1, ParsingAssumption

-----------------------------------------------------------------------------
(* Lists that grow by one item *)

\* What appending does to a sequence's elements.
LEMMA Appended ==
    ASSUME NEW S, NEW list \in Seq(S), NEW x \in S
    PROVE  /\ Append(list, x) \in Seq(S)
           /\ Len(Append(list, x)) = Len(list) + 1
           /\ DOMAIN Append(list, x) = DOMAIN list \cup {Len(list) + 1}
           /\ DOMAIN list = 1..Len(list)
           /\ \A i \in DOMAIN list : Append(list, x)[i] = list[i]
           /\ Append(list, x)[Len(list) + 1] = x
OBVIOUS

LEMMA AppendedRange ==
    ASSUME NEW S, NEW list \in Seq(S), NEW x \in S
    PROVE  Range(Append(list, x)) = Range(list) \cup {x}
<1> DEFINE new == Append(list, x)
<1>1. /\ DOMAIN new = DOMAIN list \cup {Len(list) + 1}
      /\ \A i \in DOMAIN list : new[i] = list[i]
      /\ new[Len(list) + 1] = x
  BY Appended
<1> HIDE DEF new
<1>2. Range(new) = Range(list) \cup {x}
  BY <1>1 DEF Range
<1> QED BY <1>2 DEF new

\* What joining does.
LEMMA Joined ==
    ASSUME NEW S, NEW list \in Seq(S), NEW more \in Seq(S)
    PROVE  list \o more \in Seq(S) /\ Range(list \o more) = Range(list) \cup Range(more)
<1> DEFINE new == list \o more
<1>1. /\ new \in Seq(S) /\ Len(new) = Len(list) + Len(more)
      /\ \A i \in 1..Len(list) : new[i] = list[i]
      /\ \A i \in 1..Len(more) : new[Len(list) + i] = more[i]
      /\ Len(list) \in Nat /\ Len(more) \in Nat
  OBVIOUS
<1>2. /\ DOMAIN new = 1..Len(new)
      /\ DOMAIN list = 1..Len(list)
      /\ DOMAIN more = 1..Len(more)
  BY <1>1
<1> HIDE DEF new
<1>3. Range(new) \subseteq Range(list) \cup Range(more)
  <2> SUFFICES ASSUME NEW i \in 1..Len(new) PROVE new[i] \in Range(list) \cup Range(more)
    BY <1>2 DEF Range
  <2>1. CASE i <= Len(list)
    <3>1. i \in DOMAIN list
      BY <1>1, <1>2, <2>1
    <3> QED BY <1>1, <1>2, <3>1 DEF Range
  <2>2. CASE i > Len(list)
    <3>1. i - Len(list) \in 1..Len(more) /\ i = Len(list) + (i - Len(list))
      BY <1>1, <2>2
    <3>2. new[i] = more[i - Len(list)]
      BY <1>1, <3>1
    <3> QED BY <1>2, <3>1, <3>2 DEF Range
  <2> QED BY <1>1, <2>1, <2>2
<1>4. Range(list) \subseteq Range(new)
  <2> SUFFICES ASSUME NEW i \in 1..Len(list) PROVE list[i] \in Range(new)
    BY <1>2 DEF Range
  <2>1. i \in 1..Len(new) /\ new[i] = list[i]
    BY <1>1
  <2> QED BY <1>2, <2>1 DEF Range
<1>5. Range(more) \subseteq Range(new)
  <2> SUFFICES ASSUME NEW i \in 1..Len(more) PROVE more[i] \in Range(new)
    BY <1>2 DEF Range
  <2>1. Len(list) + i \in 1..Len(new) /\ new[Len(list) + i] = more[i]
    BY <1>1
  <2> QED BY <1>2, <2>1 DEF Range
<1> QED BY <1>1, <1>3, <1>4, <1>5 DEF new

\* A new item for the next position, which comes after all others.
LEMMA EnumeratesOneMore ==
    ASSUME NEW n \in Nat, NEW positions \in SUBSET (1..n),
           NEW S, NEW list \in Seq(S), NEW x \in S,
           NEW f, Enumerates(f, list, positions),
           NEW g, g = [i \in DOMAIN Append(list, x) |-> IF i \in DOMAIN list THEN f[i] ELSE n + 1]
    PROVE  /\ g \in [DOMAIN Append(list, x) -> positions \cup {n + 1}]
           /\ Enumerates(g, Append(list, x), positions \cup {n + 1})
<1> DEFINE new == Append(list, x)
           l == Len(list)
<1>1. /\ DOMAIN new = DOMAIN list \cup {l + 1}
      /\ DOMAIN list = 1..l /\ l \in Nat
  BY Appended
<1>2. f \in [1..l -> positions] /\ Range(f) = positions
  BY <1>1 DEF Enumerates
<1>0. g = [i \in DOMAIN new |-> IF i \in DOMAIN list THEN f[i] ELSE n + 1]
  OBVIOUS
<1> HIDE DEF new, l
<1>3. DOMAIN g = 1..(l + 1) /\ DOMAIN new = 1..(l + 1)
  BY <1>0, <1>1
<1>4. (\A i \in 1..l : g[i] = f[i]) /\ g[l + 1] = n + 1
  BY <1>0, <1>1, <1>3
<1>5. g \in [DOMAIN new -> positions \cup {n + 1}]
  BY <1>0, <1>1, <1>2
<1>6. Range(g) = positions \cup {n + 1}
  <2>1. \A i \in 1..(l + 1) : i \in 1..l \/ i = l + 1
    BY <1>1
  <2>2. 1..l \subseteq 1..(l + 1) /\ l + 1 \in 1..(l + 1)
    BY <1>1
  <2>3. DOMAIN f = 1..l /\ positions = {f[i] : i \in 1..l}
    BY <1>2 DEF Range
  <2>4. Range(g) = {g[i] : i \in 1..(l + 1)}
    BY <1>3 DEF Range
  <2>5. Range(g) \subseteq positions \cup {n + 1}
    BY <1>4, <2>1, <2>3, <2>4
  <2>6. positions \cup {n + 1} \subseteq Range(g)
    BY <1>4, <2>2, <2>3, <2>4
  <2> QED BY <2>5, <2>6
<1>7. ASSUME NEW i \in 1..(l + 1), NEW j \in 1..(l + 1), i < j PROVE g[i] < g[j]
  <2>a. i \in 1..l
    BY <1>1, <1>7
  <2>b. f[i] \in positions
    BY <1>2, <2>a
  <2>1. g[i] = f[i] /\ f[i] \in 1..n
    BY <1>4, <2>a, <2>b
  <2>2. CASE j \in 1..l
    <3>1. i \in DOMAIN list /\ j \in DOMAIN list
      BY <1>1, <2>2, <2>a
    <3>2. f[i] < f[j]
      BY <1>7, <3>1 DEF Enumerates
    <3> QED BY <1>4, <2>1, <2>2, <3>2
  <2>3. CASE j = l + 1
    BY <1>4, <2>1, <2>3
  <2> QED BY <1>1, <2>2, <2>3
<1> QED BY <1>3, <1>5, <1>6, <1>7 DEF Enumerates, new

\* list has, in order, the items that the positions have.
Itemized(list, positions, item) ==
    \E f \in [DOMAIN list -> positions] :
      /\ Enumerates(f, list, positions)
      /\ \A i \in DOMAIN list : list[i] = item[f[i]]

LEMMA ItemizedOneMore ==
    ASSUME NEW n \in Nat, NEW positions \in SUBSET (1..n),
           NEW S, NEW list \in Seq(S), NEW item, item[n + 1] \in S,
           Itemized(list, positions, item)
    PROVE  Itemized(Append(list, item[n + 1]), positions \cup {n + 1}, item)
<1> DEFINE x == item[n + 1]
           new == Append(list, x)
<1>0. PICK f \in [DOMAIN list -> positions] :
        /\ Enumerates(f, list, positions)
        /\ \A i \in DOMAIN list : list[i] = item[f[i]]
  BY DEF Itemized
<1> DEFINE g == [i \in DOMAIN new |-> IF i \in DOMAIN list THEN f[i] ELSE n + 1]
<1>1. /\ DOMAIN new = DOMAIN list \cup {Len(list) + 1} /\ DOMAIN list = 1..Len(list)
      /\ \A i \in DOMAIN list : new[i] = list[i]
      /\ new[Len(list) + 1] = x /\ Len(list) \in Nat
  BY Appended
<1>2. g = [i \in DOMAIN new |-> IF i \in DOMAIN list THEN f[i] ELSE n + 1]
  OBVIOUS
<1> HIDE DEF g
<1>3. g \in [DOMAIN new -> positions \cup {n + 1}] /\ Enumerates(g, new, positions \cup {n + 1})
  BY <1>0, <1>2, EnumeratesOneMore
<1>x. x = item[n + 1]
  OBVIOUS
<1> HIDE DEF new, x
<1>4. ASSUME NEW i \in DOMAIN new PROVE new[i] = item[g[i]]
  <2>1. CASE i \in DOMAIN list
    BY <1>0, <1>1, <1>2, <2>1
  <2>2. CASE i = Len(list) + 1
    <3>1. i \notin DOMAIN list
      BY <1>1, <2>2
    <3> QED BY <1>x, <1>1, <1>2, <2>2, <3>1
  <2> QED BY <1>1, <2>1, <2>2
<1> QED BY <1>3, <1>4 DEF new, x, Itemized

\* Nothing is listed of no positions.
LEMMA EnumeratesNone ==
    \E f \in [DOMAIN <<>> -> {}] : Enumerates(f, <<>>, {})
<1>1. <<>> \in [DOMAIN <<>> -> {}] /\ DOMAIN <<>> = {}
  OBVIOUS
<1> QED BY <1>1 DEF Enumerates, Range

-----------------------------------------------------------------------------
(* What each child adds keeps the type of the object and its id. *)

LEMMA SelectType ==
    ASSUME NEW p \in ProfileObj, NEW sel \in SelectChild
    PROVE  AddSelect(p, sel) \in ProfileObj /\ AddSelect(p, sel).id = p.id
<1>1. CASE sel.idref # Empty /\ sel.selected
  <2>1. RuleName(sel.idref) \in STRING
    BY <1>1, ParsingAssumption DEF RuleName, SelectChild
  <2>a. p.rules \in Seq(STRING)
    BY DEF ProfileObj
  <2>2. Append(p.rules, RuleName(sel.idref)) \in Seq(STRING)
    BY <2>1, <2>a, Appended
  <2> QED BY <1>1, <2>2 DEF AddSelect, ProfileObj
<1>2. CASE ~(sel.idref # Empty /\ sel.selected)
  BY <1>2 DEF AddSelect
<1> QED BY <1>1, <1>2

LEMMA SetValueType ==
    ASSUME NEW p \in ProfileObj, NEW idref \in STRING
    PROVE  /\ AddSetValue(p, idref) \in ProfileObj
           /\ AddSetValue(p, idref).id = p.id /\ AddSetValue(p, idref).rules = p.rules
<1>1. Append(p.values, idref) \in Seq(STRING)
  BY DEF ProfileObj
<1> QED BY <1>1 DEF AddSetValue, ProfileObj

LEMMA FixType ==
    ASSUME NEW r \in RuleObj, NEW fix \in FixChild
    PROVE  /\ AddFix(r, fix) \in RuleObj /\ AddFix(r, fix).id = r.id
           /\ AddFix(r, fix).control = r.control /\ AddFix(r, fix).standards = r.standards
           /\ AddFix(r, fix).controls = r.controls
<1>1. [platform |-> fix.platform, object |-> fix.object] \in [platform: STRING, object: STRING]
  BY DEF FixChild
<1>2. Append(r.fixes, [platform |-> fix.platform, object |-> fix.object])
        \in Seq([platform: STRING, object: STRING])
  BY <1>1 DEF RuleObj
<1> QED BY <1>2 DEF AddFix, RuleObj

\* A list of pieces stays one.
LEMMA AppendType ==
    ASSUME NEW list \in Seq(Texts), NEW item \in Texts, NEW sep \in Separators
    PROVE  AppendWithSep(list, item, sep) \in Seq(Texts)
<1>1. Pieces[item][sep] \in Seq(Texts)
  BY ParsingAssumption
<1>2. list \o Pieces[item][sep] \in Seq(Texts)
  BY <1>1
<1> QED BY <1>2 DEF AppendWithSep

LEMMA AnnotatedType ==
    ASSUME NEW r \in RuleObj, NEW text \in Texts
    PROVE  LET a == Annotated(r, text)
           IN  /\ a \in RuleObj /\ a.id = r.id /\ a.fixes = r.fixes
               /\ a.control = AppendWithSep(r.control, text, ";")
               /\ a.standards = AppendWithSep(r.standards, Standard, ",")
               /\ a.controls = AppendWithSep(r.controls, text, ",")
<1>1. /\ r.control \in Seq(Texts)
      /\ r.standards \in Seq(Texts)
      /\ r.controls \in Seq(Texts)
  BY DEF RuleObj
<1>2. Standard \in Texts /\ ";" \in Separators /\ "," \in Separators
  BY ParsingAssumption DEF Separators
<1>3. /\ AppendWithSep(r.control, text, ";") \in Seq(Texts)
      /\ AppendWithSep(r.standards, Standard, ",") \in Seq(Texts)
      /\ AppendWithSep(r.controls, text, ",") \in Seq(Texts)
  BY <1>1, <1>2, AppendType
<1> QED BY <1>3 DEF Annotated, RuleObj

LEMMA ReferenceType ==
    ASSUME NEW r \in RuleObj, NEW ref \in ReferenceChild
    PROVE  /\ AddReference(r, ref) \in RuleObj /\ AddReference(r, ref).id = r.id
           /\ AddReference(r, ref).fixes = r.fixes
<1>1. ref.text \in Texts
  BY DEF ReferenceChild
<1> QED BY <1>1, AnnotatedType DEF AddReference

LEMMA ValueType ==
    ASSUME NEW v \in VariableObj, NEW val \in ValueChild
    PROVE  AddValue(v, val) \in VariableObj /\ AddValue(v, val).id = v.id
<1>1. [description |-> val.selector, value |-> val.text] \in [description: STRING, value: STRING]
  BY DEF ValueChild
<1>2. v.selections \in Seq([description: STRING, value: STRING])
  BY DEF VariableObj
<1>3. Append(v.selections, [description |-> val.selector, value |-> val.text])
        \in Seq([description: STRING, value: STRING])
  BY <1>1, <1>2
<1>4. val.text \in STRING
  BY DEF ValueChild
<1>5. CASE IsDefault(val)
  BY <1>4, <1>5 DEF AddValue, VariableObj
<1>6. CASE ~IsDefault(val)
  BY <1>3, <1>6 DEF AddValue, VariableObj
<1> QED BY <1>5, <1>6

\* The object begins as one of the pass.
LEMMA NewType ==
    ASSUME NEW p \in 1..3, NEW e \in ElementOf[p], e.id # Empty,
           NEW o, o = NewObject(p, e)
    PROVE  o \in ObjectOf[p] /\ o.id = e.id
<1>1. e.id \in Ids
  BY IdOfElement
<1>a. ObjectOf[1] = ProfileObj /\ ObjectOf[2] = RuleObj /\ ObjectOf[3] = VariableObj
  BY DEF ObjectOf
<1>b. \A S : <<>> \in Seq(S)
  BY EmptySeq
<1>2. CASE p = 1
  <2>1. o = [id |-> e.id, rules |-> <<>>, values |-> <<>>]
    BY <1>2 DEF NewObject
  <2>2. o \in ProfileObj
    BY <1>1, <1>b, <2>1 DEF ProfileObj
  <2> QED BY <1>2, <1>a, <2>1, <2>2
<1>3. CASE p = 2
  <2>1. o = [id |-> e.id, fixes |-> <<>>,
                        control |-> <<>>, standards |-> <<>>, controls |-> <<>>]
    BY <1>3 DEF NewObject
  <2>2. o \in RuleObj
    BY <1>1, <1>b, <2>1 DEF RuleObj
  <2> QED BY <1>3, <1>a, <2>1, <2>2
<1>4. CASE p = 3
  <2>1. o = [id |-> e.id, type |-> VariableType(e.type),
                        value |-> Empty, selections |-> <<>>]
    BY <1>4 DEF NewObject
  <2>2. VariableType(e.type) \in {"number", "bool", "string"}
    BY DEF VariableType
  <2>3. o \in VariableObj
    BY <1>1, <1>b, <2>1, <2>2 DEF VariableObj
  <2> QED BY <1>4, <1>a, <2>1, <2>3
<1> QED BY <1>2, <1>3, <1>4

-----------------------------------------------------------------------------
(* What a step of a loop does: a turn, or leaving it. *)

LEMMA Child ==
    ASSUME NEW S, NEW list \in Seq(S), NEW i \in Nat \ {0}
    PROVE  /\ i <= Len(list) <=> i \in 1..Len(list)
           /\ i \in 1..Len(list) => list[i] \in S
OBVIOUS

\* While an object is built it is of the pass, and the loop too.
LEMMA InLoop ==
    ASSUME TypeOK, Building
    PROVE  /\ pass \in 1..3 /\ pos \in Nat \ {0} /\ k \in Nat \ {0}
           /\ <<pass, pos>> \in Places /\ At(<<pass, pos>>) = Element
           /\ \/ /\ pass = 1 /\ pc \in {"select", "setValue", "create"}
                 /\ obj \in ProfileObj /\ Element \in ProfileElement
              \/ /\ pass = 2 /\ pc \in {"fix", "reference", "create"}
                 /\ obj \in RuleObj /\ Element \in RuleElement
              \/ /\ pass = 3 /\ pc \in {"value", "create"}
                 /\ obj \in VariableObj /\ Element \in ValueElement
<1>1. /\ pass \in 1..3 /\ pos \in Nat \ {0} /\ k \in Nat \ {0} /\ pos <= Len(Elements)
      /\ obj \in ObjectOf[pass] /\ pc \in LoopsOf[pass]
  BY DEF TypeOK, Building
<1>2. /\ <<pass, pos>> \in Places
      /\ At(<<pass, pos>>) = Element
      /\ Element \in ElementOf[pass]
  BY <1>1, Here
<1>3. /\ LoopsOf[1] = {"select", "setValue", "create"}
      /\ LoopsOf[2] = {"fix", "reference", "create"}
      /\ LoopsOf[3] = {"value", "create"}
  BY DEF LoopsOf
<1>4. ObjectOf[1] = ProfileObj /\ ObjectOf[2] = RuleObj /\ ObjectOf[3] = VariableObj
  BY DEF ObjectOf
<1>5. pass = 1 \/ pass = 2 \/ pass = 3
  BY <1>1
<1> QED BY <1>1, <1>2, <1>3, <1>4, <1>5, Kinds

\* A turn of the loop pc, which makes new of the object, or the step on to next.
Turned(children, new, next) ==
    \/ /\ k \in 1..Len(children) /\ k' = k + 1 /\ pc' = pc
       /\ obj' = new
    \/ /\ k \notin 1..Len(children) /\ k' = 1 /\ pc' = next
       /\ obj' = obj

OnlyObject == UNCHANGED <<doc, pass, pos, objs, failed, crashes>>

LEMMA SelectsStep ==
    ASSUME TypeOK, Selects
    PROVE  /\ pc = "select" /\ pass = 1 /\ obj \in ProfileObj /\ Element \in ProfileElement
           /\ k \in 1..Len(Element.select)
                => Element.select[k] \in SelectChild
           /\ Turned(Element.select, AddSelect(obj, Element.select[k]), "setValue")
           /\ OnlyObject
<1>1. Building /\ pc = "select"
  BY DEF Selects, Building
<1>2. /\ k \in Nat \ {0} /\ pass = 1
      /\ obj \in ProfileObj /\ Element \in ProfileElement
  BY <1>1, InLoop
<1>3. Element.select \in Seq(SelectChild)
  BY <1>2, ProfileParts
<1>4. /\ k \in 1..Len(Element.select)
           => Element.select[k] \in SelectChild
      /\ k <= Len(Element.select) <=> k \in 1..Len(Element.select)
  BY <1>2, <1>3, Child
<1> QED BY <1>1, <1>2, <1>4 DEF Selects, Turn, Turned, OnlyObject

LEMMA SetValuesStep ==
    ASSUME TypeOK, SetValues
    PROVE  /\ pc = "setValue" /\ pass = 1 /\ obj \in ProfileObj /\ Element \in ProfileElement
           /\ k \in 1..Len(Element.setValue) => Element.setValue[k] \in STRING
           /\ Turned(Element.setValue, AddSetValue(obj, Element.setValue[k]), "create")
           /\ OnlyObject
<1>1. Building /\ pc = "setValue"
  BY DEF SetValues, Building
<1>2. /\ k \in Nat \ {0} /\ pass = 1
      /\ obj \in ProfileObj /\ Element \in ProfileElement
  BY <1>1, InLoop
<1>3. Element.setValue \in Seq(STRING)
  BY <1>2, ProfileParts
<1>4. /\ k \in 1..Len(Element.setValue) => Element.setValue[k] \in STRING
      /\ k <= Len(Element.setValue) <=> k \in 1..Len(Element.setValue)
  BY <1>2, <1>3, Child
<1> QED BY <1>1, <1>2, <1>4 DEF SetValues, Turn, Turned, OnlyObject

LEMMA FixesStep ==
    ASSUME TypeOK, Fixes
    PROVE  /\ pc = "fix" /\ pass = 2 /\ obj \in RuleObj /\ Element \in RuleElement
           /\ k \in 1..Len(Element.fix)
                => Element.fix[k] \in FixChild
           /\ Turned(Element.fix, AddFix(obj, Element.fix[k]), "reference")
           /\ OnlyObject
<1>1. Building /\ pc = "fix"
  BY DEF Fixes, Building
<1>2. /\ k \in Nat \ {0} /\ pass = 2
      /\ obj \in RuleObj /\ Element \in RuleElement
  BY <1>1, InLoop
<1>3. Element.fix \in Seq(FixChild)
  BY <1>2, RuleParts
<1>4. /\ k \in 1..Len(Element.fix)
           => Element.fix[k] \in FixChild
      /\ k <= Len(Element.fix) <=> k \in 1..Len(Element.fix)
  BY <1>2, <1>3, Child
<1> QED BY <1>1, <1>2, <1>4 DEF Fixes, Turn, Turned, OnlyObject

LEMMA ReferencesStep ==
    ASSUME TypeOK, References
    PROVE  /\ pc = "reference" /\ pass = 2 /\ obj \in RuleObj /\ Element \in RuleElement
           /\ k \in 1..Len(Element.reference)
                => Element.reference[k] \in ReferenceChild
           /\ Turned(Element.reference, AddReference(obj, Element.reference[k]), "create")
           /\ OnlyObject
<1>1. Building /\ pc = "reference"
  BY DEF References, Building
<1>2. /\ k \in Nat \ {0} /\ pass = 2
      /\ obj \in RuleObj /\ Element \in RuleElement
  BY <1>1, InLoop
<1>3. Element.reference \in Seq(ReferenceChild)
  BY <1>2, RuleParts
<1>4. /\ k \in 1..Len(Element.reference)
           => Element.reference[k] \in ReferenceChild
      /\ k <= Len(Element.reference) <=> k \in 1..Len(Element.reference)
  BY <1>2, <1>3, Child
<1> QED BY <1>1, <1>2, <1>4 DEF References, Turn, Turned, OnlyObject

LEMMA ValuesStep ==
    ASSUME TypeOK, Values
    PROVE  /\ pc = "value" /\ pass = 3 /\ obj \in VariableObj /\ Element \in ValueElement
           /\ k \in 1..Len(Element.value)
                => /\ Element.value[k] \in ValueChild
                   /\ ~SecondDefault(obj, Element.value[k])
           /\ Turned(Element.value, AddValue(obj, Element.value[k]), "create")
           /\ OnlyObject
<1>1. Building /\ pc = "value"
  BY DEF Values, Building
<1>2. /\ k \in Nat \ {0} /\ pass = 3
      /\ obj \in VariableObj /\ Element \in ValueElement
  BY <1>1, InLoop
<1>3. Element.value \in Seq(ValueChild)
  BY <1>2, ValueParts
<1>4. /\ k \in 1..Len(Element.value) => Element.value[k] \in ValueChild
      /\ k <= Len(Element.value) <=> k \in 1..Len(Element.value)
  BY <1>2, <1>3, Child
<1> QED BY <1>1, <1>2, <1>4 DEF Values, Turn, Turned, OnlyObject, SecondDefaultNext

-----------------------------------------------------------------------------
(* Type correctness *)

LEMMA CrashesNat == Crashes \in Nat
BY ParsingAssumption

LEMMA InitTypeOK == ASSUME Init PROVE TypeOK
<1>1. DOMAIN objs = {} /\ doc \in Docs /\ crashes \in 0..Crashes
  BY CrashesNat DEF Init
<1>2. ~Building /\ pc \in {"begin", "done"} \cup LoopsOf[pass]
  BY DEF Init, Building
<1>3. pass = 1 /\ pos = 1 /\ k = 1 /\ failed = FALSE
  BY DEF Init
<1>4. pass \in 1..3 /\ pos \in Nat \ {0} /\ k \in Nat \ {0}
  BY <1>3
<1>5. failed \in BOOLEAN
  BY <1>3
<1> QED BY <1>1, <1>2, <1>4, <1>5 DEF TypeOK

\* A turn keeps the type of the object, leaving the loop too.
LEMMA LoopTypeOK ==
    ASSUME TypeOK, Building, OnlyObject, NEW children, NEW new, NEW next \in LoopsOf[pass],
           Turned(children, new, next), k \in 1..Len(children) => new \in ObjectOf[pass]
    PROVE  TypeOK'
<1>1. /\ k \in Nat \ {0} /\ obj \in ObjectOf[pass] /\ pc \in LoopsOf[pass]
      /\ pass \in 1..3 /\ pos <= Len(Elements)
  BY DEF TypeOK, Building
<1>2. k' \in Nat \ {0} /\ obj' \in ObjectOf[pass] /\ pc' \in LoopsOf[pass]
  BY <1>1 DEF Turned
<1>3. Elements' = Elements /\ pass' = pass
  BY DEF OnlyObject, Elements
<1> QED BY <1>1, <1>2, <1>3 DEF TypeOK, Building, OnlyObject

LEMMA LoopsTypeOK ==
    ASSUME TypeOK, Selects \/ SetValues \/ Fixes \/ References \/ Values
    PROVE  TypeOK'
<1>1. /\ LoopsOf[1] = {"select", "setValue", "create"}
      /\ LoopsOf[2] = {"fix", "reference", "create"}
      /\ LoopsOf[3] = {"value", "create"}
  BY DEF LoopsOf
<1>2. ObjectOf[1] = ProfileObj /\ ObjectOf[2] = RuleObj /\ ObjectOf[3] = VariableObj
  BY DEF ObjectOf
<1>3. Building
  BY DEF Building, Selects, SetValues, Fixes, References, Values
<1>4. CASE Selects
  <2>1. "setValue" \in LoopsOf[pass] /\ ObjectOf[pass] = ProfileObj
    BY <1>1, <1>2, <1>4, SelectsStep
  <2> QED BY <1>3, <1>4, <2>1, SelectsStep, SelectType, LoopTypeOK
<1>5. CASE SetValues
  <2>1. "create" \in LoopsOf[pass] /\ ObjectOf[pass] = ProfileObj
    BY <1>1, <1>2, <1>5, SetValuesStep
  <2> QED BY <1>3, <1>5, <2>1, SetValuesStep, SetValueType, LoopTypeOK
<1>6. CASE Fixes
  <2>1. "reference" \in LoopsOf[pass] /\ ObjectOf[pass] = RuleObj
    BY <1>1, <1>2, <1>6, FixesStep
  <2> QED BY <1>3, <1>6, <2>1, FixesStep, FixType, LoopTypeOK
<1>7. CASE References
  <2>1. "create" \in LoopsOf[pass] /\ ObjectOf[pass] = RuleObj
    BY <1>1, <1>2, <1>7, ReferencesStep
  <2> QED BY <1>3, <1>7, <2>1, ReferencesStep, ReferenceType, LoopTypeOK
<1>8. CASE Values
  <2>1. "create" \in LoopsOf[pass] /\ ObjectOf[pass] = VariableObj
    BY <1>1, <1>2, <1>8, ValuesStep
  <2> QED BY <1>3, <1>8, <2>1, ValuesStep, ValueType, LoopTypeOK
<1> QED BY <1>4, <1>5, <1>6, <1>7, <1>8

\* An element that has a place and no fault has a name.
LEMMA CurrentNamed ==
    ASSUME TypeOK, pos <= Len(Elements), ~Hidden(pass, Element), ~Malformed(pass, Element)
    PROVE  Element.id # Empty /\ NameOf[Element.id] \in STRING
<1>1. pass \in 1..3 /\ Element \in ElementOf[pass]
  BY Here DEF TypeOK
<1>2. Element.id # Empty
  BY DEF Malformed
<1> QED BY <1>1, <1>2, Named

\* When the next element is begun, or parsing starts anew.
LEMMA BeginTypeOK ==
    ASSUME TypeOK, doc' = doc, pass' \in 1..3, pos' \in Nat \ {0}, k' \in Nat \ {0},
           pc' \in {"begin", "done"}, failed' \in BOOLEAN, crashes' \in 0..Crashes,
           \A key \in DOMAIN objs' :
             key \in (1..3) \X STRING /\ objs'[key] \in ObjectOf[key[1]]
    PROVE  TypeOK'
BY DEF TypeOK, Building

\* Creating keeps what exists.
LEMMA CreateEffect ==
    ASSUME TypeOK, Create
    PROVE  LET key == <<pass, NameOf[Element.id]>>
           IN  /\ Building /\ NextElement
               /\ DOMAIN objs' = DOMAIN objs \cup {key}
               /\ \A x \in DOMAIN objs : objs'[x] = objs[x]
               /\ key \notin DOMAIN objs => objs'[key] = obj
<1> DEFINE key == <<pass, NameOf[Element.id]>>
<1>1. /\ objs' = [x \in DOMAIN objs \cup {key} |-> IF x \in DOMAIN objs THEN objs[x] ELSE obj]
      /\ pc = "create" /\ NextElement
  BY DEF Create
<1> HIDE DEF key
<1> QED BY <1>1 DEF key, Building

\* The element whose object is built has a name, as the object has its id.
LEMMA BuiltNamed ==
    ASSUME TypeOK, BuiltSoFar, Building
    PROVE  NameOf[Element.id] \in STRING
<1>1. obj.id = Element.id
  BY DEF BuiltSoFar
<1>2. obj.id \in Ids
  BY InLoop DEF ProfileObj, RuleObj, VariableObj
<1> QED BY <1>1, <1>2, ParsingAssumption

LEMMA StepTypeOK ==
    ASSUME TypeOK, BuiltSoFar, Next
    PROVE  TypeOK'
<1>1. /\ pass \in 1..3 /\ pos \in Nat \ {0} /\ k \in Nat \ {0}
      /\ pos + 1 \in Nat \ {0} /\ 1 \in Nat \ {0}
      /\ failed \in BOOLEAN /\ crashes \in 0..Crashes
      /\ \A key \in DOMAIN objs :
           key \in (1..3) \X STRING /\ objs[key] \in ObjectOf[key[1]]
  BY DEF TypeOK
<1>2. CASE Selects \/ SetValues \/ Fixes \/ References \/ Values
  BY <1>2, LoopsTypeOK
<1>3. ASSUME NextElement, UNCHANGED objs PROVE TypeOK'
  BY <1>1, <1>3, BeginTypeOK DEF NextElement
<1>4. CASE BeginElement
  <2>1. CASE Hidden(pass, Element) /\ NextElement
    BY <1>3, <1>4, <2>1 DEF BeginElement
  <2>2. CASE /\ failed' = TRUE /\ pc' = "done"
             /\ UNCHANGED <<doc, pass, pos, k, obj, crashes, objs>>
    BY <1>1, <2>2, BeginTypeOK
  <2>3. CASE /\ ~Hidden(pass, Element) /\ ~Malformed(pass, Element)
             /\ obj' = NewObject(pass, Element) /\ pc' = FirstLoop[pass]
             /\ UNCHANGED <<doc, pass, pos, k, failed, crashes, objs>>
    <3>1. pos <= Len(Elements)
      BY <1>4 DEF BeginElement
    <3>2. Element \in ElementOf[pass] /\ Element.id # Empty
      BY <2>3, <3>1, Here, CurrentNamed
    <3>3. obj' \in ObjectOf[pass]
      BY <1>1, <2>3, <3>2, NewType
    <3>4. pc' \in LoopsOf[pass]
      <4>1. pass = 1 \/ pass = 2 \/ pass = 3
        BY <1>1
      <4> QED BY <2>3, <4>1 DEF FirstLoop, LoopsOf
    <3>5. Elements' = Elements
      BY <2>3 DEF Elements
    <3> QED BY <1>1, <2>3, <3>1, <3>3, <3>4, <3>5 DEF TypeOK, Building
  <2> QED BY <1>4, <2>1, <2>2, <2>3 DEF BeginElement
<1>5. CASE SkipVariable
  BY <1>3, <1>5 DEF SkipVariable
<1>6. CASE Create
  <2> DEFINE key == <<pass, NameOf[Element.id]>>
  <2>1. Building
    BY <1>6, CreateEffect
  <2>2. key \in (1..3) \X STRING /\ key[1] = pass /\ obj \in ObjectOf[pass]
    BY <1>1, <2>1, BuiltNamed DEF TypeOK
  <2>3. /\ DOMAIN objs' = DOMAIN objs \cup {key}
        /\ \A x \in DOMAIN objs : objs'[x] = objs[x]
        /\ key \notin DOMAIN objs => objs'[key] = obj
        /\ NextElement
    BY <1>6, CreateEffect
  <2> HIDE DEF key
  <2>4. \A x \in DOMAIN objs' : x \in (1..3) \X STRING /\ objs'[x] \in ObjectOf[x[1]]
    BY <1>1, <2>2, <2>3
  <2> QED BY <1>1, <2>3, <2>4, BeginTypeOK DEF NextElement
<1>7. CASE EndPass
  <2>1. pass' \in 1..3 /\ pos' \in Nat \ {0} /\ pc' \in {"begin", "done"}
    BY <1>1, <1>7 DEF EndPass
  <2> QED BY <1>1, <1>7, <2>1, BeginTypeOK DEF EndPass
<1>8. CASE ParserDies
  <2>1. crashes' \in 0..Crashes
    BY <1>1, <1>8, CrashesNat DEF ParserDies
  <2>2. pass' \in 1..3 /\ pos' \in Nat \ {0} /\ k' \in Nat \ {0}
    BY <1>8 DEF ParserDies
  <2> QED BY <1>1, <1>8, <2>1, <2>2, BeginTypeOK DEF ParserDies
<1> QED BY <1>2, <1>4, <1>5, <1>6, <1>7, <1>8 DEF Next

-----------------------------------------------------------------------------
(* The loops: what the first n children give, and the next one. *)

LEMMA OneMore ==
    ASSUME NEW n \in Nat
    PROVE  1..(n + 1) = 1..n \cup {n + 1} /\ n + 1 \notin 1..n
OBVIOUS

\* A Profile's rules, as the names of the children that count.
LEMMA RulesItemized ==
    ASSUME NEW e, NEW n \in Nat, NEW m \in Nat, n <= m, NEW rules,
           NEW item, item = [j \in 1..m |-> NameOf[e.select[j].idref]]
    PROVE  RulesOf(e, n, rules) <=> Itemized(rules, Chosen(e, n), item)
<1>1. ASSUME NEW f \in [DOMAIN rules -> Chosen(e, n)], NEW i \in DOMAIN rules
      PROVE  item[f[i]] = NameOf[e.select[f[i]].idref]
  <2>1. f[i] \in 1..m
    BY DEF Chosen
  <2> QED BY <2>1
<1> QED BY <1>1 DEF RulesOf, Itemized

LEMMA RulesMore ==
    ASSUME NEW e \in ProfileElement, NEW p \in ProfileObj, NEW n \in Nat,
           e.select[n + 1] \in SelectChild, RulesOf(e, n, p.rules)
    PROVE  RulesOf(e, n + 1, AddSelect(p, e.select[n + 1]).rules)
<1> DEFINE sel == e.select[n + 1]
           counts == sel.selected /\ sel.idref # Empty
           old == p.rules
<1>1. 1..(n + 1) = 1..n \cup {n + 1}
  BY OneMore
<1>2. old \in Seq(STRING)
  BY DEF ProfileObj
<1>3. CASE counts
  <2> DEFINE item == [j \in 1..(n + 1) |-> NameOf[e.select[j].idref]]
  <2>1. item[n + 1] = NameOf[sel.idref] /\ NameOf[sel.idref] \in STRING
    <3>1. n + 1 \in 1..(n + 1) /\ sel.idref \in Ids
      BY <1>3 DEF SelectChild
    <3> QED BY <3>1, ParsingAssumption
  <2>2. AddSelect(p, sel).rules = Append(old, NameOf[sel.idref])
    BY <1>3 DEF AddSelect, RuleName, ProfileObj
  <2>3. Chosen(e, n + 1) = Chosen(e, n) \cup {n + 1} /\ Chosen(e, n) \in SUBSET (1..n)
    BY <1>1, <1>3 DEF Chosen
  <2>4. item = [j \in 1..(n + 1) |-> NameOf[e.select[j].idref]]
    OBVIOUS
  <2> HIDE DEF item
  <2>5. n + 1 \in Nat /\ n <= n + 1 /\ n + 1 <= n + 1
    OBVIOUS
  <2>6. Itemized(old, Chosen(e, n), item)
    BY <2>4, <2>5, RulesItemized
  <2> HIDE DEF old
  <2>7. Itemized(Append(old, item[n + 1]), Chosen(e, n) \cup {n + 1}, item)
    BY <1>2, <2>1, <2>3, <2>6, ItemizedOneMore
  <2>8. RulesOf(e, n + 1, Append(old, item[n + 1]))
    BY <2>3, <2>4, <2>5, <2>7, RulesItemized
  <2> QED BY <2>1, <2>2, <2>8 DEF old
<1>4. CASE ~counts
  <2>1. Chosen(e, n + 1) = Chosen(e, n)
    BY <1>1, <1>4 DEF Chosen
  <2>2. AddSelect(p, sel).rules = old
    BY <1>4 DEF AddSelect
  <2> QED BY <2>1, <2>2 DEF RulesOf
<1> QED BY <1>3, <1>4

\* A Rule's fixes.
LEMMA FixesMore ==
    ASSUME NEW e \in RuleElement, NEW r \in RuleObj, NEW n \in Nat,
           e.fix[n + 1] \in FixChild, FixesOf(e, n, r.fixes),
           \A l \in 1..n : Usable(e.fix[l]) => HasPlatform(r, e.fix[l].platform)
    PROVE  LET new == AddFix(r, e.fix[n + 1])
           IN  /\ FixesOf(e, n + 1, new.fixes)
               /\ \A l \in 1..(n + 1) : Usable(e.fix[l]) => HasPlatform(new, e.fix[l].platform)
<1> DEFINE fix == e.fix[n + 1]
           old == r.fixes
           First(m) == {j \in 1..m : FirstUsable(e, j)}
           Offers(m) == {Offer(e.fix[i]) : i \in First(m)}
           adds == Usable(fix) /\ ~HasPlatform(r, fix.platform)
<1>1. 1..(n + 1) = 1..n \cup {n + 1} /\ (n + 1) - 1 = n
  BY OneMore
<1>2. old \in Seq([platform: STRING, object: STRING]) /\ Offer(fix) \in [platform: STRING, object: STRING]
  BY DEF RuleObj, FixChild, Offer
<1>3. /\ \A i, j \in DOMAIN old : old[i].platform = old[j].platform => i = j
      /\ Range(old) = Offers(n)
  BY DEF FixesOf
<1>4. HasPlatform(r, fix.platform)
        <=> \E l \in 1..n : Usable(e.fix[l]) /\ e.fix[l].platform = fix.platform
  <2>1. ASSUME NEW i \in DOMAIN old, old[i].platform = fix.platform
        PROVE  \E l \in 1..n : Usable(e.fix[l]) /\ e.fix[l].platform = fix.platform
    <3>1. old[i] \in Offers(n)
      BY <1>3 DEF Range
    <3>2. PICK j \in First(n) : old[i] = Offer(e.fix[j])
      BY <3>1
    <3> QED BY <2>1, <3>2 DEF FirstUsable, Offer
  <2> QED BY <2>1 DEF HasPlatform
<1>5. FirstUsable(e, n + 1) <=> adds
  BY <1>1, <1>4 DEF FirstUsable
<1>6. CASE adds
  <2> DEFINE new == Append(old, Offer(fix))
  <2>1. AddFix(r, fix) = [r EXCEPT !.fixes = new]
    BY <1>6 DEF AddFix, Usable, Relevant, Readable, Offer
  <2>2. AddFix(r, fix).fixes = new
    BY <2>1 DEF RuleObj
  <2>3. First(n + 1) = First(n) \cup {n + 1}
    BY <1>1, <1>5, <1>6
  <2>4. Offers(n + 1) = Offers(n) \cup {Offer(fix)}
    BY <2>3
  <2>5. Range(new) = Range(old) \cup {Offer(fix)}
    <3> DEFINE S == [platform: STRING, object: STRING]
               x == Offer(fix)
    <3>1. old \in Seq(S) /\ x \in S
      BY <1>2
    <3> HIDE DEF S, x, old
    <3>2. Range(Append(old, x)) = Range(old) \cup {x}
      BY <3>1, AppendedRange
    <3> QED BY <3>2 DEF x
  <2>6. /\ DOMAIN new = DOMAIN old \cup {Len(old) + 1}
        /\ \A i \in DOMAIN old : new[i] = old[i]
        /\ new[Len(old) + 1] = Offer(fix)
    BY <1>2, Appended
  <2> HIDE DEF new
  <2>7. \A i \in DOMAIN old : old[i].platform # Offer(fix).platform
    BY <1>6 DEF HasPlatform, Offer
  <2>8. \A i, j \in DOMAIN new : new[i].platform = new[j].platform => i = j
    BY <1>3, <2>6, <2>7
  <2>9. FixesOf(e, n + 1, new)
    BY <1>3, <2>4, <2>5, <2>8 DEF FixesOf
  <2>10. ASSUME NEW l \in 1..(n + 1), Usable(e.fix[l])
         PROVE  \E i \in DOMAIN new : new[i].platform = e.fix[l].platform
    <3>1. CASE l \in 1..n
      BY <2>6, <2>10, <3>1 DEF HasPlatform
    <3>2. CASE l = n + 1
      BY <2>6, <3>2 DEF Offer
    <3> QED BY <1>1, <3>1, <3>2
  <2> QED BY <2>2, <2>9, <2>10 DEF HasPlatform
<1>7. CASE ~adds
  <2>1. AddFix(r, fix) = r
    BY <1>7 DEF AddFix, Usable, Relevant, Readable
  <2>2. First(n + 1) = First(n)
    BY <1>1, <1>5, <1>7
  <2>3. FixesOf(e, n + 1, old)
    BY <1>3, <2>2 DEF FixesOf
  <2> QED BY <1>1, <1>7, <2>1, <2>3
<1> QED BY <1>6, <1>7

\* A Rule's annotations: the pieces of one text more.
LEMMA OwnPiece ==
    ASSUME NEW text \in Texts, NEW sep \in Separators
    PROVE  /\ Pieces[text][sep] \in Seq(Texts)
           /\ \A item \in Range(Pieces[text][sep]) : Pieces[item][sep] = <<item>>
<1>1. /\ Pieces \in [Texts -> [Separators -> Seq(Texts)]]
      /\ \A i \in DOMAIN Pieces[text][sep] :
           Pieces[Pieces[text][sep][i]][sep] = <<Pieces[text][sep][i]>>
  BY ParsingAssumption
<1>2. Pieces[text][sep] \in Seq(Texts)
  BY <1>1
<1> QED BY <1>1, <1>2 DEF Range

PiecesOf(texts, sep) == UNION {Range(Pieces[text][sep]) : text \in texts}

LEMMA AppendPieces ==
    ASSUME NEW sep \in Separators, NEW list \in Seq(Texts), NEW item \in Texts,
           NEW texts \in SUBSET Texts, Range(list) = PiecesOf(texts, sep)
    PROVE  Range(AppendWithSep(list, item, sep)) = PiecesOf(texts \cup {item}, sep)
<1>1. PiecesOf(texts \cup {item}, sep) = Range(list) \cup Range(Pieces[item][sep])
  BY DEF PiecesOf
<1>2. CASE Lists(list, item)
  <2>1. item \in Range(list)
    BY <1>2 DEF Lists, Range
  <2>2. PICK text \in texts : item \in Range(Pieces[text][sep])
    BY <2>1 DEF PiecesOf
  <2>3. Pieces[item][sep] = <<item>>
    BY <2>2, OwnPiece
  <2>4. Range(<<item>>) = {item}
    BY DEF Range
  <2> QED BY <1>1, <1>2, <2>1, <2>3, <2>4 DEF AppendWithSep
<1>3. CASE ~Lists(list, item)
  <2> DEFINE more == Pieces[item][sep]
  <2>1. AppendWithSep(list, item, sep) = list \o more
    BY <1>3 DEF AppendWithSep
  <2>2. more \in Seq(Texts)
    BY OwnPiece
  <2>3. PiecesOf(texts \cup {item}, sep) = Range(list) \cup Range(more)
    BY <1>1
  <2> HIDE DEF more
  <2>4. Range(list \o more) = Range(list) \cup Range(more)
    BY <2>2, Joined
  <2> QED BY <2>1, <2>3, <2>4
<1> QED BY <1>2, <1>3

LEMMA AppendOnce ==
    ASSUME NEW sep \in Separators, NEW list \in Seq(Texts), NEW item \in Texts,
           Pieces[item][sep] = <<item>>, Once(list)
    PROVE  Once(AppendWithSep(list, item, sep))
<1>1. CASE Lists(list, item)
  BY <1>1 DEF AppendWithSep
<1>2. CASE ~Lists(list, item)
  <2> DEFINE new == Append(list, item)
  <2>1. list \o <<item>> = new
    OBVIOUS
  <2>2. AppendWithSep(list, item, sep) = new
    BY <1>2, <2>1 DEF AppendWithSep
  <2>3. /\ DOMAIN new = DOMAIN list \cup {Len(list) + 1}
        /\ \A i \in DOMAIN list : new[i] = list[i]
        /\ new[Len(list) + 1] = item
    BY Appended
  <2>4. \A i \in DOMAIN list : list[i] # item
    BY <1>2 DEF Lists
  <2> HIDE DEF new
  <2>5. Once(new)
    BY <2>3, <2>4 DEF Once
  <2> QED BY <2>2, <2>5
<1> QED BY <1>1, <1>2

LEMMA Listed ==
    ASSUME NEW x
    PROVE  ~Lists(<<>>, x) /\ Lists(<<x>>, x) /\ <<>> \o <<x>> = <<x>>
<1>1. ~Lists(<<>>, x)
  BY DEF Lists
<1>2. DOMAIN <<x>> = {1} /\ <<x>>[1] = x
  OBVIOUS
<1>3. Lists(<<x>>, x)
  BY <1>2 DEF Lists
<1>4. <<>> \o <<x>> = <<x>>
  OBVIOUS
<1> QED BY <1>1, <1>3, <1>4

\* ... and of one reference more.
LEMMA ControlsMore ==
    ASSUME NEW e \in RuleElement, NEW r \in RuleObj, NEW n \in Nat,
           n + 1 \in 1..Len(e.reference), ControlsOf(e, n, r), OnceOf(e, r)
    PROVE  LET new == AddReference(r, e.reference[n + 1])
           IN  new.fixes = r.fixes /\ ControlsOf(e, n + 1, new) /\ OnceOf(e, new)
<1> DEFINE ref == e.reference[n + 1]
           text == ref.text
           texts == TextsOf(e, n)
           whole == TextsOf(e, Len(e.reference))
<1>1. 1..(n + 1) = 1..n \cup {n + 1}
  BY OneMore
<1>2. /\ e.reference \in Seq(ReferenceChild) /\ Len(e.reference) \in Nat
      /\ \A i \in 1..Len(e.reference) : e.reference[i] \in ReferenceChild
      /\ 1..n \subseteq 1..Len(e.reference)
  BY RuleParts
<1>3. text \in Texts /\ texts \in SUBSET Texts
  <2>1. \A i \in 1..Len(e.reference) : e.reference[i].text \in Texts
    BY <1>2 DEF ReferenceChild
  <2> QED BY <1>2, <2>1 DEF TextsOf
<1>4. CASE Registered(ref.href)
  <2> DEFINE new == Annotated(r, text)
  <2>1. AddReference(r, ref) = new
    BY <1>4 DEF AddReference
  <2>2. TextsOf(e, n + 1) = texts \cup {text} /\ text \in whole
    BY <1>1, <1>4 DEF TextsOf, Registered
  <2>3. /\ new.fixes = r.fixes
        /\ new.control = AppendWithSep(r.control, text, ";")
        /\ new.standards = AppendWithSep(r.standards, Standard, ",")
        /\ new.controls = AppendWithSep(r.controls, text, ",")
    BY <1>3, AnnotatedType
  <2>4. /\ r.control \in Seq(Texts) /\ r.controls \in Seq(Texts)
        /\ ";" \in Separators /\ "," \in Separators
    BY DEF RuleObj, Separators
  <2> HIDE DEF new, text, texts, whole
  <2>5. Controls(e, n, ";") = PiecesOf(texts, ";") /\ Controls(e, n, ",") = PiecesOf(texts, ",")
    BY DEF Controls, PiecesOf, texts
  <2>6. /\ Controls(e, n + 1, ";") = PiecesOf(texts \cup {text}, ";")
        /\ Controls(e, n + 1, ",") = PiecesOf(texts \cup {text}, ",")
    BY <2>2 DEF Controls, PiecesOf
  <2>7. Range(new.control) = Controls(e, n + 1, ";")
    <3>1. Range(r.control) = PiecesOf(texts, ";")
      BY <2>5 DEF ControlsOf
    <3>2. Range(AppendWithSep(r.control, text, ";")) = PiecesOf(texts \cup {text}, ";")
      BY <1>3, <2>4, <3>1, AppendPieces
    <3> QED BY <2>3, <2>6, <3>2
  <2>8. Range(new.controls) = Controls(e, n + 1, ",")
    <3>1. Range(r.controls) = PiecesOf(texts, ",")
      BY <2>5 DEF ControlsOf
    <3>2. Range(AppendWithSep(r.controls, text, ",")) = PiecesOf(texts \cup {text}, ",")
      BY <1>3, <2>4, <3>1, AppendPieces
    <3> QED BY <2>3, <2>6, <3>2
  <2>9. new.standards = <<Standard>>
    <3>1. r.standards = <<>> \/ r.standards = <<Standard>>
      BY DEF ControlsOf
    <3>2. Pieces[Standard][","] = <<Standard>>
      BY ParsingAssumption
    <3>3. /\ AppendWithSep(<<>>, Standard, ",") = <<Standard>>
          /\ AppendWithSep(<<Standard>>, Standard, ",") = <<Standard>>
      <4> DEFINE one == <<Standard>>
                 none == <<>>
      <4>1. ~Lists(none, Standard) /\ Lists(one, Standard) /\ none \o one = one
        BY Listed
      <4>2. Pieces[Standard][","] = one
        BY <3>2
      <4> HIDE DEF one, none
      <4>3. AppendWithSep(none, Standard, ",") = one
        BY <4>1, <4>2 DEF AppendWithSep
      <4>4. AppendWithSep(one, Standard, ",") = one
        BY <4>1 DEF AppendWithSep
      <4> QED BY <4>3, <4>4 DEF one, none
    <3> QED BY <2>3, <3>1, <3>3
  <2>10. ControlsOf(e, n + 1, new)
    BY <2>2, <2>7, <2>8, <2>9 DEF ControlsOf
  <2>11. OneEach(e, ";") => Once(new.control)
    <3>1. OneEach(e, ";") => Pieces[text][";"] = <<text>>
      BY <2>2 DEF OneEach, whole
    <3> QED BY <1>3, <2>3, <2>4, <3>1, AppendOnce DEF OnceOf
  <2>12. OneEach(e, ",") => Once(new.controls)
    <3>1. OneEach(e, ",") => Pieces[text][","] = <<text>>
      BY <2>2 DEF OneEach, whole
    <3> QED BY <1>3, <2>3, <2>4, <3>1, AppendOnce DEF OnceOf
  <2>13. OnceOf(e, new)
    BY <2>11, <2>12 DEF OnceOf
  <2> QED BY <2>1, <2>3, <2>10, <2>13
<1>5. CASE ~Registered(ref.href)
  <2>1. AddReference(r, ref) = r
    BY <1>5 DEF AddReference
  <2>2. TextsOf(e, n + 1) = TextsOf(e, n)
    BY <1>1, <1>5 DEF TextsOf, Registered
  <2>3. ControlsOf(e, n + 1, r)
    BY <2>2 DEF ControlsOf, Controls
  <2> QED BY <2>1, <2>3
<1> QED BY <1>4, <1>5

\* A Variable's choices, as those of the children that are alternatives.
LEMMA ChoicesItemized ==
    ASSUME NEW e, NEW n \in Nat, NEW m \in Nat, n <= m, NEW v,
           NEW item, \A j \in 1..m : item[j] = Choice(e.value[j])
    PROVE  ValuesOf(e, n, v) <=>
             /\ {v.value} \cup {Empty} = {Empty} \cup {e.value[i].text : i \in Defaults(e, n)}
             /\ Itemized(v.selections, Alternatives(e, n), item)
<1>1. ASSUME NEW f \in [DOMAIN v.selections -> Alternatives(e, n)],
             NEW i \in DOMAIN v.selections
      PROVE  item[f[i]] = Choice(e.value[f[i]])
  <2>1. f[i] \in 1..m
    BY DEF Alternatives
  <2> QED BY <2>1
<1>2. Itemized(v.selections, Alternatives(e, n), item)
        <=> \E f \in [DOMAIN v.selections -> Alternatives(e, n)] :
              /\ Enumerates(f, v.selections, Alternatives(e, n))
              /\ \A i \in DOMAIN v.selections : v.selections[i] = Choice(e.value[f[i]])
  BY <1>1 DEF Itemized
<1> QED BY <1>2, Zenon DEF ValuesOf

LEMMA ValuesMore ==
    ASSUME NEW e \in ValueElement, NEW v \in VariableObj, NEW n \in Nat,
           e.value[n + 1] \in ValueChild, ValuesOf(e, n, v), ~TwoDefaults(e, n),
           ~SecondDefault(v, e.value[n + 1])
    PROVE  /\ ValuesOf(e, n + 1, AddValue(v, e.value[n + 1]))
           /\ ~TwoDefaults(e, n + 1)
<1> DEFINE val == e.value[n + 1]
           new == AddValue(v, val)
           item == [j \in 1..(n + 1) |-> Choice(e.value[j])]
<1>1. /\ 1..(n + 1) = 1..n \cup {n + 1} /\ n + 1 \notin 1..n
      /\ n + 1 \in 1..(n + 1) /\ n + 1 \in Nat /\ n <= n + 1 /\ n + 1 <= n + 1
  BY OneMore
<1>2. (\A j \in 1..(n + 1) : item[j] = Choice(e.value[j])) /\ item[n + 1] = Choice(val)
  BY <1>1
<1>3. /\ {v.value} \cup {Empty} = {Empty} \cup {e.value[i].text : i \in Defaults(e, n)}
      /\ Itemized(v.selections, Alternatives(e, n), item)
  <2> HIDE DEF item
  <2> QED BY <1>1, <1>2, ChoicesItemized
<1>4. CASE IsDefault(val)
  <2>1. new.value = val.text /\ new.selections = v.selections
    BY <1>4 DEF AddValue, VariableObj
  <2>2. Defaults(e, n + 1) = Defaults(e, n) \cup {n + 1}
    BY <1>1, <1>4 DEF Defaults, IsDefault
  <2>3. Alternatives(e, n + 1) = Alternatives(e, n)
    BY <1>1, <2>2 DEF Alternatives, Defaults
  <2>4. v.value = Empty
    BY <1>4 DEF SecondDefault
  <2>5. \A i \in Defaults(e, n) : e.value[i].text = Empty
    BY <1>3, <2>4
  <2>6. {new.value} \cup {Empty} = {Empty} \cup {e.value[i].text : i \in Defaults(e, n + 1)}
    BY <1>3, <2>1, <2>2, <2>5
  <2>7. ~TwoDefaults(e, n + 1)
    <3>1. \A i, j \in Defaults(e, n + 1) : i < j => i \in Defaults(e, n)
      BY <1>1, <2>2 DEF Defaults
    <3> QED BY <2>5, <3>1 DEF TwoDefaults
  <2> HIDE DEF item, new
  <2>8. Itemized(new.selections, Alternatives(e, n + 1), item)
    BY <1>3, <2>1, <2>3
  <2>9. ValuesOf(e, n + 1, new)
    BY <1>1, <1>2, <2>6, <2>8, ChoicesItemized
  <2> QED BY <2>7, <2>9 DEF new
<1>5. CASE ~IsDefault(val)
  <2>1. new.value = v.value /\ new.selections = Append(v.selections, item[n + 1])
    BY <1>2, <1>5 DEF AddValue, VariableObj, Choice
  <2>2. Defaults(e, n + 1) = Defaults(e, n)
    BY <1>1, <1>5 DEF Defaults, IsDefault
  <2>3. /\ Alternatives(e, n + 1) = Alternatives(e, n) \cup {n + 1}
        /\ Alternatives(e, n) \in SUBSET (1..n)
    BY <1>1, <2>2 DEF Alternatives, Defaults
  <2>4. ~TwoDefaults(e, n + 1)
    BY <2>2 DEF TwoDefaults
  <2>5. /\ v.selections \in Seq([description: STRING, value: STRING])
        /\ item[n + 1] \in [description: STRING, value: STRING]
    BY <1>2 DEF VariableObj, ValueChild, Choice
  <2> HIDE DEF item, new
  <2>6. Itemized(new.selections, Alternatives(e, n + 1), item)
    <3> DEFINE S == [description: STRING, value: STRING]
               list == v.selections
               positions == Alternatives(e, n)
    <3>1. list \in Seq(S) /\ item[n + 1] \in S /\ positions \in SUBSET (1..n)
      BY <2>3, <2>5
    <3>2. Itemized(list, positions, item)
      BY <1>3
    <3> HIDE DEF S, list, positions
    <3>3. Itemized(Append(list, item[n + 1]), positions \cup {n + 1}, item)
      BY <3>1, <3>2, ItemizedOneMore
    <3> QED BY <2>1, <2>3, <3>3 DEF list, positions
  <2>7. {new.value} \cup {Empty} = {Empty} \cup {e.value[i].text : i \in Defaults(e, n + 1)}
    BY <1>3, <2>1, <2>2
  <2>8. ValuesOf(e, n + 1, new)
    BY <1>1, <1>2, <2>6, <2>7, ChoicesItemized
  <2> QED BY <2>4, <2>8 DEF new
<1> QED BY <1>4, <1>5

\* A second default spoils the element.
LEMMA SpoiledIsTwo ==
    ASSUME NEW e \in ValueElement, NEW v, NEW n \in Nat, n + 1 \in 1..Len(e.value),
           ValuesOf(e, n, v), SecondDefault(v, e.value[n + 1])
    PROVE  TwoDefaults(e, Len(e.value))
<1>1. Len(e.value) \in Nat
  BY ValueParts
<1>2. v.value # Empty /\ e.value[n + 1].selector = "none"
  BY DEF SecondDefault, IsDefault
<1>3. PICK i \in Defaults(e, n) : e.value[i].text = v.value
  BY <1>2 DEF ValuesOf
<1>4. /\ i \in Defaults(e, Len(e.value)) /\ n + 1 \in Defaults(e, Len(e.value))
      /\ i < n + 1
  BY <1>1, <1>2, <1>3 DEF Defaults
<1> QED BY <1>2, <1>3, <1>4 DEF TwoDefaults

-----------------------------------------------------------------------------
(* The object being built has what the children so far give. *)

\* In a turn the i-th child is added to what the first i - 1 give; on leaving the
\* loop, all are.
LEMMA Counted ==
    ASSUME NEW S, NEW list \in Seq(S), NEW i \in Nat \ {0}, i - 1 <= Len(list)
    PROVE  /\ i - 1 \in Nat /\ (i - 1) + 1 = i /\ (i + 1) - 1 = i
           /\ i \in 1..Len(list) => i <= Len(list) /\ list[i] \in S
           /\ i \notin 1..Len(list) => i - 1 = Len(list)
           /\ Len(list) <= Len(list)
OBVIOUS

LEMMA SelectsSoFar ==
    ASSUME TypeOK, BuiltSoFar, Selects
    PROVE  BuiltSoFar'
<1>1. /\ pc = "select" /\ pass = 1 /\ obj \in ProfileObj /\ Element \in ProfileElement
      /\ Turned(Element.select, AddSelect(obj, Element.select[k]), "setValue")
      /\ OnlyObject
  BY SelectsStep
<1>2. obj.id = Element.id /\ ~Bad(pass, Element) /\ Visible(pass, Element) /\ ProfileSoFar
  BY <1>1 DEF BuiltSoFar, Building
<1>3. Handled("select", Element.select) = k - 1
  BY <1>1 DEF Handled
<1>4. k - 1 <= Len(Element.select) /\ RulesOf(Element, k - 1, obj.rules)
  BY <1>2, <1>3 DEF ProfileSoFar
<1>5. Element.select \in Seq(SelectChild) /\ k \in Nat \ {0}
  BY <1>1, ProfileParts DEF TypeOK
<1>6. /\ k - 1 \in Nat /\ (k - 1) + 1 = k /\ (k + 1) - 1 = k
      /\ k \in 1..Len(Element.select)
           => k <= Len(Element.select) /\ Element.select[k] \in SelectChild
      /\ k \notin 1..Len(Element.select) => k - 1 = Len(Element.select)
      /\ Len(Element.select) <= Len(Element.select)
  BY <1>4, <1>5, Counted
<1>7. Element' = Element /\ pass' = pass
  BY <1>1 DEF OnlyObject, Element, Elements
<1>8. obj'.id = obj.id /\ ProfileSoFar'
  <2>1. CASE k \in 1..Len(Element.select)
    <3>1. /\ k' = k + 1 /\ pc' = "select"
          /\ obj' = AddSelect(obj, Element.select[k])
      BY <1>1, <2>1 DEF Turned
    <3>2. Handled("select", Element.select)' = k
      BY <1>6, <1>7, <3>1 DEF Handled
    <3>3. RulesOf(Element, k, obj'.rules)
      BY <1>1, <1>4, <1>6, <2>1, <3>1, RulesMore
    <3>4. obj'.id = obj.id
      BY <1>1, <1>6, <2>1, <3>1, SelectType
    <3> QED BY <1>6, <1>7, <2>1, <3>2, <3>3, <3>4 DEF ProfileSoFar
  <2>2. CASE k \notin 1..Len(Element.select)
    <3>1. pc' = "setValue" /\ obj' = obj
      BY <1>1, <2>2 DEF Turned
    <3>2. Handled("select", Element.select)' = Len(Element.select)
      BY <1>7, <3>1 DEF Handled
    <3> QED BY <1>4, <1>6, <1>7, <2>2, <3>1, <3>2 DEF ProfileSoFar
  <2> QED BY <2>1, <2>2
<1>9. pc' # "begin"
  BY <1>1 DEF Turned
<1> QED BY <1>1, <1>2, <1>7, <1>8, <1>9 DEF BuiltSoFar

LEMMA SetValuesSoFar ==
    ASSUME TypeOK, BuiltSoFar, SetValues
    PROVE  BuiltSoFar'
<1>1. /\ pc = "setValue" /\ pass = 1 /\ obj \in ProfileObj /\ Element \in ProfileElement
      /\ k \in 1..Len(Element.setValue) => Element.setValue[k] \in STRING
      /\ Turned(Element.setValue, AddSetValue(obj, Element.setValue[k]), "create")
      /\ OnlyObject
  BY SetValuesStep
<1>2. obj.id = Element.id /\ ~Bad(pass, Element) /\ Visible(pass, Element) /\ ProfileSoFar
  BY <1>1 DEF BuiltSoFar, Building
<1>3. Element' = Element /\ pass' = pass
  BY <1>1 DEF OnlyObject, Element, Elements
<1>4. obj'.id = obj.id /\ obj'.rules = obj.rules
  BY <1>1, SetValueType DEF Turned
<1>5. pc # "select" /\ pc' # "select"
  BY <1>1 DEF Turned
<1>6. Handled("select", Element.select)' = Handled("select", Element.select)
  BY <1>3, <1>5 DEF Handled
<1>7. ProfileSoFar'
  BY <1>2, <1>3, <1>4, <1>6 DEF ProfileSoFar
<1>8. pc' # "begin"
  BY <1>1 DEF Turned
<1> QED BY <1>1, <1>2, <1>3, <1>4, <1>7, <1>8 DEF BuiltSoFar

LEMMA FixesSoFar ==
    ASSUME TypeOK, BuiltSoFar, Fixes
    PROVE  BuiltSoFar'
<1>1. /\ pc = "fix" /\ pass = 2 /\ obj \in RuleObj /\ Element \in RuleElement
      /\ Turned(Element.fix, AddFix(obj, Element.fix[k]), "reference")
      /\ OnlyObject
  BY FixesStep
<1>2. obj.id = Element.id /\ ~Bad(pass, Element) /\ Visible(pass, Element) /\ RuleSoFar
  BY <1>1 DEF BuiltSoFar, Building
<1>3. Handled("fix", Element.fix) = k - 1 /\ References0 = 0
  BY <1>1 DEF Handled, References0
<1>4. /\ k - 1 <= Len(Element.fix) /\ FixesOf(Element, k - 1, obj.fixes)
      /\ \A l \in 1..(k - 1) :
           Usable(Element.fix[l]) => HasPlatform(obj, Element.fix[l].platform)
      /\ 0 <= Len(Element.reference) /\ ControlsOf(Element, 0, obj)
      /\ OnceOf(Element, obj)
  BY <1>2, <1>3 DEF RuleSoFar
<1>5. Element.fix \in Seq(FixChild) /\ k \in Nat \ {0}
  BY <1>1, RuleParts DEF TypeOK
<1>6. /\ k - 1 \in Nat /\ (k - 1) + 1 = k /\ (k + 1) - 1 = k
      /\ k \in 1..Len(Element.fix)
           => k <= Len(Element.fix) /\ Element.fix[k] \in FixChild
      /\ k \notin 1..Len(Element.fix) => k - 1 = Len(Element.fix)
      /\ Len(Element.fix) <= Len(Element.fix)
  BY <1>4, <1>5, Counted
<1>7. Element' = Element /\ pass' = pass
  BY <1>1 DEF OnlyObject, Element, Elements
<1>8. obj'.id = obj.id /\ RuleSoFar'
  <2>1. CASE k \in 1..Len(Element.fix)
    <3>1. k' = k + 1 /\ pc' = "fix" /\ obj' = AddFix(obj, Element.fix[k])
      BY <1>1, <2>1 DEF Turned
    <3>2. Handled("fix", Element.fix)' = k /\ References0' = 0
      BY <1>6, <1>7, <3>1 DEF Handled, References0
    <3>3. /\ FixesOf(Element, k, obj'.fixes)
          /\ \A l \in 1..k : Usable(Element.fix[l]) => HasPlatform(obj', Element.fix[l].platform)
      BY <1>1, <1>4, <1>6, <2>1, <3>1, FixesMore
    <3>4. /\ obj'.id = obj.id /\ obj'.control = obj.control
          /\ obj'.standards = obj.standards /\ obj'.controls = obj.controls
      BY <1>1, <1>6, <2>1, <3>1, FixType
    <3>5. ControlsOf(Element, 0, obj') /\ OnceOf(Element, obj')
      BY <1>4, <3>4 DEF ControlsOf, OnceOf
    <3> QED BY <1>4, <1>6, <1>7, <2>1, <3>2, <3>3, <3>4, <3>5 DEF RuleSoFar
  <2>2. CASE k \notin 1..Len(Element.fix)
    <3>1. pc' = "reference" /\ obj' = obj /\ k' = 1
      BY <1>1, <2>2 DEF Turned
    <3>2. Handled("fix", Element.fix)' = Len(Element.fix) /\ References0' = 0
      BY <1>7, <3>1 DEF Handled, References0
    <3> QED BY <1>4, <1>6, <1>7, <2>2, <3>1, <3>2 DEF RuleSoFar
  <2> QED BY <2>1, <2>2
<1>9. pc' # "begin"
  BY <1>1 DEF Turned
<1> QED BY <1>1, <1>2, <1>7, <1>8, <1>9 DEF BuiltSoFar

LEMMA ReferencesSoFar ==
    ASSUME TypeOK, BuiltSoFar, References
    PROVE  BuiltSoFar'
<1>1. /\ pc = "reference" /\ pass = 2 /\ obj \in RuleObj /\ Element \in RuleElement
      /\ Turned(Element.reference, AddReference(obj, Element.reference[k]), "create")
      /\ OnlyObject
  BY ReferencesStep
<1>2. obj.id = Element.id /\ ~Bad(pass, Element) /\ Visible(pass, Element) /\ RuleSoFar
  BY <1>1 DEF BuiltSoFar, Building
<1>3. Handled("fix", Element.fix) = Len(Element.fix) /\ References0 = k - 1
  BY <1>1 DEF Handled, References0
<1>4. /\ Len(Element.fix) <= Len(Element.fix) /\ FixesOf(Element, Len(Element.fix), obj.fixes)
      /\ \A l \in 1..Len(Element.fix) :
           Usable(Element.fix[l]) => HasPlatform(obj, Element.fix[l].platform)
      /\ k - 1 <= Len(Element.reference) /\ ControlsOf(Element, k - 1, obj)
      /\ OnceOf(Element, obj)
  BY <1>2, <1>3 DEF RuleSoFar
<1>5. Element.reference \in Seq(ReferenceChild) /\ k \in Nat \ {0}
  BY <1>1, RuleParts DEF TypeOK
<1>6. /\ k - 1 \in Nat /\ (k - 1) + 1 = k /\ (k + 1) - 1 = k
      /\ k \in 1..Len(Element.reference)
           => k <= Len(Element.reference) /\ Element.reference[k] \in ReferenceChild
      /\ k \notin 1..Len(Element.reference) => k - 1 = Len(Element.reference)
      /\ Len(Element.reference) <= Len(Element.reference)
  BY <1>4, <1>5, Counted
<1>7. Element' = Element /\ pass' = pass
  BY <1>1 DEF OnlyObject, Element, Elements
<1>8. obj'.id = obj.id /\ RuleSoFar'
  <2>1. CASE k \in 1..Len(Element.reference)
    <3>1. k' = k + 1 /\ pc' = "reference" /\ obj' = AddReference(obj, Element.reference[k])
      BY <1>1, <2>1 DEF Turned
    <3>2. Handled("fix", Element.fix)' = Len(Element.fix) /\ References0' = k
      BY <1>6, <1>7, <3>1 DEF Handled, References0
    <3>3. /\ obj'.fixes = obj.fixes
          /\ ControlsOf(Element, k, obj') /\ OnceOf(Element, obj')
      BY <1>1, <1>4, <1>6, <2>1, <3>1, ControlsMore
    <3>4. obj'.id = obj.id
      BY <1>1, <1>6, <2>1, <3>1, ReferenceType
    <3>5. /\ FixesOf(Element, Len(Element.fix), obj'.fixes)
          /\ \A l \in 1..Len(Element.fix) :
               Usable(Element.fix[l]) => HasPlatform(obj', Element.fix[l].platform)
      BY <1>4, <3>3 DEF HasPlatform
    <3> QED BY <1>4, <1>6, <1>7, <2>1, <3>2, <3>3, <3>4, <3>5 DEF RuleSoFar
  <2>2. CASE k \notin 1..Len(Element.reference)
    <3>1. pc' = "create" /\ obj' = obj
      BY <1>1, <2>2 DEF Turned
    <3>2. /\ Handled("fix", Element.fix)' = Len(Element.fix)
          /\ References0' = Len(Element.reference)
      BY <1>7, <3>1 DEF Handled, References0
    <3> QED BY <1>4, <1>6, <1>7, <2>2, <3>1, <3>2 DEF RuleSoFar
  <2> QED BY <2>1, <2>2
<1>9. pc' # "begin"
  BY <1>1 DEF Turned
<1> QED BY <1>1, <1>2, <1>7, <1>8, <1>9 DEF BuiltSoFar

LEMMA ValuesSoFar ==
    ASSUME TypeOK, BuiltSoFar, Values
    PROVE  BuiltSoFar'
<1>1. /\ pc = "value" /\ pass = 3 /\ obj \in VariableObj /\ Element \in ValueElement
      /\ k \in 1..Len(Element.value) => ~SecondDefault(obj, Element.value[k])
      /\ Turned(Element.value, AddValue(obj, Element.value[k]), "create")
      /\ OnlyObject
  BY ValuesStep
<1>2. obj.id = Element.id /\ ~Bad(pass, Element) /\ Visible(pass, Element) /\ VariableSoFar
  BY <1>1 DEF BuiltSoFar, Building
<1>3. Handled("value", Element.value) = k - 1
  BY <1>1 DEF Handled
<1>4. /\ k - 1 <= Len(Element.value) /\ ValuesOf(Element, k - 1, obj)
      /\ ~TwoDefaults(Element, k - 1)
  BY <1>2, <1>3 DEF VariableSoFar
<1>5. Element.value \in Seq(ValueChild) /\ k \in Nat \ {0}
  BY <1>1, ValueParts DEF TypeOK
<1>6. /\ k - 1 \in Nat /\ (k - 1) + 1 = k /\ (k + 1) - 1 = k
      /\ k \in 1..Len(Element.value)
           => k <= Len(Element.value) /\ Element.value[k] \in ValueChild
      /\ k \notin 1..Len(Element.value) => k - 1 = Len(Element.value)
      /\ Len(Element.value) <= Len(Element.value)
  BY <1>4, <1>5, Counted
<1>7. Element' = Element /\ pass' = pass
  BY <1>1 DEF OnlyObject, Element, Elements
<1>8. obj'.id = obj.id /\ VariableSoFar'
  <2>1. CASE k \in 1..Len(Element.value)
    <3>1. k' = k + 1 /\ pc' = "value" /\ obj' = AddValue(obj, Element.value[k])
      BY <1>1, <2>1 DEF Turned
    <3>2. Handled("value", Element.value)' = k
      BY <1>6, <1>7, <3>1 DEF Handled
    <3>3. ValuesOf(Element, k, obj') /\ ~TwoDefaults(Element, k)
      BY <1>1, <1>4, <1>6, <2>1, <3>1, ValuesMore
    <3>4. obj'.id = obj.id
      BY <1>1, <1>6, <2>1, <3>1, ValueType
    <3> QED BY <1>6, <1>7, <2>1, <3>2, <3>3, <3>4 DEF VariableSoFar
  <2>2. CASE k \notin 1..Len(Element.value)
    <3>1. pc' = "create" /\ obj' = obj
      BY <1>1, <2>2 DEF Turned
    <3>2. Handled("value", Element.value)' = Len(Element.value)
      BY <1>7, <3>1 DEF Handled
    <3> QED BY <1>4, <1>6, <1>7, <2>2, <3>1, <3>2 DEF VariableSoFar
  <2> QED BY <2>1, <2>2
<1>9. pc' # "begin"
  BY <1>1 DEF Turned
<1> QED BY <1>1, <1>2, <1>7, <1>8, <1>9 DEF BuiltSoFar

\* No children give nothing, which is what a new object has.
LEMMA NewProfile ==
    ASSUME NEW e \in ProfileElement
    PROVE  NewObject(1, e).rules = <<>> /\ RulesOf(e, 0, <<>>) /\ 0 <= Len(e.select)
<1>1. Chosen(e, 0) = {}
  BY DEF Chosen
<1>2. RulesOf(e, 0, <<>>)
  BY <1>1, EnumeratesNone DEF RulesOf
<1>3. 0 <= Len(e.select)
  BY ProfileParts
<1> QED BY <1>2, <1>3 DEF NewObject

LEMMA NewRule ==
    ASSUME NEW e \in RuleElement, NEW o, o = NewObject(2, e)
    PROVE  /\ FixesOf(e, 0, o.fixes) /\ ControlsOf(e, 0, o) /\ OnceOf(e, o)
           /\ 0 <= Len(e.fix) /\ 0 <= Len(e.reference)
<1>1. o.fixes = <<>> /\ o.control = <<>> /\ o.standards = <<>> /\ o.controls = <<>>
  BY DEF NewObject
<1>2. 1..0 = {} /\ DOMAIN <<>> = {} /\ Range(<<>>) = {}
  BY DEF Range
<1>3. FixesOf(e, 0, <<>>)
  BY <1>2 DEF FixesOf
<1>4. TextsOf(e, 0) = {}
  BY <1>2 DEF TextsOf
<1>5. ControlsOf(e, 0, o)
  BY <1>1, <1>2, <1>4 DEF ControlsOf, Controls
<1>6. Once(<<>>)
  BY <1>2 DEF Once
<1>7. OnceOf(e, o)
  BY <1>1, <1>6 DEF OnceOf
<1>8. 0 <= Len(e.fix) /\ 0 <= Len(e.reference)
  BY RuleParts
<1> QED BY <1>1, <1>3, <1>5, <1>7, <1>8

LEMMA NewVariable ==
    ASSUME NEW e \in ValueElement, NEW o, o = NewObject(3, e)
    PROVE  ValuesOf(e, 0, o) /\ ~TwoDefaults(e, 0) /\ 0 <= Len(e.value)
<1>1. o.value = Empty /\ o.selections = <<>>
  BY DEF NewObject
<1>2. Defaults(e, 0) = {} /\ Alternatives(e, 0) = {}
  BY DEF Defaults, Alternatives
<1>3. \E f \in [DOMAIN <<>> -> {}] :
        Enumerates(f, <<>>, {}) /\ \A i \in DOMAIN <<>> : <<>>[i] = Choice(e.value[f[i]])
  BY EnumeratesNone
<1>4. {o.value} \cup {Empty} = {Empty} \cup {e.value[i].text : i \in Defaults(e, 0)}
  BY <1>1, <1>2
<1>5. ValuesOf(e, 0, o)
  BY <1>1, <1>2, <1>3, <1>4 DEF ValuesOf
<1>6. 0 <= Len(e.value)
  BY ValueParts
<1> QED BY <1>2, <1>5, <1>6 DEF TwoDefaults

LEMMA BeginSoFar ==
    ASSUME TypeOK, pc = "begin", pos <= Len(Elements), BuiltSoFar,
           ~Hidden(pass, Element), ~Malformed(pass, Element),
           obj' = NewObject(pass, Element), pc' = FirstLoop[pass],
           UNCHANGED <<doc, pass, pos, k, failed, crashes>>
    PROVE  BuiltSoFar'
<1>1. pass \in 1..3 /\ Element \in ElementOf[pass]
  BY Here DEF TypeOK
<1>2. Element' = Element /\ pass' = pass /\ k' = 1 /\ k' - 1 = 0
  BY DEF Element, Elements, BuiltSoFar
<1>3. obj'.id = Element.id
  BY <1>1, CurrentNamed, NewType
<1>4. ~Bad(pass, Element) /\ Visible(pass, Element)
  BY DEF Bad, Visible, Hidden, Malformed
<1>5. CASE pass = 1
  <2>1. Element \in ProfileElement /\ pc' = "select"
    BY <1>1, <1>5, Kinds DEF FirstLoop
  <2>2. Handled("select", Element.select)' = 0
    BY <1>2, <2>1 DEF Handled
  <2>3. ProfileSoFar'
    BY <1>2, <1>5, <2>1, <2>2, NewProfile DEF ProfileSoFar
  <2> QED BY <1>2, <1>3, <1>4, <1>5, <2>3 DEF BuiltSoFar
<1>6. CASE pass = 2
  <2>1. Element \in RuleElement /\ pc' = "fix"
    BY <1>1, <1>6, Kinds DEF FirstLoop
  <2>2. Handled("fix", Element.fix)' = 0 /\ References0' = 0
    BY <1>2, <2>1 DEF Handled, References0
  <2>3. RuleSoFar'
    BY <1>2, <1>6, <2>1, <2>2, NewRule DEF RuleSoFar
  <2> QED BY <1>2, <1>3, <1>4, <1>6, <2>3 DEF BuiltSoFar
<1>7. CASE pass = 3
  <2>1. Element \in ValueElement /\ pc' = "value"
    BY <1>1, <1>7, Kinds DEF FirstLoop
  <2>2. Handled("value", Element.value)' = 0
    BY <1>2, <2>1 DEF Handled
  <2>3. VariableSoFar'
    BY <1>2, <1>7, <2>1, <2>2, NewVariable DEF VariableSoFar
  <2> QED BY <1>2, <1>3, <1>4, <1>7, <2>3 DEF BuiltSoFar
<1> QED BY <1>1, <1>5, <1>6, <1>7

LEMMA BuiltSoFarStep ==
    ASSUME TypeOK, BuiltSoFar, Next
    PROVE  BuiltSoFar'
<1>1. ASSUME NextElement PROVE BuiltSoFar'
  BY <1>1 DEF NextElement, BuiltSoFar, Building
<1>2. CASE BeginElement
  <2>1. CASE Hidden(pass, Element) /\ NextElement
    BY <1>1, <2>1
  <2>2. CASE pc' = "done"
    BY <2>2 DEF BuiltSoFar, Building
  <2>3. CASE /\ ~Hidden(pass, Element) /\ ~Malformed(pass, Element)
             /\ obj' = NewObject(pass, Element) /\ pc' = FirstLoop[pass]
             /\ UNCHANGED <<doc, pass, pos, k, failed, crashes>>
    BY <1>2, <2>3, BeginSoFar DEF BeginElement
  <2> QED BY <1>2, <2>1, <2>2, <2>3 DEF BeginElement
<1>3. CASE SkipVariable \/ Create
  BY <1>1, <1>3 DEF SkipVariable, Create
<1>4. CASE EndPass
  <2>1. pc' \in {"begin", "done"} /\ k' = k /\ k = 1
    BY <1>4 DEF EndPass, BuiltSoFar
  <2> QED BY <2>1 DEF BuiltSoFar, Building
<1>5. CASE ParserDies
  BY <1>5 DEF ParserDies, BuiltSoFar, Building
<1> QED
  BY <1>2, <1>3, <1>4, <1>5, SelectsSoFar, SetValuesSoFar, FixesSoFar, ReferencesSoFar,
     ValuesSoFar DEF Next

-----------------------------------------------------------------------------
(* The places of the data stream, which stays what it is. *)

LEMMA Stays == ASSUME Next PROVE doc' = doc
BY DEF Next, BeginElement, NextElement, Selects, SetValues, Fixes, References, Values,
       Turn, SkipVariable, Create, EndPass, ParserDies

LEMMA PlacesStay ==
    ASSUME doc' = doc
    PROVE  /\ Places' = Places
           /\ \A q : /\ At(q)' = At(q) /\ KeyAt(q)' = KeyAt(q) /\ UpTo(q)' = UpTo(q)
                     /\ GoodAt(q)' <=> GoodAt(q)
                     /\ BadAt(q)' <=> BadAt(q)
<1>1. Places' = Places
  BY DEF Places
<1> SUFFICES ASSUME NEW q
             PROVE  /\ At(q)' = At(q) /\ KeyAt(q)' = KeyAt(q) /\ UpTo(q)' = UpTo(q)
                    /\ GoodAt(q)' <=> GoodAt(q)
                    /\ BadAt(q)' <=> BadAt(q)
  BY <1>1
<1>2. At(q)' = At(q)
  BY DEF At
<1>3. UpTo(q)' = UpTo(q)
  BY <1>1 DEF UpTo
<1>4. KeyAt(q)' = KeyAt(q)
  BY <1>2 DEF KeyAt
<1>5. (GoodAt(q)' <=> GoodAt(q)) /\ (BadAt(q)' <=> BadAt(q))
  BY <1>2 DEF GoodAt, BadAt
<1> QED BY <1>2, <1>3, <1>4, <1>5

LEMMA SourcesStay ==
    ASSUME doc' = doc, NEW key, NEW q
    PROVE  (Source(key, q)' <=> Source(key, q)) /\ (Clean(q)' <=> Clean(q))
BY PlacesStay DEF Source, Clean

\* Up to here are the places before and this one.
LEMMA UpToHere ==
    ASSUME TypeOK, NEW q \in UpTo(<<pass, pos>>)
    PROVE  q \in Places /\ (Before(q) \/ q = <<pass, pos>>)
<1>1. /\ q \in Places
      /\ q[1] < pass \/ (q[1] = pass /\ q[2] <= pos)
  BY DEF UpTo
<1>2. /\ q[1] \in 1..3 /\ q[2] \in 1..Len(doc[q[1]]) /\ q = <<q[1], q[2]>>
      /\ Len(doc[q[1]]) \in Nat /\ pos \in Nat
  BY <1>1, PlaceParts, StreamOf DEF TypeOK
<1>3. CASE q[1] = pass /\ q[2] <= pos
  <2>1. q[2] < pos \/ q[2] = pos
    BY <1>2, <1>3
  <2> QED BY <1>1, <1>2, <1>3, <2>1 DEF Before
<1> QED BY <1>1, <1>3 DEF Before

\* Moving on passes over this place and no other.
LEMMA BeforeNext ==
    ASSUME TypeOK, NEW q \in Places, NextElement, Before(q)'
    PROVE  Before(q) \/ q = <<pass, pos>>
<1>1. q[1] < pass \/ (q[1] = pass /\ q[2] < pos + 1)
  BY DEF Before, NextElement
<1>2. /\ q[1] \in 1..3 /\ q[2] \in 1..Len(doc[q[1]]) /\ q = <<q[1], q[2]>>
      /\ Len(doc[q[1]]) \in Nat /\ pos \in Nat
  BY PlaceParts, StreamOf DEF TypeOK
<1>3. CASE q[1] = pass /\ q[2] < pos + 1
  <2>1. q[2] < pos \/ q[2] = pos
    BY <1>2, <1>3
  <2> QED BY <1>2, <1>3, <2>1 DEF Before
<1> QED BY <1>1, <1>3 DEF Before

\* A place that is not before is here or after.
LEMMA NotBefore ==
    ASSUME TypeOK, NEW q \in Places, ~Before(q), <<pass, pos>> \in Places
    PROVE  <<pass, pos>> \in UpTo(q)
<1>1. /\ q[1] \in 1..3 /\ q[2] \in 1..Len(doc[q[1]]) /\ Len(doc[q[1]]) \in Nat
      /\ pass \in 1..3 /\ pos \in Nat
  BY PlaceParts, StreamOf DEF TypeOK
<1>2. pass < q[1] \/ (pass = q[1] /\ pos <= q[2])
  BY <1>1 DEF Before
<1> QED BY <1>2 DEF UpTo

-----------------------------------------------------------------------------
(* The objects that exist are whole, and those passed over exist. *)

\* What is created is the whole object of a good element.
LEMMA CreatedWhole ==
    ASSUME TypeOK, BuiltSoFar, pc = "create"
    PROVE  /\ <<pass, pos>> \in Places /\ GoodAt(<<pass, pos>>) /\ ~BadAt(<<pass, pos>>)
           /\ KeyAt(<<pass, pos>>) = <<pass, NameOf[Element.id]>>
           /\ Whole(pass, Element, obj)
<1>1. Building
  BY DEF Building
<1>2. <<pass, pos>> \in Places /\ At(<<pass, pos>>) = Element /\ pass \in 1..3
  BY <1>1, InLoop
<1>3. /\ obj.id = Element.id /\ ~Bad(pass, Element) /\ Visible(pass, Element)
      /\ pass = 1 => ProfileSoFar
      /\ pass = 2 => RuleSoFar
      /\ pass = 3 => VariableSoFar
  BY <1>1 DEF BuiltSoFar
<1>4. \A loop, children : loop # "create" => Handled(loop, children) = Len(children)
  BY DEF Handled
<1>5. References0 = Len(Element.reference)
  BY <1>4 DEF References0
<1>6. pass = 1 => RulesOf(Element, Len(Element.select), obj.rules)
  BY <1>3, <1>4 DEF ProfileSoFar
<1>7. pass = 2 => /\ FixesOf(Element, Len(Element.fix), obj.fixes)
                  /\ ControlsOf(Element, Len(Element.reference), obj) /\ OnceOf(Element, obj)
  BY <1>3, <1>4, <1>5 DEF RuleSoFar
<1>8. pass = 3 => /\ ValuesOf(Element, Len(Element.value), obj)
                  /\ ~TwoDefaults(Element, Len(Element.value))
  BY <1>3, <1>4 DEF VariableSoFar
<1>9. Whole(pass, Element, obj)
  BY <1>3, <1>6, <1>7, <1>8 DEF Whole
<1>10. Good(pass, Element)
  BY <1>3, <1>8 DEF Good
<1> QED BY <1>2, <1>3, <1>9, <1>10 DEF GoodAt, BadAt, KeyAt

LEMMA ObjectsWholeKept ==
    ASSUME ObjectsWhole, doc' = doc, objs' = objs
    PROVE  ObjectsWhole'
<1> SUFFICES ASSUME NEW key \in DOMAIN objs
             PROVE  \E q \in Places : /\ Source(key, q)' /\ Clean(q)'
                                      /\ Whole(key[1], At(q), objs[key])'
  BY PlacesStay DEF ObjectsWhole
<1>1. PICK q \in Places : Source(key, q) /\ Clean(q) /\ Whole(key[1], At(q), objs[key])
  BY DEF ObjectsWhole
<1> QED BY <1>1, SourcesStay, PlacesStay

LEMMA ObjectsWholeStep ==
    ASSUME TypeOK, BuiltSoFar, ObjectsWhole, PassedOver, Next
    PROVE  ObjectsWhole'
<1>1. doc' = doc
  BY Stays
<1>2. CASE objs' = objs
  BY <1>1, <1>2, ObjectsWholeKept
<1>3. CASE Create
  <2> DEFINE new == <<pass, NameOf[Element.id]>>
             here == <<pass, pos>>
  <2>1. /\ DOMAIN objs' = DOMAIN objs \cup {new}
        /\ \A x \in DOMAIN objs : objs'[x] = objs[x]
        /\ new \notin DOMAIN objs => objs'[new] = obj
    BY <1>3, CreateEffect
  <2>2. /\ here \in Places /\ GoodAt(here) /\ ~BadAt(here) /\ KeyAt(here) = new
        /\ Whole(pass, Element, obj)
    BY <1>3, CreatedWhole DEF Create
  <2>3. At(here) = Element /\ new[1] = pass
    BY DEF At, Element, Elements
  <2>4. ASSUME new \notin DOMAIN objs
        PROVE  Source(new, here) /\ Clean(here)
    <3>1. \A o \in UpTo(here) : GoodAt(o) /\ KeyAt(o) = new => o = here
      BY <2>4, UpToHere DEF PassedOver
    <3>2. \A o \in UpTo(here) : ~BadAt(o)
      BY <2>2, UpToHere DEF PassedOver
    <3> QED BY <2>2, <3>1, <3>2 DEF Source, Clean
  <2> HIDE DEF new, here
  <2> SUFFICES ASSUME NEW key \in DOMAIN objs'
               PROVE  \E q \in Places : /\ Source(key, q)' /\ Clean(q)'
                                        /\ Whole(key[1], At(q), objs[key])'
    BY <1>1, PlacesStay DEF ObjectsWhole
  <2>5. CASE key \in DOMAIN objs
    <3>1. PICK q \in Places : Source(key, q) /\ Clean(q) /\ Whole(key[1], At(q), objs[key])
      BY <2>5 DEF ObjectsWhole
    <3>2. Whole(key[1], At(q), objs[key])'
      BY <1>1, <2>1, <2>5, <3>1, PlacesStay
    <3> QED BY <1>1, <3>1, <3>2, SourcesStay
  <2>6. CASE key \notin DOMAIN objs
    <3>1. key = new
      BY <2>1, <2>6
    <3>2. PICK q \in Places : q = here
      BY <2>2
    <3>3. Source(key, q) /\ Clean(q)
      BY <2>4, <2>6, <3>1, <3>2
    <3>4. Whole(key[1], At(q), objs'[key])
      BY <2>1, <2>2, <2>3, <2>6, <3>1, <3>2
    <3>5. Whole(key[1], At(q), objs[key])'
      BY <1>1, <3>4, PlacesStay
    <3> QED BY <1>1, <3>3, <3>5, SourcesStay
  <2> QED BY <2>5, <2>6
<1> QED
  BY <1>2, <1>3 DEF Next, BeginElement, Selects, SetValues, Fixes, References, Values, Turn,
                    SkipVariable, EndPass, ParserDies

\* What is skipped for a second default is neither good nor bad.
LEMMA SkippedIsNeither ==
    ASSUME TypeOK, BuiltSoFar, SkipVariable
    PROVE  /\ pos <= Len(Elements) /\ At(<<pass, pos>>) = Element
           /\ ~Bad(pass, Element) /\ ~Good(pass, Element)
<1>1. pc = "value" /\ SecondDefaultNext /\ Building
  BY DEF SkipVariable, Building
<1>2. /\ pass = 3 /\ Element \in ValueElement /\ At(<<pass, pos>>) = Element
      /\ k \in Nat \ {0} /\ pos <= Len(Elements)
  BY <1>1, InLoop DEF TypeOK
<1>3. ~Bad(pass, Element) /\ VariableSoFar
  BY <1>1, <1>2 DEF BuiltSoFar
<1>4. ValuesOf(Element, k - 1, obj)
  BY <1>1, <1>3 DEF VariableSoFar, Handled
<1>5. k \in 1..Len(Element.value) /\ SecondDefault(obj, Element.value[k])
  BY <1>1, <1>2, ValueParts DEF SecondDefaultNext
<1>6. k - 1 \in Nat /\ (k - 1) + 1 = k
  BY <1>2
<1>7. TwoDefaults(Element, Len(Element.value))
  BY <1>2, <1>4, <1>5, <1>6, SpoiledIsTwo
<1> QED BY <1>2, <1>3, <1>7 DEF Good

\* Moving on keeps PassedOver, if this place is not bad, and its object exists
\* should it be good.
LEMMA MovingOn ==
    ASSUME TypeOK, PassedOver, pc # "done", NextElement, DOMAIN objs \subseteq DOMAIN objs',
           <<pass, pos>> \in Places =>
             /\ ~BadAt(<<pass, pos>>)
             /\ GoodAt(<<pass, pos>>) => KeyAt(<<pass, pos>>) \in DOMAIN objs'
    PROVE  PassedOver'
<1>1. doc' = doc /\ pc' = "begin" /\ failed' = failed
  BY DEF NextElement
<1>2. ~failed
  BY DEF PassedOver
<1>3. ASSUME NEW q \in Places, Before(q)'
      PROVE  ~BadAt(q) /\ (GoodAt(q) => KeyAt(q) \in DOMAIN objs')
  <2>1. Before(q) \/ q = <<pass, pos>>
    BY <1>3, BeforeNext
  <2>2. CASE Before(q)
    BY <2>2 DEF PassedOver
  <2> QED BY <1>3, <2>1, <2>2
<1>4. \A q \in Places' : Before(q)' =>
        ~BadAt(q)' /\ (GoodAt(q)' => KeyAt(q)' \in DOMAIN objs')
  BY <1>1, <1>3, PlacesStay
<1> QED BY <1>1, <1>2, <1>4 DEF PassedOver

LEMMA PassedOverStep ==
    ASSUME TypeOK, BuiltSoFar, PassedOver, Next
    PROVE  PassedOver'
<1> DEFINE here == <<pass, pos>>
<1>1. doc' = doc
  BY Stays
<1>2. /\ Places' = Places
      /\ \A q : BadAt(q)' <=> BadAt(q)
      /\ \A q : GoodAt(q)' <=> GoodAt(q)
      /\ \A q : KeyAt(q)' = KeyAt(q)
  BY <1>1, PlacesStay
<1>3. pc # "done"
  BY DEF Next, BeginElement, Selects, SetValues, Fixes, References, Values, SkipVariable,
         Create, EndPass, ParserDies
<1>4. /\ \A q \in Places : Before(q) => ~BadAt(q) /\ (GoodAt(q) => KeyAt(q) \in DOMAIN objs)
      /\ ~failed
  BY <1>3 DEF PassedOver
<1>5. CASE Selects \/ SetValues \/ Fixes \/ References \/ Values
  <2>1. OnlyObject /\ pc' # "done"
    BY <1>5, SelectsStep, SetValuesStep, FixesStep, ReferencesStep, ValuesStep DEF Turned
  <2>2. \A q : Before(q)' <=> Before(q)
    BY <2>1 DEF OnlyObject, Before
  <2> QED BY <1>2, <1>4, <2>1, <2>2 DEF PassedOver, OnlyObject
<1>6. CASE BeginElement
  <2>1. objs' = objs /\ pos <= Len(Elements)
    BY <1>6 DEF BeginElement
  <2>2. here \in Places /\ At(here) = Element
    BY <2>1, Here
  <2>3. CASE Hidden(pass, Element) /\ NextElement
    <3>1. ~BadAt(here) /\ ~GoodAt(here)
      BY <2>2, <2>3 DEF BadAt, GoodAt, Bad, Good, Visible, Hidden
    <3> QED BY <1>3, <2>1, <2>3, <3>1, MovingOn
  <2>4. CASE /\ Malformed(pass, Element)
             /\ failed' = TRUE /\ pc' = "done"
             /\ UNCHANGED <<doc, pass, pos, k, obj, crashes>>
    <3>1. BadAt(here)
      BY <2>2, <2>4 DEF BadAt, Bad, Visible, Hidden, Malformed
    <3>2. \A q : Before(q)' <=> Before(q)
      BY <2>4 DEF Before
    <3>3. here' \in Places' /\ BadAt(here)'
      BY <1>2, <2>2, <2>4, <3>1 DEF BadAt, At
    <3> QED BY <1>2, <1>4, <2>1, <2>4, <3>2, <3>3 DEF PassedOver
  <2>5. CASE /\ pc' = FirstLoop[pass]
             /\ UNCHANGED <<doc, pass, pos, k, failed, crashes>>
    <3>1. pass = 1 \/ pass = 2 \/ pass = 3
      BY DEF TypeOK
    <3>2. pc' # "done"
      BY <2>5, <3>1 DEF FirstLoop
    <3>3. \A q : Before(q)' <=> Before(q)
      BY <2>5 DEF Before
    <3> QED BY <1>2, <1>4, <2>1, <2>5, <3>2, <3>3 DEF PassedOver
  <2> QED BY <1>6, <2>3, <2>4, <2>5 DEF BeginElement
<1>7. CASE SkipVariable
  <2>1. NextElement /\ objs' = objs
    BY <1>7 DEF SkipVariable
  <2>2. ~BadAt(here) /\ ~GoodAt(here)
    BY <1>7, SkippedIsNeither DEF BadAt, GoodAt
  <2> QED BY <1>3, <2>1, <2>2, MovingOn
<1>8. CASE Create
  <2>1. /\ NextElement
        /\ DOMAIN objs' = DOMAIN objs \cup {<<pass, NameOf[Element.id]>>}
    BY <1>8, CreateEffect
  <2>2. ~BadAt(here) /\ KeyAt(here) = <<pass, NameOf[Element.id]>>
    BY <1>8, CreatedWhole DEF Create
  <2> QED BY <1>3, <2>1, <2>2, MovingOn
<1>9. CASE EndPass
  <2>1. /\ objs' = objs /\ failed' = failed /\ pos > Len(Elements)
    BY <1>9 DEF EndPass
  <2>2. ASSUME NEW q \in Places
        PROVE  /\ q[1] \in 1..3 /\ q[2] \in Nat \ {0}
               /\ q[1] = pass => Before(q)
    <3>1. /\ q[1] \in 1..3 /\ q[2] \in 1..Len(doc[q[1]]) /\ Len(doc[q[1]]) \in Nat
      BY PlaceParts, StreamOf
    <3> QED BY <2>1, <3>1 DEF Before, Elements, TypeOK
  <2>3. CASE pass < 3
    <3>1. pass' = pass + 1 /\ pos' = 1 /\ pc' = pc
      BY <1>9, <2>3 DEF EndPass
    <3>2. ASSUME NEW q \in Places, Before(q)' PROVE Before(q)
      <4>1. q[1] < pass + 1 \/ (q[1] = pass + 1 /\ q[2] < 1)
        BY <3>1, <3>2 DEF Before
      <4>2. q[1] < pass \/ q[1] = pass
        BY <2>2, <4>1 DEF TypeOK
      <4> QED BY <2>2, <4>2 DEF Before
    <3> QED BY <1>2, <1>3, <1>4, <2>1, <3>1, <3>2 DEF PassedOver
  <2>4. CASE ~(pass < 3)
    <3>1. pass' = pass /\ pos' = pos /\ pass = 3
      BY <1>9, <2>4 DEF EndPass, TypeOK
    <3>2. \A q \in Places : Before(q)
      BY <2>2, <3>1 DEF Before
    <3>3. \A q \in Places : Before(q)'
      BY <3>1, <3>2 DEF Before
    <3> QED BY <1>2, <1>4, <2>1, <3>2, <3>3 DEF PassedOver
  <2> QED BY <2>3, <2>4
<1>10. CASE ParserDies
  <2>1. pass' = 1 /\ pos' = 1 /\ pc' = "begin" /\ objs' = objs /\ failed' = failed
    BY <1>10 DEF ParserDies
  <2>2. \A q \in Places : ~Before(q)'
    <3>1. \A q \in Places : q[1] \in 1..3 /\ q[2] \in Nat \ {0}
      BY PlaceParts, StreamOf
    <3> QED BY <2>1, <3>1 DEF Before
  <2> QED BY <1>2, <1>4, <2>1, <2>2 DEF PassedOver
<1> QED BY <1>5, <1>6, <1>7, <1>8, <1>9, <1>10 DEF Next

-----------------------------------------------------------------------------
(* The inductive invariant *)

LEMMA InitInductive == ASSUME Init PROVE Inductive
<1>1. TypeOK
  BY InitTypeOK
<1>2. BuiltSoFar
  BY DEF Init, BuiltSoFar, Building
<1>3. ObjectsWhole
  BY DEF Init, ObjectsWhole
<1>4. PassedOver
  <2>1. pass = 1 /\ pos = 1 /\ pc = "begin" /\ failed = FALSE
    BY DEF Init
  <2>2. \A q \in Places : q[1] \in 1..3 /\ q[2] \in Nat \ {0}
    BY <1>1, PlaceParts, StreamOf
  <2>3. \A q \in Places : ~Before(q)
    BY <2>1, <2>2 DEF Before
  <2> QED BY <2>1, <2>3 DEF PassedOver
<1> QED BY <1>1, <1>2, <1>3, <1>4 DEF Inductive

LEMMA StutterInductive == ASSUME Inductive, UNCHANGED vars PROVE Inductive'
<1>1. /\ doc' = doc /\ pass' = pass /\ pos' = pos /\ pc' = pc /\ k' = k /\ obj' = obj
      /\ objs' = objs /\ failed' = failed /\ crashes' = crashes
  BY DEF vars
<1>2. Elements' = Elements /\ Element' = Element /\ (Building' <=> Building)
  BY <1>1 DEF Elements, Element, Building
<1>3. TypeOK'
  BY <1>1, <1>2 DEF Inductive, TypeOK
<1>4. /\ ProfileSoFar' <=> ProfileSoFar
      /\ RuleSoFar' <=> RuleSoFar
      /\ VariableSoFar' <=> VariableSoFar
  BY <1>1, <1>2 DEF ProfileSoFar, RuleSoFar, VariableSoFar, Handled, References0
<1>5. BuiltSoFar'
  BY <1>1, <1>2, <1>4 DEF Inductive, BuiltSoFar
<1>6. ObjectsWhole'
  BY <1>1, ObjectsWholeKept DEF Inductive
<1>7. PassedOver'
  BY <1>1, PlacesStay DEF Inductive, PassedOver, Before
<1> QED BY <1>3, <1>5, <1>6, <1>7 DEF Inductive

\* In every reachable state the object being built has what the children handled so
\* far give, the objects that exist are the whole objects of the first good elements
\* of their names, and every good element passed over has left one.
THEOREM InductiveInvariant == Spec => []Inductive
<1>1. Init => Inductive
  BY InitInductive
<1>2. Inductive /\ [Next]_vars => Inductive'
  <2>1. ASSUME Inductive, Next PROVE Inductive'
    BY <2>1, StepTypeOK, BuiltSoFarStep, ObjectsWholeStep, PassedOverStep DEF Inductive
  <2> QED BY <2>1, StutterInductive
<1> QED BY <1>1, <1>2, PTL DEF Spec

\* The parser's variables always have their types: the objects of a pass have the
\* fields of their kind, whatever the elements are.
THEOREM TypeCorrect == Spec => []TypeOK
<1>1. Inductive => TypeOK
  BY DEF Inductive
<1> QED BY <1>1, InductiveInvariant, PTL

-----------------------------------------------------------------------------
(* The properties *)

LEMMA FormsFollow == ASSUME Inductive PROVE FormsDecide
<1>1. TypeOK /\ ObjectsWhole /\ PassedOver
  BY DEF Inductive
<1> SUFFICES ASSUME pc = "done"
             PROVE  /\ failed <=> \E q \in Places : BadAt(q)
                    /\ DOMAIN objs = {KeyAt(q) : q \in {o \in Places : GoodAt(o) /\ Clean(o)}}
  BY DEF FormsDecide
<1>2. failed => <<pass, pos>> \in Places /\ BadAt(<<pass, pos>>)
  BY <1>1 DEF PassedOver
<1>3. ~failed => \A q \in Places : Before(q)
  BY <1>1 DEF PassedOver
<1>4. \A q \in Places : Before(q) => ~BadAt(q) /\ (GoodAt(q) => KeyAt(q) \in DOMAIN objs)
  BY <1>1 DEF PassedOver
<1>5. failed <=> \E q \in Places : BadAt(q)
  BY <1>1, <1>2, <1>3, <1>4 DEF TypeOK
<1>6. ASSUME NEW key \in DOMAIN objs
      PROVE  \E q \in Places : GoodAt(q) /\ Clean(q) /\ KeyAt(q) = key
  BY <1>1 DEF ObjectsWhole, Source
<1>7. ASSUME NEW q \in Places, GoodAt(q), Clean(q)
      PROVE  KeyAt(q) \in DOMAIN objs
  <2>1. CASE Before(q)
    BY <1>4, <1>7, <2>1
  <2>2. CASE ~Before(q)
    <3>1. <<pass, pos>> \in Places /\ BadAt(<<pass, pos>>)
      BY <1>2, <1>3, <2>2
    <3>2. <<pass, pos>> \in UpTo(q)
      BY <1>1, <2>2, <3>1, NotBefore
    <3> QED BY <1>7, <3>1, <3>2 DEF Clean
  <2> QED BY <2>1, <2>2
<1> QED BY <1>5, <1>6, <1>7

\* Parsing fails just when some element is malformed, and leaves an object for every
\* good element before that one and for nothing else, whatever crashes there were:
\* what ProfileParser abstracts the loops of the parser to.
THEOREM FormsAreDecisive == Spec => []FormsDecide
<1>1. Inductive => FormsDecide
  BY FormsFollow
<1> QED BY <1>1, InductiveInvariant, PTL

\* A Rule offers, for each platform, the first usable fix of its element.
THEOREM FixesAreUsable == Spec => []FixesUsable
<1>1. Inductive => FixesUsable
  BY DEF Inductive, ObjectsWhole, FixesUsable, Made, Whole
<1> QED BY <1>1, InductiveInvariant, PTL

\* The annotations of a Rule list the controls of its references, all and no others.
THEOREM ControlsAreComplete == Spec => []ControlsComplete
<1>1. Inductive => ControlsComplete
  BY DEF Inductive, ObjectsWhole, ControlsComplete, Made, Whole
<1> QED BY <1>1, InductiveInvariant, PTL

\* They list no control twice if no reference lists several.
THEOREM ControlsAreOnce == Spec => []ControlsOnce
<1>1. Inductive => ControlsOnce
  BY DEF Inductive, ObjectsWhole, ControlsOnce, Made, Whole
<1> QED BY <1>1, InductiveInvariant, PTL

\* A Variable has the default value and the choices of its element, in their order,
\* and is never made from one with contradictory defaults.
THEOREM VariablesAreFaithful == Spec => []VariablesFaithful
<1>1. Inductive => VariablesFaithful
  BY DEF Inductive, ObjectsWhole, VariablesFaithful, Made, Whole
<1> QED BY <1>1, InductiveInvariant, PTL

\* A good Rule element that parsing got past has an object of its name, made from it
\* or from another element of this name.
LEMMA RuleExists ==
    ASSUME Inductive, pc = "done", ~failed, NEW r \in Range(doc[2])
    PROVE  LET name == NameOf[r.id]
           IN  /\ <<2, name>> \in Made(2)
               /\ \/ objs[<<2, name>>].id = r.id
                  \/ \E o \in Range(doc[2]) : o.id # r.id /\ NameOf[o.id] = NameOf[r.id]
<1> DEFINE key == <<2, NameOf[r.id]>>
<1>1. TypeOK /\ ObjectsWhole /\ PassedOver
  BY DEF Inductive
<1>2. PICK i \in DOMAIN doc[2] : r = doc[2][i]
  BY DEF Range
<1>3. <<2, i>> \in Places /\ At(<<2, i>>) = r
  BY <1>2 DEF Places, At
<1>4. ~BadAt(<<2, i>>) /\ (GoodAt(<<2, i>>) => KeyAt(<<2, i>>) \in DOMAIN objs)
  BY <1>1, <1>3 DEF PassedOver
<1>5. GoodAt(<<2, i>>)
  BY <1>3, <1>4 DEF GoodAt, BadAt, Good, Visible
<1>6. key \in DOMAIN objs /\ key[1] = 2 /\ key[2] = NameOf[r.id]
  BY <1>3, <1>4, <1>5 DEF KeyAt
<1>7. PICK q \in Places : Source(key, q) /\ Whole(key[1], At(q), objs[key])
  BY <1>1, <1>6 DEF ObjectsWhole
<1>8. KeyAt(q) = key /\ objs[key].id = At(q).id
  BY <1>7 DEF Source, Whole
<1>9. q[1] = 2 /\ NameOf[At(q).id] = NameOf[r.id]
  BY <1>6, <1>8 DEF KeyAt
<1>10. At(q) \in Range(doc[2])
  <2>1. q[2] \in 1..Len(doc[2]) /\ DOMAIN doc[2] = 1..Len(doc[2])
    BY <1>1, <1>9, PlaceParts, Streams
  <2> QED BY <1>9, <2>1 DEF At, Range
<1> QED BY <1>6, <1>8, <1>9, <1>10 DEF Made

LEMMA ResolvesFollow == ASSUME Inductive PROVE RulesResolve
<1> SUFFICES ASSUME pc = "done", ~failed, NEW key \in Made(1)
             PROVE  \E q \in Places : Source(key, q) /\
                      LET e == At(q)
                          rules == objs[key].rules
                          chosen == Chosen(e, Len(e.select))
                      IN  \E f \in [DOMAIN rules -> chosen] :
                            /\ Enumerates(f, rules, chosen)
                            /\ \A i \in DOMAIN rules :
                                 Resolves(rules[i], e.select[f[i]].idref)
  BY DEF RulesResolve
<1>1. PICK q \in Places : Source(key, q) /\ Whole(key[1], At(q), objs[key])
  BY DEF Inductive, ObjectsWhole, Made
<1> DEFINE e == At(q)
           rules == objs[key].rules
           chosen == Chosen(e, Len(e.select))
<1>2. RulesOf(e, Len(e.select), rules)
  BY <1>1 DEF Whole, Made
<1>3. PICK f \in [DOMAIN rules -> chosen] :
        /\ Enumerates(f, rules, chosen)
        /\ \A i \in DOMAIN rules : rules[i] = NameOf[e.select[f[i]].idref]
  BY <1>2 DEF RulesOf
<1>4. ASSUME NEW i \in DOMAIN rules
      PROVE  Resolves(rules[i], e.select[f[i]].idref)
  <2> SUFFICES ASSUME NEW r \in Range(doc[2]), r.id = e.select[f[i]].idref
               PROVE  /\ <<2, rules[i]>> \in Made(2)
                      /\ \/ objs[<<2, rules[i]>>].id = r.id
                         \/ \E o \in Range(doc[2]) : o.id # r.id /\ NameOf[o.id] = NameOf[r.id]
    BY DEF Resolves
  <2>1. rules[i] = NameOf[r.id]
    BY <1>3
  <2> QED BY <2>1, RuleExists
<1> QED BY <1>1, <1>3, <1>4

\* When parsing went well, the names in the rules of a Profile are those of Rules
\* that exist, as far as the data stream has them.
THEOREM RulesDoResolve == Spec => []RulesResolve
<1>1. Inductive => RulesResolve
  BY ResolvesFollow
<1> QED BY <1>1, InductiveInvariant, PTL

-----------------------------------------------------------------------------
(* The refinement of ElementForms *)

\* The element at hand, in the outline.
LEMMA OutlineHere ==
    ASSUME TypeOK
    PROVE  /\ Len(Outline[pass]) = Len(Elements)
           /\ pos <= Len(Elements) => Outline[pass][pos] = Outlined(pass, Element)
<1>1. pass \in 1..3 /\ pos \in Nat \ {0} /\ Elements = doc[pass]
  BY DEF TypeOK, Elements
<1>2. doc[pass] \in Seq(ElementOf[pass])
  BY <1>1, StreamOf
<1>3. Outline[pass] = [i \in DOMAIN doc[pass] |-> Outlined(pass, doc[pass][i])]
  BY <1>1 DEF Outline
<1>4. DOMAIN doc[pass] = 1..Len(doc[pass]) /\ Len(doc[pass]) \in Nat
  BY <1>2
<1>5. Len(Outline[pass]) = Len(Elements)
  <2> DEFINE S == {Outlined(pass, doc[pass][i]) : i \in DOMAIN doc[pass]}
  <2>1. Outline[pass] \in [1..Len(doc[pass]) -> S]
    BY <1>3, <1>4
  <2> HIDE DEF S
  <2> QED BY <1>1, <1>4, <2>1
<1> QED BY <1>1, <1>3, <1>4, <1>5 DEF Element, Elements

LEMMA OutlineStays == ASSUME doc' = doc PROVE Outline' = Outline
BY DEF Outline

\* Each step does to an element what its form says, or nothing yet.
LEMMA StepForms ==
    ASSUME Inductive, Next
    PROVE  [Forms!Next]_Forms!forms
<1>1. /\ TypeOK /\ BuiltSoFar /\ doc' = doc /\ Outline' = Outline
      /\ Len(Outline[pass]) = Len(Elements)
      /\ pos <= Len(Elements) => Outline[pass][pos] = Outlined(pass, Element)
  BY Stays, OutlineStays, OutlineHere DEF Inductive
<1>2. \A p, e : /\ Outlined(p, e).form = FormOf(p, e)
                /\ Good(p, e) => Outlined(p, e).obj = <<p, NameOf[e.id]>>
  BY DEF Outlined
<1>3. CASE Selects \/ SetValues \/ Fixes \/ References \/ Values
  <2>1. OnlyObject /\ pc # "done" /\ pc' # "done"
    BY <1>1, <1>3, SelectsStep, SetValuesStep, FixesStep, ReferencesStep, ValuesStep
    DEF Turned
  <2> QED BY <1>1, <2>1 DEF OnlyObject, Forms!forms
<1>4. CASE BeginElement
  <2>1. objs' = objs /\ pos <= Len(Elements) /\ pc = "begin"
    BY <1>4 DEF BeginElement
  <2>2. CASE Hidden(pass, Element) /\ NextElement
    <3>1. FormOf(pass, Element) = "skipped"
      BY <2>2 DEF FormOf, Good, Bad, Visible, Hidden
    <3>2. Forms!AtForm("skipped")
      BY <1>1, <1>2, <2>1, <3>1 DEF Forms!AtForm, Forms!Elements
    <3> QED BY <1>1, <2>1, <2>2, <3>2
            DEF Forms!Next, Forms!PassOverElement, Forms!NextElement, NextElement
  <2>3. CASE /\ Malformed(pass, Element)
             /\ failed' = TRUE /\ pc' = "done"
             /\ UNCHANGED <<doc, pass, pos, k, obj, crashes>>
    <3>1. FormOf(pass, Element) = "malformed"
      BY <2>3 DEF FormOf, Bad, Visible, Hidden, Malformed
    <3>2. Forms!AtForm("malformed")
      BY <1>1, <1>2, <2>1, <3>1 DEF Forms!AtForm, Forms!Elements
    <3> QED BY <1>1, <2>1, <2>3, <3>2 DEF Forms!Next, Forms!PassOverElement
  <2>4. CASE /\ pc' = FirstLoop[pass]
             /\ UNCHANGED <<doc, pass, pos, k, failed, crashes>>
    <3>1. pass = 1 \/ pass = 2 \/ pass = 3
      BY <1>1 DEF TypeOK
    <3>2. pc' # "done"
      BY <2>4, <3>1 DEF FirstLoop
    <3> QED BY <1>1, <2>1, <2>4, <3>2 DEF Forms!forms
  <2> QED BY <1>4, <2>2, <2>3, <2>4 DEF BeginElement
<1>5. CASE SkipVariable
  <2>1. NextElement /\ objs' = objs /\ pc = "value"
    BY <1>5 DEF SkipVariable
  <2>2. pos <= Len(Elements) /\ ~Bad(pass, Element) /\ ~Good(pass, Element)
    BY <1>1, <1>5, SkippedIsNeither
  <2>3. Forms!AtForm("skipped")
    BY <1>1, <1>2, <2>1, <2>2 DEF Forms!AtForm, Forms!Elements, FormOf
  <2> QED BY <1>1, <2>1, <2>3
          DEF Forms!Next, Forms!PassOverElement, Forms!NextElement, NextElement
<1>6. CASE Create
  <2>1. /\ NextElement /\ pc = "create"
        /\ DOMAIN objs' = DOMAIN objs \cup {<<pass, NameOf[Element.id]>>}
    BY <1>1, <1>6, CreateEffect DEF Create
  <2>2. pos <= Len(Elements) /\ At(<<pass, pos>>) = Element
    BY <1>1, <2>1 DEF TypeOK, Building, At, Element, Elements
  <2>3. Good(pass, Element) /\ ~Bad(pass, Element)
    BY <1>1, <2>1, <2>2, CreatedWhole DEF GoodAt, BadAt
  <2>4. Forms!AtForm("good") /\ Outline[pass][pos].obj = <<pass, NameOf[Element.id]>>
    BY <1>1, <1>2, <2>1, <2>2, <2>3 DEF Forms!AtForm, Forms!Elements, FormOf
  <2> QED BY <1>1, <2>1, <2>4
          DEF Forms!Next, Forms!CreateElement, Forms!NextElement, Forms!Elements, NextElement
<1>7. CASE EndPass
  BY <1>1, <1>7 DEF EndPass, Forms!Next, Forms!EndPass, Forms!Elements
<1>8. CASE ParserDies
  BY <1>1, <1>8 DEF ParserDies, Forms!Next, Forms!Restart
<1> QED BY <1>3, <1>4, <1>5, <1>6, <1>7, <1>8 DEF Next

\* The loops over the children of elements implement parsing with one step per
\* element, by which ProfileParser abstracts them.
THEOREM ParsingImplementsForms == Spec => ImplementsForms
<1>1. Init => Forms!Init
  BY DEF Init, Forms!Init
<1>2. Inductive /\ [Next]_vars => [Forms!Next]_Forms!forms
  <2>1. ASSUME UNCHANGED vars PROVE UNCHANGED Forms!forms
    BY <2>1, OutlineStays DEF vars, Forms!forms
  <2> QED BY <2>1, StepForms
<1> QED BY <1>1, <1>2, InductiveInvariant, PTL DEF Spec, ImplementsForms, Forms!Spec
=============================================================================
