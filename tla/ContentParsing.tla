---------------------------- MODULE ContentParsing ----------------------------
(***************************************************************************)
(* What the profile parser makes of the elements of a data stream, loop by *)
(* loop: the bodies of parseProfilesAndDo, ParseRulesAndDo and             *)
(* ParseVariablesAndDo, which ProfileParser reduces to a name and a form.  *)
(* Here creating an object never fails for good; the parser may die and    *)
(* start over on the objects it has left.  Titles and texts for people are *)
(* left out.                                                               *)
(***************************************************************************)
EXTENDS Naturals, Sequences, Functions

CONSTANTS
    Docs,      \* data streams: each is <<its Profiles, its Rules, its Values>>
    NameOf,    \* NameOf[id]: the name made from the XCCDF id (in lower case,
               \* without its prefix, "_" as "-"); two ids may have one name
    Pieces,    \* Pieces[text][sep]: strings.Split(text, sep)
    Crashes    \* how many times the parser dies

\* The text that is not there, or has no characters.
Empty == ""

\* What there is of an element of each kind.  The ids that have a name are those
\* that are not empty; the texts that have pieces are all there are.
Ids == DOMAIN NameOf
Texts == DOMAIN Pieces

ProfileElement == [id: Ids \cup {Empty}, titled: BOOLEAN,
                   select: Seq([idref: Ids \cup {Empty}, selected: BOOLEAN]),
                   setValue: Seq(STRING)]
RuleElement == [id: Ids \cup {Empty}, titled: BOOLEAN,
                fix: Seq([system: STRING, platform: STRING, object: STRING]),
                reference: Seq([href: STRING, text: Texts])]
ValueElement == [id: Ids \cup {Empty}, titled: BOOLEAN, hidden: BOOLEAN, type: STRING,
                 value: Seq([selector: STRING, text: STRING])]

\* The standard that references are looked for, and what annotations are split at.
Standard == "NIST-800-53"
Separators == {";", ","}

\* A piece holds no separator, and so is its own only piece.
ASSUME ParsingAssumption ==
    /\ Crashes \in Nat
    /\ \A d \in Docs : d \in Seq(ProfileElement) \X Seq(RuleElement) \X Seq(ValueElement)
    /\ NameOf \in [Ids -> STRING]
    /\ Pieces \in [Texts -> [Separators -> Seq(Texts)]]
    /\ \A text \in Texts : \A sep \in Separators :
         \A i \in DOMAIN Pieces[text][sep] :
            Pieces[Pieces[text][sep][i]][sep] = <<Pieces[text][sep][i]>>
    /\ Standard \in Texts /\ Pieces[Standard][","] = <<Standard>>

VARIABLES
    doc,       \* the data stream
    pass,      \* 1, 2, 3: handling Profiles, Rules, Values
    pos,       \* the element that is handled
    pc,        \* which loop over the element's children runs, or what comes next
    k,         \* the child that is handled
    obj,       \* the object that is being built
    objs,      \* objs[<<pass, name>>]: the objects that were created
    failed,    \* did parsing end with an error?
    crashes    \* crashes that may still happen

vars == <<doc, pass, pos, pc, k, obj, objs, failed, crashes>>

Elements == doc[pass]
Element == Elements[pos]

\* The first loop over the children of an element, in each pass.
FirstLoop == <<"select", "fix", "value">>

Init ==
    /\ doc \in Docs
    /\ pass = 1 /\ pos = 1 /\ pc = "begin" /\ k = 1
    /\ obj = <<>>
    /\ objs = <<>>
    /\ failed = FALSE
    /\ crashes = Crashes

-----------------------------------------------------------------------------
(* What each child of an element adds to its object *)

\* A Profile's rules are those it selects, by name; its values are ids.
\* (Raw: the rules are ids, too.)
RuleNameRaw(idref) == idref
RuleName(idref) == NameOf[idref]

AddSelect(p, sel) ==
    IF sel.idref # Empty /\ sel.selected
      THEN [p EXCEPT !.rules = Append(@, RuleName(sel.idref))] ELSE p

AddSetValue(p, idref) ==
    IF idref # Empty THEN [p EXCEPT !.values = Append(@, idref)] ELSE p

\* A fix counts if it is for a known system and holds an object; of each platform
\* the first one does.  (Tried: the first one that is tried, read or not.)
Relevant(fix) == fix.system \in {"ignition", "kubernetes"}
Readable(fix) == fix.object # "none"
HasPlatform(r, platform) == \E i \in DOMAIN r.fixes : r.fixes[i].platform = platform

AddFixTried(r, fix) ==
    IF Relevant(fix) /\ ~HasPlatform(r, fix.platform)
      THEN [r EXCEPT !.fixes = Append(@, [platform |-> fix.platform, object |-> fix.object])]
      ELSE r
AddFix(r, fix) ==
    IF Relevant(fix) /\ ~HasPlatform(r, fix.platform) /\ Readable(fix)
      THEN [r EXCEPT !.fixes = Append(@, [platform |-> fix.platform, object |-> fix.object])]
      ELSE r

\* An annotation, as the list of its pieces, is empty when it is not there.
\* (Last: its last piece is the only one looked at.)
ListsLast(list, item) == Len(list) > 0 /\ list[Len(list)] = item
Lists(list, item) == \E i \in DOMAIN list : list[i] = item

AppendWithSep(list, item, sep) ==
    IF Lists(list, item) THEN list ELSE list \o Pieces[item][sep]

\* The references to the one standard that is registered, in two formats.
\* (Once: the first one only.)
Registered(href) == href = "nist"

Annotated(r, text) ==
    [r EXCEPT !.control   = AppendWithSep(@, text, ";"),
              !.standards = AppendWithSep(@, Standard, ","),
              !.controls  = AppendWithSep(@, text, ",")]
AddReferenceOnce(r, ref) ==
    IF Registered(ref.href) /\ r.standards = <<>> THEN Annotated(r, ref.text) ELSE r
AddReference(r, ref) ==
    IF Registered(ref.href) THEN Annotated(r, ref.text) ELSE r

\* A value with a selector is one to choose from, one without is the default.  A
\* second default is an error, which the caller sees to.
IsDefault(val) == val.selector = "none"
SecondDefaultNever(v, val) == FALSE
SecondDefault(v, val) == IsDefault(val) /\ v.value # Empty

AddValue(v, val) ==
    IF IsDefault(val) THEN [v EXCEPT !.value = val.text]
    ELSE [v EXCEPT !.selections = Append(@, [description |-> val.selector, value |-> val.text])]

\* The types there are for Variables.  (Raw: as the data stream calls them.)
VariableTypeRaw(attr) == attr
VariableType(attr) ==
    CASE attr = "number"  -> "number"
      [] attr = "boolean" -> "bool"
      [] OTHER            -> "string"

NewObject(p, e) ==
    CASE p = 1 -> [id |-> e.id, rules |-> <<>>, values |-> <<>>]
      [] p = 2 -> [id |-> e.id, fixes |-> <<>>,
                   control |-> <<>>, standards |-> <<>>, controls |-> <<>>]
      [] p = 3 -> [id |-> e.id, type |-> VariableType(e.type),
                   value |-> Empty, selections |-> <<>>]

\* A hidden Value is none of the parser's business, whatever it lacks.  (Late: if
\* its id and title were looked at first.)
Hidden(p, e) == p = 3 /\ e.hidden
MalformedLate(p, e) == e.id = Empty \/ ~e.titled
Malformed(p, e) == ~Hidden(p, e) /\ (e.id = Empty \/ ~e.titled)

-----------------------------------------------------------------------------
(* The loops *)

NextElement ==
    /\ pos' = pos + 1 /\ pc' = "begin" /\ k' = 1 /\ obj' = <<>>
    /\ UNCHANGED <<doc, pass, failed, crashes>>

\* A hidden Value is passed over, a malformed element ends the parsing.
BeginElement ==
    /\ pc = "begin"
    /\ pos <= Len(Elements)
    /\ \/ Hidden(pass, Element) /\ NextElement
       \/ /\ Malformed(pass, Element)
          /\ failed' = TRUE /\ pc' = "done"
          /\ UNCHANGED <<doc, pass, pos, k, obj, crashes>>
       \/ /\ ~Hidden(pass, Element) /\ ~Malformed(pass, Element)
          /\ obj' = NewObject(pass, Element) /\ pc' = FirstLoop[pass]
          /\ UNCHANGED <<doc, pass, pos, k, failed, crashes>>
    /\ UNCHANGED objs

\* One turn of the loop over children, each of which adds something to the
\* object; after the last one comes next.
Turn(children, Add(_, _), next) ==
    /\ IF k <= Len(children)
         THEN obj' = Add(obj, children[k]) /\ k' = k + 1 /\ pc' = pc
         ELSE obj' = obj /\ k' = 1 /\ pc' = next
    /\ UNCHANGED <<doc, pass, pos, objs, failed, crashes>>

Selects    == pc = "select"    /\ Turn(Element.select, AddSelect, "setValue")
SetValues  == pc = "setValue"  /\ Turn(Element.setValue, AddSetValue, "create")
Fixes      == pc = "fix"       /\ Turn(Element.fix, AddFix, "reference")
References == pc = "reference" /\ Turn(Element.reference, AddReference, "create")

SecondDefaultNext ==
    k <= Len(Element.value) /\ SecondDefault(obj, Element.value[k])

Values ==
    /\ pc = "value"
    /\ ~SecondDefaultNext
    /\ Turn(Element.value, AddValue, "create")

\* A Variable with a second default value is passed over.
SkipVariable ==
    /\ pc = "value"
    /\ SecondDefaultNext
    /\ NextElement
    /\ UNCHANGED objs

\* An object that exists is as good as created.
Create ==
    LET key == <<pass, NameOf[Element.id]>> IN
    /\ pc = "create"
    /\ objs' = [x \in DOMAIN objs \cup {key} |-> IF x \in DOMAIN objs THEN objs[x] ELSE obj]
    /\ NextElement

EndPass ==
    /\ pc = "begin"
    /\ pos > Len(Elements)
    /\ IF pass < 3 THEN pass' = pass + 1 /\ pos' = 1 /\ pc' = pc
                   ELSE pc' = "done" /\ UNCHANGED <<pass, pos>>
    /\ UNCHANGED <<doc, k, obj, objs, failed, crashes>>

ParserDies ==
    /\ pc # "done"
    /\ crashes > 0
    /\ crashes' = crashes - 1
    /\ pass' = 1 /\ pos' = 1 /\ pc' = "begin" /\ k' = 1 /\ obj' = <<>>
    /\ UNCHANGED <<doc, objs, failed>>

Next == BeginElement \/ Selects \/ SetValues \/ Fixes \/ References \/ Values
          \/ SkipVariable \/ Create \/ EndPass \/ ParserDies

Spec == Init /\ [][Next]_vars

-----------------------------------------------------------------------------
(* What the objects should be, said of the data stream without its loops *)

ProfileObj == [id: Ids, rules: Seq(STRING), values: Seq(STRING)]
RuleObj == [id: Ids, fixes: Seq([platform: STRING, object: STRING]),
            control: Seq(Texts), standards: Seq(Texts), controls: Seq(Texts)]
VariableObj == [id: Ids, type: {"number", "bool", "string"}, value: STRING \cup {Empty},
                selections: Seq([description: STRING, value: STRING])]
ObjectOf == <<ProfileObj, RuleObj, VariableObj>>

\* The loops that each pass has.
LoopsOf == <<{"select", "setValue", "create"}, {"fix", "reference", "create"},
             {"value", "create"}>>

\* An element's object is being built.
Building == pc \notin {"begin", "done"}

TypeOK ==
    /\ doc \in Docs
    /\ pass \in 1..3 /\ pos \in Nat \ {0} /\ k \in Nat \ {0}
    /\ pc \in {"begin", "done"} \cup LoopsOf[pass]
    /\ Building => pos <= Len(Elements) /\ obj \in ObjectOf[pass]
    /\ \A key \in DOMAIN objs : key \in (1..3) \X STRING /\ objs[key] \in ObjectOf[key[1]]
    /\ failed \in BOOLEAN
    /\ crashes \in 0..Crashes

\* The default values among the first n, and whether there are two: one that is
\* empty does not count unless it is the last.
Defaults(e, n) == {i \in 1..n : e.value[i].selector = "none"}
TwoDefaults(e, n) == \E i, j \in Defaults(e, n) : i < j /\ e.value[i].text # Empty

\* Does the element give an object, is it an error, or neither?
Visible(p, e) == p = 3 => ~e.hidden
Bad(p, e) == Visible(p, e) /\ (e.id = Empty \/ ~e.titled)
Good(p, e) == Visible(p, e) /\ ~Bad(p, e) /\ (p = 3 => ~TwoDefaults(e, Len(e.value)))

Places == UNION {{<<p, i>> : i \in DOMAIN doc[p]} : p \in 1..3}
At(place) == doc[place[1]][place[2]]
UpTo(place) == {q \in Places : q[1] < place[1] \/ (q[1] = place[1] /\ q[2] <= place[2])}

GoodAt(place) == Good(place[1], At(place))
BadAt(place) == Bad(place[1], At(place))
KeyAt(place) == <<place[1], NameOf[At(place).id]>>

\* The element that the object of a name is made from: the first of that name.
Source(key, q) ==
    /\ GoodAt(q) /\ KeyAt(q) = key
    /\ \A o \in UpTo(q) : GoodAt(o) /\ KeyAt(o) = key => o = q

Made(p) == {key \in DOMAIN objs : key[1] = p}

\* Parsing fails just when an element is malformed, and leaves an object of every
\* good element before that one, and none of any other: what ProfileParser takes
\* an element's form to mean.
Clean(q) == \A e \in UpTo(q) : ~BadAt(e)

FormsDecide ==
    pc = "done" =>
      /\ failed <=> \E q \in Places : BadAt(q)
      /\ DOMAIN objs = {KeyAt(q) : q \in {o \in Places : GoodAt(o) /\ Clean(o)}}

\* A Rule offers, for each platform, the first fix that can be used; one that
\* cannot, for another system or without an object, never hides a later one.
Usable(fix) == fix.system \in {"ignition", "kubernetes"} /\ fix.object # "none"
FirstUsable(e, j) ==
    /\ Usable(e.fix[j])
    /\ \A l \in 1..(j - 1) : Usable(e.fix[l]) => e.fix[l].platform # e.fix[j].platform
Offer(fix) == [platform |-> fix.platform, object |-> fix.object]

FixesOf(e, n, fixes) ==
    /\ \A i, j \in DOMAIN fixes : fixes[i].platform = fixes[j].platform => i = j
    /\ Range(fixes) = {Offer(e.fix[i]) : i \in {j \in 1..n : FirstUsable(e, j)}}

FixesUsable ==
    \A key \in Made(2) : \E q \in Places : Source(key, q) /\
      LET e == At(q)
      IN  objs[key].id = e.id /\ FixesOf(e, Len(e.fix), objs[key].fixes)

\* Its annotations list the controls of its references to the standard, in both
\* formats, all of them and no others.
TextsOf(e, n) == {e.reference[i].text : i \in {j \in 1..n : e.reference[j].href = "nist"}}
Controls(e, n, sep) == UNION {Range(Pieces[text][sep]) : text \in TextsOf(e, n)}

ControlsOf(e, n, r) ==
    /\ Range(r.control) = Controls(e, n, ";")
    /\ Range(r.controls) = Controls(e, n, ",")
    /\ r.standards = IF TextsOf(e, n) = {} THEN <<>> ELSE <<Standard>>

ControlsComplete ==
    \A key \in Made(2) : \E q \in Places : Source(key, q) /\
      LET e == At(q) IN ControlsOf(e, Len(e.reference), objs[key])

\* They list no control twice, if none of the references lists several: a list in
\* one reference is appended as it is.
Once(list) == \A i, j \in DOMAIN list : list[i] = list[j] => i = j
OneEach(e, sep) == \A text \in TextsOf(e, Len(e.reference)) : Pieces[text][sep] = <<text>>

OnceOf(e, r) ==
    /\ OneEach(e, ";") => Once(r.control)
    /\ OneEach(e, ",") => Once(r.controls)

ControlsOnce ==
    \A key \in Made(2) : \E q \in Places : Source(key, q) /\ OnceOf(At(q), objs[key])

\* list has an item for each of positions, in their order: f says for which.
Enumerates(f, list, positions) ==
    /\ f \in [DOMAIN list -> positions]
    /\ Range(f) = positions
    /\ \A i, j \in DOMAIN list : i < j => f[i] < f[j]

\* A Variable is made from an element without contradictory defaults, and has the
\* default value and the choices that this element has.
Alternatives(e, n) == 1..n \ Defaults(e, n)
Choice(val) == [description |-> val.selector, value |-> val.text]

ValuesOf(e, n, v) ==
    /\ {v.value} \cup {Empty} = {Empty} \cup {e.value[i].text : i \in Defaults(e, n)}
    /\ \E f \in [DOMAIN v.selections -> Alternatives(e, n)] :
         /\ Enumerates(f, v.selections, Alternatives(e, n))
         /\ \A i \in DOMAIN v.selections : v.selections[i] = Choice(e.value[f[i]])

VariablesFaithful ==
    \A key \in Made(3) : \E q \in Places : Source(key, q) /\
      LET e == At(q)
      IN  objs[key].id = e.id /\ ValuesOf(e, Len(e.value), objs[key])

\* When all went well, a name in a Profile's rules is that of the Rule it selects,
\* if the data stream has this Rule: made from the element selected, unless that
\* shares its name with another.
Chosen(e, n) == {i \in 1..n : e.select[i].selected /\ e.select[i].idref # Empty}

Resolves(name, idref) ==
    \A r \in Range(doc[2]) : r.id = idref =>
      /\ <<2, name>> \in Made(2)
      /\ \/ objs[<<2, name>>].id = r.id
         \/ \E o \in Range(doc[2]) : o.id # r.id /\ NameOf[o.id] = NameOf[r.id]

RulesResolve ==
    pc = "done" /\ ~failed =>
      \A key \in Made(1) : \E q \in Places : Source(key, q) /\
        LET e == At(q)
            rules == objs[key].rules
            chosen == Chosen(e, Len(e.select))
        IN  \E f \in [DOMAIN rules -> chosen] :
              /\ Enumerates(f, rules, chosen)
              /\ \A i \in DOMAIN rules : Resolves(rules[i], e.select[f[i]].idref)

\* The data stream as ProfileParser has it, and parsing with one step per element.
FormOf(p, e) == IF Bad(p, e) THEN "malformed" ELSE IF Good(p, e) THEN "good" ELSE "skipped"
Outlined(p, e) ==
    [form |-> FormOf(p, e), obj |-> IF Good(p, e) THEN <<p, NameOf[e.id]>> ELSE <<p, Empty>>]
Outline == [p \in 1..3 |-> [i \in DOMAIN doc[p] |-> Outlined(p, doc[p][i])]]

Forms == INSTANCE ElementForms WITH
           doc <- Outline, made <- DOMAIN objs, done <- (pc = "done")

\* The loops implement this: whatever the children of an element, handling it ends the
\* parsing, leaves its object or leaves nothing, as its form says, and does nothing
\* else; the parser may die between any two turns of a loop.
ImplementsForms == Forms!Spec

-----------------------------------------------------------------------------
(* The inductive strengthening of the properties above.                     *)

\* How many children a loop has handled when it is before, in or after a turn.
Handled(loop, children) == IF pc = loop THEN k - 1 ELSE Len(children)
References0 == IF pc = "fix" THEN 0 ELSE Handled("reference", Element.reference)

RulesOf(e, n, rules) ==
    \E f \in [DOMAIN rules -> Chosen(e, n)] :
      /\ Enumerates(f, rules, Chosen(e, n))
      /\ \A i \in DOMAIN rules : rules[i] = NameOf[e.select[f[i]].idref]

\* The object being built has what the children handled so far give.
ProfileSoFar ==
    LET n == Handled("select", Element.select)
    IN  n <= Len(Element.select) /\ RulesOf(Element, n, obj.rules)

RuleSoFar ==
    LET n == Handled("fix", Element.fix)
        m == References0
    IN  /\ n <= Len(Element.fix) /\ FixesOf(Element, n, obj.fixes)
        /\ \A l \in 1..n : Usable(Element.fix[l]) => HasPlatform(obj, Element.fix[l].platform)
        /\ m <= Len(Element.reference) /\ ControlsOf(Element, m, obj)
        /\ OnceOf(Element, obj)

VariableSoFar ==
    LET n == Handled("value", Element.value)
    IN  n <= Len(Element.value) /\ ValuesOf(Element, n, obj) /\ ~TwoDefaults(Element, n)

BuiltSoFar ==
    /\ pc = "begin" => k = 1
    /\ Building =>
         /\ obj.id = Element.id /\ ~Bad(pass, Element) /\ Visible(pass, Element)
         /\ pass = 1 => ProfileSoFar
         /\ pass = 2 => RuleSoFar
         /\ pass = 3 => VariableSoFar

\* What is left of an element is its whole object.
Whole(p, e, o) ==
    /\ o.id = e.id
    /\ p = 1 => RulesOf(e, Len(e.select), o.rules)
    /\ p = 2 => /\ FixesOf(e, Len(e.fix), o.fixes)
                /\ ControlsOf(e, Len(e.reference), o) /\ OnceOf(e, o)
    /\ p = 3 => ValuesOf(e, Len(e.value), o)

ObjectsWhole ==
    \A key \in DOMAIN objs : \E q \in Places :
      Source(key, q) /\ Clean(q) /\ Whole(key[1], At(q), objs[key])

\* The elements before the one handled are done with.
Before(q) == q[1] < pass \/ (q[1] = pass /\ q[2] < pos)

PassedOver ==
    /\ \A q \in Places : Before(q) => ~BadAt(q) /\ (GoodAt(q) => KeyAt(q) \in DOMAIN objs)
    /\ failed => pc = "done" /\ <<pass, pos>> \in Places /\ BadAt(<<pass, pos>>)
    /\ pc = "done" /\ ~failed => \A q \in Places : Before(q)

Inductive == TypeOK /\ BuiltSoFar /\ ObjectsWhole /\ PassedOver
=============================================================================
