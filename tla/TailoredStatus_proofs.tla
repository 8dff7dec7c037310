------------------------ MODULE TailoredStatus_proofs ------------------------
(***************************************************************************)
(* TailoredLifecycle implements TailoredStatus: what a user may rely on of *)
(* a TailoredProfile, whatever is edited, deleted, lagging or failing.     *)
(***************************************************************************)
EXTENDS TailoredLifecycle_proofs

\* What the user sees does not change.
Unseen == UNCHANGED <<View(tp), tpBorn, Promises, Made>>

LEMMA MadeUnchanged ==
    ASSUME UNCHANGED <<cm, policy>>
    PROVE  Made' = Made
BY DEF Made

LEMMA PromisesUnchanged ==
    ASSUME UNCHANGED <<rpc, instance>>
    PROVE  Promises' = Promises
BY DEF Promises

LEMMA ViewUnchanged ==
    ASSUME tp' = tp
    PROVE  View(tp)' = View(tp)
BY DEF View, Owners

\* The fields of the view.
LEMMA ViewFields ==
    ASSUME NEW t
    PROVE  /\ View(t).uid = t.uid /\ View(t).spec = t.spec
           /\ View(t).owners = Owners(t) /\ View(t).state = t.state
BY DEF View

\* ... and the view of what a write leaves.
LEMMA ViewWritten ==
    ASSUME NEW t \in Tailored
    PROVE  /\ \A s : View([t EXCEPT !.spec = s]) = [View(t) EXCEPT !.spec = s]
           /\ View(Failed(t)) = [View(t) EXCEPT !.state = "ERROR"]
           /\ View(Ready(t)) = [View(t) EXCEPT !.state = "READY", !.output = "named"]
<1> DEFINE named == IF t.ref = "none" THEN "none" ELSE "named"
<1>1. ASSUME NEW s PROVE View([t EXCEPT !.spec = s]) = [View(t) EXCEPT !.spec = s]
  <2> DEFINE u == [t EXCEPT !.spec = s]
  <2>1. /\ u.uid = t.uid /\ u.spec = s /\ u.owners = t.owners
        /\ u.state = t.state /\ u.ref = t.ref
    BY DEF Tailored
  <2> HIDE DEF u
  <2>2. Owners(u) = Owners(t)
    BY <2>1 DEF Owners
  <2>3. View(u) = [uid |-> t.uid, spec |-> s, owners |-> Owners(t),
                   state |-> t.state, output |-> named]
    BY <2>1, <2>2 DEF View
  <2>4. View(t) = [uid |-> t.uid, spec |-> t.spec, owners |-> Owners(t),
                   state |-> t.state, output |-> named]
    BY DEF View
  <2> HIDE DEF named
  <2>5. View(u) = [View(t) EXCEPT !.spec = s]
    BY <2>3, <2>4
  <2> QED BY <2>5 DEF u
<1>2. View(Failed(t)) = [View(t) EXCEPT !.state = "ERROR"]
  <2> DEFINE u == Failed(t)
  <2>1. /\ u.uid = t.uid /\ u.spec = t.spec /\ u.owners = t.owners
        /\ u.state = "ERROR" /\ u.ref = t.ref
    BY DEF Tailored, Failed
  <2> HIDE DEF u
  <2>2. Owners(u) = Owners(t)
    BY <2>1 DEF Owners
  <2>3. View(u) = [uid |-> t.uid, spec |-> t.spec, owners |-> Owners(t),
                   state |-> "ERROR", output |-> named]
    BY <2>1, <2>2 DEF View
  <2>4. View(t) = [uid |-> t.uid, spec |-> t.spec, owners |-> Owners(t),
                   state |-> t.state, output |-> named]
    BY DEF View
  <2> HIDE DEF named
  <2>5. View(u) = [View(t) EXCEPT !.state = "ERROR"]
    BY <2>3, <2>4
  <2> QED BY <2>5 DEF u
<1>3. View(Ready(t)) = [View(t) EXCEPT !.state = "READY", !.output = "named"]
  <2> DEFINE u == Ready(t)
  <2>1. /\ u.uid = t.uid /\ u.spec = t.spec /\ u.owners = t.owners
        /\ u.state = "READY" /\ u.ref # "none"
    BY DEF Tailored, Ready
  <2> HIDE DEF u
  <2>2. Owners(u) = Owners(t)
    BY <2>1 DEF Owners
  <2>3. (IF u.ref = "none" THEN "none" ELSE "named") = "named"
    BY <2>1
  <2>4. View(u) = [uid |-> t.uid, spec |-> t.spec, owners |-> Owners(t),
                   state |-> "READY", output |-> "named"]
    BY <2>1, <2>2, <2>3 DEF View
  <2>5. View(t) = [uid |-> t.uid, spec |-> t.spec, owners |-> Owners(t),
                   state |-> t.state, output |-> named]
    BY DEF View
  <2> HIDE DEF named
  <2>6. [View(t) EXCEPT !.state = "READY"] =
          [uid |-> t.uid, spec |-> t.spec, owners |-> Owners(t),
           state |-> "READY", output |-> named]
    BY <2>5
  <2>7. [[View(t) EXCEPT !.state = "READY"] EXCEPT !.output = "named"] =
          [uid |-> t.uid, spec |-> t.spec, owners |-> Owners(t),
           state |-> "READY", output |-> "named"]
    <3> DEFINE old == [uid |-> t.uid, spec |-> t.spec, owners |-> Owners(t),
                       state |-> "READY", output |-> named]
               new == [uid |-> t.uid, spec |-> t.spec, owners |-> Owners(t),
                       state |-> "READY", output |-> "named"]
    <3>1. [old EXCEPT !.output = "named"] = new
      OBVIOUS
    <3>2. [View(t) EXCEPT !.state = "READY"] = old
      BY <2>6
    <3> HIDE DEF old, new
    <3> QED BY <3>1, <3>2 DEF new
  <2>8. [View(t) EXCEPT !.state = "READY", !.output = "named"] =
          [[View(t) EXCEPT !.state = "READY"] EXCEPT !.output = "named"]
    OBVIOUS
  <2>9. View(u) = [View(t) EXCEPT !.state = "READY", !.output = "named"]
    BY <2>4, <2>7, <2>8
  <2> QED BY <2>9 DEF u
<1> QED BY <1>1, <1>2, <1>3

LEMMA ViewAdopted ==
    ASSUME NEW t \in Tailored, NEW owners, NEW q \in Profiles,
           \A p \in Profiles : owners[p] # 0 <=> (t.owners[p] # 0 \/ p = q)
    PROVE  View([t EXCEPT !.owners = owners]) = [View(t) EXCEPT !.owners = @ \cup {q}]
<1> DEFINE u == [t EXCEPT !.owners = owners]
           named == IF t.ref = "none" THEN "none" ELSE "named"
<1>1. /\ u.uid = t.uid /\ u.spec = t.spec /\ u.owners = owners
      /\ u.state = t.state /\ u.ref = t.ref
  BY DEF Tailored
<1> HIDE DEF u
<1>2. Owners(u) = Owners(t) \cup {q}
  BY <1>1 DEF Owners
<1>3. View(u) = [uid |-> t.uid, spec |-> t.spec, owners |-> Owners(t) \cup {q},
                 state |-> t.state, output |-> named]
  BY <1>1, <1>2 DEF View
<1>4. View(t) = [uid |-> t.uid, spec |-> t.spec, owners |-> Owners(t),
                 state |-> t.state, output |-> named]
  BY DEF View
<1> HIDE DEF named
<1>5. View(u) = [View(t) EXCEPT !.owners = @ \cup {q}]
  BY <1>3, <1>4
<1> QED BY <1>5 DEF u

LEMMA ViewDropped ==
    ASSUME NEW t \in Tailored, NEW owners
    PROVE  View([t EXCEPT !.owners = owners])
             = [View(t) EXCEPT !.owners = {p \in Profiles : owners[p] # 0}]
<1> DEFINE u == [t EXCEPT !.owners = owners]
           named == IF t.ref = "none" THEN "none" ELSE "named"
           rest == {p \in Profiles : owners[p] # 0}
<1>1. /\ u.uid = t.uid /\ u.spec = t.spec /\ u.owners = owners
      /\ u.state = t.state /\ u.ref = t.ref
  BY DEF Tailored
<1> HIDE DEF u
<1>2. Owners(u) = rest
  BY <1>1 DEF Owners
<1> HIDE DEF rest
<1>3. View(u) = [uid |-> t.uid, spec |-> t.spec, owners |-> rest,
                 state |-> t.state, output |-> named]
  BY <1>1, <1>2 DEF View
<1>4. View(t) = [uid |-> t.uid, spec |-> t.spec, owners |-> Owners(t),
                 state |-> t.state, output |-> named]
  BY DEF View
<1> HIDE DEF named
<1>5. View(u) = [View(t) EXCEPT !.owners = rest]
  BY <1>3, <1>4
<1> QED BY <1>5 DEF u, rest

-----------------------------------------------------------------------------
(* Each step is one of TailoredStatus, or is not seen there: what the other *)
(* actors do ...                                                            *)

LEMMA OutputsRemoved ==
    ASSUME UNCHANGED <<tp, tpBorn, controller>>,
           \/ UNCHANGED <<cm, policy>>
           \/ cm' = NoOutput /\ policy' = policy
           \/ cm' = cm /\ policy' = NoOutput
    PROVE  Unseen \/ \E k \in Abstract!Kinds : Abstract!Remove(k)
<1>1. UNCHANGED <<View(tp), tpBorn, Promises>>
  BY ViewUnchanged, PromisesUnchanged DEF controller
<1>2. CASE UNCHANGED <<cm, policy>>
  BY <1>1, <1>2, MadeUnchanged DEF Unseen
<1>3. CASE cm' = NoOutput /\ policy' = policy
  <2>1. Made' = [Made EXCEPT !["ConfigMap"] = NoOutput]
    BY <1>3 DEF Made
  <2> QED BY <1>1, <2>1 DEF Abstract!Remove, Abstract!Kinds
<1>4. CASE cm' = cm /\ policy' = NoOutput
  <2>1. Made' = [Made EXCEPT !["Policy"] = NoOutput]
    BY <1>4 DEF Made
  <2> QED BY <1>1, <2>1 DEF Abstract!Remove, Abstract!Kinds
<1> QED BY <1>2, <1>3, <1>4

LEMMA OtherIsAbstract ==
    ASSUME OtherStep \/ SyncTailored, UNCHANGED controller
    PROVE  Unseen \/ Abstract!Next
<1>1. UNCHANGED <<tp, tpBorn>>
  BY OtherStepEffect DEF SyncTailored
<1>2. \/ UNCHANGED <<cm, policy>>
      \/ cm' = NoOutput /\ policy' = policy
      \/ cm' = cm /\ policy' = NoOutput
  BY DEF OtherStep, Content, CollectContent, CollectConfigMap, RemoveOutput, SyncConfigMap,
         SyncTailored, Resync, WriteConfigMap
<1> QED BY <1>1, <1>2, OutputsRemoved DEF Abstract!Next

LEMMA CreateIsAbstract ==
    ASSUME NEW s \in Specs, CreateTailored(s), UNCHANGED controller
    PROVE  Abstract!Create
<1>1. /\ tp.uid = 0 /\ tp' = New(tpBorn + 1, s) /\ tpBorn' = tpBorn + 1
      /\ UNCHANGED <<Promises, Made>>
  BY PromisesUnchanged, MadeUnchanged DEF CreateTailored, WriteTailored, controller
<1>2. View(tp') = Abstract!New(tpBorn + 1, s)
  <2> DEFINE u == New(tpBorn + 1, s)
  <2>1. /\ u.uid = tpBorn + 1 /\ u.spec = s /\ u.owners = NoOwners
        /\ u.state = "unset" /\ u.ref = "none"
    BY DEF New
  <2> HIDE DEF u
  <2>2. Owners(u) = {}
    BY <2>1 DEF Owners, NoOwners
  <2>3. (IF u.ref = "none" THEN "none" ELSE "named") = "none"
    BY <2>1
  <2>4. View(u) = Abstract!New(tpBorn + 1, s)
    BY <2>1, <2>2, <2>3 DEF View, Abstract!New
  <2> QED BY <1>1, <2>4 DEF u
<1> QED BY <1>1, <1>2, ViewFields DEF Abstract!Create

LEMMA EditIsAbstract ==
    ASSUME TypeOK, NEW s \in Specs, EditTailored(s), UNCHANGED controller
    PROVE  Abstract!Edit
<1>1. /\ tp.uid # 0 /\ tp' = [tp EXCEPT !.spec = s] /\ tpBorn' = tpBorn
      /\ UNCHANGED <<Promises, Made>>
  BY PromisesUnchanged, MadeUnchanged DEF EditTailored, WriteTailored, controller
<1>2. tp \in Tailored
  BY DEF TypeOK, ClusterTypeOK
<1>3. View(tp') = [View(tp) EXCEPT !.spec = s]
  BY <1>1, <1>2, ViewWritten
<1> QED BY <1>1, <1>3, ViewFields DEF Abstract!Edit

LEMMA EndIsAbstract ==
    ASSUME DeleteTailored \/ CollectTailored, UNCHANGED controller
    PROVE  Abstract!End
<1>1. /\ tp.uid # 0 /\ tp' = NoTailored /\ tpBorn' = tpBorn
      /\ UNCHANGED <<Promises, Made>>
  BY PromisesUnchanged, MadeUnchanged
  DEF DeleteTailored, CollectTailored, WriteTailored, controller
<1>2. View(tp').uid = 0
  BY <1>1, AbsentType, ViewFields
<1> QED BY <1>1, <1>2, ViewFields DEF Abstract!End

LEMMA DropIsAbstract ==
    ASSUME TypeOK, DropOwners, UNCHANGED controller
    PROVE  Abstract!Disown
<1> DEFINE rest == {p \in Profiles : LiveOwners(tp)[p] # 0}
<1>1. /\ tp.uid # 0 /\ tp' = [tp EXCEPT !.owners = LiveOwners(tp)] /\ tpBorn' = tpBorn
      /\ UNCHANGED <<Promises, Made>>
  BY PromisesUnchanged, MadeUnchanged DEF DropOwners, WriteTailored, controller
<1>2. tp \in Tailored
  BY DEF TypeOK, ClusterTypeOK
<1>3. rest \in (SUBSET Owners(tp)) \ {{}}
  <2>1. PICK p \in Profiles : tp.owners[p] # 0 /\ tp.owners[p] = objs[p]
    BY DEF DropOwners, OwnerLives
  <2>2. p \in rest
    BY <2>1 DEF LiveOwners
  <2>3. rest \subseteq Owners(tp)
    BY DEF LiveOwners, Owners
  <2> QED BY <2>2, <2>3
<1>4. View(tp') = [View(tp) EXCEPT !.owners = rest]
  BY <1>1, <1>2, ViewDropped
<1> HIDE DEF rest
<1> QED BY <1>1, <1>3, <1>4, ViewFields DEF Abstract!Disown

-----------------------------------------------------------------------------
(* ... and what the controller does.                                        *)

\* A step that makes no promise and writes nothing.
LEMMA ForgetIsAbstract ==
    ASSUME UNCHANGED <<tp, tpBorn, cm, policy>>, rpc' # "createOutput"
    PROVE  Abstract!Forget
<1>1. Promises' = {}
  BY DEF Promises
<1> QED BY <1>1, ViewUnchanged, MadeUnchanged DEF Abstract!Forget

\* A write that neither is a promise nor follows one.
LEMMA NoPromise ==
    ASSUME rpc # "createOutput", rpc' # "createOutput", UNCHANGED <<cm, policy, tpBorn>>
    PROVE  UNCHANGED <<Promises, tpBorn, Made>>
<1>1. Promises = {} /\ Promises' = {}
  BY DEF Promises
<1> QED BY <1>1, MadeUnchanged

\* The TailoredProfile that is written is there, and is the one that was read.
LEMMA WriteCurrent ==
    ASSUME TypeOK, CopiesCurrent, NEW lost \in BOOLEAN,
           SetOutputType(lost) \/ Adopt(lost) \/ SetReady(lost) \/ SetError(lost)
    PROVE  /\ instance = tp /\ tp \in Tailored /\ tp.uid # 0
           /\ UNCHANGED <<cm, policy, tpBorn>>
<1>1. instance = tp /\ UNCHANGED <<cm, policy, tpBorn>>
  BY WriteEffect
<1>2. tp \in Tailored
  BY DEF TypeOK, ClusterTypeOK
<1>3. rpc # "idle"
  BY DEF SetOutputType, Adopt, SetReady, SetError
<1>4. instance.uid # 0
  BY <1>3 DEF TypeOK, ControllerTypeOK
<1> QED BY <1>1, <1>2, <1>4

LEMMA DefaultIsAbstract ==
    ASSUME TypeOK, CopiesCurrent, SpecsAgree, NEW lost \in BOOLEAN, SetOutputType(lost)
    PROVE  Abstract!Complete
<1>1. /\ instance = tp /\ tp \in Tailored /\ tp.uid # 0
      /\ UNCHANGED <<cm, policy, tpBorn>>
  BY WriteCurrent
<1>2. /\ rpc = "setOutputType" /\ rpc' = "idle"
      /\ tp' = [tp EXCEPT !.spec = Defaulted(tp.spec)]
  BY <1>1 DEF SetOutputType, Return, WriteTailored
<1>3. tp.spec.output = "unset"
  BY <1>1, <1>2 DEF SpecsAgree
<1>4. UNCHANGED <<Promises, tpBorn, Made>>
  BY <1>1, <1>2, NoPromise
<1>5. View(tp') = [View(tp) EXCEPT !.spec = Defaulted(tp.spec)]
  BY <1>1, <1>2, ViewWritten
<1>6. View(tp') = [View(tp) EXCEPT !.spec = [@ EXCEPT !.output = "ConfigMap"]]
  BY <1>5, ViewFields DEF Defaulted
<1> QED BY <1>1, <1>3, <1>4, <1>6, ViewFields DEF Abstract!Complete

LEMMA AdoptIsAbstract ==
    ASSUME TypeOK, CopiesCurrent, NEW lost \in BOOLEAN, Adopt(lost)
    PROVE  Abstract!Adopt
<1> DEFINE q == tp.spec.extends
<1>1. /\ instance = tp /\ tp \in Tailored /\ tp.uid # 0
      /\ UNCHANGED <<cm, policy, tpBorn>>
  BY WriteCurrent
<1>2. /\ rpc = "adopt" /\ rpc' = "idle"
      /\ tp' = [tp EXCEPT !.owners = OwnersWith(tp.owners)]
  BY <1>1 DEF Adopt, Return, WriteTailored
<1>3. q \in Profiles /\ base # 0
  BY <1>1, <1>2 DEF TypeOK, ControllerTypeOK, ProfileCalls
<1>4. \A p \in Profiles : OwnersWith(tp.owners)[p] # 0 <=> (tp.owners[p] # 0 \/ p = q)
  <2>1. tp.owners \in [Profiles -> 0..MaxUid]
    BY <1>1 DEF Tailored
  <2>2. OwnersWith(tp.owners) = [tp.owners EXCEPT ![q] = base]
    BY <1>1 DEF OwnersWith
  <2> HIDE DEF q
  <2> QED BY <1>3, <2>1, <2>2
<1>5. UNCHANGED <<Promises, tpBorn, Made>>
  BY <1>1, <1>2, NoPromise
<1> HIDE DEF q
<1>6. View(tp') = [View(tp) EXCEPT !.owners = @ \cup {q}]
  BY <1>1, <1>2, <1>3, <1>4, ViewAdopted
<1> QED BY <1>1, <1>3, <1>5, <1>6, ViewFields DEF Abstract!Adopt, q

LEMMA ReadyIsAbstract ==
    ASSUME TypeOK, CopiesCurrent, PreparedForOutput, SelectionsRead,
           NEW lost \in BOOLEAN, SetReady(lost)
    PROVE  Abstract!Announce
<1>1. /\ instance = tp /\ tp \in Tailored /\ tp.uid # 0
      /\ UNCHANGED <<cm, policy, tpBorn>>
  BY WriteCurrent
<1>2. rpc = "setReady" /\ tp' = Ready(tp)
  BY <1>1 DEF SetReady, WriteTailored
<1>3. tp.spec.extends \in Profiles /\ tp.spec.output # "unset"
  BY <1>1, <1>2 DEF TypeOK, ControllerTypeOK, ProfileCalls
<1>4. tp.spec.output \in Abstract!Kinds
  BY <1>1, <1>3 DEF Tailored, TailoredSpec, Abstract!Kinds
<1>5. tp.spec.extends \in Owners(tp)
  BY <1>1, <1>2, <1>3 DEF PreparedForOutput, ProfileCalls, Owners
<1>6. AllAcceptable(tp.spec)
  BY <1>1, <1>2 DEF SelectionsRead, AllAcceptable
<1>7. View(tp') = [View(tp) EXCEPT !.state = "READY", !.output = "named"]
  BY <1>1, <1>2, ViewWritten
<1>8. Promises' \in {{}, {[of |-> tp.uid, spec |-> tp.spec]}}
  <2>1. CASE lost
    BY <2>1 DEF SetReady, Return, Promises
  <2>2. CASE ~lost
    <3>1. rpc' = "createOutput" /\ instance' = instance
      BY <2>2 DEF SetReady, Proceed
    <3> QED BY <1>1, <3>1 DEF Promises
  <2> QED BY <2>1, <2>2
<1>9. UNCHANGED <<tpBorn, Made>>
  BY <1>1, MadeUnchanged
<1> QED BY <1>1, <1>4, <1>5, <1>6, <1>7, <1>8, <1>9, ViewFields DEF Abstract!Announce

LEMMA ErrorIsAbstract ==
    ASSUME TypeOK, CopiesCurrent, NEW lost \in BOOLEAN, SetError(lost)
    PROVE  Abstract!Fail
<1>1. /\ instance = tp /\ tp \in Tailored /\ tp.uid # 0
      /\ UNCHANGED <<cm, policy, tpBorn>>
  BY WriteCurrent
<1>2. rpc = "setError" /\ rpc' = "idle" /\ tp' = Failed(tp)
  BY <1>1 DEF SetError, Return, WriteTailored
<1>3. UNCHANGED <<Promises, tpBorn, Made>>
  BY <1>1, <1>2, NoPromise
<1>4. View(tp') = [View(tp) EXCEPT !.state = "ERROR"]
  BY <1>1, <1>2, ViewWritten
<1> QED BY <1>1, <1>3, <1>4, ViewFields DEF Abstract!Fail

LEMMA OutputIsAbstract ==
    ASSUME TypeOK, NEW lost \in BOOLEAN, CreateOutput(lost)
    PROVE  \E p \in Promises : Abstract!Produce(p)
<1> DEFINE p == [of |-> instance.uid, spec |-> instance.spec]
           k == instance.spec.output
           made == [of |-> instance.uid, doc |-> Document(instance.spec)]
<1>1. /\ UNCHANGED <<tp, tpBorn>> /\ rpc = "createOutput" /\ rpc' = "idle"
      /\ \/ k = "Policy" /\ policy' = made /\ cm' = cm
         \/ k # "Policy" /\ cm' = made /\ policy' = policy
  BY CreateEffect DEF Rendered
<1>2. k \in {"ConfigMap", "Policy"}
  <2>1. instance.spec \in TailoredSpec /\ k # "unset"
    BY <1>1 DEF TypeOK, ControllerTypeOK, ProfileCalls, Tailored
  <2> QED BY <2>1 DEF TailoredSpec
<1>3. IF k = "Policy" THEN policy.of = 0 ELSE cm.of = 0
  BY DEF CreateOutput
<1>4. Promises = {p} /\ Promises' = {}
  BY <1>1 DEF Promises
<1> HIDE DEF k, made
<1>5. Made[k].of = 0 /\ Made' = [Made EXCEPT ![k] = made]
  BY <1>1, <1>2, <1>3 DEF Made
<1>6. p.of = instance.uid /\ p.spec = instance.spec /\ p.spec.output = k
  BY DEF k
<1> HIDE DEF p
<1>7. made = [of |-> p.of, doc |-> Document(p.spec)]
  BY <1>6 DEF made
<1>8. View(tp)' = View(tp) /\ tpBorn' = tpBorn
  BY <1>1, ViewUnchanged
<1> QED BY <1>4, <1>5, <1>6, <1>7, <1>8 DEF Abstract!Produce

-----------------------------------------------------------------------------
LEMMA StepIsAbstract ==
    ASSUME Inductive, Next
    PROVE  Unseen \/ Abstract!Next
<1> USE DEF Abstract!Next
<1>a. TypeOK /\ CopiesCurrent /\ SpecsAgree /\ PreparedForOutput /\ SelectionsRead
  BY DEF Inductive
<1>1. CASE (OtherStep \/ SyncTailored) /\ UNCHANGED controller
  BY <1>1, OtherIsAbstract
<1>2. CASE (\E s \in Specs : CreateTailored(s) \/ EditTailored(s)) /\ UNCHANGED controller
  BY <1>a, <1>2, CreateIsAbstract, EditIsAbstract
<1>3. CASE (DeleteTailored \/ CollectTailored) /\ UNCHANGED controller
  BY <1>3, EndIsAbstract
<1>4. CASE DropOwners /\ UNCHANGED controller
  BY <1>a, <1>4, DropIsAbstract
<1>5. CASE ControllerNext
  <2>1. ASSUME NEW lost \in BOOLEAN,
               SetOutputType(lost) \/ Adopt(lost) \/ SetReady(lost) \/ SetError(lost)
        PROVE  Abstract!Next
    BY <1>a, <2>1, DefaultIsAbstract, AdoptIsAbstract, ReadyIsAbstract, ErrorIsAbstract
  <2>2. ASSUME NEW lost \in BOOLEAN, CreateOutput(lost) PROVE Abstract!Next
    BY <1>a, <2>2, OutputIsAbstract
  <2>3. CASE GetTailored \/ OperatorRestarts
    BY <2>3, ForgetIsAbstract DEF GetTailored, Validated, OperatorRestarts
  <2>4. CASE GetProfile \/ GetBundle \/ ReadSelection \/ GetOutput \/ Refused \/ CallFails
    BY <2>4, ReadEffect, ForgetIsAbstract
  <2> QED BY <1>5, <2>1, <2>2, <2>3, <2>4, ControllerSteps
<1> QED BY <1>1, <1>2, <1>3, <1>4, <1>5, NextSteps

\* The controller and the cluster implement TailoredStatus: READY is only said of a
\* complete and acceptable spec that is there and owned by the Profile it extends,
\* and an output only ever made as it was announced by that.
THEOREM TailoredIsAbstract == Spec => ImplementsTailored
<1>1. ASSUME Init PROVE Abstract!Init
  <2>1. View(tp).uid = 0 /\ tpBorn = 0
    BY <1>1, AbsentType, ViewFields DEF Init, ClusterInit
  <2>2. Promises = {}
    BY <1>1 DEF Init, ControllerInit, Promises
  <2>3. Made = [k \in Abstract!Kinds |-> NoOutput]
    BY <1>1 DEF Init, ClusterInit, Made, Abstract!Kinds
  <2> QED BY <2>1, <2>2, <2>3 DEF Abstract!Init
<1>2. ASSUME Inductive, [Next]_vars PROVE [Abstract!Next]_(Abstract!offer)
  <2>1. CASE Next
    BY <1>2, <2>1, StepIsAbstract DEF Unseen, Abstract!offer
  <2>2. CASE UNCHANGED vars
    BY <2>2, ViewUnchanged, PromisesUnchanged, MadeUnchanged
    DEF vars, cluster, controller, Abstract!offer
  <2> QED BY <1>2, <2>1, <2>2
<1> QED BY <1>1, <1>2, InductiveInvariant, PTL DEF Spec, ImplementsTailored, Abstract!Spec
=============================================================================
