-------------------------- MODULE TailoredLifecycle --------------------------
(***************************************************************************)
(* The life of a TailoredProfile: its controller and the cluster, running  *)
(* concurrently.                                                           *)
(***************************************************************************)
EXTENDS TailoredProfileController

vars == <<cluster, controller>>

Init == ClusterInit /\ ControllerInit

User ==
    \/ \E s \in Specs : CreateTailored(s) \/ EditTailored(s)
    \/ DeleteTailored
    \/ RemoveOutput

Collector ==
    \/ CollectTailored
    \/ DropOwners
    \/ CollectConfigMap
    \/ \E o \in Objects : CollectContent(o)

Informers == SyncTailored \/ SyncConfigMap \/ Resync

Next ==
    \/ (Content \/ User \/ Collector \/ Informers) /\ UNCHANGED controller
    \/ ControllerNext

Spec == Init /\ [][Next]_vars

(***************************************************************************)
(* Fairness.  The worker goroutine, the informers (with their periodic     *)
(* resync) and the garbage collector keep running; what the user and the   *)
(* parser do, and what goes wrong, is never forced.                        *)
(***************************************************************************)
Fairness ==
    /\ WF_vars(Reconcile)
    /\ WF_vars(SyncTailored /\ UNCHANGED controller)
    /\ WF_vars(SyncConfigMap /\ UNCHANGED controller)
    /\ WF_vars(Resync /\ UNCHANGED controller)
    /\ WF_vars(CollectTailored /\ UNCHANGED controller)
    /\ WF_vars(DropOwners /\ UNCHANGED controller)
    /\ WF_vars(CollectConfigMap /\ UNCHANGED controller)
    /\ \A o \in Objects : WF_vars(CollectContent(o) /\ UNCHANGED controller)

FairSpec == Spec /\ Fairness

-----------------------------------------------------------------------------
TypeOK == ClusterTypeOK /\ ControllerTypeOK

Exists == tp.uid # 0

\* The outputs that were made for this incarnation of the TailoredProfile.
OwnConfigMap == Exists /\ cm.of = tp.uid
OwnPolicy    == Exists /\ policy.of = tp.uid

\* The user has not changed the TailoredProfile's spec.
Unedited == left["edit"] = Budget["edit"]

\* An output exists only of a TailoredProfile that a Profile owns and whose
\* status names an output: adoption, the status and the output are three API
\* calls of two runs of Reconcile, and whatever comes between them, no output
\* is left that the garbage collector could not find or the user not see.
OutputAnnounced ==
    OwnConfigMap \/ OwnPolicy => Adopted(tp) /\ tp.ref # "none"

Documents == {o.doc : o \in {out \in {cm, policy} : out.of # 0}}

\* No document ever names a Rule object twice, be it to enable and to disable it,
\* whatever the user edits between the check of the selections and the creation of
\* the output: its entries are the ids of as many Rules.  (One id may be there twice
\* all the same, of the Rules of two bundles with that element.)
SelectsOf(d, names) ==
    /\ \A i \in DOMAIN d.select : d.select[i].idref = IdOf[names[i]]
    /\ \A i, j \in DOMAIN d.select : names[i] = names[j] => i = j

RulesOnce ==
    \A d \in Documents : \E names \in [DOMAIN d.select -> Rules] : SelectsOf(d, names)

\* No document ever sets a variable to a value that is not of its type or not
\* among its selections.
ValuesAccepted ==
    \A d \in Documents : \A i \in DOMAIN d.values : \E v \in Variables :
        /\ d.values[i].idref = IdOf[v]
        /\ ValidType(v, d.values[i].value) /\ ValidValue(v, d.values[i].value)

\* The document d says what the spec s says.
Switched(d, on) ==
    {d.select[i].idref : i \in {j \in DOMAIN d.select : d.select[j].selected = on}}
IdsOf(names) == {IdOf[names[i]] : i \in DOMAIN names}

Says(d, s) ==
    /\ d.extends = IdOf[s.extends]
    /\ Switched(d, TRUE) = IdsOf(s.enable)
    /\ Switched(d, FALSE) = IdsOf(s.disable)
    /\ \A i \in DOMAIN s.set : \E j \in DOMAIN d.values :
          d.values[j] = [idref |-> IdOf[s.set[i].var], value |-> s.set[i].value]

\* While the user edits nothing, an output says what the spec says and is of the
\* type it asks for: what an empty field stands for is decided, and saved, before.
OutputMatchesSpec ==
    Unedited =>
      /\ OwnConfigMap => tp.spec.output = "ConfigMap" /\ Says(cm.doc, tp.spec)
      /\ OwnPolicy    => tp.spec.output = "Policy" /\ Says(policy.doc, tp.spec)

\* A state is only ever written for the spec it was worked out from, never over
\* one that the user has meanwhile put in its place.
StateOfThisSpec ==
    [][Exists /\ tp'.uid = tp.uid /\ tp'.state # tp.state
         => instance.uid = tp.uid /\ instance.spec = tp.spec]_vars

\* A Profile that exists is never taken off the owners, and of those that are gone
\* never the last one: the garbage collector's way to the TailoredProfile stays open.
OwnersStay ==
    [][Exists /\ tp'.uid = tp.uid /\ Adopted(tp)
         => /\ Adopted(tp')
            /\ \A p \in Profiles : tp.owners[p] # 0 /\ tp'.owners[p] = 0
                                     => tp.owners[p] # objs[p]]_vars

\* What the TailoredProfile asks for is acceptable and there, of its Profile's bundle,
\* and the Profile is of the bundle that exists.
Processable ==
    /\ Exists
    /\ bundle # 0
    /\ tp.spec.extends # "none"
    /\ objs[tp.spec.extends] = bundle
    /\ \A i \in DOMAIN Selections(tp.spec) :
          /\ Acceptable(tp.spec, i)
          /\ Selections(tp.spec)[i] \in Objects
          /\ objs[Selections(tp.spec)[i]] # 0

\* In the end a TailoredProfile is READY or in ERROR.
EventuallySettled == <>[](Exists => tp.state # "unset")

\* In the end one that can be processed has its output, be it created before its
\* Profile and rules, or while an output of an earlier TailoredProfile of the same
\* name is still to be collected, or while the bundle is being replaced; and it
\* is READY, if there was one bundle only.
EventuallyReady ==
    <>[](Processable => /\ OwnConfigMap \/ OwnPolicy
                        /\ born = 1 => tp.state = "READY")

\* In the end ERROR is only said of what cannot be processed.
ErrorIsCurrent == <>[](Processable => tp.state # "ERROR")

\* In the end an output belongs to the TailoredProfile that exists, and a
\* TailoredProfile with owners has one that lives.
OutputsCollected ==
    <>[](/\ cm.of # 0 => OwnConfigMap
         /\ policy.of # 0 => OwnPolicy
         /\ Exists /\ Adopted(tp) => OwnerLives(tp))

-----------------------------------------------------------------------------
\* The TailoredProfile and its outputs as TailoredStatus sees them.  A promise is
\* what the worker is about to create once it has written READY.
Owners(t) == {p \in Profiles : t.owners[p] # 0}

View(t) == [uid |-> t.uid, spec |-> t.spec, owners |-> Owners(t),
             state |-> t.state, output |-> IF t.ref = "none" THEN "none" ELSE "named"]

Promises == IF rpc = "createOutput" THEN {[of |-> instance.uid, spec |-> instance.spec]}
                                    ELSE {}

Made == [k \in {"ConfigMap", "Policy"} |-> IF k = "Policy" THEN policy ELSE cm]

AllAcceptable(s) == \A i \in 1..Len(Selections(s)) : Acceptable(s, i)

Abstract == INSTANCE TailoredStatus WITH
                tailored <- View(tp), born <- tpBorn, promises <- Promises,
                made <- Made, Sound <- AllAcceptable, Nothing <- NoOutput

\* READY is only said of a complete and acceptable spec, owned by the Profile it
\* extends, and an output is only made as it was announced: of the spec that was
\* there when READY was written, once, and never over one that exists.
ImplementsTailored == Abstract!Spec

-----------------------------------------------------------------------------
(* The inductive strengthening of the safety properties above.              *)

\* A copy with the current resourceVersion is the current object.  Once the status
\* is written, the copy it was written from is not.
CopiesCurrent ==
    /\ "tpCache"  \in fresh => tpCache = tp
    /\ "instance" \in fresh => instance = tp /\ rpc \notin {"idle", "createOutput"}

\* Nothing is of a later incarnation than the latest.
UidsBorn ==
    /\ tp.uid <= tpBorn
    /\ tpCache.uid <= tpBorn
    /\ instance.uid <= tpBorn
    /\ cm.of <= tpBorn
    /\ policy.of <= tpBorn

\* The copies, old as they may be, of the incarnation that exists.
CopiesOfThis == {copy \in {tpCache, instance} : Exists /\ copy.uid = tp.uid}

\* If a copy has an owner, the TailoredProfile still has one.
OwnersKept == \A copy \in CopiesOfThis : Adopted(copy) => Adopted(tp)

\* What Reconcile has seen to before it comes to the output.
PreparedForOutput ==
    /\ rpc \in ProfileCalls \ {"adopt"} => instance.owners[instance.spec.extends] # 0
    /\ rpc = "createOutput" /\ instance \in CopiesOfThis => tp.ref # "none"

\* The selections before the one that is read next were acceptable, and in the end
\* all of them.
SelectionsRead ==
    /\ rpc = "readSelection" => \A i \in 1..(at - 1) : Acceptable(instance.spec, i)
    /\ rpc \in {"getOutput", "setReady", "createOutput"} =>
         \A i \in 1..Len(Selections(instance.spec)) : Acceptable(instance.spec, i)

\* Unedited, a copy whose output type is decided has the spec.
SpecsAgree ==
    /\ left["edit"] <= Budget["edit"]
    /\ rpc = "setOutputType" => instance.spec.output = "unset"
    /\ Unedited => \A copy \in CopiesOfThis :
                       copy.spec.output # "unset" => copy.spec = tp.spec

Inductive ==
    /\ TypeOK
    /\ CopiesCurrent
    /\ UidsBorn
    /\ OwnersKept
    /\ PreparedForOutput
    /\ SelectionsRead
    /\ SpecsAgree
    /\ OutputAnnounced
    /\ RulesOnce
    /\ ValuesAccepted
    /\ OutputMatchesSpec
=============================================================================
