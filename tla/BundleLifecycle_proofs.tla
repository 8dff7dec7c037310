------------------------ MODULE BundleLifecycle_proofs ------------------------
(***************************************************************************)
(* Theorems about the life of a ProfileBundle, for all data streams, all   *)
(* numbers of incarnations and all budgets of faults.                      *)
(***************************************************************************)
EXTENDS BundleLifecycle, TLAPS

-----------------------------------------------------------------------------
(* Type correctness, one lemma per actor. *)

\* The values of an absent object are of the object's type.
LEMMA AbsentType == NoBundle \in Bundle /\ NoPod \in Pod
<1>1. AnyImage \in Images
  BY ConstantsAssumption DEF AnyImage
<1>2. 0 \in 0..MaxUid
  BY ConstantsAssumption
<1> QED BY <1>1, <1>2
        DEF NoBundle, NoPod, Bundle, Pod, Statuses, Messages

\* The copies, the empty message and the faults by name.
LEMMA Names ==
    /\ {"pbCache", "podCache", "instance", "bundle"} \subseteq Copies
    /\ "none" \in Messages
BY DEF Copies, BundleCopies, Messages

LEMMA FaultNames == {"api", "crash", "drain", "edit", "start"} \subseteq FaultKinds
BY DEF FaultKinds

\* A fault uses up a part of its budget.
LEMMA SpendType ==
    ASSUME left \in [FaultKinds -> Nat], NEW k \in FaultKinds, Spend(k)
    PROVE  left' \in [FaultKinds -> Nat]
BY DEF Spend

\* The user, the informers and the garbage collector keep the types.
LEMMA EnvironmentTypeOK ==
    ASSUME TypeOK, User \/ Informers \/ Collector,
           UNCHANGED <<controller, parser>>
    PROVE  TypeOK'
<1> USE ConstantsAssumption, AbsentType, Names DEF TypeOK, ClusterTypeOK, ControllerTypeOK,
        ParserTypeOK, controller, parser
<1>1. ASSUME NEW i \in Images, CreateBundle(i)
      PROVE  TypeOK'
  <2>1. [uid |-> born + 1, image |-> i, status |-> "unset", err |-> "none"] \in Bundle
    <3>1. born < MaxUid
      BY <1>1 DEF CreateBundle
    <3> QED BY <3>1 DEF Bundle, Statuses, Messages
  <2> QED BY <1>1, <2>1 DEF CreateBundle, WriteBundle
<1>2. ASSUME NEW i \in Images, EditBundle(i)
      PROVE  TypeOK'
  <2>1. [pb EXCEPT !.image = i] \in Bundle
    BY <1>2 DEF EditBundle, Bundle
  <2>2. left' \in [FaultKinds -> Nat]
    BY <1>2, SpendType, FaultNames DEF EditBundle
  <2> QED BY <1>2, <2>1, <2>2 DEF EditBundle, WriteBundle
<1>3. CASE DeleteBundle
  BY <1>3 DEF DeleteBundle, WriteBundle
<1>4. CASE SyncBundle
  BY <1>4 DEF SyncBundle
<1>5. CASE SyncPod
  BY <1>5 DEF SyncPod
<1>6. CASE Resync
  BY <1>6 DEF Resync
<1>7. ASSUME NEW o \in Objects, CollectObject(o)
      PROVE  TypeOK'
  BY <1>7 DEF CollectObject
<1> QED BY <1>1, <1>2, <1>3, <1>4, <1>5, <1>6, <1>7
        DEF User, Informers, Collector

\* The kubelet keeps the types.
LEMMA KubeletTypeOK ==
    ASSUME TypeOK, Kubelet, UNCHANGED controller
    PROVE  TypeOK'
<1> USE ConstantsAssumption, AbsentType, Names DEF TypeOK, ClusterTypeOK, ControllerTypeOK,
        ParserTypeOK, controller, parser, WritePod, Spend
<1>1. CASE StartFails /\ UNCHANGED parser
  <2>1. PICK reason \in StartErrors : /\ left' = left \/ Spend("start")
                                     /\ WritePod([pod EXCEPT !.init = reason], {})
    BY <1>1 DEF StartFails
  <2>2. [pod EXCEPT !.init = reason] \in Pod
    BY DEF Pod
  <2>3. left' \in [FaultKinds -> Nat]
    BY <2>1, SpendType, FaultNames
  <2> QED BY <1>1, <2>1, <2>2, <2>3 DEF StartFails
<1>2. CASE StartSucceeds /\ ParserStarts
  <2>1. pod \in Pod /\ [pod EXCEPT !.init = "ready"] \in Pod
    BY <1>2 DEF StartSucceeds, Pod
  <2> QED BY <1>2, <2>1 DEF StartSucceeds, ParserStarts, Reset
<1>3. ASSUME NEW drained \in BOOLEAN, DeletePod(drained), ParserKilled
      PROVE  TypeOK'
  BY <1>3 DEF DeletePod, ParserKilled, Reset
<1> QED BY <1>1, <1>2, <1>3 DEF Kubelet

\* The controller keeps the types.
LEMMA ControllerKeepsTypeOK ==
    ASSUME TypeOK, ControllerNext, UNCHANGED parser
    PROVE  TypeOK'
<1> USE ConstantsAssumption, AbsentType, Names DEF TypeOK, ClusterTypeOK, ControllerTypeOK,
        ParserTypeOK, parser, Return, Spend
<1>1. CASE GetBundle
  BY <1>1 DEF GetBundle
<1>2. CASE GetPod
  <2>1. AfterGetPod(podCache) \in {"idle", "setPending", "report"}
    BY DEF AfterGetPod
  <2> QED BY <1>2, <2>1 DEF GetPod
<1>3. ASSUME NEW lost \in BOOLEAN, SetPending(lost)
      PROVE  TypeOK'
  <2>1. Pending(instance) \in Bundle
    BY <1>3 DEF SetPending, Pending, Bundle, Statuses
  <2> QED BY <1>3, <2>1 DEF SetPending, WriteBundle, Answered
<1>4. ASSUME NEW lost \in BOOLEAN, CreatePod(lost)
      PROVE  TypeOK'
  <2>1. [owner |-> instance.uid, image |-> instance.image,
         init |-> "waiting"] \in Pod
    BY <1>4 DEF CreatePod, Bundle, Pod
  <2> QED BY <1>4, <2>1 DEF CreatePod, WritePod, Answered
<1>5. ASSUME NEW lost \in BOOLEAN, ReportStartupError(lost)
      PROVE  TypeOK'
  <2>1. InitFailed(instance) \in Bundle
    BY <1>5 DEF ReportStartupError, InitFailed, Bundle, Statuses, Messages
  <2> QED BY <1>5, <2>1 DEF ReportStartupError, WriteBundle, Answered
<1>6. CASE Refused
  BY <1>6 DEF Refused
<1>7. CASE CallFails
  <2>1. left' \in [FaultKinds -> Nat]
    BY <1>7, SpendType, FaultNames DEF CallFails
  <2> QED BY <1>7, <2>1 DEF CallFails
<1>8. CASE OperatorRestarts
  <2>1. left' \in [FaultKinds -> Nat]
    BY <1>8, SpendType, FaultNames DEF OperatorRestarts
  <2>2. fresh' \in SUBSET Copies
    BY <1>8 DEF OperatorRestarts
  <2> QED BY <1>8, <2>1, <2>2 DEF OperatorRestarts
<1> QED BY <1>1, <1>2, <1>3, <1>4, <1>5, <1>6, <1>7, <1>8
        DEF ControllerNext, Reconcile

\* While the parser handles an element, the element is one of the document.
LEMMA ElementIsItem ==
    ASSUME TypeOK, ppc = "parse", pos <= Len(Elements)
    PROVE  /\ Elements \in Seq(Item)
           /\ pos \in 1..Len(Elements)
           /\ Elements[pos] \in Item
           /\ Elements[pos].obj \in Objects
<1>1. pod \in Pod
  BY DEF TypeOK, ClusterTypeOK, ParserTypeOK
<1>2. Stream \in DataStream
  BY <1>1, ConstantsAssumption DEF Stream, Pod
<1>3. Elements \in Seq(Item)
  BY <1>2 DEF Elements, DataStream, TypeOK, ParserTypeOK
<1>4. pos \in 1..Len(Elements)
  BY <1>3 DEF TypeOK, ParserTypeOK
<1>5. Elements[pos] \in Item
  BY <1>3, <1>4
<1> QED BY <1>3, <1>4, <1>5 DEF Item

\* Creating an object for an incarnation that exists keeps the types.
LEMMA CreateObjectType ==
    ASSUME objs \in [Objects -> 0..MaxUid], NEW o \in Objects,
           NEW uid \in 1..MaxUid, CreateObject(o, uid), MaxUid \in Nat
    PROVE  objs' \in [Objects -> 0..MaxUid]
BY DEF CreateObject

\* The parser keeps the types.
LEMMA ParserKeepsTypeOK ==
    ASSUME TypeOK, ParserNext, UNCHANGED controller
    PROVE  TypeOK'
<1> USE ConstantsAssumption, AbsentType, Names DEF TypeOK, ClusterTypeOK, ControllerTypeOK,
        ParserTypeOK, controller, cluster
<1>1. CASE FetchBundle
  BY <1>1 DEF FetchBundle
<1>2. CASE ReadContent
  <2>1. Stream.file \in {"ok", "missing", "badXml"}
    BY <1>2 DEF ReadContent, Stream, DataStream, Pod
  <2>2. "file" \in Messages /\ "xml" \in Messages
    BY DEF Messages
  <2> QED BY <1>2, <2>1, <2>2 DEF ReadContent, Fail
<1>3. CASE PassOverElement
  <2>1. "malformed" \in Messages
    BY DEF Messages
  <2> QED BY <1>3, <2>1 DEF PassOverElement, Fail, NextElement
<1>4. CASE CreateElement
  <2>1. Elements[pos].obj \in Objects /\ bundle.uid \in 1..MaxUid
    BY <1>4, ElementIsItem DEF CreateElement, Bundle
  <2>2. objs' \in [Objects -> 0..MaxUid]
    BY <1>4, <2>1, CreateObjectType DEF CreateElement
  <2> QED BY <1>4, <2>2 DEF CreateElement, NextElement
<1>5. ASSUME NEW done \in BOOLEAN, CreateElementFails(done)
      PROVE  TypeOK'
  <2>1. Elements[pos].obj \in Objects /\ bundle.uid \in 1..MaxUid
    BY <1>5, ElementIsItem DEF CreateElementFails, Bundle
  <2>2. objs' \in [Objects -> 0..MaxUid]
    BY <1>5, <2>1, CreateObjectType DEF CreateElementFails
  <2>3. left' \in [FaultKinds -> Nat]
    BY <1>5, SpendType, FaultNames DEF CreateElementFails
  <2>4. "api" \in Messages
    BY DEF Messages
  <2> QED BY <1>5, <2>2, <2>3, <2>4
          DEF CreateElementFails, OnCreateError, NextElement, Fail
<1>6. CASE EndPass
  BY <1>6 DEF EndPass
<1>7. ASSUME NEW lost \in BOOLEAN, UpdateStatus(lost)
      PROVE  TypeOK'
  <2>1. Judged(bundle) \in Bundle
    BY <1>7 DEF UpdateStatus, Judged, Bundle, Statuses
  <2> QED BY <1>7, <2>1 DEF UpdateStatus, WriteBundle, Answered, Reset, Spend
<1>8. CASE UpdateRefused
  BY <1>8 DEF UpdateRefused, Reset
<1>9. CASE ParserDies
  BY <1>9 DEF ParserDies, Reset, Spend
<1> QED BY <1>1, <1>2, <1>3, <1>4, <1>5, <1>6, <1>7, <1>8, <1>9
        DEF ParserNext, Parse

LEMMA StutterTypeOK == ASSUME TypeOK, UNCHANGED vars PROVE TypeOK'
BY DEF vars, cluster, controller, parser, TypeOK, ClusterTypeOK,
       ControllerTypeOK, ParserTypeOK

\* The initial state and every step, together.
LEMMA InitTypeOK == ASSUME Init PROVE TypeOK
<1> USE ConstantsAssumption, AbsentType, Names DEF Init
<1>1. ClusterTypeOK
  <2>1. objs \in [Objects -> 0..MaxUid] /\ born \in 0..MaxUid
    BY DEF ClusterInit
  <2>2. fresh \in SUBSET Copies
    BY DEF ClusterInit
  <2> QED BY <2>1, <2>2 DEF ClusterInit, ClusterTypeOK
<1>2. ControllerTypeOK
  BY DEF ControllerInit, ControllerTypeOK
<1>3. ParserTypeOK
  BY DEF ParserInit, ParserTypeOK
<1> QED BY <1>1, <1>2, <1>3 DEF TypeOK

LEMMA NextTypeOK == ASSUME TypeOK, Next PROVE TypeOK'
BY EnvironmentTypeOK, KubeletTypeOK, ControllerKeepsTypeOK, ParserKeepsTypeOK
DEF Next

\* Every reachable state is well-typed: the objects, the caches, both program
\* counters and what they rely on being there.
THEOREM TypeCorrect == Spec => []TypeOK
<1>1. TypeOK /\ [Next]_vars => TypeOK'
  BY NextTypeOK, StutterTypeOK
<1> QED BY <1>1, InitTypeOK, PTL DEF Spec

-----------------------------------------------------------------------------
(* The inductive invariant, one lemma per conjunct. *)

\* Uids are numbers.
LEMMA UidType ==
    ASSUME TypeOK
    PROVE  /\ pb.uid \in Nat /\ pbCache.uid \in Nat /\ instance.uid \in Nat
           /\ bundle.uid \in Nat /\ pod.owner \in Nat /\ born \in Nat
           /\ \A o \in Objects : objs[o] \in Nat
<1> USE ConstantsAssumption
        DEF TypeOK, ClusterTypeOK, ControllerTypeOK, ParserTypeOK
<1>1. pb.uid \in Nat /\ pbCache.uid \in Nat
  BY DEF Bundle
<1>2. instance.uid \in Nat
  BY DEF Bundle
<1>3. bundle.uid \in Nat
  BY DEF Bundle
<1>4. pod.owner \in Nat
  BY DEF Pod
<1>5. born \in Nat /\ \A o \in Objects : objs[o] \in Nat
  OBVIOUS
<1> QED BY <1>1, <1>2, <1>3, <1>4, <1>5

\* Reading the content and passing over elements changes nothing but the
\* parser's place in the document.
LEMMA ReadsOnly ==
    ASSUME TypeOK, ReadContent \/ PassOverElement \/ EndPass
    PROVE  UNCHANGED <<cluster, bundle>>
<1>1. CASE ReadContent
  <2>1. Stream.file \in {"ok", "missing", "badXml"}
    BY <1>1, ConstantsAssumption
    DEF ReadContent, Stream, DataStream, Pod, TypeOK, ClusterTypeOK
  <2> QED BY <1>1, <2>1 DEF ReadContent, Fail
<1>2. CASE PassOverElement
  BY <1>2 DEF PassOverElement, Fail, NextElement
<1>3. CASE EndPass
  BY <1>3 DEF EndPass
<1> QED BY <1>1, <1>2, <1>3

\* A write that changes the bundle makes every copy of it stale.
LEMMA CopiesCurrentStep ==
    ASSUME Inductive, Next
    PROVE  CopiesCurrent'
<1> USE DEF Inductive, CopiesCurrent, WriteBundle, WritePod, BundleCopies
<1>1. CASE User /\ UNCHANGED <<controller, parser>>
  BY <1>1 DEF User, CreateBundle, EditBundle, DeleteBundle, controller, parser
<1>2. CASE (Informers \/ Collector) /\ UNCHANGED <<controller, parser>>
  BY <1>2 DEF Informers, Collector, SyncBundle, SyncPod, Resync, CollectObject,
              controller, parser
<1>3. CASE Kubelet /\ UNCHANGED controller
  <2> USE <1>3 DEF controller, parser
  <2>1. CASE StartFails /\ UNCHANGED parser
    BY <2>1 DEF StartFails
  <2>2. CASE StartSucceeds /\ ParserStarts
    BY <2>2 DEF StartSucceeds, ParserStarts, Reset
  <2>3. ASSUME NEW drained \in BOOLEAN, DeletePod(drained), ParserKilled
        PROVE  CopiesCurrent'
    BY <2>3 DEF DeletePod, ParserKilled, Reset
  <2> QED BY <2>1, <2>2, <2>3 DEF Kubelet
<1>4. CASE ControllerNext /\ UNCHANGED parser
  <2> USE <1>4 DEF parser, Return
  <2>1. CASE GetBundle
    BY <2>1 DEF GetBundle
  <2>2. CASE GetPod
    BY <2>2 DEF GetPod
  <2>3. ASSUME NEW lost \in BOOLEAN, SetPending(lost) PROVE CopiesCurrent'
    BY <2>3 DEF SetPending
  <2>4. ASSUME NEW lost \in BOOLEAN, CreatePod(lost) PROVE CopiesCurrent'
    BY <2>4 DEF CreatePod
  <2>5. ASSUME NEW lost \in BOOLEAN, ReportStartupError(lost)
        PROVE  CopiesCurrent'
    BY <2>5 DEF ReportStartupError
  <2>6. CASE Refused \/ CallFails \/ OperatorRestarts
    BY <2>6 DEF Refused, CallFails, OperatorRestarts
  <2> QED BY <2>1, <2>2, <2>3, <2>4, <2>5, <2>6
          DEF ControllerNext, Reconcile
<1>5. CASE ParserNext /\ UNCHANGED controller
  <2> USE <1>5 DEF controller, cluster
  <2>1. CASE FetchBundle
    BY <2>1 DEF FetchBundle
  <2>2. CASE ReadContent \/ PassOverElement \/ EndPass
    <3>1. UNCHANGED <<cluster, bundle>>
      BY <2>2, ReadsOnly
    <3> QED BY <3>1
  <2>3. CASE CreateElement \/ \E done \in BOOLEAN : CreateElementFails(done)
    BY <2>3 DEF CreateElement, CreateElementFails, OnCreateError, Fail,
                NextElement
  <2>4. ASSUME NEW lost \in BOOLEAN, UpdateStatus(lost) PROVE CopiesCurrent'
    BY <2>4 DEF UpdateStatus, Reset
  <2>5. CASE UpdateRefused \/ ParserDies
    BY <2>5 DEF UpdateRefused, ParserDies, Reset, BundleCurrent
  <2> QED BY <2>1, <2>2, <2>3, <2>4, <2>5 DEF ParserNext, Parse
<1> QED BY <1>1, <1>2, <1>3, <1>4, <1>5 DEF Next

\* Uids are handed out in order.
LEMMA UidsBornStep ==
    ASSUME Inductive, Next
    PROVE  UidsBorn'
<1> USE UidType DEF Inductive, UidsBorn, WriteBundle, WritePod
<1>1. CASE User /\ UNCHANGED <<controller, parser>>
  <2> USE <1>1 DEF controller, parser
  <2>1. ASSUME NEW i \in Images, CreateBundle(i) PROVE UidsBorn'
    BY <2>1 DEF CreateBundle
  <2>2. ASSUME NEW i \in Images, EditBundle(i) PROVE UidsBorn'
    <3>1. pb'.uid = pb.uid
      BY <2>2 DEF EditBundle, TypeOK, ClusterTypeOK, Bundle
    <3> QED BY <2>2, <3>1 DEF EditBundle
  <2>3. CASE DeleteBundle
    BY <2>3 DEF DeleteBundle, NoBundle
  <2> QED BY <2>1, <2>2, <2>3 DEF User
<1>2. CASE (Informers \/ Collector) /\ UNCHANGED <<controller, parser>>
  <2> USE <1>2 DEF controller, parser
  <2>1. CASE SyncBundle
    BY <2>1 DEF SyncBundle
  <2>2. CASE SyncPod \/ Resync
    BY <2>2 DEF SyncPod, Resync
  <2>3. ASSUME NEW o \in Objects, CollectObject(o) PROVE UidsBorn'
    BY <2>3 DEF CollectObject, TypeOK, ClusterTypeOK
  <2> QED BY <2>1, <2>2, <2>3 DEF Informers, Collector
<1>3. CASE Kubelet /\ UNCHANGED controller
  <2> USE <1>3 DEF controller, parser
  <2>1. CASE StartFails /\ UNCHANGED parser
    <3>1. pod'.owner = pod.owner
      BY <2>1 DEF StartFails, TypeOK, ClusterTypeOK, Pod
    <3> QED BY <2>1, <3>1 DEF StartFails
  <2>2. CASE StartSucceeds /\ ParserStarts
    <3>1. pod'.owner = pod.owner
      BY <2>2 DEF StartSucceeds, TypeOK, ClusterTypeOK, Pod
    <3> QED BY <2>2, <3>1 DEF StartSucceeds, ParserStarts, Reset, NoBundle
  <2>3. ASSUME NEW drained \in BOOLEAN, DeletePod(drained), ParserKilled
        PROVE  UidsBorn'
    BY <2>3 DEF DeletePod, ParserKilled, Reset, NoBundle, NoPod
  <2> QED BY <2>1, <2>2, <2>3 DEF Kubelet
<1>4. CASE ControllerNext /\ UNCHANGED parser
  <2> USE <1>4 DEF parser, Return, NoBundle
  <2>1. CASE GetBundle \/ GetPod
    BY <2>1 DEF GetBundle, GetPod
  <2>3. ASSUME NEW lost \in BOOLEAN, SetPending(lost) PROVE UidsBorn'
    BY <2>3 DEF SetPending, Pending, CopiesCurrent, InstanceCurrent
  <2>4. ASSUME NEW lost \in BOOLEAN, CreatePod(lost) PROVE UidsBorn'
    BY <2>4 DEF CreatePod
  <2>5. ASSUME NEW lost \in BOOLEAN, ReportStartupError(lost)
        PROVE  UidsBorn'
    BY <2>5 DEF ReportStartupError, InitFailed, CopiesCurrent, InstanceCurrent
  <2>6. CASE Refused \/ CallFails \/ OperatorRestarts
    BY <2>6 DEF Refused, CallFails, OperatorRestarts
  <2> QED BY <2>1, <2>3, <2>4, <2>5, <2>6
          DEF ControllerNext, Reconcile
<1>5. CASE ParserNext /\ UNCHANGED controller
  <2> USE <1>5 DEF controller, cluster
  <2>1. CASE FetchBundle
    BY <2>1 DEF FetchBundle
  <2>2. CASE ReadContent \/ PassOverElement \/ EndPass
    <3>1. UNCHANGED <<cluster, bundle>>
      BY <2>2, ReadsOnly
    <3> QED BY <3>1
  <2>3. CASE CreateElement \/ \E done \in BOOLEAN : CreateElementFails(done)
    <3>1. UNCHANGED <<pb, pod, pbCache, instance, bundle, born>>
      BY <2>3 DEF CreateElement, CreateElementFails, OnCreateError, Fail,
                  NextElement
    <3>2. PICK o : objs' = objs \/ CreateObject(o, bundle.uid)
      BY <2>3 DEF CreateElement, CreateElementFails
    <3>3. objs' = objs \/ objs' = [objs EXCEPT ![o] = bundle.uid]
      BY <3>2 DEF CreateObject
    <3> QED BY <3>1, <3>3 DEF TypeOK, ClusterTypeOK
  <2>4. ASSUME NEW lost \in BOOLEAN, UpdateStatus(lost) PROVE UidsBorn'
    BY <2>4 DEF UpdateStatus, Reset, Judged, CopiesCurrent, BundleCurrent,
                NoBundle
  <2>5. CASE UpdateRefused \/ ParserDies
    BY <2>5 DEF UpdateRefused, ParserDies, Reset, NoBundle
  <2> QED BY <2>1, <2>2, <2>3, <2>4, <2>5 DEF ParserNext, Parse
<1> QED BY <1>1, <1>2, <1>3, <1>4, <1>5 DEF Next

\* What an edit, a start and the status updates change of an object.
LEMMA EditEffect ==
    ASSUME TypeOK, NEW i \in Images, EditBundle(i)
    PROVE  pb'.uid = pb.uid /\ pb'.status = pb.status /\ pb'.err = pb.err
BY DEF EditBundle, WriteBundle, TypeOK, ClusterTypeOK, Bundle

LEMMA StartEffect ==
    ASSUME TypeOK, StartFails \/ StartSucceeds
    PROVE  pod'.owner = pod.owner /\ pod'.image = pod.image
BY DEF StartFails, StartSucceeds, WritePod, TypeOK, ClusterTypeOK, Pod

LEMMA PendingEffect ==
    ASSUME TypeOK, CopiesCurrent, NEW lost \in BOOLEAN, SetPending(lost)
    PROVE  /\ pb'.uid = pb.uid /\ pb'.image = pb.image /\ pb'.err = pb.err
           /\ pb'.status = "PENDING"
<1>1. instance = pb /\ pb \in Bundle
  BY DEF SetPending, InstanceCurrent, CopiesCurrent, TypeOK, ClusterTypeOK
<1>2. pb' = [pb EXCEPT !.status = "PENDING"]
  BY <1>1 DEF SetPending, WriteBundle, Pending
<1> QED BY <1>1, <1>2 DEF Bundle

LEMMA ReportEffect ==
    ASSUME TypeOK, CopiesCurrent, NEW lost \in BOOLEAN,
           ReportStartupError(lost)
    PROVE  /\ pb'.uid = pb.uid /\ pb'.image = pb.image
           /\ pb'.status = "INVALID" /\ pb'.err = "init"
<1>1. instance = pb /\ pb \in Bundle
  BY DEF ReportStartupError, InstanceCurrent, CopiesCurrent, TypeOK,
         ClusterTypeOK
<1>2. pb' = [pb EXCEPT !.status = "INVALID", !.err = "init"]
  BY <1>1 DEF ReportStartupError, WriteBundle, InitFailed
<1> QED BY <1>1, <1>2 DEF Bundle

LEMMA VerdictEffect ==
    ASSUME TypeOK, CopiesCurrent, NEW lost \in BOOLEAN, UpdateStatus(lost)
    PROVE  /\ pb'.uid = pb.uid /\ pb'.image = pb.image
           /\ \/ perr = "none" /\ pb'.status = "VALID" /\ pb'.err = pb.err
              \/ perr # "none" /\ pb'.status = "INVALID" /\ pb'.err = perr
<1>1. bundle = pb /\ pb \in Bundle
  BY DEF UpdateStatus, BundleCurrent, CopiesCurrent, TypeOK, ClusterTypeOK
<1>2. CASE perr = "none"
  <2>1. pb' = [pb EXCEPT !.status = "VALID"]
    BY <1>1, <1>2 DEF UpdateStatus, WriteBundle, Judged
  <2> QED BY <1>1, <1>2, <2>1 DEF Bundle
<1>3. CASE perr # "none"
  <2>1. pb' = [pb EXCEPT !.status = "INVALID", !.err = perr]
    BY <1>1, <1>3 DEF UpdateStatus, WriteBundle, Judged
  <2> QED BY <1>1, <1>3, <2>1 DEF Bundle
<1> QED BY <1>2, <1>3

\* Of the parser's steps only the verdict touches the bundle or the pod, and
\* none touches the controller's place in Reconcile.
LEMMA ParserLeavesBundle ==
    ASSUME TypeOK, ParserNext, ~ \E lost \in BOOLEAN : UpdateStatus(lost)
    PROVE  UNCHANGED <<pb, pod, pbCache>>
<1>1. CASE ReadContent \/ PassOverElement \/ EndPass
  BY <1>1, ReadsOnly DEF cluster
<1>2. CASE FetchBundle \/ UpdateRefused \/ ParserDies
  BY <1>2 DEF FetchBundle, UpdateRefused, ParserDies, cluster
<1>3. CASE CreateElement \/ \E done \in BOOLEAN : CreateElementFails(done)
  BY <1>3 DEF CreateElement, CreateElementFails
<1> QED BY <1>1, <1>2, <1>3 DEF ParserNext, Parse

\* A pod is created only for a bundle whose status was written before.
LEMMA MarkedStep ==
    ASSUME Inductive, Next
    PROVE  MarkedBeforeCreate' /\ PodImpliesMarked'
<1> DEFINE Goal == MarkedBeforeCreate /\ PodImpliesMarked
<1> SUFFICES Goal'
  OBVIOUS
<1> USE UidType DEF Inductive, UidsBorn, MarkedBeforeCreate, PodImpliesMarked,
        OwnPod
<1>1. CASE User /\ UNCHANGED <<controller, parser>>
  <2> USE <1>1 DEF controller
  <2>1. ASSUME NEW i \in Images, CreateBundle(i) PROVE Goal'
    BY <2>1 DEF CreateBundle, WriteBundle
  <2>2. ASSUME NEW i \in Images, EditBundle(i) PROVE Goal'
    BY <2>2, EditEffect DEF EditBundle
  <2>3. CASE DeleteBundle
    BY <2>3 DEF DeleteBundle, WriteBundle, NoBundle
  <2> QED BY <2>1, <2>2, <2>3 DEF User
<1>2. CASE (Informers \/ Collector) /\ UNCHANGED <<controller, parser>>
  BY <1>2 DEF Informers, Collector, SyncBundle, SyncPod, Resync, CollectObject,
              controller
<1>3. CASE Kubelet /\ UNCHANGED controller
  <2> USE <1>3 DEF controller
  <2>1. CASE StartFails \/ StartSucceeds
    BY <2>1, StartEffect DEF StartFails, StartSucceeds
  <2>2. ASSUME NEW drained \in BOOLEAN, DeletePod(drained) PROVE Goal'
    BY <2>2 DEF DeletePod, WritePod, NoPod
  <2> QED BY <2>1, <2>2 DEF Kubelet
<1>4. CASE ControllerNext /\ UNCHANGED parser
  <2>1. CASE GetBundle
    BY <2>1 DEF GetBundle
  <2>2. CASE GetPod
    BY <2>2 DEF GetPod, AfterGetPod, Return
  <2>3. ASSUME NEW lost \in BOOLEAN, SetPending(lost) PROVE Goal'
    BY <2>3, PendingEffect DEF SetPending
  <2>4. ASSUME NEW lost \in BOOLEAN, CreatePod(lost) PROVE Goal'
    BY <2>4 DEF CreatePod, WritePod, Return
  <2>5. ASSUME NEW lost \in BOOLEAN, ReportStartupError(lost) PROVE Goal'
    BY <2>5, ReportEffect DEF ReportStartupError, Return
  <2>6. CASE Refused \/ CallFails \/ OperatorRestarts
    BY <2>6 DEF Refused, CallFails, OperatorRestarts, Return
  <2> QED BY <1>4, <2>1, <2>2, <2>3, <2>4, <2>5, <2>6
          DEF ControllerNext, Reconcile
<1>5. CASE ParserNext /\ UNCHANGED controller
  <2> USE <1>5 DEF controller
  <2>1. ASSUME NEW lost \in BOOLEAN, UpdateStatus(lost) PROVE Goal'
    BY <2>1, VerdictEffect DEF UpdateStatus
  <2>2. CASE ~ \E lost \in BOOLEAN : UpdateStatus(lost)
    BY <2>2, ParserLeavesBundle
  <2> QED BY <2>1, <2>2
<1> QED BY <1>1, <1>2, <1>3, <1>4, <1>5 DEF Next

\* Whoever writes INVALID writes a message, and nobody removes one.
LEMMA MessageStep ==
    ASSUME Inductive, Next
    PROVE  InvalidHasMessage'
<1> USE DEF Inductive, InvalidHasMessage
<1>1. CASE User /\ UNCHANGED <<controller, parser>>
  <2>1. ASSUME NEW i \in Images, CreateBundle(i) PROVE InvalidHasMessage'
    BY <2>1 DEF CreateBundle, WriteBundle
  <2>2. ASSUME NEW i \in Images, EditBundle(i) PROVE InvalidHasMessage'
    BY <2>2, EditEffect DEF EditBundle
  <2>3. CASE DeleteBundle
    BY <2>3 DEF DeleteBundle, WriteBundle, NoBundle
  <2> QED BY <1>1, <2>1, <2>2, <2>3 DEF User
<1>2. CASE (Informers \/ Collector) /\ UNCHANGED <<controller, parser>>
  BY <1>2 DEF Informers, Collector, SyncBundle, SyncPod, Resync, CollectObject
<1>3. CASE Kubelet /\ UNCHANGED controller
  BY <1>3 DEF Kubelet, StartFails, StartSucceeds, DeletePod
<1>4. CASE ControllerNext /\ UNCHANGED parser
  <2>1. ASSUME NEW lost \in BOOLEAN, SetPending(lost)
        PROVE  InvalidHasMessage'
    BY <2>1, PendingEffect
  <2>2. ASSUME NEW lost \in BOOLEAN, ReportStartupError(lost)
        PROVE  InvalidHasMessage'
    BY <2>2, ReportEffect
  <2>3. CASE \/ GetBundle \/ GetPod \/ Refused \/ CallFails
             \/ OperatorRestarts \/ \E lost \in BOOLEAN : CreatePod(lost)
    BY <2>3 DEF GetBundle, GetPod, Refused, CallFails, OperatorRestarts,
                CreatePod
  <2> QED BY <1>4, <2>1, <2>2, <2>3 DEF ControllerNext, Reconcile
<1>5. CASE ParserNext /\ UNCHANGED controller
  <2>1. ASSUME NEW lost \in BOOLEAN, UpdateStatus(lost)
        PROVE  InvalidHasMessage'
    BY <2>1, VerdictEffect
  <2>2. CASE ~ \E lost \in BOOLEAN : UpdateStatus(lost)
    BY <1>5, <2>2, ParserLeavesBundle
  <2> QED BY <2>1, <2>2
<1> QED BY <1>1, <1>2, <1>3, <1>4, <1>5 DEF Next

\* Only an edit uses up the budget of edits.
LEMMA EditBudget ==
    ASSUME TypeOK, Next
    PROVE  \/ /\ \E i \in Images : EditBundle(i)
              /\ left["edit"] \in Nat
              /\ left'["edit"] = left["edit"] - 1
           \/ left'["edit"] = left["edit"]
<1> DEFINE Kept == left'["edit"] = left["edit"]
<1>1. left \in [FaultKinds -> Nat] /\ "edit" \in FaultKinds
  BY FaultNames DEF TypeOK, ClusterTypeOK
<1>2. ASSUME NEW k, k # "edit", Spend(k) PROVE Kept
  BY <1>1, <1>2 DEF Spend
<1>3. ASSUME NEW lost, Answered(lost) PROVE Kept
  BY <1>2, <1>3 DEF Answered
<1>4. ASSUME NEW i \in Images, EditBundle(i)
      PROVE  left["edit"] \in Nat /\ left'["edit"] = left["edit"] - 1
  BY <1>1, <1>4 DEF EditBundle, Spend
<1>5. CASE User
  <2>1. ASSUME NEW i \in Images, CreateBundle(i) PROVE Kept
    BY <2>1 DEF CreateBundle
  <2>2. CASE DeleteBundle
    BY <2>2 DEF DeleteBundle
  <2> QED BY <1>4, <1>5, <2>1, <2>2 DEF User
<1>6. CASE Informers \/ Collector
  BY <1>6 DEF Informers, Collector, SyncBundle, SyncPod, Resync, CollectObject
<1>7. CASE Kubelet
  <2>1. CASE StartFails
    BY <1>2, <2>1 DEF StartFails
  <2>2. CASE StartSucceeds
    BY <2>2 DEF StartSucceeds
  <2>3. ASSUME NEW drained \in BOOLEAN, DeletePod(drained) PROVE Kept
    BY <1>2, <2>3 DEF DeletePod
  <2> QED BY <1>7, <2>1, <2>2, <2>3 DEF Kubelet
<1>8. CASE ControllerNext
  <2>1. CASE GetBundle \/ GetPod \/ Refused
    BY <2>1 DEF GetBundle, GetPod, Refused
  <2>2. ASSUME NEW lost, SetPending(lost) \/ CreatePod(lost)
                         \/ ReportStartupError(lost)
        PROVE  Kept
    BY <1>3, <2>2 DEF SetPending, CreatePod, ReportStartupError
  <2>3. CASE CallFails \/ OperatorRestarts
    BY <1>2, <2>3 DEF CallFails, OperatorRestarts
  <2> QED BY <1>8, <2>1, <2>2, <2>3 DEF ControllerNext, Reconcile
<1>9. CASE ParserNext
  <2>1. CASE ReadContent \/ PassOverElement \/ EndPass
    BY <2>1, ReadsOnly DEF cluster
  <2>2. CASE FetchBundle \/ CreateElement \/ UpdateRefused
    BY <2>2 DEF FetchBundle, CreateElement, UpdateRefused, cluster
  <2>3. ASSUME NEW lost, UpdateStatus(lost) PROVE Kept
    BY <1>3, <2>3 DEF UpdateStatus
  <2>4. ASSUME NEW done \in BOOLEAN, CreateElementFails(done) PROVE Kept
    BY <1>2, <2>4 DEF CreateElementFails
  <2>5. CASE ParserDies
    BY <1>2, <2>5 DEF ParserDies
  <2> QED BY <1>9, <2>1, <2>2, <2>3, <2>4, <2>5 DEF ParserNext, Parse
<1> QED BY <1>5, <1>6, <1>7, <1>8, <1>9 DEF Next

\* So a bundle that is unedited after a step was unedited before it, and the
\* step is not an edit.
LEMMA UneditedBefore ==
    ASSUME Inductive, Next, Unedited'
    PROVE  Unedited /\ ~ \E i \in Images : EditBundle(i)
<1>1. left["edit"] <= Budget["edit"] /\ Budget["edit"] \in Nat
  BY ConstantsAssumption, FaultNames DEF Inductive, ImagesAgree
<1>2. left'["edit"] = Budget["edit"]
  BY DEF Unedited
<1>3. left["edit"] \in Nat
  BY FaultNames DEF Inductive, TypeOK, ClusterTypeOK
<1>4. CASE \E i \in Images : EditBundle(i)
  <2>1. left'["edit"] = left["edit"] - 1
    BY <1>4, FaultNames DEF EditBundle, Spend, Inductive, TypeOK, ClusterTypeOK
  <2> QED BY <1>1, <1>2, <1>3, <2>1
<1>5. CASE ~ \E i \in Images : EditBundle(i)
  <2>1. left'["edit"] = left["edit"]
    BY <1>5, EditBudget DEF Inductive
  <2> QED BY <1>2, <1>5, <2>1 DEF Unedited
<1> QED BY <1>4, <1>5

\* The first incarnation's image, while it is not edited, is the one in the
\* operator's cache, in Reconcile's copy and in the pod.
LEMMA ImagesAgreeStep ==
    ASSUME Inductive, Next
    PROVE  ImagesAgree'
<1> DEFINE Agree ==
      /\ pbCache.uid = 1  => pbCache.image = pb.image
      /\ instance.uid = 1 => instance.image = pb.image
      /\ pod.owner = 1    => pod.image = pb.image
<1>1. left'["edit"] <= Budget["edit"]
  <2>1. left["edit"] <= Budget["edit"] /\ Budget["edit"] \in Nat
    BY ConstantsAssumption, FaultNames DEF Inductive, ImagesAgree
  <2>2. left["edit"] \in Nat
    BY FaultNames DEF Inductive, TypeOK, ClusterTypeOK
  <2> QED BY <2>1, <2>2, EditBudget DEF Inductive
<1>2. ASSUME FirstUnedited' PROVE Agree'
  <2>1. Unedited /\ ~ \E i \in Images : EditBundle(i)
    BY <1>2, UneditedBefore DEF FirstUnedited
  <2>2. ASSUME pb.uid = 1 PROVE Agree
    BY <2>1, <2>2 DEF Inductive, ImagesAgree, FirstUnedited
  <2>3. pb'.uid = 1
    BY <1>2 DEF FirstUnedited
  <2> USE UidType DEF Inductive, UidsBorn
  <2>4. CASE User /\ UNCHANGED <<controller, parser>>
    <3>1. ASSUME NEW i \in Images, CreateBundle(i) PROVE Agree'
      BY <2>3, <2>4, <3>1 DEF CreateBundle, WriteBundle, controller
    <3>2. CASE DeleteBundle
      BY <2>3, <3>2 DEF DeleteBundle, WriteBundle, NoBundle
    <3> QED BY <2>1, <2>4, <3>1, <3>2 DEF User
  <2>5. CASE (Informers \/ Collector) /\ UNCHANGED <<controller, parser>>
    BY <2>2, <2>3, <2>5 DEF Informers, Collector, SyncBundle, SyncPod, Resync,
                            CollectObject, controller
  <2>6. CASE Kubelet /\ UNCHANGED controller
    <3>1. CASE StartFails \/ StartSucceeds
      BY <2>2, <2>3, <2>6, <3>1, StartEffect
      DEF StartFails, StartSucceeds, controller
    <3>2. ASSUME NEW drained \in BOOLEAN, DeletePod(drained) PROVE Agree'
      BY <2>2, <2>3, <2>6, <3>2 DEF DeletePod, WritePod, NoPod, controller
    <3> QED BY <2>6, <3>1, <3>2 DEF Kubelet
  <2>7. CASE ControllerNext /\ UNCHANGED parser
    <3>1. CASE GetBundle
      BY <2>2, <2>3, <3>1 DEF GetBundle
    <3>2. CASE GetPod \/ Refused \/ CallFails
      BY <2>2, <2>3, <3>2
      DEF GetPod, Refused, CallFails, Return, NoBundle
    <3>3. ASSUME NEW lost \in BOOLEAN, SetPending(lost) PROVE Agree'
      BY <2>2, <2>3, <3>3, PendingEffect DEF SetPending, Return, NoBundle
    <3>4. ASSUME NEW lost \in BOOLEAN, CreatePod(lost) PROVE Agree'
      BY <2>2, <2>3, <3>4 DEF CreatePod, WritePod, Return, NoBundle
    <3>5. ASSUME NEW lost \in BOOLEAN, ReportStartupError(lost) PROVE Agree'
      BY <2>2, <2>3, <3>5, ReportEffect
      DEF ReportStartupError, Return, NoBundle
    <3>6. CASE OperatorRestarts
      BY <2>2, <2>3, <3>6 DEF OperatorRestarts, NoBundle
    <3> QED BY <2>7, <3>1, <3>2, <3>3, <3>4, <3>5, <3>6
            DEF ControllerNext, Reconcile
  <2>8. CASE ParserNext /\ UNCHANGED controller
    <3>1. ASSUME NEW lost \in BOOLEAN, UpdateStatus(lost) PROVE Agree'
      BY <2>2, <2>3, <2>8, <3>1, VerdictEffect DEF UpdateStatus, controller
    <3>2. CASE ~ \E lost \in BOOLEAN : UpdateStatus(lost)
      BY <2>2, <2>3, <2>8, <3>2, ParserLeavesBundle DEF controller
    <3> QED BY <3>1, <3>2
  <2> QED BY <2>4, <2>5, <2>6, <2>7, <2>8 DEF Next
<1> QED BY <1>1, <1>2 DEF ImagesAgree

\* Creating an object for an incarnation that exists makes no object go.
LEMMA CreateObjectKeeps ==
    ASSUME TypeOK, NEW o \in Objects, NEW uid, uid # 0, CreateObject(o, uid)
    PROVE  /\ objs'[o] # 0
           /\ \A q \in Objects : objs[q] # 0 => objs'[q] # 0
BY DEF CreateObject, TypeOK, ClusterTypeOK

\* While the first incarnation lives, no object goes.
LEMMA ObjectsStay ==
    ASSUME Inductive, Next, pb.uid = 1
    PROVE  \A o \in Objects : objs[o] # 0 => objs'[o] # 0
<1> USE DEF Inductive
<1>1. CASE User \/ Informers
  BY <1>1 DEF User, Informers, CreateBundle, EditBundle, DeleteBundle,
              SyncBundle, SyncPod, Resync
<1>2. CASE Collector
  <2>1. PICK o \in Objects : CollectObject(o)
    BY <1>2 DEF Collector
  <2>2. objs[o] = 1
    BY <2>1, UidType DEF CollectObject, UidsBorn
  <2> QED BY <2>1, <2>2 DEF CollectObject, Orphaned
<1>3. CASE Kubelet
  BY <1>3 DEF Kubelet, StartFails, StartSucceeds, DeletePod
<1>4. CASE ControllerNext
  BY <1>4 DEF ControllerNext, Reconcile, GetBundle, GetPod, SetPending,
              CreatePod, ReportStartupError, Refused, CallFails,
              OperatorRestarts
<1>5. CASE ParserNext
  <2>1. CASE CreateElement
    BY <2>1, ElementIsItem, CreateObjectKeeps
    DEF CreateElement, TypeOK, ParserTypeOK
  <2>2. ASSUME NEW done \in BOOLEAN, CreateElementFails(done)
        PROVE  \A o \in Objects : objs[o] # 0 => objs'[o] # 0
    BY <2>2, ElementIsItem, CreateObjectKeeps
    DEF CreateElementFails, TypeOK, ParserTypeOK
  <2>3. CASE ReadContent \/ PassOverElement \/ EndPass
    BY <2>3, ReadsOnly DEF cluster
  <2>4. CASE FetchBundle \/ UpdateRefused \/ ParserDies
    BY <2>4 DEF FetchBundle, UpdateRefused, ParserDies, cluster
  <2>5. ASSUME NEW lost \in BOOLEAN, UpdateStatus(lost)
        PROVE  \A o \in Objects : objs[o] # 0 => objs'[o] # 0
    BY <2>5 DEF UpdateStatus
  <2> QED BY <1>5, <2>1, <2>2, <2>3, <2>4, <2>5 DEF ParserNext, Parse
<1> QED BY <1>1, <1>2, <1>3, <1>4, <1>5 DEF Next

\* What the parser has loaded exists: its own steps.
LEMMA ParserParsesSoFar ==
    ASSUME Inductive, ParserNext, FirstUnedited, UNCHANGED pod,
           ppc' = "parse" \/ (ppc' = "verdict" /\ perr' = "none"),
           \A o \in Objects : objs[o] # 0 => objs'[o] # 0
    PROVE  \A n \in 1..Len(Content[pod.image].doc[1]) :
             Content[pod.image].doc[1][n].form = "good" /\ Passed(n)'
               => objs'[Content[pod.image].doc[1][n].obj] # 0
<1> DEFINE profiles == Content[pod.image].doc[1]
<1> SUFFICES ASSUME NEW n \in 1..Len(profiles), profiles[n].form = "good",
                    Passed(n)'
             PROVE  objs'[profiles[n].obj] # 0
  OBVIOUS
<1> USE DEF Inductive
<1>1. profiles \in Seq(Item) /\ profiles[n].obj \in Objects
  <2>1. profiles \in Seq(Item)
    BY ConstantsAssumption DEF TypeOK, ClusterTypeOK, Pod, DataStream
  <2>2. profiles[n] \in Item
    BY <2>1
  <2> QED BY <2>1, <2>2 DEF Item
<1>2. pass \in 1..3 /\ pos \in Nat \ {0} /\ n \in Nat
  BY <1>1 DEF TypeOK, ParserTypeOK
<1>3. pass = 1 => Elements = profiles
  BY DEF Elements, Stream
<1>4. ASSUME ppc = "parse" \/ (ppc = "verdict" /\ perr = "none"), Passed(n)
      PROVE  objs'[profiles[n].obj] # 0
  <2>1. objs[profiles[n].obj] # 0
    BY <1>4 DEF ParsedSoFar
  <2> QED BY <1>1, <2>1
<1>5. CASE ReadContent
  <2>1. ppc = "readContent" /\ pass = 1 /\ pos = 1
    BY <1>5 DEF ReadContent, ParsedSoFar
  <2>2. ppc' = "parse" /\ pass' = 1 /\ pos' = 1
    <3>1. Stream.file \in {"ok", "missing", "badXml"}
      BY ConstantsAssumption DEF Stream, DataStream, Pod, TypeOK, ClusterTypeOK
    <3> QED BY <1>5, <2>1, <3>1 DEF ReadContent, Fail
  <2> QED BY <1>2, <2>2 DEF Passed
<1>6. CASE PassOverElement
  <2>1. Elements[pos].form = "skipped" /\ NextElement /\ ppc = "parse"
    BY <1>6 DEF PassOverElement, Fail
  <2>2. pass > 1 \/ n < pos
    BY <1>2, <1>3, <2>1 DEF NextElement, Passed
  <2> QED BY <1>4, <2>1, <2>2 DEF Passed
<1>7. CASE CreateElement
  <2>1. ppc = "parse" /\ NextElement /\ objs'[Elements[pos].obj] # 0
    BY <1>7, ElementIsItem, CreateObjectKeeps
    DEF CreateElement, TypeOK, ParserTypeOK
  <2>2. CASE pass > 1 \/ n < pos
    BY <1>4, <2>1, <2>2 DEF Passed
  <2>3. CASE ~(pass > 1 \/ n < pos)
    <3>1. pass = 1 /\ n = pos
      BY <1>2, <2>1, <2>3 DEF NextElement, Passed
    <3> QED BY <1>3, <2>1, <3>1
  <2> QED BY <2>2, <2>3
<1>8. ASSUME NEW done \in BOOLEAN, CreateElementFails(done)
      PROVE  objs'[profiles[n].obj] # 0
  <2>1. ppc = "parse" /\ pass # 1
    BY <1>8 DEF CreateElementFails, OnCreateError, Fail
  <2> QED BY <1>2, <1>4, <2>1 DEF Passed
<1>9. CASE EndPass
  <2>1. ppc = "parse" /\ pos > Len(Elements)
    BY <1>9 DEF EndPass
  <2>2. pass > 1 \/ n < pos
    BY <1>1, <1>2, <1>3, <2>1
  <2> QED BY <1>4, <2>1, <2>2 DEF Passed
<1>10. CASE FetchBundle \/ UpdateRefused \/ ParserDies
            \/ \E lost \in BOOLEAN : UpdateStatus(lost)
  BY <1>10 DEF FetchBundle, UpdateRefused, ParserDies, UpdateStatus, Reset
<1> QED BY <1>5, <1>6, <1>7, <1>8, <1>9, <1>10 DEF ParserNext, Parse

\* The parser's place in the document, and what exists of what it has passed.
LEMMA ParsedSoFarStep ==
    ASSUME Inductive, Next
    PROVE  ParsedSoFar'
<1> DEFINE Place == ppc \notin {"parse", "verdict"} => pass = 1 /\ pos = 1
           Loading == ppc = "parse" \/ (ppc = "verdict" /\ perr = "none")
           Loaded(i) == \A n \in 1..Len(Content[i].doc[1]) :
                          Content[i].doc[1][n].form = "good" /\ Passed(n)
                            => objs[Content[i].doc[1][n].obj] # 0
<1> USE DEF Inductive
<1>1. Place'
  <2>1. CASE UNCHANGED parser
    BY <2>1 DEF parser, ParsedSoFar
  <2>2. CASE Kubelet
    BY <2>2 DEF Kubelet, parser, ParserStarts, ParserKilled, Reset, ParsedSoFar
  <2>3. CASE ParserNext
    <3>1. CASE FetchBundle
      BY <3>1 DEF FetchBundle, ParsedSoFar
    <3>2. CASE ReadContent
      <4>1. Stream.file \in {"ok", "missing", "badXml"}
        BY ConstantsAssumption
        DEF Stream, DataStream, Pod, TypeOK, ClusterTypeOK
      <4> QED BY <3>2, <4>1 DEF ReadContent, Fail
    <3>3. CASE \/ PassOverElement \/ CreateElement \/ EndPass
               \/ \E done \in BOOLEAN : CreateElementFails(done)
      BY <3>3 DEF PassOverElement, CreateElement, EndPass, CreateElementFails,
                  OnCreateError, NextElement, Fail
    <3>4. CASE \/ UpdateRefused \/ ParserDies
               \/ \E lost \in BOOLEAN : UpdateStatus(lost)
      BY <3>4 DEF UpdateRefused, ParserDies, UpdateStatus, Reset
    <3> QED BY <2>3, <3>1, <3>2, <3>3, <3>4 DEF ParserNext, Parse
  <2> QED BY <2>1, <2>2, <2>3 DEF Next
<1>2. ASSUME FirstUnedited', Loading' PROVE Loaded(pod.image)'
  <2>1. Unedited
    BY <1>2, UneditedBefore DEF FirstUnedited
  <2>2. pb'.uid = 1
    BY <1>2 DEF FirstUnedited
  <2>3. ASSUME pb.uid = 1, Loading PROVE Loaded(pod.image)
    BY <2>1, <2>3 DEF ParsedSoFar, FirstUnedited
  <2>4. ASSUME pb.uid = 1, Loading, UNCHANGED parser, pod'.image = pod.image
        PROVE  Loaded(pod.image)'
    <3> SUFFICES ASSUME NEW n \in 1..Len(Content[pod.image].doc[1]),
                        Content[pod.image].doc[1][n].form = "good", Passed(n)'
                 PROVE  objs'[Content[pod.image].doc[1][n].obj] # 0
      BY <2>4
    <3>1. objs[Content[pod.image].doc[1][n].obj] # 0
      BY <2>3, <2>4 DEF Passed, parser
    <3>2. Content[pod.image].doc[1] \in Seq(Item)
      BY ConstantsAssumption DEF TypeOK, ClusterTypeOK, Pod, DataStream
    <3>3. Content[pod.image].doc[1][n] \in Item
      BY <3>2
    <3>4. Content[pod.image].doc[1][n].obj \in Objects
      BY <3>3 DEF Item
    <3> QED BY <2>4, <3>1, <3>4, ObjectsStay
  <2>5. ppc' # "off"
    BY <1>2
  <2>6. CASE User /\ UNCHANGED <<controller, parser>>
    <3>1. Loading /\ pod.owner # 0
      BY <1>2, <2>6 DEF parser, TypeOK, ParserTypeOK
    <3>2. ASSUME NEW i \in Images, CreateBundle(i) PROVE FALSE
      <4>1. born + 1 = 1
        BY <2>2, <3>2 DEF CreateBundle, WriteBundle
      <4>2. born = 0 /\ pod.owner <= 0
        BY <4>1, UidType DEF UidsBorn
      <4> QED BY <3>1, <4>2, UidType
    <3>3. pb.uid = 1 /\ pod' = pod
      BY <2>2, <2>6, <3>2, EditEffect
      DEF User, EditBundle, DeleteBundle, WriteBundle, NoBundle
    <3> QED BY <2>4, <2>6, <3>1, <3>3
  <2>7. CASE (Informers \/ Collector) /\ UNCHANGED <<controller, parser>>
    <3>1. Loading
      BY <1>2, <2>7 DEF parser
    <3>2. pb' = pb /\ pod' = pod
      BY <2>7 DEF Informers, Collector, SyncBundle, SyncPod, Resync,
                  CollectObject
    <3> QED BY <2>2, <2>4, <2>7, <3>1, <3>2
  <2>8. CASE Kubelet /\ UNCHANGED controller
    <3>1. StartFails /\ UNCHANGED parser
      BY <1>2, <2>8 DEF Kubelet, ParserStarts, ParserKilled, Reset
    <3>2. Loading
      BY <1>2, <3>1 DEF parser
    <3>3. pb' = pb /\ pod'.image = pod.image
      BY <3>1, StartEffect DEF StartFails
    <3> QED BY <2>2, <2>4, <3>1, <3>2, <3>3
  <2>9. CASE ControllerNext /\ UNCHANGED parser
    <3>1. Loading /\ pod.owner # 0
      BY <1>2, <2>9 DEF parser, TypeOK, ParserTypeOK
    <3>2. pod' = pod
      BY <2>9, <3>1 DEF ControllerNext, Reconcile, GetBundle, GetPod,
              SetPending, CreatePod, ReportStartupError, Refused, CallFails,
              OperatorRestarts
    <3>3. pb'.uid = pb.uid
      BY <2>9, PendingEffect, ReportEffect
      DEF ControllerNext, Reconcile, GetBundle, GetPod, CreatePod, Refused,
          CallFails, OperatorRestarts
    <3> QED BY <2>2, <2>4, <2>9, <3>1, <3>2, <3>3
  <2>10. CASE ParserNext /\ UNCHANGED controller
    <3>1. ~ \E lost \in BOOLEAN : UpdateStatus(lost)
      BY <1>2 DEF UpdateStatus, Reset
    <3>2. UNCHANGED <<pb, pod>>
      BY <2>10, <3>1, ParserLeavesBundle
    <3>3. FirstUnedited
      BY <2>1, <2>2, <3>2 DEF FirstUnedited
    <3>4. \A o \in Objects : objs[o] # 0 => objs'[o] # 0
      BY <3>3, ObjectsStay DEF FirstUnedited
    <3>5. Loaded(pod.image)'
          <=> \A n \in 1..Len(Content[pod.image].doc[1]) :
                Content[pod.image].doc[1][n].form = "good" /\ Passed(n)'
                  => objs'[Content[pod.image].doc[1][n].obj] # 0
      BY <3>2
    <3> QED BY <1>2, <2>10, <3>2, <3>3, <3>4, <3>5, ParserParsesSoFar
  <2> QED BY <2>6, <2>7, <2>8, <2>9, <2>10 DEF Next
<1> QED BY <1>1, <1>2 DEF ParsedSoFar

\* The parser says VALID only after it has passed every Profile, and while the
\* first incarnation lives none of them goes.
LEMMA ProfilesCompleteStep ==
    ASSUME Inductive, Next
    PROVE  ProfilesComplete'
<1> SUFFICES ASSUME pb'.uid = 1, pb'.status = "VALID", Unedited',
                    NEW o \in GoodObjects(pb'.image, 1)
             PROVE  objs'[o] # 0
  BY DEF ProfilesComplete
<1> USE DEF Inductive
<1>1. Unedited /\ ~ \E i \in Images : EditBundle(i)
  BY UneditedBefore
<1>2. ASSUME pb.uid = 1, pb.image = pb'.image, o \in Objects, objs[o] # 0
      PROVE  objs'[o] # 0
  BY <1>2, ObjectsStay
<1>3. ASSUME pb.uid = 1, pb.image \in Images, pb.image = pb'.image
      PROVE  o \in Objects
  <2>1. Content[pb.image].doc[1] \in Seq(Item)
    BY <1>3, ConstantsAssumption DEF DataStream
  <2>2. PICK n \in 1..Len(Content[pb.image].doc[1]) :
               o = Content[pb.image].doc[1][n].obj
    BY <1>3 DEF GoodObjects
  <2>3. Content[pb.image].doc[1][n] \in Item
    BY <2>1
  <2> QED BY <2>2, <2>3 DEF Item
<1>4. pb.image \in Images
  BY DEF TypeOK, ClusterTypeOK, Bundle
<1>5. ASSUME pb'.uid = pb.uid, pb'.image = pb.image, pb.status = "VALID"
      PROVE  objs'[o] # 0
  <2>1. objs[o] # 0
    BY <1>1, <1>5 DEF ProfilesComplete
  <2> QED BY <1>2, <1>3, <1>4, <1>5, <2>1
<1>6. CASE User
  <2>1. ASSUME NEW i \in Images, CreateBundle(i) PROVE FALSE
    BY <2>1 DEF CreateBundle, WriteBundle
  <2>2. ~DeleteBundle
    BY DEF DeleteBundle, WriteBundle, NoBundle
  <2> QED BY <1>1, <1>6, <2>1, <2>2 DEF User
<1>7. CASE Informers \/ Collector \/ Kubelet
  <2>1. pb' = pb
    BY <1>7 DEF Informers, Collector, Kubelet, SyncBundle, SyncPod, Resync,
                CollectObject, StartFails, StartSucceeds, DeletePod
  <2> QED BY <1>5, <2>1
<1>8. CASE ControllerNext
  <2>1. \A lost \in BOOLEAN : ~SetPending(lost) /\ ~ReportStartupError(lost)
    BY PendingEffect, ReportEffect
  <2>2. pb' = pb
    BY <1>8, <2>1 DEF ControllerNext, Reconcile, GetBundle, GetPod, CreatePod,
                      Refused, CallFails, OperatorRestarts
  <2> QED BY <1>5, <2>2
<1>9. CASE ParserNext
  <2>1. ASSUME NEW lost \in BOOLEAN, UpdateStatus(lost)
        PROVE  objs'[o] # 0
    <3>1. perr = "none" /\ pb.uid = 1 /\ pb'.image = pb.image
      BY <2>1, VerdictEffect
    <3>2. ppc = "verdict" /\ pod.owner = 1
      BY <2>1, <3>1, UidType
      DEF UpdateStatus, UidsBorn, TypeOK, ParserTypeOK
    <3>3. pod.image = pb.image
      BY <1>1, <3>1, <3>2 DEF ImagesAgree, FirstUnedited
    <3>4. PICK n \in 1..Len(Content[pb.image].doc[1]) :
                 /\ Content[pb.image].doc[1][n].form = "good"
                 /\ o = Content[pb.image].doc[1][n].obj
      BY <3>1 DEF GoodObjects
    <3>5. objs[o] # 0
      BY <1>1, <3>1, <3>2, <3>3, <3>4 DEF ParsedSoFar, FirstUnedited, Passed
    <3> QED BY <1>2, <1>3, <1>4, <3>1, <3>5
  <2>2. CASE ~ \E lost \in BOOLEAN : UpdateStatus(lost)
    BY <1>5, <1>9, <2>2, ParserLeavesBundle
  <2> QED BY <2>1, <2>2
<1> QED BY <1>6, <1>7, <1>8, <1>9 DEF Next

-----------------------------------------------------------------------------
\* The inductive invariant holds in every reachable state.
THEOREM InductiveInvariant == Spec => []Inductive
<1>1. Init => Inductive
  <2> SUFFICES ASSUME Init PROVE Inductive
    OBVIOUS
  <2> USE ConstantsAssumption, FaultNames
      DEF Init, ClusterInit, ControllerInit, ParserInit, NoBundle, NoPod
  <2>1. TypeOK
    BY InitTypeOK
  <2>2. CopiesCurrent /\ UidsBorn
    BY DEF CopiesCurrent, UidsBorn
  <2>3. MarkedBeforeCreate /\ PodImpliesMarked /\ InvalidHasMessage
    BY DEF MarkedBeforeCreate, PodImpliesMarked, OwnPod, InvalidHasMessage
  <2>4. ImagesAgree /\ ParsedSoFar /\ ProfilesComplete
    BY DEF ImagesAgree, ParsedSoFar, ProfilesComplete, FirstUnedited
  <2> QED BY <2>1, <2>2, <2>3, <2>4 DEF Inductive
<1>2. ASSUME Inductive, Next PROVE Inductive'
  <2>1. TypeOK'
    BY <1>2, NextTypeOK DEF Inductive
  <2> QED BY <1>2, <2>1, CopiesCurrentStep, UidsBornStep, MarkedStep, MessageStep,
             ImagesAgreeStep, ParsedSoFarStep, ProfilesCompleteStep
          DEF Inductive
<1>3. ASSUME Inductive, UNCHANGED vars PROVE Inductive'
  <2>1. TypeOK'
    BY <1>3, StutterTypeOK DEF Inductive
  <2> USE <1>3 DEF Inductive, vars, cluster, controller, parser
  <2>2. CopiesCurrent' /\ UidsBorn'
    BY DEF CopiesCurrent, UidsBorn
  <2>3. MarkedBeforeCreate' /\ PodImpliesMarked' /\ InvalidHasMessage'
    BY DEF MarkedBeforeCreate, PodImpliesMarked, OwnPod, InvalidHasMessage
  <2>4. ImagesAgree'
    BY DEF ImagesAgree, FirstUnedited, Unedited
  <2>5. ParsedSoFar'
    BY DEF ParsedSoFar, FirstUnedited, Unedited, Passed
  <2>6. ProfilesComplete'
    BY DEF ProfilesComplete, Unedited
  <2> QED BY <2>1, <2>2, <2>3, <2>4, <2>5, <2>6
<1> QED BY <1>1, <1>2, <1>3, PTL DEF Spec

\* In every reachable state, the pod of a bundle exists only after the bundle
\* was marked PENDING.
THEOREM PodOnlyAfterMark == Spec => []PodImpliesMarked
<1>1. Inductive => PodImpliesMarked
  BY DEF Inductive
<1> QED BY <1>1, InductiveInvariant, PTL

\* In every reachable state, an INVALID bundle has an error message.
THEOREM InvalidIsExplained == Spec => []InvalidHasMessage
<1>1. Inductive => InvalidHasMessage
  BY DEF Inductive
<1> QED BY <1>1, InductiveInvariant, PTL

\* In every reachable state, a first incarnation that is VALID has every
\* well-formed Profile of its data stream.
THEOREM ValidHasProfiles == Spec => []ProfilesComplete
<1>1. Inductive => ProfilesComplete
  BY DEF Inductive
<1> QED BY <1>1, InductiveInvariant, PTL

-----------------------------------------------------------------------------
(* BundleLifecycle implements ContentStore. *)

\* Every step is one of ContentStore's, or leaves the content alone.
LEMMA StepImplementsStore ==
    ASSUME Inductive, Next
    PROVE  Store!StoreNext \/ UNCHANGED Store!store
<1> USE DEF Inductive, Store!StoreNext, Store!store
<1>1. CASE User
  <2>1. ASSUME NEW i \in Images, CreateBundle(i) PROVE Store!CreateBundle
    BY <2>1 DEF CreateBundle, WriteBundle, Store!CreateBundle
  <2>2. ASSUME NEW i \in Images, EditBundle(i) PROVE UNCHANGED Store!store
    BY <2>2, EditEffect DEF EditBundle
  <2>3. ASSUME DeleteBundle PROVE Store!DeleteBundle
    BY <2>3 DEF DeleteBundle, WriteBundle, NoBundle, Store!DeleteBundle
  <2> QED BY <1>1, <2>1, <2>2, <2>3 DEF User
<1>2. CASE Informers
  BY <1>2 DEF Informers, SyncBundle, SyncPod, Resync
<1>3. CASE Collector
  BY <1>3 DEF Collector, CollectObject, Orphaned, Store!Vanish
<1>4. CASE Kubelet
  BY <1>4 DEF Kubelet, StartFails, StartSucceeds, DeletePod
<1>5. CASE ControllerNext
  <2>1. ASSUME NEW lost \in BOOLEAN, SetPending(lost)
        PROVE  UNCHANGED Store!store
    BY <2>1, PendingEffect DEF SetPending
  <2>2. ASSUME NEW lost \in BOOLEAN, ReportStartupError(lost)
        PROVE  UNCHANGED Store!store
    BY <2>2, ReportEffect DEF ReportStartupError
  <2>3. CASE \/ GetBundle \/ GetPod \/ Refused \/ CallFails
             \/ OperatorRestarts \/ \E lost \in BOOLEAN : CreatePod(lost)
    BY <2>3 DEF GetBundle, GetPod, Refused, CallFails, OperatorRestarts,
                CreatePod
  <2> QED BY <1>5, <2>1, <2>2, <2>3 DEF ControllerNext, Reconcile
<1>6. CASE ParserNext
  <2>1. ASSUME ppc = "parse", pos <= Len(Elements), UNCHANGED <<pb, born>>,
               CreateObject(Elements[pos].obj, bundle.uid)
        PROVE  Store!StoreNext \/ UNCHANGED Store!store
    <3>1. Elements[pos].obj \in Objects
      BY <2>1, ElementIsItem
    <3>2. bundle.uid \in 1..born
      BY <2>1, UidType DEF UidsBorn, TypeOK, ParserTypeOK
    <3> QED BY <2>1, <3>1, <3>2 DEF CreateObject, Store!Appear
  <2>2. CASE CreateElement
    BY <2>1, <2>2 DEF CreateElement
  <2>3. ASSUME NEW done \in BOOLEAN, CreateElementFails(done)
        PROVE  Store!StoreNext \/ UNCHANGED Store!store
    BY <2>1, <2>3 DEF CreateElementFails
  <2>4. ASSUME NEW lost \in BOOLEAN, UpdateStatus(lost)
        PROVE  UNCHANGED Store!store
    BY <2>4, VerdictEffect DEF UpdateStatus
  <2>5. CASE ReadContent \/ PassOverElement \/ EndPass
    BY <2>5, ReadsOnly DEF cluster
  <2>6. CASE FetchBundle \/ UpdateRefused \/ ParserDies
    BY <2>6 DEF FetchBundle, UpdateRefused, ParserDies, cluster
  <2> QED BY <1>6, <2>2, <2>3, <2>4, <2>5, <2>6 DEF ParserNext, Parse
<1> QED BY <1>1, <1>2, <1>3, <1>4, <1>5, <1>6 DEF Next

\* What the parts that use a bundle's content assume of it is true: an object
\* keeps its owner for life, and lives as long as its owner.
THEOREM BundleImplementsStore == Spec => ImplementsStore
<1>1. Init => Store!StoreInit
  BY DEF Init, ClusterInit, NoBundle, Store!StoreInit
<1>2. ASSUME Inductive, [Next]_vars
      PROVE  [Store!StoreNext]_(Store!store)
  <2>1. CASE Next
    BY <1>2, <2>1, StepImplementsStore
  <2>2. CASE UNCHANGED vars
    BY <2>2 DEF vars, cluster, Store!store
  <2> QED BY <1>2, <2>1, <2>2
<1> QED BY <1>1, <1>2, InductiveInvariant, PTL
        DEF Spec, ImplementsStore, Store!StoreSpec
=============================================================================
