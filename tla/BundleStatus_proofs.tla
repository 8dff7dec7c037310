------------------------- MODULE BundleStatus_proofs -------------------------
(***************************************************************************)
(* Theorems about the status of a ProfileBundle: what a user may rely on,  *)
(* but for its liveness.  When Reconcile reads the pod as it is, more than *)
(* when its cache of pods lags.                                            *)
(***************************************************************************)
EXTENDS BundleLifecycle_proofs

\* The last recorded version of the pod is the pod.
LEMMA PodCacheStep ==
    ASSUME TypeOK, PodCacheCurrent, Next
    PROVE  PodCacheCurrent'
<1> USE DEF PodCacheCurrent, TypeOK, ClusterTypeOK
<1>1. CASE UNCHANGED <<pod, podCache>> /\ fresh' \subseteq fresh \cup BundleCopies
  BY <1>1 DEF BundleCopies
<1>2. CASE \/ "podCache" \notin fresh'
           \/ podCache' = pod /\ pod' = pod
  BY <1>2
<1>3. CASE User
  BY <1>1, <1>3 DEF User, CreateBundle, EditBundle, DeleteBundle, WriteBundle
<1>4. CASE SyncBundle \/ Resync \/ Collector
  BY <1>1, <1>4 DEF SyncBundle, Resync, Collector, CollectObject, BundleCopies
<1>5. CASE SyncPod
  BY <1>2, <1>5 DEF SyncPod
<1>6. CASE Kubelet
  BY <1>2, <1>6 DEF Kubelet, StartFails, StartSucceeds, DeletePod, WritePod
<1>7. CASE ControllerNext
  <2>1. CASE OperatorRestarts
    BY <1>2, <2>1 DEF OperatorRestarts
  <2>2. CASE \E lost \in BOOLEAN : CreatePod(lost)
    BY <1>2, <2>2 DEF CreatePod, WritePod
  <2>3. CASE \E lost \in BOOLEAN : SetPending(lost) \/ ReportStartupError(lost)
    BY <1>1, <2>3 DEF SetPending, ReportStartupError, WriteBundle
  <2>4. CASE GetBundle \/ GetPod \/ Refused \/ CallFails
    BY <1>1, <2>4 DEF GetBundle, GetPod, Refused, CallFails, BundleCopies
  <2> QED BY <1>7, <2>1, <2>2, <2>3, <2>4 DEF ControllerNext, Reconcile
<1>8. CASE ParserNext
  <2>1. CASE \E lost \in BOOLEAN : UpdateStatus(lost)
    BY <1>1, <2>1 DEF UpdateStatus, WriteBundle
  <2>2. CASE ReadContent \/ PassOverElement \/ EndPass
    BY <1>1, <2>2, ReadsOnly DEF cluster
  <2>3. CASE FetchBundle \/ UpdateRefused \/ ParserDies
    BY <1>1, <2>3 DEF FetchBundle, UpdateRefused, ParserDies, cluster, BundleCopies
  <2>4. CASE CreateElement \/ \E done \in BOOLEAN : CreateElementFails(done)
    BY <1>1, <2>4 DEF CreateElement, CreateElementFails
  <2> QED BY <1>8, <2>1, <2>2, <2>3, <2>4 DEF ParserNext, Parse
<1> QED BY <1>3, <1>4, <1>5, <1>6, <1>7, <1>8 DEF Next, Informers

-----------------------------------------------------------------------------
(* What a step changes of the pod and of the status, whoever takes it. *)

\* Pods come from a worker that is about to create one, and change their state
\* by the kubelet.
LEMMA PodEffect ==
    ASSUME TypeOK, Next
    PROVE  \/ pod' = pod
           \/ pod' = NoPod /\ ppc' = "off" /\ rpc' = rpc /\ UNCHANGED pb
           \/ /\ StartFails \/ StartSucceeds
              /\ rpc' = rpc /\ UNCHANGED pb
           \/ \E lost \in BOOLEAN : CreatePod(lost) /\ UNCHANGED parser
<1>1. CASE User \/ Informers \/ Collector
  BY <1>1 DEF User, CreateBundle, EditBundle, DeleteBundle, Informers, SyncBundle, SyncPod,
              Resync, Collector, CollectObject
<1>2. CASE Kubelet /\ UNCHANGED controller
  BY <1>2 DEF Kubelet, StartFails, StartSucceeds, DeletePod, WritePod, ParserKilled, Reset,
              controller
<1>3. CASE ControllerNext /\ UNCHANGED parser
  BY <1>3 DEF ControllerNext, Reconcile, GetBundle, GetPod, SetPending, ReportStartupError,
              Refused, CallFails, OperatorRestarts
<1>4. CASE ParserNext
  BY <1>4, ParserLeavesBundle DEF UpdateStatus
<1> QED BY <1>1, <1>2, <1>3, <1>4 DEF Next

\* What becomes of the status.
StatusChange ==
    \/ pb'.status = pb.status
    \/ pb'.status = "unset" /\ UNCHANGED <<pod, controller, parser>>
    \/ \E lost \in BOOLEAN : SetPending(lost) /\ UNCHANGED parser
    \/ \E lost \in BOOLEAN : ReportStartupError(lost) /\ UNCHANGED parser
    \/ \E lost \in BOOLEAN : UpdateStatus(lost) /\ UNCHANGED controller

LEMMA StatusEffect ==
    ASSUME TypeOK, Next
    PROVE  StatusChange
<1>1. CASE (User \/ Informers \/ Collector) /\ UNCHANGED <<controller, parser>>
  BY <1>1, EditEffect
  DEF StatusChange, User, CreateBundle, DeleteBundle, WriteBundle, NoBundle, Informers,
      SyncBundle, SyncPod, Resync, Collector, CollectObject
<1>2. CASE Kubelet
  BY <1>2 DEF StatusChange, Kubelet, StartFails, StartSucceeds, DeletePod
<1>3. CASE ControllerNext /\ UNCHANGED parser
  BY <1>3 DEF StatusChange, ControllerNext, Reconcile, GetBundle, GetPod, CreatePod, Refused,
              CallFails, OperatorRestarts
<1>4. CASE ParserNext /\ UNCHANGED controller
  BY <1>4, ParserLeavesBundle DEF StatusChange
<1> QED BY <1>1, <1>2, <1>3, <1>4 DEF Next

\* How the worker comes to a call, and the copy that it writes back.
LEMMA WorkerEffect ==
    ASSUME TypeOK, Next
    PROVE  /\ rpc' = "setPending" /\ rpc # "setPending" => GetPod /\ podCache.owner = 0
           /\ rpc' = "createPod" /\ rpc # "createPod"
                => \E lost \in BOOLEAN : SetPending(lost) /\ UNCHANGED parser
           /\ rpc' = "report" /\ rpc # "report" => /\ GetPod
                                                        /\ podCache.owner # 0
                                                        /\ podCache.init = "pullError"
           /\ rpc' = rpc /\ rpc \in {"setPending", "createPod", "report"}
                => fresh' \subseteq fresh \cup (Copies \ {"instance"})
<1>1. CASE UNCHANGED controller
  <2>1. fresh' \subseteq fresh \cup (Copies \ {"instance"})
    <3>1. CASE User \/ Informers \/ Collector \/ Kubelet
      BY <3>1
      DEF User, CreateBundle, EditBundle, DeleteBundle, WriteBundle, Informers, SyncBundle,
          SyncPod, Resync, Collector, CollectObject, Kubelet, StartFails, StartSucceeds,
          DeletePod, WritePod, Copies, BundleCopies
    <3>2. CASE ParserNext
      <4>1. CASE ReadContent \/ PassOverElement \/ EndPass
        BY <4>1, ReadsOnly DEF cluster
      <4>2. CASE ~(ReadContent \/ PassOverElement \/ EndPass)
        BY <3>2, <4>2
        DEF ParserNext, Parse, FetchBundle, CreateElement, UpdateStatus, UpdateRefused,
            CreateElementFails, ParserDies, WriteBundle, cluster, Copies, BundleCopies
      <4> QED BY <4>1, <4>2
    <3>3. CASE ControllerNext
      BY <1>1, <3>3
      DEF ControllerNext, Reconcile, GetBundle, GetPod, SetPending, CreatePod, Return,
          ReportStartupError, Refused, CallFails, OperatorRestarts, controller, WriteBundle,
          WritePod, Copies, BundleCopies, AfterGetPod, TypeOK, ControllerTypeOK
    <3> QED BY <3>1, <3>2, <3>3 DEF Next
  <2> QED BY <1>1, <2>1 DEF controller
<1>2. CASE ControllerNext /\ UNCHANGED parser
  <2>1. CASE GetPod
    BY <2>1 DEF GetPod, AfterGetPod, PodStartupError, Return
  <2>2. ASSUME NEW lost \in BOOLEAN, SetPending(lost)
        PROVE  rpc' \in {"createPod", "idle"} /\ rpc = "setPending"
    BY <2>2 DEF SetPending, Return
  <2>3. CASE GetBundle
    BY <2>3 DEF GetBundle
  <2>4. CASE ~GetPod /\ ~GetBundle /\ ~(\E lost \in BOOLEAN : SetPending(lost))
    <3>1. rpc' = "idle"
      BY <1>2, <2>4
      DEF ControllerNext, Reconcile, CreatePod, ReportStartupError, Refused, CallFails,
          OperatorRestarts, Return
    <3> QED BY <3>1
  <2> QED BY <1>2, <2>1, <2>2, <2>3, <2>4
<1> QED BY <1>1, <1>2 DEF Next

-----------------------------------------------------------------------------
(* The invariant, one lemma per conjunct. *)

\* The worker that found no pod, or marked the bundle after that, is the only
\* one to make a pod.
LEMMA NoPodStep ==
    ASSUME PodLag = FALSE, TypeOK, PodCacheCurrent, NoPodFound, Next
    PROVE  NoPodFound'
<1>1. CASE rpc' = "setPending" /\ rpc # "setPending"
  <2>1. GetPod /\ podCache.owner = 0
    BY <1>1, WorkerEffect
  <2>2. pod' = podCache
    BY <2>1 DEF GetPod, PodCacheCurrent
  <2> QED BY <2>1, <2>2 DEF NoPodFound
<1>2. CASE rpc' = "createPod" /\ rpc # "createPod"
  <2>1. PICK lost \in BOOLEAN : SetPending(lost)
    BY <1>2, WorkerEffect
  <2> QED BY <2>1 DEF NoPodFound, SetPending
<1>3. CASE rpc' = rpc /\ rpc \in {"setPending", "createPod"}
  <2>1. rpc' # "idle"
    BY <1>3
  <2>2. ~(\E lost \in BOOLEAN : CreatePod(lost))
    BY <2>1 DEF CreatePod, Return
  <2>3. ~(StartFails \/ StartSucceeds)
    BY <1>3 DEF NoPodFound, StartFails, StartSucceeds
  <2>4. pod' = pod \/ pod' = NoPod
    BY <2>2, <2>3, PodEffect
  <2> QED BY <1>3, <2>4 DEF NoPodFound, NoPod
<1> QED BY <1>1, <1>2, <1>3 DEF NoPodFound

\* The parser starts when the init container is ready, which it stays.
LEMMA HostedStep ==
    ASSUME TypeOK, ParserHosted, Next
    PROVE  ParserHosted'
<1> USE DEF ParserHosted
<1>1. CASE (User \/ Informers \/ Collector) /\ UNCHANGED <<controller, parser>>
  BY <1>1 DEF User, CreateBundle, EditBundle, DeleteBundle, Informers, SyncBundle, SyncPod,
              Resync, Collector, CollectObject, parser
<1>2. CASE StartFails /\ UNCHANGED parser
  BY <1>2 DEF StartFails, parser
<1>3. CASE StartSucceeds /\ ParserStarts
  BY <1>3 DEF StartSucceeds, WritePod, TypeOK, ClusterTypeOK, Pod
<1>4. CASE ParserKilled
  BY <1>4 DEF ParserKilled, Reset
<1>5. CASE ControllerNext /\ UNCHANGED parser
  <2>1. CASE \E lost \in BOOLEAN : CreatePod(lost)
    BY <1>5, <2>1 DEF CreatePod, parser
  <2>2. CASE ~ \E lost \in BOOLEAN : CreatePod(lost)
    <3>1. pod' = pod
      BY <1>5, <2>2 DEF ControllerNext, Reconcile, GetBundle, GetPod, SetPending,
                        ReportStartupError, Refused, CallFails, OperatorRestarts
    <3> QED BY <1>5, <3>1 DEF parser
  <2> QED BY <2>1, <2>2
<1>6. CASE ParserNext
  <2>1. pod' = pod
    BY <1>6, ParserLeavesBundle DEF UpdateStatus
  <2>2. ppc # "off"
    BY <1>6 DEF ParserNext, Parse, FetchBundle, ReadContent, PassOverElement, CreateElement,
                EndPass, UpdateStatus, UpdateRefused, CreateElementFails, ParserDies
  <2> QED BY <2>1, <2>2
<1> QED BY <1>1, <1>2, <1>3, <1>4, <1>5, <1>6 DEF Next, Kubelet

\* A verdict comes from the parser's pod.
LEMMA VerdictHosted ==
    ASSUME ParserHosted, NEW lost \in BOOLEAN, UpdateStatus(lost)
    PROVE  pod.owner # 0 /\ pod.init = "ready"
BY DEF ParserHosted, UpdateStatus

\* A status that becomes VALID is the parser's word.
LEMMA ValidEffect ==
    ASSUME TypeOK, CopiesCurrent, Next, pb.status # "VALID", pb'.status = "VALID"
    PROVE  \E lost \in BOOLEAN : UpdateStatus(lost)
BY StatusEffect, PendingEffect, ReportEffect DEF StatusChange

\* VALID is not said before the pod has run the parser.
LEMMA ValidStep ==
    ASSUME PodLag = FALSE, TypeOK, CopiesCurrent, PodCacheCurrent, NoPodFound, ParserHosted,
           ValidIsParsed, Next
    PROVE  ValidIsParsed'
<1>1. ASSUME pod'.owner # 0, pod'.init # "ready" PROVE pb'.status # "VALID"
  <2>1. CASE pod' = pod
    BY <1>1, <2>1, ValidEffect, VerdictHosted DEF ValidIsParsed
  <2>2. CASE (StartFails \/ StartSucceeds) /\ UNCHANGED pb
    BY <1>1, <2>2
    DEF StartFails, StartSucceeds, WritePod, ValidIsParsed, TypeOK, ClusterTypeOK, Pod
  <2>3. CASE \E lost \in BOOLEAN : CreatePod(lost)
    BY <2>3 DEF CreatePod, ValidIsParsed
  <2>4. pod' # NoPod
    BY <1>1 DEF NoPod
  <2> QED BY <2>1, <2>2, <2>3, <2>4, PodEffect
<1>2. ASSUME rpc' = "createPod" PROVE pb'.status # "VALID"
  <2>1. CASE rpc # "createPod"
    BY <1>2, <2>1, WorkerEffect, PendingEffect
  <2>2. CASE rpc = "createPod"
    BY <2>2, ValidEffect, VerdictHosted DEF ValidIsParsed, NoPodFound
  <2> QED BY <2>1, <2>2
<1>3. ASSUME rpc' = "report", InstanceCurrent' PROVE pb'.status # "VALID"
  <2>1. CASE rpc # "report"
    <3>1. GetPod /\ podCache.owner # 0 /\ podCache.init = "pullError"
      BY <1>3, <2>1, WorkerEffect
    <3>2. pod = podCache /\ pb' = pb
      BY <3>1 DEF GetPod, PodCacheCurrent
    <3> QED BY <3>1, <3>2 DEF ValidIsParsed
  <2>2. CASE rpc = "report"
    <3>1. pb.status # "VALID"
      BY <1>3, <2>2, WorkerEffect DEF InstanceCurrent, ValidIsParsed
    <3>2. ASSUME NEW lost \in BOOLEAN, UpdateStatus(lost), pb' # pb PROVE FALSE
      BY <1>3, <3>2 DEF UpdateStatus, WriteBundle, InstanceCurrent, BundleCopies
    <3> QED BY <3>1, <3>2, ValidEffect
  <2> QED BY <2>1, <2>2
<1> QED BY <1>1, <1>2, <1>3 DEF ValidIsParsed

\* The data stream in the pod is one of those there are.
LEMMA StreamType ==
    ASSUME TypeOK
    PROVE  Stream.file \in {"ok", "missing", "badXml"}
<1>1. pod.image \in Images
  BY DEF TypeOK, ClusterTypeOK, Pod
<1> QED BY <1>1, ConstantsAssumption DEF Stream, DataStream

\* A parser that is done has written its verdict, which PENDING does not
\* replace while the pod is there.
LEMMA DoneStep ==
    ASSUME TypeOK, CopiesCurrent, NoPodFound, ParserHosted, DoneIsJudged, Next
    PROVE  DoneIsJudged'
<1> SUFFICES ASSUME ppc' = "done" PROVE pb'.status # "PENDING"
  BY DEF DoneIsJudged
<1>1. CASE \E lost \in BOOLEAN : UpdateStatus(lost)
  BY <1>1, VerdictEffect
<1>2. CASE ~ \E lost \in BOOLEAN : UpdateStatus(lost)
  <2>1. ppc = "done"
    <3>1. CASE UNCHANGED parser
      BY <3>1 DEF parser
    <3>2. CASE Kubelet
      BY <3>2 DEF Kubelet, ParserStarts, ParserKilled, Reset, parser
    <3>3. CASE ReadContent \/ PassOverElement \/ EndPass
      <4>1. Stream.file \in {"ok", "missing", "badXml"}
        BY StreamType
      <4>2. CASE ReadContent
        BY <4>1, <4>2 DEF ReadContent, Fail
      <4> QED BY <3>3, <4>2 DEF PassOverElement, EndPass, Fail, NextElement
    <3>4. CASE FetchBundle \/ UpdateRefused \/ ParserDies \/ CreateElement
               \/ \E done \in BOOLEAN : CreateElementFails(done)
      BY <3>4 DEF FetchBundle, UpdateRefused, ParserDies, CreateElement, CreateElementFails,
                  OnCreateError, Reset, Fail, NextElement
    <3> QED BY <1>2, <3>1, <3>2, <3>3, <3>4 DEF Next, ParserNext, Parse
  <2>2. ~ \E lost \in BOOLEAN : SetPending(lost)
    BY <2>1 DEF ParserHosted, NoPodFound, SetPending
  <2> QED BY <1>2, <2>1, <2>2, StatusEffect, ReportEffect DEF StatusChange, DoneIsJudged
<1> QED BY <1>1, <1>2

-----------------------------------------------------------------------------
(* The theorems *)

\* The invariant for a pod that is read as it is.
THEOREM InvarianceNoLag == ASSUME PodLag = FALSE PROVE Spec => []InductiveNoLag
<1> DEFINE Own == PodCacheCurrent /\ NoPodFound /\ ParserHosted /\ ValidIsParsed /\ DoneIsJudged
<1>1. Init => Own
  BY DEF Init, ClusterInit, ControllerInit, ParserInit, NoBundle, NoPod, PodCacheCurrent,
         NoPodFound, ParserHosted, ValidIsParsed, DoneIsJudged
<1>2. ASSUME Inductive, Own, [Next]_vars PROVE Own'
  <2>1. CASE Next
    BY <1>2, <2>1, PodCacheStep, NoPodStep, HostedStep, ValidStep, DoneStep DEF Inductive
  <2>2. CASE UNCHANGED vars
    BY <1>2, <2>2
    DEF vars, cluster, controller, parser, PodCacheCurrent, NoPodFound, ParserHosted,
        ValidIsParsed, InstanceCurrent, DoneIsJudged
  <2> QED BY <1>2, <2>1, <2>2
<1>3. Inductive /\ Own => InductiveNoLag
  BY DEF InductiveNoLag
<1> HIDE DEF Own
<1> QED BY <1>1, <1>2, <1>3, InductiveInvariant, PTL DEF Spec

\* PENDING never stands beside a parser that has given its verdict and gone.
THEOREM PendingIsUnprocessed ==
    ASSUME PodLag = FALSE PROVE Spec => []PendingMeansUnprocessed
<1>1. InductiveNoLag => PendingMeansUnprocessed
  BY DEF InductiveNoLag, DoneIsJudged, PendingMeansUnprocessed
<1> QED BY <1>1, InvarianceNoLag, PTL

\* Also when the cache of pods lags, the parser runs in the pod.
LEMMA ParserIsHosted == Spec => []ParserHosted
<1>1. Init => ParserHosted
  BY DEF Init, ParserInit, ParserHosted
<1>2. ASSUME Inductive, ParserHosted, [Next]_vars PROVE ParserHosted'
  <2>1. CASE Next
    BY <1>2, <2>1, HostedStep DEF Inductive
  <2>2. CASE UNCHANGED vars
    BY <1>2, <2>2 DEF vars, cluster, parser, ParserHosted
  <2> QED BY <1>2, <2>1, <2>2
<1> QED BY <1>1, <1>2, InductiveInvariant, PTL DEF Spec

\* What the kubelet does to the pod is there for the user to see, or not.
LEMMA HostEffect ==
    ASSUME pb'.uid = pb.uid, pb'.status = pb.status
    PROVE  Abstract!Host \/ UNCHANGED <<AbstractStatus, AbstractHost>>
<1>1. AbstractHost' \in {"no", "stuck", "yes"}
  BY DEF AbstractHost
<1>2. AbstractStatus' = AbstractStatus
  BY DEF AbstractStatus
<1> QED BY <1>1, <1>2 DEF Abstract!Host

\* Each step is one that a user of the status may expect, or changes nothing
\* that such a user sees.
LEMMA StepIsAbstract ==
    ASSUME Inductive, ParserHosted, PodLag \/ InductiveNoLag, Next
    PROVE  Abstract!Next \/ UNCHANGED <<AbstractStatus, AbstractHost>>
<1> USE DEF AbstractStatus, AbstractHost, Abstract!Next
<1>a. /\ TypeOK /\ CopiesCurrent
      /\ PodLag \/ (NoPodFound /\ ValidIsParsed)
  BY DEF InductiveNoLag, Inductive
<1>1. ASSUME pb'.uid = pb.uid, pb'.status = pb.status, pod' = pod
      PROVE  UNCHANGED <<AbstractStatus, AbstractHost>>
  BY <1>1
<1>2. CASE User
  <2>1. ASSUME NEW i \in Images, CreateBundle(i) PROVE Abstract!Create
    <3>1. born + 1 # 0
      BY <1>a, UidType
    <3> QED BY <2>1, <3>1 DEF CreateBundle, WriteBundle, Abstract!Create
  <2>2. ASSUME NEW i \in Images, EditBundle(i)
        PROVE  UNCHANGED <<AbstractStatus, AbstractHost>>
    BY <1>a, <1>1, <2>2, EditEffect DEF EditBundle
  <2>3. ASSUME DeleteBundle PROVE Abstract!Delete
    <3>1. pb.status # "absent"
      BY <1>a DEF TypeOK, ClusterTypeOK, Bundle, Statuses
    <3> QED BY <2>3, <3>1 DEF DeleteBundle, WriteBundle, NoBundle, Abstract!Delete
  <2> QED BY <1>2, <2>1, <2>2, <2>3 DEF User
<1>3. CASE Informers \/ Collector
  BY <1>1, <1>3 DEF Informers, SyncBundle, SyncPod, Resync, Collector, CollectObject
<1>4. CASE Kubelet
  <2>1. pb' = pb
    BY <1>4 DEF Kubelet, StartFails, StartSucceeds, DeletePod
  <2> QED BY <2>1, HostEffect
<1>5. CASE ControllerNext
  <2>1. ASSUME NEW lost \in BOOLEAN, SetPending(lost) PROVE Abstract!Withdraw
    <3>1. pb.uid # 0 /\ pod' = pod
      BY <1>a, <2>1 DEF SetPending, InstanceCurrent, CopiesCurrent, TypeOK, ControllerTypeOK
    <3>2. (PodLag \/ pod.owner = 0) /\ pb.status # "absent"
      BY <1>a, <2>1 DEF SetPending, NoPodFound, TypeOK, ClusterTypeOK, Bundle, Statuses
    <3> QED BY <1>a, <2>1, <3>1, <3>2, PendingEffect DEF Abstract!Withdraw
  <2>2. ASSUME NEW lost \in BOOLEAN, ReportStartupError(lost) PROVE Abstract!Judge
    <3>1. pb.uid # 0 /\ pod' = pod
      BY <1>a, <2>2
      DEF ReportStartupError, InstanceCurrent, CopiesCurrent, TypeOK, ControllerTypeOK
    <3>2. (PodLag \/ pb.status # "VALID") /\ pb.status # "absent"
      BY <1>a, <2>2
      DEF ReportStartupError, ValidIsParsed, TypeOK, ClusterTypeOK, Bundle, Statuses
    <3> QED BY <1>a, <2>2, <3>1, <3>2, ReportEffect DEF Abstract!Judge
  <2>3. ASSUME NEW lost \in BOOLEAN, CreatePod(lost)
        PROVE  Abstract!Next \/ UNCHANGED <<AbstractStatus, AbstractHost>>
    BY <2>3, HostEffect DEF CreatePod
  <2>4. CASE GetBundle \/ GetPod \/ Refused \/ CallFails \/ OperatorRestarts
    BY <1>1, <2>4 DEF GetBundle, GetPod, Refused, CallFails, OperatorRestarts
  <2> QED BY <1>5, <2>1, <2>2, <2>3, <2>4 DEF ControllerNext, Reconcile
<1>6. CASE ParserNext
  <2>1. ASSUME NEW lost \in BOOLEAN, UpdateStatus(lost) PROVE Abstract!Judge
    <3>1. pb.uid # 0 /\ pod' = pod
      BY <1>a, <2>1
      DEF UpdateStatus, BundleCurrent, CopiesCurrent, TypeOK, ParserTypeOK
    <3>2. AbstractHost = "yes" /\ pb.status # "absent"
      BY <1>a, <2>1, VerdictHosted DEF TypeOK, ClusterTypeOK, Bundle, Statuses
    <3> QED BY <1>a, <2>1, <3>1, <3>2, VerdictEffect DEF Abstract!Judge, Abstract!Verdicts
  <2>2. CASE ~ \E lost \in BOOLEAN : UpdateStatus(lost)
    BY <1>a, <1>1, <1>6, <2>2, ParserLeavesBundle
  <2> QED BY <2>1, <2>2
<1> QED BY <1>2, <1>3, <1>4, <1>5, <1>6 DEF Next

\* The controller and the parser implement DataStreamStatus but for its fairness:
\* no VALID but from a pod that could start, nothing comes back of what was deleted, and, when
\* Reconcile reads the pod as it is, no VALID taken back while a pod is there.
THEOREM StatusIsSafe == Spec => StatusSteps
<1> DEFINE View == <<AbstractStatus, AbstractHost>>
<1>1. Init => Abstract!Init
  BY DEF Init, ClusterInit, NoBundle, NoPod, AbstractStatus, AbstractHost, Abstract!Init
<1>2. ASSUME Inductive, ParserHosted, PodLag \/ InductiveNoLag, [Next]_vars
      PROVE  [Abstract!Next]_View
  <2>1. CASE Next
    BY <1>2, <2>1, StepIsAbstract
  <2>2. CASE UNCHANGED vars
    BY <2>2 DEF vars, cluster, AbstractStatus, AbstractHost
  <2> QED BY <1>2, <2>1, <2>2
<1>3. CASE PodLag
  <2>1. Inductive /\ ParserHosted /\ [Next]_vars => [Abstract!Next]_View
    BY <1>2, <1>3
  <2> QED BY <1>1, <2>1, InductiveInvariant, ParserIsHosted, PTL DEF Spec, StatusSteps, Abstract!Safety
<1>4. CASE PodLag = FALSE
  <2>1. InductiveNoLag => Inductive /\ ParserHosted
    BY DEF InductiveNoLag
  <2>2. InductiveNoLag /\ [Next]_vars => [Abstract!Next]_View
    BY <1>2, <2>1
  <2> QED BY <1>1, <1>4, <2>2, InvarianceNoLag, PTL DEF Spec, StatusSteps, Abstract!Safety
<1> QED BY <1>3, <1>4, ConstantsAssumption
=============================================================================
