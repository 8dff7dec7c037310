--------------------------- MODULE BundleLifecycle ---------------------------
(***************************************************************************)
(* The life of a ProfileBundle: the controller, the parser and the rest of *)
(* the cluster, running concurrently.                                      *)
(***************************************************************************)
EXTENDS ProfileBundleController, ProfileParser

vars == <<cluster, controller, parser>>

Init == ClusterInit /\ ControllerInit /\ ParserInit

\* What the user, the garbage collector and the operator's informers do leaves
\* the controller and the parser alone.
User ==
    \/ \E i \in Images : CreateBundle(i) \/ EditBundle(i)
    \/ DeleteBundle

Informers == SyncBundle \/ SyncPod \/ Resync

Collector == \E o \in Objects : CollectObject(o)

\* The parser starts when the init container has run, and dies with its pod.
Kubelet ==
    \/ StartFails /\ UNCHANGED parser
    \/ StartSucceeds /\ ParserStarts
    \/ \E drained \in BOOLEAN : DeletePod(drained) /\ ParserKilled

Next ==
    \/ (User \/ Informers \/ Collector) /\ UNCHANGED <<controller, parser>>
    \/ Kubelet /\ UNCHANGED controller
    \/ ControllerNext /\ UNCHANGED parser
    \/ ParserNext /\ UNCHANGED controller

Spec == Init /\ [][Next]_vars

(***************************************************************************)
(* Fairness.  The worker goroutine, the informers, the kubelet, the parser *)
(* container and the garbage collector keep running; what the user does    *)
(* and what goes wrong is never forced.  The kubelet goes on trying to     *)
(* start the init container; how that ends is what Startup says.           *)
(***************************************************************************)
Fairness ==
    /\ WF_vars(Reconcile /\ UNCHANGED parser)
    /\ WF_vars(SyncBundle /\ UNCHANGED <<controller, parser>>)
    /\ WF_vars(SyncPod /\ UNCHANGED <<controller, parser>>)
    /\ WF_vars(StartSucceeds /\ ParserStarts /\ UNCHANGED controller)
    /\ WF_vars(/\ StartFails /\ pod'.init = Startup[pod.image]
               /\ UNCHANGED <<controller, parser>>)
    /\ WF_vars(Parse /\ UNCHANGED controller)
    /\ WF_vars(DeletePod(FALSE) /\ ParserKilled /\ UNCHANGED controller)
    /\ \A o \in Objects :
         WF_vars(CollectObject(o) /\ UNCHANGED <<controller, parser>>)

FairSpec == Spec /\ Fairness

-----------------------------------------------------------------------------
TypeOK == ClusterTypeOK /\ ControllerTypeOK /\ ParserTypeOK

\* The pod was made for this incarnation of the ProfileBundle.
OwnPod == pb.uid # 0 /\ pod.owner # 0 /\ pod.owner = pb.uid

\* The user has not changed spec.contentImage.
Unedited == left["edit"] = Budget["edit"]

GoodObjects(i, p) ==
    {Content[i].doc[p][n].obj : n \in {m \in 1..Len(Content[i].doc[p]) :
                                         Content[i].doc[p][m].form = "good"}}

\* A parser that runs to its end calls the data stream of image i VALID.
Sound(i) ==
    /\ Startup[i] = "ready"
    /\ Content[i].file = "ok"
    /\ \A p \in 1..3 : \A n \in 1..Len(Content[i].doc[p]) :
         Content[i].doc[p][n].form # "malformed"

\* The pod of an incarnation exists only after that incarnation's status was
\* marked PENDING: in Reconcile the status update comes first, and a failure of
\* either call, a crash between them or a recreated bundle does not undo this.
PodImpliesMarked == OwnPod => pb.status # "unset"

\* An INVALID bundle says why, whoever wrote last: the controller and the
\* parser both write the status, and only some of their writes set the message.
InvalidHasMessage == pb.uid # 0 /\ pb.status = "INVALID" => pb.err # "none"

\* VALID promises the Profiles: while the first incarnation is VALID, each
\* well-formed Profile of its data stream exists, through crashes, reruns of
\* the parser and lost replies.  (Of Rules and Variables this is not true:
\* their creation errors are only logged.)
ProfilesComplete ==
    pb.uid # 0 /\ pb.uid = 1 /\ pb.status = "VALID" /\ Unedited
        => \A o \in GoodObjects(pb.image, 1) : objs[o] # 0

\* PENDING says that the data stream has not been processed: it never stands
\* beside a parser that has given this bundle its verdict and gone.
PendingMeansUnprocessed == OwnPod /\ pb.status = "PENDING" => ppc # "done"


\* In the end a bundle whose pod could not even start is INVALID.
StartErrorsReported ==
    <>[](OwnPod /\ pod.init \in StartErrors => pb.status = "INVALID")

\* A sound data stream ends up VALID, whatever crashed on the way.
SoundBecomesValid ==
    <>[](pb.uid # 0 /\ Sound(pb.image) => pb.status = "VALID")

\* Nothing of a deleted bundle stays: in the end, the pod and every object
\* belong to the bundle that exists, even what was created after its owner's
\* deletion by a controller or a parser that had not noticed.
NothingLeftBehind ==
    <>[](/\ pod.owner # 0 => OwnPod
         /\ \A o \in Objects : objs[o] # 0 => ~Orphaned(objs[o]))

\* In the end a VALID bundle has all objects of its data stream.
ValidIsUsable ==
    <>[](pb.uid # 0 /\ pb.status = "VALID"
           => \A p \in 1..3 : \A o \in GoodObjects(pb.image, p) : objs[o] # 0)

-----------------------------------------------------------------------------
(* The inductive strengthening of the safety properties above.              *)

\* A copy with the current resourceVersion is the current object.
CopiesCurrent ==
    /\ "pbCache"  \in fresh => pbCache = pb
    /\ "instance" \in fresh => instance = pb
    /\ "bundle"   \in fresh => bundle = pb

\* Only the latest incarnation exists, and nothing is of a later one.
UidsBorn ==
    /\ pb.uid \in {0, born}
    /\ pbCache.uid <= born
    /\ instance.uid <= born
    /\ bundle.uid <= born
    /\ pod.owner <= born
    /\ \A o \in Objects : objs[o] <= born

\* The pod that is about to be created is of a bundle marked PENDING already.
MarkedBeforeCreate ==
    rpc = "createPod" /\ pb.uid # 0 /\ instance.uid = pb.uid
        => pb.status # "unset"

FirstUnedited == pb.uid = 1 /\ Unedited

\* Unedited, the first incarnation has the same image everywhere.
ImagesAgree ==
    /\ left["edit"] <= Budget["edit"]
    /\ FirstUnedited =>
         /\ pbCache.uid = 1  => pbCache.image = pb.image
         /\ instance.uid = 1 => instance.image = pb.image
         /\ pod.owner = 1    => pod.image = pb.image

\* A parser that reached the Rules, or that will say VALID, has seen to it that
\* each well-formed Profile exists; within the first pass, those before pos.
Passed(n) == ppc = "verdict" \/ pass > 1 \/ n < pos

ParsedSoFar ==
    /\ ppc \notin {"parse", "verdict"} => pass = 1 /\ pos = 1
    /\ FirstUnedited /\ (ppc = "parse" \/ (ppc = "verdict" /\ perr = "none"))
         => LET profiles == Content[pod.image].doc[1]
            IN  \A n \in 1..Len(profiles) :
                  profiles[n].form = "good" /\ Passed(n)
                    => objs[profiles[n].obj] # 0

Inductive ==
    /\ TypeOK
    /\ CopiesCurrent
    /\ UidsBorn
    /\ MarkedBeforeCreate
    /\ PodImpliesMarked
    /\ InvalidHasMessage
    /\ ImagesAgree
    /\ ParsedSoFar
    /\ ProfilesComplete

-----------------------------------------------------------------------------
(* The strengthening for a pod that Reconcile reads as it is (~PodLag).      *)

PodCacheCurrent == "podCache" \in fresh => podCache = pod

\* No pod is made but by the worker that has found none.
NoPodFound == rpc \in {"setPending", "createPod"} => pod.owner = 0

\* The parser runs in the pod, and after the init container.
ParserHosted == ppc # "off" => pod.owner # 0 /\ pod.init = "ready"

\* Before its pod has run the parser no bundle is VALID, and no report that
\* the pod cannot start meets one that is.
ValidIsParsed ==
    /\ pod.owner # 0 /\ pod.init # "ready" => pb.status # "VALID"
    /\ rpc = "createPod" => pb.status # "VALID"
    /\ rpc = "report" /\ InstanceCurrent => pb.status # "VALID"

\* A parser that is done has judged the bundle that is there, or that one is
\* a later incarnation, not marked yet.
DoneIsJudged == ppc = "done" => pb.status # "PENDING"

InductiveNoLag ==
    /\ Inductive
    /\ PodCacheCurrent
    /\ NoPodFound
    /\ ParserHosted
    /\ ValidIsParsed
    /\ DoneIsJudged

-----------------------------------------------------------------------------
\* The bundle's status as DataStreamStatus sees it.
AbstractStatus == IF pb.uid = 0 THEN "absent" ELSE pb.status

AbstractHost == CASE pod.owner = 0                               -> "no"
                  [] pod.owner # 0 /\ pod.init = "otherError" -> "stuck"
                  [] pod.owner # 0 /\ pod.init # "otherError" -> "yes"

Abstract == INSTANCE DataStreamStatus WITH
                status <- AbstractStatus, hosted <- AbstractHost, Lag <- PodLag

\* The objects, as the rest of the operator sees them.
Store == INSTANCE ContentStore WITH bundle <- pb.uid


\* ... whose steps are the only ones also while the pod cache lags: VALID is only
\* said from a pod that is not stuck, and neither a deleted bundle nor the status of a new
\* one ever comes back through the update of an old copy.
StatusSteps == Abstract!Safety

\* ... and ContentStore: an object that exists is not given to another owner by
\* a parser of a later incarnation, and none goes while its owner lives.
ImplementsStore == Store!StoreSpec
=============================================================================
