---------------------------- MODULE BundleCluster ----------------------------
(***************************************************************************)
(* The part of a Kubernetes cluster that the life of one ProfileBundle     *)
(* touches: the API objects (the ProfileBundle, its parser pod and the     *)
(* Profile, Rule and Variable objects made from the data stream), the      *)
(* operator's informer caches, and the actors that are not this            *)
(* repository's code: the user, the kubelet, the garbage collector.        *)
(*                                                                         *)
(* A resourceVersion is only ever compared for equality with the current   *)
(* one, so the module keeps no numbers: fresh is the set of the copies of  *)
(* an object whose resourceVersion is the current one.  A write that       *)
(* changes the object makes every copy stale; a write that changes nothing *)
(* is accepted by the API server and keeps the resourceVersion.            *)
(***************************************************************************)
EXTENDS Naturals, Sequences

CONSTANTS
    Images,     \* content images a ProfileBundle may name
    Startup,    \* Startup[i]: how starting the init container of image i ends
    Objects,    \* names of the objects that parsing may create
    Content,    \* Content[i]: the data stream that image i holds
    MaxUid,     \* how many times the user creates the ProfileBundle
    Budget,     \* Budget[k]: how many times a fault of kind k happens
    PodLag      \* may the Pod informer lag behind the API server?

FaultKinds == {"api",    \* an API call fails, or its reply is lost
               "crash",  \* the operator or the parser container dies
               "drain",  \* somebody deletes the parser pod
               "edit",   \* the user changes spec.contentImage
               "start"}  \* starting fails for a while, or otherwise than usual

\* What the kubelet reports of an init container that it cannot start: the image
\* cannot be pulled ("ErrImagePull", "ImagePullBackOff"), or any other reason, as
\* that the image's name is malformed, that there is no shell to run in it, or that
\* the pod finds no node.
StartErrors == {"pullError", "otherError"}

\* "unset" is the empty string that a new object has.
Statuses == {"unset", "PENDING", "VALID", "INVALID"}
Verdicts == {"VALID", "INVALID"}

\* The error messages, told apart by who writes them and for what.
Messages == {"none",      \* empty
             "init",      \* the init container failed to start
             "file",      \* couldn't read content file
             "xml",       \* couldn't read content XML
             "malformed", \* an element without id, title or description
             "api"}       \* a Profile could not be created

\* An element of the data stream: the object it stands for, and what the
\* parser makes of it.  A "skipped" element is a hidden variable, or one with
\* two default values.
Item == [obj: Objects, form: {"good", "malformed", "skipped"}]

\* doc[1], doc[2] and doc[3] are the document's Profile, Rule and Value
\* elements, in document order.
DataStream == [file: {"ok", "missing", "badXml"}, doc: [1..3 -> Seq(Item)]]

\* Uid 0 stands for an object that is not there; the other fields of such an
\* object mean nothing.
Bundle == [uid: 0..MaxUid, image: Images, status: Statuses, err: Messages]
Pod    == [owner: 0..MaxUid, image: Images,
           init: {"waiting", "ready"} \cup StartErrors]

AnyImage == CHOOSE i \in Images : TRUE
NoBundle == [uid |-> 0, image |-> AnyImage, status |-> "unset", err |-> "none"]
NoPod    == [owner |-> 0, image |-> AnyImage, init |-> "waiting"]

BundleCopies == {"pbCache", "instance", "bundle"}
Copies       == BundleCopies \cup {"podCache"}

ASSUME ConstantsAssumption ==
    /\ Images # {}
    /\ Startup \in [Images -> StartErrors \cup {"ready"}]
    /\ Content \in [Images -> DataStream]
    /\ MaxUid \in Nat
    /\ Budget \in [FaultKinds -> Nat]
    /\ PodLag \in BOOLEAN

VARIABLES
    pb,        \* the ProfileBundle
    pod,       \* the parser pod
    objs,      \* objs[o]: uid of the ProfileBundle owning o, 0 if o is absent
    pbCache,   \* the operator's informer cache of the ProfileBundle
    podCache,  \* ... and of the pod
    fresh,     \* the copies that hold their object's current version
    queued,    \* is the ProfileBundle's name in the operator's workqueue?
    born,      \* number of ProfileBundles created so far
    left       \* left[k]: faults of kind k that may still happen

cluster == <<pb, pod, objs, pbCache, podCache, fresh, queued, born, left>>

ClusterTypeOK ==
    /\ pb \in Bundle
    /\ pod \in Pod
    /\ objs \in [Objects -> 0..MaxUid]
    /\ pbCache \in Bundle
    /\ podCache \in Pod
    /\ fresh \in SUBSET Copies
    /\ queued \in BOOLEAN
    /\ born \in 0..MaxUid
    /\ left \in [FaultKinds -> Nat]

ClusterInit ==
    /\ pb = NoBundle
    /\ pod = NoPod
    /\ objs = [o \in Objects |-> 0]
    /\ pbCache = NoBundle
    /\ podCache = NoPod
    /\ fresh = {"pbCache", "podCache"}
    /\ queued = FALSE
    /\ born = 0
    /\ left = Budget

-----------------------------------------------------------------------------
(* The API server *)

\* The ProfileBundle becomes new, and the caller lets go of its copies
\* released.  A write that changes nothing keeps the resourceVersion.
WriteBundle(new, released) ==
    /\ pb' = new
    /\ fresh' = (IF new = pb THEN fresh ELSE fresh \ BundleCopies) \ released

WritePod(new, released) ==
    /\ pod' = new
    /\ fresh' = (fresh \ {"podCache"}) \ released

\* Creating o for the ProfileBundle uid; AlreadyExists leaves o as it is.
\* (Replace: or an existing object gets the new owner.)
ReplaceObject(o, uid) == objs' = [objs EXCEPT ![o] = uid]

CreateObject(o, uid) ==
    objs' = IF objs[o] = 0 THEN [objs EXCEPT ![o] = uid] ELSE objs

\* A fault of kind k happens.
Spend(k) == left[k] > 0 /\ left' = [left EXCEPT ![k] = @ - 1]

\* An API call is answered, or (lost) its effect happens but the reply is lost.
Answered(lost) == IF lost THEN Spend("api") ELSE left' = left

\* No ProfileBundle with this uid is left.
Orphaned(uid) == pb.uid # 0 => pb.uid # uid

-----------------------------------------------------------------------------
(* The user *)

CreateBundle(i) ==
    /\ pb.uid = 0
    /\ born < MaxUid
    /\ born' = born + 1
    /\ WriteBundle([uid |-> born + 1, image |-> i, status |-> "unset", err |-> "none"], {})
    /\ UNCHANGED <<pod, objs, pbCache, podCache, queued, left>>

DeleteBundle ==
    /\ pb.uid # 0
    /\ WriteBundle(NoBundle, {})
    /\ UNCHANGED <<pod, objs, pbCache, podCache, queued, born, left>>

EditBundle(i) ==
    /\ pb.uid # 0
    /\ pb.image # i
    /\ Spend("edit")
    /\ WriteBundle([pb EXCEPT !.image = i], {})
    /\ UNCHANGED <<pod, objs, pbCache, podCache, queued, born>>

-----------------------------------------------------------------------------
(* The kubelet: starting the pod's init container from the content image.  *)
(* Once started, its command succeeds ("cp ... | /bin/true").              *)

\* Starting fails, and is tried again: for another reason than usual a few times.
StartFails ==
    /\ pod.owner # 0
    /\ pod.init # "ready"
    /\ \E reason \in StartErrors \ {pod.init} :
         /\ IF reason = Startup[pod.image] THEN left' = left ELSE Spend("start")
         /\ WritePod([pod EXCEPT !.init = reason], {})
    /\ UNCHANGED <<pb, objs, pbCache, podCache, queued, born>>

StartSucceeds ==
    /\ pod.owner # 0
    /\ pod.init # "ready"
    /\ Startup[pod.image] = "ready"
    /\ WritePod([pod EXCEPT !.init = "ready"], {"bundle"})
    /\ UNCHANGED <<pb, objs, pbCache, podCache, queued, born, left>>

\* The pod's controller reference leads to a ProfileBundle that is gone.
\* (Forgotten: what would be if the reference were not set.)
PodForgotten == FALSE
PodCollectable == Orphaned(pod.owner)

\* The pod goes, deleted by somebody or collected because its owner is gone,
\* and with it what the parser had read.
DeletePod(drained) ==
    /\ pod.owner # 0
    /\ IF drained THEN Spend("drain") ELSE PodCollectable /\ left' = left
    /\ WritePod(NoPod, {"bundle"})
    /\ UNCHANGED <<pb, objs, pbCache, podCache, queued, born>>

\* The garbage collector deletes an object whose owner is gone.
CollectObject(o) ==
    /\ objs[o] # 0
    /\ Orphaned(objs[o])
    /\ objs' = [objs EXCEPT ![o] = 0]
    /\ UNCHANGED <<pb, pod, pbCache, podCache, fresh, queued, born, left>>

-----------------------------------------------------------------------------
(* The operator's informers.  Each event enqueues the ProfileBundle's name,  *)
(* the pod's by its controller reference, which names the owner.             *)

SyncBundle ==
    /\ "pbCache" \notin fresh
    /\ pbCache' = pb
    /\ fresh' = fresh \cup {"pbCache"}
    /\ queued' = TRUE
    /\ UNCHANGED <<pb, pod, objs, podCache, born, left>>

\* (Unwatched: the pod's events enqueue nothing.)
SyncPodUnwatched ==
    /\ "podCache" \notin fresh
    /\ podCache' = pod
    /\ fresh' = fresh \cup {"podCache"}
    /\ UNCHANGED <<pb, pod, objs, pbCache, queued, born, left>>

SyncPod ==
    /\ "podCache" \notin fresh
    /\ podCache' = pod
    /\ fresh' = fresh \cup {"podCache"}
    /\ queued' = TRUE
    /\ UNCHANGED <<pb, pod, objs, pbCache, born, left>>

\* The periodic resync, and events of the pod's other containers.
Resync ==
    /\ pbCache.uid # 0 \/ podCache.owner # 0
    /\ queued' = TRUE
    /\ UNCHANGED <<pb, pod, objs, pbCache, podCache, fresh, born, left>>
=============================================================================
