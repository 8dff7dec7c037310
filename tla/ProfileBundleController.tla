----------------------- MODULE ProfileBundleController -----------------------
(***************************************************************************)
(* The ProfileBundle controller: one worker that runs Reconcile            *)
(* (pkg/controller/profilebundle/profilebundle_controller.go) one API call *)
(* at a time.  Between two calls any other actor may run.                  *)
(***************************************************************************)
EXTENDS BundleCluster

VARIABLES
    rpc,       \* the call Reconcile makes next, "idle" between two requests
    instance   \* the ProfileBundle read from the cache at the start

controller == <<rpc, instance>>

ControllerTypeOK ==
    /\ rpc \in {"idle", "getPod", "setPending", "createPod", "report"}
    /\ instance \in Bundle
    /\ rpc # "idle" => instance.uid # 0

ControllerInit == rpc = "idle" /\ instance = NoBundle

\* Reconcile returns; an error requeues the request.
Return(requeue) ==
    /\ rpc' = "idle"
    /\ instance' = NoBundle
    /\ queued' = (queued \/ requeue)

\* The init container could not start because its image cannot be pulled.  Reconcile
\* knows no other reason.
PodStartupError(p) == p.init = "pullError"

\* What the pod found in the cache makes Reconcile do.  (CreateFirst: with the
\* status written last; Always: whether there is a pod or not; NoReport: with no
\* look at the init container.)
AfterGetPodCreateFirst(found) ==
    IF found.owner = 0 THEN "createPod"
    ELSE IF PodStartupError(found) THEN "report" ELSE "idle"
AfterGetPodAlways(found) ==
    IF PodStartupError(found) THEN "report" ELSE "setPending"

AfterGetPod(found) ==
    IF found.owner = 0 THEN "setPending"
    ELSE IF PodStartupError(found) THEN "report" ELSE "idle"

\* The statuses that Reconcile writes.  (Unmarked, InitFailedSilently: with a
\* field forgotten.)
Unmarked(b) == b
Pending(b)  == [b EXCEPT !.status = "PENDING"]

InitFailedSilently(b) == [b EXCEPT !.status = "INVALID"]
InitFailed(b) == [b EXCEPT !.status = "INVALID", !.err = "init"]

\* The API server accepts a status update from a current copy only.
\* (Unchecked: or from any copy, as an update without a resourceVersion.)
InstanceUnchecked == TRUE
InstanceCurrent == "instance" \in fresh

-----------------------------------------------------------------------------
\* The request is taken off the queue and the ProfileBundle is read from the
\* cache; when it is not there, nothing is left to do.
GetBundle ==
    /\ rpc = "idle"
    /\ queued
    /\ queued' = FALSE
    /\ instance' = pbCache
    /\ rpc' = IF pbCache.uid = 0 THEN "idle" ELSE "getPod"
    /\ fresh' = IF "pbCache" \in fresh /\ pbCache.uid # 0
                  THEN fresh \cup {"instance"} ELSE fresh \ {"instance"}
    /\ UNCHANGED <<pb, pod, objs, pbCache, podCache, born, left>>

\* The pod is read from the cache.
GetPod ==
    /\ rpc = "getPod"
    /\ PodLag \/ "podCache" \in fresh
    /\ LET next == AfterGetPod(podCache)
       IN  IF next = "idle"
             THEN Return(FALSE) /\ fresh' = fresh \ {"instance"}
             ELSE rpc' = next /\ UNCHANGED <<instance, queued, fresh>>
    /\ UNCHANGED <<pb, pod, objs, pbCache, podCache, born, left>>

\* There is no pod: the status becomes PENDING.
SetPending(lost) ==
    /\ rpc = "setPending"
    /\ InstanceCurrent
    /\ Answered(lost)
    /\ WriteBundle(Pending(instance), {"instance"})
    /\ IF lost THEN Return(TRUE)
               ELSE rpc' = "createPod" /\ UNCHANGED <<instance, queued>>
    /\ UNCHANGED <<pod, objs, pbCache, podCache, born>>

\* ... and then the pod is created, owned by the ProfileBundle read above.
CreatePod(lost) ==
    /\ rpc = "createPod"
    /\ pod.owner = 0
    /\ Answered(lost)
    /\ WritePod([owner |-> instance.uid, image |-> instance.image,
                 init |-> "waiting"], {"instance"})
    /\ Return(lost)
    /\ UNCHANGED <<pb, objs, pbCache, podCache, born>>

\* The init container could not start: the status becomes INVALID.
ReportStartupError(lost) ==
    /\ rpc = "report"
    /\ InstanceCurrent
    /\ Answered(lost)
    /\ WriteBundle(InitFailed(instance), {"instance"})
    /\ Return(lost)
    /\ UNCHANGED <<pod, objs, pbCache, podCache, born>>

\* The API server refuses the call: a stale copy (Conflict), a ProfileBundle
\* that is gone (NotFound), a pod that is there (AlreadyExists).
Refused ==
    /\ \/ rpc \in {"setPending", "report"} /\ ~InstanceCurrent
       \/ rpc = "createPod" /\ pod.owner # 0
    /\ Return(TRUE)
    /\ fresh' = fresh \ {"instance"}
    /\ UNCHANGED <<pb, pod, objs, pbCache, podCache, born, left>>

\* A call fails before it has an effect.
CallFails ==
    /\ rpc \in {"getPod", "setPending", "createPod", "report"}
    /\ Spend("api")
    /\ Return(TRUE)
    /\ fresh' = fresh \ {"instance"}
    /\ UNCHANGED <<pb, pod, objs, pbCache, podCache, born>>

\* The operator dies and starts again: its caches are listed anew before the
\* worker runs, and each object listed is enqueued.
OperatorRestarts ==
    /\ Spend("crash")
    /\ rpc' = "idle"
    /\ instance' = NoBundle
    /\ pbCache' = pb
    /\ podCache' = pod
    /\ fresh' = (fresh \cup {"pbCache", "podCache"}) \ {"instance"}
    /\ queued' = (pb.uid # 0 \/ pod.owner # 0)
    /\ UNCHANGED <<pb, pod, objs, born>>

\* A step of Reconcile in which nothing goes wrong on the way.
Reconcile ==
    \/ GetBundle
    \/ GetPod
    \/ SetPending(FALSE)
    \/ CreatePod(FALSE)
    \/ ReportStartupError(FALSE)
    \/ Refused

ControllerNext ==
    \/ Reconcile
    \/ SetPending(TRUE)
    \/ CreatePod(TRUE)
    \/ ReportStartupError(TRUE)
    \/ CallFails
    \/ OperatorRestarts
=============================================================================
