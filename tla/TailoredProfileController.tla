---------------------- MODULE TailoredProfileController ----------------------
(***************************************************************************)
(* The TailoredProfile controller: one worker that runs Reconcile          *)
(* (pkg/controller/tailoredprofile/tailoredprofile_controller.go) one API  *)
(* call at a time.  Between two calls any other actor may run.             *)
(***************************************************************************)
EXTENDS TailoredCluster

VARIABLES
    rpc,       \* the call Reconcile makes next, "idle" between two requests
    instance,  \* the TailoredProfile read from the cache at the start
    base,      \* the incarnation of the Profile it extends, once it is read
    at         \* the selection that is read next

controller == <<rpc, instance, base, at>>

ProfileCalls == {"adopt", "getBundle", "readSelection", "getOutput", "setReady",
                 "createOutput"}
Calls == {"setOutputType", "getProfile", "setError"} \cup ProfileCalls

ControllerTypeOK ==
    /\ rpc \in {"idle"} \cup Calls
    /\ instance \in Tailored
    /\ base \in 0..MaxUid
    /\ at \in 1..(Len(Selections(instance.spec)) + 1)
    /\ rpc # "idle" => instance.uid # 0
    /\ rpc = "setOutputType" => instance.spec.extends \in Profiles
    /\ rpc \in {"getProfile"} \cup ProfileCalls
         => instance.spec.extends \in Profiles /\ instance.spec.output # "unset"
    /\ rpc \in ProfileCalls => base # 0
    /\ rpc \in {"getProfile", "adopt", "getBundle"} => at = 1
    /\ rpc = "readSelection" => at <= Len(Selections(instance.spec))

ControllerInit == rpc = "idle" /\ instance = NoTailored /\ base = 0 /\ at = 1

\* Reconcile returns; an error requeues the request.
Return(requeue) ==
    /\ rpc' = "idle"
    /\ instance' = NoTailored
    /\ base' = 0
    /\ at' = 1
    /\ queued' = (queued \/ requeue)

Proceed(call) == rpc' = call /\ UNCHANGED <<instance, base, at, queued>>

\* validateTailoredProfile: the call that a spec asks for first.  (Undefaulted:
\* with the output type taken as it is.)
ValidatedUndefaulted(s) ==
    IF s.extends = "none" THEN "setError" ELSE "getProfile"

Validated(s) ==
    IF s.extends = "none" THEN "setError"
    ELSE IF s.output = "unset" THEN "setOutputType" ELSE "getProfile"

\* The statuses that Reconcile writes.  (Unnamed: an error takes the output back.)
Ready(t) == [t EXCEPT !.state = "READY",
                      !.ref = IF t.spec.output = "Policy" THEN "dangling"
                                                          ELSE "configMap"]
FailedUnnamed(t) == [t EXCEPT !.state = "ERROR", !.err = TRUE, !.ref = "none"]
Failed(t) == [t EXCEPT !.state = "ERROR", !.err = TRUE]

\* What is made of a TailoredProfile.  (Reread: with a second look at the cache.)
RenderedReread(t) == [of |-> t.uid, doc |-> Document(tpCache.spec)]
Rendered(t) == [of |-> t.uid, doc |-> Document(t.spec)]

\* When the first i - 1 selections are read, the i-th follows, if there is one.
\* (Early: but not the last one.)
SelectionOrEarly(i) ==
    IF i < Len(Selections(instance.spec)) THEN "readSelection" ELSE "getOutput"
SelectionOr(i) ==
    IF i <= Len(Selections(instance.spec)) THEN "readSelection" ELSE "getOutput"

\* A bad selection goes into the status.  (Silent: or nowhere.)
BadSelectionSilent == "idle"
BadSelection == "setError"

OutputExists ==
    IF instance.spec.output = "Policy" THEN policy.of # 0 ELSE cmCache

\* The API server accepts an update from a current copy only.  (Unchecked: or
\* from any copy, as an update without a resourceVersion.)
InstanceUnchecked == TRUE
InstanceCurrent == "instance" \in fresh

-----------------------------------------------------------------------------
GetTailored ==
    /\ rpc = "idle"
    /\ queued
    /\ queued' = FALSE
    /\ instance' = tpCache
    /\ base' = 0
    /\ at' = 1
    /\ rpc' = IF tpCache.uid = 0 THEN "idle" ELSE Validated(tpCache.spec)
    /\ fresh' = IF "tpCache" \in fresh /\ tpCache.uid # 0
                  THEN fresh \cup {"instance"} ELSE fresh \ {"instance"}
    /\ UNCHANGED <<store, tp, cm, policy, tpCache, cmCache, tpBorn, left>>

\* The output type gets its default; the update's event starts Reconcile anew.
SetOutputType(lost) ==
    /\ rpc = "setOutputType"
    /\ InstanceCurrent
    /\ Answered(lost)
    /\ WriteTailored([instance EXCEPT !.spec = Defaulted(instance.spec)], {"instance"})
    /\ Return(lost)
    /\ UNCHANGED <<store, cm, policy, tpCache, cmCache, tpBorn>>

GetProfile ==
    /\ rpc = "getProfile"
    /\ base' \in Seen(objs[instance.spec.extends])
    /\ rpc' = IF base' = 0 THEN "setError"
              ELSE IF instance.owners[instance.spec.extends] = base' THEN "getBundle"
              ELSE "adopt"
    /\ UNCHANGED <<cluster, instance, at>>

\* The owners with the Profile among them.  (Sole: or in their place.)
SoleOwner(owners) == [NoOwners EXCEPT ![instance.spec.extends] = base]
OwnersWith(owners) == [owners EXCEPT ![instance.spec.extends] = base]

\* The Profile becomes an owner, in place of an earlier incarnation of it; the
\* update's event starts Reconcile anew.
Adopt(lost) ==
    /\ rpc = "adopt"
    /\ InstanceCurrent
    /\ Answered(lost)
    /\ WriteTailored([instance EXCEPT !.owners = OwnersWith(@)], {"instance"})
    /\ Return(lost)
    /\ UNCHANGED <<store, cm, policy, tpCache, cmCache, tpBorn>>

\* The Profile's bundle is looked up by name; without it the request is retried.
GetBundle ==
    /\ rpc = "getBundle"
    /\ \E uid \in Seen(bundle) :
          IF uid = 0 THEN Return(TRUE) /\ fresh' = fresh \ {"instance"}
                     ELSE Proceed(SelectionOr(1)) /\ UNCHANGED fresh
    /\ UNCHANGED <<store, tp, cm, policy, tpCache, cmCache, tpBorn, left>>

\* One selected rule or variable is read: the document lists it, or the user is
\* told that it is not there or not acceptable.
ReadSelection ==
    /\ rpc = "readSelection"
    /\ \E found \in Found(Selections(instance.spec)[at]) :
          IF Acceptable(instance.spec, at) /\ found
            THEN rpc' = SelectionOr(at + 1) /\ at' = at + 1
            ELSE rpc' = BadSelection /\ UNCHANGED at
    /\ UNCHANGED <<cluster, instance, base>>

\* An output that exists is left as it is, and so is the status; of one that
\* does not, the status is written first.  (OutputFirst: or the output.)
OutputFirst == "createOutput"
MissingOutput == "setReady"

GetOutput ==
    /\ rpc = "getOutput"
    /\ IF OutputExists
         THEN Return(FALSE) /\ fresh' = fresh \ {"instance"}
         ELSE Proceed(MissingOutput) /\ UNCHANGED fresh
    /\ UNCHANGED <<store, tp, cm, policy, tpCache, cmCache, tpBorn, left>>

\* The status becomes READY ...
SetReady(lost) ==
    /\ rpc = "setReady"
    /\ InstanceCurrent
    /\ Answered(lost)
    /\ WriteTailored(Ready(instance), {"instance"})
    /\ IF lost THEN Return(TRUE) ELSE Proceed("createOutput")
    /\ UNCHANGED <<store, cm, policy, tpCache, cmCache, tpBorn>>

\* ... and then the output is created.
CreateOutput(lost) ==
    /\ rpc = "createOutput"
    /\ Answered(lost)
    /\ IF instance.spec.output = "Policy"
         THEN /\ policy.of = 0
              /\ policy' = Rendered(instance)
              /\ UNCHANGED <<cm, fresh>>
         ELSE /\ cm.of = 0
              /\ WriteConfigMap(Rendered(instance), {})
              /\ UNCHANGED policy
    /\ Return(lost)
    /\ UNCHANGED <<store, tp, tpCache, cmCache, tpBorn>>

SetError(lost) ==
    /\ rpc = "setError"
    /\ InstanceCurrent
    /\ Answered(lost)
    /\ WriteTailored(Failed(instance), {"instance"})
    /\ Return(lost)
    /\ UNCHANGED <<store, cm, policy, tpCache, cmCache, tpBorn>>

\* The API server refuses the call: a stale copy (Conflict), a TailoredProfile
\* that is gone (NotFound), an output that is there (AlreadyExists).
Refused ==
    /\ \/ rpc \in {"setOutputType", "adopt", "setReady", "setError"} /\ ~InstanceCurrent
       \/ /\ rpc = "createOutput"
          /\ IF instance.spec.output = "Policy" THEN policy.of # 0 ELSE cm.of # 0
    /\ Return(TRUE)
    /\ fresh' = fresh \ {"instance"}
    /\ UNCHANGED <<store, tp, cm, policy, tpCache, cmCache, tpBorn, left>>

\* A call fails before it has an effect.
CallFails ==
    /\ rpc # "idle"
    /\ Spend("api")
    /\ Return(TRUE)
    /\ fresh' = fresh \ {"instance"}
    /\ UNCHANGED <<store, tp, cm, policy, tpCache, cmCache, tpBorn>>

\* The operator dies and starts again with caches listed anew.
OperatorRestarts ==
    /\ Spend("crash")
    /\ rpc' = "idle"
    /\ instance' = NoTailored
    /\ base' = 0
    /\ at' = 1
    /\ tpCache' = tp
    /\ cmCache' = (cm.of # 0)
    /\ fresh' = (fresh \cup {"tpCache", "cmCache"}) \ {"instance"}
    /\ queued' = (tp.uid # 0 \/ cm.of # 0)
    /\ UNCHANGED <<store, tp, cm, policy, tpBorn>>

\* A step of Reconcile in which nothing goes wrong on the way.
Reconcile ==
    \/ GetTailored
    \/ SetOutputType(FALSE)
    \/ GetProfile
    \/ Adopt(FALSE)
    \/ GetBundle
    \/ ReadSelection
    \/ GetOutput
    \/ SetReady(FALSE)
    \/ CreateOutput(FALSE)
    \/ SetError(FALSE)
    \/ Refused

ControllerNext ==
    \/ Reconcile
    \/ \/ SetOutputType(TRUE)
       \/ Adopt(TRUE)
       \/ SetReady(TRUE)
       \/ CreateOutput(TRUE)
       \/ SetError(TRUE)
    \/ CallFails
    \/ OperatorRestarts
=============================================================================
